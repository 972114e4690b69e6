---------------------- MODULE FixpositionDriver_proofs ----------------------
(***************************************************************************)
(* For any number of messages and of starts: the node and its worker never *)
(* use the connection at once, and stopping leaves nothing behind.         *)
(***************************************************************************)
EXTENDS FixpositionDriver, TLAPS

(* While the worker runs, StopDriver() and ~Thread() can tell: the status    *)
(* says so, unless the main thread is still between the creation of the      *)
(* thread and the status.  And what the observers publish with is there.     *)
WorkerIsKnown ==
    ~WorkerOver => /\ publishers = TRUE
                   /\ \/ main = "created thread"
                      \/ started = TRUE /\ status = "RUNNING"

(* Where the main thread knows that there is no worker.                      *)
NoWorker ==
    main \in {"created", "starting", "disconnect", "stopped", "destroying", "wakeup last",
              "join last", "destroyed"} => WorkerOver

Starting == main \in {"starting", "created thread"} => publishers = TRUE

(* After StopDriver() the connection is down and nobody makes a new one.     *)
Stopped ==
    /\ main \in {"stopped", "destroying", "wakeup last", "join last", "destroyed"} =>
          connected = FALSE
    /\ main = "destroyed" => started = FALSE

(* A worker that was notified has the notification before it or took it.     *)
Notification ==
    main \in {"join", "join last"} =>
        /\ worker # "sleeping"
        /\ pend = TRUE \/ worker \in {"none", "returning", "ended"}

(* TypeOK, the Boolean variables apart.                                      *)
Flags ==
    /\ abort \in BOOLEAN /\ started \in BOOLEAN /\ pend \in BOOLEAN
    /\ connected \in BOOLEAN /\ stream \in BOOLEAN /\ publishers \in BOOLEAN
    /\ serial \in BOOLEAN
Places ==
    /\ main \in {"created", "starting", "created thread", "spinning", "stopDriver", "wakeup",
                  "join", "disconnect", "stopped", "destroying", "wakeup last", "join last",
                  "destroyed"}
    /\ worker \in {"none", "loop", "reading", "notifying", "to sleep", "sleeping", "woken",
                    "connecting", "returning", "ended"}
    /\ status \in {"STOPPED", "RUNNING", "FAILED"}
    /\ line \in {"down", "up", "eof", "reset"}

(* What is in the socket's buffer was sent.                                  *)
Counts ==
    /\ wire \in Nat /\ sent \in Nat /\ starts \in Nat
    /\ wire <= sent /\ sent <= MaxMessages /\ starts <= MaxStarts

LEMMA TypeParts == Flags /\ Places /\ Counts => TypeOK
<1>1. Counts => wire \in 0..MaxMessages /\ sent \in 0..MaxMessages /\ starts \in 0..MaxStarts
  BY ConstantsAssumption DEF Counts
<1>. QED
  BY <1>1 DEF TypeOK, Flags, Places

IInv ==
    /\ Flags /\ Places /\ Counts
    /\ WorkerIsKnown /\ NoWorker /\ Starting /\ Stopped /\ Notification

LEMMA InitHolds == Init => IInv
<1>. SUFFICES ASSUME Init PROVE IInv
  OBVIOUS
<1>1. Flags
  BY DEF Init, Flags
<1>2. Places /\ Counts
  BY ConstantsAssumption DEF Init, Places, Counts
<1>3. WorkerIsKnown /\ NoWorker /\ Starting /\ Stopped /\ Notification
  BY DEF Init, WorkerIsKnown, WorkerOver, NoWorker, Starting, Stopped, Notification
<1>. QED
  BY <1>1, <1>2, <1>3 DEF IInv

LEMMA FlagsHold ==
    ASSUME Flags, [Next]_vars
    PROVE  Flags'
<1>. USE DEF Flags, threadVars, connectionVars, sensorVars, nodeVars
<1>1. CASE StartDriver
  BY <1>1 DEF StartDriver, Connect, ConnectOutcome
<1>2. CASE CreateThread
  BY <1>2 DEF CreateThread
<1>3. CASE MarkRunning
  BY <1>3 DEF MarkRunning, StatusAtStart
<1>4. CASE CreateFails
  BY <1>4 DEF CreateFails
<1>5. CASE RemoveObservers
  BY <1>5 DEF RemoveObservers
<1>6. CASE StopThread
  BY <1>6 DEF StopThread, Stopping, MustStop, AbortAtStop
<1>7. CASE Wakeup
  BY <1>7 DEF Wakeup
<1>8. CASE Join
  BY <1>8 DEF Join, Joined
<1>9. CASE NothingToStop
  BY <1>9 DEF NothingToStop, Stopping, MustStop
<1>10. CASE DisconnectMain
  BY <1>10 DEF DisconnectMain, Disconnect
<1>11. CASE ResetPublishers
  BY <1>11 DEF ResetPublishers
<1>12. CASE LoopHead
  BY <1>12 DEF LoopHead
<1>13. CASE ReadNothing
  BY <1>13 DEF ReadNothing
<1>14. CASE ReadData
  BY <1>14 DEF ReadData
<1>15. CASE ReadFails
  BY <1>15 DEF ReadFails, Disconnect
<1>16. CASE Notified
  BY <1>16 DEF Notified
<1>17. CASE Sleep
  BY <1>17 DEF Sleep, NotifiedBefore
<1>18. CASE SleepTimesOut
  BY <1>18 DEF SleepTimesOut
<1>19. CASE Woken
  BY <1>19 DEF Woken
<1>20. CASE Reconnect
  BY <1>20 DEF Reconnect, Connect, ConnectOutcome
<1>21. CASE Return
  BY <1>21 DEF Return
<1>22. CASE SpuriousWakeup
  BY <1>22 DEF SpuriousWakeup
<1>23. CASE SensorSends
  BY <1>23 DEF SensorSends
<1>24. CASE SensorHangsUp
  BY <1>24 DEF SensorHangsUp
<1>25. CASE UNCHANGED vars
  BY <1>25 DEF vars
<1>. QED
  BY <1>1, <1>2, <1>3, <1>4, <1>5, <1>6, <1>7, <1>8, <1>9, <1>10, <1>11, <1>12,
     <1>13, <1>14, <1>15, <1>16, <1>17, <1>18, <1>19, <1>20, <1>21, <1>22, <1>23,
     <1>24, <1>25
  DEF Next, Main, Worker, Sensor

LEMMA PlacesHold ==
    ASSUME Places, [Next]_vars
    PROVE  Places'
<1>. USE DEF Places, threadVars, connectionVars, sensorVars, nodeVars
<1>1. CASE StartDriver
  BY <1>1 DEF StartDriver, Connect, ConnectOutcome
<1>2. CASE CreateThread
  BY <1>2 DEF CreateThread
<1>3. CASE MarkRunning
  BY <1>3 DEF MarkRunning, StatusAtStart
<1>4. CASE CreateFails
  BY <1>4 DEF CreateFails
<1>5. CASE RemoveObservers
  BY <1>5 DEF RemoveObservers
<1>6. CASE StopThread
  BY <1>6 DEF StopThread, Stopping, MustStop, AbortAtStop
<1>7. CASE Wakeup
  BY <1>7 DEF Wakeup
<1>8. CASE Join
  BY <1>8 DEF Join, Joined
<1>9. CASE NothingToStop
  BY <1>9 DEF NothingToStop, Stopping, MustStop
<1>10. CASE DisconnectMain
  BY <1>10 DEF DisconnectMain, Disconnect
<1>11. CASE ResetPublishers
  BY <1>11 DEF ResetPublishers
<1>12. CASE LoopHead
  BY <1>12 DEF LoopHead
<1>13. CASE ReadNothing
  BY <1>13 DEF ReadNothing
<1>14. CASE ReadData
  BY <1>14 DEF ReadData
<1>15. CASE ReadFails
  BY <1>15 DEF ReadFails, Disconnect
<1>16. CASE Notified
  BY <1>16 DEF Notified
<1>17. CASE Sleep
  BY <1>17 DEF Sleep, NotifiedBefore
<1>18. CASE SleepTimesOut
  BY <1>18 DEF SleepTimesOut
<1>19. CASE Woken
  BY <1>19 DEF Woken
<1>20. CASE Reconnect
  BY <1>20 DEF Reconnect, Connect, ConnectOutcome
<1>21. CASE Return
  BY <1>21 DEF Return
<1>22. CASE SpuriousWakeup
  BY <1>22 DEF SpuriousWakeup
<1>23. CASE SensorSends
  BY <1>23 DEF SensorSends
<1>24. CASE SensorHangsUp
  BY <1>24 DEF SensorHangsUp
<1>25. CASE UNCHANGED vars
  BY <1>25 DEF vars
<1>. QED
  BY <1>1, <1>2, <1>3, <1>4, <1>5, <1>6, <1>7, <1>8, <1>9, <1>10, <1>11, <1>12,
     <1>13, <1>14, <1>15, <1>16, <1>17, <1>18, <1>19, <1>20, <1>21, <1>22, <1>23,
     <1>24, <1>25
  DEF Next, Main, Worker, Sensor

LEMMA ControlHolds ==
    ASSUME IInv, [Next]_vars
    PROVE  WorkerIsKnown' /\ NoWorker' /\ Starting' /\ Stopped' /\ Notification'
<1>. USE DEF IInv, Flags, Places, WorkerIsKnown, WorkerOver, NoWorker, Starting, Stopped,
            Notification, threadVars, connectionVars, sensorVars, nodeVars
<1>1. CASE StartDriver
  BY <1>1 DEF StartDriver, Connect, ConnectOutcome
<1>2. CASE CreateThread
  BY <1>2 DEF CreateThread
<1>3. CASE MarkRunning
  BY <1>3 DEF MarkRunning, StatusAtStart
<1>4. CASE CreateFails
  BY <1>4 DEF CreateFails
<1>5. CASE RemoveObservers
  BY <1>5 DEF RemoveObservers
<1>6. CASE StopThread
  BY <1>6 DEF StopThread, Stopping, MustStop, AbortAtStop
<1>7. CASE Wakeup
  BY <1>7 DEF Wakeup
<1>8. CASE Join
  BY <1>8 DEF Join, Joined
<1>9. CASE NothingToStop
  BY <1>9 DEF NothingToStop, Stopping, MustStop
<1>10. CASE DisconnectMain
  BY <1>10 DEF DisconnectMain, Disconnect
<1>11. CASE ResetPublishers
  BY <1>11 DEF ResetPublishers
<1>12. CASE LoopHead
  BY <1>12 DEF LoopHead
<1>13. CASE ReadNothing
  BY <1>13 DEF ReadNothing
<1>14. CASE ReadData
  BY <1>14 DEF ReadData
<1>15. CASE ReadFails
  BY <1>15 DEF ReadFails, Disconnect
<1>16. CASE Notified
  BY <1>16 DEF Notified
<1>17. CASE Sleep
  BY <1>17 DEF Sleep, NotifiedBefore
<1>18. CASE SleepTimesOut
  BY <1>18 DEF SleepTimesOut
<1>19. CASE Woken
  BY <1>19 DEF Woken
<1>20. CASE Reconnect
  BY <1>20 DEF Reconnect, Connect, ConnectOutcome
<1>21. CASE Return
  BY <1>21 DEF Return
<1>22. CASE SpuriousWakeup
  BY <1>22 DEF SpuriousWakeup
<1>23. CASE SensorSends
  BY <1>23 DEF SensorSends
<1>24. CASE SensorHangsUp
  BY <1>24 DEF SensorHangsUp
<1>25. CASE UNCHANGED vars
  BY <1>25 DEF vars
<1>. QED
  BY <1>1, <1>2, <1>3, <1>4, <1>5, <1>6, <1>7, <1>8, <1>9, <1>10, <1>11, <1>12,
     <1>13, <1>14, <1>15, <1>16, <1>17, <1>18, <1>19, <1>20, <1>21, <1>22, <1>23,
     <1>24, <1>25
  DEF Next, Main, Worker, Sensor

LEMMA CountsHold ==
    ASSUME Counts, [Next]_vars
    PROVE  Counts'
<1>1. CASE UNCHANGED <<wire, sent, starts>>
  BY <1>1 DEF Counts
<1>2. CASE StartDriver
  <2>1. starts < MaxStarts /\ starts' = starts + 1 /\ sent' = sent /\ (wire' = 0 \/ wire' = wire)
    BY <1>2 DEF StartDriver, Connect
  <2>. QED
    BY <2>1, ConstantsAssumption DEF Counts
<1>3. CASE wire' = 0 /\ UNCHANGED <<sent, starts>>
  BY <1>3, ConstantsAssumption DEF Counts
<1>4. CASE ReadData
  <2>1. wire > 0 /\ wire' = wire - 1 /\ sent' = sent /\ starts' = starts
    BY <1>4 DEF ReadData, nodeVars
  <2>. QED
    BY <2>1, ConstantsAssumption DEF Counts
<1>5. CASE SensorSends
  <2>1. sent < MaxMessages /\ sent' = sent + 1 /\ wire' = wire + 1 /\ starts' = starts
    BY <1>5 DEF SensorSends, nodeVars
  <2>. QED
    BY <2>1, ConstantsAssumption DEF Counts
<1>6. ASSUME DisconnectMain \/ ReadFails
      PROVE  (wire' = 0 \/ wire' = wire) /\ UNCHANGED <<sent, starts>>
  BY <1>6 DEF DisconnectMain, ReadFails, Disconnect, nodeVars
<1>7. ASSUME Reconnect
      PROVE  (wire' = 0 \/ wire' = wire) /\ UNCHANGED <<sent, starts>>
  BY <1>7 DEF Reconnect, Connect, nodeVars
<1>8. ASSUME \/ CreateThread \/ MarkRunning \/ CreateFails \/ RemoveObservers \/ StopThread
             \/ Wakeup \/ Join \/ NothingToStop \/ ResetPublishers
      PROVE  UNCHANGED <<wire, sent, starts>>
  BY <1>8 DEF CreateThread, MarkRunning, CreateFails, RemoveObservers, StopThread, Wakeup, Join,
              NothingToStop, ResetPublishers, sensorVars, nodeVars
<1>9. ASSUME \/ LoopHead \/ ReadNothing \/ Notified \/ Sleep \/ SleepTimesOut \/ Woken \/ Return
             \/ SpuriousWakeup \/ SensorHangsUp
      PROVE  UNCHANGED <<wire, sent, starts>>
  BY <1>9 DEF LoopHead, ReadNothing, Notified, Sleep, SleepTimesOut, Woken, Return,
              SpuriousWakeup, SensorHangsUp, sensorVars, nodeVars
<1>10. CASE UNCHANGED vars
  BY <1>1, <1>10 DEF vars, sensorVars, nodeVars
<1>. QED
  BY <1>1, <1>2, <1>3, <1>4, <1>5, <1>6, <1>7, <1>8, <1>9, <1>10 DEF Next, Main, Worker, Sensor

LEMMA InvariantHolds == Spec => []IInv
<1>1. IInv /\ [Next]_vars => IInv'
  BY FlagsHold, PlacesHold, CountsHold, ControlHolds DEF IInv
<1>. QED
  BY InitHolds, <1>1, PTL DEF Spec

(* Every variable keeps its type.                                            *)
THEOREM TypeCorrect == Spec => []TypeOK
<1>1. IInv => TypeOK
  BY TypeParts DEF IInv
<1>. QED
  BY <1>1, InvariantHolds, PTL

(* The main thread uses the connection only when there is no worker.         *)
THEOREM NoSharedConnection == Spec => []OneUserOfConnection
<1>1. IInv => OneUserOfConnection
  BY DEF IInv, NoWorker, OneUserOfConnection
<1>. QED
  BY <1>1, InvariantHolds, PTL

(* No observer runs once what it publishes with has been reset.              *)
THEOREM ObserversCanPublish == Spec => []PublishersOutliveObservers
<1>1. IInv => PublishersOutliveObservers
  BY DEF IInv, WorkerIsKnown, WorkerOver, PublishersOutliveObservers
<1>. QED
  BY <1>1, InvariantHolds, PTL

(* No thread is destroyed that has not been joined, and no connection stays. *)
THEOREM NothingLeftBehind == Spec => []JoinedBeforeDestroyed
<1>1. IInv => JoinedBeforeDestroyed
  BY DEF IInv, NoWorker, Stopped, JoinedBeforeDestroyed
<1>. QED
  BY <1>1, InvariantHolds, PTL

(* A worker that has been notified does not sleep, however it is overtaken.  *)
THEOREM NotificationIsNotLost == Spec => []StopIsPrompt
<1>1. IInv => StopIsPrompt
  BY DEF IInv, Notification, StopIsPrompt
<1>. QED
  BY <1>1, InvariantHolds, PTL
=============================================================================
