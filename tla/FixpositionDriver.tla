-------------------------- MODULE FixpositionDriver --------------------------
(***************************************************************************)
(* FixpositionDriver (fixposition_driver_lib/src/fixposition_driver.cpp),  *)
(* the node that owns it (fixposition_driver_ros2/src/                     *)
(* fixposition_driver_node.cpp) and the Thread of fpsdk_common/src/        *)
(* thread.cpp its worker runs in.                                          *)
(*                                                                         *)
(*   main     StartNode(), spinning, StopNode(), the destructors           *)
(*   worker   Worker(): reads while connected and calls the observers,     *)
(*            sleeps and connects when it is not                           *)
(*   sensor   the other side of the socket or of the serial line           *)
(*                                                                         *)
(* sensor_fd_, params_.stream_ and the observers have no lock: what keeps  *)
(* the two threads apart is Thread::Stop(), an atomic flag, a semaphore    *)
(* and a join().                                                           *)
(***************************************************************************)
EXTENDS Naturals, FiniteSets

CONSTANTS MaxMessages,  \* bound: pieces of messages the sensor sends
          MaxStarts     \* bound: calls of StartDriver()

ASSUME ConstantsAssumption == MaxMessages \in Nat /\ MaxStarts \in Nat

VARIABLES
    serial,     \* serial_: the configured stream is a serial line (rigid)
    main,       \* where the main thread is
    worker,     \* where the worker is
    abort, started, status,     \* of Thread
    pend,       \* BinarySemaphore::pend_
    connected,  \* sensor_fd_ >= 0
    stream,     \* params_.stream_ is not empty
    line,       \* what the sensor has done with the connection
    wire,       \* pieces of messages in the socket's buffer
    sent,       \* pieces sent so far
    starts,     \* calls of StartDriver()
    publishers  \* what the observers publish with has not been reset

threadVars == <<abort, started, status, pend>>
connectionVars == <<connected, stream>>
sensorVars == <<line, wire, sent>>
nodeVars == <<starts, publishers>>
vars == <<serial, main, worker, threadVars, connectionVars, sensorVars, nodeVars>>

Init ==
    /\ serial \in BOOLEAN
    /\ main = "created" /\ worker = "none"
    /\ abort = FALSE /\ started = FALSE /\ status = "STOPPED" /\ pend = FALSE
    /\ connected = FALSE /\ stream = TRUE
    /\ line = "down" /\ wire = 0 /\ sent = 0
    /\ starts = 0 /\ publishers = FALSE

-----------------------------------------------------------------------------
(* Connect() and Disconnect(), called by both threads.                       *)

(* The outcomes of Connect(): an empty stream_ is a bad spec                 *)
ConnectOutcome == IF connected THEN {TRUE} ELSE IF stream THEN BOOLEAN ELSE {FALSE}

Connect(ok) ==
    /\ ok \in ConnectOutcome
    /\ connected' = ok
    /\ IF ok /\ ~connected
          THEN line' = "up" /\ wire' = 0
          ELSE UNCHANGED <<line, wire>>
    /\ UNCHANGED <<stream, sent>>

Disconnect ==
    /\ IF connected
          THEN /\ connected' = FALSE
               /\ stream' = FALSE
               /\ line' = "down" /\ wire' = 0
          ELSE UNCHANGED <<connected, stream, line, wire>>
    /\ UNCHANGED sent

-----------------------------------------------------------------------------
(* The main thread.  A node that could not start is stopped all the same.    *)

(* StartNode(): the observers, then StartDriver(): Connect() && Start()      *)
StartDriver ==
    /\ main = "created"
    /\ starts < MaxStarts
    /\ starts' = starts + 1
    /\ publishers' = TRUE
    /\ \E ok \in BOOLEAN :
          /\ Connect(ok)
          /\ main' = IF ok /\ ~started THEN "starting" ELSE "spinning"
    /\ UNCHANGED <<serial, worker, threadVars>>

(* Thread::Start(): abort_ is reset, the thread created, and only then is    *)
(* the status set, by when the worker may be anywhere                        *)
CreateThread ==
    /\ main = "starting"
    /\ abort' = FALSE
    /\ worker' = "loop"
    /\ main' = "created thread"
    /\ UNCHANGED <<serial, started, status, pend, connectionVars, sensorVars, nodeVars>>

(* mutation: the status is left to the worker, which sets it when it ends *)
StatusAtStart_Forgotten == status
StatusAtStart == "RUNNING"

MarkRunning ==
    /\ main = "created thread"
    /\ started' = TRUE
    /\ status' = StatusAtStart
    /\ main' = "spinning"
    /\ UNCHANGED <<serial, worker, abort, pend, connectionVars, sensorVars, nodeVars>>

(* std::thread could not be created *)
CreateFails ==
    /\ main = "starting"
    /\ abort' = FALSE
    /\ main' = "spinning"
    /\ UNCHANGED <<serial, worker, started, status, pend, connectionVars, sensorVars, nodeVars>>

(* StopNode(): the maps of observers are cleared while the worker may walk   *)
(* them (undefined behaviour the code is exposed to); the raw observers stay *)
RemoveObservers ==
    /\ main = "spinning"
    /\ main' = "stopDriver"
    /\ UNCHANGED <<serial, worker, threadVars, connectionVars, sensorVars, nodeVars>>

(* StopDriver(), and ~Thread(), which stops a thread that was started        *)

(* mutation: the destructor relies on StopDriver() to have stopped it *)
MustStop_StatusOnly == status = "RUNNING"
MustStop == IF main = "stopDriver" THEN status = "RUNNING" ELSE started
Stopping == main \in {"stopDriver", "destroying"}

(* mutation: Stop() wakes the worker up and does not tell it why *)
AbortAtStop_Forgotten == abort
AbortAtStop == TRUE

StopThread ==
    /\ Stopping /\ MustStop
    /\ abort' = AbortAtStop
    /\ main' = IF main = "stopDriver" THEN "wakeup" ELSE "wakeup last"
    /\ UNCHANGED <<serial, worker, started, status, pend, connectionVars, sensorVars, nodeVars>>

(* Thread::Wakeup(), that is BinarySemaphore::Notify() *)
Wakeup ==
    /\ main \in {"wakeup", "wakeup last"}
    /\ pend' = TRUE
    /\ worker' = IF worker = "sleeping" THEN "woken" ELSE worker
    /\ main' = IF main = "wakeup" THEN "join" ELSE "join last"
    /\ UNCHANGED <<serial, abort, started, status, connectionVars, sensorVars, nodeVars>>

(* mutation: the thread is detached instead of joined *)
Joined_Detached == TRUE
Joined == worker = "ended"

Join ==
    /\ main \in {"join", "join last"}
    /\ Joined
    /\ status' = IF status = "RUNNING" THEN "FAILED" ELSE status
    /\ started' = FALSE
    /\ main' = IF main = "join" THEN "disconnect" ELSE "destroyed"
    /\ UNCHANGED <<serial, worker, abort, pend, connectionVars, sensorVars, nodeVars>>

NothingToStop ==
    /\ Stopping /\ ~MustStop
    /\ main' = IF main = "stopDriver" THEN "disconnect" ELSE "destroyed"
    /\ UNCHANGED <<serial, worker, threadVars, connectionVars, sensorVars, nodeVars>>

DisconnectMain ==
    /\ main = "disconnect"
    /\ Disconnect
    /\ main' = "stopped"
    /\ UNCHANGED <<serial, worker, threadVars, nodeVars>>

(* The rest of StopNode(), and the node starts again or is destroyed         *)
ResetPublishers ==
    /\ main = "stopped"
    /\ publishers' = FALSE
    /\ main' \in {"created", "destroying"}
    /\ UNCHANGED <<serial, worker, threadVars, connectionVars, sensorVars, starts>>

-----------------------------------------------------------------------------
(* Worker()                                                                  *)

LoopHead ==
    /\ worker = "loop"
    /\ worker' = IF abort THEN "returning" ELSE IF connected THEN "reading" ELSE "to sleep"
    /\ UNCHANGED <<serial, main, threadVars, connectionVars, sensorVars, nodeVars>>

(* Read() returns nothing: poll() timed out, or there is the end of file,    *)
(* which POLLIN announces and read() returns 0 for                           *)
ReadNothing ==
    /\ worker = "reading"
    /\ worker' = "loop"
    /\ UNCHANGED <<serial, main, threadVars, connectionVars, sensorVars, nodeVars>>

(* Read() returns data, and with it the parser has a message or not yet.     *)
ReadData ==
    /\ worker = "reading"
    /\ ~serial /\ wire > 0
    /\ wire' = wire - 1
    /\ worker' \in {"loop", "notifying"}
    /\ UNCHANGED <<serial, main, threadVars, connectionVars, line, sent, nodeVars>>

(* Read() fails: the connection was reset, poll() failed, or recv() was      *)
(* called for data on a serial line, which is not a socket                   *)
ReadFails ==
    /\ worker = "reading"
    /\ line = "reset" \/ (serial /\ wire > 0)
    /\ Disconnect
    /\ worker' = "loop"
    /\ UNCHANGED <<serial, main, threadVars, nodeVars>>

(* The observers return *)
Notified ==
    /\ worker = "notifying"
    /\ worker' = "loop"
    /\ UNCHANGED <<serial, main, threadVars, connectionVars, sensorVars, nodeVars>>

(* Sleep(), that is BinarySemaphore::WaitFor() *)

(* mutation: a Notify() that came before the wait is not seen *)
NotifiedBefore_Lost == FALSE
NotifiedBefore == pend

Sleep ==
    /\ worker = "to sleep"
    /\ worker' = IF NotifiedBefore THEN "woken" ELSE "sleeping"
    /\ UNCHANGED <<serial, main, threadVars, connectionVars, sensorVars, nodeVars>>

SleepTimesOut ==
    /\ worker = "sleeping"
    /\ worker' = "connecting"
    /\ UNCHANGED <<serial, main, threadVars, connectionVars, sensorVars, nodeVars>>

(* A condition variable may wake up without a Notify(): WOKEN all the same   *)
SpuriousWakeup ==
    /\ worker = "sleeping"
    /\ worker' = "woken"
    /\ UNCHANGED <<serial, main, threadVars, connectionVars, sensorVars, nodeVars>>

Woken ==
    /\ worker = "woken"
    /\ pend' = FALSE
    /\ worker' = "returning"
    /\ UNCHANGED <<serial, main, abort, started, status, connectionVars, sensorVars, nodeVars>>

Reconnect ==
    /\ worker = "connecting"
    /\ \E ok \in BOOLEAN : Connect(ok)
    /\ worker' = "loop"
    /\ UNCHANGED <<serial, main, threadVars, nodeVars>>

(* _Thread() stores what Worker() returned *)
Return ==
    /\ worker = "returning"
    /\ status' = "STOPPED"
    /\ worker' = "ended"
    /\ UNCHANGED <<serial, main, abort, started, pend, connectionVars, sensorVars, nodeVars>>

-----------------------------------------------------------------------------
(* The sensor *)

SensorSends ==
    /\ line = "up" /\ sent < MaxMessages
    /\ sent' = sent + 1 /\ wire' = wire + 1
    /\ UNCHANGED <<serial, main, worker, threadVars, connectionVars, line, nodeVars>>

SensorHangsUp ==
    /\ line = "up"
    /\ line' \in {"eof", "reset"}
    /\ UNCHANGED <<serial, main, worker, threadVars, connectionVars, wire, sent, nodeVars>>

-----------------------------------------------------------------------------
Main == StartDriver \/ CreateThread \/ MarkRunning \/ CreateFails \/ RemoveObservers
        \/ StopThread \/ Wakeup \/ Join \/ NothingToStop \/ DisconnectMain \/ ResetPublishers
Worker == LoopHead \/ ReadNothing \/ ReadData \/ ReadFails \/ Notified \/ Sleep
          \/ SleepTimesOut \/ Woken \/ Reconnect \/ Return
Sensor == SensorSends \/ SensorHangsUp

Next == Main \/ Worker \/ SpuriousWakeup \/ Sensor

(* Fairness: both threads are scheduled, sleeps end, and a sensor that can   *)
(* be connected to is connected to when one keeps trying.                    *)
Fairness ==
    /\ WF_vars(Worker)
    /\ WF_vars(Main /\ main \notin {"created", "spinning"})
    /\ SF_vars(Reconnect /\ connected')

Spec == Init /\ [][Next]_vars /\ Fairness

-----------------------------------------------------------------------------
WorkerOver == worker \in {"none", "ended"}

TypeOK ==
    /\ serial \in BOOLEAN
    /\ main \in {"created", "starting", "created thread", "spinning", "stopDriver", "wakeup",
                  "join", "disconnect", "stopped", "destroying", "wakeup last", "join last",
                  "destroyed"}
    /\ worker \in {"none", "loop", "reading", "notifying", "to sleep", "sleeping", "woken",
                    "connecting", "returning", "ended"}
    /\ abort \in BOOLEAN /\ started \in BOOLEAN /\ pend \in BOOLEAN
    /\ connected \in BOOLEAN /\ stream \in BOOLEAN /\ publishers \in BOOLEAN
    /\ status \in {"STOPPED", "RUNNING", "FAILED"}
    /\ line \in {"down", "up", "eof", "reset"}
    /\ wire \in 0..MaxMessages /\ sent \in 0..MaxMessages
    /\ starts \in 0..MaxStarts

(* sensor_fd_, serial_ and stream_ have no lock: the main thread connects    *)
(* and disconnects only when no worker runs, also when the worker ended by   *)
(* itself or before Start() had set the status StopDriver() looks at.        *)
OneUserOfConnection ==
    main \in {"created", "starting", "disconnect", "stopped", "destroyed"} => WorkerOver

(* The observers publish on what StopNode() resets last: none is running     *)
(* then, and none will.                                                      *)
PublishersOutliveObservers == worker = "notifying" => publishers

(* A std::thread must be joined before it is destroyed: that is so when the  *)
(* worker ended by itself, and StopDriver() left it alone, too.              *)
JoinedBeforeDestroyed == main = "destroyed" => ~started /\ WorkerOver /\ ~connected

(* StopDriver() does not last as long as the delay before a reconnection:    *)
(* once the worker has been notified it neither sleeps nor begins to,        *)
(* whether it was asleep, about to sleep or on its way there.                *)
StopIsPrompt == main \in {"join", "join last"} => worker # "sleeping"

(* StopDriver() returns wherever the worker is in its loop.                  *)
StopReturns == (main = "stopDriver") ~> (main = "stopped")

(* A worker that waits to reconnect to a sensor that can be connected to     *)
(* gets there, unless the node is stopped first (CHANGELOG.md: "Automatic    *)
(* reconnect after connection is lost") or the wait is cut short.            *)
Reconnects ==
    (main = "spinning" /\ worker = "sleeping")
        ~> (connected \/ main # "spinning" \/ worker = "ended")
=============================================================================
