------------------------------- MODULE RsNode -------------------------------
(***************************************************************************)
(* The ROS 2 node of rslidar_sdk: main() (node/rslidar_sdk_node.cpp) with  *)
(* its SIGINT handler, and NodeManager (src/manager/node_manager.cpp) with *)
(* its sources.                                                            *)
(*                                                                         *)
(* main() creates and initializes the sources one by one, starts them,     *)
(* waits on a condition variable without a predicate until sigHandler()    *)
(* notifies it, and returns, which destroys the NodeManager: its           *)
(* destructor stops each source, then each source is destroyed, and its    *)
(* own destructor stops it again.                                          *)
(*                                                                         *)
(* A source is what its owner sees of SourceDriver: whether its driver     *)
(* runs, whether its publisher thread runs, and whether that thread was    *)
(* joined; inside stop() it goes through joining the one and then the      *)
(* other.                                                                  *)
(***************************************************************************)
EXTENDS Naturals

CONSTANTS NSources,     \* how many LiDARs config.yaml lists
          MaxSignals    \* bound: SIGINTs sent to the process

ASSUME NodeConstants == NSources \in Nat /\ MaxSignals \in Nat

Source == 1..NSources

VARIABLES
    main,           \* what main() is doing
    at,             \* the source its loop is at
    destroying,     \* inside the destructor of the sources
    signals,        \* SIGINTs delivered
    drivers,        \* of each source: "none", "ready", "running"
    publishers,     \* of each source: "none", "running", "ending", "ended"
    joinables       \* the sources whose publisher has not been joined

sourceVars == <<drivers, publishers, joinables>>
nodeVars == <<main, at, destroying, signals, sourceVars>>

NodeAlive == main \notin {"exited", "returned", "terminated"}

NodeInit ==
    /\ main = "init" /\ at = 1 /\ destroying = FALSE
    /\ signals = 0
    /\ drivers = [s \in Source |-> "none"]
    /\ publishers = [s \in Source |-> "none"]
    /\ joinables = {}

-----------------------------------------------------------------------------
(* Source::init() in the loop of NodeManager::init(): the publisher is       *)
(* started, then the driver initialized, or the process exits.               *)
InitAt ==
    /\ main = "init" /\ at <= NSources
    /\ publishers' = [publishers EXCEPT ![at] = "running"]
    /\ joinables' = joinables \union {at}
    /\ \/ drivers' = [drivers EXCEPT ![at] = "ready"] /\ at' = at + 1 /\ UNCHANGED main
       \/ main' = "exited" /\ UNCHANGED <<drivers, at>>
    /\ UNCHANGED <<destroying, signals>>

InitDone ==
    /\ main = "init" /\ at > NSources
    /\ main' = "start" /\ at' = 1
    /\ UNCHANGED <<destroying, signals, sourceVars>>

StartAt ==
    /\ main = "start" /\ at <= NSources
    /\ drivers' = [drivers EXCEPT ![at] = "running"]
    /\ at' = at + 1
    /\ UNCHANGED <<main, destroying, signals, publishers, joinables>>

StartDone ==
    /\ main = "start" /\ at > NSources
    /\ main' = "running" /\ at' = 1
    /\ UNCHANGED <<destroying, signals, sourceVars>>

WaitForSignal ==
    /\ main = "running"
    /\ main' = "waiting"
    /\ UNCHANGED <<at, destroying, signals, sourceVars>>

(* sigHandler(): it reaches main() only when it waits already *)
Notified == IF main = "waiting" THEN "stop" ELSE main

SigHandler ==
    /\ NodeAlive /\ signals < MaxSignals
    /\ signals' = signals + 1
    /\ main' = Notified
    /\ UNCHANGED <<at, destroying, sourceVars>>

SpuriousWakeup ==
    /\ main = "waiting"
    /\ main' = "stop"
    /\ UNCHANGED <<at, destroying, signals, sourceVars>>

-----------------------------------------------------------------------------
(* SourceDriver::stop(), from ~NodeManager() and from ~SourceDriver() *)

(* mutation: the loop leaves out the last source *)
StopsAt_ButLast(s) == s < NSources \/ destroying
StopsAt(s) == TRUE

StopSource ==
    /\ main = "stop" /\ at <= NSources
    /\ IF StopsAt(at)
          THEN /\ drivers' = [drivers EXCEPT ![at] = "ready"]
               /\ publishers' = [publishers EXCEPT ![at] = IF @ = "running" THEN "ending" ELSE @]
               /\ main' = "join" /\ UNCHANGED at
          ELSE UNCHANGED <<drivers, publishers, main>> /\ at' = at + 1
    /\ UNCHANGED <<destroying, signals, joinables>>

(* mutation: the thread is not waited for *)
EndedAt_NotJoined(s) == TRUE
EndedAt(s) == publishers[s] = "ended"

JoinAt ==
    /\ main = "join"
    /\ IF at \in joinables
          THEN EndedAt(at) /\ main' = "stop" /\ at' = at + 1
          ELSE main' = "terminated" /\ UNCHANGED at
    /\ joinables' = joinables \ {at}
    /\ UNCHANGED <<destroying, signals, drivers, publishers>>

(* ~NodeManager() has stopped the sources: its vector destroys them *)
StopDone ==
    /\ main = "stop" /\ at > NSources
    /\ IF destroying THEN main' = "returned" /\ UNCHANGED <<at, destroying>>
                     ELSE at' = 1 /\ destroying' = TRUE /\ UNCHANGED main
    /\ UNCHANGED <<signals, sourceVars>>

(* processPointCloud() of a source that was told to exit *)
PublisherEnds(s) ==
    /\ NodeAlive /\ publishers[s] = "ending"
    /\ publishers' = [publishers EXCEPT ![s] = "ended"]
    /\ UNCHANGED <<main, at, destroying, signals, drivers, joinables>>

-----------------------------------------------------------------------------
MainStep == InitAt \/ InitDone \/ StartAt \/ StartDone \/ WaitForSignal
            \/ StopSource \/ JoinAt \/ StopDone

NodeNext == MainStep \/ SigHandler \/ SpuriousWakeup \/ \E s \in Source : PublisherEnds(s)

NodeSafeSpec == NodeInit /\ [][NodeNext]_nodeVars
NodeSpec == /\ NodeSafeSpec
            /\ WF_nodeVars(MainStep) /\ \A s \in Source : WF_nodeVars(PublisherEnds(s))

-----------------------------------------------------------------------------
(* Types, and the order of a source's life. *)
NodeTypeOK ==
    /\ main \in {"init", "start", "running", "waiting", "stop", "join",
                 "exited", "returned", "terminated"}
    /\ at \in 1..(NSources + 1)
    /\ destroying \in BOOLEAN
    /\ signals \in 0..MaxSignals
    /\ drivers \in [Source -> {"none", "ready", "running"}]
    /\ publishers \in [Source -> {"none", "running", "ending", "ended"}]
    /\ joinables \subseteq Source
    /\ \A s \in Source : drivers[s] # "none" => publishers[s] # "none"
    /\ \A s \in Source \ joinables : publishers[s] \in {"none", "ended"}

(* When the first source is destroyed, all of them are stopped: no thread of *)
(* another source still receives, decodes or publishes.                      *)
StoppedBeforeDestroyed ==
    destroying => \A s \in Source : drivers[s] = "ready" /\ publishers[s] = "ended"

(* A SIGINT that finds main() waiting stops every source, one after another, *)
(* although the others go on while the first is joined.                      *)
SignalStopsSources ==
    main = "stop" ~> \A s \in Source : publishers[s] = "ended"
=============================================================================
