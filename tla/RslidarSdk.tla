----------------------------- MODULE RslidarSdk -----------------------------
(***************************************************************************)
(* The process of rslidar_sdk: the node of RsNode, whose first source is   *)
(* the SourceDriver of SourceDriver with its decoder and its publisher;    *)
(* the others are as RsNode has them.  The main thread makes the calls of  *)
(* that source's owner, when it reaches the source in its loops.           *)
(***************************************************************************)
EXTENDS RsNode, SourceDriver

ASSUME FirstAssumption == NSources # 0

sdkVars == <<nodeVars, vars>>

SdkInit == NodeInit /\ Init

AtFirst == at = 1

-----------------------------------------------------------------------------
(* The main thread at the first source. *)

InitFirst ==
    /\ AtFirst /\ InitAt /\ InitSource
    /\ main' = "exited" <=> owner' = "exited"

(* in the same round of the loop as the source's init() *)
RegisterFirst ==
    /\ main = "init" /\ at = 2
    /\ RegPointCloudCallback
    /\ UNCHANGED nodeVars

StartFirst == AtFirst /\ StartAt /\ StartSource

CallStopFirst ==
    /\ main = "stop" /\ AtFirst
    /\ Stop \/ StopDriver
    /\ UNCHANGED nodeVars

StopFirst == AtFirst /\ StopSource /\ RaiseExit
JoinFirst == AtFirst /\ JoinAt /\ JoinPublisher

(* The main thread between the loops, and at the other sources. *)
MainElsewhere ==
    /\ \/ InitDone \/ StartDone \/ WaitForSignal \/ StopDone
       \/ ~AtFirst /\ (InitAt \/ StartAt \/ StopSource \/ JoinAt)
    /\ UNCHANGED vars

(* The threads: they end with the process. *)
PublishFirst ==
    /\ NodeAlive
    /\ Publish
    /\ IF publisher' = "none" THEN PublisherEnds(1) ELSE UNCHANGED nodeVars

DecodeFirst == NodeAlive /\ Decode /\ UNCHANGED nodeVars

PublisherElsewhereEnds(s) == s # 1 /\ PublisherEnds(s) /\ UNCHANGED vars

-----------------------------------------------------------------------------
MainThread == InitFirst \/ StartFirst \/ CallStopFirst \/ StopFirst \/ JoinFirst
              \/ MainElsewhere

SdkNext ==
    \/ MainThread \/ RegisterFirst \/ PublishFirst \/ DecodeFirst
    \/ (SigHandler \/ SpuriousWakeup) /\ UNCHANGED vars
    \/ \E s \in Source : PublisherElsewhereEnds(s)

SdkSafeSpec == SdkInit /\ [][SdkNext]_sdkVars

(* The threads of RsNode and SourceDriver, as fair as there: none waits for  *)
(* a packet or for a signal.                                                 *)
SdkSpec ==
    /\ SdkSafeSpec
    /\ WF_sdkVars(MainThread) /\ WF_sdkVars(PublishFirst)
    /\ WF_sdkVars(DecodeFirst /\ NextCloud) /\ WF_sdkVars(DecodeFirst /\ HandlerEnds)
    /\ \A s \in Source : WF_sdkVars(PublisherElsewhereEnds(s))

-----------------------------------------------------------------------------
(* What NodeManager has for a stopped source, which it goes on to destroy,   *)
(* is one: neither the handler of its driver nor its publisher is left, the  *)
(* one since the driver's stop() joined it, the other since to_exit_process_ *)
(* found it outside of popWait() and publishing.                             *)
StoppedAsSeen ==
    publishers[1] = "ended" => decoder = "none" /\ publisher = "none"
=============================================================================
