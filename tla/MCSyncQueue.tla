---------------------------- MODULE MCSyncQueue ----------------------------
(* Small instances of SyncQueue for TLC: two producers are enough for one    *)
(* push() to be between its unlock and its notify_one() while another one,   *)
(* a pop() or a clear() changes the queue.                                   *)
EXTENDS SyncQueue

CONSTANTS p1, p2
=============================================================================
