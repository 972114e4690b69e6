---------------------------- MODULE MCRslidarSdk ----------------------------
(* Small instances of RslidarSdk: enough clouds that one is always free to   *)
(* be allocated, fewer frames than clouds.                                   *)
EXTENDS RslidarSdk
=============================================================================
