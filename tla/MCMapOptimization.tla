------------------------- MODULE MCMapOptimization -------------------------
(* Small instances of MapOptimization: a map of a few key frames that moves  *)
(* whenever a loop is closed or a GPS position comes in.                     *)
EXTENDS MapOptimization
=============================================================================
