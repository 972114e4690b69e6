------------------------ MODULE MCImuPreintegration ------------------------
(* Small instances of ImuOdometry.  ResetKey is 100 in the code; here a      *)
(* graph is started afresh after two corrections.                            *)
EXTENDS ImuOdometry
=============================================================================
