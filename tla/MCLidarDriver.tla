--------------------------- MODULE MCLidarDriver ---------------------------
(* Small instances of LidarDriver.  PACKET_POOL_MAX is 10240 in the code;    *)
(* here the queue overflows within the first packets, so that clearing,      *)
(* releasing and reallocating buffers meet every step of the other threads.  *)
EXTENDS LidarDriver
=============================================================================
