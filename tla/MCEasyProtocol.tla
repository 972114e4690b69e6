--------------------------- MODULE MCEasyProtocol ---------------------------
(* Small instances of EasyProtocol.                                          *)
EXTENDS EasyProtocol
=============================================================================
