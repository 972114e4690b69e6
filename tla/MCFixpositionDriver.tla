------------------------ MODULE MCFixpositionDriver ------------------------
(* Small instances of FixpositionDriver.                                     *)
EXTENDS FixpositionDriver
=============================================================================
