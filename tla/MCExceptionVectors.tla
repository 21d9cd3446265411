------------------------- MODULE MCExceptionVectors -------------------------
(***************************************************************************)
(* Small instances of ExceptionVectors for TLC.                            *)
(***************************************************************************)
EXTENDS ExceptionVectors, TLC

CONSTANTS init, first, child

MCTask == {init, first, child}
=============================================================================
