------------------------------ MODULE MCSession ------------------------------
(* A small instance of Session: three cells and a reset.                     *)
EXTENDS Session

CONSTANTS c1, c2, c3, reset

MCCells    == {c1, c2, c3}
MCControls == {reset}
=============================================================================
