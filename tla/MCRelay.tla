------------------------------- MODULE MCRelay -------------------------------
(* A small instance of Relay: one relay to a page and one tool call of the   *)
(* main thread, with a table one entry too small for both.                   *)
EXTENDS Relay

CONSTANTS p1, m1

MCCalls == {p1, m1}
MCPageCalls == {p1}
=============================================================================
