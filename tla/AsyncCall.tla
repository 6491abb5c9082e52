------------------------------ MODULE AsyncCall ------------------------------
(***************************************************************************)
(* What an asynchronous call promises to the caller that awaits it,        *)
(* whatever happens on the main thread, in the page or to the messages in  *)
(* between: the promise settles exactly once, the command behind it is     *)
(* carried out at most once, and success is reported only for a command    *)
(* that was really carried out.  Module Relay implements this one for the  *)
(* host calls of a cell, module Session for the requests of the page.      *)
(***************************************************************************)
CONSTANT Calls

VARIABLES promise,  \* the promise each call returned to its caller
          effect    \* what became of the command behind it

vars == <<promise, effect>>

Settled == {"ok", "failed", "rejected"}

Init == /\ promise = [c \in Calls |-> "idle"]
        /\ effect  = [c \in Calls |-> "none"]

\* The cell issues the call; a refused call is rejected on the spot.
Issue(c) ==
  /\ promise[c] = "idle"
  /\ \E p \in {"pending", "rejected"} : promise' = [promise EXCEPT ![c] = p]
  /\ UNCHANGED effect

\* The command starts at most once, and only for a call that was issued.
Begin(c) ==
  /\ promise[c] # "idle"
  /\ effect[c] = "none"
  /\ effect' = [effect EXCEPT ![c] = "running"]
  /\ UNCHANGED promise

\* The command ends, or is refused before it started.
End(c) ==
  /\ promise[c] # "idle"
  /\ effect[c] \in {"none", "running"}
  /\ \E e \in {"ok", "error"} : effect' = [effect EXCEPT ![c] = e]
  /\ UNCHANGED promise

\* One pending promise settles; it reports success only after the fact.
Settle(c) ==
  /\ promise[c] = "pending"
  /\ \E p \in Settled :
       /\ p = "ok" => effect[c] = "ok"
       /\ promise' = [promise EXCEPT ![c] = p]
  /\ UNCHANGED effect

\* The worker is reset, stopped or killed: the promises it held fail at once.
FailSome ==
  /\ \E lost \in SUBSET {c \in Calls : promise[c] = "pending"} :
       promise' = [c \in Calls |-> IF c \in lost THEN "failed" ELSE promise[c]]
  /\ UNCHANGED effect

Next == FailSome \/ \E c \in Calls : Issue(c) \/ Begin(c) \/ End(c) \/ Settle(c)

Spec == Init /\ [][Next]_vars

\* What an implementation adds to it: a pending promise settles.
Settles == \A c \in Calls : promise[c] = "pending" ~> promise[c] # "pending"
=============================================================================
