------------------------------ MODULE CellLoop -------------------------------
(***************************************************************************)
(* Cells in the VM, one after the other: run_cell_async_loop (web-js-base) *)
(* over JsSession (web-js-core).                                           *)
(*                                                                         *)
(* The code of a cell runs in segments, each until the cell can only wait. *)
(* A segment makes host calls and sets timers: each gets a call_id, an     *)
(* entry in __webJsPending and a place in pending_async_commands.  It may  *)
(* clear timers and settle the promise of the cell.  The loop executes the *)
(* commands of a segment as one batch and then resumes the VM once per     *)
(* command; each resume is one more segment.                               *)
(*                                                                         *)
(* What the code of a cell does is left open: a cell makes any number of   *)
(* calls up to MaxCalls, whatever it was answered.  Intervals, which       *)
(* re-arm themselves for ever, are left out.                               *)
(***************************************************************************)
EXTENDS Naturals, Sequences, FiniteSets, SequencesExt

CONSTANTS
  MaxCalls,   \* bound: host calls and timers of one cell
  MaxCells,   \* bound: cells of the session
  CanAbort    \* whether the aborted flag may be set while a cell runs

ASSUME BoundsAssumption == MaxCalls \in Nat /\ MaxCells \in Nat /\ CanAbort \in BOOLEAN

VARIABLES
  pc,           \* the loop: "idle", "loop", "awaiting", "resuming", "aborting", "done"
  cells,        \* cells that were run
  vm,           \* the state of the JsSession that a segment changes
  needsReset,   \* needs_reset of the JsSession
  aborted,      \* the aborted flag of the ExtensionSession
  result,       \* the WasmRunResult at hand: its status and pending commands
  batch,        \* the commands of the batch that are not yet resumed
  accumulated,  \* accumulated_pending
  resumed,      \* the calls of this cell that were resumed
  thrown        \* the timers of this cell whose callback threw

vars == <<pc, cells, vm, needsReset, aborted, result, batch, accumulated,
          resumed, thrown>>

Ids      == 1..MaxCalls
Kinds    == {"call", "timer"}
Statuses == {"none", "pending", "ok", "error", "fuel", "internal", "stuck", "unfinished"}
Errors   == {"error", "fuel", "internal", "stuck"}
Running  == {"loop", "awaiting", "resuming", "aborting"}

Result(s, cmds) == [status |-> s, cmds |-> cmds]
NoResult        == Result("none", <<>>)

\* The VM at the start of a cell: async_call_counter, the entries of
\* __webJsPending by kind, pending_async_commands and the cell's promise.
FreshVM == [issued |-> 0, calls |-> {}, timers |-> {}, queued |-> <<>>, top |-> "pending"]

Entries(v) == v.calls \cup v.timers
Drained(v) == [v EXCEPT !.queued = <<>>]

Init ==
  /\ pc = "idle" /\ cells = 0 /\ vm = FreshVM
  /\ needsReset = FALSE /\ aborted = FALSE
  /\ result = NoResult /\ batch = <<>> /\ accumulated = <<>>
  /\ resumed = {} /\ thrown = {}

-----------------------------------------------------------------------------
(* Segments.                                                               *)

\* Mutated form of Issue: the counter is incremented after its use.
IssueLate(v, ks) ==
  LET New(k) == {v.issued + i - 1 : i \in {j \in DOMAIN ks : ks[j] = k}}
  IN  [v EXCEPT !.issued = @ + Len(ks),
                !.calls  = @ \cup New("call"),
                !.timers = @ \cup New("timer"),
                !.queued = @ \o [i \in DOMAIN ks |-> v.issued + i - 1]]

\* __webJsTriggerAsync and setTimeout: the next call_ids, one per kind in ks.
Issue(v, ks) ==
  LET New(k) == {v.issued + i : i \in {j \in DOMAIN ks : ks[j] = k}}
  IN  [v EXCEPT !.issued = @ + Len(ks),
                !.calls  = @ \cup New("call"),
                !.timers = @ \cup New("timer"),
                !.queued = @ \o [i \in DOMAIN ks |-> v.issued + i]]

\* The commands s without those of ids.
Without(s, ids) ==
  LET Kept[n \in 0..Len(s)] ==
        IF n = 0 THEN <<>>
        ELSE IF s[n] \in ids THEN Kept[n - 1] ELSE Append(Kept[n - 1], s[n])
  IN  Kept[Len(s)]

\* clearTimeout: the entry goes, and the command if it is still queued.
Clear(v, ids) == [v EXCEPT !.timers = @ \ ids, !.queued = Without(@, ids)]

\* The states in which a segment may leave the VM.
Segments(v) ==
  LET Outcomes(w) == {[Clear(w, ids) EXCEPT !.top = t] :
                         ids \in SUBSET w.timers,
                         t \in IF v.top = "pending"
                               THEN {"pending", "fulfilled", "rejected"} ELSE {v.top}}
  IN  UNION {Outcomes(Issue(v, ks)) : ks \in SeqOf(Kinds, MaxCalls - v.issued)}

\* A callback that throws: no promise job has run, so the cell's is not settled.
Callbacks(v) == {w \in Segments(v) : w.top = v.top}

-----------------------------------------------------------------------------
(* The VM: how a segment ends.                                             *)

\* Out of fuel, or more than 4096 promise jobs in one segment.
OutOfFuel(w) ==
  /\ result' = Result("fuel", <<>>)
  /\ vm' = w

\* run_cell_unwrapped after the evaluation: the promise of the cell is
\* rejected; there are commands; or there are none, and the promise must be
\* fulfilled.
FirstResult(w) ==
  \/ /\ w.top = "rejected"
     /\ result' = Result("error", <<>>)
     /\ vm' = w
  \/ /\ w.top # "rejected" /\ w.queued # <<>>
     /\ result' = Result("pending", w.queued)
     /\ vm' = Drained(w)
  \/ /\ w.top # "rejected" /\ w.queued = <<>>
     /\ result' = Result(IF w.top = "fulfilled" THEN "ok" ELSE "error", <<>>)
     /\ vm' = w

\* Mutated form of ResumeResult: entries that are still waiting are ignored.
ResumeResultBlind(w) ==
  /\ vm' = Drained(w)
  /\ \/ /\ w.queued # <<>>
        /\ result' = Result("pending", w.queued)
     \/ /\ w.queued = <<>>
        /\ result' = Result(IF w.top = "rejected" THEN "error" ELSE "ok", <<>>)

\* resume_cell after the segment: calls are under way; or none is, and the
\* promise has not been rejected.  A promise that is still pending is not looked
\* at any further.
ResumeResult(w) ==
  /\ vm' = Drained(w)
  /\ \/ /\ Entries(w) # {} \/ w.queued # <<>>
        /\ result' = Result("pending", w.queued)
     \/ /\ Entries(w) = {} /\ w.queued = <<>>
        /\ result' = Result(IF w.top = "rejected" THEN "error" ELSE "ok", <<>>)

\* ExtensionSession::reset between two cells: a new VM.
Reset ==
  /\ pc = "idle"
  /\ vm' = FreshVM /\ needsReset' = FALSE
  /\ UNCHANGED <<pc, cells, aborted, result, batch, accumulated, resumed, thrown>>

\* run_cell_async: the flag is cleared, a due reset performed (for what the new
\* VM lacks then, see LoseContext of ApiRegistry), what the last cell left is
\* dropped, and the first segment runs.
RunCell ==
  /\ pc = "idle"
  /\ cells < MaxCells
  /\ cells' = cells + 1
  /\ aborted' = FALSE
  /\ needsReset' = FALSE
  /\ UNCHANGED <<batch, accumulated, resumed, thrown>>
  /\ \E w \in Segments(FreshVM) : OutOfFuel(w) \/ FirstResult(w)
  /\ pc' = IF result'.status = "pending" THEN "loop" ELSE "done"

\* resume_async_pending finds no entry (its timer was cleared): the session is
\* to be reset and no segment runs.
ResumeMissing(id) ==
  /\ id \notin Entries(vm)
  /\ result' = Result("internal", <<>>)
  /\ needsReset' = TRUE
  /\ UNCHANGED <<vm, thrown>>

\* The callback of a timer throws: the entry stays, the session is to be reset.
ResumeThrows(id) ==
  /\ id \in vm.timers
  /\ result' = Result("internal", <<>>)
  /\ needsReset' = TRUE
  /\ \E w \in Callbacks(vm) : vm' = w
  /\ thrown' = thrown \cup {id}

\* The entry is resolved or rejected and removed, and a segment runs.
ResumeEntry(id) ==
  /\ id \in Entries(vm)
  /\ LET v == [vm EXCEPT !.calls = @ \ {id}, !.timers = @ \ {id}]
     IN  \E w \in Segments(v) : OutOfFuel(w) \/ ResumeResult(w)
  /\ UNCHANGED <<needsReset, thrown>>

\* resume_cell.
ResumeCell(id) ==
  /\ ResumeMissing(id) \/ ResumeThrows(id) \/ ResumeEntry(id)
  /\ resumed' = resumed \cup {id}

-----------------------------------------------------------------------------
(* The loop.                                                               *)

\* setAborted while the cell runs.
SetAborted ==
  /\ CanAbort
  /\ pc \in Running
  /\ ~aborted
  /\ aborted' = TRUE
  /\ UNCHANGED <<pc, cells, vm, needsReset, result, batch, accumulated, resumed, thrown>>

\* Mutated form of IsStuck: an empty batch is no reason to stop.
NeverStuck == FALSE

\* A pending result without commands.
IsStuck == result.cmds = <<>>

\* The cell is stuck.
Stuck ==
  /\ pc = "loop" /\ IsStuck
  /\ result' = Result("stuck", <<>>)
  /\ pc' = "done"
  /\ UNCHANGED <<cells, vm, needsReset, aborted, batch, accumulated, resumed, thrown>>

\* The commands become the batch: executed, or with the flag set only aborted.
NextBatch ==
  /\ pc = "loop" /\ ~IsStuck
  /\ batch' = result.cmds
  /\ pc' = IF aborted THEN "aborting" ELSE "awaiting"
  /\ UNCHANGED <<cells, vm, needsReset, aborted, result, accumulated, resumed, thrown>>

\* join_all: every handler of the batch has answered.
JoinAll ==
  /\ pc = "awaiting"
  /\ pc' = "resuming"
  /\ UNCHANGED <<cells, vm, needsReset, aborted, result, batch, accumulated, resumed, thrown>>

\* The next command is resumed, with its answer or with E_ABORTED, and the
\* commands of a pending result are collected.
ResumeNext ==
  /\ pc = "resuming" /\ batch # <<>>
  /\ ResumeCell(Head(batch))
  /\ batch' = Tail(batch)
  /\ accumulated' = accumulated \o result'.cmds
  /\ UNCHANGED <<pc, cells, aborted>>

\* Mutated form of EndBatch: only the last resume counts.
EndBatchLast ==
  /\ pc = "resuming" /\ batch = <<>>
  /\ accumulated' = <<>>
  /\ pc' = IF result.status = "pending" THEN "loop" ELSE "done"
  /\ UNCHANGED <<cells, vm, needsReset, aborted, result, batch, resumed, thrown>>

\* The batch is resumed.  The result of the last resume decides, except that
\* commands of earlier ones keep the cell going unless it is an error.
EndBatch ==
  /\ pc = "resuming" /\ batch = <<>>
  /\ result' = IF accumulated # <<>> /\ result.status \notin Errors
               THEN Result("pending", accumulated) ELSE result
  /\ accumulated' = <<>>
  /\ pc' = IF result'.status = "pending" THEN "loop" ELSE "done"
  /\ UNCHANGED <<cells, vm, needsReset, aborted, batch, resumed, thrown>>

\* The flag was set before the batch: every command is resumed with E_ABORTED
\* and the loop is left.
AbortNext ==
  /\ pc = "aborting" /\ batch # <<>>
  /\ ResumeCell(Head(batch))
  /\ batch' = Tail(batch)
  /\ UNCHANGED <<pc, cells, aborted, accumulated>>

\* A result that is still pending becomes an error of the CellResult.
EndAbort ==
  /\ pc = "aborting" /\ batch = <<>>
  /\ result' = IF result.status = "pending" THEN Result("unfinished", <<>>) ELSE result
  /\ pc' = "done"
  /\ UNCHANGED <<cells, vm, needsReset, aborted, batch, accumulated, resumed, thrown>>

\* runCellAsync returns, and what the loop kept for the cell goes.
Return ==
  /\ pc = "done"
  /\ pc' = "idle"
  /\ result' = NoResult /\ batch' = <<>> /\ accumulated' = <<>>
  /\ resumed' = {} /\ thrown' = {}
  /\ UNCHANGED <<cells, vm, needsReset, aborted>>

LoopStep == Stuck \/ NextBatch \/ JoinAll \/ ResumeNext \/ EndBatch \/ AbortNext \/ EndAbort

Next == Reset \/ RunCell \/ SetAborted \/ LoopStep \/ Return

SafeSpec == Init /\ [][Next]_vars

\* The handlers of a batch all settle (each host call has a time limit, module
\* Relay) and nothing else makes the loop wait.
Spec == SafeSpec /\ WF_vars(LoopStep)

-----------------------------------------------------------------------------
(* Properties.                                                             *)

Commands(s) == {s[i] : i \in DOMAIN s}

\* The commands that were issued and are still to be executed or resumed.
Waiting == batch \o accumulated \o vm.queued \o (IF pc = "loop" THEN result.cmds ELSE <<>>)

IsVM(v) ==
  /\ v \in [issued : 0..MaxCalls, calls : SUBSET Ids, timers : SUBSET Ids, queued : Seq(Ids),
            top : {"pending", "fulfilled", "rejected"}]
  /\ Entries(v) \subseteq 1..v.issued /\ v.calls \cap v.timers = {}
  /\ v.queued \in Seq(1..v.issued)

\* Type invariant: the entries and the commands are calls the cell has made.
TypeOK ==
  /\ pc \in Running \cup {"idle", "done"}
  /\ cells \in 0..MaxCells
  /\ IsVM(vm)
  /\ needsReset \in BOOLEAN /\ aborted \in BOOLEAN
  /\ result \in [status : Statuses, cmds : Seq(Ids)]
  /\ \A s \in {result.cmds, batch, accumulated} : s \in Seq(1..vm.issued)
  /\ resumed \subseteq 1..vm.issued
  /\ thrown \subseteq 1..vm.issued

\* No command is executed or resumed twice: it is in one place of the loop, and
\* in none once it has been resumed (draining of pending_async_commands and
\* accumulation of the batches) ...
NoCommandTwice ==
  pc \in Running =>
    /\ IsInjective(Waiting)
    /\ Commands(Waiting) \cap resumed = {}

\* ... and a cell that goes on has not forgotten a call: the command of every entry is
\* still to be resumed, unless it is a timer whose callback threw (the loop's
\* accumulated_pending against __webJsPending).  An aborted cell may forget.
NoCallForgotten ==
  pc \in Running \ {"aborting"} => Entries(vm) \subseteq Commands(Waiting) \cup thrown

\* Each call of a cell is executed and resumed once, over batches, timers that
\* fire, are cleared or throw, and calls made while others are resumed.
EachCallOnce == NoCommandTwice /\ NoCallForgotten

\* A cell that ends with ok has no call under way: each it made was resumed or is
\* a timer that was cleared, and nothing is left for the next cell.
OkLeavesNothing ==
  pc = "done" /\ result.status = "ok" =>
    Entries(vm) = {} /\ vm.queued = <<>>

\* The stuck-cell error is only seen after a timer's callback threw.
StuckIsThrown == result.status = "stuck" => thrown # {}

\* The status a cell ends with is true of its calls (is_stuck, and the status of the
\* last resume).  It does not tell whether the cell has come to its end: one whose
\* promise waits for something that no call of it will settle also ends with ok.
StatusTellsOfCalls == OkLeavesNothing /\ StuckIsThrown

\* Every cell ends, if it makes finitely many calls and each is answered.
CellEnds == (pc \in Running) ~> (pc = "done")

-----------------------------------------------------------------------------
(* The inductive invariant.                                                *)

\* Where commands may wait: between two batches only in the result, and none in
\* the queue of the VM unless the last segment broke off.
WhereTheyWait ==
  /\ pc = "idle" => result = NoResult /\ resumed = {} /\ thrown = {}
  /\ pc \in {"idle", "loop"} => batch = <<>>
  /\ pc \in {"idle", "loop", "awaiting", "aborting"} => accumulated = <<>>
  /\ pc \in {"loop", "awaiting"} => vm.queued = <<>>
  /\ pc = "awaiting" => batch # <<>>
  /\ pc = "resuming" /\ result.status \notin Errors => vm.queued = <<>>
  /\ pc = "resuming" /\ batch = <<>> /\ accumulated = <<>> => result.cmds = <<>>

\* What the result says of the VM.
ResultIsTrue ==
  /\ pc \in Running => result.status \in {"pending", "ok", "error", "fuel", "internal"}
  /\ pc \in {"loop", "awaiting"} => result.status = "pending"
  /\ pc \in {"loop", "awaiting", "resuming"} /\ result.status = "pending" =>
       result.cmds # <<>> \/ Entries(vm) # {}
  /\ result.status = "ok" => Entries(vm) = {} /\ vm.queued = <<>>

CellInv ==
  TypeOK /\ EachCallOnce /\ StuckIsThrown /\ WhereTheyWait /\ ResultIsTrue
=============================================================================
