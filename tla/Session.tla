------------------------------- MODULE Session -------------------------------
(***************************************************************************)
(* The requests of a page to its ExtensionSession, from the call of        *)
(* runCellAsync, reset, fs.read, ... to the end of the promise it returned.*)
(*                                                                         *)
(*   page (extension-session.ts)               worker (worker.ts)          *)
(*   runQueue -> pendingCalls  --requests-->   sessionQueue -> busy        *)
(*                            <--replies---                                *)
(*                                                                         *)
(* Cells wait for each other on the page (runQueue); every other request   *)
(* is posted at once.  The worker executes all of them one after the other.*)
(* The running cell may wait for a host call that the page executes        *)
(* (module Relay has the details; here a cell makes one such call).        *)
(* stopWith posts a "stop", waits 50 ms and kills the worker.              *)
(*                                                                         *)
(* A message handed to the worker is put on sessionQueue by the turn that  *)
(* receives it: channel and queue are one FIFO, "requests".                *)
(***************************************************************************)
EXTENDS Naturals, Sequences, FiniteSets

CONSTANTS
  Cells,         \* the calls of runCellAsync
  Controls,      \* the calls of reset, inspectGlobals, loadLibrary, fs.*, ...
  Stop,          \* the message of stopWith; nobody waits for its reply
  None           \* null

ASSUME RequestsAssumption ==
  /\ Cells \cap Controls = {}
  /\ Stop \notin Cells \cup Controls /\ None \notin Cells \cup Controls \cup {Stop}

Requests == Cells \cup Controls

VARIABLES
  phase,         \* page: disposed and worker, as "live", "stopping", "stopped"
  status,        \* page: the promise of each request
  runQueue,      \* page: the cells on the runQueue chain, in order of submission
  pendingCalls,  \* page: keys of the pendingCalls map
  requests,      \* page -> worker, and sessionQueue
  replies,       \* worker -> page
  busy,          \* worker: the job of sessionQueue that is running
  activeRunCell, \* worker: the cell an uncaught error is blamed on
  outcome,       \* worker: what became of the execution of each request
  relay          \* the host call of each cell

pageVars   == <<phase, status, runQueue, pendingCalls>>
workerVars == <<busy, activeRunCell, outcome>>
vars == <<phase, status, runQueue, pendingCalls, requests, replies, busy,
          activeRunCell, outcome, relay>>

Phases   == {"live", "stopping", "stopped"}
Statuses == {"idle", "queued", "posted", "ok", "error", "stopped", "refused"}
Outcomes == {"none", "running", "ok", "error", "trapped"}

\* A relay is waited for by its cell until it is "settled": sent to the page,
\* executed there, aborted by stopWith, answered, or its answer swallowed.
Relays  == {"none", "sent", "executing", "aborted", "answered", "swallowed", "settled"}
Awaited == {"sent", "executing", "aborted", "answered", "swallowed"}

Settled(r) == status[r] \in {"ok", "error", "stopped", "refused"}

Init ==
  /\ phase         = "live"
  /\ status        = [r \in Requests |-> "idle"]
  /\ runQueue      = <<>>
  /\ pendingCalls  = {}
  /\ requests      = <<>>
  /\ replies       = <<>>
  /\ busy          = None
  /\ activeRunCell = None
  /\ outcome       = [r \in Requests |-> "none"]
  /\ relay         = [c \in Cells |-> "none"]

-----------------------------------------------------------------------------
(* The page.                                                               *)

\* postAndWait: refused once the session is disposed, else registered and posted.
PostAndWait(r) ==
  IF phase # "live"
  THEN /\ status' = [status EXCEPT ![r] = "refused"]
       /\ UNCHANGED <<pendingCalls, requests>>
  ELSE /\ status' = [status EXCEPT ![r] = "posted"]
       /\ pendingCalls' = pendingCalls \cup {r}
       /\ requests' = Append(requests, r)

\* runCellAsync: the cell goes to the end of the runQueue chain.
RunCell(c) ==
  /\ status[c] = "idle"
  /\ status' = [status EXCEPT ![c] = "queued"]
  /\ runQueue' = Append(runQueue, c)
  /\ UNCHANGED <<phase, pendingCalls, requests, replies, workerVars, relay>>

\* Mutated form of StartCell: cells do not wait for each other.
StartAnyCell ==
  \E c \in Cells :
    /\ status[c] = "queued"
    /\ PostAndWait(c)
    /\ runQueue' = IF phase = "live" THEN runQueue ELSE Tail(runQueue)
    /\ UNCHANGED <<phase, replies, workerVars, relay>>

\* The chain reaches the first cell; a refused one lets the next one through.
StartCell ==
  /\ runQueue # <<>>
  /\ status[Head(runQueue)] = "queued"
  /\ PostAndWait(Head(runQueue))
  /\ runQueue' = IF phase = "live" THEN runQueue ELSE Tail(runQueue)
  /\ UNCHANGED <<phase, replies, workerVars, relay>>

\* reset, inspectGlobals, loadLibrary, fs.*: posted without waiting.
Request(r) ==
  /\ status[r] = "idle"
  /\ PostAndWait(r)
  /\ UNCHANGED <<phase, runQueue, replies, workerVars, relay>>

\* postMessage throws (parameters of fs.write, ... that cannot be cloned): the
\* promise rejects, and its entry stays in pendingCalls.
PostThrows(r) ==
  /\ status[r] = "idle"
  /\ phase = "live"
  /\ status' = [status EXCEPT ![r] = "refused"]
  /\ pendingCalls' = pendingCalls \cup {r}
  /\ UNCHANGED <<phase, runQueue, requests, replies, workerVars, relay>>

\* Mutated form of ReceiveReply: any reply settles its request.
ReceiveEveryReply ==
  /\ replies # <<>>
  /\ replies' = Tail(replies)
  /\ LET r == Head(replies).id
     IN  IF r \in Requests
         THEN /\ pendingCalls' = pendingCalls \ {r}
              /\ status' = [status EXCEPT ![r] = IF Head(replies).ok THEN "ok" ELSE "error"]
              /\ runQueue' = IF r \in pendingCalls \cap Cells THEN Tail(runQueue) ELSE runQueue
         ELSE UNCHANGED <<pendingCalls, status, runQueue>>
  /\ UNCHANGED <<phase, requests, workerVars, relay>>

\* Mutated form of ReceiveReply: a failed cell does not let the next one through.
ErrorBreaksChain ==
  /\ replies # <<>>
  /\ replies' = Tail(replies)
  /\ LET r == Head(replies).id
     IN  IF r \in pendingCalls
         THEN /\ pendingCalls' = pendingCalls \ {r}
              /\ status' = [status EXCEPT ![r] = IF Head(replies).ok THEN "ok" ELSE "error"]
              /\ runQueue' = IF r \in Cells /\ Head(replies).ok THEN Tail(runQueue) ELSE runQueue
         ELSE UNCHANGED <<pendingCalls, status, runQueue>>
  /\ UNCHANGED <<phase, requests, workerVars, relay>>

\* handleWorkerMessage, "result" and "error": a reply settles the promise that
\* is registered under its id, if there is one, and lets the next cell start.
ReceiveReply ==
  /\ replies # <<>>
  /\ replies' = Tail(replies)
  /\ LET r == Head(replies).id
     IN  IF r \in pendingCalls
         THEN /\ pendingCalls' = pendingCalls \ {r}
              /\ status' = [status EXCEPT ![r] = IF Head(replies).ok THEN "ok" ELSE "error"]
              /\ runQueue' = IF r \in Cells THEN Tail(runQueue) ELSE runQueue
         ELSE UNCHANGED <<pendingCalls, status, runQueue>>
  /\ UNCHANGED <<phase, requests, workerVars, relay>>

\* stopWith, first part: relays in flight are aborted, "stop" is posted.
StopWith ==
  /\ phase = "live"
  /\ phase' = "stopping"
  /\ relay' = [c \in Cells |-> IF relay[c] = "executing" THEN "aborted" ELSE relay[c]]
  /\ requests' = Append(requests, Stop)
  /\ UNCHANGED <<status, runQueue, pendingCalls, replies, workerVars>>

\* stopWith, after 50 ms: the worker is killed with everything it holds, and
\* with its replies still under way; every pending call is rejected.  The cell
\* the chain waits for, if it is among them, lets the next one through.
Terminate ==
  /\ phase = "stopping"
  /\ phase' = "stopped"
  /\ status' = [r \in Requests |-> IF status[r] = "posted" /\ r \in pendingCalls
                                THEN "stopped" ELSE status[r]]
  /\ pendingCalls' = {}
  /\ runQueue' = IF runQueue # <<>> /\ Head(runQueue) \in pendingCalls
                 THEN Tail(runQueue) ELSE runQueue
  /\ requests' = <<>>
  /\ replies' = <<>>
  /\ busy' = None
  /\ activeRunCell' = None
  /\ UNCHANGED <<outcome, relay>>

\* The page takes up the host call of a cell (also after stopWith, as long as
\* the worker lives).
ExecuteRelay(c) ==
  /\ relay[c] = "sent"
  /\ phase # "stopped"
  /\ relay' = [relay EXCEPT ![c] = "executing"]
  /\ UNCHANGED <<pageVars, requests, replies, workerVars>>

\* Its execution ends.  The error of an aborted relay is not posted.
FinishRelay(c) ==
  /\ phase # "stopped"
  /\ \/ relay[c] \in {"executing", "aborted"} /\ relay' = [relay EXCEPT ![c] = "answered"]
     \/ relay[c] = "aborted" /\ relay' = [relay EXCEPT ![c] = "swallowed"]
  /\ UNCHANGED <<pageVars, requests, replies, workerVars>>

-----------------------------------------------------------------------------
(* The worker.                                                             *)

Reply(r, ok) == replies' = Append(replies, [id |-> r, ok |-> ok])

\* Mutated form of Take: every job is taken for a cell.
TakeAsCell ==
  /\ phase # "stopped" /\ busy = None /\ requests # <<>>
  /\ requests' = Tail(requests)
  /\ busy' = Head(requests)
  /\ activeRunCell' = Head(requests)
  /\ outcome' = IF Head(requests) = Stop THEN outcome
                ELSE [outcome EXCEPT ![Head(requests)] = "running"]
  /\ UNCHANGED <<pageVars, replies, relay>>

\* The next job of sessionQueue starts.
Take ==
  /\ phase # "stopped"
  /\ busy = None
  /\ requests # <<>>
  /\ requests' = Tail(requests)
  /\ busy' = Head(requests)
  /\ activeRunCell' = IF Head(requests) \in Cells THEN Head(requests) ELSE None
  /\ outcome' = IF Head(requests) = Stop THEN outcome
                ELSE [outcome EXCEPT ![Head(requests)] = "running"]
  /\ UNCHANGED <<pageVars, replies, relay>>

\* The running cell makes a host call and awaits it.
HostCall(c) ==
  /\ busy = c
  /\ outcome[c] = "running"
  /\ relay[c] = "none"
  /\ relay' = [relay EXCEPT ![c] = "sent"]
  /\ UNCHANGED <<pageVars, requests, replies, workerVars>>

\* The answer of the page, or the relay's own timer, lets the cell go on.
RelaySettles(c) ==
  /\ busy = c
  /\ relay[c] \in Awaited
  /\ relay' = [relay EXCEPT ![c] = "settled"]
  /\ UNCHANGED <<pageVars, requests, replies, workerVars>>

\* Mutated form of FinishJob: the active cell is not cleared.
FinishJobActive(r, ok) ==
  /\ busy = r
  /\ r # Stop => outcome[r] = "running" /\ (r \in Cells => relay[r] \notin Awaited)
  /\ outcome' = IF r = Stop THEN outcome
                ELSE [outcome EXCEPT ![r] = IF ok THEN "ok" ELSE "error"]
  /\ busy' = None
  /\ Reply(r, ok)
  /\ UNCHANGED <<pageVars, requests, relay, activeRunCell>>
\* The running job ends, and says so (a stop does, too).
FinishJob(r, ok) ==
  /\ busy = r
  /\ IF r = Stop
     THEN ok /\ UNCHANGED outcome
     ELSE /\ outcome[r] = "running"
          /\ outcome' = [outcome EXCEPT ![r] = IF ok THEN "ok" ELSE "error"]
  /\ r \in Cells => relay[r] \notin Awaited
  /\ busy' = None
  /\ activeRunCell' = IF activeRunCell = r THEN None ELSE activeRunCell
  /\ Reply(r, ok)
  /\ UNCHANGED <<pageVars, requests, relay>>

\* Mutated form of UncaughtError: a trap is only logged.
UncaughtTrapSilent(trap) ==
  /\ activeRunCell # None
  /\ IF trap THEN UNCHANGED replies ELSE Reply(activeRunCell, FALSE)
  /\ activeRunCell' = None
  /\ outcome' = IF trap THEN [outcome EXCEPT ![activeRunCell] = "trapped"] ELSE outcome
  /\ UNCHANGED <<pageVars, requests, busy, relay>>

\* "error" or "unhandledrejection" of the worker: the active cell is reported as
\* failed.  It goes on, unless the VM itself trapped: then its promise never
\* settles and sessionQueue is stuck behind it.
UncaughtError(trap) ==
  /\ activeRunCell # None
  /\ Reply(activeRunCell, FALSE)
  /\ activeRunCell' = None
  /\ outcome' = IF trap THEN [outcome EXCEPT ![activeRunCell] = "trapped"] ELSE outcome
  /\ UNCHANGED <<pageVars, requests, busy, relay>>

-----------------------------------------------------------------------------
PageStep ==
  \/ StartCell \/ ReceiveReply \/ StopWith \/ Terminate
  \/ (\E c \in Cells : RunCell(c) \/ ExecuteRelay(c) \/ FinishRelay(c))
  \/ (\E r \in Controls : Request(r) \/ PostThrows(r))

WorkerStep ==
  \/ Take
  \/ (\E c \in Cells : HostCall(c) \/ RelaySettles(c))
  \/ (\E r \in Requests \cup {Stop}, ok \in BOOLEAN : FinishJob(r, ok))
  \/ (\E trap \in BOOLEAN : UncaughtError(trap))

Next == PageStep \/ WorkerStep

SafeSpec == Init /\ [][Next]_vars

\* Messages are delivered, promise callbacks run, the timers of stopWith and of
\* a relay fire, and the short jobs of the worker end.  A cell need not.
Fairness ==
  /\ WF_vars(StartCell) /\ WF_vars(ReceiveReply) /\ WF_vars(Terminate) /\ WF_vars(Take)
  /\ \A c \in Cells : WF_vars(RelaySettles(c))
  /\ \A r \in Controls \cup {Stop} : WF_vars(\E ok \in BOOLEAN : FinishJob(r, ok))

Spec == SafeSpec /\ Fairness

-----------------------------------------------------------------------------
(* Properties.                                                             *)

\* The variables range over the states described above.
TypeOK ==
  /\ phase \in Phases
  /\ status \in [Requests -> Statuses]
  /\ runQueue \in Seq(Cells)
  /\ pendingCalls \subseteq Requests
  /\ requests \in Seq(Requests \cup {Stop})
  /\ replies \in Seq([id : Requests \cup {Stop}, ok : BOOLEAN])
  /\ busy \in Requests \cup {Stop, None}
  /\ activeRunCell \in Cells \cup {None}
  /\ outcome \in [Requests -> Outcomes]
  /\ relay \in [Cells -> Relays]

\* pendingCalls holds the requests that are posted and not settled, apart from
\* the entries of requests whose postMessage threw: no promise is left that
\* neither a reply nor stopWith can settle (postAndWait, handleWorkerMessage).
PendingExact ==
  {r \in Requests : status[r] = "posted"} = {r \in pendingCalls : status[r] # "refused"}

\* Cells run one after the other in the order of runCellAsync: the page waits
\* for one at a time, the first of the chain, and none behind it has begun,
\* whatever failures, resets and stops come in between.
CellsInOrder ==
  /\ \A i \in 2..Len(runQueue) :
       status[runQueue[i]] = "queued" /\ outcome[runQueue[i]] = "none"
  /\ \A c \in Cells : status[c] \in {"queued", "posted"}
                        <=> \E i \in 1..Len(runQueue) : runQueue[i] = c

\* A request reported as done was done: a result never belongs to another
\* request, to a killed worker or to a failed execution.
ReplyTruth ==
  /\ \A r \in Requests : status[r] = "ok" => outcome[r] = "ok"
  /\ \A i \in 1..Len(replies) :
       replies[i].ok /\ replies[i].id # Stop => outcome[replies[i].id] = "ok"

\* No request is lost: while the worker lives, a request somebody waits for is
\* in the queue, is being executed, or its reply is under way; a cell whose VM
\* trapped has been reported (reportActiveRunFailure).
NoRequestLost ==
  \A r \in Requests : status[r] = "posted" =>
    \/ \E i \in 1..Len(requests) : requests[i] = r
    \/ busy = r /\ outcome[r] = "running"
    \/ \E i \in 1..Len(replies) : replies[i].id = r

\* Every request is accounted for: one that is waited for can be settled and is
\* on its way, and one that is reported as done was done.
RequestsAccounted == PendingExact /\ NoRequestLost /\ ReplyTruth

\* An uncaught error is blamed on the cell that is running, never on one that
\* has ended or that waits in the queue (activeRunCell and its "finally").
BlamesRunningCell ==
  activeRunCell # None => activeRunCell = busy /\ outcome[busy] = "running"

\* The page's requests keep the contract of AsyncCall: a request settles once (the
\* second reply of a cell that an uncaught error had already failed, and replies
\* that race with stopWith, are ignored), and "ok" tells of a job that ended well.
PromiseOf(s) ==
  CASE s = "idle" -> "idle"
    [] s \in {"queued", "posted"} -> "pending"
    [] s = "ok" -> "ok"
    [] s \in {"error", "stopped"} -> "failed"
    [] s = "refused" -> "rejected"
promise == [r \in Requests |-> PromiseOf(status[r])]
effect  == [r \in Requests |-> IF outcome[r] = "trapped" THEN "error" ELSE outcome[r]]

Abstract == INSTANCE AsyncCall WITH Calls <- Requests
RefinesAsyncCall == Abstract!Spec

\* No cell keeps the worker of a live session busy for ever (an endless loop, a
\* trap): it ends, or somebody stops the session.
CellsEnd == \A c \in Cells : []<>~(phase = "live" /\ busy = c)

\* Then every request settles: the two queues never wait for each other, and after
\* stopWith nobody hangs on a dead worker, neither the cells still waiting on the
\* chain nor those submitted later.
RequestsSettle ==
  CellsEnd => \A r \in Requests : status[r] \in {"queued", "posted"} ~> Settled(r)

-----------------------------------------------------------------------------
(* The inductive invariant of the proofs in SessionProofs.                 *)

\* What the worker has taken up was posted by the page.
TakenWasPosted ==
  \A r \in Requests : outcome[r] # "none" => status[r] \in {"posted", "ok", "error", "stopped"}

\* A request in the queue of the worker is waited for, new, and there once.
QueueIsNew ==
  /\ \A i \in 1..Len(requests) :
       requests[i] # Stop => status[requests[i]] = "posted" /\ outcome[requests[i]] = "none"
  /\ \A i, j \in 1..Len(requests) : requests[i] = requests[j] /\ requests[i] # Stop => i = j

\* The worker is busy with a job that it has taken up, and replies to no other.
WorkIsTaken ==
  /\ busy \in Requests => outcome[busy] \in {"running", "trapped"}
  /\ \A i \in 1..Len(replies) : replies[i].id # Stop => outcome[replies[i].id] # "none"

\* A cell is on the chain once.
ChainedOnce == \A i, j \in 1..Len(runQueue) : runQueue[i] = runQueue[j] => i = j

SessionInv ==
  /\ TypeOK /\ RequestsAccounted /\ CellsInOrder /\ BlamesRunningCell
  /\ TakenWasPosted /\ QueueIsNew /\ WorkIsTaken /\ ChainedOnce
=============================================================================
