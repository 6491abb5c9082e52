-------------------------------- MODULE Relay --------------------------------
(***************************************************************************)
(* The relay between the worker that hosts the JavaScript VM and the       *)
(* contexts that execute its host calls.                                   *)
(*                                                                         *)
(*   worker (worker.ts)            main thread (extension-session.ts)      *)
(*   call, pendingRelays  --toMain-->  stage, inFlightRelays, aborted      *)
(*                       <-toWorker--        |              |              *)
(*                                        toPage          tool handler     *)
(*                                           v              v              *)
(*                     content script (registry.ts)  work, pageCalls       *)
(*                                                                         *)
(* A call of the VM becomes an "asyncRelay" message; the main thread runs  *)
(* it itself or sends it to the content script of a tab, and answers with  *)
(* an "asyncRelayResult".  The worker may give up (timeout, reset, stop)   *)
(* at any moment and then sends a "relayCancel" after the call.  A stop of *)
(* the session aborts what runs on the main thread before the worker hears *)
(* of it, and terminates the worker soon after.                            *)
(*                                                                         *)
(* Every message channel is FIFO in the code.  Only the order between the  *)
(* messages of one relay matters to anything below, so there is one queue  *)
(* per relay and the order between relays is left open.                    *)
(***************************************************************************)
EXTENDS Naturals, Sequences, FiniteSets

CONSTANTS
  Calls,        \* the host calls a session makes, one relay id each
  PageCalls,    \* those whose route has endpoint "content-script"
  MaxPending    \* MAX_PENDING_RELAYS

ASSUME PageCallsAssumption == PageCalls \subseteq Calls
ASSUME MaxPendingAssumption == MaxPending \in Nat
ASSUME CallsAssumption == IsFiniteSet(Calls)

VARIABLES
  call,           \* worker: state of the promise of each call
  pendingRelays,  \* worker: keys of the pendingRelays map
  toMain,         \* worker -> main thread, per relay
  toWorker,       \* main thread -> worker, per relay: the "ok" of each result
  stage,          \* main thread: where executeContextCommand stands
  inFlightRelays, \* main thread: keys of the inFlightRelays map
  aborted,        \* main thread: relays whose AbortController has fired
  phase,          \* main thread: disposed and worker, "running" until stopWith
  toPage,         \* main thread -> content script, per relay
  work,           \* the command's handler, in the page or on the main thread
  inFlightCalls   \* content script: keys of the inFlightCalls map

workerVars == <<call, pendingRelays>>
mainVars   == <<stage, inFlightRelays, aborted, phase>>
pageVars   == <<work, inFlightCalls>>
vars == <<call, pendingRelays, toMain, toWorker, stage, inFlightRelays,
          aborted, phase, toPage, work, inFlightCalls>>

CallStates == {"idle", "pending", "ok", "failed", "rejected"}
Stages     == {"none", "running", "locating", "pinging", "inPage", "finished"}
WorkStates == {"none", "running", "ok", "error"}
Active     == {"running", "locating", "pinging", "inPage"}
Phases     == {"running", "stopping", "stopped"}

Init ==
  /\ call           = [c \in Calls |-> "idle"]
  /\ pendingRelays  = {}
  /\ toMain         = [c \in Calls |-> <<>>]
  /\ toWorker       = [c \in Calls |-> <<>>]
  /\ stage          = [c \in Calls |-> "none"]
  /\ inFlightRelays = {}
  /\ aborted        = {}
  /\ phase          = "running"
  /\ toPage         = [c \in Calls |-> <<>>]
  /\ work           = [c \in Calls |-> "none"]
  /\ inFlightCalls  = {}

Send(channel, c, m) == [channel EXCEPT ![c] = Append(@, m)]
Pop(channel, c)     == [channel EXCEPT ![c] = Tail(@)]
Next1(channel, c, m) == channel[c] # <<>> /\ Head(channel[c]) = m

-----------------------------------------------------------------------------
(* The worker: safePostAsCall, resolveAsyncRelayResult, settleAll...       *)

\* safePostAsCall admits the call: the relay is registered and posted.  (The
\* other steps of the worker need an entry or an answer, and a terminated worker
\* has neither.)
Invoke(c) ==
  /\ phase # "stopped"
  /\ call[c] = "idle"
  /\ Cardinality(pendingRelays) < MaxPending
  /\ call' = [call EXCEPT ![c] = "pending"]
  /\ pendingRelays' = pendingRelays \cup {c}
  /\ toMain' = Send(toMain, c, "asyncRelay")
  /\ UNCHANGED <<toWorker, mainVars, toPage, pageVars>>

\* safePostAsCall refuses it: the table is full, or postMessage throws (the
\* parameters cannot be cloned), which undoes the registration.
Refuse(c) ==
  /\ phase # "stopped"
  /\ call[c] = "idle"
  /\ call' = [call EXCEPT ![c] = "rejected"]
  /\ UNCHANGED <<pendingRelays, toMain, toWorker, mainVars, toPage, pageVars>>

\* Mutated form of Settle: pendingRelays.delete is forgotten.
SettleKeepsEntry(c, p) ==
  /\ call' = [call EXCEPT ![c] = p]
  /\ UNCHANGED pendingRelays

\* The settle-once closure: only a registered relay settles, once, as p.
Settle(c, p) ==
  /\ call' = [call EXCEPT ![c] = p]
  /\ pendingRelays' = pendingRelays \ {c}

\* Mutated form of ReceiveResult: a late result settles the promise again.
ReceiveLateResult(c) ==
  /\ toWorker[c] # <<>>
  /\ toWorker' = Pop(toWorker, c)
  /\ Settle(c, IF Head(toWorker[c]) THEN "ok" ELSE "failed")
  /\ UNCHANGED <<toMain, mainVars, toPage, pageVars>>

\* A result arrives.  Without a registered relay it is only logged.
ReceiveResult(c) ==
  /\ toWorker[c] # <<>>
  /\ toWorker' = Pop(toWorker, c)
  /\ IF c \in pendingRelays
     THEN Settle(c, IF Head(toWorker[c]) THEN "ok" ELSE "failed")
     ELSE UNCHANGED workerVars
  /\ UNCHANGED <<toMain, mainVars, toPage, pageVars>>

\* Mutated forms of Timeout: the relay is cancelled but its promise is left
\* pending; only page relays are timed.
TimeoutUnsettled(c) ==
  /\ c \in pendingRelays
  /\ toMain' = Send(toMain, c, "relayCancel")
  /\ Len(toMain'[c]) <= 2
  /\ UNCHANGED <<workerVars, toWorker, mainVars, toPage, pageVars>>
TimeoutPagesOnly(c) ==
  /\ c \in pendingRelays \cap PageCalls
  /\ Settle(c, "rejected")
  /\ toMain' = Send(toMain, c, "relayCancel")
  /\ UNCHANGED <<toWorker, mainVars, toPage, pageVars>>

\* The relay's timer fires (clearTimeout in settle disarms it).
Timeout(c) ==
  /\ c \in pendingRelays
  /\ Settle(c, "rejected")
  /\ toMain' = Send(toMain, c, "relayCancel")
  /\ UNCHANGED <<toWorker, mainVars, toPage, pageVars>>

\* Mutated form of SettleAll: settles with a state no caller knows.
SettleAllUnknown ==
  /\ pendingRelays # {}
  /\ call' = [c \in Calls |-> IF c \in pendingRelays THEN "reset" ELSE call[c]]
  /\ toMain' = [c \in Calls |-> IF c \in pendingRelays
                                THEN Append(toMain[c], "relayCancel")
                                ELSE toMain[c]]
  /\ pendingRelays' = {}
  /\ UNCHANGED <<toWorker, mainVars, toPage, pageVars>>

\* settleAllPendingRelays, when the worker handles "reset" or "stop".
SettleAll ==
  /\ pendingRelays # {}
  /\ call' = [c \in Calls |-> IF c \in pendingRelays THEN "failed" ELSE call[c]]
  /\ toMain' = [c \in Calls |-> IF c \in pendingRelays
                                THEN Append(toMain[c], "relayCancel")
                                ELSE toMain[c]]
  /\ pendingRelays' = {}
  /\ UNCHANGED <<toWorker, mainVars, toPage, pageVars>>

-----------------------------------------------------------------------------
(* The main thread: handleWorkerMessage and executeContextCommand.         *)

\* The end of every execution: .then / .catch / .finally.  An aborted relay
\* is answered only if it succeeded; posting a result may itself fail, and
\* there is nobody to post it to once the worker is terminated.
Finish(c, ok) ==
  /\ stage' = [stage EXCEPT ![c] = "finished"]
  /\ inFlightRelays' = inFlightRelays \ {c}
  /\ UNCHANGED <<aborted, phase>>
  /\ \/ (c \in aborted => ok) /\ phase # "stopped" /\ toWorker' = Send(toWorker, c, ok)
     \/ (ok \/ c \in aborted \/ phase = "stopped") /\ UNCHANGED toWorker

\* "asyncRelay": the relay is registered and its execution starts.
HandleRelay(c) ==
  /\ Next1(toMain, c, "asyncRelay")
  /\ toMain' = Pop(toMain, c)
  /\ inFlightRelays' = inFlightRelays \cup {c}
  /\ stage' = [stage EXCEPT ![c] = IF c \in PageCalls THEN "locating" ELSE "running"]
  /\ work' = [work EXCEPT ![c] = IF c \in PageCalls THEN @ ELSE "running"]
  /\ UNCHANGED <<workerVars, toWorker, aborted, phase, toPage, inFlightCalls>>

\* "asyncRelay" with no usable command, an unknown action or context: answered
\* in the same turn.
HandleBadRelay(c) ==
  /\ Next1(toMain, c, "asyncRelay")
  /\ toMain' = Pop(toMain, c)
  /\ Finish(c, FALSE)
  /\ UNCHANGED <<workerVars, toPage, pageVars>>

\* "relayCancel": the controller fires, if the relay is still in flight.  Only
\* a sendToFrame that is already waiting has an abort listener.
HandleCancel(c) ==
  /\ Next1(toMain, c, "relayCancel")
  /\ toMain' = Pop(toMain, c)
  /\ aborted' = IF c \in inFlightRelays THEN aborted \cup {c} ELSE aborted
  /\ IF c \in inFlightRelays /\ stage[c] = "inPage"
     THEN toPage' = Send(toPage, c, "registryCallCancel")
     ELSE UNCHANGED toPage
  /\ UNCHANGED <<workerVars, toWorker, stage, inFlightRelays, phase, pageVars>>

\* A tool handler of the main thread returns or throws.
MainReturn(c, ok) ==
  /\ stage[c] = "running"
  /\ work' = [work EXCEPT ![c] = IF ok THEN "ok" ELSE "error"]
  /\ Finish(c, ok)
  /\ UNCHANGED <<workerVars, toMain, toPage, inFlightCalls>>

\* withMainThreadTimeout gives up on a handler, which goes on by itself.
MainTimeout(c) ==
  /\ stage[c] = "running"
  /\ Finish(c, FALSE)
  /\ UNCHANGED <<workerVars, toMain, toPage, pageVars>>

\* A handler nobody waits for any more comes to its end.
OrphanReturn(c) ==
  /\ stage[c] = "finished"
  /\ work[c] = "running"
  /\ \E w \in {"ok", "error"} : work' = [work EXCEPT ![c] = w]
  /\ UNCHANGED <<workerVars, toMain, toWorker, mainVars, toPage, inFlightCalls>>

\* executeContentScriptCommand up to the ping: the tab is resolved, its owner
\* and URL are checked.  An abort is noticed when the ping starts.
Locate(c) ==
  /\ stage[c] = "locating"
  /\ \/ /\ c \notin aborted
        /\ stage' = [stage EXCEPT ![c] = "pinging"]
        /\ UNCHANGED <<toWorker, inFlightRelays, aborted, phase>>
     \/ Finish(c, FALSE)
  /\ UNCHANGED <<workerVars, toMain, toPage, pageVars>>

\* The ping fails (no content script, deadline, abort seen on a retry).
PingFails(c) ==
  /\ stage[c] = "pinging"
  /\ Finish(c, FALSE)
  /\ UNCHANGED <<workerVars, toMain, toPage, pageVars>>

\* The ping is answered: the command goes out, whether or not the relay was
\* aborted while the ping was under way.
PingAnswered(c) ==
  /\ stage[c] = "pinging"
  /\ stage' = [stage EXCEPT ![c] = "inPage"]
  /\ toPage' = Send(toPage, c, "registryCall")
  /\ UNCHANGED <<workerVars, toMain, toWorker, inFlightRelays, aborted, phase,
                 pageVars>>

\* sendToFrame receives the content script's response.
ReceiveResponse(c) ==
  /\ stage[c] = "inPage"
  /\ work[c] \in {"ok", "error"}
  /\ Finish(c, work[c] = "ok")
  /\ UNCHANGED <<workerVars, toMain, toPage, pageVars>>

\* stopWith: every relay in flight is aborted and the map is cleared, before the
\* worker is told to stop (its SettleAll).  What is aborted here may still be
\* awaited.  An abort that was heard before is not heard again.
StopWith ==
  /\ phase = "running"
  /\ phase' = "stopping"
  /\ aborted' = aborted \cup inFlightRelays
  /\ inFlightRelays' = {}
  /\ toPage' = [c \in Calls |->
                  IF c \in inFlightRelays \ aborted /\ stage[c] = "inPage"
                  THEN Append(toPage[c], "registryCallCancel")
                  ELSE toPage[c]]
  /\ UNCHANGED <<workerVars, toMain, toWorker, stage, pageVars>>

\* The 50 ms of a stop have passed: the worker is terminated, the cells that
\* awaited its promises are gone with it, and so are the messages either way.
Terminate ==
  /\ phase = "stopping"
  /\ phase' = "stopped"
  /\ call' = [c \in Calls |-> IF c \in pendingRelays THEN "failed" ELSE call[c]]
  /\ pendingRelays' = {}
  /\ toMain' = [c \in Calls |-> <<>>]
  /\ toWorker' = [c \in Calls |-> <<>>]
  /\ UNCHANGED <<stage, inFlightRelays, aborted, toPage, pageVars>>

-----------------------------------------------------------------------------
(* The content script: message-router.ts and registry.ts.                  *)

\* "registryCall": dispatchContentScriptCall registers and starts the handler.
PageCall(c) ==
  /\ Next1(toPage, c, "registryCall")
  /\ toPage' = Pop(toPage, c)
  /\ work' = [work EXCEPT ![c] = "running"]
  /\ inFlightCalls' = inFlightCalls \cup {c}
  /\ UNCHANGED <<workerVars, toMain, toWorker, mainVars>>

\* "registryCallCancel": cancelContentScriptCall aborts and forgets the call;
\* the handler decides when, and how, it ends.
PageCancel(c) ==
  /\ Next1(toPage, c, "registryCallCancel")
  /\ toPage' = Pop(toPage, c)
  /\ inFlightCalls' = inFlightCalls \ {c}
  /\ UNCHANGED <<workerVars, toMain, toWorker, mainVars, work>>

\* The handler ends; its response is on its way to sendToFrame.
PageReturn(c) ==
  /\ stage[c] = "inPage"
  /\ work[c] = "running"
  /\ \E w \in {"ok", "error"} : work' = [work EXCEPT ![c] = w]
  /\ inFlightCalls' = inFlightCalls \ {c}
  /\ UNCHANGED <<workerVars, toMain, toWorker, mainVars, toPage>>

\* The document goes away (navigation, closed tab): messages to it and its
\* handlers are gone, and the pending tabs.sendMessage rejects.
PageGone(c) ==
  /\ stage[c] = "inPage"
  /\ work[c] \in {"none", "running"}
  /\ work' = [work EXCEPT ![c] = "error"]
  /\ toPage' = [toPage EXCEPT ![c] = <<>>]
  /\ inFlightCalls' = inFlightCalls \ {c}
  /\ UNCHANGED <<workerVars, toMain, toWorker, mainVars>>

-----------------------------------------------------------------------------
WorkerStep(c) == Invoke(c) \/ Refuse(c) \/ ReceiveResult(c) \/ Timeout(c)

MainStep(c) ==
  \/ HandleRelay(c) \/ HandleBadRelay(c) \/ HandleCancel(c)
  \/ (\E ok \in BOOLEAN : MainReturn(c, ok)) \/ MainTimeout(c) \/ OrphanReturn(c)
  \/ Locate(c) \/ PingFails(c) \/ PingAnswered(c) \/ ReceiveResponse(c)

PageStep(c) == PageCall(c) \/ PageCancel(c) \/ PageReturn(c) \/ PageGone(c)

SessionStep == SettleAll \/ StopWith \/ Terminate

Next == SessionStep \/ \E c \in Calls : WorkerStep(c) \/ MainStep(c) \/ PageStep(c)

SafeSpec == Init /\ [][Next]_vars

\* What the schedulers guarantee: posted messages are delivered, the relay
\* timer, the main-thread timeout and a stop's grace period end, the awaits before a command is sent
\* to a page end (the ping has a deadline of its own).  Nothing makes a tool
\* handler or a page answer.
Fairness(c) ==
  /\ WF_vars(ReceiveResult(c)) /\ WF_vars(Timeout(c))
  /\ WF_vars(HandleRelay(c) \/ HandleBadRelay(c)) /\ WF_vars(HandleCancel(c))
  /\ WF_vars(MainTimeout(c)) /\ WF_vars(Locate(c))
  /\ WF_vars(PingFails(c) \/ PingAnswered(c)) /\ WF_vars(ReceiveResponse(c))
  /\ WF_vars(PageCall(c)) /\ WF_vars(PageCancel(c))

Spec == SafeSpec /\ WF_vars(Terminate) /\ \A c \in Calls : Fairness(c)

-----------------------------------------------------------------------------
(* Properties.                                                             *)

\* The variables range over the states described above: the promises, tables and
\* queues of worker.ts, extension-session.ts and registry.ts.
TypeOK ==
  /\ call \in [Calls -> CallStates]
  /\ pendingRelays \subseteq Calls
  /\ toMain \in [Calls -> Seq({"asyncRelay", "relayCancel"})]
  /\ toWorker \in [Calls -> Seq(BOOLEAN)]
  /\ stage \in [Calls -> Stages]
  /\ inFlightRelays \subseteq Calls
  /\ aborted \subseteq Calls
  /\ phase \in Phases
  /\ toPage \in [Calls -> Seq({"registryCall", "registryCallCancel"})]
  /\ work \in [Calls -> WorkStates]
  /\ inFlightCalls \subseteq Calls

\* The three tables hold exactly what is under way, whichever of result,
\* timeout, reset, cancel and page death came first: the worker's map the
\* unsettled promises (no leaked entry, no promise nobody can settle), the main
\* thread's map the executions that have not ended (from a stop on without those
\* the stop has aborted), the content script's map only handlers that are still
\* running.
Executing == {c \in Calls : stage[c] \in Active}
TablesExact ==
  /\ pendingRelays = {c \in Calls : call[c] = "pending"}
  /\ inFlightRelays \subseteq Executing
  /\ Executing \ inFlightRelays \subseteq (IF phase = "running" THEN {} ELSE aborted)
  /\ inFlightCalls \subseteq {c \in PageCalls : work[c] = "running"}

\* The pending table never outgrows MAX_PENDING_RELAYS (safePostAsCall), also
\* while results, timeouts and resets race with new calls.
Bounded == Cardinality(pendingRelays) <= MaxPending

\* A promise resolves with ok only when the handler behind it completed with
\* ok, and an ok still on its way to the worker is as true: a result raced by
\* an abort, a lost page or a main-thread timeout is never turned into success.
NoPhantomSuccess ==
  \A c \in Calls : call[c] = "ok" \/ (\E i \in 1..Len(toWorker[c]) : toWorker[c][i])
                     => work[c] = "ok"

\* The main thread swallows the answer of an aborted relay (handleWorkerMessage,
\* asyncRelay .then).  While the session runs nobody waits for such an answer: by
\* the time a relayCancel is under way its promise has settled.  stopWith aborts
\* relays that are still awaited; these waits are over when the worker, told to
\* stop or terminated, is done: none outlives the stop.
DroppedReplyUnawaited ==
  \A c \in Calls :
    /\ (\E i \in 1..Len(toMain[c]) : toMain[c][i] = "relayCancel")
         => call[c] \notin {"idle", "pending"}
    /\ c \in aborted => call[c] \notin {"idle", "pending"} \/ phase = "stopping"

\* A cancel never overtakes its relay (a cancel for an unknown id is ignored
\* and the command would run to its end uncancelled), and a page command never
\* overtakes its cancel.
CancelAfterRelay ==
  \A c \in Calls :
    /\ Next1(toMain, c, "relayCancel") => stage[c] # "none"
    /\ Next1(toPage, c, "registryCallCancel") => work[c] # "none"

\* A cancel costs nobody an answer (but for a session that is being stopped) and
\* comes neither too early nor in vain.
CancelsAreSafe == DroppedReplyUnawaited /\ CancelAfterRelay

\* One relay gets at most one answer, and only after its execution ended.
AnsweredOnce ==
  \A c \in Calls : toWorker[c] # <<>> => Len(toWorker[c]) = 1 /\ stage[c] = "finished"

\* What one relay's variables can look like together: the queues hold at most a
\* message and its cancel, in that order, and each stage of the execution implies
\* what has been sent, started and answered (the strengthening that makes the
\* invariants above inductive).
Consistent(c) ==
  /\ toMain[c] \in {<<>>, <<"asyncRelay">>, <<"asyncRelay", "relayCancel">>,
                    <<"relayCancel">>}
  /\ toMain[c] \in {<<"asyncRelay">>, <<"asyncRelay", "relayCancel">>}
       => stage[c] = "none"
  /\ toMain[c] = <<"relayCancel">> => stage[c] # "none"
  /\ toMain[c] \in {<<"asyncRelay", "relayCancel">>, <<"relayCancel">>}
       => call[c] \notin {"idle", "pending"}
  /\ call[c] = "idle" => toMain[c] = <<>> /\ stage[c] = "none"
  /\ call[c] = "pending" /\ toMain[c] = <<>> => stage[c] # "none"
  /\ call[c] = "pending" => phase # "stopped"
  /\ c \in aborted => /\ stage[c] # "none"
                      /\ call[c] = "pending" => phase = "stopping"
                      /\ c \in inFlightRelays => call[c] # "pending" /\ toMain[c] = <<>>
  /\ toPage[c] \in {<<>>, <<"registryCall">>,
                    <<"registryCall", "registryCallCancel">>, <<"registryCallCancel">>}
  /\ toPage[c] \in {<<"registryCall">>, <<"registryCall", "registryCallCancel">>}
       <=> stage[c] = "inPage" /\ work[c] = "none"
  /\ toPage[c] \in {<<"registryCall", "registryCallCancel">>, <<"registryCallCancel">>}
       => c \in aborted
  /\ stage[c] \in {"none", "locating", "pinging"} => work[c] = "none" /\ toPage[c] = <<>>
  /\ toPage[c] = <<"registryCallCancel">> => work[c] # "none"
  /\ IF c \in PageCalls
     THEN stage[c] # "running" /\ (work[c] = "running" => stage[c] = "inPage")
     ELSE stage[c] \notin {"locating", "pinging", "inPage"}
  /\ stage[c] = "running" => work[c] = "running"
  /\ toWorker[c] \in {<<>>, <<TRUE>>, <<FALSE>>}
  /\ toWorker[c] # <<>> => stage[c] = "finished"
  /\ call[c] = "ok" \/ toWorker[c] = <<TRUE>> => work[c] = "ok"

\* The inductive invariant of the relay: every property above follows from it.
RelayInv ==
  /\ TypeOK
  /\ TablesExact
  /\ Bounded
  /\ \A c \in Calls : Consistent(c)

\* A relay the main thread has accepted leaves its table, or is waiting for a
\* page whose handler runs: nothing else can hold an entry for ever.
OnlyPagesHoldRelays ==
  \A c \in Calls :
    c \in inFlightRelays ~>
      (c \notin inFlightRelays \/ (c \in PageCalls /\ work[c] = "running"))

\* The promise a cell awaits keeps the contract of AsyncCall: it settles once,
\* its command runs at most once and success is never invented ...
Abstract == INSTANCE AsyncCall WITH promise <- call, effect <- work
RefinesAsyncCall == Abstract!Spec

\* ... and it always settles, even if the main thread and the page never answer
\* (the timer of safePostAsCall is the only thing the worker relies on).
AlwaysSettles == Abstract!Settles

\* No cell and no table of the main thread waits for ever, but for such a page.
NothingHangs == AlwaysSettles /\ OnlyPagesHoldRelays
=============================================================================
