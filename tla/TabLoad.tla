------------------------------- MODULE TabLoad -------------------------------
(***************************************************************************)
(* web.tab.goto, page.goto and web.tab.wait_for_load: a tool of the panel  *)
(* navigates a tab and waits until it has loaded (navigateTab and          *)
(* waitForTabLoad of execute.ts), while the tab loads, redirects, refuses, *)
(* hangs, is closed, or goes elsewhere on its own.                         *)
(*                                                                         *)
(* The tool learns of the tab by events and by the answers of chrome.tabs, *)
(* in the order in which Chrome made them, and later than the facts.       *)
(***************************************************************************)
EXTENDS Naturals, Sequences

CONSTANTS
  Urls,       \* the addresses that occur
  Internal,   \* those that are not http(s)
  Refused,    \* and of them, those of chrome:// and chrome-extension://
  None,       \* undefined
  MaxMoves    \* bound: what the tab does on its own during a call

ASSUME LoadAssumption ==
  /\ Internal \subseteq Urls /\ Refused \subseteq Internal /\ None \notin Urls
  /\ MaxMoves \in Nat
  /\ None \notin [ok : BOOLEAN, doc : {"before", "ours", "other", None}]

VARIABLES
  tab,      \* Chrome: the document the tab shows
  nav,      \* Chrome: the navigation that has not replaced it yet
  asks,     \* calls of chrome.tabs on their way to Chrome
  inbox,    \* events and answers on their way to the panel
  moves,    \* what the tab has done on its own
  pc,       \* where the tool is
  call,     \* which tool and its parameters
  pre,      \* preNavigationUrl
  saw,      \* navSawLoading and sawLoading
  grace,    \* whether graceTimer is armed
  result,   \* what the tool returned
  others    \* history: another navigation of the tab overlapped the call

chromeVars == <<tab, nav, moves>>
callVars   == <<pc, call, pre, saw, grace, result>>
vars       == <<chromeVars, asks, inbox, callVars, others>>

Waiting == "waiting"
Steps   == {"idle", "asking", "updating", Waiting, "checking", "quieting", "pinging",
            "reading", "done"}

\* A navigation, with whatever address: the call's own, or another's.
NoNav == [stage |-> "none", ours |-> FALSE]
Away  == [stage |-> "started", ours |-> FALSE]

\* What the tab shows: whether it is still loading, and whether it has a content
\* script that answers.
Document(url, doc, loading, script) ==
  [url |-> url, doc |-> doc, loading |-> loading, script |-> script, gone |-> FALSE]

Status(t, n) == IF t.loading \/ n.stage = "started" THEN "loading" ELSE "complete"

\* tabs.onUpdated, and the Tab that tabs.get answers with.
Updated(status, url) == [what |-> "event", status |-> status, url |-> url]
Tab(what) == [what |-> what, ok |-> ~tab.gone, status |-> Status(tab, nav),
              url |-> tab.url, doc |-> tab.doc]

\* The event of a status that becomes another one.
Changed(t, n) ==
  IF Status(t, n) = Status(tab, nav) THEN <<>> ELSE <<Updated(Status(t, n), None)>>

Failed        == [ok |-> FALSE, doc |-> None]
Succeeded(doc) == [ok |-> TRUE, doc |-> doc]

Init ==
  /\ \E u \in Urls, l \in BOOLEAN : tab = Document(u, "before", l, u \notin Internal)
  /\ nav \in {NoNav, Away}
  /\ asks = <<>> /\ inbox = <<>> /\ moves = 0
  /\ pc = "idle" /\ call = [kind |-> None]
  /\ pre = None /\ saw = FALSE /\ grace = FALSE
  /\ result = None /\ others = FALSE

-----------------------------------------------------------------------------
(* Chrome and its tab.                                                     *)

\* What the tab does after the tool has returned is left out.
Watched == pc # "done"

\* A navigation that was asked for starts (no beforeunload dialog is open).
Start ==
  /\ nav.stage = "asked" /\ Watched
  /\ nav' = [nav EXCEPT !.stage = "started"]
  /\ inbox' = inbox \o Changed(tab, nav')
  /\ UNCHANGED <<tab, moves, asks, callVars, others>>

\* The tab shows a new document, that of the address or of one it redirects to.
\* An error page has no content script.
Commit ==
  /\ nav.stage = "started" /\ Watched
  /\ \E u \in Urls, script \in BOOLEAN :
       /\ script => u \notin Internal
       /\ tab' = Document(u, IF nav.ours THEN "ours" ELSE "other", TRUE, script)
       /\ inbox' = Append(inbox, Updated("loading", u))
  /\ nav' = NoNav
  /\ UNCHANGED <<moves, asks, callVars, others>>

\* The document has loaded.
Load ==
  /\ ~tab.gone /\ tab.loading /\ Watched
  /\ tab' = [tab EXCEPT !.loading = FALSE]
  /\ inbox' = inbox \o Changed(tab', nav)
  /\ UNCHANGED <<nav, moves, asks, callVars, others>>

\* A navigation ends without a document: a download, a 204, the user stays.
Drop ==
  /\ nav # NoNav /\ Watched
  /\ nav' = NoNav
  /\ inbox' = inbox \o Changed(tab, NoNav)
  /\ UNCHANGED <<tab, moves, asks, callVars, others>>

Moves ==
  /\ Watched /\ ~tab.gone /\ moves < MaxMoves /\ pc # "idle"
  /\ moves' = moves + 1

\* The page or the user navigates the tab, ...
Leave ==
  /\ Moves
  /\ nav' = Away
  /\ inbox' = inbox \o Changed(tab, nav')
  /\ others' = TRUE
  /\ UNCHANGED <<tab, asks, callVars>>

\* ... the page changes its address with history.pushState, within its origin, ...
Rewrite(url) ==
  /\ Moves /\ tab.url \notin Internal /\ url \notin Internal
  /\ tab' = [tab EXCEPT !.url = url]
  /\ inbox' = Append(inbox, Updated(None, url))
  /\ others' = TRUE
  /\ UNCHANGED <<nav, asks, callVars>>

\* ... or the user closes it.
Close ==
  /\ Moves
  /\ tab' = [tab EXCEPT !.gone = TRUE, !.loading = FALSE]
  /\ nav' = NoNav
  /\ UNCHANGED <<asks, inbox, callVars, others>>

\* tabs.update replaces the navigation under way, and starts the new one before
\* or after it answers.
AnswerUpdate ==
  /\ IF tab.gone THEN nav' = nav
     ELSE \E stage \in {"asked", "started"} :
            nav' = [stage |-> stage, ours |-> TRUE]
  /\ inbox' = Append(inbox \o Changed(tab, nav'), [what |-> "update", ok |-> ~tab.gone])

\* Chrome answers tabs.update and tabs.get.
Answer ==
  /\ asks # <<>> /\ Watched
  /\ asks' = Tail(asks)
  /\ IF Head(asks) = "update" THEN AnswerUpdate
     ELSE inbox' = Append(inbox, Tab(Head(asks))) /\ UNCHANGED nav
  /\ UNCHANGED <<tab, moves, callVars, others>>

-----------------------------------------------------------------------------
(* The tool.                                                               *)

Ask(what) == asks' = Append(asks, what)

End(r) == pc' = "done" /\ result' = r

\* goto: the address of the tab is read first.
CallGoto(url) ==
  /\ pc = "idle"
  /\ call' = [kind |-> "goto", url |-> url]
  /\ pc' = "asking" /\ Ask("pre")
  /\ others' = (nav # NoNav \/ tab.loading)
  /\ UNCHANGED <<chromeVars, inbox, pre, saw, grace, result>>

\* wait_for_load.
CallWait ==
  /\ pc = "idle"
  /\ call' = [kind |-> "wait_for_load"]
  /\ pc' = Waiting /\ Ask("initial")
  /\ UNCHANGED <<chromeVars, inbox, pre, saw, grace, result, others>>

\* A page of chrome:// or chrome-extension:// is not navigated.  Without a tab
\* web.tab.goto fails, and page.goto goes on.  Else navigateTab listens and updates
\* the tab.
ReadPre(m) ==
  /\ \/ /\ m.ok => m.url \in Refused
        /\ End(Failed) /\ UNCHANGED <<asks, pre>>
     \/ /\ m.ok => m.url \notin Refused
        /\ pre' = IF m.ok THEN m.url ELSE None
        /\ pc' = "updating" /\ Ask("update")
        /\ UNCHANGED result
  /\ UNCHANGED <<call, saw, grace>>

\* The promise of tabs.update; waitForTabLoad starts with a look at the tab.
ReadUpdate(m) ==
  /\ IF m.ok THEN pc' = Waiting /\ Ask("initial") /\ UNCHANGED result
     ELSE End(Failed) /\ UNCHANGED asks
  /\ UNCHANGED <<call, pre, saw, grace>>

NavigatedAway(url) == pre # None /\ url # None /\ url # pre

\* The two listeners of tabs.onUpdated, navListener and listener.
ReadEvent(m) ==
  /\ saw' = (saw \/ (pc \in {"updating", Waiting} /\ m.status = "loading"))
  /\ grace' = (grace \/ (pc = Waiting /\ NavigatedAway(m.url)))
  /\ IF pc = Waiting /\ m.status = "complete" THEN Ask("retry") ELSE UNCHANGED asks
  /\ UNCHANGED <<pc, call, pre, result>>

\* Mutated forms of Complete: the address before the navigation is not looked at;
\* it is not looked at whether the tab has loaded since.
CompleteAnyhow(m, loading)    == m.status = "complete"
CompleteElsewhere(m, loading) == m.status = "complete" /\ (pre = None \/ m.url # pre)

\* shouldSettleOnComplete.
Complete(m, loading) ==
  m.status = "complete" /\ (pre = None \/ loading \/ m.url # pre)

\* waitForTabLoad is settled: its listener and timer are removed.
Loaded ==
  /\ grace' = FALSE
  /\ IF call.kind = "wait_for_load" THEN pc' = "pinging" /\ UNCHANGED asks
     ELSE pc' = "checking" /\ Ask("check")
  /\ UNCHANGED result

\* Mutated form of ReadTab: what comes after the promise is settled settles it.
ReadTabAlways(m) ==
  /\ saw' = (saw \/ (m.what = "initial" /\ m.ok /\ m.status = "loading"))
  /\ \/ m.ok /\ Complete(m, saw') /\ Loaded
     \/ ~m.ok /\ m.what = "initial" /\ End(Failed) /\ grace' = FALSE /\ UNCHANGED asks
     \/ /\ IF m.ok THEN ~Complete(m, saw') ELSE m.what = "retry"
        /\ grace' = (grace \/ (m.ok /\ NavigatedAway(m.url)))
        /\ UNCHANGED <<pc, asks, result>>
  /\ UNCHANGED <<call, pre>>

\* The tab that waitForTabLoad asked for at first and after each "complete".
ReadTab(m) ==
  IF pc # Waiting THEN UNCHANGED <<asks, callVars>>
  ELSE /\ saw' = (saw \/ (m.what = "initial" /\ m.ok /\ m.status = "loading"))
       /\ \/ m.ok /\ Complete(m, saw') /\ Loaded
          \/ ~m.ok /\ m.what = "initial" /\ End(Failed) /\ grace' = FALSE /\ UNCHANGED asks
          \/ /\ IF m.ok THEN ~Complete(m, saw') ELSE m.what = "retry"
             /\ grace' = (grace \/ (m.ok /\ NavigatedAway(m.url)))
             /\ UNCHANGED <<pc, asks, result>>
       /\ UNCHANGED <<call, pre>>

\* The checks after the load, if the tab is still there, and then waitUntil.
ReadCheck(m) ==
  /\ IF m.ok /\ (\/ m.url \in Internal
                 \/ m.status = "complete" /\ m.url = pre /\ m.url # call.url)
     THEN End(Failed)
     ELSE pc' \in {"quieting", "pinging"} /\ UNCHANGED result
  /\ UNCHANGED <<asks, call, pre, saw, grace>>

\* The tab as goto returns it.
ReadFresh(m) ==
  /\ End(IF m.ok THEN Succeeded(m.doc) ELSE Failed)
  /\ UNCHANGED <<asks, call, pre, saw, grace>>

\* The panel handles an event or an answer.
Handle ==
  /\ inbox # <<>> /\ Watched
  /\ inbox' = Tail(inbox)
  /\ LET m == Head(inbox)
     IN  CASE m.what = "event"  -> ReadEvent(m)
           [] m.what = "pre"    -> ReadPre(m)
           [] m.what = "update" -> ReadUpdate(m)
           [] m.what = "check"  -> ReadCheck(m)
           [] m.what = "fresh"  -> ReadFresh(m)
           [] OTHER             -> ReadTab(m)
  /\ UNCHANGED <<chromeVars, others>>

\* graceTimer: the tab has left its address and does not finish loading.
GraceFires ==
  /\ pc = Waiting /\ grace
  /\ Loaded
  /\ UNCHANGED <<chromeVars, inbox, call, pre, saw, others>>

\* Mutated form of Deadline: the tab is asked for first.
DeadlineOfTab ==
  /\ pc = Waiting /\ ~tab.gone
  /\ End(Failed) /\ grace' = FALSE
  /\ UNCHANGED <<chromeVars, asks, inbox, call, pre, saw, others>>

\* The timeout of waitForTabLoad.
Deadline ==
  /\ pc = Waiting
  /\ End(Failed) /\ grace' = FALSE
  /\ UNCHANGED <<chromeVars, asks, inbox, call, pre, saw, others>>

\* NetworkTracker.waitForIdle finds no request twice, or has no time left.
Quiet ==
  /\ pc = "quieting"
  /\ \/ pc' = "pinging" /\ UNCHANGED result
     \/ End(Failed)
  /\ UNCHANGED <<chromeVars, asks, inbox, call, pre, saw, grace, others>>

\* The content script of what the tab shows answers the ping, ...
PingAnswered ==
  /\ pc = "pinging" /\ ~tab.gone /\ tab.script
  /\ IF call.kind = "wait_for_load" THEN End(Succeeded(None)) /\ UNCHANGED asks
     ELSE pc' = "reading" /\ Ask("fresh") /\ UNCHANGED result
  /\ UNCHANGED <<chromeVars, inbox, call, pre, saw, grace, others>>

\* ... or nobody does in time, or it refuses.
PingFails ==
  /\ pc = "pinging"
  /\ End(Failed)
  /\ UNCHANGED <<chromeVars, asks, inbox, call, pre, saw, grace, others>>

Next ==
  \/ Start \/ Commit \/ Load \/ Drop \/ Leave \/ Close \/ Answer
  \/ \E u \in Urls : Rewrite(u)
  \/ \E u \in Urls \ Internal : CallGoto(u)
  \/ CallWait
  \/ Handle \/ GraceFires \/ Deadline \/ Quiet \/ PingAnswered \/ PingFails

\* Chrome answers, the panel handles what it gets, and the timers fire.  Nothing
\* makes a tab load.
Spec ==
  /\ Init /\ [][Next]_vars
  /\ WF_vars(Answer) /\ WF_vars(Handle)
  /\ WF_vars(Deadline) /\ WF_vars(Quiet) /\ WF_vars(PingFails)

-----------------------------------------------------------------------------
(* Properties.                                                             *)

Docs        == {"before", "ours", "other"}
Documents   == [url : Urls, doc : Docs, loading : BOOLEAN, script : BOOLEAN, gone : BOOLEAN]
Navigations == {NoNav} \cup [stage : {"asked", "started"}, ours : BOOLEAN]

\* What is under way: what the tool asks for, one after the other (Turns) or as
\* often as it likes, and what it is told.
Turns     == {"pre", "update", "check", "fresh"}
Looks     == {"initial", "retry"}
Events    == [what : {"event"}, status : {"loading", "complete", None}, url : Urls \cup {None}]
Tabs      == [what : {"pre", "check", "fresh"} \cup Looks, ok : BOOLEAN,
              status : {"loading", "complete"}, url : Urls, doc : Docs]
Updates   == [what : {"update"}, ok : BOOLEAN]
Messages  == Events \cup Tabs \cup Updates
Outcomes  == [ok : BOOLEAN, doc : Docs \cup {None}]

\* Type invariant: a tool that has returned is over, the graceTimer belongs to a
\* wait, and what a tool asks for in turn is under way until it is read.
TypeOK ==
  /\ tab \in Documents
  /\ nav \in Navigations
  /\ asks \in Seq(Turns \cup Looks) /\ inbox \in Seq(Messages)
  /\ moves \in 0..MaxMoves
  /\ pc \in Steps /\ pre \in Urls \cup {None}
  /\ pc # "idle" => call \in [kind : {"goto"}, url : Urls \ Internal] \cup [kind : {"wait_for_load"}]
  /\ saw \in BOOLEAN /\ grace \in BOOLEAN /\ others \in BOOLEAN
  /\ result \in Outcomes \cup {None}
  /\ pc = "done" <=> result # None
  /\ grace => pc = Waiting
  /\ pc \in {"asking", "updating", "checking", "reading"} =>
       \/ \E i \in DOMAIN asks : asks[i] \in Turns
       \/ \E i \in DOMAIN inbox : inbox[i].what \in Turns

\* A goto that succeeds while the tab does nothing else returns the document it
\* navigated to: neither the one before, which may complete, answer the ping and be
\* read while the navigation has not begun or is under way, nor one that a refused
\* navigation leaves.  With the tab's own address the two are not told apart.
GotoArrives ==
  result # None /\ result.ok /\ call.kind # "wait_for_load" /\ ~others =>
    result.doc = "ours" \/ call.url = pre

\* No load is missed: once every answer and event is read, a tool does not go on
\* waiting for a document that has loaded, reloads of the same address included,
\* however the update, its answer and the events came.
NoLoadMissed ==
  pc = Waiting /\ asks = <<>> /\ inbox = <<>> /\ ~tab.gone /\ Status(tab, nav) = "complete" =>
    call.kind # "wait_for_load" /\ tab.doc # "ours"

\* Each call ends, also when the tab hangs or is gone.
CallEnds == pc # "idle" ~> pc = "done"

-----------------------------------------------------------------------------
(* The inductive invariant of the proofs in TabLoadProofs.                 *)

\* What is asked for in turn belongs to the step the tool is at; nothing was asked
\* for after it, and behind its answer there are only events.
StepOf(turn) ==
  CASE turn = "pre"    -> "asking"
    [] turn = "update" -> "updating"
    [] turn = "check"  -> "checking"
    [] turn = "fresh"  -> "reading"
InTurn ==
  /\ \A i \in DOMAIN asks : asks[i] \in Turns =>
       /\ pc = StepOf(asks[i]) /\ i = Len(asks)
       /\ \A j \in DOMAIN inbox : inbox[j].what \notin Turns
  /\ \A i \in DOMAIN inbox : inbox[i].what \in Turns =>
       /\ pc = StepOf(inbox[i].what) /\ asks = <<>>
       /\ \A j \in DOMAIN inbox : j > i => inbox[j].what = "event"

\* Before a call, and before its tab is navigated.
NotBegun ==
  /\ pc = "idle" => asks = <<>> /\ \A i \in DOMAIN inbox : inbox[i].what = "event"
  /\ pc \in {"idle", "asking"} => pre = None /\ ~saw /\ tab.doc # "ours" /\ ~nav.ours
  /\ pc \in {"asking", "updating"} =>
       call.kind = "goto" /\ \A i \in DOMAIN asks : asks[i] \in Turns
  /\ pc \notin {"idle", "done"} /\ call.kind = "wait_for_load" => pre = None

\* The tool has seen a load begin before it reads message i.
IsLoading(m)      == m.what = "event" /\ m.status = "loading"
LoadsBefore(q, i) == \E j \in DOMAIN q : j < i /\ IsLoading(q[j])
SeesLoading(i)    == saw \/ LoadsBefore(inbox, i)
Told              == SeesLoading(Len(inbox) + 1)

\* It is told that the document it navigated to began to load ...
OursIsTold ==
  tab.doc = "ours" /\ pc \in {"updating", Waiting} => Told

\* ... and then that it has loaded, or asks.
NewsComes ==
  /\ pc = Waiting /\ ~tab.gone /\ Status(tab, nav) = "complete"
  /\ call.kind = "wait_for_load" \/ tab.doc = "ours"
  => \/ asks # <<>>
     \/ \E i \in DOMAIN inbox :
          /\ inbox[i].what = "event" \/ (inbox[i].what \in Looks /\ inbox[i].ok)
          /\ inbox[i].status = "complete"
          /\ call.kind = "wait_for_load" \/ SeesLoading(i)

\* A goto is under way and its tab does nothing else.
Alone == call.kind = "goto" /\ ~others /\ pc \notin {"idle", "done"}

\* Then the tab has not been touched before its own navigation commits: what the
\* tool knows of it is true, and
Untouched ==
  /\ ~tab.loading /\ ~grace /\ (nav = NoNav \/ nav.ours)
  /\ pc # "asking" => pre = tab.url \/ (pc = "updating" /\ pre = None /\ tab.gone)
  /\ pc = "asking" => \A i \in DOMAIN inbox : inbox[i].what = "pre" => i = Len(inbox)
  /\ \A i \in DOMAIN inbox :
       LET m == inbox[i]
       IN  /\ m.what = "event" => pc = "asking" \/ m.url = None
           /\ m.what = "update" /\ m.ok => pre # None
           /\ m.what \in {"pre", "check"} \cup Looks =>
                /\ IF m.ok THEN m.url = tab.url ELSE tab.gone
           /\ m.what = "check" /\ m.ok => m.status = "complete"
  /\ pc \in {"quieting", "pinging", "reading"} => call.url = pre \/ tab.gone

\* while the navigation is under way, the tool is not led to believe that it is over:
\* only what is read before its beginning says "complete".
UnderWay ==
  /\ pc \in {"updating", Waiting}
  /\ nav.stage = "asked"   => ~Told
  /\ nav.stage = "started" => Told
  /\ \A i \in DOMAIN inbox :
       inbox[i].what \in Looks /\ inbox[i].ok =>
         (inbox[i].status = "loading" <=> SeesLoading(i))

ArrivesAlone ==
  Alone =>
    /\ tab.doc = "ours" => nav = NoNav
    /\ tab.doc # "ours" => Untouched
    /\ tab.doc # "ours" /\ nav # NoNav => UnderWay
    /\ \A i \in DOMAIN asks : asks[i] = "update" => nav = NoNav /\ inbox = <<>> /\ ~saw /\ tab.doc # "ours"
    /\ \A i \in DOMAIN inbox :
         inbox[i].what = "fresh" /\ inbox[i].ok => inbox[i].doc = "ours" \/ call.url = pre

LoadInv ==
  TypeOK /\ GotoArrives /\ InTurn /\ NotBegun /\ OursIsTold /\ NewsComes /\ ArrivesAlone
=============================================================================
