------------------------------ MODULE TabTracker ------------------------------
(***************************************************************************)
(* The tabs of a browser with several windows, and one session that works  *)
(* for one window: its TabTracker (tab-tracker.ts) follows the active tab  *)
(* by the events of chrome.tabs, and a call of the session goes to the     *)
(* active tab or to tabs it names, after a look at their window            *)
(* (extension-session.ts, tab-ownership.ts).                               *)
(*                                                                         *)
(* Chrome is asynchronous to the page: its events and its replies arrive   *)
(* in order, later.  The user moves, closes and activates tabs meanwhile.  *)
(***************************************************************************)
EXTENDS Naturals, Sequences, FiniteSets, SequencesExt

CONSTANTS
  Tabs, Windows,
  Window,     \* the window the session is bound to at first
  Calls,      \* the calls of the session
  Kinds,      \* subset of {"relay", "native", "goto"}: the calls that occur
  None,       \* null: no tab, no window
  MaxMoves,   \* bound: actions of the user
  CanRebind   \* whether rebindWindow is called

ASSUME WindowAssumption == Window \in Windows /\ None \notin Windows \cup Tabs
ASSUME KindsAssumption ==
  Kinds \subseteq {"relay", "native", "goto"} /\ MaxMoves \in Nat /\ CanRebind \in BOOLEAN

VARIABLES
  windowOf,     \* Chrome: the window of each tab, None once it is closed
  activeIn,     \* Chrome: the active tab of each window
  moves,        \* actions of the user so far
  inbox,        \* Chrome -> page: events and replies
  windowId,     \* windowId of session and tracker
  activeTabId,  \* the tracker's pointer
  ready,        \* init of the tracker: "query", "queried", "ready"
  calls,        \* what became of each call
  where,        \* history: the windows each tab was in during each call
  bound,        \* history: the windows of the session during each call
  hit           \* history: the tabs each call acted on

chromeVars  == <<windowOf, activeIn, moves>>
trackerVars == <<windowId, activeTabId, ready>>
vars == <<chromeVars, trackerVars, inbox, calls, where, bound, hit>>

\* A call waits for the query of the active tab (if it asks one), then looks at
\* the window of each of its targets in turn, then acts on them.
Idle   == [pc |-> "idle", kind |-> None, targets |-> <<>>, next |-> 1,
           asked |-> FALSE, window |-> None]
Steps  == {"idle", "query", "queried", "get", "gotten", "go", "done", "refused", "noTab"}

Event(k, t, w) == [kind |-> k, tab |-> t, window |-> w]
Reply(k, c, t, w) == [kind |-> k, call |-> c, tab |-> t, window |-> w]

Init ==
  /\ windowOf \in [Tabs -> Windows]
  /\ activeIn \in [Windows -> Tabs \cup {None}]
  /\ \A w \in Windows :
       LET here == {t \in Tabs : windowOf[t] = w}
       IN  activeIn[w] \in IF here = {} THEN {None} ELSE here
  /\ moves = 0 /\ inbox = <<>>
  /\ windowId = Window /\ activeTabId = None /\ ready = "query"
  /\ calls = [c \in Calls |-> Idle]
  /\ where = [c \in Calls |-> [t \in Tabs |-> {}]]
  /\ bound = [c \in Calls |-> {}]
  /\ hit = [c \in Calls |-> {}]

-----------------------------------------------------------------------------
(* Chrome and the user.                                                    *)

UserMoves == moves < MaxMoves /\ moves' = moves + 1

\* What Chrome activates in window w when tab t, the active one, leaves it.
Successors(w, t) ==
  LET rest == {u \in Tabs \ {t} : windowOf[u] = w}
  IN  IF activeIn[w] # t THEN {activeIn[w]} ELSE IF rest = {} THEN {None} ELSE rest

\* The event of that, if another tab became active.
Activated(w, t) ==
  IF t \notin {None, activeIn[w]} THEN <<Event("activated", t, w)>> ELSE <<>>

Activate(t) ==
  /\ UserMoves
  /\ windowOf[t] # None /\ activeIn[windowOf[t]] # t
  /\ activeIn' = [activeIn EXCEPT ![windowOf[t]] = t]
  /\ inbox' = inbox \o Activated(windowOf[t], t)
  /\ UNCHANGED <<windowOf, trackerVars, calls, hit>>

\* A load completes, in the foreground or in the background.
CompleteLoad(t) ==
  /\ UserMoves
  /\ windowOf[t] # None
  /\ inbox' = Append(inbox, Event("complete", t, windowOf[t]))
  /\ UNCHANGED <<windowOf, activeIn, trackerVars, calls, hit>>

CloseTab(t) ==
  /\ UserMoves
  /\ windowOf[t] # None
  /\ \E s \in Successors(windowOf[t], t) :
       /\ activeIn' = [activeIn EXCEPT ![windowOf[t]] = s]
       /\ inbox' = inbox \o <<Event("removed", t, windowOf[t])>> \o Activated(windowOf[t], s)
  /\ windowOf' = [windowOf EXCEPT ![t] = None]
  /\ UNCHANGED <<trackerVars, calls, hit>>

\* A tab is dragged to another window and becomes active there.
DragTab(t, w) ==
  /\ UserMoves
  /\ windowOf[t] \notin {None, w}
  /\ \E s \in Successors(windowOf[t], t) :
       /\ activeIn' = [activeIn EXCEPT ![windowOf[t]] = s, ![w] = t]
       /\ inbox' = inbox \o <<Event("detached", t, windowOf[t])>> \o Activated(windowOf[t], s)
                         \o <<Event("attached", t, w)>> \o Activated(w, t)
  /\ windowOf' = [windowOf EXCEPT ![t] = w]
  /\ UNCHANGED <<trackerVars, calls, hit>>

\* tabs.query of the tracker's init: the active tab of the last focused window.
AnswerInit ==
  /\ ready = "query"
  /\ ready' = "queried"
  /\ \E w \in Windows : inbox' = Append(inbox, Reply("init", None, activeIn[w], w))
  /\ UNCHANGED <<chromeVars, windowId, activeTabId, calls, hit>>

\* tabs.query of a call: the active tab of the window it asks for.
AnswerQuery(c) ==
  /\ calls[c].pc = "query"
  /\ calls' = [calls EXCEPT ![c].pc = "queried"]
  /\ inbox' = Append(inbox, Reply("query", c, activeIn[calls[c].window], calls[c].window))
  /\ UNCHANGED <<chromeVars, trackerVars, hit>>

\* tabs.get of a call: the window of its next target; None is a rejection.
AnswerGet(c) ==
  /\ calls[c].pc = "get"
  /\ calls' = [calls EXCEPT ![c].pc = "gotten"]
  /\ LET t == calls[c].targets[calls[c].next]
     IN  inbox' = Append(inbox, Reply("get", c, t, windowOf[t]))
  /\ UNCHANGED <<chromeVars, trackerVars, hit>>

-----------------------------------------------------------------------------
(* The tracker's listeners.  Events of other windows are ignored.          *)

\* Mutated form of HandleEvent: a tab that is dragged out stays the active one.
HandleEventNoDetach(e) ==
  /\ activeTabId' =
       CASE e.window # windowId -> activeTabId
         [] e.window = windowId /\ e.kind \in {"activated", "complete"} -> e.tab
         [] e.window = windowId /\ e.kind = "removed" ->
              IF activeTabId = e.tab THEN None ELSE activeTabId
         [] OTHER -> activeTabId
  /\ UNCHANGED <<windowId, ready, calls>>

\* onActivated and onUpdated point to the tab; onRemoved and onDetached drop it;
\* onAttached does nothing.
HandleEvent(e) ==
  /\ activeTabId' =
       CASE e.window # windowId -> activeTabId
         [] e.window = windowId /\ e.kind \in {"activated", "complete"} -> e.tab
         [] e.window = windowId /\ e.kind \in {"removed", "detached"} ->
              IF activeTabId = e.tab THEN None ELSE activeTabId
         [] e.window = windowId /\ e.kind = "attached" -> activeTabId
  /\ UNCHANGED <<windowId, ready, calls>>

\* init adopts the tab if it is in the window of the session.
HandleInit(r) ==
  /\ ready' = "ready"
  /\ activeTabId' = IF r.tab # None /\ r.window = windowId THEN r.tab ELSE activeTabId
  /\ UNCHANGED <<windowId, calls>>

\* Calls of "goto" look at nothing more before they act.
AfterResolve(kind) == IF kind = "goto" THEN "go" ELSE "get"

\* resolveActiveTabId after its query: the pointer is what was found.
HandleQuery(r) ==
  /\ IF r.tab # None
     THEN /\ activeTabId' = r.tab
          /\ calls' = [calls EXCEPT ![r.call].targets = <<r.tab>>,
                                    ![r.call].pc = AfterResolve(calls[r.call].kind)]
     ELSE /\ calls' = [calls EXCEPT ![r.call].pc = "noTab"]
          /\ UNCHANGED activeTabId
  /\ UNCHANGED <<windowId, ready>>

\* The window a target must be in: chrome.* calls took it with them when they
\* started, a relay looks at the session's.
CheckedWindow(c) == IF calls[c].kind = "native" THEN calls[c].window ELSE windowId

\* Mutated form of HandleGet: only the first target is looked at.
HandleGetFirst(r) ==
  /\ calls' = [calls EXCEPT ![r.call].pc =
                 IF r.window \notin {None, CheckedWindow(r.call)} THEN "refused" ELSE "go"]
  /\ UNCHANGED trackerVars

\* Mutated form of HandleGet: the loop over the targets has no end.
HandleGetOverrun(r) ==
  /\ calls' = IF r.window \notin {None, CheckedWindow(r.call)}
              THEN [calls EXCEPT ![r.call].pc = "refused"]
              ELSE [calls EXCEPT ![r.call].pc = "get", ![r.call].next = @ + 1]
  /\ UNCHANGED trackerVars

\* The ownership check: a tab of another window is refused, a tab Chrome knows
\* nothing of is passed over, and the next target is looked at, if any.
HandleGet(r) ==
  /\ calls' = IF r.window \notin {None, CheckedWindow(r.call)}
              THEN [calls EXCEPT ![r.call].pc = "refused"]
              ELSE IF calls[r.call].next < Len(calls[r.call].targets)
                   THEN [calls EXCEPT ![r.call].pc = "get", ![r.call].next = @ + 1]
                   ELSE [calls EXCEPT ![r.call].pc = "go"]
  /\ UNCHANGED trackerVars

\* The page receives the next message of Chrome.
Receive ==
  /\ inbox # <<>>
  /\ inbox' = Tail(inbox)
  /\ LET m == Head(inbox)
     IN  CASE m.kind = "init"  -> HandleInit(m)
           [] m.kind = "query" -> HandleQuery(m)
           [] m.kind = "get"   -> HandleGet(m)
           [] OTHER            -> HandleEvent(m)
  /\ UNCHANGED <<chromeVars, hit>>

-----------------------------------------------------------------------------
(* The calls of the session.                                               *)

StartAs(c, kind, targets, pc) ==
  calls' = [calls EXCEPT ![c] = [pc |-> pc, kind |-> kind, targets |-> targets,
                                 next |-> 1, asked |-> pc = "query", window |-> windowId]]

\* A call that names its tab, or for chrome.tabs.remove and chrome.scripting
\* several.
StartNamed(c) ==
  /\ ready = "ready"
  /\ calls[c].pc = "idle"
  /\ \E kind \in Kinds :
       \E targets \in SeqOf(Tabs, IF kind = "native" THEN 2 ELSE 1) \ {<<>>} :
          StartAs(c, kind, targets, AfterResolve(kind))
  /\ UNCHANGED <<chromeVars, trackerVars, inbox, hit>>

\* A call for the active tab: the pointer, or the result of a query.
StartActive(c) ==
  /\ ready = "ready"
  /\ calls[c].pc = "idle"
  /\ \E kind \in Kinds \ {"native"} :
       IF activeTabId # None
       THEN StartAs(c, kind, <<activeTabId>>, AfterResolve(kind))
       ELSE StartAs(c, kind, <<>>, "query")
  /\ UNCHANGED <<chromeVars, trackerVars, inbox, hit>>

\* The call acts on its targets; those that are closed it fails on.
Act(c) ==
  /\ calls[c].pc = "go"
  /\ calls' = [calls EXCEPT ![c].pc = "done"]
  /\ hit' = [hit EXCEPT ![c] = {t \in Tabs :
               windowOf[t] # None /\ \E i \in DOMAIN calls[c].targets : calls[c].targets[i] = t}]
  /\ UNCHANGED <<chromeVars, trackerVars, inbox>>

\* rebindWindow, when the sessions of two windows are merged.
RebindWindow(w) ==
  /\ CanRebind /\ ready = "ready" /\ w # windowId
  /\ windowId' = w /\ activeTabId' = None
  /\ UNCHANGED <<chromeVars, ready, inbox, calls, hit>>

-----------------------------------------------------------------------------
Chrome ==
  \/ \E t \in Tabs : Activate(t) \/ CompleteLoad(t) \/ CloseTab(t)
  \/ \E t \in Tabs, w \in Windows : DragTab(t, w)
  \/ AnswerInit
  \/ \E c \in Calls : AnswerQuery(c) \/ AnswerGet(c)

Page ==
  \/ Receive
  \/ \E c \in Calls : StartNamed(c) \/ StartActive(c) \/ Act(c)
  \/ \E w \in Windows : RebindWindow(w)

\* The history of a call since its start: where the tabs and the session were.
Observe ==
  /\ where' = [c \in Calls |-> [t \in Tabs |->
                 IF calls'[c].pc = "idle" THEN {} ELSE where[c][t] \cup ({windowOf'[t]} \ {None})]]
  /\ bound' = [c \in Calls |->
                 IF calls'[c].pc = "idle" THEN {} ELSE bound[c] \cup {windowId'}]

Next == (Chrome \/ Page) /\ Observe

Spec == Init /\ [][Next]_vars

-----------------------------------------------------------------------------
(* Properties.                                                             *)

\* What Chrome sends.
Messages ==
  [kind : {"activated", "complete", "removed", "detached", "attached"},
   tab : Tabs, window : Windows]
  \cup [kind : {"init"}, call : {None}, tab : Tabs \cup {None}, window : Windows]
  \cup [kind : {"query"}, call : Calls, tab : Tabs \cup {None}, window : Windows]
  \cup [kind : {"get"}, call : Calls, tab : Tabs, window : Windows \cup {None}]

CallStates ==
  [pc : Steps, kind : Kinds \cup {None}, targets : Seq(Tabs), next : Nat \ {0},
   asked : BOOLEAN, window : Windows \cup {None}]

\* Type invariant: closed tabs are active nowhere, and a call looks at a target it has.
TypeOK ==
  /\ windowOf \in [Tabs -> Windows \cup {None}]
  /\ activeIn \in [Windows -> Tabs \cup {None}]
  /\ \A w \in Windows : activeIn[w] # None => windowOf[activeIn[w]] = w
  /\ windowId \in Windows /\ activeTabId \in Tabs \cup {None}
  /\ ready \in {"query", "queried", "ready"}
  /\ inbox \in Seq(Messages)
  /\ calls \in [Calls -> CallStates]
  /\ \A c \in Calls :
       /\ calls[c].pc \in {"get", "gotten"} => calls[c].next \in DOMAIN calls[c].targets
       /\ calls[c].pc = "go" => calls[c].targets # <<>>
  /\ where \in [Calls -> [Tabs -> SUBSET Windows]] /\ bound \in [Calls -> SUBSET Windows]
  /\ hit \in [Calls -> SUBSET Tabs]

\* Once the page has seen everything Chrome sent, the pointer is null or a tab of
\* the session's window, whatever moved, closed or was rebound ("subsequent page.*
\* uses A's tabs only").
PointerIsOurs == inbox = <<>> /\ activeTabId # None => windowOf[activeTabId] = windowId

\* The pointer's tab was the answer to a query about a window that is no longer
\* the session's: the one thing that can break PointerIsOurs.
FoundBeforeRebind ==
  \E c \in Calls :
    calls[c].asked /\ calls[c].window # windowId /\ calls[c].targets = <<activeTabId>>

\* The same, as far as the code has it: moves, closings, rebinds and late answers
\* never leave a pointer to a foreign tab, except the answer to a query that was
\* asked before a rebind (the listeners, init and resolveActiveTabId).
PointerCatchesUp == PointerIsOurs \/ FoundBeforeRebind

\* A call acts only on tabs that were, while it was under way, in a window the
\* session had while it was under way, however the tabs move and the session is
\* rebound (the ownership checks of executeContentScriptCommand and
\* assertTabOwnership).  They need not have been there at the same time: a relay
\* compares where the tab was when Chrome looked with the session's window when
\* the answer arrives.
TouchedWasOurs == \A c \in Calls : \A t \in hit[c] : where[c][t] \cap bound[c] # {}

-----------------------------------------------------------------------------
(* The inductive invariant of the proofs in TabTrackerProofs.              *)

\* After message i, Chrome says that tab t is no longer in window w.
Leaves(t, w, i) ==
  \E j \in DOMAIN inbox : j > i /\ inbox[j] \in {Event("removed", t, w), Event("detached", t, w)}

\* A message that names the active tab of a window is true, or a later one takes
\* it back.
NewsIsTrue ==
  \A i \in DOMAIN inbox :
    inbox[i].kind \in {"activated", "complete", "init", "query"} /\ inbox[i].tab # None =>
      \/ windowOf[inbox[i].tab] = inbox[i].window
      \/ Leaves(inbox[i].tab, inbox[i].window, i)

\* So is the pointer, unless it was found by a query asked before a rebind.
PointerIsTrue ==
  activeTabId # None =>
    \/ windowOf[activeTabId] = windowId
    \/ Leaves(activeTabId, windowId, 0)
    \/ FoundBeforeRebind

\* A reply answers what its call waits for, and is the only one for it.
ReplyIsFor(c, m) ==
  /\ m.kind = "query" => /\ calls[c].pc = "queried" /\ calls[c].asked
                         /\ calls[c].window = m.window
  /\ m.kind = "get" => /\ calls[c].pc = "gotten"
                       /\ m.tab = calls[c].targets[calls[c].next]
                       /\ IF m.window = None THEN windowOf[m.tab] = None
                          ELSE m.window \in where[c][m.tab]
RepliesMatch ==
  /\ \A i \in DOMAIN inbox : inbox[i].kind \in {"query", "get"} => ReplyIsFor(inbox[i].call, inbox[i])
  /\ \A i, j \in DOMAIN inbox :
       /\ inbox[i].kind \in {"query", "get"} /\ inbox[j].kind \in {"query", "get"}
       /\ inbox[i].call = inbox[j].call
       => i = j

\* Where a call is: the window it started with is one the session had during it.
InStep(c) ==
  /\ calls[c].pc = "idle" => calls[c] = Idle /\ hit[c] = {}
  /\ calls[c].pc # "idle" => /\ calls[c].kind \in Kinds
                             /\ calls[c].window \in bound[c] /\ windowId \in bound[c]
  /\ calls[c].pc \in {"query", "queried"} => calls[c].asked /\ calls[c].next = 1
CallsInStep == \A c \in Calls : InStep(c)

\* Call c may act on tab t.
MayTouch(c, t) == windowOf[t] = None \/ where[c][t] \cap bound[c] # {}

\* The ownership check has passed target i of call c.
Passed(c, i) ==
  calls[c].pc = "go" \/ (calls[c].pc \in {"get", "gotten"} /\ i < calls[c].next)

\* The targets that passed, and those acted on, were ours.
Checked(c) ==
  calls[c].kind # "goto" =>
    /\ \A i \in DOMAIN calls[c].targets : Passed(c, i) => MayTouch(c, calls[c].targets[i])
    /\ \A t \in hit[c] : where[c][t] \cap bound[c] # {}
ChecksHold == \A c \in Calls : Checked(c)

TrackerInv ==
  TypeOK /\ NewsIsTrue /\ PointerIsTrue /\ RepliesMatch /\ CallsInStep /\ ChecksHold
=============================================================================
