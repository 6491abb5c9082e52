------------------------------ MODULE NetworkLog ------------------------------
(***************************************************************************)
(* The log of the network requests of the tabs (network-log-store.ts):     *)
(* four tables that the webRequest events of Chrome, the commands of the   *)
(* agent and two limits change, and that must tell one story.              *)
(*                                                                         *)
(* A request has one requestId over all its redirects and gets one entry   *)
(* per hop.  Entries are numbered as they come, so an array of entries is  *)
(* the set of their numbers and its first one is the least of them.        *)
(***************************************************************************)
EXTENDS Naturals, FiniteSets, Sequences

CONSTANTS
  Tabs,          \* the tabs of Chrome
  Requests,      \* the requestIds of Chrome
  MAX_PER_TAB,   \* entries kept of one tab
  MAX_GLOBAL,    \* entries kept of all tabs
  MaxEntries     \* bound: entries ever made

ASSUME LogAssumption ==
  /\ MAX_PER_TAB \in Nat \ {0} /\ MAX_GLOBAL \in Nat \ {0}
  /\ MaxEntries \in Nat

VARIABLES
  byTab,         \* the entries of each tab
  byId,          \* the entries that can be looked up
  active,        \* activeByRequest: the latest entry of a request, 0 without one
  globalOrder,   \* all entries, oldest first
  made,          \* the entries ever made; nextId is their number and one
  phase,         \* Chrome: where each request is, and in which tab
  happened       \* Chrome: how the hop of each entry ended

tables == <<byTab, byId, active, globalOrder>>
vars   == <<tables, made, phase, happened>>

MadeIds == DOMAIN made

\* How a hop ends; a redirect starts the next one.
Ends     == {"redirected", "completed", "failed"}
Outcomes == Ends \cup {"open"}
Entries  == [tab : Tabs, request : Requests, outcome : Outcomes]
Phases   == [stage : {"new", "open", "redirected", "over"}, tab : Tabs]

Init ==
  /\ byTab = [t \in Tabs |-> {}] /\ byId = {} /\ globalOrder = {}
  /\ active = [r \in Requests |-> 0]
  /\ made = <<>> /\ happened = <<>>
  /\ phase \in [Requests -> {p \in Phases : p.stage = "new"}]

-----------------------------------------------------------------------------
(* The tables.                                                             *)

\* The oldest of a set of entries, so that max of them remain.
Oldest(entries, max) ==
  {i \in entries : Cardinality({j \in entries : j >= i}) > max}

\* Mutated form of RemoveEntryId: the request is forgotten with any entry of it.
RemoveEntryIdAlways(ids, latest) ==
  [r \in Requests |->
     IF \E i \in ids \cap MadeIds : made[i].request = r THEN 0 ELSE latest[r]]

\* removeEntryId: a request is forgotten only with its latest entry.
RemoveEntryId(ids, latest) ==
  [r \in Requests |-> IF latest[r] \in ids THEN 0 ELSE latest[r]]

\* Mutated form of PushEntry: trimGlobal does not look at byTab.
PushEntryGlobalOnly(r, t, i) ==
  LET latest  == [active EXCEPT ![r] = i]
      mine    == byTab[t] \cup {i}
      trimmed == Oldest(mine, MAX_PER_TAB)
      all     == (globalOrder \cup {i}) \ trimmed
      oldest  == Oldest(all, MAX_GLOBAL)
  IN  /\ byTab' = [byTab EXCEPT ![t] = mine \ trimmed]
      /\ byId' = ((byId \cup {i}) \ trimmed) \ oldest
      /\ globalOrder' = all \ oldest
      /\ active' = RemoveEntryId(trimmed, latest)

\* pushEntry, trimTab and trimGlobal.  trimGlobal leaves activeByRequest alone.
PushEntry(r, t, i) ==
  LET latest  == [active EXCEPT ![r] = i]
      mine    == byTab[t] \cup {i}
      trimmed == Oldest(mine, MAX_PER_TAB)
      all     == (globalOrder \cup {i}) \ trimmed
      oldest  == Oldest(all, MAX_GLOBAL)
  IN  /\ byTab' = [u \in Tabs |-> (IF u = t THEN mine \ trimmed ELSE byTab[u]) \ oldest]
      /\ byId' = ((byId \cup {i}) \ trimmed) \ oldest
      /\ globalOrder' = all \ oldest
      /\ active' = RemoveEntryId(trimmed, latest)

\* findByRequest: the latest entry of a request, if it is still in the log.
FindByRequest(r) == {i \in byId : i = active[r]}

-----------------------------------------------------------------------------
(* The listeners.                                                          *)

\* onBeforeRequest: the first hop of a request, or the next after a redirect.
BeforeRequest(r) ==
  /\ phase[r].stage \in {"new", "redirected"} /\ Len(made) < MaxEntries
  /\ made' = Append(made, [tab |-> phase[r].tab, request |-> r, outcome |-> "open"])
  /\ PushEntry(r, phase[r].tab, Len(made) + 1)
  /\ phase' = [phase EXCEPT ![r].stage = "open"]
  /\ happened' = Append(happened, "open")

\* onBeforeRedirect, onCompleted and onErrorOccurred: finishEntry.
FinishEntry(r, end) ==
  /\ phase[r].stage = "open"
  /\ made' = [i \in MadeIds |->
                IF i \in FindByRequest(r) THEN [made[i] EXCEPT !.outcome = end]
                ELSE made[i]]
  /\ happened' = [i \in MadeIds |->
                    IF made[i].request = r /\ happened[i] = "open" THEN end
                    ELSE happened[i]]
  /\ phase' = [phase EXCEPT ![r].stage =
                 IF end = "redirected" THEN "redirected" ELSE "over"]
  /\ UNCHANGED tables

\* Mutated form of ClearNetworkEntries: globalOrder is left as it is.
ClearTabOnly(t) ==
  /\ byTab' = [byTab EXCEPT ![t] = {}]
  /\ byId' = byId \ byTab[t]
  /\ active' = RemoveEntryId(byTab[t], active)
  /\ UNCHANGED <<globalOrder, made, phase, happened>>

\* Mutated form of ClearNetworkEntries: an entry is numbered from one again.
ClearAndRestart(t) ==
  /\ byTab' = [byTab EXCEPT ![t] = {}]
  /\ byId' = byId \ byTab[t]
  /\ active' = RemoveEntryId(byTab[t], active)
  /\ globalOrder' = globalOrder \ byTab[t]
  /\ made' = <<>> /\ happened' = <<>>
  /\ UNCHANGED phase

\* clearNetworkEntries: the agent clears the log of a tab, or the tab is closed.
ClearNetworkEntries(t) ==
  /\ byTab' = [byTab EXCEPT ![t] = {}]
  /\ byId' = byId \ byTab[t]
  /\ active' = RemoveEntryId(byTab[t], active)
  /\ globalOrder' = globalOrder \ byTab[t]
  /\ UNCHANGED <<made, phase, happened>>

Next ==
  \/ \E r \in Requests : BeforeRequest(r) \/ \E end \in Ends : FinishEntry(r, end)
  \/ \E t \in Tabs : ClearNetworkEntries(t)

Spec == Init /\ [][Next]_vars

-----------------------------------------------------------------------------
(* Properties.                                                             *)

\* Type invariant.
TypeOK ==
  /\ byTab \in [Tabs -> SUBSET MadeIds]
  /\ byId \subseteq MadeIds /\ globalOrder \subseteq MadeIds
  /\ active \in [Requests -> MadeIds \cup {0}]
  /\ made \in Seq(Entries) /\ Len(made) <= MaxEntries
  /\ happened \in [MadeIds -> Outcomes]
  /\ phase \in [Requests -> Phases]

\* The tables hold the same entries, each under its own tab: what network.list
\* shows can be opened with network.get, and what a limit or a clear drops is
\* dropped from all of them.
TablesAgree ==
  /\ globalOrder = byId
  /\ \A t \in Tabs : byTab[t] = {i \in byId : made[i].tab = t}

\* The log stays within its limits.
WithinLimits ==
  /\ Cardinality(globalOrder) <= MAX_GLOBAL
  /\ \A t \in Tabs : Cardinality(byTab[t]) <= MAX_PER_TAB

\* A limit or a clear drops the oldest entries of a tab: after an entry that is
\* listed, no later entry of the tab is missing.
NoGaps ==
  \A i \in byId, j \in MadeIds : i < j /\ made[i].tab = made[j].tab => j \in byId

\* What the limits cost is the oldest, and from all tables, over redirects, clears
\* and new requests.
KeepsTheLatest == TablesAgree /\ WithinLimits /\ NoGaps

\* An entry of the log says of its own hop how it ended, neither less nor more,
\* through redirects under one requestId, evictions of earlier hops and clears.
TellsItsOwnEnd == \A i \in byId : made[i].outcome = happened[i]

-----------------------------------------------------------------------------
(* The inductive invariant of the proofs in NetworkLogProofs.              *)

\* activeByRequest never holds the entry of another request.
ActiveIsItsOwn == \A r \in Requests : active[r] # 0 => made[active[r]].request = r

\* Only a request that is under way has an entry whose hop has not ended.
OpenIsUnderWay ==
  \A i \in MadeIds : happened[i] = "open" => phase[made[i].request].stage = "open"

\* The entry in the log whose hop has not ended is the one finishEntry will find.
OpenIsLatest == \A i \in byId : happened[i] = "open" => active[made[i].request] = i

\* What finishEntry finds has not ended yet.
LatestIsOpen ==
  \A r \in Requests :
    active[r] # 0 /\ phase[r].stage = "open" => happened[active[r]] = "open"

LogInv ==
  /\ TypeOK /\ TablesAgree /\ WithinLimits /\ NoGaps /\ TellsItsOwnEnd
  /\ ActiveIsItsOwn /\ OpenIsUnderWay /\ OpenIsLatest /\ LatestIsOpen
=============================================================================
