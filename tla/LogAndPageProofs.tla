--------------------------- MODULE LogAndPageProofs ---------------------------
(* Proofs about module NetworkLog, for any sets of tabs and requests, any   *)
(* limits and any number of entries, and about module WebPage, for any      *)
(* documents.                                                               *)
EXTENDS NetworkLog, WebPage, SequenceTheorems, FiniteSetTheorems, WellFoundedInduction,
        TLAPS

(***************************************************************************)
(* Numbers.                                                                *)
(***************************************************************************)

\* A set of numbers that is not empty has a least one.
LEMMA LeastNumber ==
  ASSUME NEW S \in SUBSET Nat, S # {}
  PROVE  \E m \in S : \A i \in S : m <= i
<1> DEFINE below == {0..n : n \in S}
<1>1. below \subseteq FiniteSubsetsOf(Nat) /\ below # {}
  <2>1. \A n \in S : 0..n \in SUBSET Nat /\ IsFiniteSet(0..n)
    BY FS_Interval
  <2> QED BY <2>1 DEF FiniteSubsetsOf
<1>2. \E x \in below : \A y \in below : ~ (<<y, x>> \in StrictSubsetOrdering(Nat))
  BY <1>1, FS_StrictSubsetOrderingWellFounded, WFMin
<1>3. PICK m \in S : \A y \in below : ~ (<<y, 0..m>> \in StrictSubsetOrdering(Nat))
  BY <1>2
<1>4. ASSUME NEW n \in S, n < m PROVE FALSE
  <2>1. 0..n \in SUBSET Nat /\ 0..m \in SUBSET Nat /\ 0..n \subseteq 0..m /\ 0..n # 0..m
    <3>1. m \in 0..m /\ m \notin 0..n /\ 0..n \subseteq 0..m
      BY <1>4
    <3> QED BY <3>1
  <2> QED BY <1>3, <2>1 DEF StrictSubsetOrdering
<1> QED BY <1>4


\* Induction, for a set of numbers.
LEMMA SetInduction ==
  ASSUME NEW S \in SUBSET Nat, 0 \in S, \A n \in S : n + 1 \in S
  PROVE  S = Nat
<1> SUFFICES ASSUME Nat \ S # {} PROVE FALSE
  OBVIOUS
<1>1. PICK m \in Nat \ S : \A i \in Nat \ S : m <= i
  BY LeastNumber
<1>2. m # 0 /\ m - 1 \in Nat
  OBVIOUS
<1>3. m - 1 \in S
  BY <1>1, <1>2
<1>4. (m - 1) + 1 \in S
  BY <1>3
<1>5. (m - 1) + 1 = m
  OBVIOUS
<1> QED BY <1>4, <1>5

(***************************************************************************)
(* Oldest: what trimTab and trimGlobal drop.                               *)
(***************************************************************************)

\* Without its oldest entries a set has at most max of them, and with an entry it
\* keeps every later one.
LEMMA OldestProperties ==
  ASSUME NEW S \in SUBSET Nat, IsFiniteSet(S), NEW max \in Nat
  PROVE  /\ Cardinality(S \ Oldest(S, max)) <= max
         /\ \A i \in S \ Oldest(S, max), j \in S : i < j => j \notin Oldest(S, max)
<1> DEFINE from(i) == {j \in S : j >= i}
           kept == S \ Oldest(S, max)
<1>1. \A i \in S : /\ from(i) \in SUBSET S /\ IsFiniteSet(from(i))
                   /\ Cardinality(from(i)) \in Nat
  BY FS_Subset, FS_CardinalityType
<1>2. \A i \in S : i \in kept <=> Cardinality(from(i)) <= max
  BY <1>1 DEF Oldest
<1>3. Cardinality(kept) <= max
  <2>1. CASE kept = {}
    BY <2>1, FS_EmptySet
  <2>2. CASE kept # {}
    <3>1. PICK m \in kept : \A n \in kept : m <= n
      BY <2>2, LeastNumber
    <3>2. kept \subseteq from(m) /\ Cardinality(from(m)) <= max
      BY <1>2, <3>1
    <3>3. IsFiniteSet(from(m)) /\ Cardinality(from(m)) \in Nat
      BY <1>1
    <3>4. Cardinality(kept) \in Nat /\ Cardinality(kept) <= Cardinality(from(m))
      <4> HIDE DEF kept, from
      <4> QED BY <3>2, <3>3, FS_Subset, FS_CardinalityType
    <3> QED BY <3>2, <3>3, <3>4
  <2> QED BY <2>1, <2>2
<1>4. ASSUME NEW i \in kept, NEW j \in S, i < j PROVE j \in kept
  <2>1. from(j) \subseteq from(i)
    <3>1. i \in Nat /\ j \in Nat /\ i < j
      BY <1>4
    <3>2. ASSUME NEW k \in from(j) PROVE k \in S /\ k >= i
      <4>1. k \in Nat /\ k >= j
        OBVIOUS
      <4> QED BY <3>1, <4>1
    <3> QED BY <3>2
  <2>2. Cardinality(from(j)) <= Cardinality(from(i))
    <3>1. IsFiniteSet(from(i)) /\ from(j) \in SUBSET from(i)
      BY <1>1, <2>1
    <3> HIDE DEF from, kept
    <3> QED BY <3>1, FS_Subset
  <2> QED BY <1>1, <1>2, <2>2
<1> QED BY <1>3, <1>4 DEF Oldest

-----------------------------------------------------------------------------
(* Types.                                                                  *)

\* The entries made are numbered from one.
LEMMA EntriesMade ==
  ASSUME TypeOK
  PROVE  /\ MadeIds = 1..Len(made) /\ Len(made) \in Nat
         /\ made \in [MadeIds -> Entries]
         /\ MadeIds \subseteq Nat /\ IsFiniteSet(MadeIds) /\ 0 \notin MadeIds
         /\ Len(made) + 1 \notin MadeIds
<1>1. made \in Seq(Entries)
  BY DEF TypeOK
<1>2. Len(made) \in Nat /\ MadeIds = 1..Len(made) /\ made \in [1..Len(made) -> Entries]
  BY <1>1, LenProperties DEF MadeIds
<1>3. IsFiniteSet(1..Len(made))
  BY <1>2, FS_Interval
<1> QED BY <1>2, <1>3

\* The log is empty at first.
LEMMA LogInvInit == Init => LogInv
<1> SUFFICES ASSUME Init PROVE LogInv
  OBVIOUS
<1> USE LogAssumption DEF Init
<1>1. MadeIds = {} /\ made \in Seq(Entries) /\ Len(made) = 0
  BY EmptySeq DEF MadeIds
<1>2. happened \in [MadeIds -> Outcomes]
  BY <1>1
<1>3. TypeOK
  BY <1>1, <1>2 DEF TypeOK, Phases
<1>4. WithinLimits
  BY FS_EmptySet DEF WithinLimits
<1> QED BY <1>1, <1>3, <1>4
        DEF LogInv, TablesAgree, NoGaps, TellsItsOwnEnd, ActiveIsItsOwn,
            OpenIsUnderWay, OpenIsLatest, LatestIsOpen

-----------------------------------------------------------------------------
(* onBeforeRequest.                                                        *)

\* A new entry is the last one, and no other changes.
LEMMA NewEntry ==
  ASSUME TypeOK, NEW r \in Requests, BeforeRequest(r)
  PROVE  LET n == Len(made) + 1 IN
         /\ MadeIds' = MadeIds \cup {n} /\ n \notin MadeIds /\ n \in Nat \ {0}
         /\ \A i \in MadeIds : i < n
         /\ made'[n] = [tab |-> phase[r].tab, request |-> r, outcome |-> "open"]
         /\ happened'[n] = "open"
         /\ \A i \in MadeIds : made'[i] = made[i] /\ happened'[i] = happened[i]
         /\ made' \in Seq(Entries) /\ Len(made') <= MaxEntries
         /\ happened' \in [MadeIds' -> Outcomes]
         /\ phase[r].tab \in Tabs
<1> DEFINE n == Len(made) + 1
           e == [tab |-> phase[r].tab, request |-> r, outcome |-> "open"]
<1>1. MadeIds = 1..Len(made) /\ Len(made) \in Nat /\ made \in Seq(Entries)
  BY EntriesMade DEF TypeOK
<1>2. phase[r].tab \in Tabs /\ e \in Entries
  BY DEF TypeOK, Phases, Entries, Outcomes
<1>3. made' = Append(made, e) /\ happened' = Append(happened, "open")
      /\ Len(made) < MaxEntries
  BY DEF BeforeRequest
<1>4. /\ made' \in Seq(Entries) /\ Len(made') = Len(made) + 1 /\ made'[n] = e
      /\ \A i \in 1..Len(made) : made'[i] = made[i]
  <2> HIDE DEF e
  <2> QED BY <1>1, <1>2, <1>3, AppendProperties
<1>5. happened \in Seq(Outcomes) /\ Len(happened) = Len(made)
  <2>1. happened \in [1..Len(made) -> Outcomes]
    BY <1>1 DEF TypeOK
  <2> QED BY <1>1, <2>1
<1>6. /\ happened' \in Seq(Outcomes) /\ Len(happened') = Len(made) + 1
      /\ happened'[n] = "open"
      /\ \A i \in 1..Len(made) : happened'[i] = happened[i]
  <2>1. "open" \in Outcomes
    BY DEF Outcomes
  <2> QED BY <1>3, <1>5, <2>1, AppendProperties
<1>7. MadeIds' = 1..(Len(made) + 1)
  BY <1>1, <1>4, LenProperties DEF MadeIds
<1>8. happened' \in [MadeIds' -> Outcomes]
  BY <1>1, <1>6, <1>7, LenProperties
<1>9. Len(made') <= MaxEntries
  BY <1>1, <1>3, <1>4, LogAssumption
<1> QED BY <1>1, <1>2, <1>4, <1>6, <1>7, <1>8, <1>9

\* pushEntry and the two trims leave the tables in agreement and within their limits.
LEMMA PushKeepsTheLatest ==
  ASSUME LogInv, NEW r \in Requests, BeforeRequest(r)
  PROVE  /\ byTab' \in [Tabs -> SUBSET MadeIds'] /\ byId' \subseteq MadeIds'
         /\ TablesAgree' /\ WithinLimits' /\ NoGaps'
<1> DEFINE t == phase[r].tab
           n == Len(made) + 1
           mine == byTab[t] \cup {n}
           trimmed == Oldest(mine, MAX_PER_TAB)
           all == (globalOrder \cup {n}) \ trimmed
           oldest == Oldest(all, MAX_GLOBAL)
<1>1. /\ TypeOK /\ TablesAgree /\ WithinLimits /\ NoGaps
      /\ PushEntry(r, t, n)
  BY DEF LogInv, BeforeRequest
<1>2. /\ MadeIds' = MadeIds \cup {n} /\ n \notin MadeIds /\ n \in Nat \ {0}
      /\ \A i \in MadeIds : i < n
      /\ made'[n].tab = t /\ t \in Tabs
      /\ \A i \in MadeIds : made'[i] = made[i]
  <2> HIDE DEF mine, trimmed, all, oldest
  <2>1. /\ MadeIds' = MadeIds \cup {n} /\ n \notin MadeIds /\ n \in Nat \ {0}
        /\ \A i \in MadeIds : i < n
        /\ made'[n] = [tab |-> t, request |-> r, outcome |-> "open"]
        /\ \A i \in MadeIds : made'[i] = made[i]
        /\ t \in Tabs
    BY <1>1, NewEntry
  <2> QED BY <2>1
<1>3. MadeIds \subseteq Nat /\ IsFiniteSet(MadeIds) /\ IsFiniteSet(MadeIds')
  BY <1>1, <1>2, EntriesMade, FS_AddElement
<1>4. MAX_PER_TAB \in Nat /\ MAX_GLOBAL \in Nat
  BY LogAssumption
<1>5. /\ mine \subseteq MadeIds' /\ mine \in SUBSET Nat /\ IsFiniteSet(mine)
  <2>1. mine \subseteq MadeIds'
    BY <1>1, <1>2 DEF TypeOK
  <2>2. MadeIds' \subseteq Nat
    BY <1>2, <1>3
  <2> HIDE DEF mine
  <2> QED BY <2>1, <2>2, <1>3, FS_Subset
<1>6. /\ all \subseteq MadeIds' /\ all \in SUBSET Nat /\ IsFiniteSet(all)
  <2>1. all \subseteq MadeIds'
    BY <1>1, <1>2 DEF TypeOK
  <2>2. MadeIds' \subseteq Nat
    BY <1>2, <1>3
  <2> HIDE DEF all
  <2> QED BY <2>1, <2>2, <1>3, FS_Subset
<1>7. /\ trimmed \subseteq mine /\ oldest \subseteq all
      /\ Cardinality(mine \ trimmed) <= MAX_PER_TAB
      /\ Cardinality(all \ oldest) <= MAX_GLOBAL
      /\ \A i \in mine \ trimmed, j \in mine : i < j => j \notin trimmed
      /\ \A i \in all \ oldest, j \in all : i < j => j \notin oldest
  <2>1. trimmed \subseteq mine /\ oldest \subseteq all
    BY DEF Oldest
  <2> HIDE DEF mine, all
  <2> QED BY <1>4, <1>5, <1>6, <2>1, OldestProperties
<1>8. /\ byTab' = [u \in Tabs |-> (IF u = t THEN mine \ trimmed ELSE byTab[u]) \ oldest]
      /\ byId' = ((byId \cup {n}) \ trimmed) \ oldest
      /\ globalOrder' = all \ oldest
  BY <1>1 DEF PushEntry
<1> HIDE DEF trimmed, oldest
<1>9. /\ byId' \subseteq MadeIds' /\ globalOrder' = byId'
      /\ byTab' \in [Tabs -> SUBSET MadeIds']
  BY <1>1, <1>2, <1>5, <1>8 DEF TypeOK, TablesAgree
<1>10. ASSUME NEW u \in Tabs PROVE byTab'[u] = {i \in byId' : made'[i].tab = u}
  <2>1. byTab[u] = {i \in byId : made[i].tab = u} /\ byTab[t] = {i \in byId : made[i].tab = t}
        /\ byId \subseteq MadeIds
    BY <1>1, <1>2 DEF TablesAgree, TypeOK
  <2>2. byTab[u] = {i \in byId : made'[i].tab = u} /\ byTab[t] = {i \in byId : made'[i].tab = t}
    BY <1>2, <2>1
  <2>3. CASE u = t
    BY <1>2, <1>8, <2>2, <2>3
  <2>4. CASE u # t
    <3>1. \A i \in trimmed : made'[i].tab = t
      BY <1>2, <1>7, <2>2
    <3> QED BY <1>2, <1>8, <2>2, <2>4, <3>1
  <2> QED BY <2>3, <2>4
<1>11. TablesAgree'
  BY <1>9, <1>10 DEF TablesAgree
<1>12. WithinLimits'
  <2>1. ASSUME NEW u \in Tabs PROVE Cardinality(byTab'[u]) <= MAX_PER_TAB
    <3> DEFINE most == IF u = t THEN mine \ trimmed ELSE byTab[u]
    <3>1. byTab'[u] \subseteq most
      BY <1>8
    <3>2. IsFiniteSet(most) /\ Cardinality(most) <= MAX_PER_TAB
      <4>1. CASE u = t
        BY <1>5, <1>7, <4>1, FS_Difference
      <4>2. CASE u # t
        <5>1. byTab[u] \subseteq MadeIds /\ Cardinality(byTab[u]) <= MAX_PER_TAB
          BY <1>1 DEF TypeOK, WithinLimits
        <5> QED BY <1>3, <4>2, <5>1, FS_Subset
      <4> QED BY <4>1, <4>2
    <3> HIDE DEF most
    <3>3. Cardinality(byTab'[u]) \in Nat /\ Cardinality(byTab'[u]) <= Cardinality(most)
          /\ Cardinality(most) \in Nat
      BY <3>1, <3>2, FS_Subset, FS_CardinalityType
    <3> QED BY <1>4, <3>2, <3>3
  <2> QED BY <1>7, <1>8, <2>1 DEF WithinLimits
<1>13. ASSUME NEW i \in byId', NEW j \in MadeIds', i < j, made'[i].tab = made'[j].tab
       PROVE  j \in byId'
  <2>1. i \in MadeIds /\ i \in byId
    <3>1. i # n
      <4>1. \A k \in MadeIds : k \in Nat
        BY <1>3
      <4>2. i \in MadeIds \cup {n} /\ j \in MadeIds \cup {n}
        BY <1>2, <1>9
      <4> HIDE DEF n
      <4> QED BY <1>2, <1>13, <4>1, <4>2
    <3> QED BY <1>2, <1>8, <1>9, <1>13, <3>1
  <2>2. j \in byId \cup {n}
    BY <1>1, <1>2, <1>13, <2>1 DEF NoGaps
  <2>3. j \notin trimmed
    <3>1. CASE made'[j].tab = t
      <4>1. i \in mine /\ j \in mine
        BY <1>1, <1>2, <1>13, <2>1, <2>2, <3>1 DEF TablesAgree, TypeOK
      <4> HIDE DEF mine
      <4> QED BY <1>7, <1>8, <1>13, <4>1
    <3>2. CASE made'[j].tab # t
      <4>1. j \notin mine
        BY <1>1, <1>2, <3>2 DEF TablesAgree, TypeOK
      <4> QED BY <1>7, <4>1
    <3> QED BY <3>1, <3>2
  <2>4. i \in all \ oldest /\ j \in all
    BY <1>1, <1>8, <2>1, <2>2, <2>3 DEF TablesAgree
  <2>5. j \notin oldest
    <3> HIDE DEF all
    <3> QED BY <1>7, <1>13, <2>4
  <2> QED BY <1>8, <2>2, <2>3, <2>5
<1>14. NoGaps'
  BY <1>13 DEF NoGaps
<1> QED BY <1>9, <1>11, <1>12, <1>14

\* A new hop is listed under its request, and the hops before it have ended.
LEMMA BeforeRequestStep ==
  ASSUME LogInv, NEW r \in Requests, BeforeRequest(r)
  PROVE  LogInv'
<1> DEFINE t == phase[r].tab
           n == Len(made) + 1
           trimmed == Oldest(byTab[t] \cup {n}, MAX_PER_TAB)
           oldest == Oldest((globalOrder \cup {n}) \ trimmed, MAX_GLOBAL)
           latest == [active EXCEPT ![r] = n]
<1>1. /\ TypeOK /\ TablesAgree /\ TellsItsOwnEnd /\ ActiveIsItsOwn /\ OpenIsUnderWay
      /\ OpenIsLatest /\ LatestIsOpen
  BY DEF LogInv
<1>2. /\ MadeIds' = MadeIds \cup {n} /\ n \notin MadeIds /\ n \in Nat \ {0}
      /\ made'[n] = [tab |-> t, request |-> r, outcome |-> "open"]
      /\ happened'[n] = "open"
      /\ \A i \in MadeIds : made'[i] = made[i] /\ happened'[i] = happened[i]
      /\ made' \in Seq(Entries) /\ Len(made') <= MaxEntries
      /\ happened' \in [MadeIds' -> Outcomes]
      /\ t \in Tabs
  <2> HIDE DEF trimmed, oldest, latest
  <2> QED BY <1>1, NewEntry
<1>3. /\ byId' = ((byId \cup {n}) \ trimmed) \ oldest
      /\ active' = [q \in Requests |-> IF latest[q] \in trimmed THEN 0 ELSE latest[q]]
      /\ phase' = [phase EXCEPT ![r].stage = "open"]
      /\ phase[r].stage \in {"new", "redirected"}
  BY DEF BeforeRequest, PushEntry, RemoveEntryId
<1> HIDE DEF trimmed, oldest
<1>4. \A q \in Requests : /\ active'[q] = IF latest[q] \in trimmed THEN 0 ELSE latest[q]
                          /\ latest[q] = IF q = r THEN n ELSE active[q]
  BY <1>1, <1>3 DEF TypeOK
<1> HIDE DEF latest
<1>5. /\ phase' \in [Requests -> Phases]
      /\ phase'[r].stage = "open" /\ \A q \in Requests \ {r} : phase'[q] = phase[q]
  BY <1>1, <1>3 DEF TypeOK, Phases
<1>6. active' \in [Requests -> MadeIds' \cup {0}]
  BY <1>1, <1>2, <1>3, <1>4 DEF TypeOK
<1>7. \A i \in MadeIds : made[i].request \in Requests /\ made[i] \in Entries
  BY <1>1, EntriesMade DEF Entries
<1>8. TypeOK'
  <2>1. globalOrder' = byId'
    BY PushKeepsTheLatest DEF TablesAgree
  <2> QED BY <1>2, <1>5, <1>6, <2>1, PushKeepsTheLatest DEF TypeOK
<1>9. TellsItsOwnEnd'
  BY <1>1, <1>2, <1>3 DEF TellsItsOwnEnd, TypeOK
<1>10. ActiveIsItsOwn'
  <2>1. ASSUME NEW q \in Requests, active'[q] # 0 PROVE made'[active'[q]].request = q
    <3>1. active'[q] = latest[q]
      BY <1>4, <2>1
    <3>2. CASE q = r
      BY <1>2, <1>4, <3>1, <3>2
    <3>3. CASE q # r
      <4>1. active'[q] = active[q] /\ active[q] \in MadeIds
        BY <1>1, <1>4, <2>1, <3>1, <3>3 DEF TypeOK
      <4> QED BY <1>1, <1>2, <2>1, <4>1 DEF ActiveIsItsOwn
    <3> QED BY <3>2, <3>3
  <2> QED BY <2>1 DEF ActiveIsItsOwn
<1>11. \A i \in MadeIds : happened[i] = "open" => made[i].request # r
  BY <1>1, <1>3 DEF OpenIsUnderWay
<1>12. OpenIsUnderWay'
  <2>1. ASSUME NEW i \in MadeIds', happened'[i] = "open"
        PROVE  phase'[made'[i].request].stage = "open"
    <3>1. CASE i = n
      BY <1>2, <1>5, <3>1
    <3>2. CASE i \in MadeIds
      <4>1. made[i].request # r /\ phase[made[i].request].stage = "open"
        BY <1>1, <1>2, <1>11, <2>1, <3>2 DEF OpenIsUnderWay
      <4> QED BY <1>2, <1>5, <1>7, <3>2, <4>1
    <3> QED BY <1>2, <3>1, <3>2
  <2> QED BY <2>1 DEF OpenIsUnderWay
<1>13. OpenIsLatest'
  <2>1. ASSUME NEW i \in byId', happened'[i] = "open"
        PROVE  active'[made'[i].request] = i
    <3>1. CASE i = n
      BY <1>2, <1>3, <1>4, <3>1
    <3>2. CASE i # n
      <4>1. i \in byId /\ i \in MadeIds /\ i \notin trimmed
        BY <1>1, <1>3, <3>2 DEF TypeOK
      <4>2. made[i].request # r /\ active[made[i].request] = i
        BY <1>1, <1>2, <1>11, <2>1, <4>1 DEF OpenIsLatest
      <4> QED BY <1>2, <1>4, <1>7, <4>1, <4>2
    <3> QED BY <3>1, <3>2
  <2> QED BY <2>1 DEF OpenIsLatest
<1>14. LatestIsOpen'
  <2>1. ASSUME NEW q \in Requests, active'[q] # 0, phase'[q].stage = "open"
        PROVE  happened'[active'[q]] = "open"
    <3>1. active'[q] = latest[q]
      BY <1>4, <2>1
    <3>2. CASE q = r
      BY <1>2, <1>4, <3>1, <3>2
    <3>3. CASE q # r
      <4>1. active'[q] = active[q] /\ active[q] \in MadeIds /\ phase[q].stage = "open"
        BY <1>1, <1>4, <1>5, <2>1, <3>1, <3>3 DEF TypeOK
      <4> QED BY <1>1, <1>2, <2>1, <4>1 DEF LatestIsOpen
    <3> QED BY <3>2, <3>3
  <2> QED BY <2>1 DEF LatestIsOpen
<1> QED BY <1>8, <1>9, <1>10, <1>12, <1>13, <1>14, PushKeepsTheLatest DEF LogInv

-----------------------------------------------------------------------------
(* The other steps.                                                        *)

\* The end of a hop is written on the one entry of the request that has not ended.
LEMMA FinishEntryStep ==
  ASSUME LogInv, NEW r \in Requests, NEW end \in Ends, FinishEntry(r, end)
  PROVE  LogInv'
<1>1. /\ TypeOK /\ TablesAgree /\ WithinLimits /\ NoGaps /\ TellsItsOwnEnd
      /\ ActiveIsItsOwn /\ OpenIsUnderWay /\ OpenIsLatest /\ LatestIsOpen
  BY DEF LogInv
<1>2. /\ MadeIds = 1..Len(made) /\ Len(made) \in Nat /\ 0 \notin MadeIds
      /\ made \in [MadeIds -> Entries]
  BY <1>1, EntriesMade
<1>3. /\ phase[r].stage = "open"
      /\ made' = [i \in MadeIds |->
                    IF i \in FindByRequest(r) THEN [made[i] EXCEPT !.outcome = end]
                    ELSE made[i]]
      /\ happened' = [i \in MadeIds |->
                        IF made[i].request = r /\ happened[i] = "open" THEN end
                        ELSE happened[i]]
      /\ UNCHANGED tables
  BY DEF FinishEntry
<1>4. phase' \in [Requests -> Phases] /\ phase'[r].stage # "open"
      /\ \A q \in Requests \ {r} : phase'[q] = phase[q]
  BY <1>1 DEF FinishEntry, TypeOK, Phases
<1>5. MadeIds' = MadeIds
  BY <1>3 DEF MadeIds
<1>6. made' \in [MadeIds -> Entries]
      /\ \A i \in MadeIds : made'[i].tab = made[i].tab /\ made'[i].request = made[i].request
  <2>1. end \in Outcomes
    BY DEF Ends, Outcomes
  <2> QED BY <1>2, <1>3, <2>1 DEF Entries
<1>7. made' \in Seq(Entries) /\ Len(made') = Len(made)
  BY <1>2, <1>6
<1>8. TypeOK'
  BY <1>1, <1>3, <1>4, <1>5, <1>7 DEF TypeOK, tables, Ends, Outcomes
<1>9. TablesAgree' /\ WithinLimits' /\ NoGaps'
  BY <1>1, <1>3, <1>5, <1>6 DEF TablesAgree, WithinLimits, NoGaps, tables, TypeOK
<1>10. TellsItsOwnEnd'
  <2>1. ASSUME NEW i \in byId PROVE made'[i].outcome = happened'[i]
    <3>1. i \in MadeIds /\ made[i].outcome = happened[i]
      BY <1>1, <2>1 DEF TypeOK, TellsItsOwnEnd
    <3>2. CASE i = active[r]
      <4>1. made[i].request = r /\ happened[i] = "open"
        BY <1>1, <1>2, <1>3, <3>1, <3>2 DEF ActiveIsItsOwn, LatestIsOpen
      <4> QED BY <1>2, <1>3, <2>1, <3>1, <3>2, <4>1 DEF FindByRequest, Entries
    <3>3. CASE i # active[r]
      <4>1. ~ (made[i].request = r /\ happened[i] = "open")
        BY <1>1, <2>1, <3>3 DEF OpenIsLatest
      <4> QED BY <1>3, <3>1, <3>3, <4>1 DEF FindByRequest
    <3> QED BY <3>2, <3>3
  <2> QED BY <1>3, <2>1 DEF TellsItsOwnEnd, tables
<1>11. \A i \in MadeIds : happened'[i] = "open" =>
                            happened[i] = "open" /\ made[i].request # r
  BY <1>3 DEF Ends
<1>12. ActiveIsItsOwn'
  BY <1>1, <1>3, <1>6 DEF ActiveIsItsOwn, TypeOK, tables
<1>13. OpenIsUnderWay'
  BY <1>1, <1>2, <1>4, <1>5, <1>6, <1>11 DEF OpenIsUnderWay, Entries
<1>14. OpenIsLatest'
  BY <1>1, <1>3, <1>6, <1>11 DEF OpenIsLatest, TypeOK, tables
<1>15. LatestIsOpen'
  <2>1. ASSUME NEW q \in Requests, active'[q] # 0, phase'[q].stage = "open"
        PROVE  happened'[active'[q]] = "open"
    <3>1. q # r /\ active'[q] = active[q] /\ active[q] \in MadeIds /\ phase[q].stage = "open"
      BY <1>1, <1>3, <1>4, <2>1 DEF TypeOK, tables
    <3>2. happened[active[q]] = "open" /\ made[active[q]].request = q
      BY <1>1, <2>1, <3>1 DEF LatestIsOpen, ActiveIsItsOwn
    <3> QED BY <1>3, <3>1, <3>2
  <2> QED BY <2>1 DEF LatestIsOpen
<1> QED BY <1>8, <1>9, <1>10, <1>12, <1>13, <1>14, <1>15 DEF LogInv

\* A clear takes the entries of one tab out of all tables.
LEMMA ClearStep ==
  ASSUME LogInv, NEW t \in Tabs, ClearNetworkEntries(t)
  PROVE  LogInv'
<1>1. /\ TypeOK /\ TablesAgree /\ WithinLimits /\ NoGaps /\ TellsItsOwnEnd
      /\ ActiveIsItsOwn /\ OpenIsUnderWay /\ OpenIsLatest /\ LatestIsOpen
  BY DEF LogInv
<1>2. /\ byTab' = [byTab EXCEPT ![t] = {}]
      /\ byId' = byId \ byTab[t]
      /\ globalOrder' = globalOrder \ byTab[t]
      /\ UNCHANGED <<made, phase, happened>>
      /\ \A q \in Requests : active'[q] = active[q] \/ active'[q] = 0
      /\ \A q \in Requests : active[q] \notin byTab[t] => active'[q] = active[q]
      /\ active' \in [Requests -> MadeIds \cup {0}]
  BY <1>1 DEF ClearNetworkEntries, RemoveEntryId, TypeOK
<1>3. MadeIds' = MadeIds
  BY <1>2 DEF MadeIds
<1>4. IsFiniteSet(MadeIds) /\ made \in [MadeIds -> Entries]
  BY <1>1, EntriesMade
<1>5. TypeOK'
  BY <1>1, <1>2, <1>3 DEF TypeOK
<1>6. TablesAgree'
  BY <1>1, <1>2 DEF TablesAgree, TypeOK
<1>7. WithinLimits'
  <2>1. globalOrder' \subseteq globalOrder /\ globalOrder \subseteq MadeIds
        /\ \A u \in Tabs : byTab'[u] \subseteq byTab[u] /\ byTab[u] \subseteq MadeIds
    BY <1>1, <1>2 DEF TypeOK
  <2>2. ASSUME NEW S \in SUBSET MadeIds, NEW T \in SUBSET S, NEW max \in Nat,
               Cardinality(S) <= max
        PROVE  Cardinality(T) <= max
    <3>1. IsFiniteSet(S)
      BY <1>4, FS_Subset
    <3>2. IsFiniteSet(T) /\ Cardinality(T) <= Cardinality(S)
      BY <3>1, FS_Subset
    <3> QED BY <2>2, <3>1, <3>2, FS_CardinalityType
  <2>3. MAX_PER_TAB \in Nat /\ MAX_GLOBAL \in Nat
    BY LogAssumption
  <2> QED BY <1>1, <2>1, <2>2, <2>3 DEF WithinLimits
<1>8. NoGaps'
  BY <1>1, <1>2, <1>3 DEF NoGaps, TablesAgree, TypeOK
<1>9. TellsItsOwnEnd' /\ ActiveIsItsOwn' /\ OpenIsUnderWay' /\ LatestIsOpen'
  BY <1>1, <1>2, <1>3 DEF TellsItsOwnEnd, ActiveIsItsOwn, OpenIsUnderWay, LatestIsOpen
<1>10. OpenIsLatest'
  <2>1. ASSUME NEW i \in byId', happened'[i] = "open"
        PROVE  active'[made'[i].request] = i
    <3>1. i \in byId /\ i \notin byTab[t] /\ i \in MadeIds /\ made'[i] = made[i]
          /\ made[i].request \in Requests
      BY <1>1, <1>2, <1>4 DEF TypeOK, Entries
    <3>2. active[made[i].request] = i
      BY <1>1, <1>2, <2>1, <3>1 DEF OpenIsLatest
    <3> QED BY <1>2, <3>1, <3>2
  <2> QED BY <2>1 DEF OpenIsLatest
<1> QED BY <1>5, <1>6, <1>7, <1>8, <1>9, <1>10 DEF LogInv

-----------------------------------------------------------------------------
(* The theorems.                                                           *)

\* The invariant is kept by every step.
LEMMA LogInvStep == LogInv /\ [Next]_vars => LogInv'
<1> SUFFICES ASSUME LogInv, [Next]_vars PROVE LogInv'
  OBVIOUS
<1>1. ASSUME NEW r \in Requests, BeforeRequest(r) PROVE LogInv'
  BY <1>1, BeforeRequestStep
<1>2. ASSUME NEW r \in Requests, NEW end \in Ends, FinishEntry(r, end) PROVE LogInv'
  BY <1>2, FinishEntryStep
<1>3. ASSUME NEW t \in Tabs, ClearNetworkEntries(t) PROVE LogInv'
  BY <1>3, ClearStep
<1>4. CASE UNCHANGED vars
  BY <1>4 DEF vars, tables, LogInv, TypeOK, TablesAgree, WithinLimits, NoGaps,
              TellsItsOwnEnd, ActiveIsItsOwn, OpenIsUnderWay, OpenIsLatest,
              LatestIsOpen, MadeIds
<1> QED BY <1>1, <1>2, <1>3, <1>4 DEF Next

\* The inductive invariant of the log: activeByRequest names the one entry of a
\* request that finishEntry may change.
THEOREM LogInvariant == Spec => []LogInv
BY LogInvInit, LogInvStep, PTL DEF Spec

\* Every table keeps its type (TypeOK).
THEOREM LogTypes == Spec => []TypeOK
<1>1. LogInv => TypeOK
  BY DEF LogInv
<1> QED BY <1>1, LogInvariant, PTL

\* pushEntry, the trims, removeEntryId and clearNetworkEntries keep the four tables
\* in agreement, within MAX_PER_TAB and MAX_GLOBAL, and lose only the oldest entries.
THEOREM LogKeepsTheLatest == Spec => []KeepsTheLatest
<1>1. LogInv => KeepsTheLatest
  BY DEF LogInv, KeepsTheLatest
<1> QED BY <1>1, LogInvariant, PTL

\* An entry in the log tells how its own hop ended, whatever redirects, evictions
\* and clears came between.
THEOREM LogTellsItsOwnEnd == Spec => []TellsItsOwnEnd
<1>1. LogInv => TellsItsOwnEnd
  BY DEF LogInv
<1> QED BY <1>1, LogInvariant, PTL

(***************************************************************************)
(* Elements.                                                               *)
(***************************************************************************)

\* First is the least element of a set.
LEMMA FirstIsLeast ==
  ASSUME NEW S \in SUBSET Nat, S # {}
  PROVE  First(S) \in S /\ \A x \in S : First(S) <= x
BY LeastNumber DEF First

\* The numbers of the elements.
LEMMA Numbers ==
  /\ Len(Parent) \in Nat /\ Nodes = 1..Len(Parent)
  /\ \A e \in Nodes : /\ e \in Nat /\ Parent[e] \in Nat /\ Parent[e] < e
                      /\ Parent[e] # 0 => Parent[e] \in Nodes
                      /\ e # 1 => Parent[e] # 0
<1>1. Len(Parent) \in Nat /\ \A e \in 1..Len(Parent) : Parent[e] \in Nat
  BY TreeAssumption
<1>2. ASSUME NEW e \in Nodes
      PROVE  /\ e \in Nat /\ Parent[e] \in Nat /\ Parent[e] < e
             /\ Parent[e] # 0 => Parent[e] \in Nodes
             /\ e # 1 => Parent[e] # 0
  <2>1. e \in 1..Len(Parent)
    BY DEF Nodes
  <2>2. CASE e = 1
    BY <2>1, <2>2, TreeAssumption
  <2>3. CASE e # 1
    <3>1. e \in 2..Len(Parent)
      BY <2>1, <2>3, <1>1
    <3>2. Parent[e] \in 1..e - 1
      BY <3>1, TreeAssumption
    <3> QED BY <3>1, <3>2, <1>1 DEF Nodes
  <2> QED BY <2>2, <2>3
<1> QED BY <1>1, <1>2 DEF Nodes

\* Ancestors is what its recursive function says.
LEMMA AncestorsAre ==
  /\ Ancestors = [e \in Nodes |-> Ancestors[e]]
  /\ \A e \in Nodes :
       Ancestors[e] = IF Parent[e] = 0 THEN {} ELSE {Parent[e]} \cup Ancestors[Parent[e]]
<1> DEFINE n == Len(Parent)
           Of(g, e) == IF Parent[e] = 0 THEN {} ELSE {Parent[e]} \cup g[Parent[e]]
           Is(g, m) == g = [e \in 1..m |-> Of(g, e)]
           Good == {m \in Nat : m > n \/ \E g : Is(g, m)}
<1>1. Good = Nat
  <2>1. 0 \in Good
    <3>1. 1..0 = {}
      OBVIOUS
    <3>2. Is([e \in 1..0 |-> {}], 0)
      BY <3>1
    <3> QED BY <3>2
  <2>2. ASSUME NEW m \in Good PROVE m + 1 \in Good
    <3>1. m \in Nat /\ n \in Nat
      BY Numbers
    <3>2. CASE m + 1 > n
      <4> HIDE DEF Is
      <4> QED BY <3>1, <3>2
    <3>3. CASE m + 1 <= n
      <4>1. PICK g : Is(g, m)
        <5> HIDE DEF Is
        <5> QED BY <3>1, <3>3
      <4> DEFINE h == [e \in 1..(m + 1) |-> Of(g, e)]
      <4>2. \A e \in 1..m : g[e] = Of(g, e)
        <5> TAKE e \in 1..m
        <5> QED BY <4>1
      <4>3. \A e \in 1..m : h[e] = g[e]
        <5> TAKE e \in 1..m
        <5>1. e \in 1..(m + 1)
          BY <3>1
        <5> HIDE DEF Of
        <5>2. h[e] = Of(g, e)
          BY <5>1
        <5> QED BY <5>2, <4>2
      <4>4. \A e \in 1..(m + 1) : Parent[e] # 0 => Parent[e] \in 1..m
        <5> TAKE e \in 1..(m + 1)
        <5>1. e \in Nodes
          BY <3>1, <3>3, Numbers
        <5> QED BY <5>1, <3>1, Numbers
      <4>5. \A e \in 1..(m + 1) : Of(h, e) = Of(g, e)
        BY <4>3, <4>4
      <4>6. Is(h, m + 1)
        BY <4>5
      <4>7. \E g2 : Is(g2, m + 1)
        <5> HIDE DEF h, Is
        <5> QED BY <4>6
      <4> HIDE DEF Is
      <4> QED BY <3>1, <4>7
    <3> HIDE DEF Is
    <3> QED BY <3>1, <3>2, <3>3
  <2> HIDE DEF Good
  <2>3. Good \in SUBSET Nat
    BY DEF Good
  <2> QED BY <2>1, <2>2, <2>3, SetInduction
<1>2. n \in Nat /\ Nodes = 1..n
  BY Numbers
<1>3. \E g : Is(g, n)
  <2>1. n \in Good
    BY <1>1, <1>2
  <2> HIDE DEF Is
  <2> QED BY <2>1, <1>2
<1>4. Is(Ancestors, n)
  <2>1. Ancestors = CHOOSE g : g = [e \in Nodes |-> Of(g, e)]
    BY DEF Ancestors
  <2>2. Ancestors = CHOOSE g : Is(g, n)
    BY <2>1, <1>2
  <2> HIDE DEF Is
  <2> QED BY <2>2, <1>3
<1>5. ASSUME NEW e \in Nodes
      PROVE  Ancestors[e] = Of(Ancestors, e)
  BY <1>4, <1>2
<1>6. Ancestors = [e \in Nodes |-> Ancestors[e]]
  BY <1>4, <1>2
<1> QED BY <1>5, <1>6

(***************************************************************************)
(* Trees.                                                                  *)
(***************************************************************************)

\* Ancestors come before an element, and theirs are its own.
LEMMA AncestorsBefore ==
  \A e \in Nodes : \A a \in Ancestors[e] :
    a \in Nodes /\ a < e /\ Ancestors[a] \subseteq Ancestors[e]
<1> DEFINE Fine(e) == \A a \in Ancestors[e] :
                        a \in Nodes /\ a < e /\ Ancestors[a] \subseteq Ancestors[e]
           Good == {m \in Nat : \A e \in Nodes : e <= m => Fine(e)}
<1>1. 0 \in Good
  BY Numbers
<1>2. ASSUME NEW m \in Good PROVE m + 1 \in Good
  <2>1. m \in Nat /\ \A e \in Nodes : e <= m => Fine(e)
    OBVIOUS
  <2>2. ASSUME NEW e \in Nodes, e = m + 1, NEW a \in Ancestors[e]
        PROVE  a \in Nodes /\ a < e /\ Ancestors[a] \subseteq Ancestors[e]
    <3>1. Parent[e] # 0 /\ Ancestors[e] = {Parent[e]} \cup Ancestors[Parent[e]]
      BY AncestorsAre
    <3>2. Parent[e] \in Nodes /\ Parent[e] < e /\ Parent[e] <= m
      BY <3>1, <2>1, <2>2, Numbers
    <3>3. \A b \in Ancestors[Parent[e]] :
            b \in Nodes /\ b < Parent[e] /\ Ancestors[b] \subseteq Ancestors[Parent[e]]
      BY <2>1, <3>2
    <3>4. CASE a = Parent[e]
      BY <3>1, <3>2, <3>4
    <3>5. CASE a \in Ancestors[Parent[e]]
      <4>1. a \in Nodes /\ a < Parent[e] /\ Ancestors[a] \subseteq Ancestors[Parent[e]]
        BY <3>3, <3>5
      <4>2. a < e
        BY <4>1, <3>2, Numbers
      <4> QED BY <4>1, <4>2, <3>1
    <3> QED BY <3>1, <3>4, <3>5
  <2>3. \A e \in Nodes : e <= m + 1 => e <= m \/ e = m + 1
    BY <2>1, Numbers
  <2>4. \A e \in Nodes : e <= m + 1 => Fine(e)
    BY <2>1, <2>2, <2>3
  <2> HIDE DEF Fine
  <2> QED BY <2>1, <2>4
<1>3. Good = Nat
  <2>1. Good \in SUBSET Nat
    OBVIOUS
  <2> HIDE DEF Good
  <2> QED BY <2>1, <1>1, <1>2, SetInduction
<1>4. ASSUME NEW e \in Nodes PROVE Fine(e)
  <2>1. e \in Nat
    BY Numbers
  <2>2. e \in Good
    BY <2>1, <1>3
  <2> HIDE DEF Fine
  <2> QED BY <2>1, <2>2
<1> QED BY <1>4

\* What comes between an element and something in it is in it.
LEMMA InsideIsTogether ==
  ASSUME NEW x \in Nodes, NEW e \in Ancestors[x], NEW y \in Nodes, e < y, y < x
  PROVE  e \in Ancestors[y]
<1> DEFINE Good == {k \in Nat : \A z \in Nodes : z = y + k /\ e \in Ancestors[z] => e \in Ancestors[y]}
<1>1. x \in Nat /\ y \in Nat /\ e \in Nodes /\ e \in Nat
  BY Numbers, AncestorsBefore
<1>2. 0 \in Good
  BY <1>1
<1>3. ASSUME NEW k \in Good PROVE k + 1 \in Good
  <2>1. k \in Nat
    OBVIOUS
  <2>2. ASSUME NEW z \in Nodes, z = y + (k + 1), e \in Ancestors[z]
        PROVE  e \in Ancestors[y]
    <3>1. z - 1 = y + k /\ z - 1 \in Nodes /\ z \in 2..Len(Parent) /\ z - 1 # e
      BY <1>1, <2>1, <2>2, Numbers
    <3>2. Parent[z] \in Ancestors[z - 1] \cup {z - 1} /\ Parent[z] # 0
      BY <3>1, TreeAssumption, Numbers
    <3>3. e = Parent[z] \/ e \in Ancestors[Parent[z]]
      BY <2>2, <3>2, AncestorsAre
    <3>4. e \in Ancestors[z - 1]
      BY <3>1, <3>2, <3>3, AncestorsBefore
    <3> QED BY <3>1, <3>4
  <2> QED BY <2>1, <2>2
<1>4. x - y \in Good
  <2>1. Good \in SUBSET Nat /\ x - y \in Nat
    BY <1>1
  <2> HIDE DEF Good
  <2> QED BY <2>1, <1>2, <1>3, SetInduction
<1>5. x = y + (x - y)
  BY <1>1
<1> QED BY <1>4, <1>5

\* Everything is in the body.
LEMMA BodyHolds ==
  ASSUME NEW x \in Nodes, x # 1
  PROVE  1 \in Nodes /\ 1 \in Ancestors[x]
<1> DEFINE Good == {m \in Nat : \A e \in Nodes : e <= m /\ e # 1 => 1 \in Ancestors[e]}
<1>1. 0 \in Good
  BY Numbers
<1>2. ASSUME NEW m \in Good PROVE m + 1 \in Good
  <2>1. m \in Nat
    OBVIOUS
  <2>2. ASSUME NEW e \in Nodes, e <= m + 1, e # 1 PROVE 1 \in Ancestors[e]
    <3>1. /\ Parent[e] # 0 /\ Parent[e] \in Nodes /\ Parent[e] <= m
          /\ Ancestors[e] = {Parent[e]} \cup Ancestors[Parent[e]]
      BY <2>1, <2>2, Numbers, AncestorsAre
    <3> QED BY <3>1
  <2> QED BY <2>1, <2>2
<1>3. x \in Good
  <2>1. Good \in SUBSET Nat /\ x \in Nat
    BY Numbers
  <2> HIDE DEF Good
  <2> QED BY <2>1, <1>1, <1>2, SetInduction
<1> QED BY <1>3, Numbers

\* What is in an element is in one of its children, or is one.
LEMMA ChildHolds ==
  ASSUME NEW x \in Nodes, NEW e \in Ancestors[x]
  PROVE  \E y \in Ancestors[x] \cup {x} : Parent[y] = e
<1> DEFINE Good == {m \in Nat : \A z \in Nodes : z <= m /\ e \in Ancestors[z] =>
                                  \E y \in Ancestors[z] \cup {z} : Parent[y] = e}
<1>1. 0 \in Good
  BY Numbers
<1>2. ASSUME NEW m \in Good PROVE m + 1 \in Good
  <2>1. m \in Nat
    OBVIOUS
  <2>2. ASSUME NEW z \in Nodes, z <= m + 1, e \in Ancestors[z]
        PROVE  \E y \in Ancestors[z] \cup {z} : Parent[y] = e
    <3>1. /\ Parent[z] # 0 /\ Parent[z] \in Nodes /\ Parent[z] <= m
          /\ Ancestors[z] = {Parent[z]} \cup Ancestors[Parent[z]]
      BY <2>1, <2>2, Numbers, AncestorsAre
    <3>2. CASE e \in Ancestors[Parent[z]]
      BY <3>1, <3>2
    <3> QED BY <2>2, <3>1, <3>2
  <2> QED BY <2>1, <2>2
<1>3. x \in Good
  <2>1. Good \in SUBSET Nat /\ x \in Nat
    BY Numbers
  <2> HIDE DEF Good
  <2> QED BY <2>1, <1>1, <1>2, SetInduction
<1> QED BY <1>3, Numbers

\* A document: a set of elements with their ancestors.
IsTree(d) ==
  DOMAIN d \subseteq Nodes /\ \A e \in DOMAIN d : Ancestors[e] \subseteq DOMAIN d

\* The elements in e, and those from e on in the parent of e.
Inside(d, e) == {x \in DOMAIN d : e \in Ancestors[x]}

Rest(d, e) ==
  {x \in DOMAIN d : e # 0 /\ x >= e /\ (Parent[e] = 0 \/ Parent[e] \in Ancestors[x])}

FirstIn(d, e) == First(Children(d, e))
NextOf(d, e)  == First({c \in Children(d, Parent[e]) : c > e})

\* What is in an element is what there is from its first child on.
LEMMA InsideIs ==
  ASSUME NEW d, IsTree(d), NEW e \in DOMAIN d
  PROVE  /\ FirstIn(d, e) # 0 =>
              FirstIn(d, e) \in DOMAIN d /\ e < FirstIn(d, e) /\ Parent[FirstIn(d, e)] = e
         /\ FirstIn(d, e) = 0 <=> Children(d, e) = {}
         /\ Inside(d, e) = Rest(d, FirstIn(d, e))
<1> DEFINE f == FirstIn(d, e)
<1>1. e \in Nodes /\ DOMAIN d \subseteq Nodes /\ \A x \in Nodes : x \in Nat /\ x # 0
  <2>1. \A x \in Nodes : x \in Nat /\ x # 0
    BY Numbers
  <2> QED BY <2>1 DEF IsTree
<1>2. Children(d, e) \in SUBSET Nat
  BY <1>1 DEF Children
<1>3. Children(d, e) = {} => f = 0
  BY DEF FirstIn, First
<1>4. Children(d, e) # {} => f \in Children(d, e) /\ \A x \in Children(d, e) : f <= x
  BY <1>2, FirstIsLeast DEF FirstIn
<1> HIDE DEF f
<1>5. f # 0 => f \in DOMAIN d /\ Parent[f] = e /\ e < f
  <2>1. f # 0 => f \in DOMAIN d /\ Parent[f] = e
    BY <1>3, <1>4 DEF Children
  <2> QED BY <2>1, <1>1, Numbers
<1>6. f = 0 <=> Children(d, e) = {}
  BY <1>1, <1>3, <1>4, <1>5 DEF Children
<1>7. ASSUME NEW x \in Inside(d, e) PROVE x \in Rest(d, f)
  <2>1. x \in DOMAIN d /\ e \in Ancestors[x] /\ x \in Nodes
    BY <1>1 DEF Inside
  <2>2. PICK y \in Ancestors[x] \cup {x} : Parent[y] = e
    BY <2>1, ChildHolds
  <2>3. y \in Children(d, e) /\ y <= x /\ y \in Nat /\ x \in Nat
    BY <2>1, <2>2, <1>1, AncestorsBefore DEF Children, IsTree
  <2>4. f <= y /\ f # 0 /\ f \in Nat
    BY <2>3, <1>4, <1>5, <1>6, <1>1
  <2>5. x >= f
    BY <2>3, <2>4
  <2> QED BY <2>1, <2>4, <2>5, <1>5 DEF Rest
<1>8. ASSUME NEW x \in Rest(d, f) PROVE x \in Inside(d, e)
  <2>1. x \in DOMAIN d /\ f # 0 /\ (Parent[f] = 0 \/ Parent[f] \in Ancestors[x])
    BY DEF Rest
  <2> QED BY <2>1, <1>1, <1>5 DEF Inside
<1> QED BY <1>5, <1>6, <1>7, <1>8 DEF f

\* What there is from an element on is the element, what is in it, and what there
\* is from its next sibling on, in this order.
LEMMA RestIs ==
  ASSUME NEW d, IsTree(d), NEW e \in DOMAIN d
  PROVE  /\ NextOf(d, e) # 0 =>
              /\ NextOf(d, e) \in DOMAIN d /\ e < NextOf(d, e)
              /\ Parent[NextOf(d, e)] = Parent[e]
         /\ Rest(d, e) = {e} \cup Inside(d, e) \cup Rest(d, NextOf(d, e))
         /\ \A x \in Inside(d, e) : e < x
         /\ \A x \in Inside(d, e) \cup {e}, y \in Rest(d, NextOf(d, e)) : x < y
<1> DEFINE n == NextOf(d, e)
           p == Parent[e]
           later == {c \in Children(d, p) : c > e}
<1>1. /\ e \in Nodes /\ DOMAIN d \subseteq Nodes /\ \A x \in Nodes : x \in Nat /\ x # 0
      /\ p \in Nat /\ p < e /\ e \in Nat
  <2>1. \A x \in Nodes : x \in Nat /\ x # 0
    BY Numbers
  <2> QED BY <2>1, Numbers DEF IsTree
<1>2. later \in SUBSET Nat
  BY <1>1 DEF Children
<1>3. later = {} => n = 0
  BY DEF NextOf, First
<1>4. later # {} => n \in later /\ \A x \in later : n <= x
  BY <1>2, FirstIsLeast DEF NextOf
<1> HIDE DEF n
<1>5. n # 0 => n \in DOMAIN d /\ Parent[n] = p /\ e < n /\ n \in Nodes
  BY <1>1, <1>3, <1>4 DEF Children
<1>6. \A x \in Inside(d, e) : e < x /\ x \in Nodes /\ x \in DOMAIN d /\ e \in Ancestors[x]
  BY <1>1, AncestorsBefore DEF Inside
<1>7. ASSUME NEW x \in Inside(d, e), n # 0 PROVE x < n
  <2>1. x \in Nodes /\ e \in Ancestors[x] /\ x \in Nat /\ n \in Nat
    BY <1>1, <1>5, <1>6, <1>7
  <2>2. e \notin Ancestors[n]
    <3>1. e \in Ancestors[n] => e = p \/ (e \in Ancestors[p] /\ p \in Nodes)
      BY <1>5, <1>7, AncestorsAre, Numbers
    <3>2. e # p
      BY <1>1
    <3>3. p \in Nodes => e \notin Ancestors[p]
      BY <1>1, AncestorsBefore
    <3> QED BY <3>1, <3>2, <3>3
  <2>3. x # n
    BY <2>1, <2>2
  <2>4. ~ n < x
    BY <2>1, <2>2, <1>5, <1>7, InsideIsTogether
  <2> QED BY <2>1, <2>3, <2>4
<1>8. ASSUME NEW y \in Rest(d, n), NEW x \in Inside(d, e) \cup {e} PROVE x < y
  <2>1. n # 0 /\ y >= n /\ y \in DOMAIN d
    BY DEF Rest
  <2>2. x < n
    BY <2>1, <1>5, <1>7
  <2>3. x \in Nat /\ y \in Nat /\ n \in Nat
    BY <1>1, <1>5, <1>6, <2>1
  <2> QED BY <2>1, <2>2, <2>3
<1>9. ASSUME NEW x \in Rest(d, e) PROVE x \in {e} \cup Inside(d, e) \cup Rest(d, n)
  <2>1. x \in DOMAIN d /\ x >= e /\ (p = 0 \/ p \in Ancestors[x]) /\ x \in Nodes /\ x \in Nat
    BY <1>1 DEF Rest
  <2> SUFFICES ASSUME x # e, e \notin Ancestors[x] PROVE x \in Rest(d, n)
    BY <2>1 DEF Inside
  <2>2. e < x
    BY <1>1, <2>1
  <2>3. CASE p = 0
    <3>1. e = 1
      BY <1>1, <2>3, Numbers
    <3> QED BY <3>1, <2>1, <2>2, BodyHolds
  <2>4. CASE p # 0
    <3>1. PICK y \in Ancestors[x] \cup {x} : Parent[y] = p
      BY <2>1, <2>4, ChildHolds
    <3>2. y \in Nodes /\ y <= x /\ y \in DOMAIN d /\ y \in Nat
      BY <2>1, <3>1, <1>1, AncestorsBefore DEF IsTree
    <3>3. y # e
      BY <3>1, <2>2
    <3>4. ~ y < e
      <4> SUFFICES ASSUME y < e PROVE FALSE
        OBVIOUS
      <4>1. y \in Ancestors[x]
        <5>1. y \in Nat /\ x \in Nat /\ e \in Nat
          BY <3>2, <2>1, <1>1
        <5>2. y # x
          BY <5>1, <2>2
        <5> QED BY <5>2, <3>1
      <4>2. y \in Ancestors[e]
        BY <4>1, <2>1, <2>2, <1>1, InsideIsTogether
      <4>3. y = p \/ y \in Ancestors[p]
        BY <4>2, <2>4, <1>1, AncestorsAre
      <4>4. p \in Nodes /\ p < y
        BY <3>1, <3>2, <2>4, Numbers
      <4> QED BY <4>3, <4>4, <3>2, <1>1, AncestorsBefore
    <3>5. e < y
      BY <3>2, <3>3, <3>4, <1>1
    <3>6. y \in later
      BY <3>1, <3>2, <3>5 DEF Children
    <3>7. n <= y /\ n # 0 /\ n \in Nat
      BY <3>6, <1>4, <1>1 DEF Children
    <3>8. x >= n
      BY <3>2, <3>7, <2>1
    <3> QED BY <3>7, <3>8, <2>1, <2>4, <1>5 DEF Rest
  <2> QED BY <2>3, <2>4
<1>10. ASSUME NEW x \in {e} \cup Inside(d, e) \cup Rest(d, n) PROVE x \in Rest(d, e)
  <2>1. p # 0 => p \in Ancestors[e] /\ Ancestors[e] \subseteq {p} \cup Ancestors[p]
    BY <1>1, AncestorsAre
  <2>2. CASE x = e
    BY <2>1, <2>2, <1>1 DEF Rest
  <2>3. CASE x \in Inside(d, e)
    <3>1. x \in DOMAIN d /\ x \in Nodes /\ e < x /\ e \in Ancestors[x] /\ x \in Nat
      BY <2>3, <1>1, <1>6
    <3>2. p # 0 => p \in Ancestors[x]
      BY <2>1, <3>1, AncestorsBefore
    <3>3. x >= e /\ e # 0
      BY <3>1, <1>1
    <3> QED BY <3>1, <3>2, <3>3 DEF Rest
  <2>4. CASE x \in Rest(d, n)
    <3>1. n # 0 /\ x \in DOMAIN d /\ x >= n /\ (Parent[n] = 0 \/ Parent[n] \in Ancestors[x])
      BY <2>4 DEF Rest
    <3>2. x >= e /\ e # 0
      BY <3>1, <1>1, <1>5
    <3> QED BY <3>1, <3>2, <1>5 DEF Rest
  <2> QED BY <2>2, <2>3, <2>4
<1> QED BY <1>5, <1>6, <1>8, <1>9, <1>10 DEF n

(***************************************************************************)
(* Elements in document order.                                             *)
(***************************************************************************)

\* InOrder is what its recursive function says.
LEMMA InOrderIs ==
  ASSUME NEW S
  PROVE  \E f : /\ InOrder(S) = f[Len(Parent)] /\ f[0] = <<>>
                /\ \A e \in 1..Len(Parent) :
                     f[e] = IF e \in S THEN Append(f[e - 1], e) ELSE f[e - 1]
<1> DEFINE Of(g, e) == IF e = 0 THEN <<>>
                       ELSE IF e \in S THEN Append(g[e - 1], e) ELSE g[e - 1]
           Is(g, m) == g = [e \in 0..m |-> Of(g, e)]
           Good == {m \in Nat : \E g : Is(g, m)}
<1>1. 0 \in Good
  <2> DEFINE g == [e \in 0..0 |-> <<>>]
  <2>1. \A e \in 0..0 : Of(g, e) = <<>>
    OBVIOUS
  <2>2. Is(g, 0)
    BY <2>1
  <2> HIDE DEF g, Is
  <2> QED BY <2>2
<1>2. ASSUME NEW m \in Good PROVE m + 1 \in Good
  <2>1. m \in Nat
    OBVIOUS
  <2>2. PICK g : Is(g, m)
    OBVIOUS
  <2> DEFINE h == [e \in 0..(m + 1) |-> Of(g, e)]
  <2>3. \A e \in 0..m : g[e] = Of(g, e)
    <3> TAKE e \in 0..m
    <3> QED BY <2>2
  <2>4. \A e \in 0..m : h[e] = g[e]
    <3> TAKE e \in 0..m
    <3>1. e \in 0..(m + 1)
      BY <2>1
    <3> HIDE DEF Of
    <3>2. h[e] = Of(g, e)
      BY <3>1
    <3> QED BY <3>2, <2>3
  <2>5. \A e \in 0..(m + 1) : Of(h, e) = Of(g, e)
    <3> TAKE e \in 0..(m + 1)
    <3>1. e # 0 => e - 1 \in 0..m
      BY <2>1
    <3>2. e # 0 => h[e - 1] = g[e - 1]
      BY <3>1, <2>4
    <3> HIDE DEF h
    <3> QED BY <3>2
  <2>6. Is(h, m + 1)
    BY <2>5
  <2> HIDE DEF h, Is
  <2> QED BY <2>1, <2>6
<1>3. Len(Parent) \in Good
  <2>1. Good \in SUBSET Nat /\ Len(Parent) \in Nat
    BY Numbers
  <2> HIDE DEF Good
  <2> QED BY <2>1, <1>1, <1>2, SetInduction
<1> DEFINE f == CHOOSE g : Is(g, Len(Parent))
<1>4. Is(f, Len(Parent))
  <2>1. \E g : Is(g, Len(Parent))
    <3> HIDE DEF Is
    <3> QED BY <1>3
  <2> HIDE DEF Is
  <2> QED BY <2>1
<1>5. InOrder(S) = f[Len(Parent)]
  BY DEF InOrder
<1> HIDE DEF f
<1>6. \A e \in 0..Len(Parent) : f[e] = Of(f, e)
  <2> TAKE e \in 0..Len(Parent)
  <2> QED BY <1>4
<1>7. f[0] = <<>> /\ \A e \in 1..Len(Parent) : f[e] = IF e \in S THEN Append(f[e - 1], e) ELSE f[e - 1]
  <2>1. 0 \in 0..Len(Parent) /\ \A e \in 1..Len(Parent) : e \in 0..Len(Parent) /\ e # 0
    BY Numbers
  <2> QED BY <2>1, <1>6
<1> QED BY <1>5, <1>7

\* InOrder lists the elements of a set, each once and in document order.
LEMMA InOrderLists ==
  ASSUME NEW S \in SUBSET Nodes
  PROVE  /\ InOrder(S) \in Seq(S) /\ Len(InOrder(S)) <= Len(Parent)
         /\ \A e \in S : \E i \in 1..Len(InOrder(S)) : InOrder(S)[i] = e
         /\ \A i, j \in 1..Len(InOrder(S)) : i < j => InOrder(S)[i] < InOrder(S)[j]
<1>1. PICK f : /\ InOrder(S) = f[Len(Parent)] /\ f[0] = <<>>
               /\ \A e \in 1..Len(Parent) :
                    f[e] = IF e \in S THEN Append(f[e - 1], e) ELSE f[e - 1]
  BY InOrderIs
<1> DEFINE n == Len(Parent)
           Lists(s, k) == /\ s \in Seq(S) /\ Len(s) <= k
                          /\ \A i \in 1..Len(s) : s[i] <= k
                          /\ \A e \in S : e <= k => \E i \in 1..Len(s) : s[i] = e
                          /\ \A i, j \in 1..Len(s) : i < j => s[i] < s[j]
           Good == {k \in Nat : k <= n => Lists(f[k], k)}
<1>2. n \in Nat /\ Nodes = 1..n
  BY Numbers
<1>3. 0 \in Good
  <2>1. f[0] \in Seq(S) /\ Len(f[0]) = 0
    BY <1>1
  <2>2. \A e \in S : ~ e <= 0
    BY <1>2
  <2> QED BY <2>1, <2>2
<1>4. ASSUME NEW k \in Good PROVE k + 1 \in Good
  <2> SUFFICES ASSUME k + 1 <= n PROVE Lists(f[k + 1], k + 1)
    OBVIOUS
  <2> DEFINE s == f[k]
             t == f[k + 1]
  <2>1. k \in Nat /\ k <= n /\ (k + 1) - 1 = k /\ k + 1 \in 1..n
    BY <1>2
  <2>2. Lists(s, k)
    BY <2>1
  <2>3. t = IF k + 1 \in S THEN Append(s, k + 1) ELSE s
    BY <1>1, <2>1
  <2> HIDE DEF s, t
  <2>4. \A e \in S : e \in Nat
    BY <1>2
  <2>5. Len(s) \in Nat /\ \A i \in 1..Len(s) : s[i] \in S /\ s[i] \in Nat
    BY <2>2, <2>4
  <2>6. CASE k + 1 \notin S
    <3>1. \A e \in S : e <= k + 1 => e <= k
      BY <2>1, <2>4, <2>6
    <3>2. \A i \in 1..Len(s) : s[i] <= k + 1
      BY <2>1, <2>2, <2>5
    <3>3. Len(s) <= k + 1
      BY <2>1, <2>2, <2>5
    <3> QED BY <2>2, <2>3, <2>6, <3>1, <3>2, <3>3 DEF t
  <2>7. CASE k + 1 \in S
    <3>1. /\ t \in Seq(S) /\ Len(t) = Len(s) + 1 /\ t[Len(s) + 1] = k + 1
          /\ \A i \in 1..Len(s) : t[i] = s[i]
      BY <2>2, <2>3, <2>7, AppendProperties
    <3>2. Len(t) <= k + 1
      BY <2>1, <2>2, <2>5, <3>1
    <3>3. \A i \in 1..Len(t) : i \in 1..Len(s) \/ i = Len(s) + 1
      BY <2>5, <3>1
    <3>4. \A i \in 1..Len(t) : t[i] <= k + 1
      BY <2>1, <2>2, <2>5, <3>1, <3>3
    <3>5. ASSUME NEW e \in S, e <= k + 1 PROVE \E i \in 1..Len(t) : t[i] = e
      <4>1. e <= k \/ e = k + 1
        BY <2>1, <2>4, <3>5
      <4>2. CASE e <= k
        <5>1. PICK i \in 1..Len(s) : s[i] = e
          BY <2>2, <4>2
        <5> QED BY <5>1, <3>1, <2>5
      <4>3. CASE e = k + 1
        <5>1. Len(s) + 1 \in 1..Len(t)
          BY <2>5, <3>1
        <5> QED BY <5>1, <4>3, <3>1
      <4> QED BY <4>1, <4>2, <4>3
    <3>6. ASSUME NEW i \in 1..Len(t), NEW j \in 1..Len(t), i < j PROVE t[i] < t[j]
      <4>1. i \in 1..Len(s) /\ t[i] = s[i]
        BY <2>5, <3>1, <3>6
      <4>2. CASE j \in 1..Len(s)
        BY <2>2, <3>1, <3>6, <4>1, <4>2
      <4>3. CASE j = Len(s) + 1
        BY <2>1, <2>2, <2>5, <3>1, <4>1, <4>3
      <4> QED BY <3>3, <4>2, <4>3
    <3> QED BY <3>1, <3>2, <3>4, <3>5, <3>6 DEF t
  <2> QED BY <2>6, <2>7 DEF t
<1>5. n \in Good
  <2>1. Good \in SUBSET Nat
    OBVIOUS
  <2> HIDE DEF Good
  <2> QED BY <2>1, <1>2, <1>3, <1>4, SetInduction
<1>6. Lists(InOrder(S), n)
  <2>1. n <= n => Lists(f[n], n)
    BY <1>5
  <2> HIDE DEF Lists
  <2> QED BY <2>1, <1>1, <1>2
<1>7. \A e \in S : e <= n
  BY <1>2
<1> QED BY <1>6, <1>7

\* Two sets, one before the other, are listed one after the other.
LEMMA InOrderJoins ==
  ASSUME NEW A \in SUBSET Nodes, NEW B \in SUBSET Nodes,
         \A a \in A, b \in B : a < b
  PROVE  InOrder(A \cup B) = InOrder(A) \o InOrder(B)
<1>1. PICK f : /\ InOrder(A) = f[Len(Parent)] /\ f[0] = <<>>
               /\ \A e \in 1..Len(Parent) :
                    f[e] = IF e \in A THEN Append(f[e - 1], e) ELSE f[e - 1]
  BY InOrderIs
<1>2. PICK g : /\ InOrder(B) = g[Len(Parent)] /\ g[0] = <<>>
               /\ \A e \in 1..Len(Parent) :
                    g[e] = IF e \in B THEN Append(g[e - 1], e) ELSE g[e - 1]
  BY InOrderIs
<1>3. PICK h : /\ InOrder(A \cup B) = h[Len(Parent)] /\ h[0] = <<>>
               /\ \A e \in 1..Len(Parent) :
                    h[e] = IF e \in A \cup B THEN Append(h[e - 1], e) ELSE h[e - 1]
  BY InOrderIs
<1> DEFINE n == Len(Parent)
           Joined(k) == /\ f[k] \in Seq(Nodes) /\ g[k] \in Seq(Nodes)
                        /\ h[k] = f[k] \o g[k]
                        /\ (\A b \in B : k < b) => g[k] = <<>>
           Good == {k \in Nat : k <= n => Joined(k)}
<1>4. n \in Nat /\ Nodes = 1..n /\ \A b \in B : b \in Nat
  BY Numbers
<1>5. 0 \in Good
  <2>1. <<>> \in Seq(Nodes) /\ <<>> \o <<>> = <<>>
    OBVIOUS
  <2> QED BY <2>1, <1>1, <1>2, <1>3
<1>6. ASSUME NEW k \in Good PROVE k + 1 \in Good
  <2> SUFFICES ASSUME k + 1 <= n PROVE Joined(k + 1)
    <3> HIDE DEF Joined
    <3> QED OBVIOUS
  <2>1. k \in Nat /\ k <= n /\ (k + 1) - 1 = k /\ k + 1 \in 1..n /\ k + 1 \in Nodes
    BY <1>4
  <2> DEFINE e == k + 1  u == f[k]  v == g[k]  w == h[k]
  <2>2. /\ u \in Seq(Nodes) /\ v \in Seq(Nodes) /\ w = u \o v
        /\ (\A b \in B : k < b) => v = <<>>
    BY <2>1
  <2>3. /\ f[e] = IF e \in A THEN Append(u, e) ELSE u
        /\ g[e] = IF e \in B THEN Append(v, e) ELSE v
        /\ h[e] = IF e \in A \cup B THEN Append(w, e) ELSE w
    BY <1>1, <1>2, <1>3, <2>1
  <2>4. e \in Nodes /\ e = k + 1
    BY <2>1
  <2>5. \A b \in B : e < b => k < b
    BY <2>1, <1>4
  <2> HIDE DEF e, u, v, w
  <2>6. CASE e \in A
    <3>1. \A b \in B : e < b
      BY <2>6
    <3>2. e \notin B
      BY <3>1, <1>4, <2>4
    <3>3. v = <<>>
      BY <2>2, <2>5, <3>1
    <3>4. f[e] \in Seq(Nodes) /\ g[e] = <<>> /\ h[e] = Append(u \o <<>>, e) /\ f[e] = Append(u, e)
      BY <2>2, <2>3, <2>4, <2>6, <3>2, <3>3, AppendProperties
    <3>5. u \o <<>> = u /\ f[e] \o <<>> = f[e]
      BY <2>2, <3>4
    <3> QED BY <2>4, <3>4, <3>5
  <2>7. CASE e \in B /\ e \notin A
    <3>1. f[e] = u /\ g[e] = Append(v, e) /\ h[e] = Append(u \o v, e)
      BY <2>2, <2>3, <2>7
    <3>2. Append(u \o v, e) = u \o Append(v, e) /\ Append(v, e) \in Seq(Nodes)
      <4>1. Append(u \o v, e) = (u \o v) \o <<e>> /\ Append(v, e) = v \o <<e>>
        <5>1. u \o v \in Seq(Nodes)
          BY <2>2, ConcatProperties
        <5>2. Append(u \o v, e) = (u \o v) \o <<e>>
          BY <5>1, <2>4, AppendIsConcat
        <5>3. Append(v, e) = v \o <<e>>
          BY <2>2, <2>4, AppendIsConcat
        <5> QED BY <5>2, <5>3
      <4>2. (u \o v) \o <<e>> = u \o (v \o <<e>>)
        BY <2>2, <2>4, ConcatAssociative
      <4>3. Append(v, e) \in Seq(Nodes)
        BY <2>2, <2>4, AppendProperties
      <4> QED BY <4>1, <4>2, <4>3, Zenon
    <3>3. ~ \A b \in B : e < b
      BY <2>7, <1>4, <2>4
    <3> QED BY <2>2, <2>4, <3>1, <3>2, <3>3
  <2>8. CASE e \notin A \cup B
    BY <2>2, <2>3, <2>4, <2>5, <2>8
  <2> QED BY <2>6, <2>7, <2>8
<1>7. n \in Good
  <2>1. Good \in SUBSET Nat
    OBVIOUS
  <2> HIDE DEF Good
  <2> QED BY <2>1, <1>4, <1>5, <1>6, SetInduction
<1>8. Joined(n)
  <2>1. n <= n => Joined(n)
    BY <1>7
  <2> HIDE DEF Joined
  <2> QED BY <2>1, <1>4
<1> QED BY <1>1, <1>2, <1>3, <1>8

\* A set of one element, and the empty one.
LEMMA InOrderSmall ==
  /\ InOrder({}) = <<>>
  /\ \A e \in Nodes : InOrder({e}) = <<e>>
<1>1. InOrder({}) = <<>>
  <2>1. InOrder({}) \in Seq({})
    BY InOrderLists
  <2>2. Len(InOrder({})) \in Nat /\ \A i \in 1..Len(InOrder({})) : InOrder({})[i] \in {}
    BY <2>1
  <2>3. Len(InOrder({})) = 0
    BY <2>2
  <2> QED BY <2>1, <2>3
<1>2. ASSUME NEW e \in Nodes PROVE InOrder({e}) = <<e>>
  <2> DEFINE s == InOrder({e})
  <2>1. /\ s \in Seq({e})
        /\ \E i \in 1..Len(s) : s[i] = e
        /\ \A i, j \in 1..Len(s) : i < j => s[i] < s[j]
    BY InOrderLists
  <2> HIDE DEF s
  <2>2. Len(s) \in Nat /\ \A i \in 1..Len(s) : s[i] = e
    BY <2>1
  <2>3. e \in Nat
    BY Numbers
  <2>4. ~ 1 < Len(s)
    BY <2>1, <2>2, <2>3
  <2>5. Len(s) = 1 /\ s[1] = e
    <3>1. Len(s) # 0
      BY <2>1
    <3>2. Len(s) \in Nat
      BY <2>2
    <3>3. \A n \in Nat : n # 0 /\ ~ 1 < n => n = 1
      OBVIOUS
    <3>4. Len(s) = 1
      BY <2>4, <3>1, <3>2, <3>3
    <3> QED BY <2>2, <3>4
  <2>6. s = <<e>>
    BY <2>1, <2>5
  <2> QED BY <2>6 DEF s
<1> QED BY <1>1, <1>2

\* The first k of a sequence.
Upto(s, k) == SubSeq(s, 1, IF Len(s) < k THEN Len(s) ELSE k)

\* They are what they are in the sequence.
LEMMA UptoIs ==
  ASSUME NEW T, NEW s \in Seq(T), NEW k \in Nat
  PROVE  /\ Upto(s, k) \in Seq(T) /\ Len(Upto(s, k)) = IF Len(s) < k THEN Len(s) ELSE k
         /\ \A i \in 1..Len(Upto(s, k)) : Upto(s, k)[i] = s[i]
         /\ Len(s) <= k => Upto(s, k) = s
<1> DEFINE n == IF Len(s) < k THEN Len(s) ELSE k
           u == SubSeq(s, 1, n)
<1>1. Len(s) \in Nat /\ n \in 0..Len(s) /\ \A i \in 1..n : i \in 1..Len(s) /\ s[i] \in T
  <2>1. Len(s) \in Nat /\ \A i \in 1..Len(s) : s[i] \in T
    OBVIOUS
  <2>2. n \in 0..Len(s)
    BY <2>1
  <2> HIDE DEF n
  <2> QED BY <2>1, <2>2
<1> HIDE DEF n
<1>2. u \in Seq(T) /\ Len(u) = n /\ \A i \in 1..n : u[i] = s[i]
  <2>1. u = [i \in 1..n |-> s[i]]
    BY <1>1
  <2> QED BY <1>1, <2>1
<1>3. Len(s) <= k => n = Len(s)
  BY <1>1 DEF n
<1>4. n = Len(s) => u = s
  BY <1>1, <1>2, SeqEqual
<1>5. Upto(s, k) = u
  BY DEF Upto, n
<1> QED BY <1>2, <1>3, <1>4, <1>5 DEF n

\* Cutting off in between, or at once, makes no difference.
LEMMA UptoJoins ==
  ASSUME NEW T, NEW s \in Seq(T), NEW t \in Seq(T), NEW k \in Nat
  PROVE  /\ Upto(Upto(s, k) \o t, k) = Upto(s \o t, k)
         /\ Len(s) = k => Upto(s \o t, k) = s
<1> DEFINE u == Upto(s, k)
           v == u \o t
           w == s \o t
<1>1. /\ u \in Seq(T) /\ Len(u) = (IF Len(s) < k THEN Len(s) ELSE k)
      /\ \A i \in 1..Len(u) : u[i] = s[i]
      /\ Len(s) <= k => u = s
  BY UptoIs
<1>2. Len(s) \in Nat /\ Len(t) \in Nat
  OBVIOUS
<1> HIDE DEF u
<1>3. /\ v \in Seq(T) /\ Len(v) = Len(u) + Len(t)
      /\ \A i \in 1..Len(v) : i <= Len(u) => v[i] = u[i]
  BY <1>1, ConcatProperties
<1>4. /\ w \in Seq(T) /\ Len(w) = Len(s) + Len(t)
      /\ \A i \in 1..Len(w) : i <= Len(s) => w[i] = s[i]
  BY ConcatProperties
<1>5. CASE Len(s) <= k
  <2>1. u = s
    BY <1>1, <1>5
  <2>2. ASSUME Len(s) = k PROVE Upto(w, k) = s
    <3>1. /\ Upto(w, k) \in Seq(T) /\ Len(Upto(w, k)) = IF Len(w) < k THEN Len(w) ELSE k
          /\ \A i \in 1..Len(Upto(w, k)) : Upto(w, k)[i] = w[i]
      BY <1>4, UptoIs
    <3>2. Len(Upto(w, k)) = Len(s)
      BY <3>1, <1>2, <1>4, <2>2
    <3>3. \A i \in 1..Len(s) : Upto(w, k)[i] = s[i]
      BY <3>1, <3>2, <1>2, <1>4
    <3> QED BY <3>1, <3>2, <3>3, SeqEqual
  <2> QED BY <2>1, <2>2 DEF u
<1>6. CASE ~ Len(s) <= k
  <2>1. Len(u) = k /\ k < Len(s)
    BY <1>1, <1>2, <1>6
  <2>2. /\ Upto(v, k) \in Seq(T) /\ Len(Upto(v, k)) = IF Len(v) < k THEN Len(v) ELSE k
        /\ \A i \in 1..Len(Upto(v, k)) : Upto(v, k)[i] = v[i]
    BY <1>3, UptoIs
  <2>3. /\ Upto(w, k) \in Seq(T) /\ Len(Upto(w, k)) = IF Len(w) < k THEN Len(w) ELSE k
        /\ \A i \in 1..Len(Upto(w, k)) : Upto(w, k)[i] = w[i]
    BY <1>4, UptoIs
  <2>4. Len(Upto(v, k)) = k /\ Len(Upto(w, k)) = k
    BY <2>1, <2>2, <2>3, <1>2, <1>3, <1>4
  <2>5. \A i \in 1..k : Upto(v, k)[i] = Upto(w, k)[i]
    <3> TAKE i \in 1..k
    <3>1. Upto(v, k)[i] = v[i] /\ Upto(w, k)[i] = w[i]
      BY <2>2, <2>3, <2>4
    <3>2. v[i] = u[i]
      BY <1>2, <1>3, <2>1
    <3>3. w[i] = s[i]
      BY <1>2, <1>4, <2>1
    <3>4. u[i] = s[i]
      BY <1>1, <2>1
    <3> QED BY <3>1, <3>2, <3>3, <3>4
  <2>6. Upto(v, k) = Upto(w, k)
    BY <2>2, <2>3, <2>4, <2>5, SeqEqual
  <2> QED BY <2>1, <2>6, <1>2, <1>6 DEF u
<1> QED BY <1>5, <1>6

(***************************************************************************)
(* The walk.                                                               *)
(***************************************************************************)

\* What a step makes of the nodes, with what the walk below makes of them.
After(d, opts, e, nodes, below) ==
  CASE Len(nodes) >= opts.maxNodes \/ Closed(d, e, opts) -> nodes
    [] OTHER -> CASE PassedOver(d[e], opts) -> below[nodes]
                  [] ~PassedOver(d[e], opts) /\ EmptyGeneric(d, e) -> nodes
                  [] OTHER -> IF LeafSvg(d[e]) THEN Append(nodes, e)
                              ELSE below[Append(nodes, e)]

\* The first child and the next sibling of an element come after it.
LEMMA LaterElements ==
  ASSUME NEW d, DOMAIN d \subseteq Nodes, NEW e \in Nodes
  PROVE  /\ FirstIn(d, e) # 0 => FirstIn(d, e) \in Nodes /\ FirstIn(d, e) > e
         /\ NextOf(d, e) # 0 => NextOf(d, e) \in Nodes /\ NextOf(d, e) > e
<1> DEFINE all == Children(d, e)
           later == {c \in Children(d, Parent[e]) : c > e}
<1>1. \A x \in Nodes : x \in Nat /\ Parent[x] < x
  BY Numbers
<1>2. all \in SUBSET Nat /\ \A c \in all : c \in Nodes /\ c > e
  BY <1>1 DEF Children
<1>3. later \in SUBSET Nat /\ \A c \in later : c \in Nodes /\ c > e
  BY <1>1 DEF Children
<1>4. all = {} => FirstIn(d, e) = 0
  BY DEF FirstIn, First
<1>5. all # {} => FirstIn(d, e) \in all
  BY <1>2, FirstIsLeast DEF FirstIn
<1>6. later = {} => NextOf(d, e) = 0
  BY DEF NextOf, First
<1>7. later # {} => NextOf(d, e) \in later
  BY <1>3, FirstIsLeast DEF NextOf
<1> HIDE DEF all, later
<1> QED BY <1>2, <1>3, <1>4, <1>5, <1>6, <1>7

\* A walk in steps: what it makes of the nodes from e on.
Steps(d, opts, f) ==
  \A e \in Nodes : \A nodes \in Seq(Nodes) :
    f[e][nodes] = f[NextOf(d, e)][After(d, opts, e, nodes, f[FirstIn(d, e)])]

\* The walk is what its recursive function says.
LEMMA BehindIs ==
  ASSUME NEW d, DOMAIN d \subseteq Nodes, NEW opts
  PROVE  \E f : /\ Collect(d, opts) = IF 1 \in DOMAIN d THEN f[1][<<>>] ELSE <<>>
                /\ \A nodes \in Seq(Nodes) : f[0][nodes] = nodes
                /\ Steps(d, opts, f)
<1> DEFINE n == Len(Parent)
           Of(g, e) == [nodes \in Seq(Nodes) |->
                          IF e = 0 THEN nodes
                          ELSE g[NextOf(d, e)][After(d, opts, e, nodes, g[FirstIn(d, e)])]]
           Dom(m) == {e \in 0..n : e = 0 \/ e + m > n}
           Is(g, m) == g = [e \in Dom(m) |-> Of(g, e)]
           Good == {m \in Nat : \E g : Is(g, m)}
<1>1. n \in Nat /\ Nodes = 1..n
  BY Numbers
<1>2. \A g, h : Of(g, 0) = Of(h, 0)
  OBVIOUS
<1>3. \A g, h : \A e \in Nodes :
        g[NextOf(d, e)] = h[NextOf(d, e)] /\ g[FirstIn(d, e)] = h[FirstIn(d, e)] => Of(g, e) = Of(h, e)
  OBVIOUS
<1>4. \A e \in Nodes : /\ NextOf(d, e) # 0 => NextOf(d, e) \in Nodes /\ NextOf(d, e) > e
                       /\ FirstIn(d, e) # 0 => FirstIn(d, e) \in Nodes /\ FirstIn(d, e) > e
  BY LaterElements
<1> HIDE DEF Of
<1>5. 0 \in Good
  <2>1. Dom(0) = {0}
    BY <1>1
  <2> DEFINE g == [e \in Dom(0) |-> Of(<<>>, e)]
  <2>2. \A e \in Dom(0) : Of(g, e) = Of(<<>>, e)
    BY <2>1, <1>2
  <2>3. Is(g, 0)
    BY <2>2
  <2> HIDE DEF g, Is
  <2> QED BY <2>3
<1>6. ASSUME NEW m \in Good PROVE m + 1 \in Good
  <2>1. m \in Nat
    OBVIOUS
  <2>2. PICK g : Is(g, m)
    OBVIOUS
  <2> DEFINE h == [e \in Dom(m + 1) |-> Of(g, e)]
  <2>3. \A e \in Dom(m) : g[e] = Of(g, e)
    <3> TAKE e \in Dom(m)
    <3> HIDE DEF Dom
    <3> QED BY <2>2
  <2>4. \A e \in Dom(m) : e \in Dom(m + 1)
    BY <1>1, <2>1
  <2>5. \A e \in Dom(m) : h[e] = g[e]
    <3> HIDE DEF Dom
    <3> QED BY <2>3, <2>4
  <2>6. ASSUME NEW e \in Dom(m + 1) PROVE Of(h, e) = Of(g, e)
    <3>1. CASE e = 0
      BY <3>1, <1>2
    <3>2. CASE e # 0
      <4>1. e \in Nodes /\ e \in Nat
        BY <3>2, <1>1
      <4>2. \A x : x = 0 \/ (x \in Nodes /\ x > e) => x \in Dom(m)
        BY <1>1, <2>1, <3>2, <4>1
      <4>3. NextOf(d, e) \in Dom(m) /\ FirstIn(d, e) \in Dom(m)
        <5> HIDE DEF Dom
        <5> QED BY <4>1, <4>2, <1>4
      <4> HIDE DEF Dom, h
      <4>4. h[NextOf(d, e)] = g[NextOf(d, e)] /\ h[FirstIn(d, e)] = g[FirstIn(d, e)]
        BY <4>3, <2>5
      <4> QED BY <4>1, <4>4, <1>3
    <3> QED BY <3>1, <3>2
  <2>7. Is(h, m + 1)
    <3> HIDE DEF Dom
    <3> QED BY <2>6
  <2> HIDE DEF h, Is
  <2> QED BY <2>1, <2>7
<1>7. n \in Good
  <2>1. Good \in SUBSET Nat
    OBVIOUS
  <2> HIDE DEF Good
  <2> QED BY <2>1, <1>1, <1>5, <1>6, SetInduction
<1>8. Dom(n) = 0..n
  BY <1>1
<1> DEFINE f == CHOOSE g : Is(g, n)
<1>9. Is(f, n)
  <2>1. \E g : Is(g, n)
    <3> HIDE DEF Is
    <3> QED BY <1>7
  <2> HIDE DEF Is
  <2> QED BY <2>1
<1>10. f = CHOOSE g : g = [e \in 0..n |-> Of(g, e)]
  <2> HIDE DEF Dom
  <2> QED BY <1>8
<1>11. Collect(d, opts) = IF 1 \in DOMAIN d THEN f[1][<<>>] ELSE <<>>
  <2> HIDE DEF f
  <2> QED BY <1>10 DEF Collect, Of, After, FirstIn, NextOf
<1> HIDE DEF f
<1>12. \A e \in 0..n : f[e] = Of(f, e)
  <2> HIDE DEF Dom
  <2> TAKE e \in 0..n
  <2> QED BY <1>8, <1>9
<1>13. \A nodes \in Seq(Nodes) : f[0][nodes] = nodes
  <2>1. f[0] = Of(f, 0)
    BY <1>1, <1>12
  <2> QED BY <2>1 DEF Of
<1>14. ASSUME NEW e \in Nodes, NEW nodes \in Seq(Nodes)
       PROVE  f[e][nodes] = f[NextOf(d, e)][After(d, opts, e, nodes, f[FirstIn(d, e)])]
  <2>1. f[e] = Of(f, e) /\ e # 0
    BY <1>1, <1>12
  <2> QED BY <2>1 DEF Of
<1> QED BY <1>11, <1>13, <1>14 DEF Steps

\* The walk comes to an element, as nothing it is in keeps it out.
Open(d, opts, e) ==
  \A a \in Ancestors[e] : ~Closed(d, a, opts) /\ ~(LeafSvg(d[a]) /\ ~PassedOver(d[a], opts))

\* What a snapshot should list, however many.
Listed(d, opts) ==
  {e \in DOMAIN d : /\ Open(d, opts, e) /\ ~Closed(d, e, opts)
                    /\ ~PassedOver(d[e], opts) /\ ~EmptyGeneric(d, e)}

\* From e on, the walk f lists what it should.
Walks(d, opts, f, e) ==
  e = 0 \/ (e \in DOMAIN d /\ Open(d, opts, e)) =>
    \A nodes \in Seq(Nodes) :
      Len(nodes) <= opts.maxNodes =>
        f[e][nodes] = Upto(nodes \o InOrder(Listed(d, opts) \cap Rest(d, e)), opts.maxNodes)

\* What a step lists of an element and of what is in it.
LEMMA AfterIs ==
  ASSUME NEW d, IsTree(d), NEW opts, opts.maxNodes \in Nat, NEW f,
         NEW e \in DOMAIN d, Open(d, opts, e), Walks(d, opts, f, FirstIn(d, e)),
         NEW nodes \in Seq(Nodes), Len(nodes) <= opts.maxNodes
  PROVE  After(d, opts, e, nodes, f[FirstIn(d, e)]) =
           Upto(nodes \o (InOrder(Listed(d, opts) \cap {e})
                            \o InOrder(Listed(d, opts) \cap Inside(d, e))), opts.maxNodes)
<1> DEFINE k == opts.maxNodes
           own == InOrder(Listed(d, opts) \cap {e})
           in == InOrder(Listed(d, opts) \cap Inside(d, e))
           first == FirstIn(d, e)
           after == After(d, opts, e, nodes, f[first])
<1>1. e \in Nodes /\ DOMAIN d \subseteq Nodes /\ Listed(d, opts) \subseteq Nodes
  BY DEF IsTree, Listed
<1>2. /\ InOrder(Listed(d, opts) \cap {e}) \in Seq(Nodes)
      /\ InOrder(Listed(d, opts) \cap Inside(d, e)) \in Seq(Nodes)
  <2>1. \A S \in SUBSET Nodes : InOrder(S) \in Seq(Nodes)
    <3> TAKE S \in SUBSET Nodes
    <3>1. InOrder(S) \in Seq(S)
      BY InOrderLists
    <3> QED BY <3>1
  <2> QED BY <1>1, <2>1
<1>3. e \notin Listed(d, opts) => own = <<>>
  <2>1. e \notin Listed(d, opts) => Listed(d, opts) \cap {e} = {}
    OBVIOUS
  <2> QED BY <2>1, InOrderSmall
<1>4. e \in Listed(d, opts) => own = <<e>>
  <2>1. e \in Listed(d, opts) => Listed(d, opts) \cap {e} = {e}
    OBVIOUS
  <2> QED BY <1>1, <2>1, InOrderSmall
<1>5. Listed(d, opts) \cap Inside(d, e) = {} => in = <<>>
  BY InOrderSmall
<1>6. \A x \in Listed(d, opts) \cap Inside(d, e) : e \in Ancestors[x] /\ Open(d, opts, x)
  BY DEF Listed, Inside
<1>7. Closed(d, e, opts) \/ (LeafSvg(d[e]) /\ ~PassedOver(d[e], opts)) => in = <<>>
  BY <1>5, <1>6 DEF Open
<1>8. Inside(d, e) = Rest(d, first)
  BY InsideIs
<1>9. e \in Listed(d, opts) <=> ~Closed(d, e, opts) /\ ~PassedOver(d[e], opts) /\ ~EmptyGeneric(d, e)
  BY DEF Listed
<1>10. ASSUME ~Closed(d, e, opts), PassedOver(d[e], opts) \/ ~LeafSvg(d[e]),
              NEW ns \in Seq(Nodes), Len(ns) <= k
       PROVE  f[first][ns] = Upto(ns \o in, k)
  <2>1. first = 0 \/ (first \in DOMAIN d /\ Open(d, opts, first))
    <3> SUFFICES ASSUME first # 0 PROVE first \in DOMAIN d /\ Open(d, opts, first)
      OBVIOUS
    <3>1. first \in DOMAIN d /\ e < first /\ Parent[first] = e
      BY InsideIs
    <3>2. first \in Nodes /\ Parent[first] # 0
      BY <3>1, <1>1, Numbers
    <3>3. Ancestors[first] = {Parent[first]} \cup Ancestors[Parent[first]]
      BY <3>2, AncestorsAre
    <3>4. Ancestors[first] = {e} \cup Ancestors[e]
      BY <3>1, <3>3
    <3> QED BY <3>1, <3>4, <1>10 DEF Open
  <2>2. f[first][ns] = Upto(ns \o InOrder(Listed(d, opts) \cap Rest(d, first)), k)
    BY <2>1, <1>10 DEF Walks
  <2> QED BY <2>2, <1>8
<1> HIDE DEF own, in, first
<1>11. <<>> \in Seq(Nodes) /\ \A s \in Seq(Nodes) : <<>> \o s = s /\ s \o <<>> = s
  OBVIOUS
<1>12. \A s \in Seq(Nodes) : Len(s) <= k => Upto(s, k) = s
  BY UptoIs
<1>13. own \in Seq(Nodes) /\ in \in Seq(Nodes) /\ own \o in \in Seq(Nodes)
  BY <1>2 DEF own, in
<1>14. CASE Len(nodes) >= k \/ Closed(d, e, opts)
  <2>1. after = nodes
    BY <1>14 DEF After
  <2>2. CASE Closed(d, e, opts)
    <3>1. nodes \o (own \o in) = nodes
      BY <2>2, <1>3, <1>7, <1>9, <1>11
    <3>2. nodes = Upto(nodes \o (own \o in), k)
      BY <3>1, <1>12
    <3> QED BY <2>1, <3>2 DEF own, in, first
  <2>3. CASE Len(nodes) >= k
    <3>1. Len(nodes) = k
      BY <2>3
    <3>2. Upto(nodes \o (own \o in), k) = nodes
      BY <3>1, <1>13, UptoJoins
    <3> QED BY <2>1, <3>2 DEF own, in, first
  <2> QED BY <1>14, <2>2, <2>3 DEF own, in, first
<1>15. CASE ~(Len(nodes) >= k \/ Closed(d, e, opts))
  <2>1. CASE PassedOver(d[e], opts)
    <3>1. after = f[first][nodes]
      BY <1>15, <2>1 DEF After
    <3>2. f[first][nodes] = Upto(nodes \o in, k)
      BY <1>10, <1>15, <2>1
    <3>3. own \o in = in
      BY <1>3, <1>9, <1>11, <1>13, <2>1
    <3> QED BY <3>1, <3>2, <3>3 DEF own, in, first
  <2>2. CASE ~PassedOver(d[e], opts) /\ EmptyGeneric(d, e)
    <3>1. after = nodes
      BY <1>15, <2>2 DEF After
    <3>2. in = <<>>
      <4>1. Children(d, e) = {}
        BY <2>2 DEF EmptyGeneric
      <4>2. first = 0
        BY <4>1, InsideIs DEF first
      <4>3. Inside(d, e) = {}
        BY <4>2, <1>8 DEF Rest
      <4> QED BY <4>3, <1>5
    <3>3. nodes \o (own \o in) = nodes
      BY <3>2, <2>2, <1>3, <1>9, <1>11
    <3>4. after = Upto(nodes \o (own \o in), k)
      BY <3>1, <3>3, <1>12
    <3> QED BY <3>4 DEF own, in, first
  <2>3. CASE ~PassedOver(d[e], opts) /\ ~EmptyGeneric(d, e)
    <3> DEFINE more == Append(nodes, e)
    <3>1. more \in Seq(Nodes) /\ Len(more) <= k /\ more = nodes \o <<e>>
      <4>1. more = nodes \o <<e>> /\ more \in Seq(Nodes) /\ Len(more) = Len(nodes) + 1
        BY <1>1, AppendProperties, AppendIsConcat
      <4> QED BY <4>1, <1>15
    <3>2. own = <<e>>
      BY <1>4, <1>9, <1>15, <2>3
    <3>3. nodes \o (own \o in) = more \o in
      <4>1. <<e>> \in Seq(Nodes)
        BY <1>1
      <4>2. (nodes \o <<e>>) \o in = nodes \o (<<e>> \o in)
        BY <4>1, <1>13, ConcatAssociative
      <4> QED BY <4>2, <3>1, <3>2
    <3> HIDE DEF more
    <3>4. CASE LeafSvg(d[e])
      <4>1. after = more
        BY <1>15, <2>3, <3>4 DEF After, more
      <4>2. in = <<>>
        BY <2>3, <3>4, <1>7
      <4>3. more \o in = more
        BY <4>2, <3>1, <1>11
      <4>4. Upto(more, k) = more
        BY <3>1, <1>12
      <4>5. after = Upto(nodes \o (own \o in), k)
        BY <4>1, <4>3, <4>4, <3>3
      <4> QED BY <4>5 DEF own, in, first
    <3>5. CASE ~LeafSvg(d[e])
      <4>1. after = f[first][more]
        BY <1>15, <2>3, <3>5 DEF After, more
      <4>2. f[first][more] = Upto(more \o in, k)
        BY <1>10, <1>15, <3>1, <3>5
      <4> QED BY <4>1, <4>2, <3>3 DEF own, in, first
    <3> QED BY <3>4, <3>5
  <2> QED BY <2>1, <2>2, <2>3
<1> QED BY <1>14, <1>15

\* The elements on the way to a sibling are the same.
LEMMA OpenNext ==
  ASSUME NEW d, IsTree(d), NEW opts, NEW e \in DOMAIN d, Open(d, opts, e), NextOf(d, e) # 0
  PROVE  NextOf(d, e) \in DOMAIN d /\ Open(d, opts, NextOf(d, e))
<1>1. NextOf(d, e) \in DOMAIN d /\ Parent[NextOf(d, e)] = Parent[e]
  BY RestIs
<1>2. e \in Nodes /\ NextOf(d, e) \in Nodes
  BY <1>1 DEF IsTree
<1>3. Ancestors[NextOf(d, e)] = Ancestors[e]
  BY <1>1, <1>2, AncestorsAre
<1> QED BY <1>1, <1>3 DEF Open

\* One step of the walk, if what comes after it is right.
LEMMA WalksOn ==
  ASSUME NEW d, IsTree(d), NEW opts, opts.maxNodes \in Nat, NEW f, NEW e \in DOMAIN d,
         Steps(d, opts, f),
         Walks(d, opts, f, FirstIn(d, e)), Walks(d, opts, f, NextOf(d, e))
  PROVE  Walks(d, opts, f, e)
<1> DEFINE k == opts.maxNodes
           L == Listed(d, opts)
<1>1. e \in Nodes /\ DOMAIN d \subseteq Nodes /\ L \subseteq Nodes /\ e # 0
  BY Numbers DEF IsTree, Listed
<1> SUFFICES ASSUME Open(d, opts, e), NEW nodes \in Seq(Nodes), Len(nodes) <= k
             PROVE  f[e][nodes] = Upto(nodes \o InOrder(L \cap Rest(d, e)), k)
  BY <1>1 DEF Walks
<1>0. After(d, opts, e, nodes, f[FirstIn(d, e)]) =
         Upto(nodes \o (InOrder(Listed(d, opts) \cap {e})
                          \o InOrder(Listed(d, opts) \cap Inside(d, e))), opts.maxNodes)
  <2> HIDE DEF k, L
  <2>1. Len(nodes) <= opts.maxNodes
    BY DEF k
  <2> QED BY <2>1, AfterIs
<1> DEFINE own == InOrder(L \cap {e})
           in == InOrder(L \cap Inside(d, e))
           next == NextOf(d, e)
           behind == InOrder(L \cap Rest(d, next))
           after == After(d, opts, e, nodes, f[FirstIn(d, e)])
<1>2. after = Upto(nodes \o (own \o in), k)
  BY <1>0
<1>3. own \in Seq(Nodes) /\ in \in Seq(Nodes) /\ behind \in Seq(Nodes)
  <2>1. \A S \in SUBSET Nodes : InOrder(S) \in Seq(Nodes)
    <3> TAKE S \in SUBSET Nodes
    <3>1. InOrder(S) \in Seq(S)
      BY InOrderLists
    <3> QED BY <3>1
  <2>2. /\ L \cap {e} \in SUBSET Nodes /\ L \cap Inside(d, e) \in SUBSET Nodes
        /\ L \cap Rest(d, next) \in SUBSET Nodes
    BY <1>1
  <2> HIDE DEF L, next
  <2> QED BY <2>1, <2>2
<1>4. InOrder(L \cap Rest(d, e)) = (own \o in) \o behind
  <2>1. /\ Rest(d, e) = {e} \cup Inside(d, e) \cup Rest(d, next)
        /\ \A x \in Inside(d, e) : e < x
        /\ \A x \in Inside(d, e) \cup {e}, y \in Rest(d, next) : x < y
    BY RestIs
  <2> DEFINE A == L \cap {e}
             B == L \cap Inside(d, e)
             C == L \cap Rest(d, next)
  <2>2. A \in SUBSET Nodes /\ B \in SUBSET Nodes /\ C \in SUBSET Nodes
    BY <1>1
  <2>3. /\ \A a \in A, b \in B : a < b
        /\ \A a \in A \cup B, c \in C : a < c
    BY <2>1
  <2>4. L \cap Rest(d, e) = (A \cup B) \cup C
    BY <2>1
  <2>5. own = InOrder(A) /\ in = InOrder(B) /\ behind = InOrder(C)
    OBVIOUS
  <2> HIDE DEF A, B, C, L, own, in, behind
  <2>6. InOrder(A \cup B) = InOrder(A) \o InOrder(B)
    BY <2>2, <2>3, InOrderJoins
  <2>7. A \cup B \in SUBSET Nodes
    BY <2>2
  <2>8. InOrder((A \cup B) \cup C) = InOrder(A \cup B) \o InOrder(C)
    BY <2>2, <2>3, <2>7, InOrderJoins
  <2> QED BY <2>4, <2>5, <2>6, <2>8
<1> HIDE DEF own, in, behind, after, next
<1> DEFINE here == nodes \o (own \o in)
<1>5. here \in Seq(Nodes) /\ own \o in \in Seq(Nodes)
  BY <1>3
<1>6. after \in Seq(Nodes) /\ Len(after) <= k
  <2>1. /\ Upto(here, k) \in Seq(Nodes)
        /\ Len(Upto(here, k)) = IF Len(here) < k THEN Len(here) ELSE k
    <3> HIDE DEF here
    <3> QED BY <1>5, UptoIs
  <2>2. after = Upto(here, k)
    BY <1>2 DEF after
  <2>3. Len(here) \in Nat /\ k \in Nat
    <3> HIDE DEF here
    <3> QED BY <1>5
  <2> HIDE DEF here, k
  <2> QED BY <2>1, <2>2, <2>3
<1>7. next = 0 \/ (next \in DOMAIN d /\ Open(d, opts, next))
  BY OpenNext DEF next
<1>8. f[next][after] = Upto(after \o behind, k)
  <2>1. Walks(d, opts, f, next)
    BY DEF next
  <2> QED BY <2>1, <1>6, <1>7 DEF Walks, behind
<1>9. f[e][nodes] = f[next][after]
  BY <1>1 DEF next, after, Steps
<1>10. Upto(after \o behind, k) = Upto(here \o behind, k)
  <2>1. after = Upto(here, k)
    BY <1>2 DEF after
  <2> HIDE DEF here
  <2> QED BY <2>1, <1>3, <1>5, UptoJoins
<1>11. here \o behind = nodes \o ((own \o in) \o behind)
  <2> DEFINE both == own \o in
  <2>1. both \in Seq(Nodes)
    BY <1>5
  <2>2. behind \in Seq(Nodes)
    BY <1>3
  <2> HIDE DEF both, here, k, L
  <2>3. (nodes \o both) \o behind = nodes \o (both \o behind)
    BY ONLY nodes \in Seq(Nodes), <2>1, <2>2, ConcatAssociative, SMTT(30)
  <2> QED BY <2>3 DEF both, here
<1> QED BY <1>4, <1>8, <1>9, <1>10, <1>11

\* A snapshot lists what is visible, in document order and up to max_nodes: the
\* walk of traverse and recurse_children, for every tree.
LEMMA CollectIsVisible ==
  ASSUME NEW d, IsTree(d), NEW opts, opts.maxNodes \in Nat
  PROVE  Collect(d, opts) = Visible(d, opts)
<1>0. \E f : /\ Collect(d, opts) = IF 1 \in DOMAIN d THEN f[1][<<>>] ELSE <<>>
            /\ (\A nodes \in Seq(Nodes) : f[0][nodes] = nodes)
            /\ Steps(d, opts, f)
  <2>1. DOMAIN d \subseteq Nodes
    BY DEF IsTree
  <2> QED BY <2>1, BehindIs
<1> DEFINE k == opts.maxNodes
           L == Listed(d, opts)
           n == Len(Parent)
<1>1. n \in Nat /\ Nodes = 1..n /\ DOMAIN d \subseteq Nodes /\ L \subseteq DOMAIN d
  BY Numbers DEF IsTree, Listed
<1>2. PICK f : /\ Collect(d, opts) = IF 1 \in DOMAIN d THEN f[1][<<>>] ELSE <<>>
               /\ \A nodes \in Seq(Nodes) : f[0][nodes] = nodes
               /\ Steps(d, opts, f)
  BY <1>0
<1> DEFINE Good == {m \in Nat : \A e \in DOMAIN d \cup {0} : e = 0 \/ e + m > n => Walks(d, opts, f, e)}
<1>3. Walks(d, opts, f, 0)
  <2>1. Rest(d, 0) = {}
    BY DEF Rest
  <2>2. InOrder(L \cap Rest(d, 0)) = <<>>
    BY <2>1, InOrderSmall
  <2>3. ASSUME NEW nodes \in Seq(Nodes), Len(nodes) <= k
        PROVE  f[0][nodes] = Upto(nodes \o <<>>, k)
    <3>1. nodes \o <<>> = nodes
      OBVIOUS
    <3>2. Upto(nodes, k) = nodes
      BY <2>3, UptoIs
    <3> QED BY <1>2, <3>1, <3>2
  <2> QED BY <2>2, <2>3 DEF Walks
<1>4. 0 \in Good
  <2>1. \A e \in DOMAIN d : e \in Nat /\ ~ e + 0 > n
    BY <1>1
  <2> QED BY <1>3, <2>1
<1>5. ASSUME NEW m \in Good PROVE m + 1 \in Good
  <2>1. m \in Nat /\ \A e \in DOMAIN d \cup {0} : e = 0 \/ e + m > n => Walks(d, opts, f, e)
    OBVIOUS
  <2>2. ASSUME NEW e \in DOMAIN d, e + (m + 1) > n PROVE Walks(d, opts, f, e)
    <3>1. e \in Nodes /\ e \in Nat
      BY <1>1
    <3>2. \A x : x = 0 \/ (x \in DOMAIN d /\ e < x) => Walks(d, opts, f, x)
      <4> SUFFICES ASSUME NEW x \in DOMAIN d, e < x PROVE Walks(d, opts, f, x)
        BY <1>3
      <4>1. x \in Nat /\ x + m > n
        BY <1>1, <2>1, <2>2, <3>1
      <4> QED BY <2>1, <4>1
    <3>3. Walks(d, opts, f, FirstIn(d, e))
      BY <3>2, InsideIs
    <3>4. Walks(d, opts, f, NextOf(d, e))
      BY <3>2, RestIs
    <3> QED BY <1>2, <3>3, <3>4, WalksOn
  <2> QED BY <2>1, <2>2, <1>3
<1>6. n \in Good
  <2>1. Good \in SUBSET Nat
    OBVIOUS
  <2> HIDE DEF Good
  <2> QED BY <2>1, <1>1, <1>4, <1>5, SetInduction
<1>7. L = {e \in DOMAIN d :
             (/\ \A a \in Ancestors[e] \cup {e} : ~Closed(d, a, opts)
              /\ \A a \in Ancestors[e] : ~(LeafSvg(d[a]) /\ ~PassedOver(d[a], opts)))
             /\ (~PassedOver(d[e], opts) /\ ~EmptyGeneric(d, e))}
  BY DEF Listed, Open
<1>8. Visible(d, opts) = Upto(InOrder(L), k)
  BY <1>7 DEF Visible, Upto
<1>9. CASE 1 \in DOMAIN d
  <2>1. Walks(d, opts, f, 1)
    <3>1. 1 \in Nat /\ 1 + n > n
      BY <1>1
    <3> QED BY <1>6, <1>9, <3>1
  <2>2. Parent[1] = 0 /\ Ancestors[1] = {}
    BY <1>1, <1>9, TreeAssumption, AncestorsAre
  <2>3. Rest(d, 1) = DOMAIN d
    <3>1. \A x \in DOMAIN d : x >= 1
      BY <1>1
    <3> QED BY <2>2, <3>1 DEF Rest
  <2>4. L \cap Rest(d, 1) = L
    BY <1>1, <2>3
  <2>5. <<>> \in Seq(Nodes) /\ Len(<<>>) <= k
    OBVIOUS
  <2>6. f[1][<<>>] = Upto(<<>> \o InOrder(L), k)
    BY <2>1, <2>2, <2>4, <2>5, <1>9 DEF Walks, Open
  <2>7. InOrder(L) \in Seq(L)
    BY <1>1, InOrderLists
  <2>8. <<>> \o InOrder(L) = InOrder(L)
    <3> HIDE DEF L
    <3> QED BY <2>7
  <2> QED BY <1>2, <1>8, <1>9, <2>6, <2>8
<1>10. CASE 1 \notin DOMAIN d
  <2>1. DOMAIN d = {}
    <3> SUFFICES ASSUME NEW x \in DOMAIN d PROVE FALSE
      OBVIOUS
    <3>1. x # 1 /\ x \in Nodes
      BY <1>1, <1>10
    <3>2. 1 \in Ancestors[x]
      BY <3>1, BodyHolds
    <3> QED BY <3>2, <1>10 DEF IsTree
  <2>2. InOrder(L) = <<>>
    BY <2>1, <1>1, InOrderSmall
  <2>3. <<>> \in Seq(Nodes) /\ Len(<<>>) <= k
    OBVIOUS
  <2>4. Upto(<<>>, k) = <<>>
    BY <2>3, UptoIs
  <2> QED BY <1>2, <1>8, <1>10, <2>2, <2>4
<1> QED BY <1>9, <1>10

(***************************************************************************)
(* Numbers of elements.                                                    *)
(***************************************************************************)

\* The place of an element in a sequence that lists it.
LEMMA PlaceIs ==
  ASSUME NEW s \in Seq(Nodes), NEW e \in Range(s)
  PROVE  /\ SelectInSeq(s, LAMBDA x : x = e) \in 1..Len(s)
         /\ s[SelectInSeq(s, LAMBDA x : x = e)] = e
<1> DEFINE I == {i \in 1..Len(s) : s[i] = e}
<1>1. I # {} /\ I \in SUBSET Nat
  BY DEF Range
<1>2. Min(I) \in I
  <2>1. \E m \in I : \A i \in I : m <= i
    BY <1>1, LeastNumber
  <2> HIDE DEF I
  <2> QED BY <2>1 DEF Min
<1>3. SelectInSeq(s, LAMBDA x : x = e) = Min(I)
  BY <1>1 DEF SelectInSeq
<1> QED BY <1>2, <1>3

\* An attribute that is set is what it is set to, and there are no others then.
LEMMA RefSet ==
  ASSUME NEW x, DOMAIN x = DOMAIN Plain, NEW r
  PROVE  [x EXCEPT !.ref = r].ref = r /\ DOMAIN [x EXCEPT !.ref = r] = DOMAIN Plain
<1>1. "ref" \in DOMAIN Plain
  BY DEF Plain
<1> HIDE DEF Plain
<1> QED BY <1>1

\* The attributes of e in d are those of elements.
Attributed(d, e) == DOMAIN d[e] = DOMAIN Plain

FindIds == {FindId(i - 1) : i \in Nodes}

\* find gives numbers of its own, and only to elements that have none.
LEMMA FoundIs ==
  ASSUME NEW d, IsTree(d), NEW selector
  PROVE  /\ DOMAIN Found(d, selector) = DOMAIN d
         /\ \A e \in DOMAIN d : Attributed(d, e) =>
              /\ Attributed(Found(d, selector), e)
              /\ \/ Found(d, selector)[e].ref = d[e].ref
                 \/ Found(d, selector)[e].ref \in FindIds
<1> DEFINE all == Matches(d, selector)
<1>1. DOMAIN Found(d, selector) = DOMAIN d
  BY DEF Found
<1>2. all \in Seq(Nodes) /\ Len(all) <= Len(Parent)
  <2>1. selector \cap DOMAIN d \in SUBSET Nodes
    BY DEF IsTree
  <2>2. /\ InOrder(selector \cap DOMAIN d) \in Seq(selector \cap DOMAIN d)
        /\ Len(InOrder(selector \cap DOMAIN d)) <= Len(Parent)
    BY <2>1, InOrderLists
  <2> QED BY <2>1, <2>2 DEF Matches
<1>3. ASSUME NEW e \in DOMAIN d, Attributed(d, e)
      PROVE  /\ Attributed(Found(d, selector), e)
             /\ \/ Found(d, selector)[e].ref = d[e].ref
                \/ Found(d, selector)[e].ref \in FindIds
  <2> DEFINE i == SelectInSeq(all, LAMBDA x : x = e)
  <2>1. CASE ~(e \in Range(all) /\ d[e].ref = None)
    <3>1. Found(d, selector)[e] = d[e]
      BY <2>1 DEF Found
    <3> QED BY <3>1, <1>3 DEF Attributed
  <2>2. CASE e \in Range(all) /\ d[e].ref = None
    <3>1. Found(d, selector)[e] = [d[e] EXCEPT !.ref = FindId(i - 1)]
      BY <2>2 DEF Found
    <3>2. i \in 1..Len(all)
      <4> HIDE DEF all
      <4> QED BY <1>2, <2>2, PlaceIs
    <3>3. i \in Nodes
      <4> HIDE DEF i, all
      <4>1. Len(all) \in Nat /\ Len(Parent) \in Nat
        BY <1>2, Numbers
      <4> QED BY <3>2, <4>1, <1>2 DEF Nodes
    <3> HIDE DEF i
    <3>4. FindId(i - 1) \in FindIds
      BY <3>3 DEF FindIds
    <3> QED BY <3>1, <3>4, <1>3, RefSet DEF Attributed
  <2> QED BY <2>1, <2>2
<1> QED BY <1>1, <1>3

\* A snapshot gives each element it lists its place, and leaves the others alone.
LEMMA MarkedIs ==
  ASSUME NEW d, NEW s \in Seq(Nodes)
  PROVE  /\ DOMAIN Marked(d, s) = DOMAIN d
         /\ \A e \in DOMAIN d : Attributed(d, e) =>
              /\ Attributed(Marked(d, s), e)
              /\ \/ e \notin Range(s) /\ Marked(d, s)[e].ref = d[e].ref
                 \/ \E i \in 1..Len(s) : s[i] = e /\ Marked(d, s)[e].ref = RefId(i)
<1>1. DOMAIN Marked(d, s) = DOMAIN d
  BY DEF Marked
<1>2. ASSUME NEW e \in DOMAIN d, Attributed(d, e)
      PROVE  /\ Attributed(Marked(d, s), e)
             /\ \/ e \notin Range(s) /\ Marked(d, s)[e].ref = d[e].ref
                \/ \E i \in 1..Len(s) : s[i] = e /\ Marked(d, s)[e].ref = RefId(i)
  <2> DEFINE i == SelectInSeq(s, LAMBDA x : x = e)
  <2>1. CASE e \notin Range(s)
    <3>1. Marked(d, s)[e] = d[e]
      BY <2>1 DEF Marked
    <3> QED BY <3>1, <2>1, <1>2 DEF Attributed
  <2>2. CASE e \in Range(s)
    <3>1. Marked(d, s)[e] = [d[e] EXCEPT !.ref = RefId(i)]
      BY <2>2 DEF Marked
    <3>2. i \in 1..Len(s) /\ s[i] = e
      BY <2>2, PlaceIs
    <3> HIDE DEF i
    <3> QED BY <3>1, <3>2, <1>2, RefSet DEF Attributed
  <2> QED BY <2>1, <2>2
<1> QED BY <1>1, <1>2

(***************************************************************************)
(* The page.                                                               *)
(***************************************************************************)

\* The numbers of the elements of d are such as snapshots and finds give, and
\* those that s lists carry no other number of a snapshot than their place.
Numbered(d, s) ==
  /\ \A e \in DOMAIN d : Attributed(d, e) /\ d[e].ref \in Refs
  /\ \A i \in DOMAIN s, j \in Nodes : s[i] \in DOMAIN d /\ d[s[i]].ref = RefId(j) => i = j

\* What the invariant says of the document, of the latest snapshot and of wait_for.
DocumentInv == IsTree(doc) /\ Numbered(doc, shown)

ShownInv == shown \in Seq(Nodes) /\ Len(shown) <= Len(Parent)

RemovedInv ==
  /\ Numbered(removed, shown)
  /\ DOMAIN doc \cup DOMAIN removed = DOMAIN Documents[source]
  /\ DOMAIN doc \cap DOMAIN removed = {}

WaitInv ==
  /\ wait \in {None} \cup {Some(w) : w \in Waits}
  /\ wait # None => wait[1].elapsed <= wait[1].due + MaxLate

\* The parts of the invariant.
LEMMA PageParts ==
  PageInv <=> /\ source \in DOMAIN Documents /\ leaving \in BOOLEAN
              /\ DocumentInv /\ RemovedInv /\ ShownInv /\ WaitInv /\ ActsAsShown
<1>1. source \in DOMAIN Documents =>
        \A e \in DOMAIN Documents[source] : e \in Nodes
  BY PageAssumption
<1>2. shown \in Seq(Nodes) => Range(shown) \subseteq Nodes
  BY DEF Range
<1>3. PageInv => /\ IsTree(doc) /\ Numbered(doc, shown) /\ Numbered(removed, shown)
                 /\ ShownInv /\ WaitInv
  BY <1>1 DEF PageInv, PageTypes, CarriesItsOwn, IsElement, IsTree, Numbered, Attributed,
              ShownInv, WaitInv
<1>4. PageInv => /\ source \in DOMAIN Documents /\ leaving \in BOOLEAN /\ ActsAsShown
                 /\ DOMAIN doc \cup DOMAIN removed = DOMAIN Documents[source]
                 /\ DOMAIN doc \cap DOMAIN removed = {}
  BY DEF PageInv, PageTypes
<1>5. ASSUME source \in DOMAIN Documents, leaving \in BOOLEAN,
             DocumentInv, RemovedInv, ShownInv, WaitInv, ActsAsShown
      PROVE  PageInv
  <2>1. PageTypes
    BY <1>2, <1>5 DEF DocumentInv, RemovedInv, ShownInv, WaitInv, PageTypes, IsElement, IsTree,
                      Numbered, Attributed
  <2>2. CarriesItsOwn
    BY <1>5 DEF DocumentInv, RemovedInv, Numbered, CarriesItsOwn
  <2> QED BY <1>5, <2>1, <2>2 DEF PageInv, ShownInv, WaitInv
<1> QED BY <1>3, <1>4, <1>5 DEF DocumentInv, RemovedInv

\* The same of the next state.
LEMMA PagePartsNext ==
  ASSUME source' \in DOMAIN Documents, leaving' \in BOOLEAN,
         DocumentInv', RemovedInv', ShownInv', WaitInv', ActsAsShown'
  PROVE  PageInv'
<1>1. shown' \in Seq(Nodes) => Range(shown') \subseteq Nodes
  BY DEF Range
<1>2. PageTypes'
  BY <1>1 DEF DocumentInv, RemovedInv, ShownInv, WaitInv, PageTypes, IsElement, IsTree,
              Numbered, Attributed
<1>3. CarriesItsOwn'
  BY DEF DocumentInv, RemovedInv, Numbered, CarriesItsOwn
<1> QED BY <1>2, <1>3 DEF PageInv, ShownInv, WaitInv

\* What the assumption says of the numbers.
LEMMA RefsDiffer ==
  ASSUME NEW i \in Nodes
  PROVE  /\ RefId(i) # None
         /\ \A j \in Nodes : RefId(i) = RefId(j) => i = j
         /\ RefId(i) \notin FindIds
         /\ None \in Refs /\ RefId(i) \in Refs /\ FindIds \subseteq Refs
<1>1. 0 \in 0..Len(Parent) /\ \A j \in Nodes : j \in 0..Len(Parent) /\ j - 1 \in 0..Len(Parent)
  BY Numbers
<1>2. RefId(i) # None /\ \A j \in Nodes : RefId(i) = RefId(j) => i = j
  BY <1>1, PageAssumption
<1>3. RefId(i) \notin FindIds
  <2> SUFFICES ASSUME NEW j \in Nodes, RefId(i) = FindId(j - 1) PROVE FALSE
    BY DEF FindIds
  <2>1. RefId(i) # FindId(j - 1)
    BY <1>1, PageAssumption
  <2> QED BY <2>1
<1> QED BY <1>2, <1>3 DEF Refs, FindIds

\* A new number of find for some elements disturbs nothing.
LEMMA StaysNumbered ==
  ASSUME NEW d, NEW d2, NEW s, s \in Seq(Nodes), Len(s) <= Len(Parent), Numbered(d, s),
         DOMAIN d2 \subseteq DOMAIN d,
         \A e \in DOMAIN d2 : Attributed(d2, e) /\ (d2[e].ref = d[e].ref \/ d2[e].ref \in FindIds)
  PROVE  Numbered(d2, s)
<1>1. \A i \in DOMAIN s : i \in Nodes
  BY Numbers
<1>2. ASSUME NEW e \in DOMAIN d2 PROVE d2[e].ref \in Refs
  <2>1. d[e].ref \in Refs
    BY DEF Numbered
  <2> QED BY <2>1 DEF Refs, FindIds
<1>3. ASSUME NEW i \in DOMAIN s, NEW j \in Nodes, s[i] \in DOMAIN d2, d2[s[i]].ref = RefId(j)
      PROVE  i = j
  <2>1. d2[s[i]].ref \notin FindIds
    BY <1>3, RefsDiffer
  <2>2. d[s[i]].ref = RefId(j)
    BY <2>1, <1>3
  <2> QED BY <2>2, <1>3 DEF Numbered
<1> QED BY <1>2, <1>3 DEF Numbered

\* Only an action can be on another element than the one that was shown.
LEMMA NoAction ==
  ASSUME did'.what # "act"
  PROVE  ActsAsShown'
BY DEF ActsAsShown

\* The element that an action on a refId of the latest snapshot takes.
LEMMA OnShown ==
  ASSUME DocumentInv, ShownInv, NEW by, NEW e,
         by.selector = None =>
           \/ e = Carrier(doc, by.ref)
           \/ Carrier(doc, by.ref) = 0 /\ e \in DOMAIN doc \cup {0},
         DOMAIN doc' = DOMAIN doc \/ by.selector # None,
         by.selector = None => \A x \in DOMAIN doc : doc'[x].ref = doc[x].ref,
         shown' = shown, did' = [what |-> "act", by |-> by, on |-> e]
  PROVE  ActsAsShown'
<1>1. did'.by = by /\ did'.on = e
  OBVIOUS
<1> SUFFICES ASSUME by.selector = None, NEW i \in DOMAIN shown, by.ref = RefId(i), e \notin {0, shown[i]}
             PROVE  \/ e \notin Range(shown) /\ e < shown[i] /\ doc'[e].ref = by.ref
                    \/ /\ shown[i] \in DOMAIN doc' => doc'[shown[i]].ref # by.ref
                       /\ e \in Range(shown) => doc'[e].ref # by.ref
  BY <1>1 DEF ActsAsShown
<1> DEFINE those == {x \in DOMAIN doc : doc[x].ref = by.ref}
<1>2. i \in Nodes /\ DOMAIN doc \subseteq Nodes /\ \A x \in Nodes : x \in Nat /\ x # 0
  BY Numbers DEF ShownInv, DocumentInv, IsTree
<1>3. Carrier(doc, by.ref) = First(those)
  <2>1. by.ref # <<>>
    BY <1>2, RefsDiffer DEF None
  <2> QED BY <2>1 DEF Carrier
<1>4. those \in SUBSET Nat /\ 0 \notin those
  BY <1>2
<1>5. those # {} => First(those) \in those /\ \A x \in those : First(those) <= x
  <2> HIDE DEF those
  <2> QED BY <1>4, FirstIsLeast
<1>6. those = {} => First(those) = 0
  BY DEF First
<1> HIDE DEF those
<1>7. CASE e = First(those)
  <2>1. e \in those
    BY <1>5, <1>6, <1>7
  <2>2. e \in DOMAIN doc /\ doc[e].ref = RefId(i) /\ doc'[e].ref = by.ref
    BY <2>1 DEF those
  <2>3. e \notin Range(shown)
    <3> SUFFICES ASSUME NEW j \in DOMAIN shown, e = shown[j] PROVE FALSE
      BY DEF Range
    <3>1. j = i
      BY <2>2, <1>2 DEF DocumentInv, Numbered
    <3> QED BY <3>1
  <2>4. CASE shown[i] \in those
    <3>1. e <= shown[i] /\ e \in Nat /\ shown[i] \in Nat
      BY <2>1, <2>4, <1>4, <1>5, <1>7
    <3>2. e < shown[i]
      BY <3>1
    <3> QED BY <2>2, <2>3, <3>2
  <2>5. CASE shown[i] \notin those
    <3>1. shown[i] \in DOMAIN doc' => doc'[shown[i]].ref # by.ref
      BY <2>5 DEF those
    <3> QED BY <2>3, <3>1
  <2> QED BY <2>4, <2>5
<1>8. CASE First(those) = 0 /\ e \in DOMAIN doc
  <2>1. those = {}
    BY <1>4, <1>5, <1>8
  <2>2. \A x \in DOMAIN doc : doc'[x].ref # by.ref
    BY <2>1 DEF those
  <2> QED BY <2>2, <1>8
<1> QED BY <1>3, <1>7, <1>8

\* What an action takes is an element of the document.
LEMMA TargetIs ==
  ASSUME DocumentInv, NEW by, NEW labelled \in BOOLEAN, by.selector = None
  PROVE  /\ Resolved(doc, by).doc = doc
         /\ \/ Target(doc, by, labelled) = Carrier(doc, by.ref)
            \/ Carrier(doc, by.ref) = 0 /\ Target(doc, by, labelled) \in DOMAIN doc \cup {0}
<1>1. Resolved(doc, by) = [doc |-> doc, ref |-> by.ref]
  BY DEF Resolved
<1>2. ASSUME NEW label PROVE ByLabel(doc, label) \in DOMAIN doc \cup {0}
  <2>1. \A S \in SUBSET DOMAIN doc : First(S) \in DOMAIN doc \cup {0}
    <3> TAKE S \in SUBSET DOMAIN doc
    <3>1. S \in SUBSET Nat
      BY Numbers DEF DocumentInv, IsTree
    <3>2. S # {} => First(S) \in S
      BY <3>1, FirstIsLeast
    <3>3. S = {} => First(S) = 0
      BY DEF First
    <3> QED BY <3>2, <3>3
  <2> QED BY <2>1 DEF ByLabel
<1>3. CASE Carrier(doc, by.ref) = 0 /\ labelled
  <2>1. Target(doc, by, labelled) = ByLabel(doc, LabelOf(by, by.ref))
    BY <1>1, <1>3 DEF Target
  <2> QED BY <2>1, <1>1, <1>2, <1>3
<1>4. CASE ~(Carrier(doc, by.ref) = 0 /\ labelled)
  <2>1. Target(doc, by, labelled) = Carrier(doc, by.ref)
    BY <1>1, <1>4 DEF Target
  <2> QED BY <2>1, <1>1
<1> QED BY <1>3, <1>4

\* An action that leaves its element one keeps the invariant.
LEMMA ActKeeps ==
  ASSUME PageInv, NEW by, NEW labelled \in BOOLEAN, NEW STATE after,
         \A e \in DOMAIN doc : Attributed(after, e), Act(by, labelled, after)
  PROVE  PageInv'
<1> DEFINE d == Resolved(doc, by).doc
           t == Target(doc, by, labelled)
<1>1. /\ source \in DOMAIN Documents /\ leaving \in BOOLEAN
      /\ DocumentInv /\ RemovedInv /\ ShownInv /\ WaitInv
      /\ source' = source /\ leaving' = leaving /\ shown' = shown /\ removed' = removed /\ wait' = wait
  BY PageParts DEF Act
<1>2. /\ doc' = IF t = 0 THEN d ELSE [d EXCEPT ![t] = [after[t] EXCEPT !.ref = d[t].ref]]
      /\ did' = [what |-> "act", by |-> by, on |-> t]
  BY DEF Act
<1>3. \A e \in DOMAIN doc : Attributed(doc, e) /\ doc[e].ref \in Refs
  BY <1>1 DEF DocumentInv, Numbered
<1>4. /\ DOMAIN d = DOMAIN doc
      /\ \A e \in DOMAIN d : Attributed(d, e) /\ (d[e].ref = doc[e].ref \/ d[e].ref \in FindIds)
  <2>1. CASE by.selector = None
    <3>1. d = doc
      BY <2>1 DEF Resolved
    <3> QED BY <3>1, <1>3
  <2>2. CASE by.selector # None
    <3>1. d = Found(doc, by.selector[1])
      BY <2>2 DEF Resolved
    <3>2. IsTree(doc)
      BY <1>1 DEF DocumentInv
    <3> HIDE DEF d
    <3> QED BY <3>1, <3>2, <1>3, FoundIs
  <2> QED BY <2>1, <2>2
<1>5. by.selector = None => d = doc
  BY DEF Resolved
<1> HIDE DEF d, t
<1>6. /\ DOMAIN doc' = DOMAIN d
      /\ \A e \in DOMAIN d : Attributed(doc', e) /\ doc'[e].ref = d[e].ref
  <2>1. CASE t = 0 \/ t \notin DOMAIN d
    <3>1. DOMAIN doc' = DOMAIN d /\ \A e \in DOMAIN d : doc'[e] = d[e]
      BY <1>2, <2>1
    <3> QED BY <3>1, <1>4 DEF Attributed
  <2>2. CASE t # 0 /\ t \in DOMAIN d
    <3>1. /\ DOMAIN doc' = DOMAIN d /\ doc'[t] = [after[t] EXCEPT !.ref = d[t].ref]
          /\ \A e \in DOMAIN d : e # t => doc'[e] = d[e]
      BY <1>2, <2>2
    <3>2. DOMAIN after[t] = DOMAIN Plain
      BY <2>2, <1>4 DEF Attributed
    <3>3. doc'[t].ref = d[t].ref /\ DOMAIN doc'[t] = DOMAIN Plain
      BY <3>1, <3>2, RefSet
    <3> QED BY <3>1, <3>3, <1>4 DEF Attributed
  <2> QED BY <2>1, <2>2
<1>7. \A e \in DOMAIN doc' : Attributed(doc', e) /\ (doc'[e].ref = doc[e].ref \/ doc'[e].ref \in FindIds)
  BY <1>4, <1>6
<1>8. DOMAIN doc' = DOMAIN doc
  BY <1>4, <1>6
<1>9. Numbered(doc', shown)
  <2>1. Numbered(doc, shown) /\ shown \in Seq(Nodes) /\ Len(shown) <= Len(Parent)
    BY <1>1 DEF DocumentInv, ShownInv
  <2>2. DOMAIN doc' \subseteq DOMAIN doc
    BY <1>8
  <2> QED BY <2>1, <2>2, <1>7, StaysNumbered
<1>10. DocumentInv'
  BY <1>1, <1>8, <1>9 DEF DocumentInv, IsTree
<1>11. RemovedInv' /\ ShownInv' /\ WaitInv'
  BY <1>1, <1>8 DEF RemovedInv, ShownInv, WaitInv
<1>12. ActsAsShown'
  <2>1. by.selector = None => \/ t = Carrier(doc, by.ref)
                              \/ Carrier(doc, by.ref) = 0 /\ t \in DOMAIN doc \cup {0}
    BY <1>1, TargetIs DEF t
  <2>2. by.selector = None => \A x \in DOMAIN doc : doc'[x].ref = doc[x].ref
    BY <1>5, <1>6
  <2> QED BY <1>1, <1>2, <1>8, <2>1, <2>2, OnShown
<1> QED BY <1>1, <1>10, <1>11, <1>12, PagePartsNext

\* What an action makes of an element is an element.
LEMMA ActsOnElements ==
  ASSUME NEW x, DOMAIN x = DOMAIN Plain, NEW text, NEW on
  PROVE  /\ DOMAIN Filled(x, text) = DOMAIN Plain
         /\ DOMAIN Appended(x, text) = DOMAIN Plain
         /\ DOMAIN Typed(x, text) = DOMAIN Plain
         /\ DOMAIN Checked(x, on) = DOMAIN Plain
         /\ DOMAIN Selected(x, text) = DOMAIN Plain
<1>1. DOMAIN Filled(x, text) = DOMAIN Plain
  BY DEF Filled
<1>2. DOMAIN Extended(x, text) = DOMAIN Plain
  BY DEF Extended
<1>3. DOMAIN Appended(x, text) = DOMAIN Plain /\ DOMAIN Typed(x, text) = DOMAIN Plain
  BY <1>2 DEF Appended, Typed
<1>4. DOMAIN Checked(x, on) = DOMAIN Plain
  BY DEF Checked
<1>5. DOMAIN Selected(x, text) = DOMAIN Plain
  BY DEF Selected
<1> QED BY <1>1, <1>3, <1>4, <1>5

\* The actions on elements.
LEMMA ActionsKeep ==
  ASSUME PageInv, NEW by, NEW text, NEW on,
         \/ Click(by) \/ ScrollTo(by) \/ Hover(by) \/ DblClick(by) \/ Press(by)
         \/ Fill(by, text) \/ AppendText(by, text) \/ Type(by, text) \/ Select(by, text)
         \/ Check(by, on)
  PROVE  PageInv'
<1>1. \A e \in DOMAIN doc : Attributed(doc, e)
  BY PageParts DEF DocumentInv, Numbered
<1>2. TRUE \in BOOLEAN /\ FALSE \in BOOLEAN
  OBVIOUS
<1>3. CASE Click(by) \/ ScrollTo(by)
  <2>1. Act(by, TRUE, doc)
    BY <1>3 DEF Click, ScrollTo
  <2> QED BY <2>1, <1>1, <1>2, ActKeeps
<1>4. CASE Hover(by) \/ DblClick(by)
  <2>1. Act(by, FALSE, doc)
    BY <1>4 DEF Hover, DblClick
  <2> QED BY <2>1, <1>1, <1>2, ActKeeps
<1>5. CASE Press(by)
  <2>1. Act(by, FALSE, doc)
    BY <1>5 DEF Press
  <2> QED BY <2>1, <1>1, <1>2, ActKeeps
<1>6. CASE Fill(by, text)
  <2> DEFINE after == [e \in DOMAIN doc |-> Filled(doc[e], text)]
  <2>1. \A e \in DOMAIN doc : Attributed(after, e)
    BY <1>1, ActsOnElements DEF Attributed
  <2>2. Act(by, TRUE, after)
    BY <1>6 DEF Fill
  <2> HIDE DEF after
  <2> QED BY <2>1, <2>2, <1>2, ActKeeps
<1>7. CASE AppendText(by, text)
  <2> DEFINE after == [e \in DOMAIN doc |-> Appended(doc[e], text)]
  <2>1. \A e \in DOMAIN doc : Attributed(after, e)
    BY <1>1, ActsOnElements DEF Attributed
  <2>2. Act(by, TRUE, after)
    BY <1>7 DEF AppendText
  <2> HIDE DEF after
  <2> QED BY <2>1, <2>2, <1>2, ActKeeps
<1>8. CASE Type(by, text)
  <2> DEFINE after == [e \in DOMAIN doc |-> Typed(doc[e], text)]
  <2>1. \A e \in DOMAIN doc : Attributed(after, e)
    BY <1>1, ActsOnElements DEF Attributed
  <2>2. Act(by, FALSE, after)
    BY <1>8 DEF Type
  <2> HIDE DEF after
  <2> QED BY <2>1, <2>2, <1>2, ActKeeps
<1>9. CASE Select(by, text)
  <2> DEFINE after == [e \in DOMAIN doc |-> Selected(doc[e], text)]
  <2>1. \A e \in DOMAIN doc : Attributed(after, e)
    BY <1>1, ActsOnElements DEF Attributed
  <2>2. Act(by, FALSE, after)
    BY <1>9 DEF Select
  <2> HIDE DEF after
  <2> QED BY <2>1, <2>2, <1>2, ActKeeps
<1>10. CASE Check(by, on)
  <2> DEFINE after == [e \in DOMAIN doc |-> Checked(doc[e], on)]
  <2>1. \A e \in DOMAIN doc : Attributed(after, e)
    BY <1>1, ActsOnElements DEF Attributed
  <2>2. Act(by, FALSE, after)
    BY <1>10 DEF Check
  <2> HIDE DEF after
  <2> QED BY <2>1, <2>2, <1>2, ActKeeps
<1> QED BY <1>3, <1>4, <1>5, <1>6, <1>7, <1>8, <1>9, <1>10

\* A snapshot lists elements of the document, each once.
LEMMA VisibleLists ==
  ASSUME NEW d, IsTree(d), NEW opts, opts.maxNodes \in Nat
  PROVE  /\ Collect(d, opts) \in Seq(Nodes) /\ Len(Collect(d, opts)) <= Len(Parent)
         /\ \A i, j \in 1..Len(Collect(d, opts)) : Collect(d, opts)[i] = Collect(d, opts)[j] => i = j
         /\ \A i \in 1..Len(Collect(d, opts)) : Collect(d, opts)[i] \in DOMAIN d
<1> DEFINE L == Listed(d, opts)
           s == InOrder(L)
           k == opts.maxNodes
<1>1. Collect(d, opts) = Upto(s, k)
  <2>1. L = {e \in DOMAIN d :
               (/\ \A a \in Ancestors[e] \cup {e} : ~Closed(d, a, opts)
                /\ \A a \in Ancestors[e] : ~(LeafSvg(d[a]) /\ ~PassedOver(d[a], opts)))
               /\ (~PassedOver(d[e], opts) /\ ~EmptyGeneric(d, e))}
    BY DEF Listed, Open
  <2>2. Visible(d, opts) = Upto(s, k)
    BY <2>1 DEF Visible, Upto
  <2> QED BY <2>2, CollectIsVisible
<1>2. L \in SUBSET Nodes /\ L \subseteq DOMAIN d
  BY DEF IsTree, Listed
<1>3. /\ s \in Seq(L) /\ Len(s) <= Len(Parent)
      /\ \A i, j \in 1..Len(s) : i < j => s[i] < s[j]
  <2> HIDE DEF L
  <2> QED BY <1>2, InOrderLists
<1> HIDE DEF s, L
<1>4. s \in Seq(Nodes)
  BY <1>2, <1>3
<1>5. /\ Upto(s, k) \in Seq(Nodes) /\ Len(Upto(s, k)) = IF Len(s) < k THEN Len(s) ELSE k
      /\ \A i \in 1..Len(Upto(s, k)) : Upto(s, k)[i] = s[i]
  BY <1>4, UptoIs
<1>6. Len(s) \in Nat /\ Len(Parent) \in Nat
  BY <1>4, Numbers
<1>7. Len(Upto(s, k)) <= Len(s) /\ Len(Upto(s, k)) <= Len(Parent) /\ Len(Upto(s, k)) \in Nat
  BY <1>3, <1>5, <1>6
<1>8. ASSUME NEW i \in 1..Len(Upto(s, k)), NEW j \in 1..Len(Upto(s, k)), Upto(s, k)[i] = Upto(s, k)[j]
      PROVE  i = j
  <2>1. i \in 1..Len(s) /\ j \in 1..Len(s) /\ s[i] = s[j]
    BY <1>5, <1>6, <1>7, <1>8
  <2>2. s[i] \in Nat /\ s[j] \in Nat
    BY <1>4, <2>1, Numbers
  <2>3. ~ i < j /\ ~ j < i
    BY <1>3, <2>1, <2>2
  <2> QED BY <1>6, <2>1, <2>3
<1>9. \A i \in 1..Len(Upto(s, k)) : Upto(s, k)[i] \in DOMAIN d
  <2> SUFFICES ASSUME NEW i \in 1..Len(Upto(s, k)) PROVE s[i] \in DOMAIN d
    BY <1>5
  <2>1. i \in 1..Len(s)
    BY <1>6, <1>7
  <2> QED BY <1>2, <1>3, <2>1
<1> QED BY <1>1, <1>5, <1>7, <1>8, <1>9

\* Looking at the page.
LEMMA LooksKeep ==
  ASSUME PageInv,
         \/ \E opts \in Options : Snapshot(opts)
         \/ \E selector \in Selectors : Find(selector)
         \/ \E selector \in Awaited : WaitFor(selector)
         \/ Look \/ Tick
  PROVE  PageInv'
<1>1. /\ source \in DOMAIN Documents /\ leaving \in BOOLEAN
      /\ DocumentInv /\ RemovedInv /\ ShownInv /\ WaitInv
  BY PageParts
<1>2. \A e \in DOMAIN doc : Attributed(doc, e) /\ doc[e].ref \in Refs
  BY <1>1 DEF DocumentInv, Numbered
<1>3. ASSUME NEW opts \in Options, Snapshot(opts) PROVE PageInv'
  <2>1. /\ source' = source /\ leaving' = leaving /\ wait' = wait /\ removed' = removed
        /\ shown' = Collect(doc, opts) /\ doc' = Marked(doc, shown')
        /\ did'.what # "act"
    BY <1>3 DEF Snapshot, Nothing
  <2>2. IsTree(doc) /\ opts.maxNodes \in Nat
    BY <1>1, PageAssumption DEF DocumentInv
  <2>3. /\ shown' \in Seq(Nodes) /\ Len(shown') <= Len(Parent)
        /\ \A i, j \in 1..Len(shown') : shown'[i] = shown'[j] => i = j
        /\ \A i \in 1..Len(shown') : shown'[i] \in DOMAIN doc
    BY <2>1, <2>2, VisibleLists
  <2>4. /\ DOMAIN doc' = DOMAIN doc
        /\ \A e \in DOMAIN doc : Attributed(doc, e) =>
             /\ Attributed(doc', e)
             /\ \/ e \notin Range(shown') /\ doc'[e].ref = doc[e].ref
                \/ \E i \in 1..Len(shown') : shown'[i] = e /\ doc'[e].ref = RefId(i)
    BY <2>1, <2>3, MarkedIs
  <2>5. \A i \in 1..Len(shown') : i \in Nodes
    BY <2>3, Numbers
  <2>6. ASSUME NEW e \in DOMAIN doc' PROVE Attributed(doc', e) /\ doc'[e].ref \in Refs
    <3>1. /\ Attributed(doc', e)
          /\ doc'[e].ref = doc[e].ref \/ \E i \in 1..Len(shown') : doc'[e].ref = RefId(i)
      BY <1>2, <2>4
    <3> QED BY <3>1, <2>4, <2>5, <1>2 DEF Refs
  <2>7. ASSUME NEW i \in DOMAIN shown', NEW j \in Nodes, shown'[i] \in DOMAIN doc',
               doc'[shown'[i]].ref = RefId(j)
        PROVE  i = j
    <3>1. i \in 1..Len(shown') /\ shown'[i] \in Range(shown')
      BY <2>3 DEF Range
    <3>2. PICK m \in 1..Len(shown') : shown'[m] = shown'[i] /\ doc'[shown'[i]].ref = RefId(m)
      BY <2>4, <2>7, <3>1, <1>2
    <3>3. m = i
      BY <2>3, <3>1, <3>2
    <3>4. i \in Nodes /\ RefId(i) = RefId(j)
      BY <3>2, <3>3, <2>5, <2>7
    <3> QED BY <3>4, RefsDiffer
  <2>8. Numbered(doc', shown')
    BY <2>6, <2>7 DEF Numbered
  <2>9. RemovedInv'
    <3>1. \A i \in DOMAIN shown' : shown'[i] \in DOMAIN doc
      BY <2>3
    <3>2. \A i \in DOMAIN shown' : shown'[i] \notin DOMAIN removed'
      BY <1>1, <2>1, <3>1 DEF RemovedInv
    <3>3. Numbered(removed', shown')
      BY <1>1, <2>1, <3>2 DEF RemovedInv, Numbered
    <3> QED BY <1>1, <2>1, <2>4, <3>3 DEF RemovedInv
  <2>10. DocumentInv' /\ ShownInv' /\ WaitInv'
    BY <1>1, <2>1, <2>3, <2>4, <2>8 DEF DocumentInv, IsTree, ShownInv, WaitInv
  <2> QED BY <1>1, <2>1, <2>9, <2>10, NoAction, PagePartsNext
<1>4. ASSUME NEW selector \in Selectors, Find(selector) PROVE PageInv'
  <2>1. /\ source' = source /\ leaving' = leaving /\ wait' = wait /\ shown' = shown /\ removed' = removed
        /\ doc' = Found(doc, selector) /\ did'.what # "act"
    BY <1>4 DEF Find, Nothing
  <2>2. IsTree(doc) /\ Numbered(doc, shown) /\ shown \in Seq(Nodes) /\ Len(shown) <= Len(Parent)
    BY <1>1 DEF DocumentInv, ShownInv
  <2>3. /\ DOMAIN doc' = DOMAIN doc
        /\ \A e \in DOMAIN doc' : Attributed(doc', e) /\ (doc'[e].ref = doc[e].ref \/ doc'[e].ref \in FindIds)
    BY <2>1, <2>2, <1>2, FoundIs
  <2>4. Numbered(doc', shown)
    BY <2>2, <2>3, StaysNumbered
  <2>5. DocumentInv' /\ RemovedInv' /\ ShownInv' /\ WaitInv'
    BY <1>1, <2>1, <2>3, <2>4 DEF DocumentInv, IsTree, RemovedInv, ShownInv, WaitInv
  <2> QED BY <1>1, <2>1, <2>5, NoAction, PagePartsNext
<1>5. Timeout \in Nat /\ Interval \in Nat /\ MaxLate \in Nat
  BY PageAssumption
<1>6. ASSUME NEW w \in Waits, w.elapsed <= w.due + MaxLate, LookNow(w) PROVE PageInv'
  <2>1. /\ source' = source /\ leaving' = leaving /\ doc' = doc /\ shown' = shown /\ removed' = removed
        /\ did'.what # "act"
        /\ wait' = IF Answer(doc, w) = "later" THEN Some(Later(w)) ELSE None
    BY <1>6 DEF LookNow
  <2>2. DocumentInv' /\ RemovedInv' /\ ShownInv'
    BY <1>1, <2>1 DEF DocumentInv, RemovedInv, ShownInv
  <2>3. /\ w.elapsed \in Nat /\ w.due \in Nat /\ w.selector \in Awaited
        /\ w.elapsed <= Timeout + Interval + MaxLate
    BY <1>5 DEF Waits
  <2>4. Answer(doc, w) = "later" => w.elapsed < Timeout
    <3>1. w.elapsed < Timeout \/ w.elapsed >= Timeout
      BY <1>5, <2>3
    <3> QED BY <3>1 DEF Answer
  <2>5. Answer(doc, w) = "later" => Later(w) \in Waits /\ Later(w).elapsed <= Later(w).due + MaxLate
    <3> SUFFICES ASSUME w.elapsed < Timeout
                 PROVE  Later(w) \in Waits /\ Later(w).elapsed <= Later(w).due + MaxLate
      BY <2>4
    <3>1. Later(w) = [selector |-> w.selector, elapsed |-> w.elapsed, due |-> w.elapsed + Interval]
      BY DEF Later, Waits
    <3>2. w.elapsed \in 0..Timeout + Interval + MaxLate /\ w.elapsed + Interval \in 0..Timeout + Interval
      BY <1>5, <2>3
    <3>3. w.elapsed <= w.elapsed + Interval + MaxLate
      BY <1>5, <2>3
    <3> QED BY <2>3, <3>1, <3>2, <3>3 DEF Waits
  <2>6. WaitInv'
    <3>1. CASE Answer(doc, w) = "later"
      <4>1. wait' = Some(Later(w)) /\ wait'[1] = Later(w)
        BY <2>1, <3>1 DEF Some
      <4> QED BY <4>1, <2>5, <3>1 DEF WaitInv
    <3>2. CASE Answer(doc, w) # "later"
      BY <2>1, <3>2 DEF WaitInv
    <3> QED BY <3>1, <3>2
  <2> QED BY <1>1, <2>1, <2>2, <2>6, NoAction, PagePartsNext
<1>7. ASSUME NEW selector \in Awaited, WaitFor(selector) PROVE PageInv'
  <2> DEFINE w == [selector |-> selector, elapsed |-> 0, due |-> 0]
  <2>1. w \in Waits /\ w.elapsed <= w.due + MaxLate
    BY <1>5 DEF Waits
  <2>2. LookNow(w)
    BY <1>7 DEF WaitFor
  <2> HIDE DEF w
  <2> QED BY <2>1, <2>2, <1>6
<1>8. ASSUME wait # None
      PROVE  wait[1] \in Waits /\ wait[1].elapsed <= wait[1].due + MaxLate /\ wait = Some(wait[1])
  BY <1>1, <1>8 DEF WaitInv, Some
<1>9. CASE Look
  <2>1. wait # None /\ LookNow(wait[1])
    BY <1>9 DEF Look
  <2> QED BY <2>1, <1>6, <1>8
<1>10. CASE Tick
  <2> DEFINE w == wait[1]
             w2 == [w EXCEPT !.elapsed = @ + 1]
  <2>1. /\ source' = source /\ leaving' = leaving /\ doc' = doc /\ shown' = shown /\ removed' = removed
        /\ wait # None /\ w.elapsed < w.due + MaxLate /\ wait' = Some(w2)
        /\ did'.what # "act"
    BY <1>10 DEF Tick, Nothing
  <2>2. w \in Waits
    BY <2>1, <1>8
  <2> HIDE DEF w
  <2>3. /\ w.elapsed \in Nat /\ w.due \in Nat /\ w.selector \in Awaited
        /\ w.due <= Timeout + Interval
    BY <1>5, <2>2 DEF Waits
  <2>4. w2 = [selector |-> w.selector, elapsed |-> w.elapsed + 1, due |-> w.due]
    BY <2>2 DEF Waits
  <2>5. w.elapsed + 1 \in 0..Timeout + Interval + MaxLate /\ w.elapsed + 1 <= w.due + MaxLate
    BY <1>5, <2>1, <2>3
  <2>6. w.due \in 0..Timeout + Interval
    BY <1>5, <2>3
  <2> HIDE DEF w2
  <2>7. w2 \in Waits /\ w2.elapsed <= w2.due + MaxLate
    BY <2>3, <2>4, <2>5, <2>6 DEF Waits
  <2>8. WaitInv'
    <3>1. wait'[1] = w2
      BY <2>1 DEF Some
    <3> QED BY <2>1, <2>7, <3>1 DEF WaitInv
  <2>9. DocumentInv' /\ RemovedInv' /\ ShownInv'
    BY <1>1, <2>1 DEF DocumentInv, RemovedInv, ShownInv
  <2> QED BY <1>1, <2>1, <2>8, <2>9, NoAction, PagePartsNext
<1> QED BY <1>3, <1>4, <1>7, <1>9, <1>10

\* A document as it is loaded.
LEMMA Loaded ==
  ASSUME NEW s \in DOMAIN Documents
  PROVE  IsTree(Documents[s]) /\ Numbered(Documents[s], <<>>)
<1>1. \A e \in DOMAIN Documents[s] :
        /\ e \in Nodes /\ Ancestors[e] \subseteq DOMAIN Documents[s]
        /\ DOMAIN Documents[s][e] = DOMAIN Plain /\ Documents[s][e].ref = None
  BY PageAssumption
<1>2. None \in Refs
  BY DEF Refs
<1>3. DOMAIN <<>> = {}
  OBVIOUS
<1> QED BY <1>1, <1>2, <1>3 DEF IsTree, Numbered, Attributed

\* No element carries a number.
LEMMA NothingIsNumbered == Numbered(<<>>, <<>>) /\ DOMAIN <<>> = {}
<1>1. DOMAIN <<>> = {}
  OBVIOUS
<1> QED BY <1>1 DEF Numbered

\* The page itself.
LEMMA PageKeeps ==
  ASSUME PageInv, NEW e, Navigate \/ Load \/ Toggle(e) \/ Detach(e) \/ Attach(e)
  PROVE  PageInv'
<1>1. /\ source \in DOMAIN Documents /\ leaving \in BOOLEAN
      /\ DocumentInv /\ RemovedInv /\ ShownInv /\ WaitInv
  BY PageParts
<1>2. /\ IsTree(doc) /\ Numbered(doc, shown) /\ shown \in Seq(Nodes) /\ Len(shown) <= Len(Parent)
      /\ \A x \in DOMAIN doc : Attributed(doc, x) /\ doc[x].ref \in Refs
  BY <1>1 DEF DocumentInv, ShownInv, Numbered
<1>3. CASE Navigate
  <2>1. /\ source' = source /\ leaving' \in BOOLEAN /\ wait' = wait /\ shown' = shown /\ removed' = removed /\ doc' = doc
        /\ did'.what # "act"
    BY <1>3 DEF Navigate, Nothing
  <2>2. DocumentInv' /\ RemovedInv' /\ ShownInv' /\ WaitInv'
    BY <1>1, <2>1 DEF DocumentInv, RemovedInv, ShownInv, WaitInv
  <2> QED BY <1>1, <2>1, <2>2, NoAction, PagePartsNext
<1>4. CASE Load
  <2>1. /\ source' \in DOMAIN Documents /\ doc' = Documents[source'] /\ shown' = <<>>
        /\ removed' = <<>> /\ leaving' \in BOOLEAN /\ wait' = None /\ did'.what # "act"
    BY <1>4 DEF Load, Nothing
  <2>2. IsTree(doc') /\ Numbered(doc', shown') /\ Numbered(removed', shown') /\ DOMAIN removed' = {}
    BY <2>1, Loaded, NothingIsNumbered
  <2>3. <<>> \in Seq(Nodes) /\ Len(<<>>) <= Len(Parent)
    BY Numbers
  <2>4. DocumentInv' /\ RemovedInv' /\ ShownInv' /\ WaitInv'
    BY <2>1, <2>2, <2>3 DEF DocumentInv, RemovedInv, ShownInv, WaitInv
  <2> QED BY <2>1, <2>4, NoAction, PagePartsNext
<1>5. CASE Toggle(e)
  <2>1. /\ source' = source /\ leaving' = leaving /\ wait' = wait /\ shown' = shown /\ removed' = removed
        /\ did'.what # "act" /\ e \in DOMAIN doc
    BY <1>5 DEF Toggle, Nothing
  <2>2. PICK h : doc' = [doc EXCEPT ![e].hiding = h]
    BY <1>5 DEF Toggle
  <2>3. DOMAIN doc' = DOMAIN doc /\ \A x \in DOMAIN doc : x # e => doc'[x] = doc[x]
    BY <2>2
  <2>4. doc'[e] = [doc[e] EXCEPT !.hiding = h]
    BY <2>1, <2>2
  <2>5. DOMAIN doc'[e] = DOMAIN Plain /\ doc'[e].ref = doc[e].ref
    <3>1. "ref" \in DOMAIN Plain
      BY DEF Plain
    <3>2. DOMAIN doc[e] = DOMAIN Plain
      BY <1>2, <2>1 DEF Attributed
    <3> QED BY <2>4, <3>1, <3>2
  <2>6. \A x \in DOMAIN doc' : Attributed(doc', x) /\ (doc'[x].ref = doc[x].ref \/ doc'[x].ref \in FindIds)
    BY <1>2, <2>3, <2>5 DEF Attributed
  <2>7. Numbered(doc', shown)
    BY <1>2, <2>3, <2>6, StaysNumbered
  <2>8. DocumentInv' /\ RemovedInv' /\ ShownInv' /\ WaitInv'
    BY <1>1, <2>1, <2>3, <2>7 DEF DocumentInv, IsTree, RemovedInv, ShownInv, WaitInv
  <2> QED BY <1>1, <2>1, <2>8, NoAction, PagePartsNext
<1>6. CASE Detach(e)
  <2> DEFINE gone == {x \in DOMAIN doc : x = e \/ e \in Ancestors[x]}
             left == DOMAIN doc \ gone
  <2>1. /\ source' = source /\ leaving' = leaving /\ wait' = wait /\ shown' = shown
        /\ did'.what # "act" /\ doc' = [x \in left |-> doc[x]]
        /\ removed' = [x \in DOMAIN removed \cup gone |-> IF x \in gone THEN doc[x] ELSE removed[x]]
    BY <1>6 DEF Detach, Nothing
  <2>2. DOMAIN doc' = left /\ left \subseteq DOMAIN doc /\ \A x \in left : doc'[x] = doc[x]
    BY <2>1
  <2>3. ASSUME NEW y \in left PROVE Ancestors[y] \subseteq left
    <3>1. y \in DOMAIN doc /\ y \in Nodes /\ e \notin Ancestors[y]
      BY <1>2 DEF IsTree
    <3>2. Ancestors[y] \subseteq DOMAIN doc
      BY <1>2, <3>1 DEF IsTree
    <3>3. \A a \in Ancestors[y] : Ancestors[a] \subseteq Ancestors[y]
      BY <3>1, AncestorsBefore
    <3> QED BY <3>1, <3>2, <3>3
  <2>0. gone \subseteq DOMAIN doc /\ left = DOMAIN doc \ gone
    OBVIOUS
  <2> HIDE DEF left, gone
  <2>4. IsTree(doc')
    BY <1>2, <2>2, <2>3 DEF IsTree
  <2>5. \A x \in DOMAIN doc' : Attributed(doc', x) /\ (doc'[x].ref = doc[x].ref \/ doc'[x].ref \in FindIds)
    BY <1>2, <2>2 DEF Attributed
  <2>6. Numbered(doc', shown)
    BY <1>2, <2>2, <2>5, StaysNumbered
  <2>7. DocumentInv' /\ ShownInv' /\ WaitInv'
    BY <1>1, <2>1, <2>2, <2>4, <2>6 DEF DocumentInv, ShownInv, WaitInv
  <2>8. RemovedInv'
    <3>1. /\ DOMAIN removed' = DOMAIN removed \cup gone
          /\ \A x \in gone : removed'[x] = doc[x]
          /\ \A x \in DOMAIN removed \ gone : removed'[x] = removed[x]
      BY <2>1
    <3>2. \A x \in DOMAIN removed' :
            \/ x \in DOMAIN doc /\ removed'[x] = doc[x]
            \/ x \in DOMAIN removed /\ removed'[x] = removed[x]
      BY <2>0, <3>1
    <3>3. Numbered(removed, shown)
      BY <1>1 DEF RemovedInv
    <3>4. Numbered(removed', shown)
      BY <1>2, <3>2, <3>3 DEF Numbered, Attributed
    <3>5. /\ DOMAIN doc' \cup DOMAIN removed' = DOMAIN Documents[source]
          /\ DOMAIN doc' \cap DOMAIN removed' = {}
      BY <1>1, <2>0, <2>2, <3>1 DEF RemovedInv
    <3> QED BY <2>1, <3>4, <3>5 DEF RemovedInv
  <2> QED BY <1>1, <2>1, <2>7, <2>8, NoAction, PagePartsNext
<1>7. CASE Attach(e)
  <2>1. /\ source' = source /\ leaving' = leaving /\ wait' = wait /\ shown' = shown
        /\ did'.what # "act" /\ e \in DOMAIN removed /\ Parent[e] \in DOMAIN doc
        /\ \E x \in {removed[e], Documents[source][e]} :
             doc' = [y \in DOMAIN doc \cup {e} |-> IF y = e THEN x ELSE doc[y]]
        /\ removed' = [y \in DOMAIN removed \ {e} |-> removed[y]]
    BY <1>7 DEF Attach, Nothing
  <2>2. /\ DOMAIN doc' = DOMAIN doc \cup {e} /\ doc'[e] \in {removed[e], Documents[source][e]}
        /\ \A x \in DOMAIN doc : x # e => doc'[x] = doc[x]
    BY <2>1
  <2>3. /\ e \in DOMAIN Documents[source] /\ e \notin DOMAIN doc
        /\ e \in Nodes /\ DOMAIN doc'[e] = DOMAIN Plain /\ doc'[e].ref \in Refs
        /\ \/ doc'[e].ref = None
           \/ doc'[e] = removed[e]
    <3>1. e \in DOMAIN Documents[source] /\ e \notin DOMAIN doc
      BY <1>1, <2>1 DEF RemovedInv
    <3>2. /\ e \in Nodes /\ DOMAIN Documents[source][e] = DOMAIN Plain
          /\ Documents[source][e].ref = None /\ None \in Refs
      BY <1>1, <3>1, PageAssumption DEF Refs
    <3>3. DOMAIN removed[e] = DOMAIN Plain /\ removed[e].ref \in Refs
      BY <1>1, <2>1 DEF RemovedInv, Numbered, Attributed
    <3>4. doc'[e] = removed[e] \/ doc'[e] = Documents[source][e]
      BY <2>2
    <3> QED BY <3>1, <3>2, <3>3, <3>4
  <2>4. Ancestors[e] \subseteq DOMAIN doc
    <3>1. Parent[e] \in Nodes /\ Parent[e] # 0
      BY <1>2, <2>1, Numbers DEF IsTree
    <3>2. Ancestors[e] = {Parent[e]} \cup Ancestors[Parent[e]]
      BY <2>3, <3>1, AncestorsAre
    <3>3. Ancestors[Parent[e]] \subseteq DOMAIN doc
      BY <1>2, <2>1 DEF IsTree
    <3> QED BY <2>1, <3>2, <3>3
  <2>5. IsTree(doc')
    BY <1>2, <2>2, <2>3, <2>4 DEF IsTree
  <2>6. ASSUME NEW x \in DOMAIN doc' PROVE Attributed(doc', x) /\ doc'[x].ref \in Refs
    BY <1>2, <2>2, <2>3 DEF Attributed
  <2>7. ASSUME NEW i \in DOMAIN shown, NEW j \in Nodes, shown[i] \in DOMAIN doc',
               doc'[shown[i]].ref = RefId(j)
        PROVE  i = j
    <3>1. RefId(j) # None
      BY RefsDiffer
    <3>2. CASE shown[i] = e
      <4>1. removed[shown[i]].ref = RefId(j) /\ shown[i] \in DOMAIN removed
        BY <2>1, <2>3, <2>7, <3>1, <3>2
      <4> QED BY <1>1, <4>1 DEF RemovedInv, Numbered
    <3>3. CASE shown[i] # e
      <4>1. shown[i] \in DOMAIN doc /\ doc[shown[i]].ref = RefId(j)
        BY <2>2, <2>7, <3>3
      <4> QED BY <1>2, <4>1 DEF Numbered
    <3> QED BY <3>2, <3>3
  <2>8. Numbered(doc', shown)
    BY <2>6, <2>7 DEF Numbered
  <2>9. DocumentInv' /\ RemovedInv' /\ ShownInv' /\ WaitInv'
    <3>1. /\ DOMAIN removed' = DOMAIN removed \ {e}
          /\ \A x \in DOMAIN removed' : x \in DOMAIN removed /\ removed'[x] = removed[x]
      BY <2>1
    <3>2. Numbered(removed, shown)
      BY <1>1 DEF RemovedInv
    <3>3. Numbered(removed', shown)
      BY <3>1, <3>2 DEF Numbered, Attributed
    <3>4. /\ DOMAIN doc' \cup DOMAIN removed' = DOMAIN Documents[source]
          /\ DOMAIN doc' \cap DOMAIN removed' = {}
      BY <1>1, <2>1, <2>2, <2>3, <3>1 DEF RemovedInv
    <3>5. RemovedInv'
      BY <2>1, <3>3, <3>4 DEF RemovedInv
    <3> QED BY <1>1, <2>1, <2>2, <2>5, <2>8, <3>5 DEF DocumentInv, ShownInv, WaitInv
  <2> QED BY <1>1, <2>1, <2>9, NoAction, PagePartsNext
<1> QED BY <1>3, <1>4, <1>5, <1>6, <1>7

\* No step of the page or of its tools breaks the invariant.
LEMMA PageStep ==
  PageInv /\ [PageNext]_pageVars => PageInv'
<1> SUFFICES ASSUME PageInv, [PageNext]_pageVars PROVE PageInv'
  OBVIOUS
<1>1. CASE UNCHANGED pageVars
  <2>1. /\ source \in DOMAIN Documents /\ leaving \in BOOLEAN
        /\ DocumentInv /\ RemovedInv /\ ShownInv /\ WaitInv /\ ActsAsShown
    BY PageParts
  <2>2. /\ source' = source /\ leaving' = leaving /\ wait' = wait /\ shown' = shown /\ removed' = removed
        /\ doc' = doc /\ did' = did
    BY <1>1 DEF pageVars
  <2>3. DocumentInv' /\ RemovedInv' /\ ShownInv' /\ WaitInv' /\ ActsAsShown'
    BY <2>1, <2>2 DEF DocumentInv, RemovedInv, ShownInv, WaitInv, ActsAsShown
  <2> QED BY <2>1, <2>2, <2>3, PagePartsNext
<1>2. ASSUME NEW by \in Targets, Click(by) \/ ScrollTo(by) \/ Hover(by) \/ DblClick(by) \/ Press(by)
      PROVE  PageInv'
  BY <1>2, ActionsKeep
<1>3. ASSUME NEW by \in Targets, NEW text \in Texts,
             Fill(by, text) \/ AppendText(by, text) \/ Type(by, text) \/ Select(by, text)
      PROVE  PageInv'
  BY <1>3, ActionsKeep
<1>4. ASSUME NEW by \in Targets, NEW on \in BOOLEAN, Check(by, on) PROVE PageInv'
  BY <1>4, ActionsKeep
<1>5. CASE \/ \E opts \in Options : Snapshot(opts)
           \/ \E selector \in Selectors : Find(selector)
           \/ \E selector \in Awaited : WaitFor(selector)
           \/ Look \/ Tick
  BY <1>5, LooksKeep
<1>6. CASE Navigate \/ Load \/ \E e \in Changing : Toggle(e) \/ Detach(e) \/ Attach(e)
  BY <1>6, PageKeeps
<1> QED BY <1>1, <1>2, <1>3, <1>4, <1>5, <1>6 DEF PageNext

\* Whatever cells and the page do, the invariant holds: the elements and their refIds
\* are such as snapshots and finds give, the document is a tree, and what the latest
\* snapshot listed carries no other number of a snapshot than its place in it.
THEOREM PageInvariant == PageSpec => []PageInv
<1>1. PageInit => PageInv
  <2> SUFFICES ASSUME PageInit PROVE PageInv
    OBVIOUS
  <2>1. /\ source \in DOMAIN Documents /\ doc = Documents[source] /\ shown = <<>>
        /\ removed = <<>> /\ leaving \in BOOLEAN /\ wait = None /\ did.what # "act"
    BY DEF PageInit, Nothing
  <2>2. <<>> \in Seq(Nodes) /\ Len(<<>>) <= Len(Parent)
    BY Numbers
  <2>3. IsTree(doc) /\ Numbered(doc, shown) /\ Numbered(removed, shown) /\ DOMAIN removed = {}
    BY <2>1, Loaded, NothingIsNumbered
  <2>4. DocumentInv /\ RemovedInv /\ ShownInv /\ WaitInv /\ ActsAsShown
    BY <2>1, <2>2, <2>3 DEF DocumentInv, RemovedInv, ShownInv, WaitInv, ActsAsShown
  <2> QED BY <2>1, <2>4, PageParts
<1> QED BY <1>1, PageStep, PTL DEF PageSpec

\* The elements and their refIds are such as snapshots and finds give, and a wait_for
\* has waited no longer than its timers allow.
THEOREM PageTypesHold == PageSpec => []PageTypes
<1>1. PageInv => PageTypes
  BY DEF PageInv
<1> QED BY <1>1, PageInvariant, PTL

\* Whatever the page has become, the walk of traverse and recurse_children lists with
\* all options what is visible, in document order and up to max_nodes.
THEOREM SnapshotsAreExact == PageSpec => []SnapshotIsExact
<1>1. PageInv => SnapshotIsExact
  <2> SUFFICES ASSUME PageInv, NEW opts \in Options PROVE Collect(doc, opts) = Visible(doc, opts)
    BY DEF SnapshotIsExact
  <2>1. IsTree(doc) /\ opts.maxNodes \in Nat
    BY PageParts, PageAssumption DEF DocumentInv
  <2> QED BY <2>1, CollectIsVisible
<1> QED BY <1>1, PageInvariant, PTL

\* An action on a refId of the latest snapshot never acts on another element that
\* this snapshot showed, unless its own has gone and a label is looked for.
THEOREM ActionsAreAsShown == PageSpec => []ActsAsShown
<1>1. PageInv => ActsAsShown
  BY DEF PageInv
<1> QED BY <1>1, PageInvariant, PTL

\* wait_for ends with a timeout only after its time and when nothing matches, and
\* else only because something does.
THEOREM WaitsTell == PageSpec => WaitTells
<1> DEFINE Told ==
      wait # None /\ wait' = None /\ ~leaving =>
        IF Matches(doc, wait[1].selector) # <<>> THEN did'.answer = "found"
        ELSE did'.answer = "timeout" /\ wait[1].elapsed >= Timeout
<1>1. [PageNext]_pageVars => [Told]_pageVars
  <2> SUFFICES ASSUME PageNext, wait # None, wait' = None, ~leaving PROVE Told
    OBVIOUS
  <2>1. \A by, after, labelled : ~Act(by, labelled, after)
    BY DEF Act
  <2>2. \A by, text, on :
          /\ ~Click(by) /\ ~ScrollTo(by) /\ ~Hover(by) /\ ~DblClick(by) /\ ~Press(by)
          /\ ~Fill(by, text) /\ ~AppendText(by, text) /\ ~Type(by, text) /\ ~Select(by, text)
          /\ ~Check(by, on)
    <3> HIDE DEF Told
    <3> QED BY <2>1
          DEF Click, ScrollTo, Hover, DblClick, Press, Fill, AppendText, Type, Select, Check
  <2>3. \A opts, selector, e :
          /\ ~Snapshot(opts) /\ ~Find(selector) /\ ~WaitFor(selector) /\ ~Tick
          /\ ~Navigate /\ ~Load /\ ~Toggle(e) /\ ~Detach(e) /\ ~Attach(e)
    <3>1. \A x : Some(x) # None
      BY DEF Some, None
    <3> QED BY <3>1 DEF Snapshot, Find, WaitFor, Tick, Navigate, Load, Toggle, Detach, Attach
  <2>4. Look
    <3> HIDE DEF Told
    <3> QED BY <2>2, <2>3 DEF PageNext
  <2>5. LookNow(wait[1])
    BY <2>4 DEF Look
  <2>6. Answer(doc, wait[1]) # "later" /\ did'.answer = Answer(doc, wait[1])
    <3>1. \A x : Some(x) # None
      BY DEF Some, None
    <3> QED BY <2>5, <3>1 DEF LookNow
  <2> QED BY <2>6 DEF Answer
<1> QED BY <1>1, PTL DEF PageSpec, WaitTells
=============================================================================
