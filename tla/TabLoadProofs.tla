---------------------------- MODULE TabLoadProofs ----------------------------
(***************************************************************************)
(* The theorems about navigation: a goto that nothing disturbs returns its *)
(* own document, and no load is missed, for any addresses, any number of   *)
(* moves of the tab, and however late events and answers are read.         *)
(*                                                                         *)
(* The inductive invariant is LoadInv: whose turn it is in the two queues, *)
(* that the news of a load is on its way, and what a goto knows of its tab *)
(* before, during and after its own navigation.                            *)
(***************************************************************************)
EXTENDS TabLoad, SequenceTheorems, TLAPS

(***************************************************************************)
(* The queues.                                                             *)
(***************************************************************************)

\* A message goes to the end of its queue.
LEMMA Appended ==
  ASSUME NEW S, NEW q \in Seq(S), NEW m \in S
  PROVE  /\ Append(q, m) \in Seq(S) /\ Len(q) \in Nat /\ DOMAIN q = 1..Len(q)
         /\ Len(Append(q, m)) = Len(q) + 1
         /\ DOMAIN Append(q, m) = 1..Len(q) + 1
         /\ \A i \in 1..Len(q) : Append(q, m)[i] = q[i]
         /\ Append(q, m)[Len(q) + 1] = m
         /\ q \o <<m>> = Append(q, m) /\ q \o <<>> = q
<1>1. /\ Append(q, m) \in Seq(S) /\ Len(q) \in Nat /\ DOMAIN q = 1..Len(q)
      /\ Len(Append(q, m)) = Len(q) + 1
      /\ \A i \in 1..Len(q) : Append(q, m)[i] = q[i]
      /\ Append(q, m)[Len(q) + 1] = m
  OBVIOUS
<1>2. DOMAIN Append(q, m) = 1..Len(Append(q, m))
  BY <1>1
<1>3. q \o <<m>> = Append(q, m) /\ q \o <<>> = q
  OBVIOUS
<1> QED BY <1>1, <1>2, <1>3

\* The first message is taken.
LEMMA Taken ==
  ASSUME NEW S, NEW q \in Seq(S), q # <<>>
  PROVE  /\ Head(q) = q[1] /\ Head(q) \in S /\ Tail(q) \in Seq(S)
         /\ Len(q) \in Nat /\ Len(q) >= 1 /\ DOMAIN q = 1..Len(q)
         /\ Len(Tail(q)) = Len(q) - 1 /\ DOMAIN Tail(q) = 1..Len(q) - 1
         /\ \A i \in 1..Len(q) - 1 : Tail(q)[i] = q[i + 1]
         /\ Len(q) = 1 => Tail(q) = <<>>
<1>1. /\ Head(q) = q[1] /\ Head(q) \in S /\ Tail(q) \in Seq(S)
      /\ Len(q) \in Nat /\ Len(q) >= 1 /\ DOMAIN q = 1..Len(q)
      /\ Len(Tail(q)) = Len(q) - 1
      /\ \A i \in 1..Len(q) - 1 : Tail(q)[i] = q[i + 1]
  OBVIOUS
<1>2. DOMAIN Tail(q) = 1..Len(Tail(q))
  BY <1>1
<1>3. Len(q) = 1 => Tail(q) = <<>>
  <2>1. ASSUME NEW r \in Seq(S), Len(r) = 0 PROVE r = <<>>
    BY <2>1
  <2>2. Tail(q) \in Seq(S) /\ (Len(q) = 1 => Len(Tail(q)) = 0)
    BY <1>1
  <2> QED BY <2>1, <2>2
<1> QED BY <1>1, <1>2, <1>3

\* What a message more, or one less, changes in LoadsBefore.
LEMMA LoadsAppended ==
  ASSUME NEW q \in Seq(Messages), NEW m \in Messages
  PROVE  /\ \A i \in 1..Len(q) + 1 : LoadsBefore(Append(q, m), i) <=> LoadsBefore(q, i)
         /\ LoadsBefore(Append(q, m), Len(q) + 2) <=> LoadsBefore(q, Len(q) + 1) \/ IsLoading(m)
BY Appended DEF LoadsBefore

\* What the tool sees before a message it also sees when the first one has been read.
LEMMA LoadsTaken ==
  ASSUME NEW q \in Seq(Messages), q # <<>>
  PROVE  \A i \in 1..Len(q) :
           LoadsBefore(q, i + 1) <=> IsLoading(q[1]) \/ LoadsBefore(Tail(q), i)
<1> SUFFICES ASSUME NEW i \in 1..Len(q)
             PROVE  LoadsBefore(q, i + 1) <=> IsLoading(q[1]) \/ LoadsBefore(Tail(q), i)
  OBVIOUS
<1> USE Taken
<1>1. ASSUME NEW j \in DOMAIN q, j < i + 1, IsLoading(q[j]) PROVE IsLoading(q[1]) \/ LoadsBefore(Tail(q), i)
  <2>1. CASE j = 1 BY <1>1, <2>1
  <2>2. CASE j # 1
    <3>1. j - 1 \in DOMAIN Tail(q) /\ j - 1 < i /\ Tail(q)[j - 1] = q[j]
      BY <1>1, <2>2
    <3> QED BY <1>1, <3>1 DEF LoadsBefore
  <2> QED BY <2>1, <2>2
<1>2. ASSUME NEW j \in DOMAIN Tail(q), j < i, IsLoading(Tail(q)[j]) PROVE LoadsBefore(q, i + 1)
  <2>1. j + 1 \in DOMAIN q /\ j + 1 < i + 1 /\ q[j + 1] = Tail(q)[j]
    BY <1>2
  <2> QED BY <1>2, <2>1 DEF LoadsBefore
<1>3. IsLoading(q[1]) => LoadsBefore(q, i + 1)
  BY DEF LoadsBefore
<1> QED BY <1>1, <1>2, <1>3 DEF LoadsBefore

\* Before the first message, and in an empty queue, there is no load.
LEMMA LoadsNone ==
  /\ \A q \in Seq(Messages) : ~LoadsBefore(q, 1)
  /\ \A i : ~LoadsBefore(<<>>, i)
BY DEF LoadsBefore

(***************************************************************************)
(* Messages and turns.                                                     *)
(***************************************************************************)

\* The step at which each answer is awaited.
LEMMA StepNames ==
  /\ StepOf("pre") = "asking" /\ StepOf("update") = "updating"
  /\ StepOf("check") = "checking" /\ StepOf("fresh") = "reading"
BY DEF StepOf

\* What a message is, by what it says.
LEMMA MessageIs ==
  ASSUME NEW m \in Messages
  PROVE  /\ m.what \in {"event"} \cup Turns \cup Looks
         /\ m.what = "event" => m \in Events
         /\ m.what = "update" => m \in Updates
         /\ m.what \in {"pre", "check", "fresh"} \cup Looks => m \in Tabs
BY DEF Messages, Events, Tabs, Updates, Turns, Looks

\* Chrome's answers and events.
LEMMA StatusIs ==
  \A t, n : /\ Status(t, n) \in {"loading", "complete"}
            /\ Status(t, n) = "complete" <=> ~t.loading /\ n.stage # "started"
BY DEF Status

\* An event says what it was made of.
LEMMA UpdatedIs ==
  ASSUME NEW s \in {"loading", "complete", None}, NEW u \in Urls \cup {None}
  PROVE  /\ Updated(s, u) \in Events /\ Updated(s, u).what = "event"
         /\ Updated(s, u).status = s /\ Updated(s, u).url = u
BY DEF Updated, Events

\* A step adds at most the event of a changed status to the inbox.
LEMMA ChangedIs ==
  ASSUME TypeOK, NEW t, NEW n
  PROVE  \/ Status(t, n) = Status(tab, nav) /\ inbox \o Changed(t, n) = inbox
         \/ /\ Status(t, n) # Status(tab, nav)
            /\ inbox \o Changed(t, n) = Append(inbox, Updated(Status(t, n), None))
<1>1. inbox \in Seq(Messages) /\ Updated(Status(t, n), None) \in Messages
  BY StatusIs, UpdatedIs DEF TypeOK, Messages
<1>2. /\ inbox \o <<Updated(Status(t, n), None)>> = Append(inbox, Updated(Status(t, n), None))
      /\ inbox \o <<>> = inbox
  BY <1>1, Appended
<1> QED BY <1>2 DEF Changed

\* A message more in the inbox, at most.
OneMore(m) == inbox' = inbox \/ inbox' = Append(inbox, m)

\* A message behind the others changes nothing that the tool sees before it.
LEMMA SeesMore ==
  ASSUME TypeOK, NEW m \in Messages, OneMore(m)
  PROVE  /\ Len(inbox) \in Nat /\ DOMAIN inbox = 1..Len(inbox) /\ inbox' \in Seq(Messages)
         /\ \A i \in DOMAIN inbox : i \in DOMAIN inbox' /\ inbox'[i] = inbox[i]
         /\ \A i \in DOMAIN inbox' :
              i \in DOMAIN inbox \/ (inbox' = Append(inbox, m) /\ i = Len(inbox) + 1 /\ inbox'[i] = m)
         /\ inbox' = Append(inbox, m) => Len(inbox) + 1 \in DOMAIN inbox' /\ inbox'[Len(inbox) + 1] = m
         /\ saw' = saw => \A i \in 1..Len(inbox) + 1 : SeesLoading(i)' <=> SeesLoading(i)
         /\ saw' = saw /\ inbox' = Append(inbox, m) => (Told' <=> Told \/ IsLoading(m))
         /\ saw' = saw /\ inbox' = inbox => (Told' <=> Told)
<1>1. inbox \in Seq(Messages)
  BY DEF TypeOK
<1>2. CASE inbox' = inbox
  <2>1. \A i \in 1..Len(inbox) + 1 : LoadsBefore(inbox', i) <=> LoadsBefore(inbox, i)
    BY <1>2
  <2>2. inbox # Append(inbox, m)
    BY <1>1, Appended
  <2> QED BY <1>1, <1>2, <2>1, <2>2, Appended DEF SeesLoading, Told
<1>3. CASE inbox' = Append(inbox, m)
  <2>1. /\ \A i \in 1..Len(inbox) + 1 : LoadsBefore(inbox', i) <=> LoadsBefore(inbox, i)
        /\ LoadsBefore(inbox', Len(inbox') + 1) <=> LoadsBefore(inbox, Len(inbox) + 1) \/ IsLoading(m)
    BY <1>1, <1>3, LoadsAppended, Appended
  <2>2. inbox # Append(inbox, m)
    BY <1>1, Appended
  <2> QED BY <1>1, <1>3, <2>1, <2>2, Appended DEF SeesLoading, Told
<1> QED BY <1>2, <1>3 DEF OneMore

(***************************************************************************)
(* Steps of Chrome and the tab.                                            *)
(***************************************************************************)

\* Types and turns, when nothing but an event arrives.
LEMMA EventArrives ==
  ASSUME TypeOK, InTurn, Watched, UNCHANGED <<asks, callVars>>,
         tab' \in Documents,
         nav' \in Navigations,
         moves' \in 0..MaxMoves, others' \in BOOLEAN,
         NEW e \in Events, OneMore(e)
  PROVE  TypeOK' /\ InTurn' /\ GotoArrives'
<1>1. e \in Messages /\ e.what = "event" /\ "event" \notin Turns
  BY DEF Messages, Events, Turns
<1>2. TypeOK'
  <2>1. asks' \in Seq(Turns \cup Looks) /\ inbox' \in Seq(Messages)
    BY <1>1, SeesMore DEF TypeOK
  <2>2. pc' \in {"asking", "updating", "checking", "reading"} =>
          \/ \E i \in DOMAIN asks' : asks'[i] \in Turns
          \/ \E i \in DOMAIN inbox' : inbox'[i].what \in Turns
    BY <1>1, SeesMore DEF TypeOK, callVars
  <2>3. /\ pc' \in Steps /\ pre' \in Urls \cup {None}
        /\ pc' # "idle" => call' \in [kind : {"goto"}, url : Urls \ Internal] \cup [kind : {"wait_for_load"}]
        /\ saw' \in BOOLEAN /\ grace' \in BOOLEAN
        /\ result' \in Outcomes \cup {None}
        /\ pc' = "done" <=> result' # None
        /\ grace' => pc' = Waiting
    BY DEF TypeOK, callVars
  <2> QED BY <2>1, <2>2, <2>3 DEF TypeOK
<1>3. InTurn'
  BY <1>1, SeesMore DEF InTurn, callVars
<1>4. GotoArrives'
  BY DEF GotoArrives, Watched, TypeOK, callVars
<1> QED BY <1>2, <1>3, <1>4

\* The news of a load goes on being on its way.
LEMMA NewsStay ==
  ASSUME TypeOK, NewsComes, OursIsTold, UNCHANGED <<asks, callVars>>, NEW e \in Events, OneMore(e),
         \/ Status(tab', nav') # "complete" \/ tab'.gone
         \/ /\ tab'.doc = tab.doc
            /\ \/ Status(tab, nav) = "complete" /\ ~tab.gone
               \/ inbox' = Append(inbox, e) /\ e.status = "complete"
  PROVE  NewsComes'
<1> SUFFICES ASSUME pc = Waiting, ~tab'.gone, Status(tab', nav') = "complete",
                    call.kind = "wait_for_load" \/ tab'.doc = "ours", asks = <<>>
             PROVE  \E i \in DOMAIN inbox' :
                      /\ inbox'[i].what = "event" \/ (inbox'[i].what \in Looks /\ inbox'[i].ok)
                      /\ inbox'[i].status = "complete"
                      /\ call.kind = "wait_for_load" \/ SeesLoading(i)'
  BY DEF NewsComes, callVars
<1>1. e \in Messages /\ e.what = "event" /\ saw' = saw
  BY DEF Messages, Events, callVars
<1>2. CASE Status(tab, nav) = "complete" /\ ~tab.gone /\ tab'.doc = tab.doc
  <2>1. PICK i \in DOMAIN inbox :
          /\ inbox[i].what = "event" \/ (inbox[i].what \in Looks /\ inbox[i].ok)
          /\ inbox[i].status = "complete"
          /\ call.kind = "wait_for_load" \/ SeesLoading(i)
    BY <1>2 DEF NewsComes
  <2>2. i \in DOMAIN inbox' /\ inbox'[i] = inbox[i] /\ (SeesLoading(i)' <=> SeesLoading(i))
    BY <1>1, SeesMore
  <2> QED BY <2>1, <2>2
<1>3. CASE inbox' = Append(inbox, e) /\ e.status = "complete" /\ tab'.doc = tab.doc
  <2>1. call.kind = "wait_for_load" \/ SeesLoading(Len(inbox) + 1)
    BY <1>3 DEF OursIsTold, Told
  <2>2. /\ Len(inbox) + 1 \in DOMAIN inbox' /\ inbox'[Len(inbox) + 1] = e
        /\ \A i \in 1..Len(inbox) + 1 : SeesLoading(i)' <=> SeesLoading(i)
        /\ Len(inbox) \in Nat
    BY <1>1, <1>3, SeesMore
  <2>3. PICK k \in DOMAIN inbox' : k = Len(inbox) + 1
    BY <2>2
  <2>4. SeesLoading(k)' <=> SeesLoading(Len(inbox) + 1)
    BY <2>2, <2>3
  <2> QED BY <1>1, <1>3, <2>1, <2>2, <2>3, <2>4
<1> QED BY <1>2, <1>3

\* NotBegun, when nothing but an event arrives.
LEMMA NotBegunStays ==
  ASSUME TypeOK, NotBegun, UNCHANGED <<asks, callVars>>, NEW e \in Events, OneMore(e),
         pc \in {"idle", "asking"} => tab'.doc # "ours" /\ ~nav'.ours
  PROVE  NotBegun'
<1>1. e \in Messages /\ e.what = "event"
  BY DEF Messages, Events
<1> QED BY <1>1, SeesMore DEF NotBegun, callVars

\* What a goto knows of its tab stays true when nothing but an event arrives.
LEMMA UntouchedStays ==
  ASSUME TypeOK, Untouched, UNCHANGED callVars, NEW e \in Events, OneMore(e), e.url = None,
         ~tab'.loading, nav' = NoNav \/ nav'.ours, tab'.url = tab.url, tab.gone => tab'.gone,
         pc = "asking" => inbox' = inbox
  PROVE  Untouched'
<1>1. e \in Messages /\ e.what = "event"
  BY DEF Messages, Events
<1>2. UNCHANGED <<pc, grace, pre, call>>
  BY DEF callVars
<1>3. ASSUME NEW i \in DOMAIN inbox'
      PROVE  /\ inbox'[i].what = "event" => pc' = "asking" \/ inbox'[i].url = None
             /\ inbox'[i].what = "update" /\ inbox'[i].ok => pre' # None
             /\ inbox'[i].what \in {"pre", "check"} \cup Looks =>
                  IF inbox'[i].ok THEN inbox'[i].url = tab'.url ELSE tab'.gone
             /\ inbox'[i].what = "check" /\ inbox'[i].ok => inbox'[i].status = "complete"
  <2>1. CASE i \in DOMAIN inbox /\ inbox'[i] = inbox[i]
    BY <1>2, <2>1 DEF Untouched
  <2>2. CASE inbox'[i] = e
    BY <1>1, <2>2 DEF Looks
  <2> QED BY <1>1, <2>1, <2>2, SeesMore
<1>4. pc' = "asking" => \A i \in DOMAIN inbox' : inbox'[i].what = "pre" => i = Len(inbox')
  BY <1>2 DEF Untouched
<1>5. pc' # "asking" => pre' = tab'.url \/ (pc' = "updating" /\ pre' = None /\ tab'.gone)
  BY <1>2 DEF Untouched
<1>6. pc' \in {"quieting", "pinging", "reading"} => call'.url = pre' \/ tab'.gone
  BY <1>2 DEF Untouched
<1>7. ~grace'
  BY <1>2 DEF Untouched
<1> QED BY <1>3, <1>4, <1>5, <1>6, <1>7 DEF Untouched

\* A navigation that was asked for starts.
LEMMA StartKeeps ==
  ASSUME LoadInv, Start
  PROVE  LoadInv'
<1> DEFINE e == Updated(Status(tab, nav'), None)
<1>1. /\ TypeOK /\ InTurn /\ NotBegun /\ OursIsTold /\ NewsComes /\ ArrivesAlone
      /\ Watched /\ nav.stage = "asked"
      /\ UNCHANGED <<tab, moves, asks, callVars, others>>
      /\ nav' \in Navigations
      /\ nav'.stage = "started" /\ nav'.ours = nav.ours
  <2>1. nav \in Navigations /\ nav.stage = "asked" /\ nav' = [nav EXCEPT !.stage = "started"]
    BY DEF LoadInv, Start, TypeOK
  <2>2. nav \in [stage : {"asked", "started"}, ours : BOOLEAN]
    BY <2>1 DEF Navigations, NoNav
  <2>3. nav' \in Navigations /\ nav'.stage = "started" /\ nav'.ours = nav.ours
    BY <2>1, <2>2 DEF Navigations
  <2> QED BY <2>3 DEF LoadInv, Start
<1>2. /\ Status(tab', nav') = "loading"
      /\ e \in Events /\ e.what = "event" /\ e.status = "loading" /\ e.url = None
      /\ e \in Messages /\ OneMore(e)
      /\ Status(tab, nav) = "complete" => inbox' = Append(inbox, e)
  <2>1. Status(tab', nav') = "loading" /\ Status(tab, nav') = "loading"
    BY <1>1 DEF Status
  <2>2. inbox' = inbox \o Changed(tab, nav')
    BY DEF Start
  <2> QED BY <1>1, <2>1, <2>2, ChangedIs, UpdatedIs DEF OneMore, Messages
<1> HIDE DEF e
<1>3. TypeOK' /\ InTurn' /\ GotoArrives'
  <2>1. moves' \in 0..MaxMoves /\ others' \in BOOLEAN
        /\ tab' \in Documents
    BY <1>1 DEF TypeOK
  <2> QED BY <1>1, <1>2, <2>1, EventArrives
<1>4. NotBegun' /\ NewsComes'
  <2>1. NewsComes'
    BY <1>1, <1>2, NewsStay
  <2>2. pc \in {"idle", "asking"} => tab'.doc # "ours" /\ ~nav'.ours
    BY <1>1 DEF NotBegun
  <2>3. NotBegun'
    BY <1>1, <1>2, <2>2, NotBegunStays
  <2> QED BY <2>1, <2>3
<1>5. saw' = saw /\ pc' = pc /\ grace' = grace /\ call' = call /\ pre' = pre /\ result' = result
  BY <1>1 DEF callVars
<1>6. OursIsTold'
  BY <1>1, <1>2, <1>5, SeesMore DEF OursIsTold, OneMore
<1>7. ArrivesAlone'
  <2> SUFFICES ASSUME Alone PROVE ArrivesAlone'
    BY <1>1, <1>5 DEF ArrivesAlone, Alone
  <2>1. /\ tab.doc # "ours" /\ Untouched /\ UnderWay /\ nav.ours /\ ~tab.loading
        /\ \A i \in DOMAIN asks : asks[i] # "update"
    BY <1>1 DEF ArrivesAlone, Untouched, NoNav
  <2>2. inbox' = Append(inbox, e)
    BY <1>1, <1>2, <2>1, StatusIs
  <2>3. Untouched'
    <3>1. ~tab'.loading /\ nav'.ours /\ tab'.url = tab.url /\ tab'.gone = tab.gone /\ pc # "asking"
      BY <1>1, <2>1 DEF UnderWay, Waiting
    <3> QED BY <1>1, <1>2, <2>1, <3>1, UntouchedStays
  <2>4. UnderWay'
    <3>1. Told'
      BY <1>1, <1>2, <1>5, <2>2, SeesMore DEF IsLoading
    <3>2. ASSUME NEW i \in DOMAIN inbox', inbox'[i].what \in Looks /\ inbox'[i].ok
          PROVE  inbox'[i].status = "loading" <=> SeesLoading(i)'
      <4>1. i \in DOMAIN inbox /\ inbox'[i] = inbox[i] /\ i \in 1..Len(inbox) + 1
        BY <1>1, <1>2, <3>2, SeesMore DEF Looks
      <4>2. SeesLoading(i)' <=> SeesLoading(i)
        BY <1>1, <1>2, <1>5, <4>1, SeesMore
      <4> QED BY <2>1, <3>2, <4>1, <4>2 DEF UnderWay
    <3> QED BY <1>1, <1>5, <2>1, <3>1, <3>2 DEF UnderWay
  <2>5. ASSUME NEW i \in DOMAIN inbox', inbox'[i].what = "fresh" /\ inbox'[i].ok
        PROVE  inbox'[i].doc = "ours" \/ call.url = pre
    <3>1. i \in DOMAIN inbox /\ inbox'[i] = inbox[i]
      BY <1>1, <1>2, <2>5, SeesMore
    <3> QED BY <1>1, <2>5, <3>1 DEF ArrivesAlone
  <2> QED BY <1>1, <1>5, <2>1, <2>3, <2>4, <2>5 DEF ArrivesAlone
<1> QED BY <1>3, <1>4, <1>6, <1>7 DEF LoadInv

\* What a goto will return stays right when nothing but an event arrives.
LEMMA FreshStays ==
  ASSUME TypeOK, ArrivesAlone, Alone, NEW e \in Events, OneMore(e)
  PROVE  \A i \in DOMAIN inbox' :
           inbox'[i].what = "fresh" /\ inbox'[i].ok => inbox'[i].doc = "ours" \/ call.url = pre
<1> SUFFICES ASSUME NEW i \in DOMAIN inbox', inbox'[i].what = "fresh" /\ inbox'[i].ok
             PROVE  inbox'[i].doc = "ours" \/ call.url = pre
  OBVIOUS
<1>1. e \in Messages /\ e.what = "event"
  BY DEF Messages, Events
<1>2. i \in DOMAIN inbox /\ inbox'[i] = inbox[i]
  BY <1>1, SeesMore
<1> QED BY <1>2 DEF ArrivesAlone

\* A navigation commits.
LEMMA CommitKeeps ==
  ASSUME LoadInv, Commit
  PROVE  LoadInv'
<1>1. /\ TypeOK /\ InTurn /\ NotBegun /\ OursIsTold /\ NewsComes /\ ArrivesAlone
      /\ Watched /\ nav.stage = "started" /\ nav' = NoNav
      /\ UNCHANGED <<moves, asks, callVars, others>>
  BY DEF LoadInv, Commit
<1>2. PICK u \in Urls, script \in BOOLEAN :
        /\ tab' = Document(u, IF nav.ours THEN "ours" ELSE "other", TRUE, script)
        /\ inbox' = Append(inbox, Updated("loading", u))
  BY DEF Commit
<1> DEFINE e == Updated("loading", u)
<1>3. /\ e \in Events /\ e.what = "event" /\ e.status = "loading" /\ e \in Messages
      /\ inbox' = Append(inbox, e) /\ OneMore(e)
  BY <1>2, UpdatedIs DEF OneMore, Messages
<1> HIDE DEF e
<1>4. /\ tab' \in Documents
      /\ nav' \in Navigations
      /\ tab'.loading /\ tab'.doc = (IF nav.ours THEN "ours" ELSE "other")
      /\ ~nav'.ours /\ Status(tab', nav') = "loading"
  BY <1>1, <1>2 DEF Document, Docs, Documents, NoNav, Navigations, Status
<1>5. saw' = saw /\ pc' = pc /\ grace' = grace /\ call' = call /\ pre' = pre /\ result' = result
  BY <1>1 DEF callVars
<1>6. TypeOK' /\ InTurn' /\ GotoArrives'
  <2>1. moves' \in 0..MaxMoves /\ others' \in BOOLEAN
    BY <1>1 DEF TypeOK
  <2> QED BY <1>1, <1>3, <1>4, <2>1, EventArrives
<1>7. NotBegun' /\ NewsComes'
  <2>1. NewsComes'
    BY <1>1, <1>3, <1>4, NewsStay
  <2>2. pc \in {"idle", "asking"} => tab'.doc # "ours" /\ ~nav'.ours
    BY <1>1, <1>4 DEF NotBegun
  <2>3. NotBegun'
    BY <1>1, <1>3, <2>2, NotBegunStays
  <2> QED BY <2>1, <2>3
<1>8. OursIsTold'
  <2>1. Told'
    BY <1>1, <1>3, <1>5, SeesMore DEF IsLoading
  <2> QED BY <2>1 DEF OursIsTold
<1>9. ArrivesAlone'
  <2> SUFFICES ASSUME Alone PROVE ArrivesAlone'
    BY <1>1, <1>5 DEF ArrivesAlone, Alone
  <2>1. nav # NoNav
    BY <1>1 DEF NoNav
  <2>2. tab.doc # "ours" /\ nav.ours /\ \A i \in DOMAIN asks : asks[i] # "update"
    BY <1>1, <2>1 DEF ArrivesAlone, Untouched
  <2>3. \A i \in DOMAIN inbox' :
          inbox'[i].what = "fresh" /\ inbox'[i].ok => inbox'[i].doc = "ours" \/ call.url = pre
    BY <1>1, <1>3, FreshStays
  <2> QED BY <1>1, <1>4, <1>5, <2>2, <2>3 DEF ArrivesAlone
<1> QED BY <1>6, <1>7, <1>8, <1>9 DEF LoadInv

\* A document has loaded.
LEMMA LoadKeeps ==
  ASSUME LoadInv, Load
  PROVE  LoadInv'
<1> DEFINE e == Updated(Status(tab', nav), None)
<1>1. /\ TypeOK /\ InTurn /\ NotBegun /\ OursIsTold /\ NewsComes /\ ArrivesAlone
      /\ Watched /\ tab.loading /\ Status(tab, nav) = "loading"
      /\ UNCHANGED <<nav, moves, asks, callVars, others>>
      /\ tab' \in Documents
      /\ tab'.doc = tab.doc
  BY DEF LoadInv, Load, TypeOK, Documents, Status
<1>2. /\ e \in Events /\ e.what = "event" /\ e.status = Status(tab', nav')
      /\ e \in Messages /\ OneMore(e)
      /\ Status(tab', nav') = "complete" => inbox' = Append(inbox, e)
  <2>1. inbox' = inbox \o Changed(tab', nav)
    BY DEF Load
  <2> QED BY <1>1, <2>1, ChangedIs, UpdatedIs, StatusIs DEF OneMore, Messages
<1> HIDE DEF e
<1>3. saw' = saw /\ pc' = pc /\ grace' = grace /\ call' = call /\ pre' = pre /\ result' = result
  BY <1>1 DEF callVars
<1>4. TypeOK' /\ InTurn' /\ GotoArrives'
  <2>1. moves' \in 0..MaxMoves /\ others' \in BOOLEAN
        /\ nav' \in Navigations
    BY <1>1 DEF TypeOK
  <2> QED BY <1>1, <1>2, <2>1, EventArrives
<1>5. NotBegun' /\ NewsComes'
  <2>1. NewsComes'
    BY <1>1, <1>2, NewsStay
  <2>2. pc \in {"idle", "asking"} => tab'.doc # "ours" /\ ~nav'.ours
    BY <1>1 DEF NotBegun
  <2>3. NotBegun'
    BY <1>1, <1>2, <2>2, NotBegunStays
  <2> QED BY <2>1, <2>3
<1>6. OursIsTold'
  BY <1>1, <1>2, <1>3, SeesMore DEF OursIsTold, OneMore
<1>7. ArrivesAlone'
  <2> SUFFICES ASSUME Alone PROVE ArrivesAlone'
    BY <1>1, <1>3 DEF ArrivesAlone, Alone
  <2>1. tab.doc = "ours" /\ nav = NoNav /\ \A i \in DOMAIN asks : asks[i] # "update"
    BY <1>1 DEF ArrivesAlone, Untouched
  <2>2. \A i \in DOMAIN inbox' :
          inbox'[i].what = "fresh" /\ inbox'[i].ok => inbox'[i].doc = "ours" \/ call.url = pre
    BY <1>1, <1>2, FreshStays
  <2> QED BY <1>1, <1>3, <2>1, <2>2 DEF ArrivesAlone
<1> QED BY <1>4, <1>5, <1>6, <1>7 DEF LoadInv

\* A navigation ends without a document.
LEMMA DropKeeps ==
  ASSUME LoadInv, Drop
  PROVE  LoadInv'
<1> DEFINE e == Updated(Status(tab, nav'), None)
<1>1. /\ TypeOK /\ InTurn /\ NotBegun /\ OursIsTold /\ NewsComes /\ ArrivesAlone
      /\ Watched /\ nav # NoNav /\ nav' = NoNav
      /\ UNCHANGED <<tab, moves, asks, callVars, others>>
      /\ nav' \in Navigations
      /\ ~nav'.ours
  BY DEF LoadInv, Drop, NoNav, Navigations
<1>2. /\ e \in Events /\ e.what = "event" /\ e.url = None /\ e.status = Status(tab', nav')
      /\ e \in Messages /\ OneMore(e)
      /\ Status(tab', nav') = "complete" => inbox' = Append(inbox, e) \/ Status(tab, nav) = "complete"
  <2>1. inbox' = inbox \o Changed(tab, nav')
    BY <1>1 DEF Drop
  <2> QED BY <1>1, <2>1, ChangedIs, UpdatedIs, StatusIs DEF OneMore, Messages
<1> HIDE DEF e
<1>3. saw' = saw /\ pc' = pc /\ grace' = grace /\ call' = call /\ pre' = pre /\ result' = result
  BY <1>1 DEF callVars
<1>4. TypeOK' /\ InTurn' /\ GotoArrives'
  <2>1. moves' \in 0..MaxMoves /\ others' \in BOOLEAN
        /\ tab' \in Documents
    BY <1>1 DEF TypeOK
  <2> QED BY <1>1, <1>2, <2>1, EventArrives
<1>5. NotBegun' /\ NewsComes'
  <2>1. NewsComes'
    BY <1>1, <1>2, NewsStay
  <2>2. pc \in {"idle", "asking"} => tab'.doc # "ours" /\ ~nav'.ours
    BY <1>1 DEF NotBegun
  <2>3. NotBegun'
    BY <1>1, <1>2, <2>2, NotBegunStays
  <2> QED BY <2>1, <2>3
<1>6. OursIsTold'
  BY <1>1, <1>2, <1>3, SeesMore DEF OursIsTold, OneMore
<1>7. ArrivesAlone'
  <2> SUFFICES ASSUME Alone PROVE ArrivesAlone'
    BY <1>1, <1>3 DEF ArrivesAlone, Alone
  <2>1. /\ tab.doc # "ours" /\ Untouched /\ UnderWay /\ ~tab.loading
        /\ \A i \in DOMAIN asks : asks[i] # "update"
    BY <1>1 DEF ArrivesAlone, Untouched
  <2>2. Untouched'
    <3>1. ~tab'.loading /\ tab'.url = tab.url /\ tab'.gone = tab.gone /\ pc # "asking"
      BY <1>1, <2>1 DEF UnderWay, Waiting
    <3> QED BY <1>1, <1>2, <2>1, <3>1, UntouchedStays
  <2>3. \A i \in DOMAIN inbox' :
          inbox'[i].what = "fresh" /\ inbox'[i].ok => inbox'[i].doc = "ours" \/ call.url = pre
    BY <1>1, <1>2, FreshStays
  <2> QED BY <1>1, <1>3, <2>1, <2>2, <2>3 DEF ArrivesAlone
<1> QED BY <1>4, <1>5, <1>6, <1>7 DEF LoadInv

\* The page or the user navigates the tab.
LEMMA LeaveKeeps ==
  ASSUME LoadInv, Leave
  PROVE  LoadInv'
<1> DEFINE e == Updated(Status(tab, nav'), None)
<1>1. /\ TypeOK /\ InTurn /\ NotBegun /\ OursIsTold /\ NewsComes
      /\ Watched /\ nav' = Away /\ others' = TRUE /\ moves' = moves + 1 /\ moves < MaxMoves
      /\ pc # "idle" /\ UNCHANGED <<tab, asks, callVars>>
      /\ nav' \in Navigations
      /\ ~nav'.ours /\ Status(tab', nav') = "loading"
  BY DEF LoadInv, Leave, Moves, Away, Navigations, Status
<1>2. e \in Events /\ e \in Messages /\ OneMore(e)
  <2>1. inbox' = inbox \o Changed(tab, nav')
    BY <1>1 DEF Leave
  <2> QED BY <1>1, <2>1, ChangedIs, UpdatedIs, StatusIs DEF OneMore, Messages
<1> HIDE DEF e
<1>3. saw' = saw /\ pc' = pc
  BY <1>1 DEF callVars
<1>4. TypeOK' /\ InTurn' /\ GotoArrives'
  <2>1. moves' \in 0..MaxMoves /\ others' \in BOOLEAN
        /\ tab' \in Documents
    BY <1>1, LoadAssumption DEF TypeOK
  <2> QED BY <1>1, <1>2, <2>1, EventArrives
<1>5. NewsComes'
  BY <1>1, <1>2, NewsStay
<1>6. NotBegun'
  BY <1>1, <1>2, NotBegunStays DEF NotBegun
<1>7. OursIsTold'
  BY <1>1, <1>2, <1>3, SeesMore DEF OursIsTold, OneMore
<1>8. ArrivesAlone'
  BY <1>1 DEF ArrivesAlone, Alone
<1> QED BY <1>4, <1>5, <1>6, <1>7, <1>8 DEF LoadInv

\* The page changes its address.
LEMMA RewriteKeeps ==
  ASSUME LoadInv, NEW url \in Urls, Rewrite(url)
  PROVE  LoadInv'
<1> DEFINE e == Updated(None, url)
<1>1. /\ TypeOK /\ InTurn /\ NotBegun /\ OursIsTold /\ NewsComes
      /\ Watched /\ others' = TRUE /\ moves' = moves + 1 /\ moves < MaxMoves /\ ~tab.gone
      /\ pc # "idle" /\ UNCHANGED <<nav, asks, callVars>>
      /\ tab' \in Documents
      /\ tab'.doc = tab.doc /\ Status(tab', nav') = Status(tab, nav)
  BY DEF LoadInv, Rewrite, Moves, TypeOK, Documents, Status
<1>2. e \in Events /\ e \in Messages /\ OneMore(e)
  BY UpdatedIs DEF OneMore, Messages, Rewrite
<1> HIDE DEF e
<1>3. saw' = saw /\ pc' = pc
  BY <1>1 DEF callVars
<1>4. TypeOK' /\ InTurn' /\ GotoArrives'
  <2>1. moves' \in 0..MaxMoves /\ others' \in BOOLEAN
        /\ nav' \in Navigations
    BY <1>1, LoadAssumption DEF TypeOK
  <2> QED BY <1>1, <1>2, <2>1, EventArrives
<1>5. NewsComes'
  BY <1>1, <1>2, NewsStay
<1>6. NotBegun'
  BY <1>1, <1>2, NotBegunStays DEF NotBegun
<1>7. OursIsTold'
  BY <1>1, <1>2, <1>3, SeesMore DEF OursIsTold, OneMore
<1>8. ArrivesAlone'
  BY <1>1 DEF ArrivesAlone, Alone
<1> QED BY <1>4, <1>5, <1>6, <1>7, <1>8 DEF LoadInv

\* The user closes the tab.
LEMMA CloseKeeps ==
  ASSUME LoadInv, Close
  PROVE  LoadInv'
<1> DEFINE e == Updated(None, None)
<1>1. /\ TypeOK /\ InTurn /\ NotBegun /\ OursIsTold /\ NewsComes /\ ArrivesAlone
      /\ Watched /\ moves' = moves + 1 /\ moves < MaxMoves /\ nav' = NoNav
      /\ pc # "idle" /\ UNCHANGED <<asks, inbox, callVars, others>>
      /\ tab' \in Documents
      /\ tab'.doc = tab.doc /\ tab'.url = tab.url /\ tab'.gone /\ ~tab'.loading
      /\ nav' \in Navigations
      /\ ~nav'.ours
  BY DEF LoadInv, Close, Moves, TypeOK, Documents, Navigations, NoNav
<1>2. e \in Events /\ e \in Messages /\ OneMore(e) /\ e.url = None
  BY <1>1, UpdatedIs DEF OneMore, Messages
<1> HIDE DEF e
<1>3. saw' = saw /\ pc' = pc /\ call' = call /\ pre' = pre /\ grace' = grace
  BY <1>1 DEF callVars
<1>4. TypeOK' /\ InTurn' /\ GotoArrives'
  <2>1. moves' \in 0..MaxMoves /\ others' \in BOOLEAN
    BY <1>1, LoadAssumption DEF TypeOK
  <2> QED BY <1>1, <1>2, <2>1, EventArrives
<1>5. NewsComes'
  BY <1>1, <1>2, NewsStay
<1>6. NotBegun'
  <2>1. pc \in {"idle", "asking"} => tab'.doc # "ours" /\ ~nav'.ours
    BY <1>1 DEF NotBegun
  <2> QED BY <1>1, <1>2, <2>1, NotBegunStays
<1>7. OursIsTold'
  BY <1>1, <1>2, <1>3, SeesMore DEF OursIsTold, OneMore
<1>8. ArrivesAlone'
  <2> SUFFICES ASSUME Alone PROVE ArrivesAlone'
    BY <1>1, <1>3 DEF ArrivesAlone, Alone
  <2>1. tab.doc # "ours" => Untouched'
    BY <1>1, <1>2, UntouchedStays DEF ArrivesAlone
  <2> QED BY <1>1, <1>3, <2>1 DEF ArrivesAlone
<1> QED BY <1>4, <1>5, <1>6, <1>7, <1>8 DEF LoadInv

(***************************************************************************)
(* Chrome's answers.                                                       *)
(***************************************************************************)

\* Chrome answers tabs.get.
LEMMA AnswerTabKeeps ==
  ASSUME LoadInv, Answer, Head(asks) # "update"
  PROVE  LoadInv'
<1> DEFINE q == Head(asks)
           m == Tab(q)
<1>1. /\ TypeOK /\ InTurn /\ NotBegun /\ OursIsTold /\ NewsComes /\ ArrivesAlone
      /\ Watched /\ asks # <<>> /\ asks' = Tail(asks) /\ inbox' = Append(inbox, m)
      /\ UNCHANGED <<tab, nav, moves, callVars, others>>
  BY DEF LoadInv, Answer
<1>2. /\ asks \in Seq(Turns \cup Looks) /\ q \in Turns \cup Looks /\ q # "update"
      /\ tab \in Documents
  BY <1>1, Taken DEF TypeOK
<1>3. /\ m \in Tabs /\ m.what = q /\ m.ok = ~tab.gone /\ m.status = Status(tab, nav)
      /\ m.url = tab.url /\ m.doc = tab.doc
  BY <1>2, StatusIs DEF Tab, Tabs, Documents, Turns
<1>4. m \in Messages /\ m.what # "event" /\ m.what # "update" /\ OneMore(m) /\ ~IsLoading(m)
  BY <1>1, <1>2, <1>3 DEF Messages, OneMore, IsLoading, Turns, Looks
<1>5. UNCHANGED <<pc, call, pre, saw, grace, result>>
  BY <1>1 DEF callVars
<1>6. /\ q = asks[1] /\ asks' \in Seq(Turns \cup Looks) /\ Len(asks) \in Nat /\ Len(asks) >= 1
      /\ DOMAIN asks = 1..Len(asks) /\ DOMAIN asks' = 1..Len(asks) - 1 /\ Len(asks') = Len(asks) - 1
      /\ \A i \in 1..Len(asks) - 1 : asks'[i] = asks[i + 1]
      /\ Len(asks) = 1 => asks' = <<>>
  BY <1>1, <1>2, Taken
<1> HIDE DEF m, q
<1>7. q \in Turns => /\ pc = StepOf(q) /\ Len(asks) = 1 /\ asks' = <<>>
                     /\ \A j \in DOMAIN inbox : inbox[j].what \notin Turns
  <2> SUFFICES ASSUME q \in Turns
               PROVE  /\ pc = StepOf(q) /\ Len(asks) = 1 /\ asks' = <<>>
                      /\ \A j \in DOMAIN inbox : inbox[j].what \notin Turns
    OBVIOUS
  <2>1. 1 \in DOMAIN asks /\ asks[1] \in Turns
    BY <1>6
  <2>2. pc = StepOf(asks[1]) /\ 1 = Len(asks) /\ \A j \in DOMAIN inbox : inbox[j].what \notin Turns
    BY <1>1, <2>1 DEF InTurn
  <2> QED BY <1>6, <2>2
<1>8. \A j \in DOMAIN inbox : inbox[j].what \notin Turns
  BY <1>1 DEF InTurn
<1>9. /\ Len(inbox) \in Nat /\ DOMAIN inbox = 1..Len(inbox) /\ inbox' \in Seq(Messages)
      /\ \A i \in DOMAIN inbox : i \in DOMAIN inbox' /\ inbox'[i] = inbox[i]
      /\ \A i \in DOMAIN inbox' : i \in DOMAIN inbox \/ (i = Len(inbox) + 1 /\ inbox'[i] = m)
      /\ Len(inbox) + 1 \in DOMAIN inbox' /\ inbox'[Len(inbox) + 1] = m
      /\ \A i \in 1..Len(inbox) + 1 : SeesLoading(i)' <=> SeesLoading(i)
      /\ Told' <=> Told
      /\ DOMAIN inbox' = 1..Len(inbox) + 1 /\ Len(inbox') = Len(inbox) + 1
  <2>1. inbox \in Seq(Messages)
    BY <1>1 DEF TypeOK
  <2> QED BY <1>1, <1>4, <1>5, <2>1, SeesMore, Appended
<1>10. TypeOK' /\ GotoArrives'
  <2>1. pc' \in {"asking", "updating", "checking", "reading"} =>
          \/ \E i \in DOMAIN asks' : asks'[i] \in Turns
          \/ \E i \in DOMAIN inbox' : inbox'[i].what \in Turns
    <3> SUFFICES ASSUME pc \in {"asking", "updating", "checking", "reading"}
                 PROVE  \/ \E i \in DOMAIN asks' : asks'[i] \in Turns
                        \/ \E i \in DOMAIN inbox' : inbox'[i].what \in Turns
      BY <1>5
    <3>1. PICK i \in DOMAIN asks : asks[i] \in Turns
      BY <1>1, <1>8 DEF TypeOK
    <3>2. CASE i = 1
      BY <1>3, <1>6, <1>9, <3>1, <3>2
    <3>3. CASE i # 1
      <4>1. i - 1 \in DOMAIN asks' /\ asks'[i - 1] = asks[i]
        BY <1>6, <3>1, <3>3
      <4> QED BY <3>1, <4>1
    <3> QED BY <3>2, <3>3
  <2>2. TypeOK'
    BY <1>1, <1>5, <1>6, <1>9, <2>1 DEF TypeOK
  <2> QED BY <1>1, <1>5, <2>2 DEF GotoArrives, Watched, TypeOK
<1>11. InTurn'
  <2>1. ASSUME NEW i \in DOMAIN asks', asks'[i] \in Turns
        PROVE  /\ pc' = StepOf(asks'[i]) /\ i = Len(asks')
               /\ \A j \in DOMAIN inbox' : inbox'[j].what \notin Turns
    <3>1. i + 1 \in DOMAIN asks /\ asks[i + 1] = asks'[i] /\ Len(asks) # 1
      BY <1>6, <2>1
    <3>2. pc = StepOf(asks[i + 1]) /\ i + 1 = Len(asks)
      BY <1>1, <2>1, <3>1 DEF InTurn
    <3>3. q \notin Turns
      BY <1>7, <3>1
    <3> QED BY <1>3, <1>5, <1>6, <1>8, <1>9, <2>1, <3>1, <3>2, <3>3
  <2>2. ASSUME NEW i \in DOMAIN inbox', inbox'[i].what \in Turns
        PROVE  /\ pc' = StepOf(inbox'[i].what) /\ asks' = <<>>
               /\ \A j \in DOMAIN inbox' : j > i => inbox'[j].what = "event"
    <3>1. i = Len(inbox) + 1 /\ inbox'[i].what = q
      BY <1>3, <1>8, <1>9, <2>2
    <3> QED BY <1>5, <1>7, <1>9, <2>2, <3>1
  <2> QED BY <2>1, <2>2 DEF InTurn
<1>12. NotBegun' /\ OursIsTold'
  <2>1. pc \in {"asking", "updating"} => \A i \in DOMAIN asks' : asks'[i] \in Turns
    BY <1>1, <1>6 DEF NotBegun
  <2> QED BY <1>1, <1>5, <1>9, <2>1 DEF NotBegun, OursIsTold
<1>13. NewsComes'
  <2> SUFFICES ASSUME pc = Waiting, ~tab.gone, Status(tab, nav) = "complete",
                      call.kind = "wait_for_load" \/ tab.doc = "ours"
               PROVE  \E i \in DOMAIN inbox' :
                        /\ inbox'[i].what = "event" \/ (inbox'[i].what \in Looks /\ inbox'[i].ok)
                        /\ inbox'[i].status = "complete"
                        /\ call.kind = "wait_for_load" \/ SeesLoading(i)'
    BY <1>1, <1>5 DEF NewsComes
  <2>1. q \in Looks
    BY <1>2, <1>7, StepNames DEF Turns, Waiting
  <2>2. call.kind = "wait_for_load" \/ SeesLoading(Len(inbox) + 1)
    BY <1>1 DEF OursIsTold, Told
  <2>3. PICK k \in DOMAIN inbox' : k = Len(inbox) + 1
    BY <1>9
  <2>4. SeesLoading(k)' <=> SeesLoading(Len(inbox) + 1)
    BY <1>9, <2>3
  <2> QED BY <1>3, <1>9, <2>1, <2>2, <2>3, <2>4
<1>14. ArrivesAlone'
  <2> SUFFICES ASSUME Alone PROVE ArrivesAlone'
    BY <1>1, <1>5 DEF ArrivesAlone, Alone
  <2>1. ASSUME tab.doc # "ours" PROVE Untouched'
    <3>1. Untouched /\ (nav # NoNav => UnderWay)
      BY <1>1, <2>1 DEF ArrivesAlone
    <3>2. pc = "asking" => \A i \in DOMAIN inbox' : inbox'[i].what = "pre" => i = Len(inbox')
      BY <1>8, <1>9 DEF Turns
    <3>3. q = "check" => nav = NoNav /\ Status(tab, nav) = "complete"
      BY <1>7, <3>1, StepNames, StatusIs DEF Turns, UnderWay, Untouched, Waiting, NoNav
    <3>4. ASSUME NEW i \in DOMAIN inbox'
          PROVE  /\ inbox'[i].what = "event" => pc' = "asking" \/ inbox'[i].url = None
                 /\ inbox'[i].what = "update" /\ inbox'[i].ok => pre' # None
                 /\ inbox'[i].what \in {"pre", "check"} \cup Looks =>
                      IF inbox'[i].ok THEN inbox'[i].url = tab'.url ELSE tab'.gone
                 /\ inbox'[i].what = "check" /\ inbox'[i].ok => inbox'[i].status = "complete"
      <4>1. CASE i \in DOMAIN inbox /\ inbox'[i] = inbox[i]
        BY <1>1, <1>5, <3>1, <4>1 DEF Untouched
      <4>2. CASE inbox'[i] = m
        BY <1>1, <1>3, <1>4, <3>3, <4>2
      <4> QED BY <1>9, <4>1, <4>2
    <3> QED BY <1>1, <1>5, <3>1, <3>2, <3>4 DEF Untouched
  <2>2. ASSUME tab.doc # "ours", nav # NoNav PROVE UnderWay'
    <3>1. UnderWay /\ ~tab.loading
      BY <1>1, <2>2 DEF ArrivesAlone, Untouched
    <3>2. Status(tab, nav) = "loading" <=> Told
      BY <1>1, <2>2, <3>1, StatusIs DEF UnderWay, TypeOK, Navigations
    <3>3. ASSUME NEW i \in DOMAIN inbox', inbox'[i].what \in Looks /\ inbox'[i].ok
          PROVE  inbox'[i].status = "loading" <=> SeesLoading(i)'
      <4>1. CASE i \in DOMAIN inbox /\ inbox'[i] = inbox[i]
        <5>1. SeesLoading(i)' <=> SeesLoading(i)
          BY <1>9, <4>1
        <5> QED BY <3>1, <3>3, <4>1, <5>1 DEF UnderWay
      <4>2. CASE i = Len(inbox) + 1 /\ inbox'[i] = m
        <5>1. SeesLoading(i)' <=> Told
          BY <1>9, <4>2 DEF Told
        <5> QED BY <1>3, <3>2, <4>2, <5>1
      <4> QED BY <1>9, <4>1, <4>2
    <3> QED BY <1>1, <1>5, <1>9, <3>1, <3>3 DEF UnderWay
  <2>3. ASSUME NEW i \in DOMAIN asks' PROVE asks'[i] # "update"
    <3> SUFFICES ASSUME asks'[i] = "update" PROVE FALSE
      OBVIOUS
    <3>1. i + 1 \in DOMAIN asks /\ asks[i + 1] = "update" /\ 1 \in DOMAIN asks /\ Len(asks) # 1
      BY <1>6
    <3>2. pc = "updating"
      BY <1>1, <3>1, StepNames DEF InTurn, Turns
    <3> QED BY <1>1, <1>6, <1>7, <3>1, <3>2 DEF NotBegun
  <2>4. ASSUME NEW i \in DOMAIN inbox', inbox'[i].what = "fresh" /\ inbox'[i].ok
        PROVE  inbox'[i].doc = "ours" \/ call.url = pre
    <3>1. CASE i \in DOMAIN inbox /\ inbox'[i] = inbox[i]
      BY <1>1, <2>4, <3>1 DEF ArrivesAlone
    <3>2. CASE inbox'[i] = m
      <4>1. pc = "reading" /\ ~tab.gone /\ m.doc = tab.doc
        BY <1>3, <1>7, <2>4, <3>2, StepNames DEF Turns
      <4> QED BY <1>1, <3>2, <4>1 DEF ArrivesAlone, Untouched
    <3> QED BY <1>9, <3>1, <3>2
  <2> QED BY <1>1, <1>5, <2>1, <2>2, <2>3, <2>4 DEF ArrivesAlone
<1> QED BY <1>10, <1>11, <1>12, <1>13, <1>14 DEF LoadInv

\* Chrome answers tabs.update.
LEMMA AnswerUpdateKeeps ==
  ASSUME LoadInv, Answer, Head(asks) = "update"
  PROVE  LoadInv'
<1> DEFINE u   == [what |-> "update", ok |-> ~tab.gone]
           e   == Updated(Status(tab, nav'), None)
           mid == inbox \o Changed(tab, nav')
<1>1. /\ TypeOK /\ InTurn /\ NotBegun /\ OursIsTold /\ NewsComes /\ ArrivesAlone
      /\ Watched /\ asks # <<>> /\ asks' = Tail(asks) /\ AnswerUpdate
      /\ UNCHANGED <<tab, moves, callVars, others>>
  BY DEF LoadInv, Answer
<1>2. UNCHANGED <<pc, call, pre, saw, grace, result>>
  BY <1>1 DEF callVars
<1>3. /\ asks[1] = "update" /\ asks' = <<>> /\ pc = "updating" /\ call.kind = "goto"
      /\ \A j \in DOMAIN inbox : inbox[j].what \notin Turns
      /\ 1 \in DOMAIN asks
  <2>1. asks \in Seq(Turns \cup Looks) /\ "update" \in Turns
    BY <1>1 DEF TypeOK, Turns
  <2>2. asks[1] = "update" /\ 1 \in DOMAIN asks /\ (Len(asks) = 1 => asks' = <<>>)
    BY <1>1, <2>1, Taken
  <2>3. pc = "updating" /\ 1 = Len(asks) /\ \A j \in DOMAIN inbox : inbox[j].what \notin Turns
    BY <1>1, <2>1, <2>2, StepNames DEF InTurn
  <2> QED BY <1>1, <2>2, <2>3 DEF NotBegun
<1>4. /\ nav' \in Navigations
      /\ tab.gone => nav' = nav
      /\ ~tab.gone => nav'.ours /\ nav'.stage \in {"asked", "started"}
      /\ inbox' = Append(mid, u)
  <2>1. /\ tab.gone => nav' = nav
        /\ ~tab.gone => \E s \in {"asked", "started"} : nav' = [stage |-> s, ours |-> TRUE]
        /\ inbox' = Append(mid, u)
    BY <1>1 DEF AnswerUpdate
  <2>2. nav \in Navigations
    BY <1>1, <1>3 DEF TypeOK
  <2>3. tab.gone => nav' \in Navigations
    BY <2>1, <2>2
  <2>4. ASSUME ~tab.gone PROVE nav'.ours /\ nav'.stage \in {"asked", "started"} /\ nav' \in Navigations
    <3>1. PICK s \in {"asked", "started"} : nav' = [stage |-> s, ours |-> TRUE]
      BY <2>1, <2>4
    <3> QED BY <2>2, <3>1 DEF Navigations
  <2> QED BY <2>1, <2>3, <2>4
<1>5. /\ u \in Messages /\ u.what = "update" /\ (u.ok <=> ~tab.gone)
      /\ e \in Messages /\ e.what = "event" /\ e.url = None /\ e.status = Status(tab, nav')
      /\ inbox \in Seq(Messages)
      /\ \/ Status(tab, nav') = Status(tab, nav) /\ mid = inbox
         \/ Status(tab, nav') # Status(tab, nav) /\ mid = Append(inbox, e)
  <2>1. u \in Updates /\ tab \in Documents /\ inbox \in Seq(Messages)
    BY <1>1 DEF Updates, TypeOK, Documents
  <2>2. u \in Messages /\ u.what = "update" /\ (u.ok <=> ~tab.gone)
    BY <2>1 DEF Messages
  <2>3. e \in Messages /\ e.what = "event" /\ e.url = None /\ e.status = Status(tab, nav')
    BY UpdatedIs, StatusIs DEF Messages
  <2>4. \/ Status(tab, nav') = Status(tab, nav) /\ mid = inbox
        \/ Status(tab, nav') # Status(tab, nav) /\ mid = Append(inbox, e)
    BY <1>1, ChangedIs
  <2> QED BY <2>1, <2>2, <2>3, <2>4
<1> HIDE DEF u, e, mid
<1>6. /\ inbox' \in Seq(Messages) /\ Len(inbox') \in Nat /\ DOMAIN inbox' = 1..Len(inbox')
      /\ Len(inbox') \in DOMAIN inbox' /\ inbox'[Len(inbox')] = u
      /\ \A i \in DOMAIN inbox : i \in DOMAIN inbox' /\ i < Len(inbox') /\ inbox'[i] = inbox[i]
      /\ \A i \in DOMAIN inbox' : \/ i = Len(inbox')
                                  \/ i \in DOMAIN inbox /\ inbox'[i] = inbox[i]
                                  \/ inbox'[i] = e
      /\ mid = Append(inbox, e) => \E k \in DOMAIN inbox' : k < Len(inbox') /\ inbox'[k] = e
  <2>1. CASE mid = inbox
    <3>1. inbox # Append(inbox, e)
      BY <1>5, Appended
    <3>2. /\ inbox' = Append(inbox, u) /\ inbox' \in Seq(Messages) /\ Len(inbox) \in Nat
          /\ DOMAIN inbox = 1..Len(inbox) /\ Len(inbox') = Len(inbox) + 1
          /\ DOMAIN inbox' = 1..Len(inbox) + 1 /\ inbox'[Len(inbox) + 1] = u
          /\ \A i \in 1..Len(inbox) : inbox'[i] = inbox[i]
      BY <1>4, <1>5, <2>1, Appended
    <3>3. /\ \A i \in DOMAIN inbox : i \in DOMAIN inbox' /\ i < Len(inbox') /\ inbox'[i] = inbox[i]
          /\ \A i \in DOMAIN inbox' : i = Len(inbox') \/ (i \in DOMAIN inbox /\ inbox'[i] = inbox[i])
          /\ Len(inbox') \in DOMAIN inbox' /\ inbox'[Len(inbox')] = u
      BY <3>2
    <3>4. mid # Append(inbox, e)
      BY <2>1, <3>1
    <3> QED BY <3>2, <3>3, <3>4
  <2>2. CASE mid = Append(inbox, e)
    <3>1. inbox # Append(inbox, e)
      BY <1>5, Appended
    <3>2. mid \in Seq(Messages) /\ Len(mid) = Len(inbox) + 1 /\ DOMAIN mid = 1..Len(inbox) + 1
      BY <1>5, <2>2, Appended
    <3>3. /\ Len(inbox') = Len(inbox) + 2 /\ DOMAIN inbox' = 1..Len(inbox) + 2 /\ inbox' \in Seq(Messages)
          /\ inbox'[Len(inbox) + 2] = u
          /\ \A i \in 1..Len(inbox) + 1 : inbox'[i] = mid[i]
      BY <1>4, <1>5, <3>2, Appended
    <3>4. /\ Len(inbox) \in Nat /\ DOMAIN inbox = 1..Len(inbox)
          /\ \A i \in 1..Len(inbox) : mid[i] = inbox[i]
          /\ mid[Len(inbox) + 1] = e
      BY <1>5, <2>2, Appended
    <3>5. /\ \A i \in DOMAIN inbox : i \in DOMAIN inbox' /\ i < Len(inbox') /\ inbox'[i] = inbox[i]
          /\ \E k \in DOMAIN inbox' : k < Len(inbox') /\ inbox'[k] = e
          /\ Len(inbox') \in DOMAIN inbox' /\ inbox'[Len(inbox')] = u
      BY <3>3, <3>4
    <3>6. \A i \in DOMAIN inbox' : \/ i = Len(inbox')
                                   \/ i \in DOMAIN inbox /\ inbox'[i] = inbox[i]
                                   \/ inbox'[i] = e
      BY <3>3, <3>4
    <3> QED BY <3>3, <3>4, <3>5, <3>6
  <2> QED BY <1>5, <2>1, <2>2
<1>7. TypeOK' /\ GotoArrives' /\ InTurn' /\ NotBegun'
  <2>1. asks' \in Seq(Turns \cup Looks) /\ "update" \in Turns /\ "event" \notin Turns /\ DOMAIN asks' = {}
    BY <1>3 DEF Turns
  <2>2. TypeOK'
    BY <1>1, <1>2, <1>4, <1>5, <1>6, <2>1 DEF TypeOK
  <2>3. \A i \in DOMAIN inbox' : inbox'[i].what \in Turns => i = Len(inbox') /\ inbox'[i].what = "update"
    BY <1>3, <1>5, <1>6, <2>1
  <2>4. InTurn'
    BY <1>2, <1>3, <1>6, <2>1, <2>3, StepNames DEF InTurn
  <2>5. GotoArrives'
    BY <1>1, <1>2 DEF GotoArrives, Watched, TypeOK
  <2>6. NotBegun'
    BY <1>2, <1>3, <2>1 DEF NotBegun
  <2> QED BY <2>2, <2>4, <2>5, <2>6
<1>8. Told => Told'
  BY <1>2, <1>5, <1>6, Appended DEF Told, SeesLoading, LoadsBefore
<1>9. OursIsTold' /\ NewsComes'
  BY <1>1, <1>2, <1>3, <1>8 DEF OursIsTold, NewsComes, Waiting
<1>10. ArrivesAlone'
  <2> SUFFICES ASSUME Alone PROVE ArrivesAlone'
    BY <1>1, <1>2 DEF ArrivesAlone, Alone
  <2>1. nav = NoNav /\ inbox = <<>> /\ ~saw /\ tab.doc # "ours" /\ Untouched /\ ~tab.loading
    BY <1>1, <1>3 DEF ArrivesAlone, Untouched
  <2>2. \A i \in DOMAIN inbox' : inbox'[i] = u \/ inbox'[i] = e
    BY <1>6, <2>1
  <2>3. Untouched'
    <3>1. pre = tab.url \/ (pre = None /\ tab.gone)
      BY <1>3, <2>1 DEF Untouched
    <3>2. ~tab.gone => pre # None
      BY <1>1, <3>1, LoadAssumption DEF TypeOK, Documents
    <3>3. nav' = NoNav \/ nav'.ours
      BY <1>4, <2>1
    <3> QED BY <1>1, <1>2, <1>3, <1>5, <2>1, <2>2, <3>1, <3>2, <3>3 DEF Untouched, Looks
  <2>4. nav' # NoNav => UnderWay'
    <3> SUFFICES ASSUME nav' # NoNav PROVE UnderWay'
      OBVIOUS
    <3>1. Status(tab, nav) = "complete" /\ ~tab.gone
      BY <1>4, <2>1, StatusIs DEF NoNav
    <3>2. CASE nav'.stage = "asked"
      <4>1. mid = inbox
        BY <1>5, <2>1, <3>1, <3>2, StatusIs
      <4>2. ~Told'
        <5>1. inbox' = Append(inbox, u) /\ ~IsLoading(u)
          BY <1>4, <1>5, <4>1 DEF IsLoading
        <5> QED BY <1>1, <1>2, <1>5, <2>1, <5>1, SeesMore, LoadsNone DEF OneMore, Told, SeesLoading
      <4> QED BY <1>2, <1>3, <1>5, <2>2, <3>2, <4>2 DEF UnderWay, Looks
    <3>3. CASE nav'.stage = "started"
      <4>1. mid = Append(inbox, e) /\ IsLoading(e)
        BY <1>5, <3>1, <3>3, StatusIs DEF IsLoading
      <4>2. Told'
        BY <1>6, <4>1 DEF Told, SeesLoading, LoadsBefore
      <4> QED BY <1>2, <1>3, <1>5, <2>2, <3>3, <4>2 DEF UnderWay, Looks
    <3> QED BY <1>4, <3>1, <3>2, <3>3
  <2> QED BY <1>1, <1>2, <1>3, <1>5, <2>1, <2>2, <2>3, <2>4 DEF ArrivesAlone
<1> QED BY <1>7, <1>9, <1>10 DEF LoadInv

(***************************************************************************)
(* The tool is called.                                                     *)
(***************************************************************************)

\* goto asks for the address first.
LEMMA CallGotoKeeps ==
  ASSUME LoadInv, NEW url \in Urls \ Internal, CallGoto(url)
  PROVE  LoadInv'
<1>1. /\ TypeOK /\ InTurn /\ NotBegun
      /\ pc = "idle" /\ pc' = "asking" /\ call' = [kind |-> "goto", url |-> url]
      /\ others' = (nav # NoNav \/ tab.loading)
      /\ UNCHANGED <<tab, nav, moves, inbox, pre, saw, grace, result>>
  BY DEF LoadInv, CallGoto, chromeVars
<1>2. /\ asks = <<>> /\ \A i \in DOMAIN inbox : inbox[i].what = "event"
      /\ pre = None /\ ~saw /\ tab.doc # "ours" /\ ~nav.ours /\ ~grace
  BY <1>1 DEF NotBegun, TypeOK, Waiting
<1>3. asks' = <<"pre">>
  BY <1>2 DEF CallGoto, Ask
<1>4. DOMAIN asks' = {1} /\ asks'[1] = "pre" /\ asks' \in Seq(Turns \cup Looks) /\ Len(asks') = 1
  BY <1>3 DEF Turns
<1>5. "pre" \in Turns /\ "event" \notin Turns
  BY DEF Turns
<1>6. call'.kind = "goto" /\ call' \in [kind : {"goto"}, url : Urls \ Internal] /\ pc' \in Steps
  BY <1>1 DEF Steps
<1>7. TypeOK'
  BY <1>1, <1>2, <1>4, <1>5, <1>6 DEF TypeOK
<1>8. GotoArrives'
  BY <1>1 DEF GotoArrives, TypeOK
<1>9. InTurn'
  BY <1>1, <1>2, <1>4, <1>5, StepNames DEF InTurn
<1>10. NotBegun' /\ OursIsTold' /\ NewsComes'
  BY <1>1, <1>2, <1>4, <1>5, <1>6 DEF NotBegun, OursIsTold, NewsComes, Waiting
<1>11. ArrivesAlone'
  <2> SUFFICES ASSUME Alone' PROVE ArrivesAlone'
    BY DEF ArrivesAlone
  <2>1. nav = NoNav /\ ~tab.loading
    BY <1>1 DEF Alone
  <2>2. Untouched'
    BY <1>1, <1>2, <2>1 DEF Untouched, Looks
  <2> QED BY <1>1, <1>2, <1>4, <2>1, <2>2 DEF ArrivesAlone
<1> QED BY <1>7, <1>8, <1>9, <1>10, <1>11 DEF LoadInv

\* wait_for_load looks at the tab.
LEMMA CallWaitKeeps ==
  ASSUME LoadInv, CallWait
  PROVE  LoadInv'
<1>1. /\ TypeOK /\ InTurn /\ NotBegun
      /\ pc = "idle" /\ pc' = Waiting /\ call' = [kind |-> "wait_for_load"]
      /\ UNCHANGED <<tab, nav, moves, inbox, pre, saw, grace, result, others>>
  BY DEF LoadInv, CallWait, chromeVars
<1>2. /\ asks = <<>> /\ \A i \in DOMAIN inbox : inbox[i].what = "event"
      /\ pre = None /\ tab.doc # "ours"
  BY <1>1 DEF NotBegun
<1>3. asks' = <<"initial">>
  BY <1>2 DEF CallWait, Ask
<1>4. DOMAIN asks' = {1} /\ asks'[1] = "initial" /\ asks' \in Seq(Turns \cup Looks) /\ asks' # <<>>
  BY <1>3 DEF Looks
<1>5. "initial" \notin Turns /\ "event" \notin Turns
  BY DEF Turns
<1>6. call'.kind = "wait_for_load" /\ call' \in [kind : {"wait_for_load"}] /\ pc' \in Steps
  BY <1>1 DEF Steps
<1>7. TypeOK'
  BY <1>1, <1>4, <1>6 DEF TypeOK, Waiting
<1>8. GotoArrives'
  BY <1>6 DEF GotoArrives
<1>9. InTurn'
  BY <1>1, <1>2, <1>4, <1>5 DEF InTurn
<1>10. NotBegun' /\ OursIsTold' /\ NewsComes'
  BY <1>1, <1>2, <1>4 DEF NotBegun, OursIsTold, NewsComes, Waiting
<1>11. ArrivesAlone'
  BY <1>6 DEF ArrivesAlone, Alone
<1> QED BY <1>7, <1>8, <1>9, <1>10, <1>11 DEF LoadInv

(***************************************************************************)
(* The tool ends, or its wait does.                                        *)
(***************************************************************************)

\* A tool ends with nothing under way that it asked for in turn.
LEMMA EndKeeps ==
  ASSUME LoadInv, pc # "idle", UNCHANGED <<chromeVars, asks, call, pre, others>>,
         NEW r \in Outcomes, End(r),
         inbox' \in Seq(Messages), saw' \in BOOLEAN, grace' = FALSE,
         \A i \in DOMAIN asks : asks[i] \notin Turns,
         \A i \in DOMAIN inbox' : inbox'[i].what \notin Turns,
         r.ok => call.kind = "wait_for_load" \/ others \/ r.doc = "ours" \/ call.url = pre
  PROVE  LoadInv'
<1>1. TypeOK /\ UNCHANGED <<tab, nav, moves, asks, call, pre, others>> /\ pc' = "done" /\ result' = r
  BY DEF LoadInv, End, chromeVars
<1>2. r # None
  <2>1. r \in [ok : BOOLEAN, doc : {"before", "ours", "other", None}]
    BY DEF Outcomes, Docs
  <2> QED BY <2>1, LoadAssumption
<1>3. TypeOK'
  BY <1>1, <1>2 DEF TypeOK, Steps, Waiting
<1>4. GotoArrives'
  BY <1>1 DEF GotoArrives
<1>5. InTurn'
  BY <1>1 DEF InTurn
<1>6. NotBegun' /\ OursIsTold' /\ NewsComes' /\ ArrivesAlone'
  BY <1>1 DEF NotBegun, OursIsTold, NewsComes, ArrivesAlone, Alone, Waiting
<1> QED BY <1>3, <1>4, <1>5, <1>6 DEF LoadInv

\* A failure is a result, and no success.
LEMMA FailedIs == Failed \in Outcomes /\ ~Failed.ok
BY DEF Failed, Outcomes

\* While the tool waits for something else, nothing it asked for in turn is under way.
LEMMA NoTurnUnderWay ==
  ASSUME TypeOK, InTurn, pc \in {Waiting, "quieting", "pinging"}
  PROVE  /\ \A i \in DOMAIN asks : asks[i] \notin Turns
         /\ \A i \in DOMAIN inbox : inbox[i].what \notin Turns
BY StepNames DEF InTurn, Turns, Waiting

\* A wait is over: for a goto that nothing disturbs, the tab shows what it loaded, or
\* the navigation was refused.
LEMMA LoadedKeeps ==
  ASSUME LoadInv, pc = Waiting, Loaded, UNCHANGED <<chromeVars, call, pre, others>>,
         saw' \in BOOLEAN, inbox' \in Seq(Messages),
         \A i \in DOMAIN inbox' : \E j \in DOMAIN inbox : inbox'[i] = inbox[j],
         Alone /\ tab.doc # "ours" => nav = NoNav
  PROVE  LoadInv'
<1>1. /\ TypeOK /\ InTurn /\ NotBegun /\ ArrivesAlone
      /\ UNCHANGED <<tab, nav, moves, call, pre, others, result>> /\ grace' = FALSE
  BY DEF LoadInv, chromeVars, Loaded
<1>2. /\ \A i \in DOMAIN asks : asks[i] \notin Turns
      /\ \A i \in DOMAIN inbox' : inbox'[i].what \notin Turns
      /\ "update" \in Turns /\ "fresh" \in Turns /\ "check" \in Turns /\ "pre" \in Turns
      /\ asks \in Seq(Turns \cup Looks)
  BY <1>1, NoTurnUnderWay DEF Turns, TypeOK
<1>3. \/ call.kind = "wait_for_load" /\ pc' = "pinging" /\ asks' = asks
      \/ call.kind = "goto" /\ pc' = "checking" /\ asks' = Append(asks, "check")
  BY <1>1 DEF Loaded, Ask, TypeOK, Waiting
<1>4. /\ asks' \in Seq(Turns \cup Looks) /\ Len(asks) \in Nat
      /\ pc' = "checking" => /\ Len(asks') = Len(asks) + 1 /\ Len(asks) + 1 \in DOMAIN asks'
                             /\ asks'[Len(asks) + 1] = "check"
      /\ \A i \in DOMAIN asks' : asks'[i] \in Turns => i = Len(asks') /\ asks'[i] = "check" /\ pc' = "checking"
  <2>1. CASE pc' = "pinging" /\ asks' = asks
    BY <1>2, <2>1
  <2>2. CASE pc' = "checking" /\ asks' = Append(asks, "check")
    <3>1. "check" \in Turns \cup Looks
      BY <1>2
    <3>2. /\ asks' \in Seq(Turns \cup Looks) /\ Len(asks) \in Nat /\ DOMAIN asks = 1..Len(asks)
          /\ Len(asks') = Len(asks) + 1 /\ DOMAIN asks' = 1..Len(asks) + 1
          /\ \A i \in 1..Len(asks) : asks'[i] = asks[i]
          /\ asks'[Len(asks) + 1] = "check"
      BY <1>2, <2>2, <3>1, Appended
    <3>3. \A i \in DOMAIN asks' : asks'[i] \in Turns => i = Len(asks') /\ asks'[i] = "check"
      BY <1>2, <3>2
    <3> QED BY <2>2, <3>2, <3>3
  <2> QED BY <1>3, <2>1, <2>2
<1>5. TypeOK'
  BY <1>1, <1>2, <1>3, <1>4 DEF TypeOK, Steps, Waiting
<1>6. GotoArrives'
  BY <1>1 DEF GotoArrives, TypeOK, Waiting
<1>7. InTurn'
  BY <1>2, <1>4, StepNames DEF InTurn
<1>8. NotBegun' /\ OursIsTold' /\ NewsComes'
  BY <1>1, <1>3 DEF NotBegun, OursIsTold, NewsComes, Waiting
<1>9. ArrivesAlone'
  <2> SUFFICES ASSUME Alone' PROVE ArrivesAlone'
    BY DEF ArrivesAlone
  <2>1. Alone /\ pc' = "checking"
    BY <1>1, <1>3 DEF Alone, Waiting
  <2>2. tab.doc # "ours" => Untouched'
    <3> SUFFICES ASSUME tab.doc # "ours" PROVE Untouched'
      OBVIOUS
    <3>1. Untouched
      BY <1>1, <2>1 DEF ArrivesAlone
    <3> QED BY <1>1, <1>2, <2>1, <3>1 DEF Untouched, Waiting, Looks
  <2>3. \A i \in DOMAIN asks' : asks'[i] # "update"
    BY <1>2, <1>4
  <2> QED BY <1>1, <1>2, <2>1, <2>2, <2>3 DEF ArrivesAlone
<1> QED BY <1>5, <1>6, <1>7, <1>8, <1>9 DEF LoadInv

\* The timers, and the ping.
LEMMA TimersKeep ==
  ASSUME LoadInv, GraceFires \/ Deadline \/ Quiet \/ PingAnswered \/ PingFails
  PROVE  LoadInv'
<1>1. /\ TypeOK /\ InTurn /\ NotBegun /\ ArrivesAlone
      /\ inbox \in Seq(Messages) /\ saw \in BOOLEAN
      /\ pc \in {Waiting, "quieting", "pinging"} /\ pc # "idle"
      /\ UNCHANGED <<chromeVars, inbox, call, pre, saw, others>>
      /\ Failed \in Outcomes /\ ~Failed.ok
  BY FailedIs DEF LoadInv, TypeOK, GraceFires, Deadline, Quiet, PingAnswered, PingFails, Waiting
<1>2. /\ \A i \in DOMAIN asks : asks[i] \notin Turns
      /\ \A i \in DOMAIN inbox : inbox[i].what \notin Turns
  BY <1>1, NoTurnUnderWay
<1>3. CASE GraceFires
  <2>1. pc = Waiting /\ grace /\ Loaded
    BY <1>3 DEF GraceFires
  <2>2. Alone => tab.doc = "ours"
    BY <1>1, <2>1 DEF ArrivesAlone, Untouched
  <2> QED BY <1>1, <2>1, <2>2, LoadedKeeps
<1>4. ASSUME End(Failed), UNCHANGED asks, grace' = FALSE PROVE LoadInv'
  BY <1>1, <1>2, <1>4, EndKeeps
<1>5. CASE Deadline
  BY <1>4, <1>5 DEF Deadline
<1>6. pc # Waiting => ~grace
  BY <1>1 DEF TypeOK
<1>7. CASE PingFails
  BY <1>1, <1>4, <1>6, <1>7 DEF PingFails, TypeOK, Waiting
<1>8. CASE Quiet
  <2>1. CASE End(Failed)
    BY <1>1, <1>4, <1>6, <1>8, <2>1 DEF Quiet, TypeOK, Waiting
  <2>2. CASE pc' = "pinging" /\ UNCHANGED result
    <3>1. pc = "quieting" /\ UNCHANGED <<tab, nav, moves, asks, inbox, call, pre, saw, grace, others, result>>
      BY <1>8, <2>2 DEF Quiet, chromeVars
    <3>2. TypeOK' /\ GotoArrives'
      BY <1>1, <2>2, <3>1 DEF TypeOK, GotoArrives, Steps, Waiting
    <3>3. InTurn' /\ NotBegun' /\ OursIsTold' /\ NewsComes'
      BY <1>1, <1>2, <2>2, <3>1 DEF InTurn, NotBegun, OursIsTold, NewsComes, Waiting
    <3>4. ArrivesAlone'
      <4> SUFFICES ASSUME Alone' PROVE ArrivesAlone'
        BY DEF ArrivesAlone
      <4>1. Alone /\ (tab.doc # "ours" => Untouched /\ nav = NoNav)
        BY <1>1, <2>2, <3>1 DEF Alone, ArrivesAlone, UnderWay, Waiting
      <4>2. tab.doc # "ours" => Untouched'
        BY <2>2, <3>1, <4>1 DEF Untouched
      <4> QED BY <1>1, <2>2, <3>1, <4>1, <4>2 DEF ArrivesAlone
    <3> QED BY <3>2, <3>3, <3>4 DEF LoadInv
  <2> QED BY <1>8, <2>1, <2>2 DEF Quiet
<1>9. CASE PingAnswered
  <2>1. pc = "pinging" /\ UNCHANGED grace /\ ~grace /\ grace' = FALSE
    BY <1>1, <1>6, <1>9 DEF PingAnswered, TypeOK, Waiting
  <2>2. CASE call.kind = "wait_for_load"
    <3>1. End(Succeeded(None)) /\ UNCHANGED asks /\ Succeeded(None) \in Outcomes
      BY <1>9, <2>2 DEF PingAnswered, Succeeded, Outcomes
    <3> QED BY <1>1, <1>2, <2>1, <2>2, <3>1, EndKeeps
  <2>3. CASE call.kind # "wait_for_load"
    <3>1. /\ pc' = "reading" /\ asks' = Append(asks, "fresh")
          /\ UNCHANGED <<tab, nav, moves, inbox, call, pre, saw, grace, others, result>>
          /\ call.kind = "goto"
      BY <1>1, <1>9, <2>1, <2>3 DEF PingAnswered, Ask, chromeVars, TypeOK
    <3>2. /\ asks' \in Seq(Turns \cup Looks) /\ Len(asks) \in Nat
          /\ Len(asks') = Len(asks) + 1 /\ Len(asks) + 1 \in DOMAIN asks'
          /\ asks'[Len(asks) + 1] = "fresh" /\ "fresh" \in Turns /\ "update" \in Turns
          /\ \A i \in DOMAIN asks' : asks'[i] \in Turns => i = Len(asks') /\ asks'[i] = "fresh"
      <4>1. "fresh" \in Turns /\ "update" \in Turns /\ asks \in Seq(Turns \cup Looks)
        BY <1>1 DEF Turns, TypeOK
      <4> QED BY <1>2, <3>1, <4>1, Appended
    <3>3. TypeOK' /\ GotoArrives'
      BY <1>1, <2>1, <3>1, <3>2 DEF TypeOK, GotoArrives, Steps, Waiting
    <3>4. InTurn' /\ NotBegun' /\ OursIsTold' /\ NewsComes'
      BY <1>1, <1>2, <2>1, <3>1, <3>2, StepNames DEF InTurn, NotBegun, OursIsTold, NewsComes, Waiting
    <3>5. ArrivesAlone'
      <4> SUFFICES ASSUME Alone' PROVE ArrivesAlone'
        BY DEF ArrivesAlone
      <4>1. Alone /\ (tab.doc # "ours" => Untouched /\ nav = NoNav)
        BY <1>1, <2>1, <3>1 DEF Alone, ArrivesAlone, UnderWay, Waiting
      <4>2. tab.doc # "ours" => Untouched'
        BY <2>1, <3>1, <4>1 DEF Untouched
      <4>3. \A i \in DOMAIN asks' : asks'[i] # "update"
        BY <3>2
      <4> QED BY <1>1, <3>1, <4>1, <4>2, <4>3 DEF ArrivesAlone
    <3> QED BY <3>3, <3>4, <3>5 DEF LoadInv
  <2> QED BY <2>2, <2>3
<1> QED BY <1>3, <1>5, <1>7, <1>8, <1>9

(***************************************************************************)
(* The panel reads.                                                        *)
(***************************************************************************)

\* The message that is read is the first; what the tool has seen when it reads the
\* others does not change.
LEMMA Reads ==
  ASSUME TypeOK, inbox # <<>>, inbox' = Tail(inbox)
  PROVE  /\ Head(inbox) = inbox[1] /\ inbox[1] \in Messages /\ inbox' \in Seq(Messages)
         /\ 1 \in DOMAIN inbox /\ Len(inbox) \in Nat /\ Len(inbox) >= 1 /\ Len(inbox') = Len(inbox) - 1
         /\ \A i \in DOMAIN inbox' : i + 1 \in DOMAIN inbox /\ inbox'[i] = inbox[i + 1]
                                     /\ i \in 1..Len(inbox) /\ i + 1 > 1 /\ i + 1 # 1
         /\ \A i \in DOMAIN inbox : i # 1 => i - 1 \in DOMAIN inbox' /\ inbox'[i - 1] = inbox[i]
                                             /\ i - 1 \in 1..Len(inbox) /\ i - 1 + 1 = i
         /\ \A i \in 1..Len(inbox) :
              /\ SeesLoading(i + 1) <=> saw \/ IsLoading(inbox[1]) \/ LoadsBefore(inbox', i)
              /\ SeesLoading(i)' <=> saw' \/ LoadsBefore(inbox', i)
         /\ Told <=> saw \/ IsLoading(inbox[1]) \/ LoadsBefore(inbox', Len(inbox))
         /\ Told' <=> saw' \/ LoadsBefore(inbox', Len(inbox))
         /\ SeesLoading(1) <=> saw
<1>1. inbox \in Seq(Messages)
  BY DEF TypeOK
<1>2. /\ Head(inbox) = inbox[1] /\ inbox[1] \in Messages /\ inbox' \in Seq(Messages)
      /\ Len(inbox) \in Nat /\ Len(inbox) >= 1 /\ DOMAIN inbox = 1..Len(inbox)
      /\ Len(inbox') = Len(inbox) - 1 /\ DOMAIN inbox' = 1..Len(inbox) - 1
      /\ \A i \in 1..Len(inbox) - 1 : inbox'[i] = inbox[i + 1]
  BY <1>1, Taken
<1>3. \A i \in DOMAIN inbox' : i + 1 \in DOMAIN inbox /\ inbox'[i] = inbox[i + 1]
                               /\ i \in 1..Len(inbox) /\ i + 1 > 1 /\ i + 1 # 1
  BY <1>2
<1>4. \A i \in DOMAIN inbox : i # 1 => i - 1 \in DOMAIN inbox' /\ inbox'[i - 1] = inbox[i]
                                       /\ i - 1 \in 1..Len(inbox) /\ i - 1 + 1 = i
  BY <1>2
<1>5. \A i \in 1..Len(inbox) :
        /\ SeesLoading(i + 1) <=> saw \/ IsLoading(inbox[1]) \/ LoadsBefore(inbox', i)
        /\ SeesLoading(i)' <=> saw' \/ LoadsBefore(inbox', i)
  BY <1>1, LoadsTaken DEF SeesLoading
<1>6. /\ Told <=> saw \/ IsLoading(inbox[1]) \/ LoadsBefore(inbox', Len(inbox))
      /\ Told' <=> saw' \/ LoadsBefore(inbox', Len(inbox))
  <2>1. Len(inbox) \in 1..Len(inbox) /\ Len(inbox') + 1 = Len(inbox)
    BY <1>2
  <2> QED BY <1>5, <2>1 DEF Told, SeesLoading
<1>7. SeesLoading(1) <=> saw
  BY <1>1, LoadsNone DEF SeesLoading
<1>8. 1 \in DOMAIN inbox
  BY <1>2
<1> QED BY <1>2, <1>3, <1>4, <1>5, <1>6, <1>7, <1>8

\* Behind an answer that was asked for in turn there are only events.
LEMMA TurnIsRead ==
  ASSUME TypeOK, InTurn, inbox # <<>>, inbox' = Tail(inbox), inbox[1].what \in Turns
  PROVE  /\ pc = StepOf(inbox[1].what) /\ asks = <<>>
         /\ \A i \in DOMAIN inbox' : inbox'[i].what = "event" /\ inbox'[i].what \notin Turns \cup Looks
         /\ \A i \in DOMAIN asks : asks[i] \notin Turns
<1>1. /\ pc = StepOf(inbox[1].what) /\ asks = <<>>
      /\ \A j \in DOMAIN inbox : j > 1 => inbox[j].what = "event"
  BY Reads DEF InTurn
<1>2. "event" \notin Turns \cup Looks
  BY DEF Turns, Looks
<1> QED BY <1>1, <1>2, Reads

\* The tool stays where it is, and asks for the tab again if the message says that it
\* has loaded.
LEMMA ReadKeeps ==
  ASSUME LoadInv, Watched, inbox # <<>>, inbox' = Tail(inbox),
         UNCHANGED <<chromeVars, others, pc, call, pre, result>>,
         inbox[1].what \notin Turns,
         saw' \in BOOLEAN, saw => saw',
         pc \in {"updating", Waiting} /\ IsLoading(inbox[1]) => saw',
         pc \in {"idle", "asking"} => ~saw',
         grace' \in BOOLEAN, grace' => pc = Waiting,
         Alone /\ tab.doc # "ours" => ~grace',
         Alone /\ tab.doc # "ours" /\ nav # NoNav => (saw' <=> saw \/ IsLoading(inbox[1])),
         asks' = asks \/ (pc = Waiting /\ asks' = Append(asks, "retry")),
         /\ asks' = asks /\ pc = Waiting /\ inbox[1].status = "complete"
         /\ inbox[1].what = "event" \/ (inbox[1].what \in Looks /\ inbox[1].ok)
         => call.kind # "wait_for_load" /\ ~saw
  PROVE  LoadInv'
<1>1. /\ TypeOK /\ InTurn /\ NotBegun /\ OursIsTold /\ NewsComes /\ ArrivesAlone
      /\ UNCHANGED <<tab, nav, moves, others, pc, call, pre, result>>
  BY DEF LoadInv, chromeVars
<1>2. asks \in Seq(Turns \cup Looks) /\ "retry" \in Looks /\ "retry" \notin Turns
  BY <1>1 DEF TypeOK, Turns, Looks
<1>3. /\ asks' \in Seq(Turns \cup Looks)
      /\ \A i \in DOMAIN asks : i \in DOMAIN asks' /\ asks'[i] = asks[i]
      /\ \A i \in DOMAIN asks' : (i \in DOMAIN asks /\ asks'[i] = asks[i]) \/ asks'[i] = "retry"
      /\ asks' = <<>> => asks = <<>>
  <2>1. CASE asks' = asks
    BY <1>2, <2>1
  <2>2. CASE asks' = Append(asks, "retry")
    BY <1>2, <2>2, Appended
  <2> QED BY <2>1, <2>2
<1>4. TypeOK'
  <2>1. pc' \in {"asking", "updating", "checking", "reading"} =>
          \/ \E i \in DOMAIN asks' : asks'[i] \in Turns
          \/ \E i \in DOMAIN inbox' : inbox'[i].what \in Turns
    <3> SUFFICES ASSUME pc \in {"asking", "updating", "checking", "reading"},
                        ~ \E i \in DOMAIN asks' : asks'[i] \in Turns
                 PROVE  \E i \in DOMAIN inbox' : inbox'[i].what \in Turns
      BY <1>1
    <3>1. PICK i \in DOMAIN inbox : inbox[i].what \in Turns
      BY <1>1, <1>3 DEF TypeOK
    <3>2. i - 1 \in DOMAIN inbox' /\ inbox'[i - 1] = inbox[i]
      BY <1>1, <3>1, Reads
    <3> QED BY <3>1, <3>2
  <2>2. inbox' \in Seq(Messages)
    BY <1>1, Reads
  <2> QED BY <1>1, <1>3, <2>1, <2>2 DEF TypeOK
<1>5. GotoArrives'
  BY <1>1 DEF GotoArrives, TypeOK, Watched
<1>6. InTurn'
  <2>1. CASE asks' = asks
    <3>1. \A i \in DOMAIN inbox' : inbox'[i].what \in Turns =>
            /\ pc' = StepOf(inbox'[i].what) /\ asks' = <<>>
            /\ \A j \in DOMAIN inbox' : j > i => inbox'[j].what = "event"
      <4> SUFFICES ASSUME NEW i \in DOMAIN inbox', inbox'[i].what \in Turns
                   PROVE  /\ pc' = StepOf(inbox'[i].what) /\ asks' = <<>>
                          /\ \A j \in DOMAIN inbox' : j > i => inbox'[j].what = "event"
        OBVIOUS
      <4>1. i + 1 \in DOMAIN inbox /\ inbox'[i] = inbox[i + 1]
        BY <1>1, Reads
      <4>2. /\ pc = StepOf(inbox[i + 1].what) /\ asks = <<>>
            /\ \A j \in DOMAIN inbox : j > i + 1 => inbox[j].what = "event"
        BY <1>1, <4>1 DEF InTurn
      <4>3. ASSUME NEW j \in DOMAIN inbox', j > i PROVE inbox'[j].what = "event"
        <5>1. /\ j + 1 \in DOMAIN inbox /\ inbox'[j] = inbox[j + 1]
              /\ i \in 1..Len(inbox) /\ j \in 1..Len(inbox) /\ Len(inbox) \in Nat
          BY <1>1, Reads
        <5>2. j + 1 > i + 1
          BY <4>3, <5>1
        <5> QED BY <4>2, <5>1, <5>2
      <4> QED BY <1>1, <2>1, <4>1, <4>2, <4>3
    <3>2. \A i \in DOMAIN inbox' : \E j \in DOMAIN inbox : inbox'[i] = inbox[j]
      BY <1>1, Reads
    <3> QED BY <1>1, <2>1, <3>1, <3>2 DEF InTurn
  <2>2. CASE asks' = Append(asks, "retry") /\ pc = Waiting
    <3>1. /\ \A i \in DOMAIN asks : asks[i] \notin Turns
          /\ \A i \in DOMAIN inbox : inbox[i].what \notin Turns
      BY <1>1, <2>2, NoTurnUnderWay
    <3>2. \A i \in DOMAIN inbox' : \E j \in DOMAIN inbox : inbox'[i] = inbox[j]
      BY <1>1, Reads
    <3> QED BY <1>2, <1>3, <3>1, <3>2 DEF InTurn
  <2> QED BY <2>1, <2>2
<1>7. NotBegun'
  <2>1. \A i \in DOMAIN inbox' : \E j \in DOMAIN inbox : inbox'[i] = inbox[j]
    BY <1>1, Reads
  <2>2. pc # Waiting => asks' = asks
    OBVIOUS
  <2> QED BY <1>1, <2>1, <2>2 DEF NotBegun, Waiting
<1>8. OursIsTold'
  BY <1>1, Reads DEF OursIsTold
<1>9. NewsComes'
  <2> SUFFICES ASSUME pc = Waiting, ~tab.gone, Status(tab, nav) = "complete",
                      call.kind = "wait_for_load" \/ tab.doc = "ours", asks' = <<>>
               PROVE  \E i \in DOMAIN inbox' :
                        /\ inbox'[i].what = "event" \/ (inbox'[i].what \in Looks /\ inbox'[i].ok)
                        /\ inbox'[i].status = "complete"
                        /\ call.kind = "wait_for_load" \/ SeesLoading(i)'
    BY <1>1 DEF NewsComes
  <2>1. PICK i \in DOMAIN inbox :
          /\ inbox[i].what = "event" \/ (inbox[i].what \in Looks /\ inbox[i].ok)
          /\ inbox[i].status = "complete"
          /\ call.kind = "wait_for_load" \/ SeesLoading(i)
    BY <1>1, <1>3 DEF NewsComes
  <2>2. asks' = asks
    BY <1>3
  <2>3. i # 1
    BY <1>1, <2>1, <2>2, Reads
  <2>4. PICK k \in DOMAIN inbox' : k + 1 = i /\ inbox'[k] = inbox[i] /\ k \in 1..Len(inbox)
    BY <1>1, <2>3, Reads
  <2>5. SeesLoading(i) => SeesLoading(k)'
    BY <1>1, <2>4, Reads
  <2> QED BY <2>1, <2>4, <2>5
<1>10. ArrivesAlone'
  <2> SUFFICES ASSUME Alone PROVE ArrivesAlone'
    BY <1>1 DEF ArrivesAlone, Alone
  <2>1. ASSUME tab.doc # "ours" PROVE Untouched'
    <3>1. Untouched
      BY <1>1, <2>1 DEF ArrivesAlone
    <3>2. pc = "asking" => \A i \in DOMAIN inbox' : inbox'[i].what = "pre" => i = Len(inbox')
      <4> SUFFICES ASSUME pc = "asking", NEW i \in DOMAIN inbox', inbox'[i].what = "pre"
                   PROVE  i = Len(inbox')
        OBVIOUS
      <4>1. /\ i + 1 \in DOMAIN inbox /\ inbox[i + 1].what = "pre" /\ Len(inbox) \in Nat
            /\ Len(inbox') = Len(inbox) - 1 /\ i \in 1..Len(inbox)
        BY <1>1, Reads
      <4>2. i + 1 = Len(inbox)
        BY <3>1, <4>1 DEF Untouched
      <4> QED BY <4>1, <4>2
    <3>3. \A i \in DOMAIN inbox' : \E j \in DOMAIN inbox : inbox'[i] = inbox[j]
      BY <1>1, Reads
    <3> QED BY <1>1, <2>1, <3>1, <3>2, <3>3 DEF Untouched
  <2>2. ASSUME tab.doc # "ours", nav # NoNav PROVE UnderWay'
    <3>1. UnderWay /\ (saw' <=> saw \/ IsLoading(inbox[1]))
      BY <1>1, <2>2 DEF ArrivesAlone
    <3>2. Told' <=> Told
      BY <1>1, <3>1, Reads
    <3>3. ASSUME NEW i \in DOMAIN inbox', inbox'[i].what \in Looks /\ inbox'[i].ok
          PROVE  inbox'[i].status = "loading" <=> SeesLoading(i)'
      <4>1. i + 1 \in DOMAIN inbox /\ inbox'[i] = inbox[i + 1] /\ i \in 1..Len(inbox)
        BY <1>1, Reads
      <4>2. SeesLoading(i)' <=> SeesLoading(i + 1)
        BY <1>1, <3>1, <4>1, Reads
      <4> QED BY <3>1, <3>3, <4>1, <4>2 DEF UnderWay
    <3> QED BY <1>1, <3>1, <3>2, <3>3 DEF UnderWay
  <2>3. \A i \in DOMAIN asks' : asks'[i] # "update"
    BY <1>1, <1>3 DEF ArrivesAlone
  <2>4. \A i \in DOMAIN inbox' :
          inbox'[i].what = "fresh" /\ inbox'[i].ok => inbox'[i].doc = "ours" \/ call.url = pre
    BY <1>1, Reads DEF ArrivesAlone
  <2> QED BY <1>1, <2>1, <2>2, <2>3, <2>4 DEF ArrivesAlone
<1> QED BY <1>4, <1>5, <1>6, <1>7, <1>8, <1>9, <1>10 DEF LoadInv

\* An event.
LEMMA EventIsRead ==
  ASSUME LoadInv, Watched, inbox # <<>>, inbox' = Tail(inbox), UNCHANGED <<chromeVars, others>>,
         inbox[1].what = "event", ReadEvent(inbox[1])
  PROVE  LoadInv'
<1> DEFINE m == inbox[1]
<1>1. /\ TypeOK /\ ArrivesAlone /\ NotBegun
      /\ saw' = (saw \/ (pc \in {"updating", Waiting} /\ m.status = "loading"))
      /\ grace' = (grace \/ (pc = Waiting /\ NavigatedAway(m.url)))
      /\ UNCHANGED <<pc, call, pre, result>>
  BY DEF LoadInv, ReadEvent
<1>2. \/ pc = Waiting /\ m.status = "complete" /\ asks' = Append(asks, "retry")
      \/ ~(pc = Waiting /\ m.status = "complete") /\ asks' = asks
  BY DEF ReadEvent, Ask
<1>3. m.what \notin Turns /\ (IsLoading(m) <=> m.status = "loading")
  BY DEF Turns, IsLoading
<1>4. saw \in BOOLEAN /\ grace \in BOOLEAN /\ (grace => pc = Waiting)
  BY <1>1 DEF TypeOK
<1>5. saw' \in BOOLEAN /\ grace' \in BOOLEAN /\ (saw => saw') /\ (grace' => pc = Waiting)
  BY <1>1, <1>4
<1>6. pc \in {"idle", "asking"} => ~saw'
  BY <1>1 DEF NotBegun, Waiting
<1>7. Alone /\ tab.doc # "ours" => ~grace'
  <2> SUFFICES ASSUME Alone, tab.doc # "ours" PROVE ~grace'
    OBVIOUS
  <2>1. Untouched /\ 1 \in DOMAIN inbox
    BY <1>1, Reads DEF ArrivesAlone
  <2>2. pc = Waiting => m.url = None
    BY <2>1 DEF Untouched, Waiting
  <2> QED BY <1>1, <2>1, <2>2 DEF Untouched, NavigatedAway
<1>8. Alone /\ tab.doc # "ours" /\ nav # NoNav => (saw' <=> saw \/ IsLoading(m))
  BY <1>1, <1>3 DEF ArrivesAlone, UnderWay
<1>9. pc \in {"updating", Waiting} /\ IsLoading(m) => saw'
  BY <1>1, <1>3
<1>10. (asks' = asks \/ (pc = Waiting /\ asks' = Append(asks, "retry")))
       /\ ~(asks' = asks /\ pc = Waiting /\ m.status = "complete")
  <2>1. asks # Append(asks, "retry")
    BY <1>1, Appended DEF TypeOK, Looks
  <2> QED BY <1>2, <2>1
<1> HIDE DEF m
<1> QED BY <1>1, <1>3, <1>5, <1>6, <1>7, <1>8, <1>9, <1>10, ReadKeeps DEF m

\* The tab before the navigation.
LEMMA PreIsRead ==
  ASSUME LoadInv, Watched, inbox # <<>>, inbox' = Tail(inbox), UNCHANGED <<chromeVars, others>>,
         inbox[1].what = "pre", ReadPre(inbox[1])
  PROVE  LoadInv'
<1> DEFINE m == inbox[1]
<1>1. /\ TypeOK /\ InTurn /\ NotBegun /\ OursIsTold /\ NewsComes /\ ArrivesAlone
      /\ UNCHANGED <<tab, nav, moves, call, saw, grace, others>>
      /\ m \in Tabs /\ m.what \in Turns /\ inbox' \in Seq(Messages) /\ 1 \in DOMAIN inbox
  <2>1. m \in Messages
    BY Reads DEF LoadInv
  <2> QED BY <2>1, MessageIs, Reads DEF LoadInv, ReadPre, chromeVars, Turns
<1>2. /\ pc = "asking" /\ asks = <<>>
      /\ \A i \in DOMAIN inbox' : inbox'[i].what = "event" /\ inbox'[i].what \notin Turns \cup Looks
      /\ \A i \in DOMAIN asks : asks[i] \notin Turns
  BY <1>1, TurnIsRead, StepNames
<1>3. /\ call.kind = "goto" /\ pre = None /\ ~saw /\ tab.doc # "ours" /\ ~nav.ours /\ ~grace
      /\ saw' \in BOOLEAN /\ grace' = FALSE
  BY <1>1, <1>2 DEF NotBegun, TypeOK, Waiting
<1>4. CASE End(Failed) /\ UNCHANGED <<asks, pre>>
  BY <1>1, <1>2, <1>3, <1>4, FailedIs, EndKeeps
<1>5. CASE /\ m.ok => m.url \notin Refused
           /\ pre' = IF m.ok THEN m.url ELSE None
           /\ pc' = "updating" /\ Ask("update")
           /\ UNCHANGED result
  <2>1. asks' = <<"update">>
    BY <1>2, <1>5 DEF Ask
  <2>2. /\ DOMAIN asks' = {1} /\ asks'[1] = "update" /\ asks' \in Seq(Turns \cup Looks) /\ Len(asks') = 1
        /\ "update" \in Turns
    BY <2>1 DEF Turns
  <2>3. pre' \in Urls \cup {None}
    BY <1>1, <1>5 DEF Tabs
  <2>4. TypeOK' /\ GotoArrives'
    BY <1>1, <1>2, <1>3, <1>5, <2>2, <2>3 DEF TypeOK, GotoArrives, Steps, Waiting
  <2>5. InTurn' /\ NotBegun' /\ OursIsTold' /\ NewsComes'
    BY <1>1, <1>2, <1>3, <1>5, <2>2, StepNames DEF InTurn, NotBegun, OursIsTold, NewsComes, Waiting
  <2>6. ArrivesAlone'
    <3> SUFFICES ASSUME Alone' PROVE ArrivesAlone'
      BY DEF ArrivesAlone
    <3>1. Alone
      BY <1>1, <1>2 DEF Alone
    <3>2. Untouched /\ nav = NoNav
      BY <1>1, <1>3, <3>1 DEF ArrivesAlone, Untouched
    <3>3. inbox' = <<>> /\ DOMAIN inbox' = {}
      <4>1. 1 = Len(inbox)
        BY <1>1, <1>2, <3>2 DEF Untouched
      <4>2. Len(inbox') = 0
        BY <1>1, <4>1, Reads
      <4> QED BY <1>1, <4>2
    <3>4. pre' = tab.url \/ (pre' = None /\ tab.gone)
      <4>1. IF m.ok THEN m.url = tab.url ELSE tab.gone
        BY <1>1, <3>2 DEF Untouched
      <4> QED BY <1>5, <4>1
    <3>5. Untouched'
      BY <1>1, <1>3, <1>5, <3>2, <3>3, <3>4 DEF Untouched
    <3> QED BY <1>1, <1>3, <2>2, <3>2, <3>3, <3>5 DEF ArrivesAlone
  <2> QED BY <2>4, <2>5, <2>6 DEF LoadInv
<1> QED BY <1>4, <1>5 DEF ReadPre

\* The answer of tabs.update.
LEMMA UpdateIsRead ==
  ASSUME LoadInv, Watched, inbox # <<>>, inbox' = Tail(inbox), UNCHANGED <<chromeVars, others>>,
         inbox[1].what = "update", ReadUpdate(inbox[1])
  PROVE  LoadInv'
<1> DEFINE m == inbox[1]
<1>1. /\ TypeOK /\ InTurn /\ NotBegun /\ OursIsTold /\ NewsComes /\ ArrivesAlone
      /\ UNCHANGED <<tab, nav, moves, call, pre, saw, grace, others>>
      /\ m.what \in Turns /\ inbox' \in Seq(Messages) /\ 1 \in DOMAIN inbox
  BY Reads DEF LoadInv, ReadUpdate, chromeVars, Turns
<1>2. /\ pc = "updating" /\ asks = <<>>
      /\ \A i \in DOMAIN inbox' : inbox'[i].what = "event" /\ inbox'[i].what \notin Turns \cup Looks
      /\ \A i \in DOMAIN asks : asks[i] \notin Turns
  BY <1>1, TurnIsRead, StepNames
<1>3. /\ call.kind = "goto" /\ saw' \in BOOLEAN /\ grace' = FALSE
  BY <1>1, <1>2 DEF NotBegun, TypeOK, Waiting
<1>4. CASE ~m.ok
  BY <1>1, <1>2, <1>3, <1>4, FailedIs, EndKeeps DEF ReadUpdate
<1>5. CASE m.ok
  <2>1. pc' = Waiting /\ asks' = <<"initial">> /\ UNCHANGED result
    BY <1>2, <1>5 DEF ReadUpdate, Ask
  <2>2. /\ DOMAIN asks' = {1} /\ asks'[1] = "initial" /\ asks' \in Seq(Turns \cup Looks) /\ asks' # <<>>
        /\ "initial" \notin Turns
    BY <2>1 DEF Turns, Looks
  <2>3. TypeOK' /\ GotoArrives'
    BY <1>1, <1>2, <1>3, <2>1, <2>2 DEF TypeOK, GotoArrives, Steps, Waiting
  <2>4. Told' <=> Told
    <3>1. ~IsLoading(m)
      BY DEF IsLoading
    <3> QED BY <1>1, <3>1, Reads
  <2>5. InTurn' /\ NotBegun' /\ OursIsTold' /\ NewsComes'
    BY <1>1, <1>2, <1>3, <2>1, <2>2, <2>4 DEF InTurn, NotBegun, OursIsTold, NewsComes, Waiting
  <2>6. ArrivesAlone'
    <3> SUFFICES ASSUME Alone' PROVE ArrivesAlone'
      BY DEF ArrivesAlone
    <3>1. Alone
      BY <1>1, <1>2 DEF Alone
    <3>2. tab.doc # "ours" => Untouched'
      <4> SUFFICES ASSUME tab.doc # "ours" PROVE Untouched'
        OBVIOUS
      <4>1. Untouched
        BY <1>1, <3>1 DEF ArrivesAlone
      <4>2. pre = tab.url
        BY <1>1, <1>2, <1>5, <4>1 DEF Untouched
      <4>3. \A i \in DOMAIN inbox' : inbox'[i].url = None
        <5>1. \A i \in DOMAIN inbox' : \E j \in DOMAIN inbox : inbox'[i] = inbox[j]
          BY <1>1, Reads
        <5> QED BY <1>2, <4>1, <5>1 DEF Untouched
      <4> QED BY <1>1, <1>2, <1>3, <2>1, <4>1, <4>2, <4>3 DEF Untouched, Waiting, Looks, Turns
    <3>3. tab.doc # "ours" /\ nav # NoNav => UnderWay'
      BY <1>1, <1>2, <2>1, <2>4, <3>1 DEF ArrivesAlone, UnderWay
    <3> QED BY <1>1, <1>2, <2>2, <3>1, <3>2, <3>3 DEF ArrivesAlone, Turns
  <2> QED BY <2>3, <2>5, <2>6 DEF LoadInv
<1> QED BY <1>4, <1>5

\* The checks after the load.
LEMMA CheckIsRead ==
  ASSUME LoadInv, Watched, inbox # <<>>, inbox' = Tail(inbox), UNCHANGED <<chromeVars, others>>,
         inbox[1].what = "check", ReadCheck(inbox[1])
  PROVE  LoadInv'
<1> DEFINE m == inbox[1]
<1>1. /\ TypeOK /\ InTurn /\ NotBegun /\ OursIsTold /\ NewsComes /\ ArrivesAlone
      /\ UNCHANGED <<tab, nav, moves, asks, call, pre, saw, grace, others>>
      /\ m.what \in Turns /\ inbox' \in Seq(Messages) /\ 1 \in DOMAIN inbox
  BY Reads DEF LoadInv, ReadCheck, chromeVars, Turns
<1>2. /\ pc = "checking" /\ asks = <<>>
      /\ \A i \in DOMAIN inbox' : inbox'[i].what = "event" /\ inbox'[i].what \notin Turns \cup Looks
      /\ \A i \in DOMAIN asks : asks[i] \notin Turns
  BY <1>1, TurnIsRead, StepNames
<1>3. saw' \in BOOLEAN /\ grace' = FALSE
  BY <1>1, <1>2 DEF TypeOK, Waiting
<1>4. CASE End(Failed)
  BY <1>1, <1>2, <1>3, <1>4, FailedIs, EndKeeps
<1>5. CASE /\ ~(m.ok /\ m.status = "complete" /\ m.url = pre /\ m.url # call.url)
           /\ pc' \in {"quieting", "pinging"} /\ UNCHANGED result
  <2>1. asks' \in Seq(Turns \cup Looks) /\ DOMAIN asks' = {}
    BY <1>1, <1>2
  <2>2. TypeOK' /\ GotoArrives'
    BY <1>1, <1>2, <1>3, <1>5, <2>1 DEF TypeOK, GotoArrives, Steps, Waiting
  <2>3. InTurn' /\ NotBegun' /\ OursIsTold' /\ NewsComes'
    BY <1>1, <1>2, <1>5, <2>1 DEF InTurn, NotBegun, OursIsTold, NewsComes, Waiting
  <2>4. ArrivesAlone'
    <3> SUFFICES ASSUME Alone' PROVE ArrivesAlone'
      BY DEF ArrivesAlone
    <3>1. Alone
      BY <1>1, <1>2 DEF Alone
    <3>2. tab.doc # "ours" => nav = NoNav
      BY <1>1, <1>2, <3>1 DEF ArrivesAlone, UnderWay, Waiting
    <3>3. tab.doc # "ours" => Untouched'
      <4> SUFFICES ASSUME tab.doc # "ours" PROVE Untouched'
        OBVIOUS
      <4>1. Untouched
        BY <1>1, <3>1 DEF ArrivesAlone
      <4>2. /\ pre = tab.url
            /\ IF m.ok THEN m.url = tab.url ELSE tab.gone
            /\ m.ok => m.status = "complete"
        BY <1>1, <1>2, <4>1 DEF Untouched
      <4>3. call.url = pre \/ tab.gone
        BY <1>5, <4>2
      <4>4. \A i \in DOMAIN inbox' : inbox'[i].url = None
        <5>1. \A i \in DOMAIN inbox' : \E j \in DOMAIN inbox : inbox'[i] = inbox[j]
          BY <1>1, Reads
        <5> QED BY <1>2, <4>1, <5>1 DEF Untouched
      <4> QED BY <1>1, <1>2, <1>3, <1>5, <4>1, <4>2, <4>3, <4>4 DEF Untouched, Looks, Turns
    <3> QED BY <1>1, <1>2, <2>1, <3>1, <3>2, <3>3 DEF ArrivesAlone, Turns
  <2> QED BY <2>2, <2>3, <2>4 DEF LoadInv
<1> QED BY <1>4, <1>5 DEF ReadCheck

\* The tab that a goto returns.
LEMMA FreshIsRead ==
  ASSUME LoadInv, Watched, inbox # <<>>, inbox' = Tail(inbox), UNCHANGED <<chromeVars, others>>,
         inbox[1].what = "fresh", ReadFresh(inbox[1])
  PROVE  LoadInv'
<1> DEFINE m == inbox[1]
           r == IF m.ok THEN Succeeded(m.doc) ELSE Failed
<1>1. /\ TypeOK /\ InTurn /\ ArrivesAlone /\ UNCHANGED <<asks, call, pre, saw, grace>>
      /\ m \in Tabs /\ m.what \in Turns /\ inbox' \in Seq(Messages) /\ 1 \in DOMAIN inbox
  <2>1. m \in Messages
    BY Reads DEF LoadInv
  <2> QED BY <2>1, MessageIs, Reads DEF LoadInv, ReadFresh, Turns
<1>2. /\ pc = "reading"
      /\ \A i \in DOMAIN inbox' : inbox'[i].what \notin Turns
      /\ \A i \in DOMAIN asks : asks[i] \notin Turns
  BY <1>1, TurnIsRead, StepNames
<1>3. saw' \in BOOLEAN /\ grace' = FALSE
  BY <1>1, <1>2 DEF TypeOK, Waiting
<1>4. /\ r \in Outcomes /\ (r.ok => m.ok /\ r.doc = m.doc)
  BY <1>1 DEF Succeeded, Failed, Outcomes, Tabs
<1>5. r.ok => call.kind = "wait_for_load" \/ others \/ r.doc = "ours" \/ call.url = pre
  BY <1>1, <1>2, <1>4 DEF Alone, ArrivesAlone, TypeOK
<1>6. End(r)
  BY DEF ReadFresh
<1> HIDE DEF r
<1> QED BY <1>1, <1>2, <1>3, <1>4, <1>5, <1>6, EndKeeps

\* The tab that a wait looks at.
LEMMA TabIsRead ==
  ASSUME LoadInv, Watched, inbox # <<>>, inbox' = Tail(inbox), UNCHANGED <<chromeVars, others>>,
         inbox[1].what \in Looks, ReadTab(inbox[1])
  PROVE  LoadInv'
<1> DEFINE m == inbox[1]
<1>1. /\ TypeOK /\ InTurn /\ NotBegun /\ ArrivesAlone
      /\ m \in Tabs /\ m.what \in Looks /\ m.what \notin Turns /\ m.what # "event" /\ ~IsLoading(m)
      /\ inbox' \in Seq(Messages) /\ 1 \in DOMAIN inbox
      /\ saw \in BOOLEAN /\ grace \in BOOLEAN /\ (grace => pc = Waiting)
      /\ (SeesLoading(1) <=> saw)
      /\ \A i \in DOMAIN inbox' : \E j \in DOMAIN inbox : inbox'[i] = inbox[j]
  <2>1. m \in Messages
    BY Reads DEF LoadInv
  <2> QED BY <2>1, MessageIs, Reads DEF LoadInv, TypeOK, Turns, Looks, IsLoading
<1>2. CASE pc # Waiting
  <2>1. UNCHANGED <<pc, call, pre, saw, grace, result, asks>>
    BY <1>2 DEF ReadTab, callVars
  <2>2. pc \in {"idle", "asking"} => ~saw
    BY <1>1 DEF NotBegun
  <2> QED BY <1>1, <1>2, <2>1, <2>2, ReadKeeps
<1>3. CASE pc = Waiting
  <2>1. /\ saw' = (saw \/ (m.what = "initial" /\ m.ok /\ m.status = "loading"))
        /\ UNCHANGED <<call, pre>>
        /\ saw' \in BOOLEAN /\ (saw => saw')
    BY <1>1, <1>3 DEF ReadTab
  <2>2. Alone /\ tab.doc # "ours" /\ m.ok => m.url = pre /\ pre # None
    BY <1>1, <1>3, LoadAssumption DEF ArrivesAlone, Untouched, Waiting, TypeOK, Documents
  <2>3. Alone /\ tab.doc # "ours" /\ nav # NoNav => saw' = saw /\ (m.ok => (m.status = "loading" <=> saw))
    <3> SUFFICES ASSUME Alone, tab.doc # "ours", nav # NoNav
                 PROVE  saw' = saw /\ (m.ok => (m.status = "loading" <=> saw))
      OBVIOUS
    <3>1. m.ok => (m.status = "loading" <=> saw)
      BY <1>1 DEF ArrivesAlone, UnderWay
    <3> QED BY <1>1, <2>1, <3>1
  <2>4. CASE m.ok /\ Complete(m, saw') /\ Loaded
    <3>1. Alone /\ tab.doc # "ours" => nav = NoNav
      BY <2>2, <2>3, <2>4 DEF Complete
    <3> QED BY <1>1, <1>3, <2>1, <2>4, <3>1, LoadedKeeps
  <2>5. CASE ~m.ok /\ m.what = "initial" /\ End(Failed) /\ grace' = FALSE /\ UNCHANGED asks
    <3>1. /\ \A i \in DOMAIN asks : asks[i] \notin Turns
          /\ \A i \in DOMAIN inbox' : inbox'[i].what \notin Turns
      BY <1>1, <1>3, NoTurnUnderWay
    <3> QED BY <1>1, <1>3, <2>1, <2>5, <3>1, FailedIs, EndKeeps DEF Waiting
  <2>6. CASE /\ IF m.ok THEN ~Complete(m, saw') ELSE m.what = "retry"
             /\ grace' = (grace \/ (m.ok /\ NavigatedAway(m.url)))
             /\ UNCHANGED <<pc, asks, result>>
    <3>1. grace' \in BOOLEAN
      BY <1>1, <2>6
    <3>2. Alone /\ tab.doc # "ours" => ~grace'
      BY <1>1, <2>2, <2>6 DEF ArrivesAlone, Untouched, NavigatedAway
    <3>3. m.ok /\ m.status = "complete" => call.kind # "wait_for_load" /\ ~saw
      BY <1>1, <1>3, <2>1, <2>6 DEF Complete, NotBegun, Waiting
    <3>4. Alone /\ tab.doc # "ours" /\ nav # NoNav => (saw' <=> saw \/ IsLoading(m))
      BY <1>1, <2>3
    <3>5. pc \notin {"idle", "asking"}
      BY <1>3 DEF Waiting
    <3> QED BY <1>1, <1>3, <2>1, <2>6, <3>1, <3>2, <3>3, <3>4, <3>5, ReadKeeps
  <2> QED BY <1>3, <2>4, <2>5, <2>6 DEF ReadTab
<1> QED BY <1>2, <1>3

(***************************************************************************)
(* The theorems.                                                           *)
(***************************************************************************)

\* The panel handles an event or an answer.
LEMMA HandleKeeps ==
  ASSUME LoadInv, Handle
  PROVE  LoadInv'
<1> DEFINE m == inbox[1]
<1>1. /\ Watched /\ inbox # <<>> /\ inbox' = Tail(inbox) /\ UNCHANGED <<chromeVars, others>>
      /\ Head(inbox) = m /\ m.what \in {"event"} \cup Turns \cup Looks
  <2>1. TypeOK /\ Watched /\ inbox # <<>> /\ inbox' = Tail(inbox) /\ UNCHANGED <<chromeVars, others>>
    BY DEF LoadInv, Handle
  <2>2. Head(inbox) = m /\ m \in Messages
    BY <2>1, Reads
  <2> QED BY <2>1, <2>2, MessageIs
<1>2. CASE m.what = "event"
  <2>1. ReadEvent(m)
    BY <1>1, <1>2 DEF Handle
  <2> QED BY <1>1, <1>2, <2>1, EventIsRead
<1>3. CASE m.what = "pre"
  <2>1. ReadPre(m)
    BY <1>1, <1>3 DEF Handle
  <2> QED BY <1>1, <1>3, <2>1, PreIsRead
<1>4. CASE m.what = "update"
  <2>1. ReadUpdate(m)
    BY <1>1, <1>4 DEF Handle
  <2> QED BY <1>1, <1>4, <2>1, UpdateIsRead
<1>5. CASE m.what = "check"
  <2>1. ReadCheck(m)
    BY <1>1, <1>5 DEF Handle
  <2> QED BY <1>1, <1>5, <2>1, CheckIsRead
<1>6. CASE m.what = "fresh"
  <2>1. ReadFresh(m)
    BY <1>1, <1>6 DEF Handle
  <2> QED BY <1>1, <1>6, <2>1, FreshIsRead
<1>7. CASE m.what \in Looks
  <2>1. ReadTab(m)
    BY <1>1, <1>7 DEF Handle, Looks
  <2> QED BY <1>1, <1>7, <2>1, TabIsRead
<1> QED BY <1>1, <1>2, <1>3, <1>4, <1>5, <1>6, <1>7 DEF Turns

\* It holds before a tool is called.
LEMMA LoadInit == Init => LoadInv
<1> SUFFICES ASSUME Init PROVE LoadInv
  OBVIOUS
<1>1. /\ tab \in Documents /\ tab.doc = "before"
      /\ nav \in Navigations /\ ~nav.ours
      /\ asks = <<>> /\ inbox = <<>> /\ moves = 0 /\ pc = "idle"
      /\ pre = None /\ saw = FALSE /\ grace = FALSE /\ result = None /\ others = FALSE
  <2>1. PICK u \in Urls, l \in BOOLEAN : tab = Document(u, "before", l, u \notin Internal)
    BY DEF Init
  <2>2. tab \in Documents /\ tab.doc = "before"
    BY <2>1 DEF Document, Documents, Docs
  <2>3. nav \in Navigations /\ ~nav.ours
    <3>1. Away \in Navigations /\ ~Away.ours
      BY DEF Away, Navigations
    <3>2. NoNav \in Navigations /\ ~NoNav.ours
      BY DEF NoNav, Navigations
    <3>3. nav = NoNav \/ nav = Away
      BY DEF Init
    <3> QED BY <3>1, <3>2, <3>3
  <2> QED BY <2>2, <2>3 DEF Init
<1>2. asks \in Seq(Turns \cup Looks) /\ inbox \in Seq(Messages) /\ DOMAIN asks = {} /\ DOMAIN inbox = {}
  BY <1>1
<1>3. TypeOK
  <2>1. moves \in 0..MaxMoves /\ pc \in Steps /\ pre \in Urls \cup {None}
    BY <1>1, LoadAssumption DEF Steps
  <2>2. /\ pc # "done" /\ pc \notin {"asking", "updating", "checking", "reading"}
        /\ result \in Outcomes \cup {None} /\ result = None
    BY <1>1
  <2> QED BY <1>1, <1>2, <2>1, <2>2 DEF TypeOK
<1>4. GotoArrives /\ InTurn /\ NotBegun /\ OursIsTold /\ NewsComes /\ ArrivesAlone
  BY <1>1, <1>2 DEF GotoArrives, InTurn, NotBegun, OursIsTold, NewsComes, ArrivesAlone, Alone, Waiting
<1> QED BY <1>3, <1>4 DEF LoadInv

\* Every step keeps it.
LEMMA LoadStep == LoadInv /\ [Next]_vars => LoadInv'
<1> SUFFICES ASSUME LoadInv, [Next]_vars PROVE LoadInv'
  OBVIOUS
<1>1. CASE Start BY <1>1, StartKeeps
<1>2. CASE Commit BY <1>2, CommitKeeps
<1>3. CASE Load BY <1>3, LoadKeeps
<1>4. CASE Drop BY <1>4, DropKeeps
<1>5. CASE Close BY <1>5, CloseKeeps
<1>6. CASE Answer BY <1>6, AnswerTabKeeps, AnswerUpdateKeeps
<1>7. CASE Leave \/ \E u \in Urls : Rewrite(u)
  BY <1>7, LeaveKeeps, RewriteKeeps
<1>8. ASSUME NEW u \in Urls \ Internal, CallGoto(u) PROVE LoadInv'
  BY <1>8, CallGotoKeeps
<1>9. CASE CallWait BY <1>9, CallWaitKeeps
<1>10. CASE Handle BY <1>10, HandleKeeps
<1>11. CASE GraceFires \/ Deadline \/ Quiet \/ PingAnswered \/ PingFails
  BY <1>11, TimersKeep
<1>12. CASE UNCHANGED vars
  <2>1. UNCHANGED <<tab, nav, moves, asks, inbox, pc, call, pre, saw, grace, result, others>>
    BY <1>12 DEF vars, chromeVars, callVars
  <2>2. TypeOK' /\ GotoArrives' /\ InTurn' /\ NotBegun'
    BY <2>1 DEF LoadInv, TypeOK, GotoArrives, InTurn, NotBegun
  <2>3. OursIsTold' /\ NewsComes'
    BY <2>1 DEF LoadInv, OursIsTold, NewsComes, Told, SeesLoading
  <2>4. ArrivesAlone'
    BY <2>1 DEF LoadInv, ArrivesAlone, Alone, Untouched, UnderWay, Told, SeesLoading
  <2> QED BY <2>2, <2>3, <2>4 DEF LoadInv
<1> QED BY <1>1, <1>2, <1>3, <1>4, <1>5, <1>6, <1>7, <1>8, <1>9, <1>10, <1>11, <1>12 DEF Next

\* The inductive invariant.
THEOREM LoadInvariant == Spec => []LoadInv
BY LoadInit, LoadStep, PTL DEF Spec

\* The state of the tab, of Chrome's queues and of the tool stays well formed: an
\* answer that the tool goes on with is under way until it is read.
THEOREM LoadTypes == Spec => []TypeOK
<1>1. LoadInv => TypeOK
  BY DEF LoadInv
<1> QED BY <1>1, LoadInvariant, PTL

\* A goto that succeeds while the tab does nothing else returns the document it
\* navigated to, however late its events and answers are read.
THEOREM GotoReturnsItsOwn == Spec => []GotoArrives
<1>1. LoadInv => GotoArrives
  BY DEF LoadInv
<1> QED BY <1>1, LoadInvariant, PTL

\* A tool that has read all there is does not go on waiting for a document that has
\* loaded.
THEOREM LoadsAreNoticed == Spec => []NoLoadMissed
<1>1. LoadInv => NoLoadMissed
  <2> SUFFICES ASSUME LoadInv, pc = Waiting, asks = <<>>, inbox = <<>>, ~tab.gone,
                      Status(tab, nav) = "complete"
               PROVE  call.kind # "wait_for_load" /\ tab.doc # "ours"
    BY DEF NoLoadMissed
  <2>1. DOMAIN inbox = {}
    OBVIOUS
  <2> QED BY <2>1 DEF LoadInv, NewsComes
<1> QED BY <1>1, LoadInvariant, PTL
=============================================================================
