--------------------------- MODULE TabTrackerProofs ---------------------------
(* Proofs about module TabTracker, for any sets of tabs, windows and calls,  *)
(* any number of actions of the user and any number of rebinds.              *)
EXTENDS TabTracker, SequenceTheorems, TLAPS

(***************************************************************************)
(* The inbox.                                                              *)
(***************************************************************************)

\* q is p with the messages of the set S behind it.
Extends(p, q, S) ==
  /\ q \in Seq(Messages)
  /\ \A i \in DOMAIN p : i \in DOMAIN q /\ q[i] = p[i]
  /\ \A i \in DOMAIN q : i \notin DOMAIN p => q[i] \in S /\ i > 0 /\ \A k \in DOMAIN p : i > k
  /\ \A m \in S : \E i \in DOMAIN q : i \notin DOMAIN p /\ q[i] = m

\* A sequence of messages is numbered from one.
LEMMA InboxDomain ==
  ASSUME NEW p \in Seq(Messages)
  PROVE  /\ DOMAIN p = 1..Len(p) /\ Len(p) \in Nat
         /\ \A i \in DOMAIN p : p[i] \in Messages /\ i \in Nat \ {0}
BY LenProperties, ElementOfSeq

\* An inbox extends itself, ...
LEMMA ExtendsNothing ==
  ASSUME NEW p \in Seq(Messages)
  PROVE  Extends(p, p, {})
BY DEF Extends

\* ... and goes on extending with more messages behind it.
LEMMA ExtendsMore ==
  ASSUME NEW p \in Seq(Messages), NEW q, NEW S, Extends(p, q, S), NEW s \in Seq(Messages)
  PROVE  Extends(p, q \o s, S \cup {s[j] : j \in DOMAIN s})
<1> DEFINE r == q \o s
<1>1. q \in Seq(Messages)
  BY DEF Extends
<1>2. /\ DOMAIN p = 1..Len(p) /\ Len(p) \in Nat /\ DOMAIN q = 1..Len(q) /\ Len(q) \in Nat
      /\ DOMAIN s = 1..Len(s) /\ Len(s) \in Nat
  BY <1>1, InboxDomain
<1>3. /\ r \in Seq(Messages) /\ DOMAIN r = 1..(Len(q) + Len(s))
      /\ \A i \in 1..(Len(q) + Len(s)) : r[i] = IF i <= Len(q) THEN q[i] ELSE s[i - Len(q)]
  <2>1. r \in Seq(Messages) /\ Len(r) = Len(q) + Len(s)
        /\ \A i \in 1..(Len(q) + Len(s)) : r[i] = IF i <= Len(q) THEN q[i] ELSE s[i - Len(q)]
    BY <1>1, ConcatProperties
  <2> HIDE DEF r
  <2> QED BY <2>1, InboxDomain
<1> HIDE DEF r
<1>4. Len(p) <= Len(q)
  <2>1. CASE Len(p) = 0
    BY <1>2, <2>1
  <2>2. CASE Len(p) # 0
    <3>1. Len(p) \in DOMAIN p
      BY <1>2, <2>2
    <3> QED BY <1>2, <3>1 DEF Extends
  <2> QED BY <2>1, <2>2
<1>5. \A i \in DOMAIN q : i \in DOMAIN r /\ r[i] = q[i]
  BY <1>2, <1>3
<1>6. \A i \in DOMAIN p : i \in DOMAIN r /\ r[i] = p[i]
  BY <1>5 DEF Extends
<1>7. ASSUME NEW i \in DOMAIN r, i \notin DOMAIN p
      PROVE  /\ r[i] \in S \cup {s[j] : j \in DOMAIN s}
             /\ i > 0 /\ \A k \in DOMAIN p : i > k
  <2>1. i > 0 /\ \A k \in DOMAIN p : i > k
    BY <1>2, <1>3, <1>7
  <2>2. CASE i \in DOMAIN q
    BY <1>5, <1>7, <2>1, <2>2 DEF Extends
  <2>3. CASE i \notin DOMAIN q
    <3>1. i - Len(q) \in DOMAIN s /\ r[i] = s[i - Len(q)]
      BY <1>2, <1>3, <2>3
    <3> QED BY <2>1, <3>1
  <2> QED BY <2>2, <2>3
<1>8. ASSUME NEW m \in S \cup {s[j] : j \in DOMAIN s}
      PROVE  \E i \in DOMAIN r : i \notin DOMAIN p /\ r[i] = m
  <2>1. CASE m \in S
    <3>1. PICK i \in DOMAIN q : i \notin DOMAIN p /\ q[i] = m
      BY <2>1 DEF Extends
    <3> QED BY <1>5, <3>1
  <2>2. ASSUME NEW j \in DOMAIN s, m = s[j]
        PROVE  \E i \in DOMAIN r : i \notin DOMAIN p /\ r[i] = m
    <3>1. /\ Len(q) + j \in DOMAIN r /\ Len(q) + j \notin DOMAIN p
          /\ r[Len(q) + j] = s[j]
      BY <1>2, <1>3, <1>4
    <3> QED BY <2>2, <3>1
  <2> QED BY <2>1, <2>2
<1> QED BY <1>3, <1>6, <1>7, <1>8 DEF Extends, r

\* One message more.
LEMMA ExtendsByOne ==
  ASSUME NEW p \in Seq(Messages), NEW m \in Messages
  PROVE  Extends(p, Append(p, m), {m})
<1> DEFINE q == Append(p, m)
<1>1. /\ q \in Seq(Messages) /\ Len(q) = Len(p) + 1 /\ q[Len(p) + 1] = m
      /\ \A i \in 1..Len(p) : q[i] = p[i]
  BY AppendProperties
<1> HIDE DEF q
<1>2. DOMAIN q = 1..(Len(p) + 1) /\ DOMAIN p = 1..Len(p) /\ Len(p) \in Nat
  BY <1>1, InboxDomain
<1> QED BY <1>1, <1>2 DEF Extends, q

\* The messages of a sequence of one, and the event of a tab.
LEMMA OneMessage ==
  ASSUME NEW m \in Messages
  PROVE  <<m>> \in Seq(Messages) /\ {<<m>>[j] : j \in DOMAIN <<m>>} = {m}
<1>1. <<m>> \in Seq(Messages) /\ DOMAIN <<m>> = {1} /\ <<m>>[1] = m
  BY Z3
<1> QED BY <1>1

\* An event is a message.
LEMMA EventIsMessage ==
  ASSUME NEW k \in {"activated", "complete", "removed", "detached", "attached"},
         NEW t \in Tabs, NEW w \in Windows
  PROVE  /\ Event(k, t, w) \in Messages
         /\ Event(k, t, w).kind = k /\ Event(k, t, w).tab = t /\ Event(k, t, w).window = w
BY DEF Event, Messages

\* One message behind an extension, and the event of an activation.
LEMMA ThenMessage ==
  ASSUME NEW p \in Seq(Messages), NEW q, NEW S, Extends(p, q, S), NEW m \in Messages
  PROVE  Extends(p, q \o <<m>>, S \cup {m})
<1> DEFINE one == <<m>>  all == {one[j] : j \in DOMAIN one}
<1>1. one \in Seq(Messages) /\ all = {m}
  BY OneMessage
<1> HIDE DEF one
<1>2. Extends(p, q \o one, S \cup all)
  BY <1>1, ExtendsMore
<1> QED BY <1>1, <1>2 DEF one

\* The messages of Activated.
Activations(w, t) == IF t \notin {None, activeIn[w]} THEN {Event("activated", t, w)} ELSE {}

\* The event of an activation behind an extension.
LEMMA ThenActivated ==
  ASSUME NEW p \in Seq(Messages), NEW q, NEW S, Extends(p, q, S),
         NEW w \in Windows, NEW t \in Tabs \cup {None}
  PROVE  Extends(p, q \o Activated(w, t), S \cup Activations(w, t))
<1> DEFINE e == Event("activated", t, w)
<1>1. CASE t \notin {None, activeIn[w]}
  <2>1. Activated(w, t) = <<e>> /\ Activations(w, t) = {e} /\ e \in Messages
    BY <1>1, EventIsMessage DEF Activated, Activations
  <2> HIDE DEF e
  <2>2. Extends(p, q \o <<e>>, S \cup {e})
    BY <2>1, ThenMessage
  <2> QED BY <2>1, <2>2
<1>2. CASE t \in {None, activeIn[w]}
  <2>1. Activated(w, t) = <<>> /\ Activations(w, t) = {} /\ S \cup {} = S /\ q \in Seq(Messages)
    BY <1>2 DEF Activated, Activations, Extends
  <2>2. q \o <<>> = q
    BY <2>1, ConcatEmptySeq
  <2> QED BY <2>1, <2>2
<1> QED BY <1>1, <1>2

-----------------------------------------------------------------------------
(* What the user does.                                                     *)

\* The user moves tabs: whatever leaves a window is announced, and what is announced
\* as active is active.
UserFacts ==
  /\ windowOf' \in [Tabs -> Windows \cup {None}]
  /\ activeIn' \in [Windows -> Tabs \cup {None}]
  /\ \A w \in Windows : activeIn'[w] # None => windowOf'[activeIn'[w]] = w
  /\ \A t \in Tabs : windowOf[t] = None => windowOf'[t] = None
  /\ \E S \in SUBSET Messages :
       /\ Extends(inbox, inbox', S)
       /\ \A m \in S : /\ m.kind \notin {"init", "query", "get"} /\ m.tab \in Tabs
                       /\ m.kind \in {"activated", "complete"} => windowOf'[m.tab] = m.window
       /\ \A t \in Tabs : windowOf'[t] # windowOf[t] =>
            \E m \in S : m \in {Event("removed", t, windowOf[t]), Event("detached", t, windowOf[t])}
  /\ UNCHANGED <<trackerVars, calls, hit>>

\* The tab that becomes active when t leaves window w is another tab of w.
LEMMA SuccessorStays ==
  ASSUME TypeOK, NEW t \in Tabs, NEW w \in Windows, windowOf[t] = w,
         NEW s \in Successors(w, t)
  PROVE  s \in Tabs \cup {None} /\ (s # None => s \in Tabs \ {t} /\ windowOf[s] = w)
BY WindowAssumption DEF Successors, TypeOK

\* The user activates a tab.
LEMMA ActivateFacts ==
  ASSUME TypeOK, NEW t \in Tabs, Activate(t)
  PROVE  UserFacts
<1> DEFINE w == windowOf[t]
<1>1. w \in Windows /\ t # None
  BY WindowAssumption DEF Activate, TypeOK
<1>2. /\ activeIn' = [activeIn EXCEPT ![w] = t] /\ inbox' = inbox \o Activated(w, t)
      /\ UNCHANGED <<windowOf, trackerVars, calls, hit>>
  BY DEF Activate
<1>3. activeIn' \in [Windows -> Tabs \cup {None}]
      /\ \A v \in Windows : activeIn'[v] # None => windowOf'[activeIn'[v]] = v
  BY <1>1, <1>2 DEF TypeOK
<1>4. inbox \in Seq(Messages) /\ Extends(inbox, inbox, {})
  BY ExtendsNothing DEF TypeOK
<1> DEFINE T == Activations(w, t)
           S == {} \cup T
<1>5. Extends(inbox, inbox \o Activated(w, t), S) /\ \A m \in T : m = Event("activated", t, w)
  <2>1. \A m \in T : m = Event("activated", t, w)
    BY DEF Activations
  <2> HIDE DEF w
  <2> QED BY <1>1, <1>4, <2>1, ThenActivated
<1>6. \A m \in S : /\ m.kind \notin {"init", "query", "get"} /\ m.tab \in Tabs /\ m \in Messages
                   /\ m.kind \in {"activated", "complete"} => windowOf'[m.tab] = m.window
  BY <1>1, <1>2, <1>5, EventIsMessage
<1>7. Extends(inbox, inbox', S)
  BY <1>2, <1>5
<1> HIDE DEF S, w
<1> QED BY <1>2, <1>3, <1>6, <1>7 DEF UserFacts, TypeOK

\* A tab completes its load.
LEMMA CompleteLoadFacts ==
  ASSUME TypeOK, NEW t \in Tabs, CompleteLoad(t)
  PROVE  UserFacts
<1> DEFINE w == windowOf[t]  m == Event("complete", t, w)
<1>1. w \in Windows
  BY WindowAssumption DEF CompleteLoad, TypeOK
<1>2. inbox' = Append(inbox, m) /\ UNCHANGED <<windowOf, activeIn, trackerVars, calls, hit>>
  BY DEF CompleteLoad
<1>3. m \in Messages /\ m.kind = "complete" /\ m.tab = t /\ m.window = w
  BY <1>1, EventIsMessage
<1> HIDE DEF m
<1>4. Extends(inbox, inbox', {m})
  BY <1>2, <1>3, ExtendsByOne DEF TypeOK
<1> QED BY <1>2, <1>3, <1>4 DEF UserFacts, TypeOK

\* The user closes a tab.
LEMMA CloseTabFacts ==
  ASSUME TypeOK, NEW t \in Tabs, CloseTab(t)
  PROVE  UserFacts
<1> DEFINE w == windowOf[t]  gone == Event("removed", t, w)
<1>1. w \in Windows /\ w # None
  BY WindowAssumption DEF CloseTab, TypeOK
<1>2. PICK s \in Successors(w, t) :
        /\ activeIn' = [activeIn EXCEPT ![w] = s]
        /\ inbox' = inbox \o <<gone>> \o Activated(w, s)
  BY DEF CloseTab
<1>3. windowOf' = [windowOf EXCEPT ![t] = None] /\ UNCHANGED <<trackerVars, calls, hit>>
  BY DEF CloseTab
<1>4. s \in Tabs \cup {None} /\ (s # None => s \in Tabs \ {t} /\ windowOf[s] = w)
  <2>1. windowOf[t] = w
    OBVIOUS
  <2> HIDE DEF w
  <2> QED BY <1>1, <1>2, <2>1, SuccessorStays
<1>5. activeIn' \in [Windows -> Tabs \cup {None}]
  BY <1>1, <1>2, <1>4 DEF TypeOK
<1>6. ASSUME NEW v \in Windows, activeIn'[v] # None PROVE windowOf'[activeIn'[v]] = v
  <2>1. CASE v = w
    BY <1>1, <1>2, <1>3, <1>4, <1>6, <2>1 DEF TypeOK
  <2>2. CASE v # w
    <3>1. activeIn'[v] = activeIn[v] /\ windowOf[activeIn[v]] = v /\ activeIn[v] \in Tabs
      BY <1>2, <1>6, <2>2 DEF TypeOK
    <3> QED BY <1>3, <2>2, <3>1 DEF TypeOK
  <2> QED BY <2>1, <2>2
<1>7. inbox \in Seq(Messages) /\ Extends(inbox, inbox, {})
  BY ExtendsNothing DEF TypeOK
<1>8. gone \in Messages /\ gone.kind = "removed" /\ gone.tab = t
  BY <1>1, EventIsMessage
<1> DEFINE T == Activations(w, s)
           S == ({} \cup {gone}) \cup T
<1>9. Extends(inbox, inbox', S)
  <2> HIDE DEF w, gone
  <2>1. Extends(inbox, inbox \o <<gone>>, {} \cup {gone})
    BY <1>7, <1>8, ThenMessage
  <2>2. Extends(inbox, (inbox \o <<gone>>) \o Activated(w, s), S)
    BY <1>1, <1>4, <1>7, <2>1, ThenActivated
  <2> QED BY <1>2, <2>2
<1>10. \A m \in T : s \in Tabs /\ m = Event("activated", s, w)
  BY <1>4 DEF Activations
<1>11. \A m \in T : /\ m \in Messages /\ m.kind = "activated" /\ m.tab = s /\ m.window = w
                    /\ s \in Tabs /\ windowOf'[s] = w
  <2>1. s \in Tabs => windowOf'[s] = w
    BY <1>3, <1>4, WindowAssumption DEF TypeOK
  <2> HIDE DEF w
  <2> QED BY <1>1, <1>10, <2>1, EventIsMessage
<1>12. \A u \in Tabs : windowOf'[u] # windowOf[u] => u = t
  BY <1>3 DEF TypeOK
<1>13. windowOf' \in [Tabs -> Windows \cup {None}]
       /\ \A u \in Tabs : windowOf[u] = None => windowOf'[u] = None
  BY <1>3 DEF TypeOK
<1>14. \A m \in S : /\ m.kind \notin {"init", "query", "get"} /\ m.tab \in Tabs /\ m \in Messages
                    /\ m.kind \in {"activated", "complete"} => windowOf'[m.tab] = m.window
  <2> HIDE DEF gone, w
  <2> QED BY <1>8, <1>11
<1>15. \A u \in Tabs : windowOf'[u] # windowOf[u] =>
         \E m \in S : m \in {Event("removed", u, windowOf[u]), Event("detached", u, windowOf[u])}
  <2>1. gone \in S
    OBVIOUS
  <2> HIDE DEF S
  <2> QED BY <1>12, <2>1
<1> HIDE DEF S
<1> QED BY <1>3, <1>5, <1>6, <1>9, <1>13, <1>14, <1>15 DEF UserFacts

\* The user drags a tab to another window.
LEMMA DragTabFacts ==
  ASSUME TypeOK, NEW t \in Tabs, NEW w \in Windows, DragTab(t, w)
  PROVE  UserFacts
<1> DEFINE v == windowOf[t]
           left == Event("detached", t, v)  came == Event("attached", t, w)
<1>1. v \in Windows /\ v # None /\ v # w /\ t # None
  BY WindowAssumption DEF DragTab, TypeOK
<1>2. PICK s \in Successors(v, t) :
        /\ activeIn' = [activeIn EXCEPT ![v] = s, ![w] = t]
        /\ inbox' = inbox \o <<left>> \o Activated(v, s) \o <<came>> \o Activated(w, t)
  BY DEF DragTab
<1>3. windowOf' = [windowOf EXCEPT ![t] = w] /\ UNCHANGED <<trackerVars, calls, hit>>
  BY DEF DragTab
<1>4. s \in Tabs \cup {None} /\ (s # None => s \in Tabs \ {t} /\ windowOf[s] = v)
  <2>1. windowOf[t] = v
    OBVIOUS
  <2> HIDE DEF v
  <2> QED BY <1>1, <1>2, <2>1, SuccessorStays
<1>5. activeIn' \in [Windows -> Tabs \cup {None}]
  BY <1>1, <1>2, <1>4 DEF TypeOK
<1>6. ASSUME NEW x \in Windows, activeIn'[x] # None PROVE windowOf'[activeIn'[x]] = x
  <2>1. CASE x = w
    BY <1>1, <1>2, <1>3, <2>1 DEF TypeOK
  <2>2. CASE x = v
    BY <1>1, <1>2, <1>3, <1>4, <1>6, <2>2 DEF TypeOK
  <2>3. CASE x # v /\ x # w
    <3>1. activeIn'[x] = activeIn[x] /\ windowOf[activeIn[x]] = x /\ activeIn[x] \in Tabs
      BY <1>2, <1>6, <2>3 DEF TypeOK
    <3> QED BY <1>3, <2>3, <3>1 DEF TypeOK
  <2> QED BY <2>1, <2>2, <2>3
<1>7. inbox \in Seq(Messages) /\ Extends(inbox, inbox, {})
  BY ExtendsNothing DEF TypeOK
<1>8. /\ left \in Messages /\ left.kind = "detached" /\ left.tab = t
      /\ came \in Messages /\ came.kind = "attached" /\ came.tab = t
  BY <1>1, EventIsMessage
<1> DEFINE A == Activations(v, s)  B == Activations(w, t)
           S == ((({} \cup {left}) \cup A) \cup {came}) \cup B
<1>9. Extends(inbox, inbox', S)
  <2> HIDE DEF v, left, came
  <2>1. Extends(inbox, inbox \o <<left>>, {} \cup {left})
    BY <1>7, <1>8, ThenMessage
  <2>2. Extends(inbox, (inbox \o <<left>>) \o Activated(v, s), ({} \cup {left}) \cup A)
    BY <1>1, <1>4, <1>7, <2>1, ThenActivated
  <2> DEFINE r == (inbox \o <<left>>) \o Activated(v, s)  H == ({} \cup {left}) \cup A
  <2>3. Extends(inbox, r, H)
    BY <2>2
  <2> HIDE DEF r, H
  <2>4. Extends(inbox, r \o <<came>>, H \cup {came})
    BY <1>7, <1>8, <2>3, ThenMessage
  <2>5. Extends(inbox, (r \o <<came>>) \o Activated(w, t), (H \cup {came}) \cup B)
    BY <1>1, <1>7, <2>4, ThenActivated
  <2> QED BY <1>2, <2>5 DEF r, H
<1>10. /\ \A m \in A : s \in Tabs /\ m = Event("activated", s, v)
       /\ \A m \in B : m = Event("activated", t, w)
  BY <1>4 DEF Activations
<1>11. \A m \in A : /\ m \in Messages /\ m.kind = "activated" /\ m.tab = s /\ m.window = v
                    /\ s \in Tabs /\ windowOf'[s] = v
  <2>1. s \in Tabs => windowOf'[s] = v
    BY <1>3, <1>4, WindowAssumption DEF TypeOK
  <2> HIDE DEF v
  <2> QED BY <1>1, <1>10, <2>1, EventIsMessage
<1>12. \A m \in B : /\ m \in Messages /\ m.kind = "activated" /\ m.tab = t /\ m.window = w
                    /\ windowOf'[t] = w
  <2>1. windowOf'[t] = w
    BY <1>3 DEF TypeOK
  <2> QED BY <1>10, <2>1, EventIsMessage
<1>13. \A u \in Tabs : windowOf'[u] # windowOf[u] => u = t
  BY <1>3 DEF TypeOK
<1>14. windowOf' \in [Tabs -> Windows \cup {None}]
       /\ \A u \in Tabs : windowOf[u] = None => windowOf'[u] = None
  BY <1>1, <1>3 DEF TypeOK
<1>15. \A m \in S : /\ m.kind \notin {"init", "query", "get"} /\ m.tab \in Tabs /\ m \in Messages
                    /\ m.kind \in {"activated", "complete"} => windowOf'[m.tab] = m.window
  <2> HIDE DEF left, came, v
  <2> QED BY <1>8, <1>11, <1>12
<1>16. \A u \in Tabs : windowOf'[u] # windowOf[u] =>
         \E m \in S : m \in {Event("removed", u, windowOf[u]), Event("detached", u, windowOf[u])}
  <2>1. left \in S
    OBVIOUS
  <2> HIDE DEF S
  <2> QED BY <1>13, <2>1
<1> HIDE DEF S
<1> QED BY <1>3, <1>5, <1>6, <1>9, <1>14, <1>15, <1>16 DEF UserFacts

-----------------------------------------------------------------------------
(* What a step leaves true.                                                 *)

\* The history of a call under way only grows, and has the present in it.
LEMMA HistoryGrows ==
  ASSUME TypeOK, Observe, windowOf' \in [Tabs -> Windows \cup {None}], windowId' \in Windows
  PROVE  /\ where' \in [Calls -> [Tabs -> SUBSET Windows]] /\ bound' \in [Calls -> SUBSET Windows]
         /\ \A c \in Calls : calls'[c].pc # "idle" =>
              /\ windowId' \in bound'[c] /\ bound[c] \subseteq bound'[c]
              /\ \A t \in Tabs : /\ where[c][t] \subseteq where'[c][t]
                                 /\ windowOf'[t] # None => windowOf'[t] \in where'[c][t]
<1>1. ASSUME NEW c \in Calls
      PROVE  /\ where'[c] = [t \in Tabs |-> IF calls'[c].pc = "idle" THEN {}
                                            ELSE where[c][t] \cup ({windowOf'[t]} \ {None})]
             /\ bound'[c] = IF calls'[c].pc = "idle" THEN {} ELSE bound[c] \cup {windowId'}
             /\ where'[c] \in [Tabs -> SUBSET Windows] /\ bound'[c] \in SUBSET Windows
  <2>1. /\ where'[c] = [t \in Tabs |-> IF calls'[c].pc = "idle" THEN {}
                                       ELSE where[c][t] \cup ({windowOf'[t]} \ {None})]
        /\ bound'[c] = IF calls'[c].pc = "idle" THEN {} ELSE bound[c] \cup {windowId'}
    BY DEF Observe
  <2>2. \A t \in Tabs : where[c][t] \cup ({windowOf'[t]} \ {None}) \in SUBSET Windows
    BY DEF TypeOK
  <2>3. bound[c] \cup {windowId'} \in SUBSET Windows
    BY DEF TypeOK
  <2> QED BY <2>1, <2>2, <2>3
<1>2. where' \in [Calls -> [Tabs -> SUBSET Windows]] /\ bound' \in [Calls -> SUBSET Windows]
  <2>1. /\ where' = [c \in Calls |-> where'[c]] /\ bound' = [c \in Calls |-> bound'[c]]
    BY DEF Observe
  <2> QED BY <1>1, <2>1
<1> QED BY <1>1, <1>2

\* A call a step leaves alone stays where it was, and what it checked holds.
LEMMA CallStays ==
  ASSUME TypeOK, CallsInStep, ChecksHold, Observe,
         windowOf' \in [Tabs -> Windows \cup {None}], windowId' \in Windows,
         \A t \in Tabs : windowOf[t] = None => windowOf'[t] = None,
         NEW c \in Calls, calls'[c] = calls[c], hit'[c] = hit[c]
  PROVE  InStep(c)' /\ Checked(c)'
<1>1. calls'[c].pc # "idle" =>
        /\ windowId' \in bound'[c] /\ bound[c] \subseteq bound'[c]
        /\ \A t \in Tabs : where[c][t] \subseteq where'[c][t]
  BY HistoryGrows
<1>2. InStep(c) /\ Checked(c)
  BY DEF CallsInStep, ChecksHold
<1>3. InStep(c)'
  BY <1>1, <1>2 DEF InStep
<1>4. ASSUME calls[c].pc # "idle", NEW t \in Tabs
      PROVE  /\ MayTouch(c, t) => MayTouch(c, t)'
             /\ where[c][t] \cap bound[c] # {} => where'[c][t] \cap bound'[c] # {}
  BY <1>1, <1>4 DEF MayTouch
<1>5. /\ hit[c] \subseteq Tabs
      /\ \A i \in DOMAIN calls[c].targets : calls[c].targets[i] \in Tabs
  <2>1. calls[c] \in CallStates /\ hit[c] \in SUBSET Tabs
    BY DEF TypeOK
  <2>2. calls[c].targets \in Seq(Tabs)
    BY <2>1 DEF CallStates
  <2> QED BY <2>1, <2>2, ElementOfSeq, LenProperties
<1>6. Checked(c)'
  <2>1. CASE calls[c].pc = "idle"
    BY <1>2, <2>1 DEF InStep, Checked, Passed
  <2>2. CASE calls[c].pc # "idle"
    <3>1. ASSUME NEW i \in DOMAIN calls[c].targets, calls[c].kind # "goto", Passed(c, i)
          PROVE  MayTouch(c, calls[c].targets[i])'
      <4>1. MayTouch(c, calls[c].targets[i])
        BY <1>2, <3>1 DEF Checked
      <4> DEFINE t == calls[c].targets[i]
      <4>2. t \in Tabs /\ t' = t
        BY <1>5
      <4>3. MayTouch(c, t)'
        BY <1>1, <2>2, <4>1, <4>2 DEF MayTouch
      <4> QED BY <4>3
    <3>2. ASSUME NEW t \in hit[c], calls[c].kind # "goto"
          PROVE  where'[c][t] \cap bound'[c] # {}
      BY <1>2, <1>4, <1>5, <2>2, <3>2 DEF Checked
    <3> QED BY <3>1, <3>2 DEF Checked, Passed
  <2> QED BY <2>1, <2>2
<1> QED BY <1>3, <1>6

\* News stay true, or are taken back, as messages follow; so does what holds of a tab
\* before the first message.
LEMMA NewsFollow ==
  ASSUME TypeOK, NewsIsTrue, NEW S, Extends(inbox, inbox', S),
         \A m \in S : m.kind \in {"activated", "complete", "init", "query"} /\ m.tab # None =>
           windowOf'[m.tab] = m.window,
         \A t \in Tabs : windowOf'[t] # windowOf[t] =>
           \E m \in S : m \in {Event("removed", t, windowOf[t]), Event("detached", t, windowOf[t])}
  PROVE  /\ NewsIsTrue'
         /\ \A t \in Tabs, w \in Windows :
              windowOf[t] = w \/ Leaves(t, w, 0) => windowOf'[t] = w \/ Leaves(t, w, 0)'
<1>1. /\ \A i \in DOMAIN inbox : i \in DOMAIN inbox' /\ inbox'[i] = inbox[i] /\ i > 0
      /\ \A i \in DOMAIN inbox' : i \notin DOMAIN inbox =>
           inbox'[i] \in S /\ i > 0 /\ \A k \in DOMAIN inbox : i > k
      /\ \A m \in S : \E i \in DOMAIN inbox' : i \notin DOMAIN inbox /\ inbox'[i] = m
  BY InboxDomain DEF Extends, TypeOK
<1>2. ASSUME NEW t \in Tabs, NEW w \in Windows, NEW i, i = 0 \/ i \in DOMAIN inbox,
             windowOf[t] = w \/ Leaves(t, w, i)
      PROVE  windowOf'[t] = w \/ Leaves(t, w, i)'
  <2>1. CASE Leaves(t, w, i)
    <3>1. PICK j \in DOMAIN inbox :
            j > i /\ inbox[j] \in {Event("removed", t, w), Event("detached", t, w)}
      BY <2>1 DEF Leaves
    <3> QED BY <1>1, <3>1 DEF Leaves
  <2>2. CASE windowOf[t] = w /\ windowOf'[t] # w
    <3>1. PICK m \in S : m \in {Event("removed", t, w), Event("detached", t, w)}
      BY <2>2
    <3>2. PICK j \in DOMAIN inbox' : j \notin DOMAIN inbox /\ inbox'[j] = m
      BY <1>1
    <3>3. j > i
      BY <1>1, <1>2, <3>2
    <3> QED BY <3>1, <3>2, <3>3 DEF Leaves
  <2> QED BY <1>2, <2>1, <2>2
<1>3. ASSUME NEW i \in DOMAIN inbox',
             inbox'[i].kind \in {"activated", "complete", "init", "query"}, inbox'[i].tab # None
      PROVE  windowOf'[inbox'[i].tab] = inbox'[i].window
             \/ Leaves(inbox[i].tab, inbox[i].window, i)'
  <2>1. CASE i \in DOMAIN inbox
    <3>1. inbox'[i] = inbox[i] /\ inbox[i] \in Messages
      BY <1>1, <2>1, InboxDomain DEF TypeOK
    <3>2. PICK t \in Tabs, w \in Windows : t = inbox[i].tab /\ w = inbox[i].window
      BY <1>3, <3>1 DEF Messages
    <3>3. windowOf[t] = w \/ Leaves(t, w, i)
      BY <1>3, <2>1, <3>1, <3>2 DEF NewsIsTrue
    <3>4. windowOf'[t] = w \/ Leaves(t, w, i)'
      BY <1>2, <2>1, <3>2, <3>3
    <3> QED BY <3>1, <3>2, <3>4 DEF Leaves
  <2>2. CASE i \notin DOMAIN inbox
    BY <1>1, <1>3, <2>2
  <2> QED BY <2>1, <2>2
<1>4. NewsIsTrue'
  BY <1>3 DEF NewsIsTrue
<1> QED BY <1>2, <1>4

\* A reply is for a call that a step leaves alone as it was before.
LEMMA ReplyStays ==
  ASSUME TypeOK, Observe, windowOf' \in [Tabs -> Windows \cup {None}], windowId' \in Windows,
         \A t \in Tabs : windowOf[t] = None => windowOf'[t] = None,
         NEW c \in Calls, calls'[c] = calls[c], NEW m \in Messages, ReplyIsFor(c, m)
  PROVE  ReplyIsFor(c, m)'
<1>1. calls[c].pc # "idle" => \A t \in Tabs : where[c][t] \subseteq where'[c][t]
  BY HistoryGrows
<1>2. CASE m.kind = "get"
  <2>1. m.tab \in Tabs
    BY <1>2 DEF Messages
  <2>2. calls[c].pc = "gotten" /\ m.tab = calls[c].targets[calls[c].next]
    BY <1>2 DEF ReplyIsFor
  <2>3. IF m.window = None THEN windowOf[m.tab] = None ELSE m.window \in where[c][m.tab]
    BY <1>2 DEF ReplyIsFor
  <2>4. IF m.window = None THEN windowOf'[m.tab] = None ELSE m.window \in where'[c][m.tab]
    BY <1>1, <2>1, <2>2, <2>3
  <2> QED BY <1>2, <2>2, <2>4 DEF ReplyIsFor
<1>3. CASE m.kind # "get"
  BY <1>3 DEF ReplyIsFor
<1> QED BY <1>2, <1>3

\* The user's steps keep the invariant.
LEMMA UserKeeps ==
  ASSUME TrackerInv, UserFacts, Observe
  PROVE  TrackerInv'
<1>1. TypeOK /\ NewsIsTrue /\ PointerIsTrue /\ RepliesMatch /\ CallsInStep /\ ChecksHold
  BY DEF TrackerInv
<1>2. /\ windowOf' \in [Tabs -> Windows \cup {None}] /\ windowId' \in Windows
      /\ \A t \in Tabs : windowOf[t] = None => windowOf'[t] = None
      /\ UNCHANGED <<windowId, activeTabId, ready, calls, hit>>
  BY <1>1 DEF UserFacts, TypeOK, trackerVars
<1>3. PICK S \in SUBSET Messages :
        /\ Extends(inbox, inbox', S)
        /\ \A m \in S : /\ m.kind \notin {"init", "query", "get"} /\ m.tab \in Tabs
                        /\ m.kind \in {"activated", "complete"} => windowOf'[m.tab] = m.window
        /\ \A t \in Tabs : windowOf'[t] # windowOf[t] =>
             \E m \in S : m \in {Event("removed", t, windowOf[t]), Event("detached", t, windowOf[t])}
  BY DEF UserFacts
<1>4. TypeOK'
  <2>1. where' \in [Calls -> [Tabs -> SUBSET Windows]] /\ bound' \in [Calls -> SUBSET Windows]
    BY <1>1, <1>2, HistoryGrows
  <2>2. inbox' \in Seq(Messages)
    BY <1>3 DEF Extends
  <2> QED BY <1>1, <1>2, <2>1, <2>2 DEF TypeOK, UserFacts
<1>5. /\ NewsIsTrue'
      /\ \A t \in Tabs, w \in Windows :
           windowOf[t] = w \/ Leaves(t, w, 0) => windowOf'[t] = w \/ Leaves(t, w, 0)'
  <2>1. \A m \in S : m.kind \in {"activated", "complete", "init", "query"} /\ m.tab # None =>
           windowOf'[m.tab] = m.window
    BY <1>3
  <2> QED BY <1>1, <1>3, <2>1, NewsFollow
<1>6. PointerIsTrue'
  <2>1. ASSUME activeTabId # None, ~ FoundBeforeRebind
        PROVE  windowOf'[activeTabId] = windowId \/ Leaves(activeTabId, windowId, 0)'
    <3>1. PICK t \in Tabs, w \in Windows : t = activeTabId /\ w = windowId
      BY <1>1, <2>1 DEF TypeOK
    <3>2. windowOf[t] = w \/ Leaves(t, w, 0)
      BY <1>1, <2>1, <3>1 DEF PointerIsTrue
    <3>3. windowOf'[t] = w \/ Leaves(t, w, 0)'
      BY <1>5, <3>2
    <3> QED BY <1>2, <3>1, <3>3 DEF Leaves
  <2>2. FoundBeforeRebind => FoundBeforeRebind'
    BY <1>2 DEF FoundBeforeRebind
  <2> QED BY <1>2, <2>1, <2>2 DEF PointerIsTrue
<1>7. RepliesMatch'
  <2>1. ASSUME NEW i \in DOMAIN inbox', inbox'[i].kind \in {"query", "get"}
        PROVE  i \in DOMAIN inbox /\ inbox'[i] = inbox[i]
    BY <1>3, <2>1 DEF Extends
  <2>2. ASSUME NEW i \in DOMAIN inbox, inbox[i].kind \in {"query", "get"}
        PROVE  ReplyIsFor(inbox[i].call, inbox[i])' \/ inbox'[i] # inbox[i]
    <3>1. inbox[i] \in Messages /\ inbox[i].call \in Calls
          /\ ReplyIsFor(inbox[i].call, inbox[i])
      BY <1>1, <2>2, InboxDomain DEF TypeOK, RepliesMatch, Messages
    <3>2. PICK m \in Messages, c \in Calls : m = inbox[i] /\ c = inbox[i].call
      BY <3>1
    <3>3. ReplyIsFor(c, m)'
      BY <1>1, <1>2, <3>1, <3>2, ReplyStays
    <3> QED BY <3>2, <3>3 DEF ReplyIsFor
  <2> QED BY <1>1, <2>1, <2>2 DEF RepliesMatch
<1>8. CallsInStep' /\ ChecksHold'
  BY <1>1, <1>2, CallStays DEF CallsInStep, ChecksHold
<1> QED BY <1>4, <1>5, <1>6, <1>7, <1>8 DEF TrackerInv

\* The call that waits for reply m gets it sent: it is now "queried" or "gotten".
Answered(c, m) ==
  /\ m.call = c
  /\ \/ m.kind = "query" /\ calls[c].pc = "query" /\ calls'[c] = [calls[c] EXCEPT !.pc = "queried"]
     \/ m.kind = "get" /\ calls[c].pc = "get" /\ calls'[c] = [calls[c] EXCEPT !.pc = "gotten"]

\* Chrome's answers keep the invariant.
LEMMA AnswerKeeps ==
  ASSUME TrackerInv, Observe,
         NEW m \in Messages, inbox' = Append(inbox, m), m.kind \in {"init", "query", "get"},
         m.kind \in {"init", "query"} /\ m.tab # None => windowOf[m.tab] = m.window,
         m.kind = "query" => calls[m.call].window = m.window,
         m.kind = "get" => /\ m.tab = calls[m.call].targets[calls[m.call].next]
                           /\ m.window = windowOf[m.tab],
         UNCHANGED <<windowOf, activeIn, windowId, activeTabId, hit>>,
         ready' \in {"query", "queried", "ready"},
         calls' \in [Calls -> CallStates],
         \A c \in Calls : Answered(c, m) \/ calls'[c] = calls[c],
         m.kind \in {"query", "get"} => m.call \in Calls /\ Answered(m.call, m)
  PROVE  TrackerInv'
<1>1. TypeOK /\ NewsIsTrue /\ PointerIsTrue /\ RepliesMatch /\ CallsInStep /\ ChecksHold
  BY DEF TrackerInv
<1>2. /\ windowOf' \in [Tabs -> Windows \cup {None}] /\ windowId' \in Windows
      /\ \A t \in Tabs : windowOf[t] = None => windowOf'[t] = None
  BY <1>1 DEF TypeOK
<1>3. Extends(inbox, inbox', {m}) /\ inbox' \in Seq(Messages)
  BY <1>1, ExtendsByOne DEF TypeOK, Extends
<1>4. /\ where' \in [Calls -> [Tabs -> SUBSET Windows]] /\ bound' \in [Calls -> SUBSET Windows]
      /\ \A c \in Calls : calls'[c].pc # "idle" =>
              /\ windowId' \in bound'[c] /\ bound[c] \subseteq bound'[c]
              /\ \A t \in Tabs : /\ where[c][t] \subseteq where'[c][t]
                                 /\ windowOf'[t] # None => windowOf'[t] \in where'[c][t]
  BY <1>1, <1>2, HistoryGrows
<1>5. ASSUME NEW c \in Calls, Answered(c, m)
      PROVE  /\ calls[c].pc \in {"query", "get"} /\ calls'[c].pc \in {"queried", "gotten"}
             /\ m.kind = "query" => calls'[c].pc = "queried"
             /\ m.kind = "get" => calls'[c].pc = "gotten"
             /\ calls'[c].pc = "gotten" => calls[c].pc = "get"
             /\ calls'[c].pc = "queried" => calls[c].pc = "query"
             /\ calls'[c].kind = calls[c].kind /\ calls'[c].targets = calls[c].targets
             /\ calls'[c].next = calls[c].next /\ calls'[c].asked = calls[c].asked
             /\ calls'[c].window = calls[c].window
  <2>1. calls[c] \in CallStates
    BY <1>1 DEF TypeOK
  <2> QED BY <1>5, <2>1 DEF Answered, CallStates
<1>6. TypeOK'
  <2>1. ASSUME NEW c \in Calls
        PROVE  /\ calls'[c].pc \in {"get", "gotten"} => calls'[c].next \in DOMAIN calls'[c].targets
               /\ calls'[c].pc = "go" => calls'[c].targets # <<>>
    BY <1>1, <1>5 DEF TypeOK
  <2> QED BY <1>1, <1>3, <1>4, <2>1 DEF TypeOK
<1>7. /\ NewsIsTrue'
      /\ \A t \in Tabs, w \in Windows :
           windowOf[t] = w \/ Leaves(t, w, 0) => windowOf'[t] = w \/ Leaves(t, w, 0)'
  BY <1>1, <1>3, NewsFollow
<1>8. PointerIsTrue'
  <2>1. ASSUME activeTabId # None, ~ FoundBeforeRebind
        PROVE  windowOf'[activeTabId] = windowId \/ Leaves(activeTabId, windowId, 0)'
    <3>1. PICK t \in Tabs, w \in Windows : t = activeTabId /\ w = windowId
      BY <1>1, <2>1 DEF TypeOK
    <3>2. windowOf[t] = w \/ Leaves(t, w, 0)
      BY <1>1, <2>1, <3>1 DEF PointerIsTrue
    <3>3. windowOf'[t] = w \/ Leaves(t, w, 0)'
      BY <1>7, <3>2
    <3> QED BY <3>1, <3>3 DEF Leaves
  <2>2. FoundBeforeRebind => FoundBeforeRebind'
    <3>1. \A c \in Calls : /\ calls'[c].asked = calls[c].asked
                           /\ calls'[c].window = calls[c].window
                           /\ calls'[c].targets = calls[c].targets
      BY <1>5
    <3> QED BY <3>1 DEF FoundBeforeRebind
  <2> QED BY <2>1, <2>2 DEF PointerIsTrue
<1>9. ASSUME m.kind \in {"query", "get"} PROVE ReplyIsFor(m.call, m)'
  <2>1. m.call \in Calls /\ Answered(m.call, m) /\ InStep(m.call)
    BY <1>1, <1>9 DEF CallsInStep
  <2>2. CASE m.kind = "query"
    BY <1>5, <2>1, <2>2 DEF ReplyIsFor, InStep
  <2>3. CASE m.kind = "get"
    <3>1. m.tab \in Tabs
      BY <2>3 DEF Messages
    <3>2. IF m.window = None THEN windowOf'[m.tab] = None ELSE m.window \in where'[m.call][m.tab]
      BY <1>4, <1>5, <2>1, <2>3, <3>1
    <3> QED BY <1>5, <2>1, <2>3, <3>2 DEF ReplyIsFor
  <2> QED BY <1>9, <2>2, <2>3
<1>10. RepliesMatch'
  <2>1. ASSUME NEW i \in DOMAIN inbox, inbox[i].kind \in {"query", "get"}
        PROVE  /\ inbox[i].call \in Calls /\ inbox'[i] = inbox[i]
               /\ ReplyIsFor(inbox[i].call, inbox[i])' /\ ~ Answered(inbox[i].call, m)
    <3>1. inbox[i] \in Messages /\ inbox[i].call \in Calls
          /\ ReplyIsFor(inbox[i].call, inbox[i]) /\ inbox'[i] = inbox[i]
      BY <1>1, <1>3, <2>1, InboxDomain DEF TypeOK, RepliesMatch, Messages, Extends
    <3>2. PICK r \in Messages, c \in Calls : r = inbox[i] /\ c = inbox[i].call
      BY <3>1
    <3>3. ~ Answered(c, m)
      BY <1>5, <2>1, <3>1, <3>2 DEF ReplyIsFor
    <3>4. ReplyIsFor(c, r)'
      BY <1>1, <1>2, <3>1, <3>2, <3>3, ReplyStays
    <3> QED BY <3>1, <3>2, <3>3, <3>4 DEF ReplyIsFor
  <2>2. DOMAIN inbox' = (DOMAIN inbox) \cup {Len(inbox) + 1} /\ inbox'[Len(inbox) + 1] = m
    <3>1. /\ Len(inbox') = Len(inbox) + 1 /\ inbox'[Len(inbox) + 1] = m
          /\ inbox \in Seq(Messages)
      BY <1>1, AppendProperties DEF TypeOK
    <3>2. DOMAIN inbox' = 1..(Len(inbox) + 1) /\ DOMAIN inbox = 1..Len(inbox) /\ Len(inbox) \in Nat
      BY <1>3, <3>1, InboxDomain
    <3> QED BY <3>1, <3>2
  <2>3. ASSUME NEW i \in DOMAIN inbox', inbox'[i].kind \in {"query", "get"}
        PROVE  ReplyIsFor(inbox[i].call, inbox[i])'
    <3>1. CASE i \in DOMAIN inbox
      BY <1>3, <2>1, <2>3, <3>1 DEF Extends
    <3>2. CASE i = Len(inbox) + 1
      BY <1>9, <2>2, <2>3, <3>2 DEF ReplyIsFor
    <3> QED BY <2>2, <3>1, <3>2
  <2>4. ASSUME NEW i \in DOMAIN inbox', NEW j \in DOMAIN inbox',
               inbox'[i].kind \in {"query", "get"}, inbox'[j].kind \in {"query", "get"},
               inbox'[i].call = inbox'[j].call
        PROVE  i = j
    <3>1. CASE i \in DOMAIN inbox /\ j \in DOMAIN inbox
      BY <1>1, <1>3, <2>4, <3>1 DEF RepliesMatch, Extends
    <3>2. ASSUME NEW k \in DOMAIN inbox, inbox'[k].kind \in {"query", "get"},
                 inbox'[k].call = m.call, m.kind \in {"query", "get"}
          PROVE  FALSE
      BY <1>3, <2>1, <3>2 DEF Extends
    <3> QED BY <2>2, <2>4, <3>1, <3>2
  <2> QED BY <2>3, <2>4 DEF RepliesMatch
<1>11. ASSUME NEW c \in Calls PROVE InStep(c)' /\ Checked(c)'
  <2>1. CASE calls'[c] = calls[c]
    BY <1>1, <1>2, <2>1, CallStays
  <2>2. CASE Answered(c, m)
    <3>1. InStep(c) /\ Checked(c)
      BY <1>1 DEF CallsInStep, ChecksHold
    <3>2. InStep(c)'
      BY <1>4, <1>5, <2>2, <3>1 DEF InStep
    <3>3. hit[c] \subseteq Tabs /\ \A i \in DOMAIN calls[c].targets : calls[c].targets[i] \in Tabs
      <4>1. calls[c] \in CallStates /\ hit[c] \in SUBSET Tabs
        BY <1>1 DEF TypeOK
      <4>2. calls[c].targets \in Seq(Tabs)
        BY <4>1 DEF CallStates
      <4> QED BY <4>1, <4>2, ElementOfSeq, LenProperties
    <3>4. \A t \in Tabs : /\ MayTouch(c, t) => MayTouch(c, t)'
                          /\ where[c][t] \cap bound[c] # {} => where'[c][t] \cap bound'[c] # {}
      BY <1>4, <1>5, <2>2 DEF MayTouch
    <3>5. ASSUME NEW i \in DOMAIN calls[c].targets, calls[c].kind # "goto", Passed(c, i)'
          PROVE  MayTouch(c, calls[c].targets[i])'
      <4>1. Passed(c, i)
        BY <1>5, <2>2, <3>5 DEF Passed
      <4>2. PICK t \in Tabs : t = calls[c].targets[i]
        BY <3>3
      <4>3. MayTouch(c, t)'
        BY <3>1, <3>4, <3>5, <4>1, <4>2 DEF Checked
      <4> QED BY <1>5, <2>2, <4>2, <4>3 DEF MayTouch
    <3>6. ASSUME NEW t \in hit[c], calls[c].kind # "goto"
          PROVE  where'[c][t] \cap bound'[c] # {}
      BY <3>1, <3>3, <3>4, <3>6 DEF Checked
    <3> QED BY <1>5, <2>2, <3>2, <3>5, <3>6 DEF Checked
  <2> QED BY <2>1, <2>2
<1> QED BY <1>6, <1>7, <1>8, <1>10, <1>11 DEF TrackerInv, CallsInStep, ChecksHold

\* Chrome answers the page.
LEMMA AnswersKeep ==
  ASSUME TrackerInv, Observe,
         AnswerInit \/ \E c \in Calls : AnswerQuery(c) \/ AnswerGet(c)
  PROVE  TrackerInv'
<1>1. TypeOK /\ CallsInStep
  BY DEF TrackerInv
<1>2. CASE AnswerInit
  <2>1. PICK w \in Windows : inbox' = Append(inbox, Reply("init", None, activeIn[w], w))
    BY <1>2 DEF AnswerInit
  <2> DEFINE m == Reply("init", None, activeIn[w], w)
  <2>2. /\ m \in Messages /\ m.kind = "init"
        /\ m.tab # None => windowOf[m.tab] = m.window
    BY <1>1 DEF TypeOK, Messages, Reply
  <2>3. /\ UNCHANGED <<windowOf, activeIn, windowId, activeTabId, hit>> /\ calls' = calls
        /\ ready' \in {"query", "queried", "ready"} /\ calls' \in [Calls -> CallStates]
    BY <1>1, <1>2 DEF AnswerInit, TypeOK, chromeVars
  <2>4. inbox' = Append(inbox, m)
    BY <2>1
  <2> HIDE DEF m
  <2> QED BY <2>2, <2>3, <2>4, AnswerKeeps
<1>3. ASSUME NEW c \in Calls, AnswerQuery(c) PROVE TrackerInv'
  <2>1. calls[c] \in CallStates /\ calls[c].window \in Windows
    <3>1. calls[c] \in CallStates /\ calls[c].window \in bound[c] /\ bound[c] \in SUBSET Windows
      BY <1>1, <1>3 DEF AnswerQuery, TypeOK, CallsInStep, InStep
    <3> QED BY <3>1
  <2> DEFINE m == Reply("query", c, activeIn[calls[c].window], calls[c].window)
  <2>2. /\ m \in Messages /\ m.kind = "query" /\ m.call = c /\ calls[c].window = m.window
        /\ m.tab # None => windowOf[m.tab] = m.window
    BY <1>1, <2>1 DEF TypeOK, Messages, Reply
  <2>3. /\ UNCHANGED <<windowOf, activeIn, windowId, activeTabId, ready, hit>>
        /\ calls[c].pc = "query" /\ calls' = [calls EXCEPT ![c].pc = "queried"]
        /\ inbox' = Append(inbox, m)
    BY <1>3 DEF AnswerQuery, chromeVars, trackerVars
  <2> HIDE DEF m
  <2>4. /\ calls' \in [Calls -> CallStates]
        /\ \A d \in Calls : Answered(d, m) \/ calls'[d] = calls[d]
        /\ Answered(c, m)
    <3>1. [calls[c] EXCEPT !.pc = "queried"] \in CallStates
      BY <2>1 DEF CallStates, Steps
    <3> QED BY <1>1, <2>2, <2>3, <3>1 DEF TypeOK, Answered
  <2> QED BY <1>1, <2>2, <2>3, <2>4, AnswerKeeps DEF TypeOK
<1>4. ASSUME NEW c \in Calls, AnswerGet(c) PROVE TrackerInv'
  <2> DEFINE t == calls[c].targets[calls[c].next]
             m == Reply("get", c, t, windowOf[t])
  <2>1. calls[c] \in CallStates /\ t \in Tabs
    <3>1. calls[c] \in CallStates /\ calls[c].next \in DOMAIN calls[c].targets
      BY <1>1, <1>4 DEF AnswerGet, TypeOK
    <3>2. calls[c].targets \in Seq(Tabs)
      BY <3>1 DEF CallStates
    <3> QED BY <3>1, <3>2, ElementOfSeq, LenProperties
  <2>2. /\ m \in Messages /\ m.kind = "get" /\ m.call = c /\ m.tab = t /\ m.window = windowOf[t]
    <3> HIDE DEF t
    <3> QED BY <1>1, <2>1 DEF TypeOK, Messages, Reply
  <2>3. /\ UNCHANGED <<windowOf, activeIn, windowId, activeTabId, ready, hit>>
        /\ calls[c].pc = "get" /\ calls' = [calls EXCEPT ![c].pc = "gotten"]
        /\ inbox' = Append(inbox, m)
    BY <1>4 DEF AnswerGet, chromeVars, trackerVars
  <2> HIDE DEF m
  <2>4. /\ calls' \in [Calls -> CallStates]
        /\ \A d \in Calls : Answered(d, m) \/ calls'[d] = calls[d]
        /\ Answered(c, m)
    <3>1. [calls[c] EXCEPT !.pc = "gotten"] \in CallStates
      BY <2>1 DEF CallStates, Steps
    <3> QED BY <1>1, <2>2, <2>3, <3>1 DEF TypeOK, Answered
  <2> QED BY <1>1, <2>2, <2>3, <2>4, AnswerKeeps DEF TypeOK
<1> QED BY <1>2, <1>3, <1>4

\* A step of one call that no reply is on its way to keeps the invariant.
LEMMA CallStepKeeps ==
  ASSUME TrackerInv, Observe, UNCHANGED <<windowOf, activeIn, trackerVars, inbox>>,
         NEW c \in Calls, calls[c].pc \notin {"queried", "gotten"},
         calls' \in [Calls -> CallStates], hit' \in [Calls -> SUBSET Tabs],
         \A d \in Calls \ {c} : calls'[d] = calls[d] /\ hit'[d] = hit[d],
         calls'[c].pc \in {"get", "gotten"} => calls'[c].next \in DOMAIN calls'[c].targets,
         calls'[c].pc = "go" => calls'[c].targets # <<>>,
         calls[c].asked => /\ calls'[c].asked /\ calls'[c].window = calls[c].window
                           /\ calls'[c].targets = calls[c].targets,
         InStep(c)', Checked(c)'
  PROVE  TrackerInv'
<1>1. TypeOK /\ NewsIsTrue /\ PointerIsTrue /\ RepliesMatch /\ CallsInStep /\ ChecksHold
  BY DEF TrackerInv
<1>2. /\ windowOf' \in [Tabs -> Windows \cup {None}] /\ windowId' \in Windows
      /\ UNCHANGED <<windowId, activeTabId, ready>>
  BY <1>1 DEF TypeOK, trackerVars
<1>3. TypeOK'
  <2>1. where' \in [Calls -> [Tabs -> SUBSET Windows]] /\ bound' \in [Calls -> SUBSET Windows]
    BY <1>1, <1>2, HistoryGrows
  <2>2. ASSUME NEW d \in Calls
        PROVE  /\ calls'[d].pc \in {"get", "gotten"} => calls'[d].next \in DOMAIN calls'[d].targets
               /\ calls'[d].pc = "go" => calls'[d].targets # <<>>
    BY <1>1 DEF TypeOK
  <2> QED BY <1>1, <1>2, <2>1, <2>2 DEF TypeOK
<1>4. NewsIsTrue'
  BY <1>1 DEF NewsIsTrue, Leaves
<1>5. PointerIsTrue'
  <2>1. FoundBeforeRebind => FoundBeforeRebind'
    BY <1>2 DEF FoundBeforeRebind
  <2> QED BY <1>1, <1>2, <2>1 DEF PointerIsTrue, Leaves
<1>6. RepliesMatch'
  <2>1. ASSUME NEW i \in DOMAIN inbox, inbox[i].kind \in {"query", "get"}
        PROVE  ReplyIsFor(inbox[i].call, inbox[i])'
    <3>1. inbox[i] \in Messages /\ inbox[i].call \in Calls
          /\ ReplyIsFor(inbox[i].call, inbox[i])
      BY <1>1, <2>1, InboxDomain DEF TypeOK, RepliesMatch, Messages
    <3>2. PICK r \in Messages, d \in Calls : r = inbox[i] /\ d = inbox[i].call
      BY <3>1
    <3>3. d # c
      BY <2>1, <3>1, <3>2 DEF ReplyIsFor
    <3>4. ReplyIsFor(d, r)'
      BY <1>1, <1>2, <3>1, <3>2, <3>3, ReplyStays
    <3> QED BY <3>2, <3>4 DEF ReplyIsFor
  <2> QED BY <1>1, <2>1 DEF RepliesMatch
<1>7. ASSUME NEW d \in Calls PROVE InStep(d)' /\ Checked(d)'
  BY <1>1, <1>2, CallStays
<1> QED BY <1>3, <1>4, <1>5, <1>6, <1>7 DEF TrackerInv, CallsInStep, ChecksHold

\* The starts of calls keep the invariant.
LEMMA StartKeeps ==
  ASSUME TrackerInv, Observe, UNCHANGED <<chromeVars, trackerVars, inbox, hit>>,
         NEW c \in Calls, calls[c].pc = "idle",
         NEW kind \in Kinds, NEW targets \in Seq(Tabs), NEW pc \in {"query", "get", "go"},
         pc = "go" => kind = "goto", pc # "query" => targets # <<>>,
         StartAs(c, kind, targets, pc)
  PROVE  TrackerInv'
<1>1. TypeOK /\ InStep(c)
  BY DEF TrackerInv, CallsInStep
<1>2. /\ UNCHANGED <<windowOf, activeIn, windowId, activeTabId, ready, inbox, hit, trackerVars>>
      /\ windowId \in Windows /\ calls[c] = Idle /\ hit[c] = {}
  BY <1>1 DEF chromeVars, trackerVars, TypeOK, InStep
<1> DEFINE s == [pc |-> pc, kind |-> kind, targets |-> targets, next |-> 1,
                 asked |-> pc = "query", window |-> windowId]
<1>3. /\ s \in CallStates /\ s.pc = pc /\ s.kind = kind /\ s.targets = targets /\ s.next = 1
      /\ s.asked = (pc = "query") /\ s.window = windowId
  <2>1. (pc = "query") \in BOOLEAN
    OBVIOUS
  <2>2. s.asked = (pc = "query")
    BY Zenon
  <2>3. s \in CallStates
    BY <1>2, <2>1 DEF CallStates, Steps
  <2> QED BY <2>2, <2>3
<1>4. calls' = [calls EXCEPT ![c] = s]
  BY DEF StartAs
<1> HIDE DEF s
<1>5. /\ calls' \in [Calls -> CallStates] /\ calls'[c] = s
      /\ \A d \in Calls \ {c} : calls'[d] = calls[d] /\ hit'[d] = hit[d]
  BY <1>1, <1>2, <1>3, <1>4 DEF TypeOK
<1>6. InStep(c)'
  <2>1. windowId' \in bound'[c]
    BY <1>1, <1>2, <1>3, <1>5, HistoryGrows DEF TypeOK
  <2>2. s.pc = "query" => s.asked
    BY <1>3
  <2> QED BY <1>2, <1>3, <1>5, <2>1, <2>2 DEF InStep
<1>7. Checked(c)'
  <2>1. ASSUME NEW i \in DOMAIN targets, kind # "goto" PROVE ~ Passed(c, i)'
    <3>1. i \in Nat \ {0}
      BY LenProperties
    <3> QED BY <1>3, <1>5, <2>1, <3>1 DEF Passed
  <2> QED BY <1>2, <1>3, <1>5, <2>1 DEF Checked
<1>8. pc = "get" => 1 \in DOMAIN targets
  BY EmptySeq, LenProperties
<1>9. ~ calls[c].asked /\ calls[c].pc \notin {"queried", "gotten"} /\ hit' \in [Calls -> SUBSET Tabs]
  BY <1>1, <1>2 DEF Idle, TypeOK
<1> QED BY <1>2, <1>3, <1>5, <1>6, <1>7, <1>8, <1>9, CallStepKeeps

\* A call starts.
LEMMA StartsKeep ==
  ASSUME TrackerInv, Observe, NEW c \in Calls, StartNamed(c) \/ StartActive(c)
  PROVE  TrackerInv'
<1>1. CASE StartNamed(c)
  <2>1. PICK kind \in Kinds : \E targets \in SeqOf(Tabs, IF kind = "native" THEN 2 ELSE 1) \ {<<>>} :
                                StartAs(c, kind, targets, AfterResolve(kind))
    BY <1>1 DEF StartNamed
  <2> DEFINE n == IF kind = "native" THEN 2 ELSE 1
  <2>2. PICK targets \in SeqOf(Tabs, n) \ {<<>>} : StartAs(c, kind, targets, AfterResolve(kind))
    BY <2>1
  <2>3. targets \in Seq(Tabs)
    <3>1. PICK m \in 0..n : targets \in [1..m -> Tabs]
      BY DEF SeqOf
    <3>2. m \in Nat
      OBVIOUS
    <3> QED BY <3>1, <3>2, SeqDef
  <2>4. /\ AfterResolve(kind) \in {"query", "get", "go"}
        /\ AfterResolve(kind) = "go" => kind = "goto"
    BY DEF AfterResolve
  <2> QED BY <1>1, <2>2, <2>3, <2>4, StartKeeps DEF StartNamed
<1>2. CASE StartActive(c)
  <2>1. PICK kind \in Kinds :
           IF activeTabId # None THEN StartAs(c, kind, <<activeTabId>>, AfterResolve(kind))
           ELSE StartAs(c, kind, <<>>, "query")
    BY <1>2 DEF StartActive
  <2>2. CASE activeTabId # None
    <3>1. activeTabId \in Tabs
      BY <2>2 DEF TrackerInv, TypeOK
    <3> DEFINE one == <<activeTabId>>
    <3>2. one \in Seq(Tabs) /\ one # <<>>
      BY <3>1
    <3>3. /\ AfterResolve(kind) \in {"query", "get", "go"}
          /\ AfterResolve(kind) = "go" => kind = "goto"
          /\ StartAs(c, kind, one, AfterResolve(kind))
      BY <2>1, <2>2 DEF AfterResolve
    <3> HIDE DEF one
    <3> QED BY <1>2, <3>2, <3>3, StartKeeps DEF StartActive
  <2>3. CASE activeTabId = None
    <3>1. <<>> \in Seq(Tabs) /\ StartAs(c, kind, <<>>, "query")
      BY <2>1, <2>3
    <3> QED BY <1>2, <3>1, StartKeeps DEF StartActive
  <2> QED BY <2>2, <2>3
<1> QED BY <1>1, <1>2

\* Acting keeps the invariant: only targets that passed the check are acted on.
LEMMA ActKeeps ==
  ASSUME TrackerInv, Observe, NEW c \in Calls, Act(c)
  PROVE  TrackerInv'
<1>1. TypeOK /\ InStep(c) /\ Checked(c) /\ calls[c] \in CallStates
  BY DEF TrackerInv, CallsInStep, ChecksHold, TypeOK
<1>2. /\ UNCHANGED <<windowOf, activeIn, windowId, trackerVars, inbox>>
      /\ calls[c].pc = "go" /\ calls' = [calls EXCEPT ![c].pc = "done"]
      /\ hit' = [hit EXCEPT ![c] = {t \in Tabs :
               windowOf[t] # None /\ \E i \in DOMAIN calls[c].targets : calls[c].targets[i] = t}]
  BY DEF Act, chromeVars, trackerVars
<1>3. /\ calls'[c] = [calls[c] EXCEPT !.pc = "done"] /\ calls'[c] \in CallStates
      /\ calls'[c].pc = "done" /\ calls'[c].kind = calls[c].kind
      /\ calls'[c].targets = calls[c].targets /\ calls'[c].asked = calls[c].asked
      /\ calls'[c].window = calls[c].window
  <2>1. calls'[c] = [calls[c] EXCEPT !.pc = "done"]
    BY <1>1, <1>2 DEF TypeOK
  <2> QED BY <1>1, <2>1 DEF CallStates, Steps
<1>4. /\ calls' \in [Calls -> CallStates] /\ hit' \in [Calls -> SUBSET Tabs]
      /\ \A d \in Calls \ {c} : calls'[d] = calls[d] /\ hit'[d] = hit[d]
  <2>1. hit'[c] \in SUBSET Tabs /\ \A d \in Calls \ {c} : calls'[d] = calls[d] /\ hit'[d] = hit[d]
    BY <1>1, <1>2 DEF TypeOK
  <2>2. hit' \in [Calls -> SUBSET Tabs]
    BY <1>1, <1>2, <2>1 DEF TypeOK
  <2>3. calls' \in [Calls -> CallStates]
    BY <1>1, <1>2, <1>3, <2>1 DEF TypeOK
  <2> QED BY <2>1, <2>2, <2>3
<1>5. /\ windowId' \in bound'[c] /\ bound[c] \subseteq bound'[c]
      /\ \A t \in Tabs : where[c][t] \subseteq where'[c][t]
  BY <1>1, <1>2, <1>3, HistoryGrows DEF TypeOK
<1>6. InStep(c)'
  BY <1>1, <1>2, <1>3, <1>5 DEF InStep
<1>7. Checked(c)'
  <2>1. ASSUME NEW t \in hit'[c], calls[c].kind # "goto" PROVE where'[c][t] \cap bound'[c] # {}
    <3>1. t \in Tabs /\ windowOf[t] # None /\ \E i \in DOMAIN calls[c].targets : calls[c].targets[i] = t
      BY <1>1, <1>2, <2>1 DEF TypeOK
    <3>2. PICK i \in DOMAIN calls[c].targets : calls[c].targets[i] = t
      BY <3>1
    <3>3. MayTouch(c, t)
      BY <1>1, <1>2, <2>1, <3>2 DEF Checked, Passed
    <3> QED BY <1>5, <3>1, <3>3 DEF MayTouch
  <2> QED BY <1>3, <2>1 DEF Checked, Passed
<1> QED BY <1>2, <1>3, <1>4, <1>6, <1>7, CallStepKeeps

\* So does a rebind: the pointer is dropped.
LEMMA RebindKeeps ==
  ASSUME TrackerInv, Observe, NEW w \in Windows, RebindWindow(w)
  PROVE  TrackerInv'
<1>1. TypeOK /\ NewsIsTrue /\ PointerIsTrue /\ RepliesMatch /\ CallsInStep /\ ChecksHold
  BY DEF TrackerInv
<1>2. /\ UNCHANGED <<windowOf, activeIn, ready, inbox, calls, hit>>
      /\ windowId' = w /\ activeTabId' = None
  BY DEF RebindWindow, chromeVars
<1>3. windowOf' \in [Tabs -> Windows \cup {None}] /\ windowId' \in Windows
  BY <1>1, <1>2 DEF TypeOK
<1>4. TypeOK'
  <2>1. where' \in [Calls -> [Tabs -> SUBSET Windows]] /\ bound' \in [Calls -> SUBSET Windows]
    BY <1>1, <1>3, HistoryGrows
  <2> QED BY <1>1, <1>2, <2>1 DEF TypeOK
<1>5. NewsIsTrue' /\ PointerIsTrue'
  BY <1>1, <1>2 DEF NewsIsTrue, PointerIsTrue, Leaves
<1>6. RepliesMatch'
  <2>1. ASSUME NEW i \in DOMAIN inbox, inbox[i].kind \in {"query", "get"}
        PROVE  ReplyIsFor(inbox[i].call, inbox[i])'
    <3>1. inbox[i] \in Messages /\ inbox[i].call \in Calls
          /\ ReplyIsFor(inbox[i].call, inbox[i])
      BY <1>1, <2>1, InboxDomain DEF TypeOK, RepliesMatch, Messages
    <3>2. PICK r \in Messages, d \in Calls : r = inbox[i] /\ d = inbox[i].call
      BY <3>1
    <3>3. ReplyIsFor(d, r)'
      BY <1>1, <1>2, <1>3, <3>1, <3>2, ReplyStays
    <3> QED BY <1>2, <3>2, <3>3 DEF ReplyIsFor
  <2> QED BY <1>1, <1>2, <2>1 DEF RepliesMatch
<1>7. CallsInStep' /\ ChecksHold'
  BY <1>1, <1>2, <1>3, CallStays DEF CallsInStep, ChecksHold
<1> QED BY <1>4, <1>5, <1>6, <1>7 DEF TrackerInv

-----------------------------------------------------------------------------
(* The messages of Chrome.                                                  *)

\* What is said of the inbox after its first message is taken.
LEMMA InboxMovesUp ==
  ASSUME TypeOK, inbox # <<>>, inbox' = Tail(inbox)
  PROVE  /\ Head(inbox) = inbox[1] /\ inbox[1] \in Messages /\ 1 \in DOMAIN inbox
         /\ inbox' \in Seq(Messages)
         /\ \A i \in DOMAIN inbox' : i \in Nat \ {0} /\ i + 1 \in DOMAIN inbox /\ inbox'[i] = inbox[i + 1]
         /\ \A i \in DOMAIN inbox : i \in Nat \ {0} /\ (i # 1 => i - 1 \in DOMAIN inbox' /\ inbox'[i - 1] = inbox[i])
         /\ \A t \in Tabs, w \in Windows :
              /\ Leaves(t, w, 1) => Leaves(t, w, 0)'
              /\ Leaves(t, w, 0) => \/ Leaves(t, w, 0)'
                                    \/ inbox[1] \in {Event("removed", t, w), Event("detached", t, w)}
<1>1. /\ inbox \in Seq(Messages) /\ inbox' \in Seq(Messages) /\ Len(inbox') = Len(inbox) - 1
      /\ Head(inbox) = inbox[1] /\ Len(inbox) \in Nat \ {0}
      /\ \A i \in 1..Len(inbox') : inbox'[i] = inbox[i + 1]
  BY HeadTailProperties, EmptySeq, LenProperties DEF TypeOK
<1>2. /\ DOMAIN inbox = 1..Len(inbox) /\ DOMAIN inbox' = 1..Len(inbox')
      /\ \A i \in DOMAIN inbox : inbox[i] \in Messages
  BY <1>1, InboxDomain
<1>3. /\ 1 \in DOMAIN inbox
      /\ \A i \in DOMAIN inbox' : i \in Nat \ {0} /\ i + 1 \in DOMAIN inbox /\ inbox'[i] = inbox[i + 1]
      /\ \A i \in DOMAIN inbox : i \in Nat \ {0} /\ (i # 1 => i - 1 \in DOMAIN inbox' /\ inbox'[i - 1] = inbox[i])
  BY <1>1, <1>2
<1>4. ASSUME NEW t \in Tabs, NEW w \in Windows, NEW j \in DOMAIN inbox, j # 1,
             inbox[j] \in {Event("removed", t, w), Event("detached", t, w)}
      PROVE  Leaves(t, w, 0)'
  <2>1. j - 1 \in DOMAIN inbox' /\ inbox'[j - 1] = inbox[j] /\ j - 1 > 0
    BY <1>3, <1>4
  <2> QED BY <1>4, <2>1 DEF Leaves
<1>5. ASSUME NEW t \in Tabs, NEW w \in Windows
      PROVE  /\ Leaves(t, w, 1) => Leaves(t, w, 0)'
             /\ Leaves(t, w, 0) => \/ Leaves(t, w, 0)'
                                   \/ inbox[1] \in {Event("removed", t, w), Event("detached", t, w)}
  <2>1. ASSUME Leaves(t, w, 1) PROVE Leaves(t, w, 0)'
    <3>1. PICK j \in DOMAIN inbox :
            j > 1 /\ inbox[j] \in {Event("removed", t, w), Event("detached", t, w)}
      BY <2>1 DEF Leaves
    <3> QED BY <1>3, <1>4, <3>1
  <2>2. ASSUME Leaves(t, w, 0) PROVE Leaves(t, w, 0)'
                                   \/ inbox[1] \in {Event("removed", t, w), Event("detached", t, w)}
    <3>1. PICK j \in DOMAIN inbox :
            inbox[j] \in {Event("removed", t, w), Event("detached", t, w)}
      BY <2>2 DEF Leaves
    <3> QED BY <1>4, <3>1
  <2> QED BY <2>1, <2>2
<1> QED BY <1>1, <1>2, <1>3, <1>5

\* News are as true after the first message is taken.
LEMMA NewsMoveUp ==
  ASSUME TypeOK, NewsIsTrue, inbox # <<>>, inbox' = Tail(inbox), UNCHANGED windowOf
  PROVE  NewsIsTrue'
<1>1. ASSUME NEW i \in DOMAIN inbox',
             inbox'[i].kind \in {"activated", "complete", "init", "query"}, inbox'[i].tab # None
      PROVE  windowOf'[inbox'[i].tab] = inbox'[i].window
             \/ Leaves(inbox[i].tab, inbox[i].window, i)'
  <2>1. i \in Nat /\ i + 1 \in DOMAIN inbox /\ inbox'[i] = inbox[i + 1]
    BY InboxMovesUp
  <2>2. ASSUME Leaves(inbox[i + 1].tab, inbox[i + 1].window, i + 1)
        PROVE  Leaves(inbox[i].tab, inbox[i].window, i)'
    <3>1. PICK j \in DOMAIN inbox : j > i + 1 /\
            inbox[j] \in {Event("removed", inbox[i + 1].tab, inbox[i + 1].window),
                          Event("detached", inbox[i + 1].tab, inbox[i + 1].window)}
      BY <2>2 DEF Leaves
    <3>2. j - 1 \in DOMAIN inbox' /\ inbox'[j - 1] = inbox[j] /\ j - 1 > i
      BY <2>1, <3>1, InboxMovesUp
    <3> QED BY <2>1, <3>1, <3>2 DEF Leaves, Event
  <2> QED BY <1>1, <2>1, <2>2 DEF NewsIsTrue
<1> QED BY <1>1 DEF NewsIsTrue

\* What a handler must see to for the invariant to be kept.
LEMMA ReceiveKeeps ==
  ASSUME TrackerInv, Observe, inbox # <<>>, inbox' = Tail(inbox),
         UNCHANGED <<windowOf, activeIn, windowId, hit>>,
         activeTabId' \in Tabs \cup {None}, ready' \in {"query", "queried", "ready"},
         calls' \in [Calls -> CallStates],
         \A c \in Calls :
           \/ calls'[c] = calls[c]
           \/ /\ Head(inbox).kind \in {"query", "get"} /\ Head(inbox).call = c
              /\ calls'[c].pc \in {"get", "gotten"} => calls'[c].next \in DOMAIN calls'[c].targets
              /\ calls'[c].pc = "go" => calls'[c].targets # <<>>
              /\ InStep(c)' /\ Checked(c)',
         PointerIsTrue'
  PROVE  TrackerInv'
<1>1. TypeOK /\ NewsIsTrue /\ RepliesMatch /\ CallsInStep /\ ChecksHold
  BY DEF TrackerInv
<1>2. /\ windowOf' \in [Tabs -> Windows \cup {None}] /\ windowId' \in Windows
      /\ Head(inbox) = inbox[1] /\ 1 \in DOMAIN inbox
  BY <1>1, InboxMovesUp DEF TypeOK
<1>3. TypeOK'
  <2>1. where' \in [Calls -> [Tabs -> SUBSET Windows]] /\ bound' \in [Calls -> SUBSET Windows]
    BY <1>1, <1>2, HistoryGrows
  <2>2. inbox' \in Seq(Messages)
    BY <1>1, InboxMovesUp
  <2>3. ASSUME NEW d \in Calls
        PROVE  /\ calls'[d].pc \in {"get", "gotten"} => calls'[d].next \in DOMAIN calls'[d].targets
               /\ calls'[d].pc = "go" => calls'[d].targets # <<>>
    BY <1>1 DEF TypeOK
  <2> QED BY <1>1, <1>2, <2>1, <2>2, <2>3 DEF TypeOK
<1>4. NewsIsTrue'
  BY <1>1, NewsMoveUp
<1>5. RepliesMatch'
  <2>1. ASSUME NEW i \in DOMAIN inbox', inbox'[i].kind \in {"query", "get"}
        PROVE  ReplyIsFor(inbox[i].call, inbox[i])'
    <3>1. i + 1 \in DOMAIN inbox /\ i + 1 # 1 /\ inbox'[i] = inbox[i + 1]
          /\ inbox[i + 1] \in Messages
      BY <1>1, InboxMovesUp, InboxDomain DEF TypeOK
    <3>2. PICK r \in Messages, d \in Calls : r = inbox[i + 1] /\ d = r.call
      BY <2>1, <3>1 DEF Messages
    <3>3. calls'[d] = calls[d]
      BY <1>1, <1>2, <2>1, <3>1, <3>2 DEF RepliesMatch
    <3>4. ReplyIsFor(d, r)
      BY <1>1, <2>1, <3>1, <3>2 DEF RepliesMatch
    <3>5. ReplyIsFor(d, r)'
      BY <1>1, <1>2, <3>3, <3>4, ReplyStays
    <3> QED BY <3>1, <3>2, <3>5 DEF ReplyIsFor
  <2>2. ASSUME NEW i \in DOMAIN inbox', NEW j \in DOMAIN inbox',
               inbox'[i].kind \in {"query", "get"}, inbox'[j].kind \in {"query", "get"},
               inbox'[i].call = inbox'[j].call
        PROVE  i = j
    <3>1. /\ i \in Nat /\ j \in Nat /\ i + 1 \in DOMAIN inbox /\ j + 1 \in DOMAIN inbox
          /\ inbox'[i] = inbox[i + 1] /\ inbox'[j] = inbox[j + 1]
      BY <1>1, InboxMovesUp
    <3>2. i + 1 = j + 1
      BY <1>1, <2>2, <3>1 DEF RepliesMatch
    <3> QED BY <3>1, <3>2
  <2> QED BY <2>1, <2>2 DEF RepliesMatch
<1>6. ASSUME NEW c \in Calls PROVE InStep(c)' /\ Checked(c)'
  <2>1. CASE calls'[c] = calls[c]
    BY <1>1, <1>2, <2>1, CallStays
  <2> QED BY <2>1
<1> QED BY <1>3, <1>4, <1>5, <1>6 DEF TrackerInv, CallsInStep, ChecksHold

\* A pointer that a message leaves alone stays true, unless the message takes it back.
LEMMA PointerStays ==
  ASSUME TypeOK, PointerIsTrue, inbox # <<>>, inbox' = Tail(inbox),
         UNCHANGED <<windowOf, windowId, activeTabId>>,
         FoundBeforeRebind => FoundBeforeRebind',
         activeTabId # None =>
           inbox[1] \notin {Event("removed", activeTabId, windowId),
                            Event("detached", activeTabId, windowId)}
  PROVE  PointerIsTrue'
<1>1. ASSUME activeTabId # None, Leaves(activeTabId, windowId, 0)
      PROVE  Leaves(activeTabId, windowId, 0)'
  <2>1. PICK t \in Tabs, w \in Windows : t = activeTabId /\ w = windowId
    BY <1>1 DEF TypeOK
  <2>2. Leaves(t, w, 0)'
    BY <1>1, <2>1, InboxMovesUp
  <2> QED BY <2>1, <2>2 DEF Leaves
<1> QED BY <1>1 DEF PointerIsTrue

\* News taken from the inbox are true of the pointer.
LEMMA PointerTaken ==
  ASSUME TypeOK, NewsIsTrue, inbox # <<>>, inbox' = Tail(inbox), UNCHANGED <<windowOf, windowId>>,
         inbox[1].kind \in {"activated", "complete", "init", "query"},
         inbox[1].tab \in Tabs, activeTabId' = inbox[1].tab,
         inbox[1].window = windowId \/ FoundBeforeRebind'
  PROVE  PointerIsTrue'
<1>1. CASE inbox[1].window = windowId
  <2>1. PICK t \in Tabs, w \in Windows : t = inbox[1].tab /\ w = windowId
    BY DEF TypeOK
  <2>2. windowOf[t] = w \/ Leaves(t, w, 1)
    BY <1>1, <2>1, InboxMovesUp, WindowAssumption DEF NewsIsTrue
  <2>3. windowOf[t] = w \/ Leaves(t, w, 0)'
    BY <2>2, InboxMovesUp
  <2> QED BY <2>1, <2>3 DEF PointerIsTrue, Leaves
<1>2. CASE FoundBeforeRebind'
  BY <1>2 DEF PointerIsTrue
<1> QED BY <1>1, <1>2

\* An event of chrome.tabs keeps the invariant.
LEMMA EventKeeps ==
  ASSUME TrackerInv, Observe, inbox # <<>>, inbox' = Tail(inbox), UNCHANGED <<chromeVars, hit>>,
         NEW e, e = Head(inbox), e.kind \notin {"init", "query", "get"}, HandleEvent(e)
  PROVE  TrackerInv'
<1>1. TypeOK /\ NewsIsTrue /\ PointerIsTrue
  BY DEF TrackerInv
<1>2. UNCHANGED <<windowOf, activeIn, windowId, ready, calls, hit>>
  BY DEF HandleEvent, chromeVars
<1>3. /\ e = inbox[1] /\ e \in Messages
      /\ e.kind \in {"activated", "complete", "removed", "detached", "attached"}
      /\ e.tab \in Tabs /\ e.window \in Windows
  <2>1. e = inbox[1] /\ e \in Messages
    BY <1>1, InboxMovesUp
  <2> QED BY <2>1 DEF Messages
<1>4. FoundBeforeRebind /\ activeTabId' = activeTabId => FoundBeforeRebind'
  BY <1>2 DEF FoundBeforeRebind
<1>5. /\ Event("removed", activeTabId, windowId).kind = "removed"
      /\ Event("removed", activeTabId, windowId).window = windowId
      /\ Event("removed", activeTabId, windowId).tab = activeTabId
      /\ Event("detached", activeTabId, windowId).kind = "detached"
      /\ Event("detached", activeTabId, windowId).window = windowId
      /\ Event("detached", activeTabId, windowId).tab = activeTabId
  BY DEF Event
<1>6. activeTabId' \in Tabs \cup {None} /\ PointerIsTrue'
  <2>1. CASE e.window # windowId \/ e.kind = "attached"
    <3>1. activeTabId' = activeTabId
      BY <1>3, <2>1 DEF HandleEvent
    <3>2. e \notin {Event("removed", activeTabId, windowId), Event("detached", activeTabId, windowId)}
      BY <1>5, <2>1
    <3> QED BY <1>1, <1>2, <1>3, <1>4, <3>1, <3>2, PointerStays DEF TypeOK
  <2>2. CASE e.window = windowId /\ e.kind \in {"activated", "complete"}
    <3>1. activeTabId' = e.tab
      BY <2>2 DEF HandleEvent
    <3> QED BY <1>1, <1>2, <1>3, <2>2, <3>1, PointerTaken
  <2>3. CASE e.window = windowId /\ e.kind \in {"removed", "detached"}
    <3>1. activeTabId' = IF activeTabId = e.tab THEN None ELSE activeTabId
      BY <2>3 DEF HandleEvent
    <3>2. CASE activeTabId = e.tab
      BY <3>1, <3>2 DEF PointerIsTrue
    <3>3. CASE activeTabId # e.tab
      <4>1. activeTabId' = activeTabId
        BY <3>1, <3>3
      <4>2. e \notin {Event("removed", activeTabId, windowId), Event("detached", activeTabId, windowId)}
        BY <1>5, <3>3
      <4> QED BY <1>1, <1>2, <1>3, <1>4, <4>1, <4>2, PointerStays DEF TypeOK
    <3> QED BY <3>2, <3>3
  <2> QED BY <1>3, <2>1, <2>2, <2>3
<1> QED BY <1>1, <1>2, <1>6, ReceiveKeeps DEF TypeOK

\* So does the answer the tracker's init waits for.
LEMMA InitKeeps ==
  ASSUME TrackerInv, Observe, inbox # <<>>, inbox' = Tail(inbox), UNCHANGED <<chromeVars, hit>>,
         NEW r, r = Head(inbox), r.kind = "init", HandleInit(r)
  PROVE  TrackerInv'
<1>1. TypeOK /\ NewsIsTrue /\ PointerIsTrue
  BY DEF TrackerInv
<1>2. /\ UNCHANGED <<windowOf, activeIn, windowId, calls, hit>> /\ ready' = "ready"
      /\ activeTabId' = IF r.tab # None /\ r.window = windowId THEN r.tab ELSE activeTabId
  BY DEF HandleInit, chromeVars
<1>3. r = inbox[1] /\ r.tab \in Tabs \cup {None}
  <2>1. r = inbox[1] /\ r \in Messages
    BY <1>1, InboxMovesUp
  <2> QED BY <2>1 DEF Messages
<1>4. activeTabId' \in Tabs \cup {None} /\ PointerIsTrue'
  <2>1. CASE r.tab # None /\ r.window = windowId
    BY <1>1, <1>2, <1>3, <2>1, PointerTaken
  <2>2. CASE ~ (r.tab # None /\ r.window = windowId)
    <3>1. FoundBeforeRebind => FoundBeforeRebind'
      BY <1>2, <2>2 DEF FoundBeforeRebind
    <3>2. r \notin {Event("removed", activeTabId, windowId), Event("detached", activeTabId, windowId)}
      BY DEF Event
    <3> QED BY <1>1, <1>2, <1>3, <2>2, <3>1, <3>2, PointerStays DEF TypeOK
  <2> QED BY <2>1, <2>2
<1> QED BY <1>1, <1>2, <1>4, ReceiveKeeps DEF TypeOK

\* The answer to a call's query keeps it: what was found is in the window asked for.
LEMMA QueryKeeps ==
  ASSUME TrackerInv, Observe, inbox # <<>>, inbox' = Tail(inbox), UNCHANGED <<chromeVars, hit>>,
         NEW r, r = Head(inbox), r.kind = "query", HandleQuery(r)
  PROVE  TrackerInv'
<1>1. TypeOK /\ NewsIsTrue /\ PointerIsTrue /\ RepliesMatch /\ CallsInStep /\ ChecksHold
  BY DEF TrackerInv
<1>2. UNCHANGED <<windowOf, activeIn, windowId, ready, hit>>
  BY DEF HandleQuery, chromeVars
<1>3. /\ r = inbox[1] /\ r \in Messages /\ 1 \in DOMAIN inbox
      /\ r.tab \in Tabs \cup {None} /\ r.call \in Calls
  <2>1. r = inbox[1] /\ r \in Messages /\ 1 \in DOMAIN inbox
    BY <1>1, InboxMovesUp
  <2> QED BY <2>1 DEF Messages
<1>4. PICK c \in Calls : c = r.call
  BY <1>3
<1>5. /\ calls[c].pc = "queried" /\ calls[c].asked /\ calls[c].window = r.window
      /\ calls[c].next = 1 /\ calls[c] \in CallStates
      /\ calls[c].kind \in Kinds /\ calls[c].window \in bound[c] /\ hit[c] \in SUBSET Tabs
  BY <1>1, <1>3, <1>4 DEF RepliesMatch, ReplyIsFor, CallsInStep, InStep, TypeOK
<1>6. r \notin {Event("removed", activeTabId, windowId), Event("detached", activeTabId, windowId)}
  BY DEF Event
<1>7. /\ calls'[c].pc \notin {"idle", "query", "queried"}
      /\ calls'[c].kind = calls[c].kind /\ calls'[c].window = calls[c].window
      /\ calls'[c].asked = calls[c].asked /\ calls'[c].next = 1
      /\ calls'[c] \in CallStates
      /\ calls' = [calls EXCEPT ![c] = calls'[c]]
      /\ r.tab = None => /\ activeTabId' = activeTabId /\ calls'[c].pc = "noTab"
                         /\ calls'[c].targets = calls[c].targets
      /\ r.tab # None => /\ r.tab \in Tabs /\ activeTabId' = r.tab
                         /\ calls'[c].targets = <<r.tab>> /\ calls'[c].targets # <<>>
                         /\ 1 \in DOMAIN calls'[c].targets
                         /\ calls'[c].pc \in {"get", "go"}
                         /\ (calls'[c].pc = "go" => calls[c].kind = "goto")
  <2>1. CASE r.tab # None
    <3>1. <<r.tab>> \in Seq(Tabs)
      BY <1>3, <2>1
    <3> DEFINE one == <<r.tab>>  pc == AfterResolve(calls[c].kind)
    <3>2. pc \in {"get", "go"} /\ (pc = "go" => calls[c].kind = "goto")
      BY DEF AfterResolve
    <3>3. activeTabId' = r.tab /\ calls' = [calls EXCEPT ![c].targets = one, ![c].pc = pc]
      BY <1>4, <2>1 DEF HandleQuery
    <3>4. one \in Seq(Tabs) /\ one # <<>> /\ 1 \in DOMAIN one
      BY <3>1
    <3> HIDE DEF one, pc
    <3>5. /\ calls'[c] = [calls[c] EXCEPT !.targets = one, !.pc = pc]
          /\ calls' = [calls EXCEPT ![c] = calls'[c]]
      BY <1>1, <3>3 DEF TypeOK
    <3>6. /\ calls'[c] \in CallStates /\ calls'[c].targets = one /\ calls'[c].pc = pc
          /\ calls'[c].kind = calls[c].kind /\ calls'[c].window = calls[c].window
          /\ calls'[c].asked = calls[c].asked /\ calls'[c].next = calls[c].next
      BY <1>5, <3>2, <3>4, <3>5 DEF CallStates, Steps
    <3>7. r.tab \in Tabs /\ one = <<r.tab>>
      BY <1>3, <2>1 DEF one
    <3>8. calls'[c].pc \notin {"idle", "query", "queried"}
      BY <3>2, <3>6
    <3> QED BY <1>5, <2>1, <3>2, <3>3, <3>4, <3>5, <3>6, <3>7, <3>8
  <2>2. CASE r.tab = None
    <3>1. activeTabId' = activeTabId /\ calls' = [calls EXCEPT ![c].pc = "noTab"]
      BY <1>4, <2>2 DEF HandleQuery
    <3>2. /\ calls'[c] = [calls[c] EXCEPT !.pc = "noTab"]
          /\ calls' = [calls EXCEPT ![c] = calls'[c]]
      BY <1>1, <3>1 DEF TypeOK
    <3>3. /\ calls'[c] \in CallStates /\ calls'[c].targets = calls[c].targets
          /\ calls'[c].pc = "noTab" /\ calls'[c].kind = calls[c].kind
          /\ calls'[c].window = calls[c].window /\ calls'[c].asked = calls[c].asked
          /\ calls'[c].next = calls[c].next
      BY <1>5, <3>2 DEF CallStates, Steps
    <3>4. calls'[c].pc \notin {"idle", "query", "queried"}
      BY <3>3
    <3> QED BY <1>5, <2>2, <3>1, <3>2, <3>3, <3>4
  <2> QED BY <2>1, <2>2
<1>8. /\ calls' \in [Calls -> CallStates] /\ \A d \in Calls \ {c} : calls'[d] = calls[d]
  BY <1>1, <1>7 DEF TypeOK
<1>9. activeTabId' \in Tabs \cup {None} /\ PointerIsTrue'
  <2>1. CASE r.tab = None
    <3>1. \A d \in Calls : /\ calls'[d].asked = calls[d].asked
                           /\ calls'[d].window = calls[d].window
                           /\ calls'[d].targets = calls[d].targets
      BY <1>7, <1>8, <2>1
    <3>2. FoundBeforeRebind => FoundBeforeRebind'
      BY <1>2, <1>7, <2>1, <3>1, WindowAssumption DEF FoundBeforeRebind
    <3> QED BY <1>1, <1>2, <1>3, <1>6, <1>7, <2>1, <3>2, PointerStays, WindowAssumption DEF TypeOK
  <2>2. CASE r.tab # None
    <3>1. activeTabId' = r.tab /\ calls'[c].targets = <<r.tab>> /\ r.tab \in Tabs
      BY <1>7, <2>2
    <3>2. r.window = windowId \/ FoundBeforeRebind'
      BY <1>2, <1>5, <1>7, <3>1 DEF FoundBeforeRebind
    <3> QED BY <1>1, <1>2, <1>3, <3>1, <3>2, PointerTaken
  <2> QED BY <2>1, <2>2
<1>10. /\ windowId' \in bound'[c] /\ bound[c] \subseteq bound'[c]
       /\ \A t \in Tabs : where[c][t] \subseteq where'[c][t]
  BY <1>1, <1>2, <1>7, HistoryGrows DEF TypeOK
<1>11. InStep(c)'
  BY <1>5, <1>7, <1>10 DEF InStep
<1>12. Checked(c)'
  <2>1. ASSUME NEW i \in DOMAIN calls'[c].targets, calls[c].kind # "goto" PROVE ~ Passed(c, i)'
    <3>1. calls'[c].targets \in Seq(Tabs)
      BY <1>7 DEF CallStates
    <3>2. i \in Nat \ {0}
      BY <3>1, LenProperties
    <3>3. calls'[c].pc # "go" /\ calls'[c].next = 1
      BY <1>7, <2>1
    <3> QED BY <3>2, <3>3 DEF Passed
  <2>2. ASSUME NEW t \in hit[c], calls[c].kind # "goto" PROVE where'[c][t] \cap bound'[c] # {}
    BY <1>1, <1>5, <1>10, <2>2 DEF ChecksHold, Checked
  <2> QED BY <1>2, <1>7, <2>1, <2>2 DEF Checked
<1>13. /\ calls'[c].pc \in {"get", "gotten"} => calls'[c].next \in DOMAIN calls'[c].targets
       /\ calls'[c].pc = "go" => calls'[c].targets # <<>>
  <2>1. CASE r.tab = None
    BY <1>7, <2>1
  <2>2. CASE r.tab # None
    BY <1>7, <2>2
  <2> QED BY <2>1, <2>2
<1> QED BY <1>1, <1>2, <1>4, <1>8, <1>9, <1>11, <1>12, <1>13, ReceiveKeeps DEF TypeOK

\* So does the answer of tabs.get: a target that passes was in the session's window.
LEMMA GetKeeps ==
  ASSUME TrackerInv, Observe, inbox # <<>>, inbox' = Tail(inbox), UNCHANGED <<chromeVars, hit>>,
         NEW r, r = Head(inbox), r.kind = "get", HandleGet(r)
  PROVE  TrackerInv'
<1>1. TypeOK /\ NewsIsTrue /\ PointerIsTrue /\ RepliesMatch /\ CallsInStep /\ ChecksHold
  BY DEF TrackerInv
<1>2. UNCHANGED <<windowOf, activeIn, windowId, activeTabId, ready, hit>>
  BY DEF HandleGet, chromeVars, trackerVars
<1>3. /\ r = inbox[1] /\ r \in Messages /\ 1 \in DOMAIN inbox
      /\ r.tab \in Tabs /\ r.call \in Calls /\ r.window \in Windows \cup {None}
  <2>1. r = inbox[1] /\ r \in Messages /\ 1 \in DOMAIN inbox
    BY <1>1, InboxMovesUp
  <2> QED BY <2>1 DEF Messages
<1>4. PICK c \in Calls : c = r.call
  BY <1>3
<1>5. /\ calls[c].pc = "gotten" /\ r.tab = calls[c].targets[calls[c].next]
      /\ IF r.window = None THEN windowOf[r.tab] = None ELSE r.window \in where[c][r.tab]
      /\ calls[c] \in CallStates /\ calls[c].next \in DOMAIN calls[c].targets
      /\ calls[c].kind \in Kinds /\ calls[c].window \in bound[c] /\ windowId \in bound[c]
      /\ hit[c] \in SUBSET Tabs /\ Checked(c)
  BY <1>1, <1>3, <1>4 DEF RepliesMatch, ReplyIsFor, CallsInStep, InStep, ChecksHold, TypeOK
<1>6. /\ calls[c].targets \in Seq(Tabs) /\ calls[c].next \in Nat \ {0}
      /\ DOMAIN calls[c].targets = 1..Len(calls[c].targets) /\ Len(calls[c].targets) \in Nat
      /\ \A i \in DOMAIN calls[c].targets : calls[c].targets[i] \in Tabs
  <2>1. calls[c].targets \in Seq(Tabs) /\ calls[c].next \in Nat \ {0}
    BY <1>5 DEF CallStates
  <2> QED BY <2>1, ElementOfSeq, LenProperties
\* What becomes of the call.
<1> DEFINE more == calls[c].next < Len(calls[c].targets)
           pc == IF r.window \notin {None, CheckedWindow(c)} THEN "refused"
                 ELSE IF more THEN "get" ELSE "go"
           next == IF pc = "get" THEN calls[c].next + 1 ELSE calls[c].next
<1>7. calls' = [calls EXCEPT ![c] = [calls[c] EXCEPT !.pc = pc, !.next = next]]
  <2>1. calls' = IF r.window \notin {None, CheckedWindow(c)}
                 THEN [calls EXCEPT ![c].pc = "refused"]
                 ELSE IF more
                   THEN [calls EXCEPT ![c].pc = "get", ![c].next = @ + 1]
                   ELSE [calls EXCEPT ![c].pc = "go"]
    BY <1>4 DEF HandleGet
  <2>2. ASSUME NEW p \in Steps
        PROVE  [calls EXCEPT ![c].pc = p]
                 = [calls EXCEPT ![c] = [calls[c] EXCEPT !.pc = p, !.next = calls[c].next]]
    <3>1. [calls[c] EXCEPT !.pc = p, !.next = calls[c].next] = [calls[c] EXCEPT !.pc = p]
      BY <1>5 DEF CallStates
    <3> QED BY <3>1
  <2>3. [calls EXCEPT ![c].pc = "get", ![c].next = @ + 1]
          = [calls EXCEPT ![c] = [calls[c] EXCEPT !.pc = "get", !.next = calls[c].next + 1]]
    BY <1>1 DEF TypeOK
  <2>4. "refused" \in Steps /\ "go" \in Steps
    BY DEF Steps
  <2> HIDE DEF more
  <2>5. CASE r.window \notin {None, CheckedWindow(c)}
    BY <2>1, <2>2, <2>4, <2>5
  <2>6. CASE r.window \in {None, CheckedWindow(c)} /\ more
    BY <2>1, <2>3, <2>6
  <2>7. CASE r.window \in {None, CheckedWindow(c)} /\ ~ more
    BY <2>1, <2>2, <2>4, <2>7
  <2> QED BY <2>5, <2>6, <2>7
<1>8. /\ pc \in {"refused", "get", "go"} /\ next \in Nat \ {0}
      /\ pc = "get" => next = calls[c].next + 1 /\ next \in DOMAIN calls[c].targets
      /\ pc = "go" => calls[c].next = Len(calls[c].targets)
      /\ pc # "refused" => r.window \in {None, CheckedWindow(c)}
  <2>1. calls[c].next + 1 \in Nat \ {0}
    BY <1>6
  <2>2. more => calls[c].next + 1 \in DOMAIN calls[c].targets
    BY <1>6
  <2>3. ~ more => calls[c].next = Len(calls[c].targets)
    BY <1>5, <1>6
  <2> HIDE DEF more
  <2> QED BY <1>6, <2>1, <2>2, <2>3
<1> HIDE DEF pc, next
<1>9. /\ calls'[c] \in CallStates /\ calls'[c].pc = pc /\ calls'[c].next = next
      /\ calls'[c].kind = calls[c].kind /\ calls'[c].targets = calls[c].targets
      /\ calls'[c].asked = calls[c].asked /\ calls'[c].window = calls[c].window
  <2>1. calls'[c] = [calls[c] EXCEPT !.pc = pc, !.next = next]
    BY <1>1, <1>7 DEF TypeOK
  <2>2. pc \in Steps
    BY <1>8 DEF Steps
  <2> QED BY <1>5, <1>8, <2>1, <2>2 DEF CallStates
<1>10. calls' \in [Calls -> CallStates] /\ \A d \in Calls \ {c} : calls'[d] = calls[d]
  <2>1. \A d \in Calls \ {c} : calls'[d] = calls[d]
    BY <1>1, <1>7 DEF TypeOK
  <2>2. calls' = [d \in Calls |-> calls'[d]]
    BY <1>1, <1>7 DEF TypeOK
  <2>3. \A d \in Calls : calls'[d] \in CallStates
    BY <1>1, <1>9, <2>1 DEF TypeOK
  <2> QED BY <2>1, <2>2, <2>3
<1>11. activeTabId' \in Tabs \cup {None} /\ PointerIsTrue'
  <2>1. \A d \in Calls : /\ calls'[d].asked = calls[d].asked
                         /\ calls'[d].window = calls[d].window
                         /\ calls'[d].targets = calls[d].targets
    BY <1>9, <1>10
  <2>2. FoundBeforeRebind => FoundBeforeRebind'
    BY <1>2, <2>1 DEF FoundBeforeRebind
  <2>3. r \notin {Event("removed", activeTabId, windowId), Event("detached", activeTabId, windowId)}
    BY DEF Event
  <2> QED BY <1>1, <1>2, <1>3, <2>2, <2>3, PointerStays DEF TypeOK
<1>12. /\ windowId' \in bound'[c] /\ bound[c] \subseteq bound'[c]
       /\ \A t \in Tabs : where[c][t] \subseteq where'[c][t]
  BY <1>1, <1>2, <1>8, <1>9, HistoryGrows DEF TypeOK
<1>13. InStep(c)'
  BY <1>2, <1>5, <1>8, <1>9, <1>12 DEF InStep
<1>14. Checked(c)'
  <2>1. ASSUME calls[c].kind # "goto", pc # "refused" PROVE MayTouch(c, r.tab)
    <3>1. CheckedWindow(c) \in bound[c]
      BY <1>5 DEF CheckedWindow
    <3> QED BY <1>5, <1>8, <2>1, <3>1 DEF MayTouch
  <2>2. ASSUME NEW i \in DOMAIN calls[c].targets, calls[c].kind # "goto", Passed(c, i)'
        PROVE  MayTouch(c, calls[c].targets[i])'
    <3>1. PICK t \in Tabs : t = calls[c].targets[i]
      BY <1>6
    <3>2. pc # "refused" /\ (i < calls[c].next \/ i = calls[c].next)
      <4>1. pc = "go" \/ (pc = "get" /\ i < next)
        BY <1>8, <1>9, <2>2 DEF Passed
      <4>2. i \in Nat /\ i <= Len(calls[c].targets)
        BY <1>6
      <4> QED BY <1>6, <1>8, <4>1, <4>2
    <3>3. CASE i < calls[c].next
      <4>1. MayTouch(c, t)
        BY <1>5, <2>2, <3>1, <3>3 DEF Checked, Passed
      <4> QED BY <1>2, <1>9, <1>12, <3>1, <4>1 DEF MayTouch
    <3>4. CASE i = calls[c].next
      <4>1. MayTouch(c, t)
        BY <1>5, <2>1, <2>2, <3>1, <3>2, <3>4
      <4> QED BY <1>2, <1>9, <1>12, <3>1, <4>1 DEF MayTouch
    <3> QED BY <3>2, <3>3, <3>4
  <2>3. ASSUME NEW t \in hit[c], calls[c].kind # "goto" PROVE where'[c][t] \cap bound'[c] # {}
    BY <1>5, <1>12, <2>3 DEF Checked
  <2> QED BY <1>2, <1>9, <2>2, <2>3 DEF Checked
<1>15. /\ calls'[c].pc \in {"get", "gotten"} => calls'[c].next \in DOMAIN calls'[c].targets
       /\ calls'[c].pc = "go" => calls'[c].targets # <<>>
  <2>1. calls[c].targets # <<>>
    BY <1>5, EmptySeq
  <2> QED BY <1>8, <1>9, <2>1
<1> QED BY <1>1, <1>2, <1>4, <1>10, <1>11, <1>13, <1>14, <1>15, ReceiveKeeps DEF TypeOK

-----------------------------------------------------------------------------
(* The theorems.                                                            *)

\* The first states.
LEMMA TrackerInit == Init => TrackerInv
<1> SUFFICES ASSUME Init PROVE TrackerInv
  OBVIOUS
<1>1. TypeOK
  <2>1. <<>> \in Seq(Messages)
    OBVIOUS
  <2>2. Idle \in CallStates /\ Idle.pc = "idle"
    BY WindowAssumption DEF Idle, CallStates, Steps
  <2>3. \A w \in Windows : activeIn[w] # None => windowOf[activeIn[w]] = w
    BY DEF Init
  <2> QED BY <2>1, <2>2, <2>3, WindowAssumption DEF Init, TypeOK
<1>2. NewsIsTrue /\ PointerIsTrue /\ RepliesMatch
  BY DEF Init, NewsIsTrue, PointerIsTrue, RepliesMatch
<1>3. \A c \in Calls : calls[c] = Idle /\ hit[c] = {}
  BY DEF Init
<1>4. CallsInStep /\ ChecksHold
  <2>1. Idle.pc = "idle"
    BY DEF Idle
  <2> QED BY <1>3, <2>1 DEF CallsInStep, InStep, ChecksHold, Checked, Passed
<1> QED BY <1>1, <1>2, <1>4 DEF TrackerInv

\* Every step.
LEMMA TrackerStep == TrackerInv /\ [Next]_vars => TrackerInv'
<1> SUFFICES ASSUME TrackerInv, [Next]_vars PROVE TrackerInv'
  OBVIOUS
<1>1. CASE Chrome /\ Observe
  <2>1. TypeOK
    BY DEF TrackerInv
  <2>2. ASSUME NEW t \in Tabs, Activate(t) \/ CompleteLoad(t) \/ CloseTab(t) PROVE TrackerInv'
    BY <1>1, <2>1, <2>2, ActivateFacts, CompleteLoadFacts, CloseTabFacts, UserKeeps
  <2>3. ASSUME NEW t \in Tabs, NEW w \in Windows, DragTab(t, w) PROVE TrackerInv'
    BY <1>1, <2>1, <2>3, DragTabFacts, UserKeeps
  <2> QED BY <1>1, <2>2, <2>3, AnswersKeep DEF Chrome
<1>2. CASE Page /\ Observe
  <2>1. CASE Receive
    <3> DEFINE m == Head(inbox)
    <3>1. /\ inbox # <<>> /\ inbox' = Tail(inbox) /\ UNCHANGED <<chromeVars, hit>>
          /\ CASE m.kind = "init"  -> HandleInit(m)
               [] m.kind = "query" -> HandleQuery(m)
               [] m.kind = "get"   -> HandleGet(m)
               [] OTHER            -> HandleEvent(m)
      BY <2>1 DEF Receive
    <3>2. CASE m.kind = "init"
      BY <1>2, <3>1, <3>2, InitKeeps
    <3>3. CASE m.kind = "query"
      BY <1>2, <3>1, <3>3, QueryKeeps
    <3>4. CASE m.kind = "get"
      BY <1>2, <3>1, <3>4, GetKeeps
    <3>5. CASE m.kind \notin {"init", "query", "get"}
      BY <1>2, <3>1, <3>5, EventKeeps
    <3> QED BY <3>2, <3>3, <3>4, <3>5
  <2>2. ASSUME NEW c \in Calls, StartNamed(c) \/ StartActive(c) \/ Act(c) PROVE TrackerInv'
    BY <1>2, <2>2, StartsKeep, ActKeeps
  <2>3. ASSUME NEW w \in Windows, RebindWindow(w) PROVE TrackerInv'
    BY <1>2, <2>3, RebindKeeps
  <2> QED BY <1>2, <2>1, <2>2, <2>3 DEF Page
<1>3. CASE UNCHANGED vars
  BY <1>3 DEF vars, chromeVars, trackerVars, TrackerInv, TypeOK, NewsIsTrue, PointerIsTrue,
     FoundBeforeRebind, Leaves, RepliesMatch, ReplyIsFor, CallsInStep, InStep, ChecksHold,
     Checked, Passed, MayTouch
<1> QED BY <1>1, <1>2, <1>3 DEF Next

\* The tracker never leaves its inductive invariant: what it believes of a tab is so,
\* or the news that it is not so are on their way.
THEOREM TrackerInvariant == Spec => []TrackerInv
BY TrackerInit, TrackerStep, PTL DEF Spec

\* The type invariant: a closed tab is active nowhere, and the ownership check never
\* looks at a target the call does not have.
THEOREM TrackerTypes == Spec => []TypeOK
<1>1. TrackerInv => TypeOK
  BY DEF TrackerInv
<1> QED BY <1>1, TrackerInvariant, PTL

\* Once everything Chrome sent is seen, the pointer is null or a tab of the session's
\* window, or was found by a query asked before a rebind (the tracker's listeners).
THEOREM TrackerCatchesUp == Spec => []PointerCatchesUp
<1>1. TrackerInv => PointerCatchesUp
  BY DEF TrackerInv, PointerIsTrue, PointerCatchesUp, PointerIsOurs, Leaves
<1> QED BY <1>1, TrackerInvariant, PTL

\* Calls that look at the window of their tabs before they act only ever act on tabs
\* that were in a window of the session while they ran (assertTabOwnership and
\* executeContentScriptCommand); "goto" does not look.
THEOREM TouchesOwnTabs == "goto" \notin Kinds => (Spec => []TouchedWasOurs)
<1> SUFFICES ASSUME "goto" \notin Kinds PROVE Spec => []TouchedWasOurs
  OBVIOUS
<1>1. TrackerInv => TouchedWasOurs
  <2> SUFFICES ASSUME TrackerInv, NEW c \in Calls, NEW t \in hit[c]
               PROVE  where[c][t] \cap bound[c] # {}
    BY DEF TouchedWasOurs
  <2>1. InStep(c) /\ Checked(c)
    BY DEF TrackerInv, CallsInStep, ChecksHold
  <2>2. calls[c].pc # "idle" /\ calls[c].kind \in Kinds
    BY <2>1 DEF InStep
  <2> QED BY <2>1, <2>2 DEF Checked
<1> QED BY <1>1, TrackerInvariant, PTL

-----------------------------------------------------------------------------
(* A session that is never rebound.                                         *)

\* The session keeps its window, and so do its calls.
OneWindow == windowId = Window /\ \A c \in Calls : bound[c] \subseteq {Window}

\* Without rebinding, the session has one window.
LEMMA WindowStays == ~ CanRebind => (Spec => []OneWindow)
<1> SUFFICES ASSUME ~ CanRebind PROVE Spec => []OneWindow
  OBVIOUS
<1>1. Init => OneWindow
  BY DEF Init, OneWindow
<1>2. OneWindow /\ [Next]_vars => OneWindow'
  <2> SUFFICES ASSUME OneWindow, [Next]_vars PROVE OneWindow'
    OBVIOUS
  <2>1. CASE Next
    <3>1. windowId' = windowId
      <4>1. Chrome => windowId' = windowId
        BY DEF Chrome, Activate, CompleteLoad, CloseTab, DragTab, AnswerInit, AnswerQuery,
           AnswerGet, trackerVars
      <4>2. Receive => windowId' = windowId
        BY DEF Receive, HandleEvent, HandleInit, HandleQuery, HandleGet, trackerVars
      <4>3. ASSUME NEW c \in Calls
            PROVE  StartNamed(c) \/ StartActive(c) \/ Act(c) => windowId' = windowId
        BY DEF StartNamed, StartActive, Act, trackerVars
      <4>4. \A w \in Windows : ~ RebindWindow(w)
        BY DEF RebindWindow
      <4> QED BY <2>1, <4>1, <4>2, <4>3, <4>4 DEF Next, Page
    <3>2. \A c \in Calls : bound'[c] \in {{}, bound[c] \cup {windowId'}}
      BY <2>1 DEF Next, Observe
    <3> QED BY <3>1, <3>2 DEF OneWindow
  <2>2. CASE UNCHANGED vars
    BY <2>2 DEF vars, trackerVars, OneWindow
  <2> QED BY <2>1, <2>2
<1> QED BY <1>1, <1>2, PTL DEF Spec

\* Without a rebind the pointer, once it has seen everything Chrome sent, is null or a
\* tab of the session's window, with no exception.
THEOREM PointerStaysOurs == ~ CanRebind => (Spec => []PointerIsOurs)
<1> SUFFICES ASSUME ~ CanRebind PROVE Spec => []PointerIsOurs
  OBVIOUS
<1>1. TrackerInv /\ OneWindow => PointerIsOurs
  <2> SUFFICES ASSUME TrackerInv, OneWindow PROVE PointerIsOurs
    OBVIOUS
  <2>1. ASSUME NEW c \in Calls, calls[c].asked PROVE calls[c].window = windowId
    <3>1. InStep(c)
      BY DEF TrackerInv, CallsInStep
    <3>2. calls[c].pc # "idle"
      BY <2>1, <3>1 DEF InStep, Idle
    <3> QED BY <3>1, <3>2 DEF InStep, OneWindow
  <2> QED BY <2>1 DEF TrackerInv, PointerIsTrue, PointerIsOurs, FoundBeforeRebind, Leaves
<1> QED BY <1>1, TrackerInvariant, WindowStays, PTL

\* Without a rebind, a call that looks before it acts only acts on tabs that were in
\* the session's window while it ran.
THEOREM TouchesOneWindow ==
  ~ CanRebind /\ "goto" \notin Kinds =>
    (Spec => [](\A c \in Calls : \A t \in hit[c] : Window \in where[c][t]))
<1> SUFFICES ASSUME ~ CanRebind, "goto" \notin Kinds
             PROVE  Spec => [](\A c \in Calls : \A t \in hit[c] : Window \in where[c][t])
  OBVIOUS
<1>1. TouchedWasOurs /\ OneWindow => \A c \in Calls : \A t \in hit[c] : Window \in where[c][t]
  BY DEF TouchedWasOurs, OneWindow
<1> QED BY <1>1, TouchesOwnTabs, WindowStays, PTL
=============================================================================
