----------------------------- MODULE SessionProofs -----------------------------
(***************************************************************************)
(* Proofs about the sessions of the extension and the web demo.  Module    *)
(* Session: the requests of the page, for any sets of cells and of other   *)
(* requests.  Module ApiRegistry: the APIs that a session starts with, for *)
(* any manifests that the page may send.                                   *)
(***************************************************************************)
EXTENDS Session, ApiRegistry, SequenceTheorems, FiniteSetTheorems, WellFoundedInduction, TLAPS

(***************************************************************************)
(* Queues.                                                                 *)
(***************************************************************************)

\* A message goes to the end of its queue, and the others stay where they are.
LEMMA AppendToQueue ==
  ASSUME NEW S, NEW q \in Seq(S), NEW m \in S
  PROVE  /\ Append(q, m) \in Seq(S) /\ Len(q) \in Nat
         /\ Len(Append(q, m)) = Len(q) + 1
         /\ \A i \in 1..Len(q) : i \in 1..Len(Append(q, m)) /\ Append(q, m)[i] = q[i]
         /\ \A i \in 1..Len(Append(q, m)) :
              \/ i \in 1..Len(q) /\ Append(q, m)[i] = q[i]
              \/ i = Len(q) + 1 /\ Append(q, m)[i] = m
         /\ Len(q) + 1 \in 1..Len(Append(q, m)) /\ Append(q, m)[Len(q) + 1] = m
<1>1. /\ Append(q, m) \in Seq(S) /\ Len(q) \in Nat /\ Len(Append(q, m)) = Len(q) + 1
      /\ \A i \in 1..Len(q) : Append(q, m)[i] = q[i]
      /\ Append(q, m)[Len(q) + 1] = m
  BY AppendProperties, LenProperties
<1> DEFINE a == Append(q, m)
<1> HIDE DEF a
<1>2. /\ a \in Seq(S) /\ Len(q) \in Nat /\ Len(a) = Len(q) + 1
      /\ \A i \in 1..Len(q) : a[i] = q[i]
      /\ a[Len(q) + 1] = m
  BY <1>1 DEF a
<1>3. 1..Len(a) = (1..Len(q)) \cup {Len(q) + 1}
  BY <1>2
<1>4. /\ \A i \in 1..Len(q) : i \in 1..Len(a) /\ a[i] = q[i]
      /\ \A i \in 1..Len(a) : \/ i \in 1..Len(q) /\ a[i] = q[i]
                              \/ i = Len(q) + 1 /\ a[i] = m
      /\ Len(q) + 1 \in 1..Len(a)
  BY <1>2, <1>3
<1> QED BY <1>2, <1>4 DEF a

\* The first message leaves its queue, and the others move up.
LEMMA TakeFromQueue ==
  ASSUME NEW S, NEW q \in Seq(S), q # <<>>
  PROVE  /\ Tail(q) \in Seq(S) /\ Len(q) \in Nat \ {0} /\ Len(Tail(q)) = Len(q) - 1
         /\ 1 \in 1..Len(q) /\ Head(q) = q[1] /\ Head(q) \in S
         /\ \A i \in 1..Len(Tail(q)) : i + 1 \in 2..Len(q) /\ Tail(q)[i] = q[i + 1]
         /\ \A i \in 2..Len(q) : i - 1 \in 1..Len(Tail(q)) /\ Tail(q)[i - 1] = q[i]
<1>1. /\ Tail(q) \in Seq(S) /\ Len(Tail(q)) = Len(q) - 1 /\ Head(q) \in S
      /\ \A i \in 1..Len(Tail(q)) : Tail(q)[i] = q[i + 1]
  BY HeadTailProperties
<1>2. Len(q) \in Nat \ {0} /\ Head(q) = q[1]
  BY EmptySeq
<1> DEFINE t == Tail(q)
<1> HIDE DEF t
<1>3. Len(t) = Len(q) - 1 /\ \A i \in 1..Len(t) : t[i] = q[i + 1]
  BY <1>1 DEF t
<1>4. /\ 1 \in 1..Len(q)
      /\ \A i \in 1..Len(t) : i + 1 \in 2..Len(q) /\ t[i] = q[i + 1]
      /\ \A i \in 2..Len(q) : i - 1 \in 1..Len(t) /\ t[i - 1] = q[i]
  BY <1>2, <1>3
<1> QED BY <1>1, <1>2, <1>4 DEF t

\* A message that is not the first one moves up.
LEMMA RestOfQueue ==
  ASSUME NEW S, NEW q \in Seq(S), q # <<>>, NEW i \in 1..Len(q)
  PROVE  i = 1 \/ i \in 2..Len(q)
BY TakeFromQueue

-----------------------------------------------------------------------------
\* A reply names a request or the stop.
LEMMA RepliesName ==
  ASSUME TypeOK, NEW i \in 1..Len(replies)
  PROVE  replies[i].id \in Requests \cup {Stop}
<1> DEFINE M == [id : Requests \cup {Stop}, ok : BOOLEAN]
<1>1. \A m \in M : m.id \in Requests \cup {Stop}
  OBVIOUS
<1>2. replies \in Seq(M)
  BY DEF TypeOK
<1> HIDE DEF M
<1>3. replies[i] \in M
  BY <1>2, ElementOfSeq
<1> QED BY <1>1, <1>3

\* At first nothing is requested.
LEMMA SessionInvInit == Init => SessionInv
<1> SUFFICES ASSUME Init PROVE SessionInv
  OBVIOUS
<1> USE DEF Init
<1>1. TypeOK
  <2>1. /\ runQueue \in Seq(Cells) /\ requests \in Seq(Requests \cup {Stop})
        /\ replies \in Seq([id : Requests \cup {Stop}, ok : BOOLEAN])
    BY EmptySeq
  <2> QED BY <2>1 DEF TypeOK, Phases, Statuses, Outcomes, Relays
<1>2. Len(runQueue) = 0 /\ Len(requests) = 0 /\ Len(replies) = 0
  BY EmptySeq
<1>3. RequestsAccounted
  BY <1>2 DEF RequestsAccounted, PendingExact, ReplyTruth, NoRequestLost
<1>4. CellsInOrder
  BY <1>2 DEF CellsInOrder, Requests
<1> QED BY <1>1, <1>2, <1>3, <1>4, RequestsAssumption
        DEF SessionInv, BlamesRunningCell, TakenWasPosted, QueueIsNew, WorkIsTaken,
            ChainedOnce, Requests

\* The constants are different things.
LEMMA NamesDiffer ==
  /\ Cells \subseteq Requests /\ Controls \subseteq Requests /\ Stop \notin Requests
  /\ None \notin Requests /\ None # Stop /\ None \notin Cells
  /\ \A c \in Cells : c \notin Controls
BY RequestsAssumption DEF Requests

-----------------------------------------------------------------------------
(* The page.                                                               *)

\* The part of the invariant that is not about the chain of cells.
WorkInv ==
  /\ TypeOK /\ RequestsAccounted /\ BlamesRunningCell
  /\ TakenWasPosted /\ QueueIsNew /\ WorkIsTaken

\* postAndWait: a request that is posted is waited for and new in the queue.
LEMMA PostKeepsWork ==
  ASSUME SessionInv, NEW r \in Requests, status[r] \in {"idle", "queued"},
         PostAndWait(r), runQueue' \in Seq(Cells),
         UNCHANGED <<phase, replies, workerVars, relay>>
  PROVE  WorkInv'
<1> USE NamesDiffer DEF workerVars
<1>1. /\ TypeOK /\ RequestsAccounted /\ BlamesRunningCell
      /\ TakenWasPosted /\ QueueIsNew /\ WorkIsTaken
  BY DEF SessionInv
<1>2. outcome[r] = "none"
  BY <1>1 DEF TakenWasPosted
<1>3. CASE phase # "live"
  <2>1. /\ status' = [status EXCEPT ![r] = "refused"]
        /\ UNCHANGED <<pendingCalls, requests>>
    BY <1>3 DEF PostAndWait
  <2>2. TypeOK'
    BY <1>1, <2>1 DEF TypeOK, Statuses
  <2>3. \A q \in Requests : status'[q] = IF q = r THEN "refused" ELSE status[q]
    BY <1>1, <2>1 DEF TypeOK
  <2>4. PendingExact'
    BY <1>1, <2>1, <2>3 DEF PendingExact, RequestsAccounted
  <2>5. ReplyTruth' /\ NoRequestLost'
    BY <1>1, <2>1, <2>3 DEF ReplyTruth, NoRequestLost, RequestsAccounted
  <2>6. QueueIsNew'
    BY <1>1, <2>1, <2>3 DEF QueueIsNew, TypeOK
  <2>7. TakenWasPosted' /\ WorkIsTaken' /\ BlamesRunningCell'
    BY <1>1, <1>2, <2>1, <2>3 DEF TakenWasPosted, WorkIsTaken, BlamesRunningCell
  <2> QED BY <2>2, <2>4, <2>5, <2>6, <2>7 DEF RequestsAccounted, WorkInv
<1>4. CASE phase = "live"
  <2>1. /\ status' = [status EXCEPT ![r] = "posted"]
        /\ pendingCalls' = pendingCalls \cup {r}
        /\ requests' = Append(requests, r)
    BY <1>4 DEF PostAndWait
  <2>2. /\ requests' \in Seq(Requests \cup {Stop}) /\ Len(requests) \in Nat
        /\ \A i \in 1..Len(requests) : i \in 1..Len(requests') /\ requests'[i] = requests[i]
        /\ \A i \in 1..Len(requests') : \/ i \in 1..Len(requests) /\ requests'[i] = requests[i]
                                        \/ i = Len(requests) + 1 /\ requests'[i] = r
        /\ Len(requests) + 1 \in 1..Len(requests') /\ requests'[Len(requests) + 1] = r
    <3>1. requests \in Seq(Requests \cup {Stop}) /\ r \in Requests \cup {Stop}
      BY <1>1 DEF TypeOK
    <3> QED BY <2>1, <3>1, AppendToQueue
  <2>3. TypeOK'
    BY <1>1, <2>1, <2>2 DEF TypeOK, Statuses
  <2>4. \A q \in Requests : status'[q] = IF q = r THEN "posted" ELSE status[q]
    BY <1>1, <2>1 DEF TypeOK
  <2>5. PendingExact'
    BY <1>1, <2>1, <2>4 DEF PendingExact, RequestsAccounted
  <2>6. ReplyTruth'
    BY <1>1, <2>4 DEF ReplyTruth, RequestsAccounted
  <2>7. NoRequestLost'
    <3>1. ASSUME NEW q \in Requests, status'[q] = "posted"
          PROVE  \/ \E i \in 1..Len(requests') : requests'[i] = q
                 \/ busy = q /\ outcome[q] = "running"
                 \/ \E i \in 1..Len(replies) : replies[i].id = q
      <4>1. CASE q = r
        BY <2>2, <4>1
      <4>2. CASE q # r
        <5>1. status[q] = "posted"
          BY <2>4, <3>1, <4>2
        <5> QED BY <1>1, <2>2, <5>1 DEF NoRequestLost, RequestsAccounted
      <4> QED BY <4>1, <4>2
    <3> QED BY <3>1 DEF NoRequestLost
  <2>8. QueueIsNew'
    <3>1. \A i \in 1..Len(requests) : requests[i] # r
      BY <1>1 DEF QueueIsNew
    <3>2. ASSUME NEW i \in 1..Len(requests'), requests'[i] # Stop
          PROVE  status'[requests'[i]] = "posted" /\ outcome[requests'[i]] = "none"
      <4>1. requests'[i] \in Requests
        BY <2>2, <3>2, ElementOfSeq
      <4> QED BY <1>1, <1>2, <2>2, <2>4, <3>2, <4>1 DEF QueueIsNew
    <3>3. ASSUME NEW i \in 1..Len(requests'), NEW j \in 1..Len(requests'),
                 requests'[i] = requests'[j], requests'[i] # Stop
          PROVE  i = j
      BY <1>1, <2>2, <3>1, <3>3 DEF QueueIsNew
    <3> QED BY <3>2, <3>3 DEF QueueIsNew
  <2>9. TakenWasPosted' /\ WorkIsTaken' /\ BlamesRunningCell'
    BY <1>1, <2>1, <2>4 DEF TakenWasPosted, WorkIsTaken, BlamesRunningCell
  <2> QED BY <2>3, <2>5, <2>6, <2>7, <2>8, <2>9 DEF RequestsAccounted, WorkInv
<1> QED BY <1>3, <1>4

\* The chain without its first cell is in order, once that cell is settled.
LEMMA ChainMovesOn ==
  ASSUME SessionInv, runQueue # <<>>, runQueue' = Tail(runQueue),
         status' \in [Requests -> Statuses],
         status'[Head(runQueue)] \notin {"queued", "posted"},
         \A c \in Cells : c # Head(runQueue) => status'[c] = status[c],
         \A i \in 2..Len(runQueue) : outcome'[runQueue[i]] = "none"
  PROVE  runQueue' \in Seq(Cells) /\ CellsInOrder' /\ ChainedOnce'
<1>1. TypeOK /\ CellsInOrder /\ ChainedOnce
  BY DEF SessionInv
<1>2. /\ Tail(runQueue) \in Seq(Cells) /\ Len(runQueue) \in Nat \ {0}
      /\ Len(Tail(runQueue)) = Len(runQueue) - 1
      /\ 1 \in 1..Len(runQueue) /\ Head(runQueue) = runQueue[1] /\ Head(runQueue) \in Cells
      /\ \A i \in 1..Len(Tail(runQueue)) : i + 1 \in 2..Len(runQueue)
                                           /\ Tail(runQueue)[i] = runQueue[i + 1]
      /\ \A i \in 2..Len(runQueue) : i - 1 \in 1..Len(Tail(runQueue))
                                     /\ Tail(runQueue)[i - 1] = runQueue[i]
  BY <1>1, TakeFromQueue DEF TypeOK
<1> DEFINE t == Tail(runQueue)  h == Head(runQueue)
<1> HIDE DEF t, h
<1>3. /\ t \in Seq(Cells) /\ Len(t) = Len(runQueue) - 1 /\ h = runQueue[1] /\ h \in Cells
      /\ \A i \in 1..Len(t) : i + 1 \in 2..Len(runQueue) /\ t[i] = runQueue[i + 1]
      /\ \A i \in 2..Len(runQueue) : i - 1 \in 1..Len(t) /\ t[i - 1] = runQueue[i]
      /\ Len(runQueue) \in Nat \ {0} /\ 1 \in 1..Len(runQueue)
      /\ runQueue' = t
  BY <1>2 DEF t, h
<1>4. \A i \in 2..Len(runQueue) : /\ i \in 1..Len(runQueue) /\ runQueue[i] # h
                                  /\ runQueue[i] \in Cells
                                  /\ status'[runQueue[i]] = "queued"
  <2>1. ASSUME NEW i \in 2..Len(runQueue)
        PROVE  /\ i \in 1..Len(runQueue) /\ runQueue[i] # h /\ runQueue[i] \in Cells
               /\ status'[runQueue[i]] = "queued"
    <3>1. i \in 1..Len(runQueue) /\ i # 1
      BY <1>3
    <3>2. runQueue[i] # h
      BY <1>1, <1>3, <3>1 DEF ChainedOnce
    <3>3. runQueue[i] \in Cells
      BY <1>1, <3>1, ElementOfSeq DEF TypeOK
    <3> QED BY <1>1, <3>1, <3>2, <3>3 DEF CellsInOrder, h
  <2> QED BY <2>1
<1>5. ASSUME NEW i \in 2..Len(t)
      PROVE  status'[t[i]] = "queued" /\ outcome'[t[i]] = "none"
  <2>1. i \in 1..Len(t) /\ i + 1 \in 2..Len(runQueue) /\ t[i] = runQueue[i + 1]
    BY <1>3
  <2>2. t[i] \in Cells /\ status'[t[i]] = "queued"
    BY <1>4, <2>1
  <2>3. outcome'[t[i]] = "none"
    BY <1>3, <1>4, <2>1
  <2> QED BY <2>2, <2>3
<1>6. ASSUME NEW c \in Cells
      PROVE  status'[c] \in {"queued", "posted"} <=> \E i \in 1..Len(t) : t[i] = c
  <2>1. ASSUME status'[c] \in {"queued", "posted"} PROVE \E i \in 1..Len(t) : t[i] = c
    <3>1. c # h /\ status[c] \in {"queued", "posted"}
      BY <2>1 DEF h
    <3>2. PICK i \in 1..Len(runQueue) : runQueue[i] = c
      BY <1>1, <3>1 DEF CellsInOrder
    <3>3. i \in 2..Len(runQueue)
      BY <1>3, <3>1, <3>2
    <3> QED BY <1>3, <3>2, <3>3
  <2>2. ASSUME NEW i \in 1..Len(t), t[i] = c PROVE status'[c] \in {"queued", "posted"}
    BY <1>3, <1>4, <2>2
  <2> QED BY <2>1, <2>2
<1>7. ASSUME NEW i \in 1..Len(t), NEW j \in 1..Len(t), t[i] = t[j] PROVE i = j
  <2>1. i + 1 \in 1..Len(runQueue) /\ j + 1 \in 1..Len(runQueue)
        /\ runQueue[i + 1] = runQueue[j + 1]
    BY <1>3, <1>4, <1>7
  <2>2. i + 1 = j + 1
    BY <1>1, <2>1 DEF ChainedOnce
  <2> QED BY <2>2
<1>8. CellsInOrder'
  <2>1. \A i \in 2..Len(runQueue') :
          status'[runQueue'[i]] = "queued" /\ outcome'[runQueue'[i]] = "none"
    BY <1>3, <1>5
  <2>2. \A c \in Cells : status'[c] \in {"queued", "posted"}
                            <=> \E i \in 1..Len(runQueue') : runQueue'[i] = c
    BY <1>3, <1>6
  <2> QED BY <2>1, <2>2 DEF CellsInOrder
<1>9. ChainedOnce'
  BY <1>3, <1>7 DEF ChainedOnce
<1> QED BY <1>3, <1>8, <1>9

\* The chain stays in order while its cells keep waiting.
LEMMA ChainStays ==
  ASSUME SessionInv, UNCHANGED runQueue,
         \A c \in Cells : status'[c] \in {"queued", "posted"} <=> status[c] \in {"queued", "posted"},
         \A i \in 2..Len(runQueue) : status'[runQueue[i]] = "queued"
                                     /\ outcome'[runQueue[i]] = "none"
  PROVE  CellsInOrder' /\ ChainedOnce'
BY DEF SessionInv, CellsInOrder, ChainedOnce

\* The steps of the page keep the invariant.
LEMMA RunCellStep ==
  ASSUME SessionInv, NEW c \in Cells, RunCell(c)
  PROVE  SessionInv'
<1> USE NamesDiffer DEF workerVars
<1>1. /\ TypeOK /\ RequestsAccounted /\ BlamesRunningCell /\ CellsInOrder
      /\ TakenWasPosted /\ QueueIsNew /\ WorkIsTaken /\ ChainedOnce
  BY DEF SessionInv
<1>2. /\ status[c] = "idle" /\ status' = [status EXCEPT ![c] = "queued"]
      /\ runQueue' = Append(runQueue, c)
      /\ UNCHANGED <<phase, pendingCalls, requests, replies, workerVars, relay>>
  BY DEF RunCell
<1>3. /\ runQueue' \in Seq(Cells) /\ Len(runQueue) \in Nat
      /\ Len(runQueue') = Len(runQueue) + 1
      /\ \A i \in 1..Len(runQueue) : i \in 1..Len(runQueue') /\ runQueue'[i] = runQueue[i]
      /\ \A i \in 1..Len(runQueue') : \/ i \in 1..Len(runQueue) /\ runQueue'[i] = runQueue[i]
                                      \/ i = Len(runQueue) + 1 /\ runQueue'[i] = c
      /\ Len(runQueue) + 1 \in 1..Len(runQueue') /\ runQueue'[Len(runQueue) + 1] = c
  <2>1. runQueue \in Seq(Cells)
    BY <1>1 DEF TypeOK
  <2> QED BY <1>2, <2>1, AppendToQueue
<1>4. \A q \in Requests : status'[q] = IF q = c THEN "queued" ELSE status[q]
  BY <1>1, <1>2 DEF TypeOK
<1>5. outcome[c] = "none" /\ \A i \in 1..Len(runQueue) : runQueue[i] \in Cells /\ runQueue[i] # c
  BY <1>1, <1>2, ElementOfSeq DEF TakenWasPosted, CellsInOrder, TypeOK
<1>6. TypeOK'
  BY <1>1, <1>2, <1>3 DEF TypeOK, Statuses
<1>7. RequestsAccounted'
  BY <1>1, <1>2, <1>4 DEF RequestsAccounted, PendingExact, ReplyTruth, NoRequestLost
<1>8. CellsInOrder'
  <2>1. ASSUME NEW i \in 2..Len(runQueue')
        PROVE  status'[runQueue'[i]] = "queued" /\ outcome'[runQueue'[i]] = "none"
    <3>1. i \in 1..Len(runQueue')
      BY <1>3
    <3>2. CASE i \in 1..Len(runQueue) /\ runQueue'[i] = runQueue[i]
      BY <1>1, <1>2, <1>3, <1>4, <1>5, <3>2 DEF CellsInOrder
    <3>3. CASE runQueue'[i] = c
      BY <1>2, <1>4, <1>5, <3>3
    <3> QED BY <1>3, <3>1, <3>2, <3>3
  <2>2. ASSUME NEW q \in Cells
        PROVE  status'[q] \in {"queued", "posted"}
                 <=> \E i \in 1..Len(runQueue') : runQueue'[i] = q
    <3>1. CASE q = c
      BY <1>3, <1>4, <3>1
    <3>2. CASE q # c
      BY <1>1, <1>3, <1>4, <3>2 DEF CellsInOrder
    <3> QED BY <3>1, <3>2
  <2> QED BY <2>1, <2>2 DEF CellsInOrder
<1>9. ChainedOnce'
  BY <1>1, <1>3, <1>5 DEF ChainedOnce
<1>10. TakenWasPosted' /\ WorkIsTaken' /\ BlamesRunningCell'
  BY <1>1, <1>2, <1>4, <1>5 DEF TakenWasPosted, WorkIsTaken, BlamesRunningCell
<1>11. QueueIsNew'
  BY <1>1, <1>2, <1>4 DEF QueueIsNew, TypeOK
<1> QED BY <1>6, <1>7, <1>8, <1>9, <1>10, <1>11 DEF SessionInv

\* The chain posts its first cell.
LEMMA StartCellStep ==
  ASSUME SessionInv, StartCell
  PROVE  SessionInv'
<1> USE NamesDiffer DEF workerVars
<1> DEFINE c == Head(runQueue)
<1>1. TypeOK /\ CellsInOrder /\ TakenWasPosted /\ ChainedOnce
  BY DEF SessionInv
<1>2. /\ runQueue # <<>> /\ status[c] = "queued" /\ PostAndWait(c)
      /\ runQueue' = IF phase = "live" THEN runQueue ELSE Tail(runQueue)
      /\ UNCHANGED <<phase, replies, workerVars, relay>>
  BY DEF StartCell
<1>3. c \in Cells /\ c = runQueue[1] /\ Tail(runQueue) \in Seq(Cells)
      /\ runQueue \in Seq(Cells)
  BY <1>1, <1>2, TakeFromQueue DEF TypeOK
<1> HIDE DEF c
<1>4. WorkInv'
  BY <1>2, <1>3, PostKeepsWork
<1>5. status' \in [Requests -> Statuses]
      /\ \A q \in Cells : q # c => status'[q] = status[q]
  BY <1>1, <1>2, <1>3, <1>4 DEF WorkInv, TypeOK, PostAndWait
<1>6. CASE phase = "live"
  <2>1. status' = [status EXCEPT ![c] = "posted"] /\ UNCHANGED runQueue
    BY <1>2, <1>6 DEF PostAndWait
  <2>2. ASSUME NEW i \in 2..Len(runQueue)
        PROVE  status'[runQueue[i]] = "queued" /\ outcome'[runQueue[i]] = "none"
    <3>1. i \in 1..Len(runQueue) /\ 1 \in 1..Len(runQueue) /\ i # 1
      BY <1>2, <1>3, TakeFromQueue
    <3>2. runQueue[i] # c /\ runQueue[i] \in Cells
      BY <1>1, <1>3, <3>1, ElementOfSeq DEF ChainedOnce
    <3> QED BY <1>1, <1>2, <1>5, <3>2 DEF CellsInOrder
  <2>3. \A q \in Cells : status'[q] \in {"queued", "posted"} <=> status[q] \in {"queued", "posted"}
    BY <1>1, <1>2, <2>1 DEF TypeOK
  <2>4. CellsInOrder' /\ ChainedOnce'
    BY <2>1, <2>2, <2>3, ChainStays
  <2> QED BY <1>4, <2>4 DEF SessionInv, WorkInv
<1>7. CASE phase # "live"
  <2>1. status'[c] = "refused" /\ runQueue' = Tail(runQueue)
    BY <1>1, <1>2, <1>3, <1>7 DEF PostAndWait, TypeOK
  <2>2. \A i \in 2..Len(runQueue) : outcome'[runQueue[i]] = "none"
    BY <1>1, <1>2 DEF CellsInOrder
  <2>3. CellsInOrder' /\ ChainedOnce'
    BY <1>2, <1>5, <2>1, <2>2, ChainMovesOn DEF c
  <2> QED BY <1>4, <2>3 DEF SessionInv, WorkInv
<1> QED BY <1>6, <1>7

\* A request other than a cell is posted at once.
LEMMA RequestStep ==
  ASSUME SessionInv, NEW r \in Controls, Request(r)
  PROVE  SessionInv'
<1> USE NamesDiffer DEF workerVars
<1>1. TypeOK /\ CellsInOrder /\ ChainedOnce
  BY DEF SessionInv
<1>2. /\ status[r] = "idle" /\ PostAndWait(r)
      /\ UNCHANGED <<phase, runQueue, replies, workerVars, relay>>
  BY DEF Request
<1>3. WorkInv'
  BY <1>1, <1>2, PostKeepsWork DEF TypeOK
<1>4. \A q \in Cells : status'[q] = status[q]
  BY <1>1, <1>2 DEF PostAndWait, TypeOK
<1>5. \A i \in 2..Len(runQueue) : runQueue[i] \in Cells
  <2>1. runQueue \in Seq(Cells) /\ \A i \in 2..Len(runQueue) : i \in 1..Len(runQueue)
    BY <1>1, LenProperties DEF TypeOK
  <2> QED BY <2>1, ElementOfSeq
<1>6. CellsInOrder' /\ ChainedOnce'
  BY <1>1, <1>2, <1>4, <1>5, ChainStays DEF CellsInOrder
<1> QED BY <1>3, <1>6 DEF SessionInv, WorkInv

\* postMessage throws.
LEMMA PostThrowsStep ==
  ASSUME SessionInv, NEW r \in Controls, PostThrows(r)
  PROVE  SessionInv'
<1> USE NamesDiffer DEF workerVars
<1>1. /\ TypeOK /\ RequestsAccounted /\ BlamesRunningCell /\ CellsInOrder
      /\ TakenWasPosted /\ QueueIsNew /\ WorkIsTaken /\ ChainedOnce
  BY DEF SessionInv
<1>2. /\ status[r] = "idle" /\ status' = [status EXCEPT ![r] = "refused"]
      /\ pendingCalls' = pendingCalls \cup {r}
      /\ UNCHANGED <<phase, runQueue, requests, replies, workerVars, relay>>
  BY DEF PostThrows
<1>3. \A q \in Requests : status'[q] = IF q = r THEN "refused" ELSE status[q]
  BY <1>1, <1>2 DEF TypeOK
<1>4. TypeOK'
  BY <1>1, <1>2 DEF TypeOK, Statuses
<1>5. RequestsAccounted'
  BY <1>1, <1>2, <1>3 DEF RequestsAccounted, PendingExact, ReplyTruth, NoRequestLost
<1>6. TakenWasPosted' /\ WorkIsTaken' /\ BlamesRunningCell'
  BY <1>1, <1>2, <1>3 DEF TakenWasPosted, WorkIsTaken, BlamesRunningCell
<1>7. QueueIsNew'
  BY <1>1, <1>2, <1>3 DEF QueueIsNew, TypeOK
<1>8. \A i \in 2..Len(runQueue) : runQueue[i] \in Cells
  <2>1. runQueue \in Seq(Cells) /\ \A i \in 2..Len(runQueue) : i \in 1..Len(runQueue)
    BY <1>1, LenProperties DEF TypeOK
  <2> QED BY <2>1, ElementOfSeq
<1>9. CellsInOrder' /\ ChainedOnce'
  BY <1>1, <1>2, <1>3, <1>8, ChainStays DEF CellsInOrder
<1> QED BY <1>4, <1>5, <1>6, <1>7, <1>9 DEF SessionInv

\* The page settles the request that a reply names.
LEMMA ReceiveReplyStep ==
  ASSUME SessionInv, ReceiveReply
  PROVE  SessionInv'
<1> USE NamesDiffer DEF workerVars
<1> DEFINE r == Head(replies).id  ok == Head(replies).ok
<1>1. /\ TypeOK /\ RequestsAccounted /\ BlamesRunningCell /\ CellsInOrder
      /\ TakenWasPosted /\ QueueIsNew /\ WorkIsTaken /\ ChainedOnce
  BY DEF SessionInv
<1>2. /\ replies # <<>> /\ replies' = Tail(replies)
      /\ UNCHANGED <<phase, requests, workerVars, relay>>
  BY DEF ReceiveReply
<1>3. replies \in Seq([id : Requests \cup {Stop}, ok : BOOLEAN])
  BY <1>1 DEF TypeOK
<1>4. /\ replies' \in Seq([id : Requests \cup {Stop}, ok : BOOLEAN])
      /\ 1 \in 1..Len(replies) /\ Head(replies) = replies[1]
      /\ Head(replies) \in [id : Requests \cup {Stop}, ok : BOOLEAN]
      /\ \A i \in 1..Len(replies') : i + 1 \in 2..Len(replies) /\ replies'[i] = replies[i + 1]
      /\ \A i \in 2..Len(replies) : i - 1 \in 1..Len(replies') /\ replies'[i - 1] = replies[i]
      /\ Len(replies) \in Nat \ {0}
  <2> DEFINE S == [id : Requests \cup {Stop}, ok : BOOLEAN]
  <2> HIDE DEF S
  <2>1. replies \in Seq(S)
    BY <1>3 DEF S
  <2>2. /\ replies' \in Seq(S) /\ Head(replies) \in S
        /\ 1 \in 1..Len(replies) /\ Head(replies) = replies[1]
        /\ \A i \in 1..Len(replies') : i + 1 \in 2..Len(replies) /\ replies'[i] = replies[i + 1]
        /\ \A i \in 2..Len(replies) : i - 1 \in 1..Len(replies') /\ replies'[i - 1] = replies[i]
        /\ Len(replies) \in Nat \ {0}
    BY <1>2, <2>1, TakeFromQueue
  <2> QED BY <2>2 DEF S
<1>5. \A i \in 1..Len(replies') : i + 1 \in 1..Len(replies) /\ replies'[i] = replies[i + 1]
  BY <1>4
<1>6. r \in Requests => outcome[r] # "none"
  BY <1>1, <1>4 DEF WorkIsTaken
<1>7. ok /\ r \in Requests => outcome[r] = "ok"
  BY <1>1, <1>4 DEF ReplyTruth, RequestsAccounted
<1>8. /\ r \in pendingCalls <=> r \in Requests /\ status[r] = "posted"
      /\ \A q \in Requests : status[q] = "posted" => q \in pendingCalls
  BY <1>1, <1>6 DEF PendingExact, RequestsAccounted, TakenWasPosted, TypeOK
<1>9. IF r \in pendingCalls
      THEN /\ pendingCalls' = pendingCalls \ {r}
           /\ status' = [status EXCEPT ![r] = IF ok THEN "ok" ELSE "error"]
           /\ runQueue' = IF r \in Cells THEN Tail(runQueue) ELSE runQueue
      ELSE UNCHANGED <<pendingCalls, status, runQueue>>
  BY DEF ReceiveReply
<1> HIDE DEF r, ok
<1>10. /\ \A q \in Requests : q # r \/ r \notin pendingCalls => status'[q] = status[q]
       /\ r \in pendingCalls => r \in Requests /\ status'[r] = IF ok THEN "ok" ELSE "error"
       /\ status' \in [Requests -> Statuses] /\ pendingCalls' \subseteq Requests
  BY <1>1, <1>8, <1>9 DEF TypeOK, Statuses
<1>11. PendingExact'
  BY <1>1, <1>8, <1>9, <1>10 DEF PendingExact, RequestsAccounted, TypeOK
<1>12. ReplyTruth'
  BY <1>1, <1>2, <1>5, <1>7, <1>10 DEF ReplyTruth, RequestsAccounted
<1>13. NoRequestLost'
  <2>1. ASSUME NEW q \in Requests, status'[q] = "posted"
        PROVE  \/ \E i \in 1..Len(requests) : requests[i] = q
               \/ busy = q /\ outcome[q] = "running"
               \/ \E i \in 1..Len(replies') : replies'[i].id = q
    <3>1. q # r /\ status[q] = "posted"
      BY <1>8, <1>10, <2>1
    <3>2. CASE \E i \in 1..Len(replies) : replies[i].id = q
      <4>1. PICK i \in 1..Len(replies) : replies[i].id = q
        BY <3>2
      <4>2. i \in 2..Len(replies)
        BY <1>4, <3>1, <4>1 DEF r
      <4> QED BY <1>4, <4>1, <4>2
    <3> QED BY <1>1, <3>1, <3>2 DEF NoRequestLost, RequestsAccounted
  <2> QED BY <1>2, <2>1 DEF NoRequestLost
<1>14. TakenWasPosted' /\ BlamesRunningCell'
  BY <1>1, <1>2, <1>10 DEF TakenWasPosted, BlamesRunningCell
<1>15. WorkIsTaken'
  BY <1>1, <1>2, <1>5 DEF WorkIsTaken
<1>16. QueueIsNew'
  <2>1. ASSUME NEW i \in 1..Len(requests), requests[i] # Stop
        PROVE  status'[requests[i]] = "posted" /\ outcome[requests[i]] = "none"
    <3>1. requests[i] \in Requests
      BY <1>1, <2>1, ElementOfSeq DEF TypeOK
    <3>2. status[requests[i]] = "posted" /\ outcome[requests[i]] = "none"
      BY <1>1, <2>1 DEF QueueIsNew
    <3>3. requests[i] # r
      BY <1>6, <3>1, <3>2 DEF r
    <3> QED BY <1>10, <3>1, <3>2, <3>3
  <2> QED BY <1>1, <1>2, <2>1 DEF QueueIsNew
<1>17. runQueue' \in Seq(Cells) /\ CellsInOrder' /\ ChainedOnce'
  <2>1. \A i \in 1..Len(runQueue) : runQueue[i] \in Cells
    BY <1>1, ElementOfSeq DEF TypeOK
  <2>2. /\ \A i \in 2..Len(runQueue) : i \in 1..Len(runQueue)
    BY <1>1, LenProperties DEF TypeOK
  <2>3. CASE r \in pendingCalls /\ r \in Cells
    <3>1. PICK i \in 1..Len(runQueue) : runQueue[i] = r
      BY <1>1, <1>8, <2>3 DEF CellsInOrder
    <3>2. runQueue # <<>> /\ runQueue \in Seq(Cells)
      BY <1>1, <3>1, EmptySeq DEF TypeOK
    <3>3. i = 1
      <4>1. i \notin 2..Len(runQueue)
        BY <1>1, <1>8, <2>3, <3>1 DEF CellsInOrder
      <4> QED BY <3>2, <4>1, RestOfQueue
    <3>4. Head(runQueue) = r
      BY <3>1, <3>2, <3>3, TakeFromQueue
    <3>5. \A j \in 2..Len(runQueue) : outcome'[runQueue[j]] = "none"
      BY <1>1, <1>2 DEF CellsInOrder
    <3>6. status'[Head(runQueue)] \notin {"queued", "posted"}
      BY <1>10, <2>3, <3>4
    <3>7. \A c \in Cells : c # Head(runQueue) => status'[c] = status[c]
      BY <1>10, <3>4
    <3> QED BY <1>9, <1>10, <2>3, <3>2, <3>5, <3>6, <3>7, ChainMovesOn
  <2>4. CASE ~ (r \in pendingCalls /\ r \in Cells)
    <3>1. UNCHANGED runQueue /\ \A q \in Cells : status'[q] = status[q]
      BY <1>9, <1>10, <2>4
    <3>2. \A i \in 2..Len(runQueue) : status'[runQueue[i]] = "queued"
                                      /\ outcome'[runQueue[i]] = "none"
      BY <1>1, <1>2, <2>1, <2>2, <3>1 DEF CellsInOrder
    <3>3. CellsInOrder' /\ ChainedOnce'
      BY <3>1, <3>2, ChainStays
    <3> QED BY <1>1, <3>1, <3>3 DEF TypeOK
  <2> QED BY <2>3, <2>4
<1>18. TypeOK'
  BY <1>1, <1>2, <1>4, <1>10, <1>17 DEF TypeOK
<1> QED BY <1>11, <1>12, <1>13, <1>14, <1>15, <1>16, <1>17, <1>18
        DEF SessionInv, RequestsAccounted

\* stopWith asks the worker to stop.
LEMMA StopWithStep ==
  ASSUME SessionInv, StopWith
  PROVE  SessionInv'
<1> USE NamesDiffer DEF workerVars
<1>1. /\ TypeOK /\ RequestsAccounted /\ BlamesRunningCell /\ CellsInOrder
      /\ TakenWasPosted /\ QueueIsNew /\ WorkIsTaken /\ ChainedOnce
  BY DEF SessionInv
<1>2. /\ phase' = "stopping"
      /\ relay' = [c \in Cells |-> IF relay[c] = "executing" THEN "aborted" ELSE relay[c]]
      /\ requests' = Append(requests, Stop)
      /\ UNCHANGED <<status, runQueue, pendingCalls, replies, workerVars>>
  BY DEF StopWith
<1>3. /\ requests' \in Seq(Requests \cup {Stop})
      /\ \A i \in 1..Len(requests) : i \in 1..Len(requests') /\ requests'[i] = requests[i]
      /\ \A i \in 1..Len(requests') : \/ i \in 1..Len(requests) /\ requests'[i] = requests[i]
                                      \/ i = Len(requests) + 1 /\ requests'[i] = Stop
  BY <1>1, <1>2, AppendToQueue DEF TypeOK
<1>4. TypeOK'
  BY <1>1, <1>2, <1>3 DEF TypeOK, Phases, Relays
<1>5. RequestsAccounted'
  <2>1. NoRequestLost'
    BY <1>1, <1>2, <1>3 DEF NoRequestLost, RequestsAccounted
  <2> QED BY <1>1, <1>2, <2>1 DEF RequestsAccounted, PendingExact, ReplyTruth
<1>6. QueueIsNew'
  BY <1>1, <1>2, <1>3 DEF QueueIsNew
<1>7. CellsInOrder' /\ ChainedOnce' /\ TakenWasPosted' /\ WorkIsTaken' /\ BlamesRunningCell'
  BY <1>1, <1>2 DEF CellsInOrder, ChainedOnce, TakenWasPosted, WorkIsTaken, BlamesRunningCell
<1> QED BY <1>4, <1>5, <1>6, <1>7 DEF SessionInv

\* stopWith, 50 ms later, settles everything and ends the worker.
LEMMA TerminateStep ==
  ASSUME SessionInv, Terminate
  PROVE  SessionInv'
<1> USE NamesDiffer
<1>1. /\ TypeOK /\ RequestsAccounted /\ BlamesRunningCell /\ CellsInOrder
      /\ TakenWasPosted /\ QueueIsNew /\ WorkIsTaken /\ ChainedOnce
  BY DEF SessionInv
<1>2. /\ phase' = "stopped"
      /\ status' = [r \in Requests |-> IF status[r] = "posted" /\ r \in pendingCalls
                                       THEN "stopped" ELSE status[r]]
      /\ pendingCalls' = {} /\ requests' = <<>> /\ replies' = <<>>
      /\ busy' = None /\ activeRunCell' = None /\ UNCHANGED <<outcome, relay>>
  BY DEF Terminate
<1>3. \A r \in Requests : /\ status[r] = "posted" => r \in pendingCalls
                          /\ r \in pendingCalls => status[r] \in {"posted", "refused"}
                          /\ status'[r] = IF status[r] = "posted" THEN "stopped" ELSE status[r]
  BY <1>1, <1>2 DEF RequestsAccounted, PendingExact, TypeOK
<1>4. Len(requests') = 0 /\ Len(replies') = 0
      /\ requests' \in Seq(Requests \cup {Stop})
      /\ replies' \in Seq([id : Requests \cup {Stop}, ok : BOOLEAN])
  BY <1>2, EmptySeq
<1>5. status' \in [Requests -> Statuses]
  BY <1>1, <1>2 DEF TypeOK, Statuses
<1>6. RequestsAccounted' /\ QueueIsNew' /\ WorkIsTaken' /\ BlamesRunningCell' /\ TakenWasPosted'
  BY <1>1, <1>2, <1>3, <1>4
     DEF RequestsAccounted, PendingExact, ReplyTruth, NoRequestLost, QueueIsNew,
         WorkIsTaken, BlamesRunningCell, TakenWasPosted
<1>7. runQueue' \in Seq(Cells) /\ CellsInOrder' /\ ChainedOnce'
  <2>1. \A i \in 2..Len(runQueue) :
          /\ i \in 1..Len(runQueue) /\ runQueue[i] \in Cells
          /\ status[runQueue[i]] = "queued" /\ outcome[runQueue[i]] = "none"
    <3>1. runQueue \in Seq(Cells) /\ \A i \in 2..Len(runQueue) : i \in 1..Len(runQueue)
      BY <1>1, LenProperties DEF TypeOK
    <3> QED BY <1>1, <3>1, ElementOfSeq DEF CellsInOrder
  <2>2. \A c \in Cells : status[c] = "posted" => runQueue # <<>> /\ c = Head(runQueue)
    <3>1. ASSUME NEW c \in Cells, status[c] = "posted"
          PROVE  runQueue # <<>> /\ c = Head(runQueue)
      <4>1. PICK i \in 1..Len(runQueue) : runQueue[i] = c
        BY <1>1, <3>1 DEF CellsInOrder
      <4>2. runQueue \in Seq(Cells) /\ runQueue # <<>>
        BY <1>1, <4>1, EmptySeq DEF TypeOK
      <4>3. i = 1
        BY <2>1, <3>1, <4>1, <4>2, RestOfQueue
      <4> QED BY <4>1, <4>2, <4>3, TakeFromQueue
    <3> QED BY <3>1
  <2>3. CASE runQueue # <<>> /\ Head(runQueue) \in pendingCalls
    <3>1. runQueue' = Tail(runQueue)
      BY <2>3 DEF Terminate
    <3>2. 1 \in 1..Len(runQueue) /\ Head(runQueue) = runQueue[1] /\ Head(runQueue) \in Cells
      BY <1>1, <2>3, TakeFromQueue DEF TypeOK
    <3>3. status[Head(runQueue)] \in {"queued", "posted"}
      BY <1>1, <3>2 DEF CellsInOrder
    <3>4. status'[Head(runQueue)] = "stopped"
      BY <1>3, <2>3, <3>2, <3>3
    <3>5. \A c \in Cells : c # Head(runQueue) => status'[c] = status[c]
      BY <1>3, <2>2
    <3>6. \A i \in 2..Len(runQueue) : outcome'[runQueue[i]] = "none"
      BY <1>2, <2>1
    <3> QED BY <1>5, <2>3, <3>1, <3>4, <3>5, <3>6, ChainMovesOn
  <2>4. CASE ~ (runQueue # <<>> /\ Head(runQueue) \in pendingCalls)
    <3>1. UNCHANGED runQueue
      BY <2>4 DEF Terminate
    <3>2. \A c \in Cells : status'[c] = status[c]
      BY <1>3, <2>2, <2>4
    <3>3. \A i \in 2..Len(runQueue) : status'[runQueue[i]] = "queued"
                                      /\ outcome'[runQueue[i]] = "none"
      BY <1>2, <2>1, <3>2
    <3>4. CellsInOrder' /\ ChainedOnce'
      BY <3>1, <3>2, <3>3, ChainStays
    <3> QED BY <1>1, <3>1, <3>4 DEF TypeOK
  <2> QED BY <2>3, <2>4
<1>8. TypeOK'
  BY <1>1, <1>2, <1>4, <1>5, <1>7 DEF TypeOK, Phases
<1> QED BY <1>6, <1>7, <1>8 DEF SessionInv

\* Steps of a relay change nothing else.
LEMMA RelayStep ==
  ASSUME SessionInv, NEW c \in Cells,
         ExecuteRelay(c) \/ FinishRelay(c) \/ HostCall(c) \/ RelaySettles(c)
  PROVE  SessionInv'
<1>1. /\ relay' \in [Cells -> Relays]
      /\ UNCHANGED <<phase, status, runQueue, pendingCalls, requests, replies, busy,
                     activeRunCell, outcome>>
  BY DEF SessionInv, TypeOK, ExecuteRelay, FinishRelay, HostCall, RelaySettles, Relays,
         pageVars, workerVars
<1> QED BY <1>1
        DEF SessionInv, TypeOK, RequestsAccounted, PendingExact, ReplyTruth, NoRequestLost,
            CellsInOrder, BlamesRunningCell, TakenWasPosted, QueueIsNew, WorkIsTaken,
            ChainedOnce

-----------------------------------------------------------------------------
(* The worker.                                                             *)

\* The worker takes the next request from its queue.
LEMMA TakeStep ==
  ASSUME SessionInv, Take
  PROVE  SessionInv'
<1> USE NamesDiffer DEF pageVars
<1> DEFINE r == Head(requests)
<1>1. /\ TypeOK /\ RequestsAccounted /\ BlamesRunningCell /\ CellsInOrder
      /\ TakenWasPosted /\ QueueIsNew /\ WorkIsTaken /\ ChainedOnce
  BY DEF SessionInv
<1>2. /\ busy = None /\ requests # <<>> /\ requests' = Tail(requests) /\ busy' = r
      /\ activeRunCell' = IF r \in Cells THEN r ELSE None
      /\ outcome' = IF r = Stop THEN outcome ELSE [outcome EXCEPT ![r] = "running"]
      /\ UNCHANGED <<phase, status, runQueue, pendingCalls, replies, relay>>
  BY DEF Take
<1>3. /\ requests' \in Seq(Requests \cup {Stop}) /\ r = requests[1]
      /\ r \in Requests \cup {Stop} /\ 1 \in 1..Len(requests)
      /\ \A i \in 1..Len(requests') : i + 1 \in 2..Len(requests) /\ requests'[i] = requests[i + 1]
      /\ \A i \in 2..Len(requests) : i - 1 \in 1..Len(requests') /\ requests'[i - 1] = requests[i]
      /\ Len(requests) \in Nat \ {0}
  BY <1>1, <1>2, TakeFromQueue DEF TypeOK
<1> HIDE DEF r
<1>4. \A i \in 1..Len(requests') : /\ i + 1 \in 1..Len(requests) /\ i + 1 # 1
                                   /\ requests'[i] = requests[i + 1]
  BY <1>3
<1>5. r \in Requests => status[r] = "posted" /\ outcome[r] = "none"
  BY <1>1, <1>3 DEF QueueIsNew
<1>6. \A i \in 1..Len(requests') : requests'[i] = r => r = Stop
  BY <1>1, <1>3, <1>4 DEF QueueIsNew
<1>7. /\ outcome' \in [Requests -> Outcomes]
      /\ \A q \in Requests : outcome'[q] = IF q = r THEN "running" ELSE outcome[q]
  BY <1>1, <1>2, <1>3 DEF TypeOK, Outcomes
<1>8. TypeOK'
  BY <1>1, <1>2, <1>3, <1>7 DEF TypeOK
<1>9. RequestsAccounted'
  <2>1. PendingExact'
    BY <1>1, <1>2 DEF RequestsAccounted, PendingExact
  <2>2. ReplyTruth'
    <3>1. \A i \in 1..Len(replies) : replies[i].id \in Requests \cup {Stop}
      BY <1>1, RepliesName
    <3> QED BY <1>1, <1>2, <1>5, <1>7, <3>1 DEF RequestsAccounted, ReplyTruth
  <2>3. NoRequestLost'
    <3>1. ASSUME NEW q \in Requests, status[q] = "posted"
          PROVE  \/ \E i \in 1..Len(requests') : requests'[i] = q
                 \/ busy' = q /\ outcome'[q] = "running"
                 \/ \E i \in 1..Len(replies) : replies[i].id = q
      <4>1. CASE q = r
        BY <1>2, <1>7, <4>1
      <4>2. CASE \E i \in 1..Len(requests) : requests[i] = q /\ q # r
        <5>1. PICK i \in 1..Len(requests) : requests[i] = q /\ i # 1
          BY <1>3, <4>2
        <5>2. i \in 2..Len(requests)
          BY <1>3, <5>1
        <5> QED BY <1>3, <5>1, <5>2
      <4>3. busy # q
        BY <1>2
      <4> QED BY <1>1, <3>1, <4>1, <4>2, <4>3 DEF RequestsAccounted, NoRequestLost
    <3> QED BY <1>2, <3>1 DEF NoRequestLost
  <2> QED BY <2>1, <2>2, <2>3 DEF RequestsAccounted
<1>10. CellsInOrder' /\ ChainedOnce'
  <2>1. \A i \in 2..Len(runQueue) : i \in 1..Len(runQueue)
    BY <1>1, LenProperties DEF TypeOK
  <2>2. \A i \in 2..Len(runQueue) : runQueue[i] \in Requests
    BY <1>1, <2>1, ElementOfSeq DEF TypeOK
  <2>3. \A i \in 2..Len(runQueue) : status'[runQueue[i]] = "queued"
                                    /\ outcome'[runQueue[i]] = "none"
    BY <1>1, <1>2, <1>5, <1>7, <2>2 DEF CellsInOrder
  <2> QED BY <1>2, <2>3, ChainStays
<1>11. BlamesRunningCell'
  BY <1>2, <1>7 DEF BlamesRunningCell
<1>12. TakenWasPosted'
  BY <1>1, <1>2, <1>5, <1>7 DEF TakenWasPosted
<1>13. QueueIsNew'
  <2>1. \A i \in 1..Len(requests') : requests'[i] # Stop => requests'[i] \in Requests \ {r}
    BY <1>3, <1>6, ElementOfSeq
  <2>2. \A i \in 1..Len(requests') : requests'[i] # Stop =>
          status'[requests'[i]] = "posted" /\ outcome'[requests'[i]] = "none"
    BY <1>1, <1>2, <1>4, <1>7, <2>1 DEF QueueIsNew
  <2>3. ASSUME NEW i \in 1..Len(requests'), NEW j \in 1..Len(requests'),
               requests'[i] = requests'[j], requests'[i] # Stop
        PROVE  i = j
    <3>1. i + 1 = j + 1
      BY <1>1, <1>4, <2>3 DEF QueueIsNew
    <3> QED BY <3>1
  <2> QED BY <2>2, <2>3 DEF QueueIsNew
<1>14. WorkIsTaken'
  <2>1. \A i \in 1..Len(replies) : replies[i].id \in Requests \cup {Stop}
    BY <1>1, RepliesName
  <2> QED BY <1>1, <1>2, <1>3, <1>7, <2>1 DEF WorkIsTaken
<1> QED BY <1>8, <1>9, <1>10, <1>11, <1>12, <1>13, <1>14 DEF SessionInv

\* A reply of the worker keeps the invariant if it tells the truth about the job
\* the worker was busy with.
LEMMA ReplyKeeps ==
  ASSUME SessionInv, NEW r \in Requests \cup {Stop}, NEW ok \in BOOLEAN,
         r = busy, Reply(r, ok), busy' \in {busy, None},
         activeRunCell' = None, outcome' \in [Requests -> Outcomes],
         r \in Requests => outcome'[r] # "none" /\ (ok => outcome'[r] = "ok"),
         \A q \in Requests : q # r \/ outcome[q] = "ok" => outcome'[q] = outcome[q],
         busy' \in Requests => outcome'[busy'] \in {"running", "trapped"},
         UNCHANGED <<phase, status, runQueue, pendingCalls, requests, relay>>
  PROVE  SessionInv'
<1> USE NamesDiffer
<1>1. /\ TypeOK /\ RequestsAccounted /\ BlamesRunningCell /\ CellsInOrder
      /\ TakenWasPosted /\ QueueIsNew /\ WorkIsTaken /\ ChainedOnce
  BY DEF SessionInv
<1> DEFINE m == [id |-> r, ok |-> ok]
           M == [id : Requests \cup {Stop}, ok : BOOLEAN]
<1>2. /\ replies' \in Seq(M)
      /\ \A i \in 1..Len(replies) : i \in 1..Len(replies') /\ replies'[i] = replies[i]
      /\ \A i \in 1..Len(replies') : \/ i \in 1..Len(replies) /\ replies'[i] = replies[i]
                                     \/ replies'[i] = m
      /\ \E i \in 1..Len(replies') : replies'[i] = m
  <2>1. replies \in Seq(M) /\ m \in M /\ replies' = Append(replies, m)
    BY <1>1 DEF TypeOK, Reply
  <2> HIDE DEF m, M
  <2> QED BY <2>1, AppendToQueue
<1>3. \A i \in 1..Len(replies) : replies[i].id \in Requests \cup {Stop}
  BY <1>1, RepliesName
<1>4. r \in Requests => outcome[r] # "none"
  BY <1>1 DEF WorkIsTaken
<1>5. TypeOK'
  BY <1>1, <1>2 DEF TypeOK
<1>6. PendingExact'
  BY <1>1 DEF RequestsAccounted, PendingExact
<1>7. ReplyTruth'
  <2>1. ASSUME NEW i \in 1..Len(replies'), replies'[i].ok, replies'[i].id # Stop
        PROVE  outcome'[replies'[i].id] = "ok"
    <3>1. CASE i \in 1..Len(replies) /\ replies'[i] = replies[i]
      <4>1. outcome[replies[i].id] = "ok" /\ replies[i].id \in Requests
        BY <1>1, <1>3, <2>1, <3>1 DEF RequestsAccounted, ReplyTruth
      <4> QED BY <3>1, <4>1
    <3>2. CASE replies'[i] = m
      BY <2>1, <3>2
    <3> QED BY <1>2, <3>1, <3>2
  <2>2. \A q \in Requests : status'[q] = "ok" => outcome'[q] = "ok"
    BY <1>1 DEF RequestsAccounted, ReplyTruth
  <2> QED BY <2>1, <2>2 DEF ReplyTruth
<1>8. NoRequestLost'
  <2>1. ASSUME NEW q \in Requests, status[q] = "posted"
        PROVE  \/ \E i \in 1..Len(requests) : requests[i] = q
               \/ \E i \in 1..Len(replies') : replies'[i].id = q
               \/ busy = q /\ outcome[q] = "running" /\ q # r
    <3>1. CASE q = r
      BY <1>2, <3>1
    <3>2. CASE \E i \in 1..Len(replies) : replies[i].id = q
      BY <1>2, <3>2
    <3> QED BY <1>1, <2>1, <3>1, <3>2 DEF RequestsAccounted, NoRequestLost
  <2> QED BY <2>1 DEF NoRequestLost
<1>9. CellsInOrder' /\ ChainedOnce'
  <2>1. \A i \in 2..Len(runQueue) : i \in 1..Len(runQueue)
    BY <1>1, LenProperties DEF TypeOK
  <2>2. \A i \in 2..Len(runQueue) : runQueue[i] \in Requests
    BY <1>1, <2>1, ElementOfSeq DEF TypeOK
  <2>3. \A i \in 2..Len(runQueue) : status'[runQueue[i]] = "queued"
                                    /\ outcome'[runQueue[i]] = "none"
    BY <1>1, <1>4, <2>2 DEF CellsInOrder
  <2> QED BY <2>3, ChainStays
<1>10. TakenWasPosted'
  BY <1>1, <1>4 DEF TakenWasPosted
<1>11. QueueIsNew'
  <2>1. \A i \in 1..Len(requests) : requests[i] # Stop => requests[i] \in Requests
    BY <1>1, ElementOfSeq DEF TypeOK
  <2> QED BY <1>1, <1>4, <2>1 DEF QueueIsNew
<1>12. WorkIsTaken'
  <2>1. ASSUME NEW i \in 1..Len(replies'), replies'[i].id # Stop
        PROVE  outcome'[replies'[i].id] # "none"
    <3>1. CASE i \in 1..Len(replies) /\ replies'[i] = replies[i]
      <4>1. outcome[replies[i].id] # "none" /\ replies[i].id \in Requests
        BY <1>1, <1>3, <2>1, <3>1 DEF WorkIsTaken
      <4> QED BY <3>1, <4>1
    <3>2. CASE replies'[i] = m
      BY <2>1, <3>2
    <3> QED BY <1>2, <3>1, <3>2
  <2> QED BY <2>1 DEF WorkIsTaken
<1>13. BlamesRunningCell'
  BY DEF BlamesRunningCell
<1> QED BY <1>5, <1>6, <1>7, <1>8, <1>9, <1>10, <1>11, <1>12, <1>13
        DEF SessionInv, RequestsAccounted

\* A job of the worker ends.
LEMMA FinishJobStep ==
  ASSUME SessionInv, NEW r \in Requests \cup {Stop}, NEW ok \in BOOLEAN, FinishJob(r, ok)
  PROVE  SessionInv'
<1> USE NamesDiffer DEF pageVars
<1>1. TypeOK /\ BlamesRunningCell
  BY DEF SessionInv
<1>2. /\ busy = r /\ busy' = None /\ Reply(r, ok)
      /\ IF r = Stop
         THEN ok /\ UNCHANGED outcome
         ELSE /\ outcome[r] = "running"
              /\ outcome' = [outcome EXCEPT ![r] = IF ok THEN "ok" ELSE "error"]
      /\ UNCHANGED <<phase, status, runQueue, pendingCalls, requests, relay>>
  BY DEF FinishJob
<1>3. activeRunCell' = None
  BY <1>1, <1>2 DEF FinishJob, BlamesRunningCell, TypeOK
<1>4. /\ outcome' \in [Requests -> Outcomes]
      /\ r \in Requests => outcome'[r] = IF ok THEN "ok" ELSE "error"
      /\ \A q \in Requests : q # r \/ outcome[q] = "ok" => outcome'[q] = outcome[q]
  BY <1>1, <1>2 DEF TypeOK, Outcomes
<1> QED BY <1>2, <1>3, <1>4, ReplyKeeps

\* The error listeners blame the active cell.
LEMMA UncaughtErrorStep ==
  ASSUME SessionInv, NEW trap \in BOOLEAN, UncaughtError(trap)
  PROVE  SessionInv'
<1> USE NamesDiffer DEF pageVars
<1> DEFINE r == activeRunCell
<1>1. TypeOK /\ BlamesRunningCell
  BY DEF SessionInv
<1>2. /\ r # None /\ Reply(r, FALSE) /\ activeRunCell' = None
      /\ outcome' = IF trap THEN [outcome EXCEPT ![r] = "trapped"] ELSE outcome
      /\ UNCHANGED <<phase, status, runQueue, pendingCalls, requests, relay, busy>>
  BY DEF UncaughtError
<1>3. r \in Requests /\ r = busy /\ outcome[r] = "running"
  BY <1>1, <1>2 DEF BlamesRunningCell, TypeOK
<1> HIDE DEF r
<1>4. /\ outcome' \in [Requests -> Outcomes]
      /\ outcome'[r] \in {"running", "trapped"}
      /\ \A q \in Requests : q # r \/ outcome[q] = "ok" => outcome'[q] = outcome[q]
  BY <1>1, <1>2, <1>3 DEF TypeOK, Outcomes
<1> QED BY <1>2, <1>3, <1>4, ReplyKeeps

-----------------------------------------------------------------------------
(* The invariants.                                                         *)

\* Every step of the page and of the worker keeps the invariant.
LEMMA SessionInvStep == SessionInv /\ [Next]_vars => SessionInv'
<1> SUFFICES ASSUME SessionInv, [Next]_vars PROVE SessionInv'
  OBVIOUS
<1>1. CASE PageStep
  BY <1>1, StartCellStep, ReceiveReplyStep, StopWithStep, TerminateStep, RunCellStep,
     RelayStep, RequestStep, PostThrowsStep DEF PageStep
<1>2. CASE WorkerStep
  BY <1>2, TakeStep, RelayStep, FinishJobStep, UncaughtErrorStep DEF WorkerStep
<1>3. CASE UNCHANGED vars
  BY SMTT(20), <1>3 DEF vars, SessionInv, TypeOK, RequestsAccounted, PendingExact, ReplyTruth,
              NoRequestLost, CellsInOrder, BlamesRunningCell, TakenWasPosted,
              QueueIsNew, WorkIsTaken, ChainedOnce
<1> QED BY <1>1, <1>2, <1>3 DEF Next

\* The inductive invariant: the page, the two channels and the worker agree on where
\* each request is.
THEOREM SessionInvariant == SafeSpec => []SessionInv
BY SessionInvInit, SessionInvStep, PTL DEF SafeSpec

\* The variables keep their types (TypeOK).
THEOREM SessionTypes == SafeSpec => []TypeOK
<1>1. SessionInv => TypeOK
  BY DEF SessionInv
<1> QED BY <1>1, SessionInvariant, PTL

\* A request that is waited for can be settled and is on its way, and one that is
\* reported as done was done (postAndWait, handleWorkerMessage, stopWith).
THEOREM SessionAccountsForRequests == SafeSpec => []RequestsAccounted
<1>1. SessionInv => RequestsAccounted
  BY DEF SessionInv
<1> QED BY <1>1, SessionInvariant, PTL

\* Cells run one at a time in the order of runCellAsync.
THEOREM SessionKeepsCellsInOrder == SafeSpec => []CellsInOrder
<1>1. SessionInv => CellsInOrder
  BY DEF SessionInv
<1> QED BY <1>1, SessionInvariant, PTL

\* reportActiveRunFailure blames the cell that is running.
THEOREM SessionBlamesRunningCell == SafeSpec => []BlamesRunningCell
<1>1. SessionInv => BlamesRunningCell
  BY DEF SessionInv
<1> QED BY <1>1, SessionInvariant, PTL

-----------------------------------------------------------------------------
(* The refinement.                                                         *)

\* The abstract promise of one request that changes its status.
LEMMA OnePromise ==
  ASSUME TypeOK, NEW r \in Requests, NEW s \in Statuses,
         status' = [status EXCEPT ![r] = s], NEW p, p = PromiseOf(s)
  PROVE  promise' = [promise EXCEPT ![r] = p]
<1>1. \A q \in Requests : status'[q] = IF q = r THEN s ELSE status[q]
  BY DEF TypeOK
<1>2. promise' = [q \in Requests |-> IF q = r THEN p ELSE PromiseOf(status[q])]
  BY <1>1 DEF promise
<1> QED BY <1>2 DEF promise

\* The abstract promise behind each status.
LEMMA Promises ==
  /\ PromiseOf("queued") = "pending" /\ PromiseOf("posted") = "pending"
  /\ PromiseOf("refused") = "rejected" /\ PromiseOf("ok") = "ok"
  /\ PromiseOf("error") = "failed" /\ PromiseOf("stopped") = "failed"
  /\ PromiseOf("idle") = "idle"
BY DEF PromiseOf

\* The abstract effect of one request whose execution gets on.
LEMMA OneEffect ==
  ASSUME TypeOK, NEW r \in Requests, NEW o \in Outcomes,
         outcome' = [outcome EXCEPT ![r] = o],
         NEW e, e = IF o = "trapped" THEN "error" ELSE o
  PROVE  effect' = [effect EXCEPT ![r] = e]
<1>1. \A q \in Requests : outcome'[q] = IF q = r THEN o ELSE outcome[q]
  BY DEF TypeOK
<1> QED BY <1>1 DEF effect

\* The state the abstract call is in, in terms of the session.
LEMMA AbstractState ==
  ASSUME TypeOK, NEW r \in Requests
  PROVE  /\ promise[r] = "idle" <=> status[r] = "idle"
         /\ promise[r] = "pending" <=> status[r] \in {"queued", "posted"}
         /\ effect[r] = "ok" <=> outcome[r] = "ok"
         /\ effect[r] = "none" <=> outcome[r] = "none"
         /\ effect[r] = "running" <=> outcome[r] = "running"
BY DEF TypeOK, promise, effect, PromiseOf, Statuses, Outcomes

\* A step that leaves status and outcome alone is not seen.
LEMMA Unseen ==
  ASSUME UNCHANGED <<status, outcome>>
  PROVE  UNCHANGED Abstract!vars
BY DEF Abstract!vars, promise, effect

\* Every step of the session is a step of AsyncCall, or none.
LEMMA SessionSimulates == SessionInv /\ [Next]_vars => [Abstract!Next]_(Abstract!vars)
<1> SUFFICES ASSUME SessionInv, [Next]_vars PROVE [Abstract!Next]_(Abstract!vars)
  OBVIOUS
<1> USE NamesDiffer DEF pageVars, workerVars
<1>1. /\ TypeOK /\ RequestsAccounted /\ BlamesRunningCell /\ CellsInOrder
      /\ TakenWasPosted /\ QueueIsNew /\ WorkIsTaken
  BY DEF SessionInv
<1>2. UNCHANGED outcome => UNCHANGED effect
  BY DEF effect
<1>3. UNCHANGED status => UNCHANGED promise
  BY DEF promise
<1>4. ASSUME NEW r \in Requests, status[r] = "idle", UNCHANGED outcome,
             NEW s \in {"queued", "posted", "refused"}, status' = [status EXCEPT ![r] = s]
      PROVE  Abstract!Issue(r)
  <2>1. promise[r] = "idle" /\ UNCHANGED effect
    BY <1>1, <1>2, <1>4, AbstractState
  <2>2. CASE s \in {"queued", "posted"}
    <3>1. promise' = [promise EXCEPT ![r] = "pending"]
      BY <1>1, <1>4, <2>2, OnePromise, Promises DEF Statuses
    <3> QED BY <2>1, <3>1 DEF Abstract!Issue
  <2>3. CASE s = "refused"
    <3>1. promise' = [promise EXCEPT ![r] = "rejected"]
      BY <1>1, <1>4, <2>3, OnePromise, Promises DEF Statuses
    <3> QED BY <2>1, <3>1 DEF Abstract!Issue
  <2> QED BY <2>2, <2>3
<1>5. CASE PageStep
  <2>1. ASSUME NEW c \in Cells, RunCell(c) PROVE Abstract!Issue(c)
    BY <1>4, <2>1 DEF RunCell
  <2>2. ASSUME NEW r \in Controls, Request(r) PROVE Abstract!Issue(r)
    BY <1>4, <2>2 DEF Request, PostAndWait
  <2>3. ASSUME NEW r \in Controls, PostThrows(r) PROVE Abstract!Issue(r)
    BY <1>4, <2>3 DEF PostThrows
  <2>4. CASE StartCell
    <3> DEFINE c == Head(runQueue)
    <3>1. c \in Requests /\ status[c] = "queued" /\ UNCHANGED outcome /\ PostAndWait(c)
      BY <1>1, <2>4, TakeFromQueue DEF StartCell, TypeOK
    <3> HIDE DEF c
    <3>2. promise[c] = "pending" /\ UNCHANGED effect
      BY <1>1, <1>2, <3>1, AbstractState
    <3>3. CASE phase = "live"
      <4>1. status' = [status EXCEPT ![c] = "posted"]
        BY <3>1, <3>3 DEF PostAndWait
      <4>2. promise' = [promise EXCEPT ![c] = "pending"]
        BY <1>1, <3>1, <4>1, OnePromise, Promises DEF Statuses
      <4>3. UNCHANGED promise
        BY <3>2, <4>2 DEF promise
      <4> QED BY <3>2, <4>3 DEF Abstract!vars
    <3>4. CASE phase # "live"
      <4>1. status' = [status EXCEPT ![c] = "refused"]
        BY <3>1, <3>4 DEF PostAndWait
      <4>2. promise' = [promise EXCEPT ![c] = "rejected"]
        BY <1>1, <3>1, <4>1, OnePromise, Promises DEF Statuses
      <4>3. Abstract!Settle(c)
        BY <3>2, <4>2 DEF Abstract!Settle, Abstract!Settled
      <4> QED BY <3>1, <4>3 DEF Abstract!Next
    <3> QED BY <3>3, <3>4
  <2>5. CASE ReceiveReply
    <3> DEFINE r == Head(replies).id  ok == Head(replies).ok
               s == IF ok THEN "ok" ELSE "error"
    <3>1. UNCHANGED outcome
      BY <2>5 DEF ReceiveReply
    <3>2. CASE r \notin pendingCalls
      <4>1. UNCHANGED status
        BY <2>5, <3>2 DEF ReceiveReply
      <4> QED BY <3>1, <4>1, Unseen
    <3>3. CASE r \in pendingCalls
      <4>1. /\ 1 \in 1..Len(replies) /\ Head(replies) = replies[1] /\ r \in Requests
        <5>1. replies # <<>> /\ r \in Requests
          BY <1>1, <2>5, <3>3 DEF ReceiveReply, TypeOK
        <5> DEFINE M == [id : Requests \cup {Stop}, ok : BOOLEAN]
        <5> HIDE DEF M
        <5>2. replies \in Seq(M)
          BY <1>1 DEF TypeOK, M
        <5> QED BY <5>1, <5>2, TakeFromQueue
      <4>2. status[r] = "posted" /\ (ok => outcome[r] = "ok")
        BY <1>1, <3>3, <4>1
           DEF WorkIsTaken, TakenWasPosted, RequestsAccounted, PendingExact, ReplyTruth
      <4>3. status' = [status EXCEPT ![r] = s]
        BY <2>5, <3>3 DEF ReceiveReply
      <4> HIDE DEF r, ok
      <4>4. promise[r] = "pending" /\ UNCHANGED effect /\ (ok => effect[r] = "ok")
        BY <1>1, <1>2, <3>1, <4>1, <4>2, AbstractState
      <4>5. CASE ok
        <5>1. promise' = [promise EXCEPT ![r] = "ok"]
          BY <1>1, <4>1, <4>3, <4>5, OnePromise, Promises DEF Statuses
        <5> QED BY <4>1, <4>4, <4>5, <5>1 DEF Abstract!Next, Abstract!Settle, Abstract!Settled
      <4>6. CASE ~ ok
        <5>1. promise' = [promise EXCEPT ![r] = "failed"]
          BY <1>1, <4>1, <4>3, <4>6, OnePromise, Promises DEF Statuses
        <5> QED BY <4>1, <4>4, <5>1 DEF Abstract!Next, Abstract!Settle, Abstract!Settled
      <4> QED BY <4>5, <4>6
    <3> QED BY <3>2, <3>3
  <2>6. CASE Terminate
    <3> DEFINE lost == {r \in Requests : status[r] = "posted" /\ r \in pendingCalls}
    <3>1. status' = [r \in Requests |-> IF r \in lost THEN "stopped" ELSE status[r]]
          /\ UNCHANGED outcome
      BY <2>6 DEF Terminate
    <3>2. lost \in SUBSET {r \in Requests : promise[r] = "pending"}
      BY <1>1, AbstractState
    <3>3. promise' = [r \in Requests |-> IF r \in lost THEN "failed" ELSE promise[r]]
      BY <3>1, Promises DEF promise
    <3> QED BY <1>2, <3>1, <3>2, <3>3 DEF Abstract!Next, Abstract!FailSome
  <2>7. ASSUME StopWith \/ \E c \in Cells : ExecuteRelay(c) \/ FinishRelay(c)
        PROVE  UNCHANGED <<status, outcome>>
    BY <2>7 DEF StopWith, ExecuteRelay, FinishRelay
  <2>8. ASSUME NEW r \in Requests, Abstract!Issue(r) PROVE Abstract!Next
    BY <2>8 DEF Abstract!Next
  <2> QED BY <1>5, <2>1, <2>2, <2>3, <2>4, <2>5, <2>6, <2>7, <2>8, Unseen DEF PageStep
<1>6. CASE WorkerStep
  <2>1. CASE Take
    <3> DEFINE r == Head(requests)
    <3>1. /\ 1 \in 1..Len(requests) /\ r = requests[1] /\ r \in Requests \cup {Stop}
          /\ UNCHANGED status
          /\ outcome' = IF r = Stop THEN outcome ELSE [outcome EXCEPT ![r] = "running"]
      BY <1>1, <2>1, TakeFromQueue DEF Take, TypeOK
    <3>2. r # Stop => status[r] = "posted" /\ outcome[r] = "none"
      BY <1>1, <3>1 DEF QueueIsNew
    <3> HIDE DEF r
    <3>3. CASE r = Stop
      BY <3>1, <3>3, Unseen
    <3>4. CASE r # Stop
      <4>1. effect' = [effect EXCEPT ![r] = "running"]
        BY <1>1, <3>1, <3>4, OneEffect DEF Outcomes
      <4>2. promise[r] # "idle" /\ effect[r] = "none" /\ r \in Requests
        BY <1>1, <3>1, <3>2, <3>4, AbstractState
      <4> QED BY <1>3, <3>1, <4>1, <4>2 DEF Abstract!Next, Abstract!Begin
    <3> QED BY <3>3, <3>4
  <2>2. ASSUME NEW r \in Requests, outcome[r] = "running",
               NEW o \in {"ok", "error", "trapped"}, outcome' = [outcome EXCEPT ![r] = o],
               UNCHANGED status
        PROVE  Abstract!Next
    <3>1. promise[r] # "idle" /\ effect[r] = "running"
      BY <1>1, <2>2, AbstractState DEF TakenWasPosted
    <3>2. \E e \in {"ok", "error"} : effect' = [effect EXCEPT ![r] = e]
      <4>1. CASE o = "trapped"
        <5>1. effect' = [effect EXCEPT ![r] = "error"]
          BY <1>1, <2>2, <4>1, OneEffect DEF Outcomes
        <5> QED BY <5>1
      <4>2. CASE o # "trapped"
        <5>1. effect' = [effect EXCEPT ![r] = o]
          BY <1>1, <2>2, <4>2, OneEffect DEF Outcomes
        <5> QED BY <2>2, <4>2, <5>1
      <4> QED BY <4>1, <4>2
    <3> QED BY <1>3, <2>2, <3>1, <3>2 DEF Abstract!Next, Abstract!End
  <2>3. ASSUME NEW r \in Requests \cup {Stop}, NEW ok \in BOOLEAN, FinishJob(r, ok)
        PROVE  [Abstract!Next]_(Abstract!vars)
    <3>1. UNCHANGED status
      BY <2>3 DEF FinishJob
    <3>2. CASE r = Stop
      BY <2>3, <3>1, <3>2, Unseen DEF FinishJob
    <3>3. CASE r # Stop
      BY <2>2, <2>3, <3>1, <3>3 DEF FinishJob
    <3> QED BY <3>2, <3>3
  <2>4. ASSUME NEW trap \in BOOLEAN, UncaughtError(trap)
        PROVE  [Abstract!Next]_(Abstract!vars)
    <3>1. /\ UNCHANGED status /\ activeRunCell \in Requests
          /\ outcome[activeRunCell] = "running"
      BY <1>1, <2>4 DEF UncaughtError, BlamesRunningCell, TypeOK
    <3>2. CASE trap
      BY <2>2, <2>4, <3>1, <3>2 DEF UncaughtError
    <3>3. CASE ~ trap
      BY <2>4, <3>1, <3>3, Unseen DEF UncaughtError
    <3> QED BY <3>2, <3>3
  <2>5. ASSUME NEW c \in Cells, HostCall(c) \/ RelaySettles(c)
        PROVE  UNCHANGED <<status, outcome>>
    BY <2>5 DEF HostCall, RelaySettles
  <2> QED BY <1>6, <2>1, <2>3, <2>4, <2>5, Unseen DEF WorkerStep
<1>7. CASE UNCHANGED vars
  BY <1>7, Unseen DEF vars
<1> QED BY <1>5, <1>6, <1>7 DEF Next

\* The session implements AsyncCall (RefinesAsyncCall): each request settles at most
\* once, is executed at most once, and is never reported as done before it is.
THEOREM SessionImplementsAsyncCall == SafeSpec => RefinesAsyncCall
<1>1. Init => Abstract!Init
  BY Promises DEF Init, Abstract!Init, promise, effect
<1> QED BY <1>1, SessionSimulates, SessionInvariant, PTL
        DEF SafeSpec, RefinesAsyncCall, Abstract!Spec

(***************************************************************************)
(* Registries.                                                             *)
(***************************************************************************)

\* A registry: entries under their actions, and no name belongs to two of them.
Sound(reg) ==
  /\ reg \in [DOMAIN reg -> Entries]
  /\ \A a \in DOMAIN reg : reg[a].action = a
  /\ \A a, b \in DOMAIN reg :
       Range(NamesOf(reg[a])) \cap Range(NamesOf(reg[b])) # {} => a = b

\* The entries of a sequence fit each other and those of a registry.
Apart(reg, entries) ==
  /\ \A i, j \in DOMAIN entries : i # j =>
       /\ entries[i].action # entries[j].action
       /\ Range(NamesOf(entries[i])) \cap Range(NamesOf(entries[j])) = {}
  /\ \A i \in DOMAIN entries :
       /\ entries[i].action \notin DOMAIN reg
       /\ \A a \in DOMAIN reg : Range(NamesOf(entries[i])) \cap Range(NamesOf(reg[a])) = {}

\* What a registry holds of another one.
Holds(reg, part) == \A a \in DOMAIN part : a \in DOMAIN reg /\ reg[a] = part[a]

\* A key that is inserted has its new value, and the others keep theirs.
LEMMA InsertedHolds ==
  ASSUME NEW new, NEW map
  PROVE  /\ DOMAIN Inserted(new, map) = DOMAIN new \cup DOMAIN map
         /\ \A k \in DOMAIN new : Inserted(new, map)[k] = new[k]
         /\ \A k \in DOMAIN map : k \notin DOMAIN new => Inserted(new, map)[k] = map[k]
BY DEF Inserted

\* To insert nothing changes nothing.
LEMMA InsertedNothing ==
  ASSUME NEW S, NEW T, NEW map \in [S -> T], NEW new, DOMAIN new = {}
  PROVE  Inserted(new, map) = map
BY DEF Inserted

\* The elements of a sequence are its range.
LEMMA ElementsOfSeq ==
  ASSUME NEW T, NEW s \in Seq(T)
  PROVE  /\ DOMAIN s = 1..Len(s) /\ Len(s) \in Nat /\ Range(s) = {s[i] : i \in 1..Len(s)}
         /\ \A i \in 1..Len(s) : s[i] \in T
         /\ \A i \in 1..Len(s) : s[i] \in Range(s)
<1>1. DOMAIN s = 1..Len(s) /\ Len(s) \in Nat /\ \A i \in 1..Len(s) : s[i] \in T
  BY LenProperties, ElementOfSeq
<1>2. Range(s) = {s[i] : i \in 1..Len(s)}
  BY <1>1 DEF Range
<1>3. \A i \in 1..Len(s) : s[i] \in Range(s)
  BY <1>2
<1> QED BY <1>1, <1>2, <1>3

\* Entries with different actions are all found under their actions.
LEMMA KeyedHolds ==
  ASSUME NEW T, NEW s \in Seq(T),
         \A i, j \in DOMAIN s : i # j => s[i].action # s[j].action
  PROVE  /\ DOMAIN Keyed(s) = {s[i].action : i \in DOMAIN s}
         /\ \A i \in DOMAIN s : Keyed(s)[s[i].action] = s[i]
<1> DEFINE I(a) == {j \in 1..Len(s) : s[j].action = a}
<1>1. Keyed(s) = [a \in {s[i].action : i \in DOMAIN s} |-> s[IF I(a) # {} THEN Max(I(a)) ELSE 0]]
  BY DEF Keyed, SelectLastInSeq
<1>2. ASSUME NEW i \in DOMAIN s PROVE Keyed(s)[s[i].action] = s[i]
  <2>1. DOMAIN s = 1..Len(s) /\ Len(s) \in Nat
    BY ElementsOfSeq
  <2>2. I(s[i].action) = {i}
    BY <2>1
  <2>3. i \in Int /\ Max({i}) = i
    BY <2>1 DEF Max
  <2> QED BY <1>1, <2>2, <2>3
<1> QED BY <1>1, <1>2

\* Of no entries nothing is inserted.
LEMMA KeyedNone == DOMAIN Keyed(<<>>) = {}
BY DEF Keyed

\* Entries that fit a registry can be registered.
LEMMA JoinIsSound ==
  ASSUME NEW reg, Sound(reg), NEW s \in Seq(Entries), Apart(reg, s)
  PROVE  /\ Sound(Inserted(Keyed(s), reg)) /\ Holds(Inserted(Keyed(s), reg), reg)
         /\ DOMAIN Inserted(Keyed(s), reg) = {s[i].action : i \in DOMAIN s} \cup DOMAIN reg
         /\ \A i \in DOMAIN s : Inserted(Keyed(s), reg)[s[i].action] = s[i]
<1> DEFINE k == Keyed(s)
           new == Inserted(k, reg)
<1>1. /\ DOMAIN k = {s[i].action : i \in DOMAIN s}
      /\ \A i \in DOMAIN s : k[s[i].action] = s[i]
  <2>1. \A i, j \in DOMAIN s : i # j => s[i].action # s[j].action
    BY DEF Apart
  <2> QED BY <2>1, KeyedHolds
<1> HIDE DEF k
<1>2. /\ DOMAIN new = DOMAIN k \cup DOMAIN reg
      /\ \A a \in DOMAIN k : new[a] = k[a]
      /\ \A a \in DOMAIN reg : a \notin DOMAIN k => new[a] = reg[a]
  BY InsertedHolds
<1>3. \A i \in DOMAIN s : s[i] \in Entries
  BY ElementsOfSeq
<1>4. /\ \A i \in DOMAIN s : new[s[i].action] = s[i]
      /\ \A a \in DOMAIN reg : a \notin DOMAIN k /\ new[a] = reg[a]
  BY <1>1, <1>2 DEF Apart
<1>5. \A a \in DOMAIN new : a \in DOMAIN reg \/ \E i \in DOMAIN s : a = s[i].action
  BY <1>1, <1>2
<1>6. \A a \in DOMAIN new : new[a] \in Entries /\ new[a].action = a
  BY <1>3, <1>4, <1>5 DEF Sound
<1>7. new \in [DOMAIN new -> Entries]
  BY <1>6 DEF Inserted
<1> HIDE DEF new
<1>8. ASSUME NEW a \in DOMAIN new, NEW b \in DOMAIN new,
             Range(NamesOf(new[a])) \cap Range(NamesOf(new[b])) # {}
      PROVE  a = b
  <2>1. CASE a \in DOMAIN reg /\ b \in DOMAIN reg
    BY <1>4, <1>8, <2>1 DEF Sound
  <2>2. ASSUME NEW i \in DOMAIN s, a = s[i].action PROVE a = b
    <3>1. new[a] = s[i]
      BY <1>4, <2>2
    <3>2. b \notin DOMAIN reg
      BY <1>4, <1>8, <3>1 DEF Apart
    <3>3. PICK j \in DOMAIN s : b = s[j].action
      BY <1>5, <3>2
    <3> QED BY <1>4, <1>8, <2>2, <3>1, <3>3 DEF Apart
  <2>3. ASSUME a \in DOMAIN reg, NEW j \in DOMAIN s, b = s[j].action PROVE FALSE
    BY <1>4, <1>8, <2>3 DEF Apart
  <2> QED BY <1>5, <2>1, <2>2, <2>3
<1>9. Sound(new)
  BY <1>6, <1>7, <1>8 DEF Sound
<1>10. Holds(new, reg)
  BY <1>2, <1>4 DEF Holds
<1> QED BY <1>1, <1>2, <1>4, <1>9, <1>10 DEF new, k

\* What register_executable_entry accepts one after the other fits.
LEMMA FitsIsApart ==
  ASSUME NEW reg, NEW s \in Seq(Entries), Fits(reg, s)
  PROVE  Apart(reg, s)
<1> DEFINE part(i) == SubSeq(s, 1, i - 1)
           before(i) == Inserted(Keyed(part(i)), reg)
<1>1. DOMAIN s = 1..Len(s) /\ Len(s) \in Nat /\ \A i \in 1..Len(s) : s[i] \in Entries
  BY ElementsOfSeq
<1>2. ASSUME NEW i \in 1..Len(s)
      PROVE  /\ part(i) \in Seq(Entries) /\ DOMAIN part(i) = 1..(i - 1)
             /\ \A j \in 1..(i - 1) : part(i)[j] = s[j] /\ j \in 1..Len(s)
  <2>1. i - 1 \in Int /\ \A j \in 1..(i - 1) : s[j] \in Entries /\ j \in 1..Len(s)
    BY <1>1
  <2>2. /\ part(i) \in Seq(Entries)
        /\ Len(part(i)) = IF 1 <= i - 1 THEN i - 1 - 1 + 1 ELSE 0
        /\ \A j \in 1..(i - 1 - 1 + 1) : part(i)[j] = s[1 + j - 1]
    BY <2>1, SubSeqProperties
  <2> HIDE DEF part
  <2>3. Len(part(i)) = i - 1 /\ \A j \in 1..(i - 1) : part(i)[j] = s[j]
    BY <1>1, <2>2
  <2>4. DOMAIN part(i) = 1..(i - 1)
    BY <2>2, <2>3, ElementsOfSeq
  <2> QED BY <2>1, <2>2, <2>3, <2>4
<1>3. ASSUME NEW i \in 1..Len(s)
      PROVE  /\ s[i].action \notin DOMAIN before(i)
             /\ Range(NamesOf(s[i])) \cap Occupied(before(i)) = {}
  BY <1>1 DEF Fits, ValidNames
<1> HIDE DEF part
<1>4. ASSUME NEW i \in 1..Len(s)
      PROVE  /\ \A j \in 1..(i - 1) : s[j].action \in DOMAIN Keyed(part(i))
             /\ DOMAIN Keyed(part(i)) \subseteq DOMAIN before(i) /\ DOMAIN reg \subseteq DOMAIN before(i)
  <2>1. DOMAIN Keyed(part(i)) = {part(i)[j].action : j \in DOMAIN part(i)}
    BY DEF Keyed
  <2>2. DOMAIN before(i) = DOMAIN Keyed(part(i)) \cup DOMAIN reg
    BY InsertedHolds
  <2>3. \A j \in 1..(i - 1) : j \in DOMAIN part(i) /\ part(i)[j] = s[j]
    BY <1>2
  <2>4. \A j \in 1..(i - 1) : s[j].action \in DOMAIN Keyed(part(i))
    BY <2>1, <2>3
  <2> QED BY <2>2, <2>4
<1>5. ASSUME NEW i \in 1..Len(s), NEW j \in 1..(i - 1) PROVE s[i].action # s[j].action
  BY <1>3, <1>4
<1>6. ASSUME NEW i \in 1..Len(s), NEW j \in 1..Len(s), i # j PROVE s[i].action # s[j].action
  <2>1. j \in 1..(i - 1) \/ i \in 1..(j - 1)
    BY <1>1, <1>6
  <2> QED BY <1>5, <2>1
<1>7. ASSUME NEW i \in 1..Len(s), NEW j \in 1..(i - 1)
      PROVE  Range(NamesOf(s[i])) \cap Range(NamesOf(s[j])) = {}
  <2>1. \A k, l \in DOMAIN part(i) : k # l => part(i)[k].action # part(i)[l].action
    BY <1>2, <1>6
  <2>2. Keyed(part(i))[s[j].action] = s[j]
    <3>1. part(i) \in Seq(Entries) /\ j \in DOMAIN part(i) /\ part(i)[j] = s[j]
      BY <1>2
    <3>2. \A k \in DOMAIN part(i) : Keyed(part(i))[part(i)[k].action] = part(i)[k]
      BY <2>1, <3>1, KeyedHolds
    <3>3. Keyed(part(i))[part(i)[j].action] = part(i)[j]
      BY <3>1, <3>2
    <3> QED BY <3>1, <3>3
  <2>3. before(i)[s[j].action] = s[j] /\ s[j].action \in DOMAIN before(i)
    <3> DEFINE a == s[j].action
               k == Keyed(part(i))
    <3>1. a \in DOMAIN k /\ k[a] = s[j] /\ before(i) = Inserted(k, reg)
      BY <1>4, <2>2
    <3> HIDE DEF a, k, before
    <3>2. Inserted(k, reg)[a] = k[a] /\ a \in DOMAIN Inserted(k, reg)
      BY <3>1 DEF Inserted
    <3> QED BY <3>1, <3>2 DEF a
  <2>4. Range(NamesOf(s[j])) \subseteq Occupied(before(i))
    <3> HIDE DEF before
    <3> QED BY <2>3 DEF Occupied
  <2> QED BY <1>3, <2>4
<1>8. ASSUME NEW i \in 1..Len(s), NEW a \in DOMAIN reg
      PROVE  Range(NamesOf(s[i])) \cap Range(NamesOf(reg[a])) = {}
  <2>1. a \notin DOMAIN Keyed(part(i)) \/ \E j \in 1..(i - 1) : a = s[j].action
    <3>1. DOMAIN Keyed(part(i)) = {part(i)[j].action : j \in DOMAIN part(i)}
      BY DEF Keyed
    <3> QED BY <1>2, <3>1
  <2>2. \A j \in 1..Len(s) : s[j].action \notin DOMAIN reg
    BY <1>3, <1>4
  <2>3. before(i)[a] = reg[a] /\ a \in DOMAIN before(i)
    <3> DEFINE k == Keyed(part(i))
    <3>1. a \notin DOMAIN k
      BY <1>2, <2>1, <2>2
    <3> HIDE DEF k
    <3>2. before(i) = Inserted(k, reg)
      BY DEF k
    <3>3. Inserted(k, reg)[a] = reg[a] /\ a \in DOMAIN Inserted(k, reg)
      BY <3>1 DEF Inserted
    <3> QED BY <3>2, <3>3
  <2>4. Range(NamesOf(reg[a])) \subseteq Occupied(before(i))
    <3> HIDE DEF before
    <3> QED BY <2>3 DEF Occupied
  <2> QED BY <1>3, <2>4
<1>9. ASSUME NEW i \in 1..Len(s), NEW j \in 1..Len(s), i # j
      PROVE  Range(NamesOf(s[i])) \cap Range(NamesOf(s[j])) = {}
  <2>1. j \in 1..(i - 1) \/ i \in 1..(j - 1)
    BY <1>1, <1>9
  <2> QED BY <1>7, <2>1
<1>10. ASSUME NEW i \in 1..Len(s) PROVE s[i].action \notin DOMAIN reg
  BY <1>3, <1>4
<1> QED BY <1>1, <1>6, <1>8, <1>9, <1>10 DEF Apart

\* A set of numbers that is not empty has a least one.
LEMMA LeastNumber ==
  ASSUME NEW S \in SUBSET Nat, S # {}
  PROVE  \E m \in S : \A i \in S : m <= i
<1> DEFINE below == {0..n : n \in S}
<1>1. below \subseteq FiniteSubsetsOf(Nat) /\ below # {}
  <2>1. \A n \in S : 0..n \in SUBSET Nat /\ IsFiniteSet(0..n)
    BY FS_Interval
  <2> QED BY <2>1 DEF FiniteSubsetsOf
<1>2. \E x \in below : \A y \in below : ~ (<<y, x>> \in StrictSubsetOrdering(Nat))
  BY <1>1, FS_StrictSubsetOrderingWellFounded, WFMin
<1>3. PICK m \in S : \A y \in below : ~ (<<y, 0..m>> \in StrictSubsetOrdering(Nat))
  BY <1>2
<1>4. ASSUME NEW n \in S, n < m PROVE FALSE
  <2>1. 0..n \in SUBSET Nat /\ 0..m \in SUBSET Nat /\ 0..n \subseteq 0..m /\ 0..n # 0..m
    <3>1. m \in 0..m /\ m \notin 0..n /\ 0..n \subseteq 0..m
      BY <1>4
    <3> QED BY <3>1
  <2> QED BY <1>3, <2>1 DEF StrictSubsetOrdering
<1> QED BY <1>4

\* What a batch that was found valid inserts before it finds a known action.
LEMMA CommittedIsApart ==
  ASSUME NEW reg, NEW batch \in Seq(Entries), ValidBatch(reg, batch)
  PROVE  /\ Committed(reg, batch) \in Seq(Entries)
         /\ Range(Committed(reg, batch)) \subseteq Range(batch)
         /\ Apart(reg, Committed(reg, batch))
<1> DEFINE known == {i \in 1..Len(batch) : batch[i].action \in DOMAIN reg}
<1>1. /\ DOMAIN batch = 1..Len(batch) /\ Len(batch) \in Nat
      /\ \A i \in 1..Len(batch) : batch[i] \in Entries
      /\ \A i \in 1..Len(batch) : batch[i] \in Range(batch)
  BY ElementsOfSeq
<1>2. Committed(reg, batch) = IF (IF known # {} THEN Min(known) ELSE 0) = 0 THEN batch
                              ELSE SubSeq(batch, 1, (IF known # {} THEN Min(known) ELSE 0) - 1)
  BY DEF Committed, SelectInSeq
<1>3. ASSUME NEW n \in 0..Len(batch), NEW s \in Seq(Entries), Len(s) = n,
             \A i \in 1..n : s[i] = batch[i] /\ batch[i].action \notin DOMAIN reg
      PROVE  Range(s) \subseteq Range(batch) /\ Apart(reg, s)
  <2>1. DOMAIN s = 1..n /\ Range(s) = {s[i] : i \in 1..n} /\ \A i \in 1..n : i \in 1..Len(batch)
    <3>1. DOMAIN s = 1..Len(s) /\ Range(s) = {s[i] : i \in 1..Len(s)}
      BY ElementsOfSeq
    <3>2. \A i \in 1..n : i \in 1..Len(batch)
      BY <1>1
    <3> QED BY <1>3, <3>1, <3>2
  <2>2. Range(s) \subseteq Range(batch)
    BY <1>1, <1>3, <2>1
  <2>3. ASSUME NEW i \in 1..n, NEW a \in DOMAIN reg
        PROVE  Range(NamesOf(s[i])) \cap Range(NamesOf(reg[a])) = {}
    <3>1. Range(NamesOf(batch[i])) \cap Occupied(reg) = {}
      BY <1>1, <2>1 DEF ValidBatch, ValidNames
    <3>2. Range(NamesOf(reg[a])) \subseteq Occupied(reg)
      BY DEF Occupied
    <3> QED BY <1>3, <3>1, <3>2
  <2>4. ASSUME NEW i \in 1..n, NEW j \in 1..n, i # j
        PROVE  /\ s[i].action # s[j].action
               /\ Range(NamesOf(s[i])) \cap Range(NamesOf(s[j])) = {}
    BY <1>1, <1>3, <2>1, <2>4 DEF ValidBatch
  <2> QED BY <1>3, <2>1, <2>2, <2>3, <2>4 DEF Apart
<1>4. CASE known = {}
  <2>1. Committed(reg, batch) = batch
    BY <1>2, <1>4
  <2>2. Len(batch) \in 0..Len(batch) /\ \A i \in 1..Len(batch) : batch[i].action \notin DOMAIN reg
    BY <1>1, <1>4
  <2> QED BY <1>3, <2>1, <2>2
<1>5. CASE known # {}
  <2> DEFINE m == Min(known)
  <2>1. m \in known /\ \A i \in known : m <= i
    <3>1. known \in SUBSET Nat
      BY <1>1
    <3>2. \E x \in known : \A y \in known : x <= y
      <4> HIDE DEF known
      <4> QED BY <1>5, <3>1, LeastNumber
    <3> HIDE DEF known
    <3> QED BY <3>2 DEF Min
  <2>2. Committed(reg, batch) = IF m = 0 THEN batch ELSE SubSeq(batch, 1, m - 1)
    BY <1>2, <1>5
  <2> HIDE DEF m
  <2>3. m \in 1..Len(batch) /\ m - 1 \in 0..Len(batch) /\ m # 0
    BY <1>1, <2>1
  <2> DEFINE c == Committed(reg, batch)
  <2>4. c = SubSeq(batch, 1, m - 1)
    BY <2>2, <2>3
  <2>5. m - 1 \in Int /\ \A i \in 1..(m - 1) : batch[i] \in Entries
    BY <1>1, <2>3
  <2>6. /\ c \in Seq(Entries) /\ Len(c) = IF 1 <= m - 1 THEN m - 1 - 1 + 1 ELSE 0
        /\ \A i \in 1..(m - 1 - 1 + 1) : c[i] = batch[1 + i - 1]
    BY <2>4, <2>5, SubSeqProperties
  <2> HIDE DEF c
  <2>7. Len(c) = m - 1 /\ \A i \in 1..(m - 1) : c[i] = batch[i]
    BY <1>1, <2>3, <2>6
  <2>8. \A i \in 1..(m - 1) : batch[i].action \notin DOMAIN reg
    <3>1. \A i \in 1..(m - 1) : i \in 1..Len(batch) /\ ~(m <= i)
      BY <1>1, <2>3
    <3> QED BY <2>1, <3>1
  <2>9. Range(c) \subseteq Range(batch) /\ Apart(reg, c)
    BY <1>3, <2>3, <2>6, <2>7, <2>8
  <2> QED BY <2>6, <2>9 DEF c
<1> QED BY <1>4, <1>5

\* A set with 0 and with the successor of each of its numbers has them all.
LEMMA SetInduction ==
  ASSUME NEW S \in SUBSET Nat, 0 \in S, \A n \in S : n + 1 \in S
  PROVE  S = Nat
<1> SUFFICES ASSUME Nat \ S # {} PROVE FALSE
  OBVIOUS
<1>1. PICK m \in Nat \ S : \A i \in Nat \ S : m <= i
  BY LeastNumber
<1>2. m # 0 /\ m - 1 \in Nat
  OBVIOUS
<1>3. m - 1 \in S
  BY <1>1, <1>2
<1>4. (m - 1) + 1 \in S
  BY <1>3
<1>5. (m - 1) + 1 = m
  OBVIOUS
<1> QED BY <1>4, <1>5

\* FlattenSeq is what its recursive function says.
LEMMA FlattenIs ==
  ASSUME NEW s, Len(s) \in Nat \ {0}
  PROVE  \E f : /\ FlattenSeq(s) = f[Len(s)] /\ f[1] = s[1]
                /\ \A n \in 2..Len(s) : f[n] = f[n - 1] \o s[n]
<1> DEFINE Part(g, n) == IF n = 1 THEN s[n] ELSE g[n - 1] \o s[n]
           IsFlat(g, m) == g = [n \in 1..m |-> Part(g, n)]
           Good == {m \in Nat : \E g : IsFlat(g, m)}
<1>1. Good = Nat
  <2>1. 0 \in Good
    <3>1. 1..0 = {}
      OBVIOUS
    <3>2. IsFlat([n \in 1..0 |-> <<>>], 0)
      BY <3>1
    <3> QED BY <3>2
  <2>2. ASSUME NEW m \in Good PROVE m + 1 \in Good
    <3>1. PICK g : IsFlat(g, m)
      OBVIOUS
    <3> DEFINE h == [n \in 1..(m + 1) |-> Part(g, n)]
    <3>2. m \in Nat /\ \A n \in 1..m : g[n] = Part(g, n)
      <4>1. m \in Nat
        OBVIOUS
      <4>2. ASSUME NEW n \in 1..m PROVE g[n] = Part(g, n)
        BY <3>1
      <4> QED BY <4>1, <4>2
    <3>3. \A n \in 1..m : h[n] = g[n]
      BY <3>2
    <3>4. \A n \in 1..(m + 1) : n # 1 => n - 1 \in 1..m /\ h[n - 1] = g[n - 1]
      BY <3>2, <3>3
    <3>5. IsFlat(h, m + 1)
      BY <3>4
    <3>6. \E g2 : IsFlat(g2, m + 1)
      <4> HIDE DEF h, IsFlat
      <4> QED BY <3>5
    <3>7. m + 1 \in Nat
      BY <3>2
    <3> HIDE DEF IsFlat
    <3> QED BY <3>6, <3>7
  <2> HIDE DEF Good
  <2>3. Good \in SUBSET Nat
    BY DEF Good
  <2> QED BY <2>1, <2>2, <2>3, SetInduction
<1> DEFINE f == CHOOSE g : IsFlat(g, Len(s))
<1>2. IsFlat(f, Len(s))
  BY <1>1
<1>3. FlattenSeq(s) = f[Len(s)]
  BY DEF FlattenSeq
<1> HIDE DEF f
<1>4. f[1] = s[1] /\ \A n \in 2..Len(s) : f[n] = f[n - 1] \o s[n]
  <2>1. f = [n \in 1..Len(s) |-> Part(f, n)]
    BY <1>2
  <2>2. ASSUME NEW n \in 1..Len(s) PROVE f[n] = Part(f, n)
    BY <2>1
  <2>3. 1 \in 1..Len(s) /\ \A n \in 2..Len(s) : n \in 1..Len(s) /\ n # 1
    OBVIOUS
  <2> QED BY <2>2, <2>3
<1> QED BY <1>3, <1>4

\* The elements of all its sequences are those of the flattened sequence.
LEMMA FlattenHolds ==
  ASSUME NEW T, NEW s \in Seq(Seq(T))
  PROVE  /\ FlattenSeq(s) \in Seq(T)
         /\ Range(FlattenSeq(s)) = UNION {Range(s[i]) : i \in 1..Len(s)}
<1>1. Len(s) \in Nat /\ \A i \in 1..Len(s) : s[i] \in Seq(T)
  BY ElementsOfSeq
<1>2. CASE Len(s) = 0
  <2>1. s = <<>> /\ 1..Len(s) = {}
    BY <1>2, EmptySeq
  <2>2. FlattenSeq(s) = <<>> /\ <<>> \in Seq(T) /\ Range(<<>>) = {}
    BY <1>2, <2>1 DEF FlattenSeq, Range
  <2> QED BY <2>1, <2>2
<1>3. CASE Len(s) # 0
  <2>1. PICK f : /\ FlattenSeq(s) = f[Len(s)] /\ f[1] = s[1]
                 /\ \A n \in 2..Len(s) : f[n] = f[n - 1] \o s[n]
    BY <1>1, <1>3, FlattenIs
  <2> DEFINE Upto(n) == UNION {Range(s[i]) : i \in 1..n}
             Good == {n \in Nat : n + 1 <= Len(s) =>
                        f[n + 1] \in Seq(T) /\ Range(f[n + 1]) = Upto(n + 1)}
  <2>2. 0 \in Good
    <3>1. 1..(0 + 1) = {1} /\ 0 + 1 = 1 /\ 1 \in 1..Len(s)
      BY <1>1, <1>3
    <3>2. Upto(0 + 1) = Range(s[1])
      BY <3>1
    <3>3. f[0 + 1] \in Seq(T) /\ Range(f[0 + 1]) = Range(s[1])
      BY <1>1, <2>1, <3>1
    <3> HIDE DEF Upto
    <3> QED BY <3>2, <3>3
  <2>3. ASSUME NEW n \in Good PROVE n + 1 \in Good
    <3>1. SUFFICES ASSUME n + 1 + 1 <= Len(s)
                   PROVE  f[n + 1 + 1] \in Seq(T) /\ Range(f[n + 1 + 1]) = Upto(n + 1 + 1)
      OBVIOUS
    <3> DEFINE m == n + 1 + 1
    <3>2. n \in Nat /\ m \in 2..Len(s) /\ m \in 1..Len(s) /\ m - 1 = n + 1 /\ n + 1 <= Len(s)
      BY <1>1, <3>1
    <3>3. f[n + 1] \in Seq(T) /\ Range(f[n + 1]) = Upto(n + 1)
      BY <3>2
    <3>4. 1..m = (1..(n + 1)) \cup {m}
      BY <3>2
    <3>5. Upto(m) = Upto(n + 1) \cup Range(s[m])
      BY <3>4
    <3> HIDE DEF m, Upto, Good
    <3>6. f[m] = f[n + 1] \o s[m] /\ s[m] \in Seq(T)
      BY <1>1, <2>1, <3>2
    <3>7. f[m] \in Seq(T) /\ Range(f[m]) = Range(f[n + 1]) \cup Range(s[m])
      BY <3>3, <3>6, ConcatProperties, RangeConcatenation
    <3>8. f[m] \in Seq(T) /\ Range(f[m]) = Upto(m)
      BY <3>3, <3>5, <3>7
    <3> QED BY <3>8 DEF m
  <2>4. Len(s) - 1 \in Good
    <3> HIDE DEF Good
    <3>1. Good \in SUBSET Nat
      BY DEF Good
    <3>2. Good = Nat
      BY <2>2, <2>3, <3>1, SetInduction
    <3> QED BY <1>1, <1>3, <3>2
  <2>5. Len(s) - 1 + 1 = Len(s)
    BY <1>1
  <2>6. f[Len(s)] \in Seq(T) /\ Range(f[Len(s)]) = Upto(Len(s))
    BY <1>1, <2>4, <2>5
  <2> QED BY <2>1, <2>6
<1> QED BY <1>1, <1>2, <1>3

(***************************************************************************)
(* The tables of the programs.                                             *)
(***************************************************************************)

\* An API answers to its public name.
LEMMA PathIsName ==
  ASSUME NEW e, e.aliases \in Seq(Range(e.aliases))
  PROVE  e.path \in Range(NamesOf(e))
<1> DEFINE T == {e.path} \cup Range(e.aliases)
           p == <<e.path>>
<1>1. p \in Seq(T) /\ Len(p) = 1 /\ p[1] = e.path
  OBVIOUS
<1>2. e.aliases \in Seq(T)
  BY SeqMonotonic
<1> HIDE DEF p, T
<1>3. Range(p) = {p[i] : i \in 1..1}
  BY <1>1, RangeEquality
<1>4. e.path \in Range(p)
  BY <1>1, <1>3
<1>5. Range(p \o e.aliases) = Range(p) \cup Range(e.aliases)
  BY <1>1, <1>2, RangeConcatenation
<1> QED BY <1>4, <1>5 DEF NamesOf, p

\* What the programs and the page may register.
LEMMA EntriesAre ==
  /\ \A g \in Range(FirstGroups) \cup Manifests \cup {WebEntries} :
       /\ g \in Seq(Entries) /\ Range(g) \subseteq Entries
       /\ \A e \in Range(g) : ~e.sync
  /\ \A d \in SyncDocs : d \in Entries /\ d.sync
  /\ \A e \in Entries : e.path \in Range(NamesOf(e))
<1>1. ASSUME NEW g \in Range(FirstGroups) \cup Manifests \cup {WebEntries}
      PROVE  /\ g \in Seq(Entries) /\ Range(g) \subseteq Entries
             /\ \A e \in Range(g) : ~e.sync /\ e.aliases \in Seq(Range(e.aliases))
  <2>1. g \in Seq(Range(g))
        /\ \A e \in Range(g) : ~e.sync /\ e.aliases \in Seq(Range(e.aliases))
    BY RegistryAssumption DEF Executables
  <2>2. Range(g) \subseteq Entries
    BY DEF Entries
  <2> QED BY <2>1, <2>2, SeqMonotonic
<1>2. \A d \in SyncDocs : d \in Entries /\ d.sync /\ d.aliases \in Seq(Range(d.aliases))
  <2>1. \A d \in SyncDocs : d \in Entries
    BY DEF Entries
  <2> QED BY <2>1, RegistryAssumption
<1>3. ASSUME NEW e \in Entries PROVE e.path \in Range(NamesOf(e))
  <2>1. e.aliases \in Seq(Range(e.aliases))
    <3>1. CASE e \in SyncDocs
      BY <1>2, <3>1
    <3>2. ASSUME NEW g \in Range(FirstGroups) \cup Manifests \cup {WebEntries}, e \in Range(g)
          PROVE  e.aliases \in Seq(Range(e.aliases))
      BY <1>1, <3>2
    <3> QED BY <3>1, <3>2 DEF Entries
  <2> QED BY <2>1, PathIsName
<1> QED BY <1>1, <1>2, <1>3

\* The init functions register the groups of which they miss the first action,
\* and nothing if they miss none.
LEMMA MissingAre ==
  ASSUME NEW reg
  PROVE  /\ MissingEntries(reg) \in Seq(Entries)
         /\ \A e \in Range(MissingEntries(reg)) : e \in Entries /\ ~e.sync
         /\ \A g \in Range(FirstGroups) :
              Missing(reg, g) => g[1] \in Range(MissingEntries(reg))
         /\ (\A g \in Range(FirstGroups) : ~Missing(reg, g)) => MissingEntries(reg) = <<>>
<1> DEFINE Of(g) == IF Missing(reg, g) THEN g ELSE <<>>
           parts == [i \in DOMAIN FirstGroups |-> Of(FirstGroups[i])]
           n == Len(FirstGroups)
<1>1. /\ DOMAIN FirstGroups = 1..n /\ n \in Nat
      /\ Range(FirstGroups) = {FirstGroups[i] : i \in 1..n}
      /\ \A i \in 1..n : FirstGroups[i] \in Range(FirstGroups)
  BY RegistryAssumption, ElementsOfSeq
<1>2. \A g \in Range(FirstGroups) : g \in Seq(Entries) /\ \A e \in Range(g) : e \in Entries /\ ~e.sync
  BY EntriesAre
<1>3. <<>> \in Seq(Entries) /\ Range(<<>>) = {}
  BY EmptySeq DEF Range
<1>4. \A g \in Range(FirstGroups) :
        Of(g) \in Seq(Entries) /\ \A e \in Range(Of(g)) : e \in Entries /\ ~e.sync
  BY <1>2, <1>3
<1> HIDE DEF Of
<1>5. parts \in Seq(Seq(Entries)) /\ Len(parts) = n /\ \A i \in 1..n : parts[i] = Of(FirstGroups[i])
  <2>1. parts = [i \in 1..n |-> Of(FirstGroups[i])]
    BY <1>1
  <2>2. \A i \in 1..n : Of(FirstGroups[i]) \in Seq(Entries)
    BY <1>1, <1>4
  <2> HIDE DEF n
  <2>3. parts \in [1..n -> Seq(Entries)]
    BY <2>1, <2>2
  <2>4. parts \in Seq(Seq(Entries))
    BY <1>1, <2>3, SeqDef
  <2>5. DOMAIN parts = 1..n /\ DOMAIN parts = 1..Len(parts) /\ Len(parts) \in Nat
    BY <2>1, <2>4, ElementsOfSeq
  <2>6. Len(parts) = n
    BY <1>1, <2>5
  <2> QED BY <2>1, <2>4, <2>6
<1> HIDE DEF n
<1>6. MissingEntries(reg) = FlattenSeq(parts)
  BY DEF MissingEntries, Of
<1> HIDE DEF parts
<1> DEFINE all == MissingEntries(reg)
<1>7. all \in Seq(Entries) /\ Range(all) = UNION {Range(parts[i]) : i \in 1..n}
  BY <1>5, <1>6, FlattenHolds
<1> HIDE DEF all
<1>8. Range(all) = UNION {Range(Of(g)) : g \in Range(FirstGroups)}
  BY <1>1, <1>5, <1>7
<1>9. \A e \in Range(all) : e \in Entries /\ ~e.sync
  BY <1>4, <1>8
<1>10. ASSUME NEW g \in Range(FirstGroups), Missing(reg, g) PROVE g[1] \in Range(all)
  <2>1. Of(g) = g
    BY <1>10 DEF Of
  <2>2. g[1] \in Range(g)
    <3>1. g # <<>> /\ g \in Seq(Entries)
      BY <1>2, RegistryAssumption
    <3>2. Len(g) \in Nat \ {0}
      BY <3>1, EmptySeq
    <3> QED BY <3>1, <3>2, ElementsOfSeq
  <2> QED BY <1>8, <2>1, <2>2
<1>11. ASSUME \A g \in Range(FirstGroups) : ~Missing(reg, g) PROVE all = <<>>
  <2>1. \A g \in Range(FirstGroups) : Range(Of(g)) = {}
    BY <1>3, <1>11 DEF Of
  <2>2. Range(all) = {}
    BY <1>8, <2>1
  <2>3. Len(all) \in Nat /\ \A i \in 1..Len(all) : all[i] \in Range(all)
    BY <1>7, ElementsOfSeq
  <2>4. Len(all) = 0
    BY <2>2, <2>3
  <2> QED BY <1>7, <2>4, EmptySeq
<1> QED BY <1>7, <1>9, <1>10, <1>11 DEF all

\* Docs that fit a registry are added to it.
LEMMA DocumentedIsSound ==
  ASSUME NEW reg, Sound(reg),
         \A d \in SyncDocs :
           /\ d.action \notin DOMAIN reg
           /\ \A a \in DOMAIN reg : Range(NamesOf(d)) \cap Range(NamesOf(reg[a])) = {}
  PROVE  /\ Sound(Documented(reg)) /\ Holds(Documented(reg), reg)
         /\ DOMAIN Documented(reg) = {d.action : d \in SyncDocs} \cup DOMAIN reg
         /\ \A d \in SyncDocs : Documented(reg)[d.action] = d
<1> DEFINE new == {d \in SyncDocs : \A a \in DOMAIN reg : reg[a].path # d.path}
           docs == [a \in {d.action : d \in new} |-> CHOOSE d \in new : d.action = a]
           all == Documented(reg)
<1>1. new = SyncDocs
  <2>1. ASSUME NEW d \in SyncDocs, NEW a \in DOMAIN reg, reg[a].path = d.path PROVE FALSE
    <3>1. d \in Entries /\ reg[a] \in Entries
      BY EntriesAre DEF Sound
    <3>2. d.path \in Range(NamesOf(d)) /\ reg[a].path \in Range(NamesOf(reg[a]))
      BY <3>1, EntriesAre
    <3> QED BY <2>1, <3>2
  <2> QED BY <2>1
<1>2. all = Inserted(docs, reg)
  BY DEF Documented
<1>3. /\ \A d \in SyncDocs : d \in Entries
      /\ \A c, d \in SyncDocs : c # d =>
           c.action # d.action /\ Range(NamesOf(c)) \cap Range(NamesOf(d)) = {}
  BY EntriesAre, RegistryAssumption
<1> HIDE DEF new
<1>4. DOMAIN docs = {d.action : d \in SyncDocs} /\ \A d \in SyncDocs : docs[d.action] = d
  <2>1. docs = [a \in {d.action : d \in SyncDocs} |-> CHOOSE d \in SyncDocs : d.action = a]
    BY <1>1
  <2>2. ASSUME NEW d \in SyncDocs PROVE docs[d.action] = d
    <3> HIDE DEF docs
    <3>1. docs[d.action] = CHOOSE c \in SyncDocs : c.action = d.action
      BY <2>1
    <3> QED BY <1>3, <3>1
  <2> QED BY <2>1, <2>2
<1> HIDE DEF docs
<1>5. /\ DOMAIN all = DOMAIN docs \cup DOMAIN reg
      /\ \A d \in SyncDocs : all[d.action] = d
      /\ \A a \in DOMAIN reg : all[a] = reg[a]
  BY <1>2, <1>4 DEF Inserted
<1>6. \A a \in DOMAIN all : a \in DOMAIN reg \/ \E d \in SyncDocs : a = d.action
  BY <1>4, <1>5
<1>7. \A a \in DOMAIN all : all[a] \in Entries /\ all[a].action = a
  BY <1>3, <1>5, <1>6 DEF Sound
<1>8. all \in [DOMAIN all -> Entries]
  BY <1>2, <1>7 DEF Inserted
<1> HIDE DEF all
<1>9. ASSUME NEW a \in DOMAIN all, NEW b \in DOMAIN all,
             Range(NamesOf(all[a])) \cap Range(NamesOf(all[b])) # {}
      PROVE  a = b
  <2>1. CASE a \in DOMAIN reg /\ b \in DOMAIN reg
    BY <1>5, <1>9, <2>1 DEF Sound
  <2>2. ASSUME NEW c \in SyncDocs, a = c.action, NEW d \in SyncDocs, b = d.action PROVE a = b
    BY <1>3, <1>5, <1>9, <2>2
  <2>3. ASSUME NEW c \in SyncDocs, a = c.action, b \in DOMAIN reg PROVE FALSE
    BY <1>5, <1>9, <2>3
  <2>4. ASSUME NEW d \in SyncDocs, b = d.action, a \in DOMAIN reg PROVE FALSE
    BY <1>5, <1>9, <2>4
  <2> QED BY <1>6, <2>1, <2>2, <2>3, <2>4
<1>10. Sound(all) /\ Holds(all, reg)
  BY <1>5, <1>7, <1>8, <1>9 DEF Sound, Holds
<1> QED BY <1>4, <1>5, <1>10 DEF all

\* Docs that a registry holds are not added again.
LEMMA DocumentedStays ==
  ASSUME NEW reg, reg \in [DOMAIN reg -> Entries],
         \A d \in SyncDocs : d.action \in DOMAIN reg /\ reg[d.action] = d
  PROVE  Documented(reg) = reg
<1> DEFINE new == {d \in SyncDocs : \A a \in DOMAIN reg : reg[a].path # d.path}
           docs == [a \in {d.action : d \in new} |-> CHOOSE d \in new : d.action = a]
<1>1. new = {}
  OBVIOUS
<1>2. Documented(reg) = Inserted(docs, reg)
  BY DEF Documented
<1>3. DOMAIN docs = {}
  BY <1>1
<1> HIDE DEF docs
<1> QED BY <1>2, <1>3, InsertedNothing

(***************************************************************************)
(* The names of a context.                                                 *)
(***************************************************************************)

\* A handler for each async API, and no other.
Handles(by, reg) == by \in [{a \in DOMAIN reg : ~reg[a].sync} -> {"rust", "js"}]

\* The API registered under action a is called p, or also p.
HasName(reg, a, p) == a \in DOMAIN reg /\ p \in Range(NamesOf(reg[a]))

\* What the bindings set: in a registry without shared names each name of an
\* async API, to the API that has it.
LEMMA AsyncNamesAre ==
  ASSUME NEW reg, Sound(reg), NEW by, Handles(by, reg)
  PROVE  /\ DOMAIN AsyncNames(reg, by) \subseteq Occupied(reg)
         /\ \A a \in DOMAIN by : \A p \in Range(NamesOf(reg[a])) :
              p \in DOMAIN AsyncNames(reg, by) /\ AsyncNames(reg, by)[p] = a
         /\ \A p \in DOMAIN AsyncNames(reg, by) : HasName(reg, AsyncNames(reg, by)[p], p)
<1> DEFINE actions == {a \in DOMAIN reg : ~reg[a].sync /\ a \in DOMAIN by}
           names == UNION {Range(NamesOf(reg[a])) : a \in actions}
<1>1. AsyncNames(reg, by) = [p \in names |-> CHOOSE a \in actions : p \in Range(NamesOf(reg[a]))]
  BY DEF AsyncNames
<1>2. actions = DOMAIN by /\ actions \subseteq DOMAIN reg
  BY DEF Handles
<1> HIDE DEF actions
<1>3. names \subseteq Occupied(reg)
  BY <1>2 DEF Occupied
<1>4. ASSUME NEW a \in DOMAIN by, NEW p \in Range(NamesOf(reg[a]))
      PROVE  p \in names /\ AsyncNames(reg, by)[p] = a
  <2>1. p \in names
    BY <1>2
  <2>2. ASSUME NEW b \in actions, p \in Range(NamesOf(reg[b])) PROVE b = a
    BY <1>2, <2>2 DEF Sound
  <2> HIDE DEF names
  <2>3. AsyncNames(reg, by)[p] = CHOOSE b \in actions : p \in Range(NamesOf(reg[b]))
    BY <1>1, <2>1
  <2> QED BY <1>2, <2>1, <2>2, <2>3
<1>5. ASSUME NEW p \in names PROVE HasName(reg, AsyncNames(reg, by)[p], p)
  <2>1. PICK a \in DOMAIN by : a \in DOMAIN reg /\ p \in Range(NamesOf(reg[a]))
    BY <1>2
  <2> QED BY <1>4, <2>1 DEF HasName
<1> HIDE DEF names
<1> QED BY <1>1, <1>3, <1>4, <1>5

\* Sync names are public names.
LEMMA SyncNamesAre ==
  ASSUME NEW reg, Sound(reg)
  PROVE  /\ DOMAIN SyncNames(reg) \subseteq Occupied(reg)
         /\ \A p \in DOMAIN SyncNames(reg) : HasName(reg, SyncNames(reg)[p], p)
<1> DEFINE actions == {a \in DOMAIN reg : reg[a].sync}
           names == {reg[a].path : a \in actions}
<1>1. SyncNames(reg) = [p \in names |-> CHOOSE a \in actions : reg[a].path = p]
  BY DEF SyncNames
<1>2. ASSUME NEW a \in DOMAIN reg PROVE HasName(reg, a, reg[a].path) /\ reg[a].path \in Occupied(reg)
  <2>1. reg[a].path \in Range(NamesOf(reg[a]))
    BY EntriesAre DEF Sound
  <2> QED BY <2>1 DEF Occupied, HasName
<1>3. ASSUME NEW p \in names PROVE HasName(reg, SyncNames(reg)[p], p)
  <2>1. SyncNames(reg)[p] \in actions /\ reg[SyncNames(reg)[p]].path = p
    BY <1>1
  <2> QED BY <1>2, <2>1
<1> QED BY <1>1, <1>2, <1>3

\* A context, by its fields.
Ctx(tools, spaces, proxied) == [tools |-> tools, spaces |-> spaces, proxied |-> proxied]

\* To set names adds some of them, and where nothing was bound before all that are
\* not taken.
LEMMA BindAdds ==
  ASSUME NEW names, NEW tools, NEW spaces, NEW proxied, NEW first
  PROVE  LET b == Bind(Ctx(tools, spaces, proxied), names, first)
         IN  /\ b = Ctx(b.tools, b.spaces, proxied)
             /\ \A p \in DOMAIN tools : p \in DOMAIN b.tools /\ b.tools[p] = tools[p]
             /\ \A p \in DOMAIN b.tools : p \in DOMAIN tools \/ (p \in DOMAIN names /\ b.tools[p] = names[p])
             /\ (proxied = {} /\ DOMAIN tools = {} /\ spaces = {}) =>
                  \A p \in DOMAIN names : p \in DOMAIN b.tools \cup Globals \cup Crossing(DOMAIN names)
<1> DEFINE ctx == Ctx(tools, spaces, proxied)
           seen == {p \in DOMAIN names : Visible(ctx, p)}
           made == UNION {Prefixes(Front(p)) : p \in seen}
           new == {p \in seen \ (DOMAIN ctx.tools \cup ctx.spaces \cup Globals) : p \in made => p \in first}
           add == [p \in new |-> names[p]]
           t == Inserted(add, tools)
           s == spaces \cup made
<1>1. /\ Bind(ctx, names, first) = [ctx EXCEPT !.tools = Inserted(add, @), !.spaces = @ \cup made]
      /\ ctx = [tools |-> tools, spaces |-> spaces, proxied |-> proxied]
  BY DEF Bind, Ctx
<1> HIDE DEF ctx
<1>2. new \subseteq DOMAIN names /\ \A p \in DOMAIN tools : p \notin new
  BY <1>1
<1>3. ASSUME proxied = {}, DOMAIN tools = {}, spaces = {}, NEW p \in DOMAIN names
      PROVE  p \in new \cup Globals \cup Crossing(DOMAIN names)
  <2>1. p \in seen
    BY <1>1, <1>3 DEF Visible
  <2>2. p \in made => p \in Crossing(DOMAIN names)
    BY DEF Crossing
  <2> HIDE DEF seen, made
  <2> QED BY <1>1, <1>3, <2>1, <2>2
<1> HIDE DEF new, made
<1>4. Bind(ctx, names, first) = [tools |-> t, spaces |-> s, proxied |-> proxied]
  <2>1. s = spaces \cup made
    OBVIOUS
  <2> HIDE DEF add, s
  <2> QED BY <1>1, <2>1
<1>5. /\ DOMAIN t = new \cup DOMAIN tools
      /\ \A p \in new : t[p] = names[p]
      /\ \A p \in DOMAIN tools : t[p] = tools[p]
  BY <1>2 DEF Inserted
<1> HIDE DEF t, s
<1> DEFINE b == Bind(ctx, names, first)
<1>6. b.tools = t /\ b.spaces = s /\ b = Ctx(t, s, proxied)
  BY <1>4 DEF Ctx
<1> HIDE DEF b
<1>7. /\ \A p \in DOMAIN tools : p \in DOMAIN b.tools /\ b.tools[p] = tools[p]
      /\ \A p \in DOMAIN b.tools : p \in DOMAIN tools \/ (p \in DOMAIN names /\ b.tools[p] = names[p])
  BY <1>2, <1>5, <1>6
<1>8. (proxied = {} /\ DOMAIN tools = {} /\ spaces = {}) =>
        \A p \in DOMAIN names : p \in DOMAIN b.tools \cup Globals \cup Crossing(DOMAIN names)
  BY <1>3, <1>5, <1>6
<1>9. b = Ctx(b.tools, b.spaces, proxied)
  BY <1>6
<1> QED BY <1>7, <1>8, <1>9 DEF b, ctx

\* A name that bindings from a registry may not be able to set.
TakenIn(reg, p) == p \in Globals \cup Crossing(Occupied(reg))

\* The tools of a context that are bound from a registry are those of its APIs.
Calls(tools, reg, by) ==
  /\ \A p \in DOMAIN tools : HasName(reg, tools[p], p)
  /\ \A a \in DOMAIN by : \A p \in Range(NamesOf(reg[a])) : p \in DOMAIN tools \/ TakenIn(reg, p)

\* Their names are then names of the registry.
LEMMA CalledIsOccupied ==
  ASSUME NEW tools, NEW reg, NEW by, Calls(tools, reg, by)
  PROVE  DOMAIN tools \subseteq Occupied(reg)
BY DEF Calls, HasName, Occupied

\* A fresh context with the bindings of a sound registry calls its tools: in
\* the web demo, and in the extension, where the sync names come after them.
LEMMA BoundCalls ==
  ASSUME NEW reg, Sound(reg), NEW by, Handles(by, reg), NEW first
  PROVE  /\ Calls(BindAsync(Fresh, reg, by, first).tools, reg, by)
         /\ Calls(Injected(reg, by, first).tools, reg, by)
<1> DEFINE names == AsyncNames(reg, by)
           ctx == BindAsync(Fresh, reg, by, first)
           none == <<>>
<1>1. Fresh = Ctx(none, {}, {}) /\ DOMAIN none = {}
  BY DEF Fresh, Ctx
<1> HIDE DEF none, names
<1> DEFINE b == Bind(Ctx(none, {}, {}), names, first)
           t == b.tools
           s == b.spaces
<1>2. /\ b = Ctx(t, s, {})
      /\ \A p \in DOMAIN t : p \in DOMAIN names /\ t[p] = names[p]
      /\ \A p \in DOMAIN names : p \in DOMAIN t \cup Globals \cup Crossing(DOMAIN names)
  BY <1>1, BindAdds
<1> HIDE DEF t, s
<1> DEFINE px == {} \cup ({Front(p) : p \in DOMAIN names} \ (DOMAIN t \cup Functions))
<1>3. ctx = Ctx(t, s, px)
  <2> DEFINE made == {Front(p) : p \in DOMAIN names} \ (DOMAIN t \cup Functions)
  <2>1. ctx = [b EXCEPT !.proxied = @ \cup made]
    BY <1>1 DEF BindAsync, names, t
  <2>2. px = {} \cup made
    OBVIOUS
  <2> HIDE DEF ctx, b, made, px
  <2> QED BY <1>2, <2>1, <2>2 DEF Ctx
<1> HIDE DEF px, b
<1>4. Calls(t, reg, by)
  <2>1. /\ DOMAIN names \subseteq Occupied(reg)
        /\ \A a \in DOMAIN by : \A p \in Range(NamesOf(reg[a])) : p \in DOMAIN names
        /\ \A p \in DOMAIN names : HasName(reg, names[p], p)
    BY AsyncNamesAre DEF names
  <2>2. Crossing(DOMAIN names) \subseteq Crossing(Occupied(reg))
    BY <2>1 DEF Crossing
  <2> QED BY <1>2, <2>1, <2>2 DEF Calls, TakenIn
<1>5. Injected(reg, by, first) = Bind(ctx, SyncNames(reg), first)
  BY DEF Injected
<1> HIDE DEF ctx
<1> DEFINE sync == SyncNames(reg)
<1> HIDE DEF sync
<1> DEFINE b2 == Bind(Ctx(t, s, px), sync, first)
           t2 == b2.tools
<1>6. /\ \A p \in DOMAIN t : p \in DOMAIN t2 /\ t2[p] = t[p]
      /\ \A p \in DOMAIN t2 : p \in DOMAIN t \/ (p \in DOMAIN sync /\ t2[p] = sync[p])
  BY BindAdds
<1> HIDE DEF t2
<1>7. \A p \in DOMAIN sync : HasName(reg, sync[p], p)
  BY SyncNamesAre DEF sync
<1>8. Calls(t2, reg, by)
  BY <1>4, <1>6, <1>7 DEF Calls
<1>9. ctx.tools = t /\ Injected(reg, by, first).tools = t2
  BY <1>3, <1>5 DEF sync, t2, Ctx
<1> QED BY <1>4, <1>8, <1>9 DEF ctx

(***************************************************************************)
(* Starts.                                                                 *)
(***************************************************************************)

\* Nothing is registered at first.
LEMMA EmptyIsSound == Sound(<<>>) /\ Handles(<<>>, <<>>)
<1>1. DOMAIN <<>> = {} /\ <<>> \in [{} -> Entries] /\ <<>> \in [{} -> {"rust", "js"}]
  OBVIOUS
<1> QED BY <1>1 DEF Sound, Handles

\* Executable entries that fit are registered with their handlers.
LEMMA JoinHandles ==
  ASSUME NEW reg, Sound(reg), NEW by, Handles(by, reg),
         NEW s \in Seq(Entries), Apart(reg, s), \A e \in Range(s) : ~e.sync,
         NEW w \in {"rust", "js"}
  PROVE  Handles(Inserted(Handled(s, w), by), Inserted(Keyed(s), reg))
<1> DEFINE new == Inserted(Keyed(s), reg)
           h == Handled(s, w)
           all == Inserted(h, by)
<1>1. /\ DOMAIN new = {s[i].action : i \in DOMAIN s} \cup DOMAIN reg
      /\ \A i \in DOMAIN s : new[s[i].action] = s[i]
      /\ \A a \in DOMAIN reg : new[a] = reg[a]
  <2>1. /\ Holds(new, reg) /\ DOMAIN new = {s[i].action : i \in DOMAIN s} \cup DOMAIN reg
        /\ \A i \in DOMAIN s : new[s[i].action] = s[i]
    BY JoinIsSound
  <2> HIDE DEF new
  <2> QED BY <2>1 DEF Holds
<1>2. DOMAIN h = {s[i].action : i \in DOMAIN s} /\ \A a \in DOMAIN h : h[a] = w
  BY DEF Handled, Keyed
<1>3. \A i \in DOMAIN s : ~s[i].sync
  BY ElementsOfSeq
<1> HIDE DEF new, h
<1>4. DOMAIN by = {a \in DOMAIN reg : ~reg[a].sync} /\ \A a \in DOMAIN by : by[a] \in {"rust", "js"}
  BY DEF Handles
<1>5. DOMAIN all = {a \in DOMAIN new : ~new[a].sync}
  <2>1. DOMAIN all = DOMAIN h \cup DOMAIN by
    BY DEF Inserted
  <2>2. \A a \in DOMAIN h : a \in DOMAIN new /\ ~new[a].sync
    BY <1>1, <1>2, <1>3
  <2>3. \A a \in DOMAIN reg : a \in DOMAIN new /\ new[a].sync = reg[a].sync
    BY <1>1
  <2>4. \A a \in DOMAIN new : a \in DOMAIN h \/ a \in DOMAIN reg
    BY <1>1, <1>2
  <2> QED BY <1>4, <2>1, <2>2, <2>3, <2>4
<1>6. all \in [DOMAIN all -> {"rust", "js"}]
  BY <1>2, <1>4 DEF Inserted
<1>7. Handles(all, new)
  <2> HIDE DEF all
  <2> QED BY <1>5, <1>6 DEF Handles
<1> QED BY <1>7 DEF new, h

\* A first start of the extension registers all it has: no later one misses any.
LEMMA CoreIsBuilt ==
  /\ Fits(<<>>, Core) /\ Sound(CoreBuilt)
  /\ Handles(Inserted(Handled(Core, "rust"), <<>>), CoreBuilt)
  /\ \A d \in SyncDocs : d.action \in DOMAIN CoreBuilt /\ CoreBuilt[d.action] = d
  /\ \A g \in Range(FirstGroups) : ~Missing(CoreBuilt, g)
<1>1. Fits(<<>>, Core)
  BY RegistryAssumption
<1>2. /\ Core \in Seq(Entries) /\ \A e \in Range(Core) : ~e.sync
      /\ \A g \in Range(FirstGroups) : g[1] \in Range(Core)
  <2>1. \A g : Missing(<<>>, g)
    BY DEF Missing
  <2> QED BY <2>1, MissingAre DEF Core
<1>3. \A d \in SyncDocs, e \in Range(Core) :
        d.action # e.action /\ Range(NamesOf(d)) \cap Range(NamesOf(e)) = {}
  BY RegistryAssumption
<1>4. Apart(<<>>, Core)
  BY <1>1, <1>2, FitsIsApart
<1> DEFINE c == Core
           reg == Inserted(Keyed(c), <<>>)
           by == Inserted(Handled(c, "rust"), <<>>)
           all == Documented(reg)
<1>5. /\ Sound(reg) /\ Handles(by, reg)
      /\ DOMAIN reg = {c[i].action : i \in DOMAIN c} \cup DOMAIN <<>>
      /\ \A i \in DOMAIN c : reg[c[i].action] = c[i]
  <2>1. Sound(<<>>) /\ Handles(<<>>, <<>>)
    BY EmptyIsSound
  <2>2. c \in Seq(Entries) /\ Apart(<<>>, c) /\ \A e \in Range(c) : ~e.sync
    BY <1>2, <1>4
  <2> HIDE DEF c
  <2>3. /\ Sound(reg) /\ DOMAIN reg = {c[i].action : i \in DOMAIN c} \cup DOMAIN <<>>
        /\ \A i \in DOMAIN c : reg[c[i].action] = c[i]
    BY <2>1, <2>2, JoinIsSound
  <2>4. Handles(by, reg)
    BY <2>1, <2>2, JoinHandles
  <2> QED BY <2>3, <2>4
<1>6. \A i \in DOMAIN c : c[i] \in Range(c)
  BY DEF Range
<1>7. \A e \in Range(c) : \E i \in DOMAIN c : c[i] = e
  BY DEF Range
<1>8. DOMAIN reg = {c[i].action : i \in DOMAIN c}
  BY <1>5
<1> HIDE DEF reg, by
<1>9. ASSUME NEW d \in SyncDocs
      PROVE  /\ d.action \notin DOMAIN reg
             /\ \A a \in DOMAIN reg : Range(NamesOf(d)) \cap Range(NamesOf(reg[a])) = {}
  BY <1>3, <1>5, <1>6, <1>8
<1>10. /\ Sound(all) /\ Holds(all, reg)
       /\ DOMAIN all = {d.action : d \in SyncDocs} \cup DOMAIN reg
       /\ \A d \in SyncDocs : all[d.action] = d
  BY <1>5, <1>9, DocumentedIsSound
<1> HIDE DEF all
<1>11. Handles(by, all)
  <2>1. \A d \in SyncDocs : d.sync
    BY EntriesAre
  <2>2. {a \in DOMAIN all : ~all[a].sync} = {a \in DOMAIN reg : ~reg[a].sync}
    BY <1>10, <2>1 DEF Holds
  <2> QED BY <1>5, <2>2 DEF Handles
<1>12. ASSUME NEW g \in Range(FirstGroups) PROVE ~Missing(all, g)
  <2>1. g[1] \in Range(c)
    BY <1>2
  <2>2. g[1].action \in DOMAIN reg
    BY <1>7, <1>8, <2>1
  <2> QED BY <1>10, <2>2 DEF Missing
<1>13. \A d \in SyncDocs : d.action \in DOMAIN all /\ all[d.action] = d
  BY <1>10
<1>14. all = CoreBuilt /\ by = Inserted(Handled(Core, "rust"), <<>>)
  BY DEF all, by, reg, c, CoreBuilt
<1> QED BY <1>1, <1>10, <1>11, <1>12, <1>13, <1>14

\* The same of the web demo, where the docs come first.
LEMMA WebIsBuilt ==
  /\ Fits(Documented(<<>>), WebEntries) /\ Sound(WebBuilt)
  /\ Handles(Inserted(Handled(WebEntries, "rust"), <<>>), WebBuilt)
  /\ \A d \in SyncDocs : d.action \in DOMAIN WebBuilt /\ WebBuilt[d.action] = d
  /\ \A i \in DOMAIN WebEntries :
       /\ WebEntries[i].action \in DOMAIN WebBuilt
       /\ ~WebBuilt[WebEntries[i].action].sync
<1> DEFINE docs == Documented(<<>>)
           s == WebEntries
           all == Inserted(Keyed(s), docs)
           by == Inserted(Handled(s, "rust"), <<>>)
<1>1. Fits(docs, s)
  BY RegistryAssumption
<1>2. s \in Seq(Entries) /\ \A e \in Range(s) : ~e.sync
  BY EntriesAre
<1>3. /\ Sound(docs) /\ DOMAIN docs = {d.action : d \in SyncDocs}
      /\ \A d \in SyncDocs : docs[d.action] = d
  <2> DEFINE none == <<>>
  <2>1. Sound(none) /\ DOMAIN none = {} /\ docs = Documented(none)
    BY EmptyIsSound
  <2> HIDE DEF none
  <2>2. \A d \in SyncDocs :
          /\ d.action \notin DOMAIN none
          /\ \A a \in DOMAIN none : Range(NamesOf(d)) \cap Range(NamesOf(none[a])) = {}
    BY <2>1
  <2>3. /\ Sound(Documented(none))
        /\ DOMAIN Documented(none) = {d.action : d \in SyncDocs} \cup DOMAIN none
        /\ \A d \in SyncDocs : Documented(none)[d.action] = d
    BY <2>1, <2>2, DocumentedIsSound
  <2> HIDE DEF docs
  <2> QED BY <2>1, <2>3
<1>4. Handles(<<>>, docs)
  <2>1. \A d \in SyncDocs : d.sync
    BY EntriesAre
  <2>2. {a \in DOMAIN docs : ~docs[a].sync} = {}
    BY <1>3, <2>1
  <2>3. <<>> \in [{} -> {"rust", "js"}]
    OBVIOUS
  <2> HIDE DEF docs
  <2> QED BY <2>2, <2>3 DEF Handles
<1> HIDE DEF docs, s
<1>5. Apart(docs, s)
  BY <1>1, <1>2, FitsIsApart
<1>6. /\ Sound(all) /\ Holds(all, docs) /\ Handles(by, all)
      /\ DOMAIN all = {s[i].action : i \in DOMAIN s} \cup DOMAIN docs
      /\ \A i \in DOMAIN s : all[s[i].action] = s[i]
  <2>1. Sound(docs) /\ s \in Seq(Entries) /\ Apart(docs, s)
    BY <1>2, <1>3, <1>5
  <2>2. /\ Sound(all) /\ Holds(all, docs)
        /\ DOMAIN all = {s[i].action : i \in DOMAIN s} \cup DOMAIN docs
        /\ \A i \in DOMAIN s : all[s[i].action] = s[i]
    BY <2>1, JoinIsSound
  <2>3. Handles(by, all)
    BY <1>2, <1>4, <2>1, JoinHandles
  <2> QED BY <2>2, <2>3
<1> HIDE DEF all, by
<1>7. \A d \in SyncDocs : d.action \in DOMAIN all /\ all[d.action] = d
  BY <1>3, <1>6 DEF Holds
<1>8. \A i \in DOMAIN s : s[i].action \in DOMAIN all /\ ~all[s[i].action].sync
  BY <1>2, <1>6 DEF Range
<1>9. all = WebBuilt /\ by = Inserted(Handled(WebEntries, "rust"), <<>>)
  BY DEF all, by, docs, s, WebBuilt
<1> QED BY <1>1, <1>6, <1>7, <1>8, <1>9 DEF docs, s

(***************************************************************************)
(* The invariant.                                                          *)
(***************************************************************************)

\* The tables fit together, in every context that is bound from a registry.
LEMMA InvParts ==
  ASSUME RegistryInv
  PROVE  /\ Sound(registry) /\ Handles(handlers, registry)
         /\ stage = "ready" => Calls(context.tools, registry, handlers)
BY DEF RegistryInv, RegistryTypes, RegisteredOnce, NamesUnique, CellsCallTheirTools,
       Sound, Handles, Calls, HasName, Taken, TakenIn

\* What the invariant of a state is made of.
LEMMA InvFromParts ==
  ASSUME Sound(registry'), Handles(handlers', registry'),
         DOMAIN context'.tools \subseteq Occupied(registry'),
         stage' = "ready" => Calls(context'.tools, registry', handlers'),
         frozen' \in BOOLEAN, host' \in {"extension", "web"},
         stage' \in {"start", "open", "batched", "frozen", "ready", "bare", "failed"},
         stage' = "start" => registry' = <<>> /\ handlers' = <<>> /\ ~frozen',
         stage' # "start" => Holds(registry', BuiltIn')
  PROVE  RegistryInv'
<1>1. RegistryTypes'
  BY DEF RegistryTypes, Sound, Handles
<1>2. RegisteredOnce'
  BY DEF RegisteredOnce, NamesUnique, NeverPanics, Sound
<1>3. CellsCallTheirTools'
  BY DEF CellsCallTheirTools, Calls, HasName, Taken, TakenIn
<1> QED BY <1>1, <1>2, <1>3 DEF RegistryInv, Holds

\* No context has a name before something is bound in it.
LEMMA FreshHasNone == DOMAIN Fresh.tools = {}
<1>1. DOMAIN <<>> = {}
  OBVIOUS
<1> QED BY <1>1 DEF Fresh

\* The first registries are empty.
LEMMA RegistryInvInit == RegistryInit => RegistryInv
<1> SUFFICES ASSUME RegistryInit PROVE RegistryInv
  OBVIOUS
<1>1. /\ Sound(registry) /\ Handles(handlers, registry) /\ context.tools = Fresh.tools
      /\ DOMAIN registry = {}
  <2>1. registry = <<>> /\ handlers = <<>> /\ context = Fresh /\ DOMAIN <<>> = {}
    BY DEF RegistryInit
  <2> QED BY <2>1, EmptyIsSound
<1>2. RegistryTypes
  BY <1>1, FreshHasNone DEF RegistryInit, RegistryTypes, Sound, Handles
<1> QED BY <1>1, <1>2 DEF RegistryInit, RegistryInv, RegisteredOnce, NamesUnique, NeverPanics,
                          CellsCallTheirTools

\* Once started, a program holds all docs and misses nothing.
LEMMA StartedHolds ==
  ASSUME RegistryInv, stage # "start"
  PROVE  /\ WithDocs(registry) = registry
         /\ host = "extension" => MissingEntries(registry) = <<>>
         /\ host = "web" /\ handlers = <<>> => WebEntries = <<>>
<1>1. /\ Holds(registry, BuiltIn) /\ registry \in [DOMAIN registry -> Entries]
      /\ host \in {"extension", "web"} /\ Handles(handlers, registry)
  BY InvParts DEF RegistryInv, RegistryTypes, Holds
<1>2. BuiltIn = IF host = "extension" THEN CoreBuilt ELSE WebBuilt
  BY DEF BuiltIn
<1>3. \A d \in SyncDocs : d.action \in DOMAIN registry /\ registry[d.action] = d
  <2>1. \A d \in SyncDocs : d.action \in DOMAIN BuiltIn /\ BuiltIn[d.action] = d
    BY <1>2, CoreIsBuilt, WebIsBuilt
  <2> QED BY <1>1, <2>1 DEF Holds
<1>4. WithDocs(registry) = registry
  BY <1>1, <1>3, DocumentedStays DEF WithDocs
<1>5. host = "extension" => MissingEntries(registry) = <<>>
  <2> SUFFICES ASSUME host = "extension" PROVE MissingEntries(registry) = <<>>
    OBVIOUS
  <2>1. \A g \in Range(FirstGroups) : ~Missing(registry, g)
    BY <1>1, <1>2, CoreIsBuilt DEF Holds, Missing
  <2> QED BY <2>1, MissingAre
<1>6. host = "web" /\ handlers = <<>> => WebEntries = <<>>
  <2> SUFFICES ASSUME host = "web", handlers = <<>> PROVE WebEntries = <<>>
    OBVIOUS
  <2>1. DOMAIN handlers = {} /\ DOMAIN handlers = {a \in DOMAIN registry : ~registry[a].sync}
    <3>1. DOMAIN <<>> = {}
      OBVIOUS
    <3> QED BY <1>1, <3>1 DEF Handles
  <2>2. \A i \in DOMAIN WebEntries : WebEntries[i].action \in DOMAIN handlers
    BY <1>1, <1>2, <2>1, WebIsBuilt DEF Holds
  <2>3. WebEntries \in Seq(Entries) /\ DOMAIN WebEntries = {}
    BY <2>1, <2>2, EntriesAre
  <2>4. DOMAIN WebEntries = 1..Len(WebEntries) /\ Len(WebEntries) \in Nat
    BY <2>3, ElementsOfSeq
  <2>5. Len(WebEntries) = 0
    BY <2>3, <2>4
  <2> QED BY <2>3, <2>5, EmptySeq
<1> QED BY <1>4, <1>5, <1>6

\* Nothing to register changes nothing.
LEMMA RegisterNothing ==
  ASSUME NEW reg, Sound(reg), NEW by, Handles(by, reg), NEW w
  PROVE  /\ Inserted(Keyed(<<>>), reg) = reg /\ Inserted(Handled(<<>>, w), by) = by
         /\ Fits(reg, <<>>)
<1>1. DOMAIN Keyed(<<>>) = {} /\ DOMAIN Handled(<<>>, w) = {}
  BY KeyedNone DEF Handled
<1>2. Fits(reg, <<>>)
  BY DEF Fits
<1> QED BY <1>1, <1>2, InsertedNothing DEF Sound, Handles

\* A later start finds all it would register: nothing changes, and none panics.
LEMMA LaterStart ==
  ASSUME RegistryInv, stage # "start", host = "extension", NEW next, RegisterCore(next)
  PROVE  UNCHANGED <<registry, handlers, frozen>> /\ stage' = next
<1>1. MissingEntries(registry) = <<>> /\ WithDocs(registry) = registry
  BY StartedHolds
<1>2. /\ Inserted(Keyed(<<>>), registry) = registry
      /\ Inserted(Handled(<<>>, "rust"), handlers) = handlers /\ Fits(registry, <<>>)
  BY InvParts, RegisterNothing
<1> QED BY <1>1, <1>2 DEF RegisterCore

\* The first start registers what the extension has in Rust.
LEMMA FirstStart ==
  ASSUME RegistryInv, stage = "start", NEW next, RegisterCore(next)
  PROVE  /\ registry' = CoreBuilt /\ handlers' = Inserted(Handled(Core, "rust"), <<>>)
         /\ UNCHANGED frozen /\ stage' = next
<1>1. registry = <<>> /\ handlers = <<>> /\ ~frozen
  BY DEF RegistryInv
<1>2. MissingEntries(registry) = Core /\ Fits(registry, Core)
  BY <1>1, CoreIsBuilt DEF Core
<1>3. WithDocs(Inserted(Keyed(Core), registry)) = CoreBuilt
  BY <1>1 DEF WithDocs, CoreBuilt
<1> QED BY <1>1, <1>2, <1>3 DEF RegisterCore

\* Where the registry stays, what it holds of the tables stays.
LEMMA BuiltStays ==
  ASSUME RegistryInv, UNCHANGED host, stage # "start", Holds(registry', registry)
  PROVE  Holds(registry', BuiltIn')
<1>1. Holds(registry, BuiltIn) /\ BuiltIn' = BuiltIn
  BY DEF RegistryInv, Holds, BuiltIn
<1> HIDE DEF BuiltIn
<1> QED BY <1>1 DEF Holds

\* A step that leaves the registry and the handlers as they are.
LEMMA SameRegistry ==
  ASSUME RegistryInv, UNCHANGED <<registry, handlers, host>>, stage # "start", stage' # "start",
         frozen' \in BOOLEAN, stage' \in {"open", "batched", "frozen", "ready", "bare", "failed"},
         \/ UNCHANGED context /\ stage' # "ready"
         \/ context' = Fresh /\ stage' # "ready"
         \/ \E first : context' = Injected(registry, handlers, first)
         \/ \E first : context' = BindAsync(Fresh, registry, handlers, first)
  PROVE  RegistryInv'
<1>1. Sound(registry) /\ Handles(handlers, registry)
  BY InvParts
<1>2. Sound(registry') /\ Handles(handlers', registry') /\ Occupied(registry') = Occupied(registry)
  BY <1>1
<1>3. Holds(registry', registry)
  BY DEF Holds
<1>4. Holds(registry', BuiltIn') /\ host' \in {"extension", "web"}
  BY <1>3, BuiltStays DEF RegistryInv
<1>5. /\ DOMAIN context'.tools \subseteq Occupied(registry')
      /\ stage' = "ready" => Calls(context'.tools, registry', handlers')
  <2>1. CASE UNCHANGED context /\ stage' # "ready"
    BY <1>2, <2>1 DEF RegistryInv, RegistryTypes
  <2>2. CASE context' = Fresh /\ stage' # "ready"
    BY <2>2, FreshHasNone
  <2>3. CASE \/ \E first : context' = Injected(registry, handlers, first)
             \/ \E first : context' = BindAsync(Fresh, registry, handlers, first)
    <3>1. Calls(context'.tools, registry, handlers)
      BY <1>1, <2>3, BoundCalls
    <3> QED BY <1>2, <3>1, CalledIsOccupied
  <2> QED BY <2>1, <2>2, <2>3
<1> QED BY <1>2, <1>4, <1>5, InvFromParts

\* Each step keeps the invariant.
LEMMA RegistryInvNext == RegistryInv /\ [RegistryNext]_registryVars => RegistryInv'
<1> SUFFICES ASSUME RegistryInv, [RegistryNext]_registryVars PROVE RegistryInv'
  OBVIOUS
<1>1. /\ Sound(registry) /\ Handles(handlers, registry)
      /\ RegistryTypes /\ host \in {"extension", "web"} /\ frozen \in BOOLEAN
  BY InvParts DEF RegistryInv, RegistryTypes
<1>2. CASE OpenSession
  <2>1. RegisterCore("open") /\ context' = Fresh /\ host = "extension" /\ UNCHANGED host
    BY <1>2 DEF OpenSession
  <2>2. CASE stage = "start"
    <3>1. /\ registry' = CoreBuilt /\ handlers' = Inserted(Handled(Core, "rust"), <<>>)
          /\ UNCHANGED frozen /\ stage' = "open"
      BY <2>1, <2>2, FirstStart
    <3>2. Sound(registry') /\ Handles(handlers', registry')
      BY <3>1, CoreIsBuilt
    <3>3. Holds(registry', BuiltIn')
      BY <2>1, <3>1 DEF BuiltIn, Holds
    <3> QED BY <1>1, <2>1, <3>1, <3>2, <3>3, FreshHasNone, InvFromParts
  <2>3. CASE stage # "start"
    <3>1. UNCHANGED <<registry, handlers, frozen>> /\ stage' = "open"
      BY <2>1, <2>3, LaterStart
    <3> QED BY <1>1, <2>1, <2>3, <3>1, SameRegistry
  <2> QED BY <2>2, <2>3
<1>3. ASSUME NEW batch \in Manifests, RegisterBatch(batch) PROVE RegistryInv'
  <2>1. stage = "open" /\ UNCHANGED <<frozen, context, host>>
    BY <1>3 DEF RegisterBatch
  <2>2. CASE frozen \/ ~ValidBatch(registry, batch)
    <3>1. stage' = "failed" /\ UNCHANGED <<registry, handlers>>
      BY <1>3, <2>2 DEF RegisterBatch
    <3> QED BY <1>1, <2>1, <3>1, SameRegistry
  <2>3. CASE ~frozen /\ ValidBatch(registry, batch)
    <3> DEFINE new == Committed(registry, batch)
    <3>1. /\ registry' = Inserted(Keyed(new), registry)
          /\ handlers' = Inserted(Handled(new, "js"), handlers)
          /\ stage' \in {"batched", "failed"}
      BY <1>3, <2>3 DEF RegisterBatch
    <3>2. batch \in Seq(Entries) /\ \A e \in Range(batch) : ~e.sync
      BY EntriesAre
    <3>3. new \in Seq(Entries) /\ Range(new) \subseteq Range(batch) /\ Apart(registry, new)
      BY <2>3, <3>2, CommittedIsApart
    <3> HIDE DEF new
    <3>4. \A e \in Range(new) : ~e.sync
      BY <3>2, <3>3
    <3>5. Sound(registry') /\ Holds(registry', registry)
      BY <1>1, <3>1, <3>3, JoinIsSound
    <3>6. Handles(handlers', registry')
      BY <1>1, <3>1, <3>3, <3>4, JoinHandles
    <3>7. DOMAIN context'.tools \subseteq Occupied(registry')
      <4>1. DOMAIN context.tools \subseteq Occupied(registry)
        BY DEF RegistryInv, RegistryTypes
      <4>2. Occupied(registry) \subseteq Occupied(registry')
        BY <3>5 DEF Occupied, Holds
      <4> QED BY <2>1, <4>1, <4>2
    <3>8. Holds(registry', BuiltIn')
      BY <2>1, <3>5, BuiltStays
    <3> QED BY <1>1, <2>1, <3>1, <3>5, <3>6, <3>7, <3>8, InvFromParts
  <2> QED BY <2>2, <2>3
<1>4. CASE FreezeManifest
  <2>1. /\ stage = "batched" /\ frozen' \in BOOLEAN /\ stage' \in {"frozen", "failed"}
        /\ UNCHANGED <<registry, handlers, context, host>>
    BY <1>4 DEF FreezeManifest
  <2> QED BY <2>1, SameRegistry
<1>5. CASE InjectBindings
  <2>1. /\ stage = "frozen" /\ stage' = "ready" /\ \E first : context' = Injected(registry, handlers, first)
        /\ UNCHANGED <<registry, handlers, frozen, host>>
    BY <1>5 DEF InjectBindings
  <2> QED BY <1>1, <2>1, SameRegistry
<1>6. CASE ResetSession
  <2>1. /\ RegisterCore("ready") /\ \E first : context' = Injected(registry', handlers', first)
        /\ host = "extension" /\ UNCHANGED host /\ stage # "start"
    BY <1>6 DEF ResetSession
  <2>2. UNCHANGED <<registry, handlers, frozen>> /\ stage' = "ready"
    BY <2>1, LaterStart
  <2> QED BY <1>1, <2>1, <2>2, SameRegistry
<1>7. CASE NewWorker
  <2>1. /\ registry' = <<>> /\ handlers' = <<>> /\ frozen' = FALSE
        /\ context' = Fresh /\ stage' = "start" /\ UNCHANGED host
    BY <1>7 DEF NewWorker
  <2> QED BY <1>1, <2>1, EmptyIsSound, FreshHasNone, InvFromParts
<1>8. CASE OpenWeb
  <2> DEFINE docs == WithDocs(registry)
             new == IF handlers = <<>> THEN WebEntries ELSE <<>>
  <2>1. /\ registry' = Inserted(Keyed(new), docs)
        /\ handlers' = Inserted(Handled(new, "rust"), handlers)
        /\ stage' = IF Fits(docs, new) THEN "ready" ELSE "panic"
        /\ \E first : context' = BindAsync(Fresh, registry', handlers', first)
        /\ host = "web" /\ UNCHANGED <<frozen, host>>
    BY <1>8 DEF OpenWeb
  <2>2. CASE stage = "start"
    <3>1. registry = <<>> /\ handlers = <<>> /\ ~frozen
      BY <2>2 DEF RegistryInv
    <3>2. new = WebEntries /\ docs = Documented(<<>>)
      BY <3>1 DEF WithDocs
    <3>3. /\ registry' = WebBuilt /\ handlers' = Inserted(Handled(WebEntries, "rust"), <<>>)
          /\ stage' = "ready"
      BY <2>1, <3>1, <3>2, WebIsBuilt DEF WebBuilt
    <3>4. Sound(registry') /\ Handles(handlers', registry')
      BY <3>3, WebIsBuilt
    <3>5. Calls(context'.tools, registry', handlers')
      BY <2>1, <3>4, BoundCalls
    <3>6. Holds(registry', BuiltIn')
      BY <2>1, <3>3 DEF BuiltIn, Holds
    <3>7. DOMAIN context'.tools \subseteq Occupied(registry')
      BY <3>5, CalledIsOccupied
    <3> QED BY <1>1, <2>1, <3>3, <3>4, <3>5, <3>6, <3>7, InvFromParts
  <2>3. CASE stage # "start"
    <3>1. new = <<>> /\ docs = registry
      BY <2>1, <2>3, StartedHolds
    <3>2. UNCHANGED <<registry, handlers>> /\ stage' = "ready"
      <4> HIDE DEF new, docs
      <4> QED BY <1>1, <2>1, <3>1, RegisterNothing
    <3> QED BY <1>1, <2>1, <2>3, <3>2, SameRegistry
  <2> QED BY <2>2, <2>3
<1>9. CASE LoseContext
  <2>1. /\ stage = "ready" /\ context' = Fresh /\ registry' = WithDocs(registry) /\ stage' = "bare"
        /\ UNCHANGED <<handlers, frozen, host>>
    BY <1>9 DEF LoseContext
  <2>2. registry' = registry
    BY <2>1, StartedHolds
  <2> QED BY <1>1, <2>1, <2>2, SameRegistry
<1>10. CASE UNCHANGED registryVars
  <2>1. UNCHANGED <<registry, handlers, frozen, context, host, stage>>
    BY <1>10 DEF registryVars
  <2>2. BuiltIn' = BuiltIn
    BY <2>1 DEF BuiltIn
  <2> HIDE DEF BuiltIn
  <2>3. CellsCallTheirTools'
    BY <2>1 DEF RegistryInv, CellsCallTheirTools, Taken
  <2> QED BY <2>1, <2>2, <2>3 DEF RegistryInv, RegistryTypes, RegisteredOnce, NamesUnique, NeverPanics
<1> QED BY <1>2, <1>3, <1>4, <1>5, <1>6, <1>7, <1>8, <1>9, <1>10 DEF RegistryNext

\* The invariant holds throughout, for any manifests.
THEOREM RegistryInvariant == RegistrySpec => []RegistryInv
BY RegistryInvInit, RegistryInvNext, PTL DEF RegistrySpec

\* The registry keeps its form (RegistryTypes): entries under their actions, a
\* handler for each async API and for no other, no name bound that no API has.
THEOREM RegistryTypesHold == RegistrySpec => []RegistryTypes
<1>1. RegistryInv => RegistryTypes
  BY DEF RegistryInv
<1> QED BY <1>1, RegistryInvariant, PTL

\* No name belongs to two APIs and no start panics (RegisteredOnce), whatever the
\* page registers, over failed starts and their retries, resets and new workers.
THEOREM RegistersOnce == RegistrySpec => []RegisteredOnce
<1>1. RegistryInv => RegisteredOnce
  BY DEF RegistryInv
<1> QED BY <1>1, RegistryInvariant, PTL

\* In a context with bindings no name calls the tool of another API, and each async
\* API answers to all of its names that are not taken by a global of the context or
\* as the namespace of other names (CellsCallTheirTools).
THEOREM CellsCallRightTools == RegistrySpec => []CellsCallTheirTools
<1>1. RegistryInv => CellsCallTheirTools
  BY DEF RegistryInv
<1> QED BY <1>1, RegistryInvariant, PTL

\* A step that takes no API and no executor of one away.
Keeps ==
  /\ \A a \in DOMAIN registry : a \in DOMAIN registry' /\ registry'[a] = registry[a]
  /\ \A a \in DOMAIN handlers : a \in DOMAIN handlers' /\ handlers'[a] = handlers[a]

\* Only a new worker forgets an API.
LEMMA StepKeeps ==
  ASSUME RegistryInv, [RegistryNext]_registryVars
  PROVE  NewWorker \/ Keeps \/ UNCHANGED registryVars
<1>1. Sound(registry) /\ Handles(handlers, registry)
  BY InvParts
<1>2. UNCHANGED <<registry, handlers>> => Keeps
  BY DEF Keeps
<1>3. stage = "start" => Keeps
  <2>1. stage = "start" => DOMAIN registry = {} /\ DOMAIN handlers = {}
    <3>1. DOMAIN <<>> = {}
      OBVIOUS
    <3> QED BY <3>1 DEF RegistryInv
  <2> QED BY <2>1 DEF Keeps
<1>4. ASSUME NEW next, host = "extension", RegisterCore(next) PROVE Keeps
  BY <1>2, <1>3, <1>4, LaterStart
<1>5. ASSUME NEW batch \in Manifests, RegisterBatch(batch) PROVE Keeps
  <2>1. CASE frozen \/ ~ValidBatch(registry, batch)
    BY <1>2, <1>5, <2>1 DEF RegisterBatch
  <2>2. CASE ~frozen /\ ValidBatch(registry, batch)
    <3> DEFINE new == Committed(registry, batch)
               h == Handled(new, "js")
    <3>1. registry' = Inserted(Keyed(new), registry) /\ handlers' = Inserted(h, handlers)
      BY <1>5, <2>2 DEF RegisterBatch
    <3>2. new \in Seq(Entries) /\ Apart(registry, new)
      BY <2>2, EntriesAre, CommittedIsApart
    <3> HIDE DEF new
    <3>3. Holds(registry', registry)
      BY <1>1, <3>1, <3>2, JoinIsSound
    <3>4. DOMAIN h = {new[i].action : i \in DOMAIN new}
      BY DEF Handled, Keyed
    <3>5. \A a \in DOMAIN handlers : a \notin DOMAIN h
      BY <1>1, <3>2, <3>4 DEF Apart, Handles
    <3> HIDE DEF h
    <3>6. \A a \in DOMAIN handlers : a \in DOMAIN handlers' /\ handlers'[a] = handlers[a]
      BY <3>1, <3>5 DEF Inserted
    <3> QED BY <3>3, <3>6 DEF Keeps, Holds
  <2> QED BY <2>1, <2>2
<1>6. CASE OpenWeb
  <2> DEFINE docs == WithDocs(registry)
             new == IF handlers = <<>> THEN WebEntries ELSE <<>>
  <2>1. CASE stage = "start"
    BY <1>3, <2>1
  <2>2. CASE stage # "start"
    <3>1. /\ registry' = Inserted(Keyed(new), docs)
          /\ handlers' = Inserted(Handled(new, "rust"), handlers) /\ host = "web"
      BY <1>6 DEF OpenWeb
    <3>2. new = <<>> /\ docs = registry
      BY <2>2, <3>1, StartedHolds
    <3> HIDE DEF new, docs
    <3>3. UNCHANGED <<registry, handlers>>
      BY <1>1, <3>1, <3>2, RegisterNothing
    <3> QED BY <1>2, <3>3
  <2> QED BY <2>1, <2>2
<1>7. CASE LoseContext
  <2>1. stage # "start" /\ registry' = WithDocs(registry) /\ UNCHANGED handlers
    BY <1>7 DEF LoseContext
  <2>2. UNCHANGED <<registry, handlers>>
    BY <2>1, StartedHolds
  <2> QED BY <1>2, <2>2
<1>8. CASE FreezeManifest \/ InjectBindings
  BY <1>2, <1>8 DEF FreezeManifest, InjectBindings
<1> QED BY <1>4, <1>5, <1>6, <1>7, <1>8 DEF RegistryNext, OpenSession, ResetSession

\* What is registered stays: no start, retry, reset, doc or manifest replaces an
\* API or who executes it, though the docs are registered again at each start
\* and a batch does not look for its actions before it commits.
THEOREM RegisteredStays == RegistrySpec => [][NewWorker \/ Keeps]_registryVars
<1>1. RegistryInv /\ [RegistryNext]_registryVars => [NewWorker \/ Keeps]_registryVars
  BY StepKeeps
<1> QED BY <1>1, RegistryInvariant, PTL DEF RegistrySpec
=============================================================================================================================================
