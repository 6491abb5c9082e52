----------------------------- MODULE RelayProofs -----------------------------
(* Proofs about module Relay, for any finite set of calls and any table size. *)
EXTENDS Relay, SequenceTheorems, FiniteSetTheorems, TLAPS

(***************************************************************************)
(* The queues of a relay never hold more than two messages.                *)
(***************************************************************************)

\* Appending to an empty or a one-element queue.
LEMMA AppendShort ==
  ASSUME NEW x, NEW y
  PROVE  Append(<<>>, x) = <<x>> /\ Append(<<x>>, y) = <<x, y>>
<1>1. Append(<<>>, x) = <<x>>
  <2> DEFINE s == Append(<<>>, x)  t == <<x>>
  <2>1. <<>> \in Seq({x}) /\ t \in Seq({x}) /\ Len(t) = 1 /\ t[1] = x
    OBVIOUS
  <2>2. s \in Seq({x}) /\ Len(s) = 1 /\ s[1] = x
    BY <2>1, AppendProperties
  <2> HIDE DEF s, t
  <2>3. \A i \in 1..Len(s) : s[i] = t[i]
    BY <2>1, <2>2
  <2> QED BY <2>1, <2>2, <2>3, SeqEqual DEF s, t
<1>2. Append(<<x>>, y) = <<x, y>>
  <2> DEFINE S == {x, y}  s == Append(<<x>>, y)  t == <<x, y>>
  <2>1. <<x>> \in Seq(S) /\ t \in Seq(S) /\ Len(t) = 2 /\ t[1] = x /\ t[2] = y
    OBVIOUS
  <2>2. s \in Seq(S) /\ Len(s) = 2 /\ s[1] = x /\ s[2] = y
    BY <2>1, AppendProperties
  <2> HIDE DEF s, t
  <2>3. \A i \in 1..Len(s) : s[i] = t[i]
    BY <2>1, <2>2
  <2> QED BY <2>1, <2>2, <2>3, SeqEqual DEF s, t
<1> QED BY <1>1, <1>2

\* Reading from a queue of one or two messages.
LEMMA ReadShort ==
  ASSUME NEW x, NEW y
  PROVE  /\ <<x>> # <<>> /\ <<x, y>> # <<>> /\ <<x, y>> # <<x>> /\ <<x, y>> # <<y>>
         /\ Head(<<x>>) = x /\ Head(<<x, y>>) = x
         /\ Tail(<<x>>) = <<>> /\ Tail(<<x, y>>) = <<y>>
OBVIOUS

\* Queues keep their type.
LEMMA QueueTypes ==
  ASSUME NEW S, NEW q \in [Calls -> Seq(S)], NEW c \in Calls
  PROVE  /\ \A m \in S : Send(q, c, m) \in [Calls -> Seq(S)]
         /\ q[c] # <<>> => Pop(q, c) \in [Calls -> Seq(S)]
<1>1. q[c] \in Seq(S)
  OBVIOUS
<1>2. \A m \in S : Append(q[c], m) \in Seq(S)
  BY <1>1, AppendProperties
<1>3. q[c] # <<>> => Tail(q[c]) \in Seq(S)
  BY <1>1, HeadTailProperties
<1> QED BY <1>2, <1>3 DEF Send, Pop

-----------------------------------------------------------------------------
\* The initial state satisfies the inductive invariant.
LEMMA RelayInvInit == Init => RelayInv
<1> SUFFICES ASSUME Init PROVE RelayInv
  OBVIOUS
<1> USE PageCallsAssumption, MaxPendingAssumption
<1>1. TypeOK
  BY DEF Init, TypeOK, CallStates, Stages, WorkStates, Phases
<1>2. TablesExact
  BY DEF Init, TablesExact, Executing, Active
<1>3. Bounded
  BY FS_EmptySet DEF Init, Bounded
<1>4. ASSUME NEW c \in Calls PROVE Consistent(c)
  BY DEF Init, Consistent
<1> QED BY <1>1, <1>2, <1>3, <1>4 DEF RelayInv

-----------------------------------------------------------------------------
\* Every step keeps the variables in their types.
LEMMA TypeStep == TypeOK /\ [Next]_vars => TypeOK'
<1> SUFFICES ASSUME TypeOK, [Next]_vars PROVE TypeOK'
  OBVIOUS
<1> USE DEF TypeOK, CallStates, Stages, WorkStates, Phases, workerVars, mainVars, pageVars
<1>1. ASSUME SettleAll PROVE TypeOK'
  <2>1. \A c \in Calls : Append(toMain[c], "relayCancel") \in Seq({"asyncRelay", "relayCancel"})
    BY AppendProperties
  <2> QED BY <1>1, <2>1 DEF SettleAll
<1>2. ASSUME NEW c \in Calls, WorkerStep(c) PROVE TypeOK'
  <2>1. CASE Invoke(c)
    <3>1. toMain' \in [Calls -> Seq({"asyncRelay", "relayCancel"})]
      BY <2>1, QueueTypes DEF Invoke
    <3> QED BY <2>1, <3>1 DEF Invoke
  <2>2. CASE Refuse(c)
    BY <2>2 DEF Refuse
  <2>3. CASE ReceiveResult(c)
    <3>1. toWorker' \in [Calls -> Seq(BOOLEAN)]
      BY <2>3, QueueTypes DEF ReceiveResult
    <3> QED BY <2>3, <3>1 DEF ReceiveResult, Settle
  <2>4. CASE Timeout(c)
    <3>1. toMain' \in [Calls -> Seq({"asyncRelay", "relayCancel"})]
      BY <2>4, QueueTypes DEF Timeout
    <3> QED BY <2>4, <3>1 DEF Timeout, Settle
  <2> QED BY <1>2, <2>1, <2>2, <2>3, <2>4 DEF WorkerStep
<1>3. ASSUME NEW c \in Calls, MainStep(c) PROVE TypeOK'
  <2>1. ASSUME NEW ok \in BOOLEAN, Finish(c, ok)
        PROVE  /\ stage' \in [Calls -> Stages] /\ inFlightRelays' \subseteq Calls
               /\ aborted' \subseteq Calls /\ phase' \in Phases
               /\ toWorker' \in [Calls -> Seq(BOOLEAN)]
    <3>1. Send(toWorker, c, ok) \in [Calls -> Seq(BOOLEAN)]
      BY QueueTypes
    <3>2. toWorker' = toWorker \/ toWorker' = Send(toWorker, c, ok)
      BY <2>1 DEF Finish
    <3>3. toWorker' \in [Calls -> Seq(BOOLEAN)]
      BY <3>1, <3>2
    <3> QED BY <2>1, <3>3 DEF Finish
  <2>2. CASE HandleRelay(c) \/ HandleBadRelay(c) \/ HandleCancel(c)
    <3>1. Pop(toMain, c) \in [Calls -> Seq({"asyncRelay", "relayCancel"})]
      BY <2>2, QueueTypes DEF HandleRelay, HandleBadRelay, HandleCancel, Next1
    <3>2. CASE HandleRelay(c)
      BY <3>1, <3>2 DEF HandleRelay
    <3>3. CASE HandleBadRelay(c)
      BY <3>1, <3>3, <2>1 DEF HandleBadRelay
    <3>4. CASE HandleCancel(c)
      <4>1. Send(toPage, c, "registryCallCancel")
              \in [Calls -> Seq({"registryCall", "registryCallCancel"})]
        BY QueueTypes
      <4>2. /\ toMain' = Pop(toMain, c)
            /\ aborted' = aborted \/ aborted' = aborted \cup {c}
            /\ toPage' = toPage \/ toPage' = Send(toPage, c, "registryCallCancel")
            /\ UNCHANGED <<workerVars, toWorker, stage, inFlightRelays, phase, pageVars>>
        BY <3>4 DEF HandleCancel
      <4> QED BY <3>1, <4>1, <4>2
    <3> QED BY <2>2, <3>2, <3>3, <3>4
  <2>3. ASSUME NEW ok \in BOOLEAN, MainReturn(c, ok) PROVE TypeOK'
    <3>1. work' = [work EXCEPT ![c] = "ok"] \/ work' = [work EXCEPT ![c] = "error"]
      BY <2>3 DEF MainReturn
    <3>2. work' \in [Calls -> WorkStates]
      BY <3>1
    <3>3. Finish(c, ok) /\ UNCHANGED <<workerVars, toMain, toPage, inFlightCalls>>
      BY <2>3 DEF MainReturn
    <3> QED BY <2>1, <3>2, <3>3
  <2>4. CASE MainTimeout(c)
    BY <2>1, <2>4 DEF MainTimeout
  <2>5. CASE OrphanReturn(c)
    BY <2>5 DEF OrphanReturn
  <2>6. CASE Locate(c)
    BY <2>1, <2>6 DEF Locate
  <2>7. CASE PingFails(c)
    BY <2>1, <2>7 DEF PingFails
  <2>8. CASE PingAnswered(c)
    <3>1. toPage' \in [Calls -> Seq({"registryCall", "registryCallCancel"})]
      BY <2>8, QueueTypes DEF PingAnswered
    <3> QED BY <2>8, <3>1 DEF PingAnswered
  <2>9. CASE ReceiveResponse(c)
    BY <2>1, <2>9 DEF ReceiveResponse
  <2> QED BY <1>3, <2>2, <2>3, <2>4, <2>5, <2>6, <2>7, <2>8, <2>9
          DEF MainStep
<1>4. ASSUME NEW c \in Calls, PageStep(c) PROVE TypeOK'
  <2>1. toPage[c] # <<>> =>
          Pop(toPage, c) \in [Calls -> Seq({"registryCall", "registryCallCancel"})]
    BY QueueTypes
  <2>2. CASE PageCall(c)
    BY <2>1, <2>2 DEF PageCall, Next1
  <2>3. CASE PageCancel(c)
    BY <2>1, <2>3 DEF PageCancel, Next1
  <2>4. CASE PageReturn(c)
    BY <2>4 DEF PageReturn
  <2>5. CASE PageGone(c)
    <3>1. toPage' \in [Calls -> Seq({"registryCall", "registryCallCancel"})]
      BY <2>5 DEF PageGone
    <3> QED BY <2>5, <3>1 DEF PageGone
  <2> QED BY <1>4, <2>2, <2>3, <2>4, <2>5 DEF PageStep
<1>5. CASE UNCHANGED vars
  BY <1>5 DEF vars
<1>6. ASSUME StopWith PROVE TypeOK'
  <2>1. \A c \in Calls : Append(toPage[c], "registryCallCancel")
                          \in Seq({"registryCall", "registryCallCancel"})
    BY AppendProperties
  <2> QED BY <1>6, <2>1 DEF StopWith
<1>7. ASSUME Terminate PROVE TypeOK'
  BY <1>7 DEF Terminate
<1> QED BY <1>1, <1>2, <1>3, <1>4, <1>5, <1>6, <1>7 DEF Next, SessionStep

\* The relay's variables keep their types (TypeOK), for any set of calls.
THEOREM TypeCorrect == SafeSpec => []TypeOK
<1>1. Init => TypeOK
  BY RelayInvInit DEF RelayInv
<1> QED BY <1>1, TypeStep, PTL DEF SafeSpec

-----------------------------------------------------------------------------
\* The tables.
LEMMA TablesStep == RelayInv /\ [Next]_vars => TablesExact'
<1> SUFFICES ASSUME RelayInv, [Next]_vars PROVE TablesExact'
  OBVIOUS
<1> USE DEF RelayInv, TypeOK, TablesExact, CallStates, Stages, WorkStates, Active,
            Executing, workerVars, mainVars, pageVars
<1>1. CASE SettleAll
  BY <1>1 DEF SettleAll
<1>2. ASSUME NEW c \in Calls, WorkerStep(c) PROVE TablesExact'
  <2>1. CASE Invoke(c)
    BY <2>1 DEF Invoke
  <2>2. CASE Refuse(c)
    BY <2>2 DEF Refuse
  <2>3. CASE ReceiveResult(c)
    BY <2>3 DEF ReceiveResult, Settle
  <2>4. CASE Timeout(c)
    BY <2>4 DEF Timeout, Settle
  <2> QED BY <1>2, <2>1, <2>2, <2>3, <2>4 DEF WorkerStep
<1>3. ASSUME NEW c \in Calls, MainStep(c) PROVE TablesExact'
  <2> DEFINE MainTable ==
               /\ inFlightRelays \subseteq Executing
               /\ Executing \ inFlightRelays
                    \subseteq (IF phase = "running" THEN {} ELSE aborted)
  <2>1. ASSUME NEW ok \in BOOLEAN, Finish(c, ok)
        PROVE  MainTable'
    BY <2>1 DEF Finish
  <2>2. Consistent(c)
    OBVIOUS
  <2>3. CASE HandleRelay(c)
    BY <2>2, <2>3 DEF HandleRelay, Consistent
  <2>4. CASE HandleBadRelay(c)
    BY <2>1, <2>4 DEF HandleBadRelay
  <2>5. CASE HandleCancel(c)
    BY <2>5 DEF HandleCancel
  <2>6. ASSUME NEW ok \in BOOLEAN, MainReturn(c, ok) PROVE TablesExact'
    BY <2>1, <2>2, <2>6 DEF MainReturn, Consistent
  <2>7. CASE MainTimeout(c)
    BY <2>1, <2>7 DEF MainTimeout
  <2>8. CASE OrphanReturn(c)
    BY <2>2, <2>8 DEF OrphanReturn, Consistent
  <2>9. CASE Locate(c)
    <3>1. MainTable'
      BY <2>1, <2>9 DEF Locate
    <3> QED BY <2>9, <3>1 DEF Locate
  <2>10. CASE PingFails(c)
    BY <2>1, <2>10 DEF PingFails
  <2>11. CASE PingAnswered(c)
    BY <2>11 DEF PingAnswered
  <2>12. CASE ReceiveResponse(c)
    BY <2>1, <2>12 DEF ReceiveResponse
  <2> QED BY <1>3, <2>3, <2>4, <2>5, <2>6, <2>7, <2>8, <2>9, <2>10, <2>11, <2>12
          DEF MainStep
<1>4. ASSUME NEW c \in Calls, PageStep(c) PROVE TablesExact'
  <2>1. Consistent(c)
    OBVIOUS
  <2>2. CASE PageCall(c)
    <3>1. c \in PageCalls
      BY <2>1, <2>2, ReadShort DEF PageCall, Next1, Consistent
    <3> QED BY <2>2, <3>1 DEF PageCall
  <2>3. CASE PageCancel(c)
    BY <2>3 DEF PageCancel
  <2>4. CASE PageReturn(c)
    BY <2>4 DEF PageReturn
  <2>5. CASE PageGone(c)
    BY <2>5 DEF PageGone
  <2> QED BY <1>4, <2>2, <2>3, <2>4, <2>5 DEF PageStep
<1>5. CASE UNCHANGED vars
  BY <1>5 DEF vars
<1>6. CASE StopWith
  BY <1>6 DEF StopWith
<1>7. CASE Terminate
  BY <1>7 DEF Terminate
<1> QED BY <1>1, <1>2, <1>3, <1>4, <1>5, <1>6, <1>7 DEF Next, SessionStep

\* The bound on the pending table: only Invoke adds an entry, below the limit.
LEMMA BoundedStep == TypeOK /\ Bounded /\ [Next]_vars => Bounded'
<1> SUFFICES ASSUME TypeOK, Bounded, [Next]_vars PROVE Bounded'
  OBVIOUS
<1> USE DEF Bounded, workerVars
<1>1. IsFiniteSet(pendingRelays) /\ Cardinality(pendingRelays) \in Nat
  BY CallsAssumption, FS_Subset, FS_CardinalityType DEF TypeOK
<1>2. ASSUME pendingRelays' \subseteq pendingRelays PROVE Bounded'
  <2>1. Cardinality(pendingRelays') <= Cardinality(pendingRelays)
        /\ Cardinality(pendingRelays') \in Nat
    BY <1>1, <1>2, FS_Subset, FS_CardinalityType
  <2> QED BY <1>1, <2>1, MaxPendingAssumption
<1>3. ASSUME NEW c \in Calls, Invoke(c) PROVE Bounded'
  <2>1. Cardinality(pendingRelays \cup {c}) \in {Cardinality(pendingRelays),
                                                Cardinality(pendingRelays) + 1}
    BY <1>1, FS_AddElement
  <2> QED BY <1>1, <1>3, <2>1, MaxPendingAssumption DEF Invoke
<1>4. ASSUME NEW c \in Calls, WorkerStep(c), ~Invoke(c)
      PROVE  pendingRelays' \subseteq pendingRelays
  BY <1>4 DEF WorkerStep, Refuse, ReceiveResult, Timeout, Settle
<1>5. ASSUME NEW c \in Calls, MainStep(c) PROVE pendingRelays' = pendingRelays
  BY <1>5 DEF MainStep, HandleRelay, HandleBadRelay, HandleCancel, MainReturn,
              MainTimeout, OrphanReturn, Locate, PingFails, PingAnswered,
              ReceiveResponse
<1>6. ASSUME NEW c \in Calls, PageStep(c) PROVE pendingRelays' = pendingRelays
  BY <1>6 DEF PageStep, PageCall, PageCancel, PageReturn, PageGone
<1>7. ASSUME SessionStep PROVE pendingRelays' \subseteq pendingRelays
  BY <1>7 DEF SessionStep, SettleAll, StopWith, Terminate
<1>8. CASE UNCHANGED vars
  BY <1>2, <1>8 DEF vars
<1> QED BY <1>2, <1>3, <1>4, <1>5, <1>6, <1>7, <1>8 DEF Next

-----------------------------------------------------------------------------
\* The queues a relay can have, what sending to them and reading from them gives.
LEMMA MainQueue ==
  /\ Append(<<>>, "asyncRelay") = <<"asyncRelay">>
  /\ Append(<<>>, "relayCancel") = <<"relayCancel">>
  /\ Append(<<"asyncRelay">>, "relayCancel") = <<"asyncRelay", "relayCancel">>
  /\ Head(<<"asyncRelay">>) = "asyncRelay" /\ Head(<<"relayCancel">>) = "relayCancel"
  /\ Head(<<"asyncRelay", "relayCancel">>) = "asyncRelay"
  /\ Tail(<<"asyncRelay">>) = <<>> /\ Tail(<<"relayCancel">>) = <<>>
  /\ Tail(<<"asyncRelay", "relayCancel">>) = <<"relayCancel">>
  /\ <<"asyncRelay">> # <<>> /\ <<"relayCancel">> # <<>>
  /\ <<"asyncRelay", "relayCancel">> \notin {<<>>, <<"asyncRelay">>, <<"relayCancel">>}
  /\ <<"asyncRelay">> # <<"relayCancel">>
<1>1. "asyncRelay" # "relayCancel"
  OBVIOUS
<1> QED BY <1>1, AppendShort, ReadShort

\* The queue to a page, in each of its four contents.
LEMMA PageQueue ==
  /\ Append(<<>>, "registryCall") = <<"registryCall">>
  /\ Append(<<>>, "registryCallCancel") = <<"registryCallCancel">>
  /\ Append(<<"registryCall">>, "registryCallCancel")
       = <<"registryCall", "registryCallCancel">>
  /\ Head(<<"registryCall">>) = "registryCall"
  /\ Head(<<"registryCallCancel">>) = "registryCallCancel"
  /\ Head(<<"registryCall", "registryCallCancel">>) = "registryCall"
  /\ Tail(<<"registryCall">>) = <<>> /\ Tail(<<"registryCallCancel">>) = <<>>
  /\ Tail(<<"registryCall", "registryCallCancel">>) = <<"registryCallCancel">>
  /\ <<"registryCall">> # <<>> /\ <<"registryCallCancel">> # <<>>
  /\ <<"registryCall", "registryCallCancel">>
       \notin {<<>>, <<"registryCall">>, <<"registryCallCancel">>}
  /\ <<"registryCall">> # <<"registryCallCancel">>
<1>1. "registryCall" # "registryCallCancel"
  OBVIOUS
<1> QED BY <1>1, AppendShort, ReadShort

\* The queue of answers to the worker.
LEMMA AnswerQueue ==
  /\ Append(<<>>, TRUE) = <<TRUE>> /\ Append(<<>>, FALSE) = <<FALSE>>
  /\ Head(<<TRUE>>) /\ ~Head(<<FALSE>>)
  /\ Tail(<<TRUE>>) = <<>> /\ Tail(<<FALSE>>) = <<>>
  /\ <<TRUE>> # <<>> /\ <<FALSE>> # <<>> /\ <<TRUE>> # <<FALSE>>
<1>1. Append(<<>>, TRUE) = <<TRUE>> /\ Append(<<>>, FALSE) = <<FALSE>>
  BY AppendShort
<1>2. Head(<<TRUE>>) = TRUE /\ Head(<<FALSE>>) = FALSE
  BY ReadShort
<1>3. <<TRUE>> # <<FALSE>>
  BY <1>2
<1> QED BY <1>1, <1>2, <1>3, ReadShort

-----------------------------------------------------------------------------
\* A step that leaves a relay's variables alone leaves it consistent.
LEMMA Frame ==
  ASSUME NEW d \in Calls, Consistent(d),
         toMain'[d] = toMain[d], toPage'[d] = toPage[d], toWorker'[d] = toWorker[d],
         call'[d] = call[d], stage'[d] = stage[d], work'[d] = work[d],
         d \in aborted' <=> d \in aborted, phase' = phase,
         d \in inFlightRelays' <=> d \in inFlightRelays
  PROVE  Consistent(d)'
BY DEF Consistent

\* The worker's steps keep every relay consistent.
LEMMA WorkerConsistent ==
  ASSUME RelayInv, NEW c \in Calls, WorkerStep(c), NEW d \in Calls
  PROVE  Consistent(d)'
<1> USE DEF RelayInv, TypeOK, workerVars, mainVars, pageVars
<1>1. Consistent(d)
  OBVIOUS
<1>2. CASE d # c
  <2>1. /\ toMain'[d] = toMain[d] /\ toPage'[d] = toPage[d] /\ toWorker'[d] = toWorker[d]
        /\ call'[d] = call[d] /\ stage'[d] = stage[d] /\ work'[d] = work[d]
        /\ aborted' = aborted /\ phase' = phase /\ inFlightRelays' = inFlightRelays
    BY <1>2 DEF WorkerStep, Invoke, Refuse, ReceiveResult, Timeout, Settle, Send, Pop
  <2> QED BY <1>1, <2>1, Frame
<1>3. CASE d = c
  <2> USE <1>3, MainQueue
  <2>1. CASE Invoke(c)
    BY <1>1, <2>1 DEF Invoke, Send, Consistent
  <2>2. CASE Refuse(c)
    BY <1>1, <2>2 DEF Refuse, Consistent
  <2>3. CASE ReceiveResult(c)
    <3>1. toWorker[c] \in {<<TRUE>>, <<FALSE>>} /\ toWorker'[c] = <<>>
      BY <1>1, <2>3, AnswerQueue DEF ReceiveResult, Pop, Consistent
    <3>2. CASE c \in pendingRelays
      <4>1. call[c] = "pending"
        BY <3>2 DEF TablesExact
      <4>2. call'[c] \in {"ok", "failed"} /\ (call'[c] = "ok" => toWorker[c] = <<TRUE>>)
        BY <2>3, <3>1, <3>2, AnswerQueue DEF ReceiveResult, Settle
      <4>3. work[c] = "ok" \/ call'[c] = "failed"
        BY <1>1, <4>2 DEF Consistent
      <4> QED BY <1>1, <2>3, <3>1, <4>1, <4>2, <4>3, AnswerQueue
              DEF ReceiveResult, Consistent
    <3>3. CASE c \notin pendingRelays
      BY <1>1, <2>3, <3>1, <3>3, AnswerQueue DEF ReceiveResult, Consistent
    <3> QED BY <3>2, <3>3
  <2>4. CASE Timeout(c)
    <3>1. call[c] = "pending"
      BY <2>4 DEF Timeout, TablesExact
    <3> QED BY <1>1, <2>4, <3>1 DEF Timeout, Settle, Send, Consistent
  <2> QED BY <2>1, <2>2, <2>3, <2>4 DEF WorkerStep
<1> QED BY <1>2, <1>3

\* Settling every relay at once keeps every relay consistent.
LEMMA SettleAllConsistent ==
  ASSUME RelayInv, SettleAll, NEW d \in Calls
  PROVE  Consistent(d)'
<1> USE DEF RelayInv, TypeOK, mainVars, pageVars, SettleAll
<1>1. Consistent(d)
  OBVIOUS
<1>2. CASE d \in pendingRelays
  <2>1. call[d] = "pending"
    BY <1>2 DEF TablesExact
  <2> QED BY <1>1, <1>2, <2>1, MainQueue DEF Consistent
<1>3. CASE d \notin pendingRelays
  BY <1>1, <1>3, Frame
<1> QED BY <1>2, <1>3

\* What a stop aborts is sent its cancel once, and after its command.
LEMMA StopConsistent ==
  ASSUME RelayInv, StopWith, NEW d \in Calls
  PROVE  Consistent(d)'
<1> USE DEF workerVars, pageVars
<1>1. Consistent(d) /\ TypeOK
  BY DEF RelayInv
<1>2. /\ phase = "running" /\ phase' = "stopping" /\ d \notin inFlightRelays'
      /\ toMain'[d] = toMain[d] /\ toWorker'[d] = toWorker[d] /\ call'[d] = call[d]
      /\ stage'[d] = stage[d] /\ work'[d] = work[d]
  BY DEF StopWith
<1>3. d \in inFlightRelays => stage[d] \in Active
  BY DEF RelayInv, TablesExact, Executing
<1>4. CASE d \in inFlightRelays \ aborted /\ stage[d] = "inPage"
  <2>1. toPage'[d] = Append(toPage[d], "registryCallCancel") /\ d \in aborted'
    BY <1>4 DEF StopWith
  <2>2. toPage[d] \in {<<>>, <<"registryCall">>}
    BY <1>1, <1>4 DEF Consistent
  <2> QED BY ZenonT(60), <1>1, <1>2, <1>4, <2>1, <2>2, PageQueue DEF Consistent
<1>5. CASE ~(d \in inFlightRelays \ aborted /\ stage[d] = "inPage")
  <2>1. /\ toPage'[d] = toPage[d]
        /\ d \in aborted' <=> d \in aborted \/ d \in inFlightRelays
    BY <1>5 DEF StopWith
  <2>2. d \in aborted' => stage[d] # "none"
    BY <1>1, <1>3, <2>1 DEF Consistent, Active
  <2> QED BY <1>1, <1>2, <1>5, <2>1, <2>2 DEF Consistent
<1> QED BY <1>4, <1>5

\* The end of the worker leaves no promise pending and no message under way.
LEMMA TerminateConsistent ==
  ASSUME RelayInv, Terminate, NEW d \in Calls
  PROVE  Consistent(d)'
<1> USE DEF pageVars
<1>1. Consistent(d) /\ TypeOK
  BY DEF RelayInv
<1>2. /\ toMain'[d] = <<>> /\ toWorker'[d] = <<>> /\ toPage'[d] = toPage[d]
      /\ stage'[d] = stage[d] /\ work'[d] = work[d]
      /\ aborted' = aborted
  BY DEF Terminate
<1>3. /\ call'[d] # "pending" /\ (call'[d] = "ok" => call[d] = "ok")
      /\ (call'[d] = "idle" => call[d] = "idle")
  <2>1. d \in pendingRelays <=> call[d] = "pending"
    BY DEF RelayInv, TablesExact
  <2> QED BY <1>1, <2>1 DEF Terminate, TypeOK
<1> QED BY <1>1, <1>2, <1>3, MainQueue, AnswerQueue DEF Consistent

\* The content script's steps keep every relay consistent.
LEMMA PageConsistent ==
  ASSUME RelayInv, NEW c \in Calls, PageStep(c), NEW d \in Calls
  PROVE  Consistent(d)'
<1> USE DEF RelayInv, TypeOK, workerVars, mainVars
<1>1. Consistent(d)
  OBVIOUS
<1>2. CASE d # c
  <2>1. /\ toMain'[d] = toMain[d] /\ toPage'[d] = toPage[d] /\ toWorker'[d] = toWorker[d]
        /\ call'[d] = call[d] /\ stage'[d] = stage[d] /\ work'[d] = work[d]
        /\ aborted' = aborted /\ phase' = phase /\ inFlightRelays' = inFlightRelays
    BY <1>2 DEF PageStep, PageCall, PageCancel, PageReturn, PageGone, Pop
  <2> QED BY <1>1, <2>1, Frame
<1>3. CASE d = c
  <2> USE <1>3, PageQueue
  <2>1. CASE PageCall(c)
    BY <1>1, <2>1 DEF PageCall, Next1, Pop, Consistent
  <2>2. CASE PageCancel(c)
    BY <1>1, <2>2 DEF PageCancel, Next1, Pop, Consistent
  <2>3. CASE PageReturn(c)
    BY <1>1, <2>3 DEF PageReturn, Consistent
  <2>4. CASE PageGone(c)
    BY <1>1, <2>4 DEF PageGone, Consistent
  <2> QED BY <2>1, <2>2, <2>3, <2>4 DEF PageStep
<1> QED BY <1>2, <1>3

\* The answers under way to the worker for one relay.
AnswerQueues == {<<>>, <<TRUE>>, <<FALSE>>}
AnswersWith(q, ok) == q \in AnswerQueues /\ (q = <<TRUE>> => ok)

\* What the end of an execution does to its own relay, and to the others.
LEMMA FinishEffect ==
  ASSUME TypeOK, NEW c \in Calls, NEW ok \in BOOLEAN, Finish(c, ok)
  PROVE  /\ stage'[c] = "finished" /\ aborted' = aborted /\ phase' = phase
         /\ c \notin inFlightRelays'
         /\ \A d \in Calls \ {c} : /\ stage'[d] = stage[d] /\ toWorker'[d] = toWorker[d]
                                   /\ d \in inFlightRelays' <=> d \in inFlightRelays
<1>1. toWorker' = toWorker \/ toWorker' = [toWorker EXCEPT ![c] = Append(@, ok)]
  BY DEF Finish, Send
<1>2. \A d \in Calls \ {c} : toWorker'[d] = toWorker[d]
  BY <1>1 DEF TypeOK
<1> QED BY <1>2 DEF Finish, TypeOK

\* A handler of the main thread that ends puts its answer into an empty queue.
LEMMA FinishAnswers ==
  ASSUME TypeOK, NEW c \in Calls, NEW ok \in BOOLEAN, Finish(c, ok), toWorker[c] = <<>>
  PROVE  AnswersWith(toWorker'[c], ok)
<1>1. toWorker' = toWorker \/ toWorker' = [toWorker EXCEPT ![c] = Append(@, ok)]
  BY DEF Finish, Send
<1>2. CASE ok
  <2>1. toWorker'[c] \in {<<>>, Append(<<>>, TRUE)}
    BY <1>1, <1>2 DEF TypeOK
  <2> QED BY <1>2, <2>1, AnswerQueue DEF AnswersWith, AnswerQueues
<1>3. CASE ~ok
  <2>1. toWorker'[c] \in {<<>>, Append(<<>>, FALSE)}
    BY <1>1, <1>3 DEF TypeOK
  <2> QED BY <2>1, AnswerQueue DEF AnswersWith, AnswerQueues
<1> QED BY <1>2, <1>3

\* The main thread's steps keep every relay consistent.
LEMMA MainConsistent ==
  ASSUME RelayInv, NEW c \in Calls, MainStep(c), NEW d \in Calls
  PROVE  Consistent(d)'
<1> USE DEF RelayInv, workerVars, mainVars, pageVars
<1>1. Consistent(c) /\ Consistent(d) /\ TypeOK
  OBVIOUS
<1>2. stage[c] # "finished" => toWorker[c] = <<>>
  BY <1>1 DEF Consistent
<1>3. ASSUME NEW ok \in BOOLEAN, Finish(c, ok)
      PROVE  /\ stage'[c] = "finished" /\ aborted' = aborted /\ phase' = phase
             /\ c \notin inFlightRelays'
             /\ d # c => /\ stage'[d] = stage[d]
                        /\ toWorker'[d] = toWorker[d]
                        /\ (d \in inFlightRelays' <=> d \in inFlightRelays)
             /\ toWorker[c] = <<>> => AnswersWith(toWorker'[c], ok)
  <2>1. toWorker[c] = <<>> => AnswersWith(toWorker'[c], ok)
    BY <1>1, <1>3, FinishAnswers
  <2> QED BY <1>1, <1>3, <2>1, FinishEffect
<1>4. CASE HandleRelay(c)
  <2>1. CASE d # c
    BY <1>1, <1>4, <2>1, Frame DEF HandleRelay, Pop, TypeOK
  <2>2. CASE d = c
    BY <1>1, <1>4, <2>2, MainQueue, AnswerQueue DEF HandleRelay, Next1, Pop, TypeOK, Consistent
  <2> QED BY <2>1, <2>2
<1>5. CASE HandleBadRelay(c)
  <2>1. CASE d # c
    <3>1. Finish(c, FALSE)
      BY <1>5 DEF HandleBadRelay
    <3>2. /\ stage'[d] = stage[d] /\ toWorker'[d] = toWorker[d] /\ aborted' = aborted
          /\ phase' = phase /\ (d \in inFlightRelays' <=> d \in inFlightRelays)
      BY Zenon, <1>3, <2>1, <3>1
    <3>3. toMain'[d] = toMain[d] /\ UNCHANGED <<call, toPage, work>>
      BY <1>1, <1>5, <2>1 DEF HandleBadRelay, Pop, TypeOK
    <3> QED BY <1>1, <3>2, <3>3, Frame
  <2>2. CASE d = c
    <3>1. stage[c] = "none" /\ toWorker[c] = <<>>
      BY <1>1, <1>5, MainQueue DEF HandleBadRelay, Next1, Consistent
    <3>2. /\ toWorker'[c] \in {<<>>, <<FALSE>>} /\ stage'[c] = "finished"
          /\ aborted' = aborted /\ phase' = phase /\ c \notin inFlightRelays'
      <4>1. Finish(c, FALSE)
        BY <1>5 DEF HandleBadRelay
      <4>2. /\ stage'[c] = "finished" /\ aborted' = aborted /\ phase' = phase
            /\ c \notin inFlightRelays'
        BY <1>3, <4>1
      <4>3. AnswersWith(toWorker'[c], FALSE)
        BY <1>3, <3>1, <4>1
      <4> QED BY <4>2, <4>3 DEF AnswersWith, AnswerQueues
    <3> QED BY ZenonT(30), <1>1, <1>5, <2>2, <3>1, <3>2, MainQueue, AnswerQueue, PageQueue
            DEF HandleBadRelay, Next1, Pop, TypeOK, Consistent
  <2> QED BY <2>1, <2>2
<1>6. CASE HandleCancel(c)
  <2>1. CASE d # c
    BY <1>1, <1>6, <2>1, Frame DEF HandleCancel, Pop, Send, TypeOK
  <2>2. CASE d = c
    <3>1. toMain[c] = <<"relayCancel">> /\ toMain'[c] = <<>>
      BY <1>1, <1>6, MainQueue DEF HandleCancel, Next1, Pop, TypeOK, Consistent
    <3>2. /\ call[c] \notin {"idle", "pending"} /\ stage[c] # "none"
          /\ c \notin aborted \cap inFlightRelays
      BY <1>1, <3>1, MainQueue DEF Consistent
    <3>3. c \in inFlightRelays => toPage[c] \in {<<>>, <<"registryCall">>}
      BY <1>1, <3>2 DEF Consistent
    <3>4. CASE c \in inFlightRelays /\ stage[c] = "inPage"
      <4>1. toPage'[c] = Append(toPage[c], "registryCallCancel") /\ aborted' = aborted \cup {c}
        BY <1>6, <3>4 DEF HandleCancel, Send, TypeOK
      <4> QED BY ZenonT(30), <1>1, <1>6, <2>2, <3>1, <3>2, <3>3, <3>4, <4>1, MainQueue, PageQueue
              DEF HandleCancel, Consistent
    <3>5. CASE ~(c \in inFlightRelays /\ stage[c] = "inPage")
      BY <1>1, <1>6, <2>2, <3>1, <3>2, <3>3, <3>5, MainQueue, PageQueue
         DEF HandleCancel, Consistent
    <3> QED BY <3>4, <3>5
  <2> QED BY <2>1, <2>2
<1>7. ASSUME NEW ok \in BOOLEAN, MainReturn(c, ok) PROVE Consistent(d)'
  <2>1. Finish(c, ok) /\ stage[c] = "running" /\ UNCHANGED <<call, toMain, toPage>>
        /\ work' \in {[work EXCEPT ![c] = "ok"], [work EXCEPT ![c] = "error"]}
        /\ (ok => work' = [work EXCEPT ![c] = "ok"])
    BY <1>7 DEF MainReturn
  <2>2. CASE d # c
    <3>1. work'[d] = work[d]
      BY <1>1, <2>1, <2>2 DEF TypeOK
    <3>2. /\ stage'[d] = stage[d] /\ toWorker'[d] = toWorker[d] /\ aborted' = aborted
          /\ phase' = phase /\ (d \in inFlightRelays' <=> d \in inFlightRelays)
      BY Zenon, <1>3, <2>1, <2>2
    <3> QED BY <1>1, <2>1, <3>1, <3>2, Frame
  <2>3. CASE d = c
    <3>1. /\ stage'[c] = "finished" /\ aborted' = aborted /\ phase' = phase
          /\ c \notin inFlightRelays'
          /\ toWorker'[c] \in {<<>>, <<TRUE>>, <<FALSE>>}
          /\ toWorker'[c] = <<TRUE>> => ok
      <4>1. toWorker[c] = <<>>
        BY <1>2, <2>1
      <4>2. /\ stage'[c] = "finished" /\ aborted' = aborted /\ phase' = phase
            /\ c \notin inFlightRelays'
        BY <1>3, <2>1
      <4>3. AnswersWith(toWorker'[c], ok)
        BY <1>3, <2>1, <4>1
      <4> QED BY <4>2, <4>3 DEF AnswersWith, AnswerQueues
    <3>2. work'[c] \in {"ok", "error"} /\ (toWorker'[c] = <<TRUE>> => work'[c] = "ok")
      BY <2>1, <3>1 DEF TypeOK
    <3> QED BY <1>1, <2>1, <2>3, <3>1, <3>2, MainQueue, PageQueue DEF Consistent
  <2> QED BY <2>2, <2>3
<1>8. CASE MainTimeout(c) \/ PingFails(c) \/ (Locate(c) /\ Finish(c, FALSE))
  <2>1. /\ stage[c] \in {"running", "pinging", "locating"} /\ Finish(c, FALSE)
        /\ UNCHANGED <<call, toMain, toPage, work>>
    BY <1>8 DEF MainTimeout, PingFails, Locate
  <2>2. CASE d # c
    <3>1. /\ stage'[d] = stage[d] /\ toWorker'[d] = toWorker[d] /\ aborted' = aborted
          /\ phase' = phase /\ (d \in inFlightRelays' <=> d \in inFlightRelays)
      BY Zenon, <1>3, <2>1, <2>2
    <3> QED BY <1>1, <2>1, <3>1, Frame
  <2>3. CASE d = c
    <3>1. /\ stage'[c] = "finished" /\ aborted' = aborted /\ phase' = phase
          /\ c \notin inFlightRelays'
          /\ toWorker'[c] \in {<<>>, <<FALSE>>}
      <4>1. toWorker[c] = <<>>
        BY <1>2, <2>1
      <4>2. /\ stage'[c] = "finished" /\ aborted' = aborted /\ phase' = phase
            /\ c \notin inFlightRelays'
        BY <1>3, <2>1
      <4>3. AnswersWith(toWorker'[c], FALSE)
        BY <1>3, <2>1, <4>1
      <4> QED BY <4>2, <4>3 DEF AnswersWith, AnswerQueues
    <3> QED BY ZenonT(30), <1>1, <2>1, <2>3, <3>1, MainQueue, PageQueue, AnswerQueue DEF Consistent
  <2> QED BY <2>2, <2>3
<1>9. CASE OrphanReturn(c)
  <2>1. CASE d # c
    BY <1>1, <1>9, <2>1, Frame DEF OrphanReturn, TypeOK
  <2>2. CASE d = c
    BY <1>1, <1>9, <2>2, PageQueue, AnswerQueue DEF OrphanReturn, TypeOK, Consistent
  <2> QED BY <2>1, <2>2
<1>10. CASE Locate(c) /\ ~Finish(c, FALSE)
  <2>1. CASE d # c
    BY <1>1, <1>10, <2>1, Frame DEF Locate, TypeOK
  <2>2. CASE d = c
    BY <1>1, <1>10, <2>2, MainQueue, PageQueue DEF Locate, TypeOK, Consistent
  <2> QED BY <2>1, <2>2
<1>11. CASE PingAnswered(c)
  <2>1. CASE d # c
    BY <1>1, <1>11, <2>1, Frame DEF PingAnswered, Send, TypeOK
  <2>2. CASE d = c
    BY <1>1, <1>11, <2>2, MainQueue, PageQueue DEF PingAnswered, Send, TypeOK, Consistent
  <2> QED BY <2>1, <2>2
<1>12. CASE ReceiveResponse(c)
  <2>1. /\ stage[c] = "inPage" /\ work[c] \in {"ok", "error"} /\ Finish(c, work[c] = "ok")
        /\ UNCHANGED <<call, toMain, toPage, work>>
    BY <1>12 DEF ReceiveResponse
  <2>2. CASE d # c
    <3>1. /\ stage'[d] = stage[d] /\ toWorker'[d] = toWorker[d] /\ aborted' = aborted
          /\ phase' = phase /\ (d \in inFlightRelays' <=> d \in inFlightRelays)
      BY Zenon, <1>3, <2>1, <2>2
    <3> QED BY <1>1, <2>1, <3>1, Frame
  <2>3. CASE d = c
    <3>1. /\ stage'[c] = "finished" /\ aborted' = aborted /\ phase' = phase
          /\ c \notin inFlightRelays'
          /\ toWorker'[c] \in {<<>>, <<TRUE>>, <<FALSE>>}
          /\ toWorker'[c] = <<TRUE>> => work[c] = "ok"
      <4>1. toWorker[c] = <<>>
        BY <1>2, <2>1
      <4>2. /\ stage'[c] = "finished" /\ aborted' = aborted /\ phase' = phase
            /\ c \notin inFlightRelays'
        BY <1>3, <2>1
      <4>3. AnswersWith(toWorker'[c], work[c] = "ok")
        BY <1>3, <2>1, <4>1
      <4> QED BY <4>2, <4>3 DEF AnswersWith, AnswerQueues
    <3> QED BY <1>1, <2>1, <2>3, <3>1, MainQueue, PageQueue DEF Consistent
  <2> QED BY <2>2, <2>3
<1> QED BY <1>4, <1>5, <1>6, <1>7, <1>8, <1>9, <1>10, <1>11, <1>12 DEF MainStep

-----------------------------------------------------------------------------
(***************************************************************************)
(* The invariants.                                                         *)
(***************************************************************************)

\* RelayInv is inductive.
LEMMA RelayInvStep == RelayInv /\ [Next]_vars => RelayInv'
<1> SUFFICES ASSUME RelayInv, [Next]_vars PROVE RelayInv'
  OBVIOUS
<1>1. TypeOK /\ Bounded
  BY DEF RelayInv
<1>2. TypeOK' /\ TablesExact' /\ Bounded'
  BY <1>1, TypeStep, TablesStep, BoundedStep
<1>3. ASSUME NEW d \in Calls PROVE Consistent(d)'
  <2>1. CASE SettleAll
    BY <2>1, SettleAllConsistent
  <2>2. ASSUME NEW c \in Calls, WorkerStep(c) PROVE Consistent(d)'
    BY <2>2, WorkerConsistent
  <2>3. ASSUME NEW c \in Calls, MainStep(c) PROVE Consistent(d)'
    BY <2>3, MainConsistent
  <2>4. ASSUME NEW c \in Calls, PageStep(c) PROVE Consistent(d)'
    BY <2>4, PageConsistent
  <2>5. CASE UNCHANGED vars
    <3>1. Consistent(d)
      BY DEF RelayInv
    <3> QED BY <2>5, <3>1, Frame DEF vars
  <2>6. CASE StopWith
    BY <2>6, StopConsistent
  <2>7. CASE Terminate
    BY <2>7, TerminateConsistent
  <2> QED BY <2>1, <2>2, <2>3, <2>4, <2>5, <2>6, <2>7 DEF Next, SessionStep
<1> QED BY <1>2, <1>3 DEF RelayInv

\* The inductive invariant holds, for any finite set of calls and any limit.
THEOREM RelayInvariant == SafeSpec => []RelayInv
BY RelayInvInit, RelayInvStep, PTL DEF SafeSpec

\* The three tables hold exactly what is under way (TablesExact).
THEOREM TablesStayExact == SafeSpec => []TablesExact
<1>1. RelayInv => TablesExact
  BY DEF RelayInv
<1> QED BY <1>1, RelayInvariant, PTL

\* The pending table never outgrows MAX_PENDING_RELAYS (Bounded).
THEOREM TableBounded == SafeSpec => []Bounded
<1>1. RelayInv => Bounded
  BY DEF RelayInv
<1> QED BY <1>1, RelayInvariant, PTL

\* A queue of answers with a TRUE in it is <<TRUE>>, and none is longer than one.
LEMMA AnswerRead ==
  ASSUME NEW q \in AnswerQueues
  PROVE  /\ q # <<>> => Len(q) = 1
         /\ \A i \in 1..Len(q) : q[i] => q = <<TRUE>>
<1>1. CASE q = <<>>
  BY <1>1
<1>2. CASE q = <<TRUE>>
  BY <1>2
<1>3. CASE q = <<FALSE>>
  <2>1. Len(q) = 1 /\ q[1] = FALSE
    BY <1>3
  <2>2. ASSUME NEW i \in 1..Len(q) PROVE ~q[i]
    <3>1. i = 1
      BY <2>1
    <3> QED BY <2>1, <3>1, Zenon
  <2> QED BY <2>1, <2>2
<1> QED BY <1>1, <1>2, <1>3 DEF AnswerQueues

\* Success is never invented (NoPhantomSuccess): not by a late answer, an abort,
\* a lost page or a main-thread timeout.
THEOREM SuccessIsReal == SafeSpec => []NoPhantomSuccess
<1>1. RelayInv => NoPhantomSuccess
  <2> SUFFICES ASSUME RelayInv, NEW c \in Calls,
                      call[c] = "ok" \/ (\E i \in 1..Len(toWorker[c]) : toWorker[c][i])
               PROVE  work[c] = "ok"
    BY DEF NoPhantomSuccess
  <2>1. Consistent(c)
    BY DEF RelayInv
  <2>2. toWorker[c] \in AnswerQueues
    BY <2>1 DEF Consistent, AnswerQueues
  <2>3. call[c] = "ok" \/ toWorker[c] = <<TRUE>>
    BY <2>2, AnswerRead
  <2> QED BY <2>1, <2>3 DEF Consistent
<1> QED BY <1>1, RelayInvariant, PTL

\* One relay is answered at most once, after its execution ended (AnsweredOnce).
THEOREM OneAnswer == SafeSpec => []AnsweredOnce
<1>1. RelayInv => AnsweredOnce
  <2> SUFFICES ASSUME RelayInv, NEW c \in Calls, toWorker[c] # <<>>
               PROVE  Len(toWorker[c]) = 1 /\ stage[c] = "finished"
    BY DEF AnsweredOnce
  <2>1. Consistent(c)
    BY DEF RelayInv
  <2>2. toWorker[c] \in AnswerQueues
    BY <2>1 DEF Consistent, AnswerQueues
  <2> QED BY <2>1, <2>2, AnswerRead DEF Consistent
<1> QED BY <1>1, RelayInvariant, PTL

\* While the session runs the main thread drops only answers nobody awaits, and
\* once it has stopped nobody awaits any (DroppedReplyUnawaited).
THEOREM DroppedIsUnawaited == SafeSpec => []DroppedReplyUnawaited
<1>1. RelayInv => DroppedReplyUnawaited
  <2> SUFFICES ASSUME RelayInv, NEW c \in Calls
               PROVE  /\ (\E i \in 1..Len(toMain[c]) : toMain[c][i] = "relayCancel")
                           => call[c] \notin {"idle", "pending"}
                      /\ c \in aborted
                           => call[c] \notin {"idle", "pending"} \/ phase = "stopping"
    BY DEF DroppedReplyUnawaited
  <2>1. Consistent(c)
    BY DEF RelayInv
  <2>2. ASSUME \E i \in 1..Len(toMain[c]) : toMain[c][i] = "relayCancel"
        PROVE  toMain[c] \in {<<"asyncRelay", "relayCancel">>, <<"relayCancel">>}
    <3>1. CASE toMain[c] = <<>>
      BY <2>2, <3>1
    <3>2. CASE toMain[c] = <<"asyncRelay">>
      BY <2>2, <3>2
    <3> QED BY <2>1, <3>1, <3>2 DEF Consistent
  <2>3. c \in aborted => call[c] \notin {"idle", "pending"} \/ phase = "stopping"
    BY <2>1 DEF Consistent
  <2>4. (\E i \in 1..Len(toMain[c]) : toMain[c][i] = "relayCancel")
          => call[c] \notin {"idle", "pending"}
    BY <2>1, <2>2 DEF Consistent
  <2> QED BY <2>3, <2>4
<1> QED BY <1>1, RelayInvariant, PTL

\* A cancel never overtakes what it cancels (CancelAfterRelay).
THEOREM CancelsFollow == SafeSpec => []CancelAfterRelay
<1>1. RelayInv => CancelAfterRelay
  <2> SUFFICES ASSUME RelayInv, NEW c \in Calls
               PROVE  /\ Next1(toMain, c, "relayCancel") => stage[c] # "none"
                      /\ Next1(toPage, c, "registryCallCancel") => work[c] # "none"
    BY DEF CancelAfterRelay
  <2>1. Consistent(c)
    BY DEF RelayInv
  <2>2. Next1(toMain, c, "relayCancel") => toMain[c] = <<"relayCancel">>
    BY <2>1, MainQueue DEF Next1, Consistent
  <2>3. Next1(toPage, c, "registryCallCancel") => toPage[c] = <<"registryCallCancel">>
    BY <2>1, PageQueue DEF Next1, Consistent
  <2> QED BY <2>1, <2>2, <2>3 DEF Consistent
<1> QED BY <1>1, RelayInvariant, PTL

\* Cancelling a relay loses no answer and comes in its order (CancelsAreSafe).
THEOREM CancelsStaySafe == SafeSpec => []CancelsAreSafe
<1>1. DroppedReplyUnawaited /\ CancelAfterRelay => CancelsAreSafe
  BY DEF CancelsAreSafe
<1> QED BY <1>1, DroppedIsUnawaited, CancelsFollow, PTL

-----------------------------------------------------------------------------
(***************************************************************************)
(* The refinement.                                                         *)
(***************************************************************************)

\* Every step of the relay is a step of AsyncCall, or changes none of its state.
LEMMA RelaySimulates == RelayInv /\ [Next]_vars => [Abstract!Next]_(Abstract!vars)
<1> SUFFICES ASSUME RelayInv, [Next]_vars PROVE [Abstract!Next]_(Abstract!vars)
  OBVIOUS
<1> USE DEF Abstract!vars, Abstract!Next
<1>1. TypeOK /\ TablesExact
  BY DEF RelayInv
<1>2. CASE SettleAll \/ Terminate
  <2>1. /\ pendingRelays \in SUBSET {c \in Calls : call[c] = "pending"}
        /\ call' = [c \in Calls |-> IF c \in pendingRelays THEN "failed" ELSE call[c]]
        /\ work' = work
    BY <1>1, <1>2 DEF SettleAll, Terminate, TablesExact, pageVars
  <2>2. Abstract!FailSome
    BY <2>1 DEF Abstract!FailSome
  <2> QED BY <2>2
<1>3. ASSUME NEW c \in Calls, WorkerStep(c) PROVE [Abstract!Next]_(Abstract!vars)
  <2>1. c \in pendingRelays => call[c] = "pending"
    BY <1>1 DEF TablesExact
  <2>2. CASE Invoke(c) \/ Refuse(c)
    <3>1. Abstract!Issue(c)
      BY <1>1, <2>2 DEF Invoke, Refuse, Abstract!Issue, TypeOK, pageVars
    <3> QED BY <3>1
  <2>3. CASE Timeout(c)
    <3>1. Abstract!Settle(c)
      BY <1>1, <2>1, <2>3 DEF Timeout, Settle, Abstract!Settle, Abstract!Settled,
                              TypeOK, pageVars
    <3> QED BY <3>1
  <2>4. CASE ReceiveResult(c)
    <3>1. CASE c \notin pendingRelays
      BY <2>4, <3>1 DEF ReceiveResult, workerVars, pageVars
    <3>2. CASE c \in pendingRelays
      <4>1. Consistent(c) /\ toWorker[c] # <<>>
        BY <2>4 DEF RelayInv, ReceiveResult
      <4>2. toWorker[c] \in {<<TRUE>>, <<FALSE>>}
        BY <4>1 DEF Consistent
      <4>3. toWorker[c] = <<TRUE>> => work[c] = "ok"
        BY <4>1 DEF Consistent
      <4>4. call' = [call EXCEPT ![c] = IF Head(toWorker[c]) THEN "ok" ELSE "failed"]
            /\ work' = work
        BY <2>4, <3>2 DEF ReceiveResult, Settle, pageVars
      <4>5. CASE toWorker[c] = <<TRUE>>
        <5>1. call' = [call EXCEPT ![c] = "ok"] /\ work[c] = "ok"
          BY <4>3, <4>4, <4>5, AnswerQueue
        <5>2. Abstract!Settle(c)
          BY <2>1, <3>2, <4>4, <5>1 DEF Abstract!Settle, Abstract!Settled
        <5> QED BY <5>2
      <4>6. CASE toWorker[c] = <<FALSE>>
        <5>1. call' = [call EXCEPT ![c] = "failed"]
          BY <4>4, <4>6, AnswerQueue
        <5>2. Abstract!Settle(c)
          BY <2>1, <3>2, <4>4, <5>1 DEF Abstract!Settle, Abstract!Settled
        <5> QED BY <5>2
      <4> QED BY <4>2, <4>5, <4>6
    <3> QED BY <3>1, <3>2
  <2> QED BY <1>3, <2>2, <2>3, <2>4 DEF WorkerStep
<1>4. ASSUME NEW c \in Calls, MainStep(c) PROVE [Abstract!Next]_(Abstract!vars)
  <2>1. Consistent(c)
    BY DEF RelayInv
  <2>2. stage[c] # "none" => call[c] # "idle"
    BY <2>1 DEF Consistent
  <2>3. CASE HandleRelay(c)
    <3>1. call[c] # "idle" /\ work[c] = "none"
      BY <2>1, <2>3, MainQueue DEF HandleRelay, Next1, Consistent
    <3>2. CASE c \in PageCalls
      BY <1>1, <2>3, <3>2 DEF HandleRelay, TypeOK, workerVars
    <3>3. CASE c \notin PageCalls
      <4>1. Abstract!Begin(c)
        BY <1>1, <2>3, <3>1, <3>3 DEF HandleRelay, Abstract!Begin, TypeOK, workerVars
      <4> QED BY <4>1
    <3> QED BY <3>2, <3>3
  <2>4. ASSUME NEW ok \in BOOLEAN, MainReturn(c, ok) PROVE Abstract!End(c)
    <3>1. call[c] # "idle" /\ work[c] = "running" /\ call' = call
      BY <2>1, <2>2, <2>4 DEF MainReturn, Consistent, workerVars
    <3>2. work' = [work EXCEPT ![c] = "ok"] \/ work' = [work EXCEPT ![c] = "error"]
      BY <2>4 DEF MainReturn
    <3> QED BY <3>1, <3>2 DEF Abstract!End
  <2>5. CASE OrphanReturn(c)
    <3>1. Abstract!End(c)
      BY <2>2, <2>5 DEF OrphanReturn, Abstract!End, workerVars
    <3> QED BY <3>1
  <2>6. ASSUME HandleBadRelay(c) \/ HandleCancel(c) \/ MainTimeout(c) \/ Locate(c)
               \/ PingFails(c) \/ PingAnswered(c) \/ ReceiveResponse(c)
        PROVE  UNCHANGED <<call, work>>
    BY <2>6 DEF HandleBadRelay, HandleCancel, MainTimeout, Locate, PingFails,
                PingAnswered, ReceiveResponse, workerVars, pageVars
  <2> QED BY <1>4, <2>3, <2>4, <2>5, <2>6 DEF MainStep
<1>5. ASSUME NEW c \in Calls, PageStep(c) PROVE [Abstract!Next]_(Abstract!vars)
  <2>1. Consistent(c)
    BY DEF RelayInv
  <2>2. stage[c] # "none" => call[c] # "idle"
    BY <2>1 DEF Consistent
  <2>3. CASE PageCall(c)
    <3>1. stage[c] = "inPage" /\ work[c] = "none"
      BY <2>1, <2>3, PageQueue DEF PageCall, Next1, Consistent
    <3>2. Abstract!Begin(c)
      BY <2>2, <2>3, <3>1 DEF PageCall, Abstract!Begin, workerVars
    <3> QED BY <3>2
  <2>4. CASE PageCancel(c)
    BY <2>4 DEF PageCancel, workerVars
  <2>5. CASE PageReturn(c) \/ PageGone(c)
    <3>1. Abstract!End(c)
      BY <2>2, <2>5 DEF PageReturn, PageGone, Abstract!End, workerVars
    <3> QED BY <3>1
  <2> QED BY <1>5, <2>3, <2>4, <2>5 DEF PageStep
<1>6. CASE UNCHANGED vars
  BY <1>6 DEF vars
<1>7. CASE StopWith
  BY <1>7 DEF StopWith, workerVars, pageVars
<1> QED BY <1>2, <1>3, <1>4, <1>5, <1>6, <1>7 DEF Next, SessionStep

\* The relay implements AsyncCall (RefinesAsyncCall): a promise settles at most
\* once, its command is carried out at most once, success is never invented.
THEOREM RelayImplementsAsyncCall == SafeSpec => RefinesAsyncCall
<1>1. Init => Abstract!Init
  BY DEF Init, Abstract!Init
<1> QED BY <1>1, RelaySimulates, RelayInvariant, PTL
        DEF SafeSpec, RefinesAsyncCall, Abstract!Spec
=============================================================================
