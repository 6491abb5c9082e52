----------------------------- MODULE FilesProofs -----------------------------
(***************************************************************************)
(* The theorems about the files: an operation that no other overlapped     *)
(* leaves its files whole at every await and, when it reports success, has *)
(* done exactly what it says, however many operations, files and           *)
(* directories there are and whatever fails or is cut off.                 *)
(*                                                                         *)
(* The inductive invariant is FilesInv: where each step of an operation    *)
(* leaves its files, what the operation knows of them then, and that two   *)
(* operations on one file both count as disturbed.                         *)
(***************************************************************************)
EXTENDS Files, SequenceTheorems, TLAPS

\* What a request is, by its kind.
LEMMA RequestIs ==
  ASSUME NEW r \in Requests
  PROVE  /\ r.kind \in OnFile \cup OnTwo \cup OnDir \cup {"update"}
         /\ r.kind \in OnFile \cup OnTwo \cup {"update"} => r.from \in Paths /\ r.to \in Paths
         /\ r.kind \in OnFile \cup {"update"} \cup OnDir => r.from = r.to
         /\ r.kind \in OnDir => r.from \in Dirs /\ r.to \in Dirs
         /\ r.offset \in Nat
<1>1. CASE \E k \in OnFile, p \in Paths : r = Request(k, p, p, 0)
  BY <1>1 DEF Request, OnFile, OnTwo, OnDir
<1>2. CASE \E k \in OnTwo, p, q \in Paths : r = Request(k, p, q, 0)
  BY <1>2 DEF Request, OnFile, OnTwo, OnDir
<1>3. CASE \E p \in Paths, at \in 0..1 : r = Request("update", p, p, at)
  BY <1>3 DEF Request, OnFile, OnTwo, OnDir
<1>4. CASE \E k \in OnDir, d \in Dirs : r = Request(k, d, d, 0)
  BY <1>4 DEF Request, OnFile, OnTwo, OnDir
<1> QED BY <1>1, <1>2, <1>3, <1>4 DEF Requests

\* The files it is about.
LEMMA TouchedIs ==
  ASSUME NEW r \in Requests
  PROVE  /\ Touched(r) \subseteq Paths
         /\ r.kind = "mkdir" => Touched(r) = {}
         /\ r.kind = "rmdir" => Touched(r) = {p \in Paths : DirOf[p] = r.to} /\ r.to \notin Touched(r)
         /\ r.kind \notin OnDir => Touched(r) = {r.from, r.to} /\ r.from \in Paths /\ r.to \in Paths
<1>1. r.kind \notin OnDir => r.from \in Paths /\ r.to \in Paths
  BY RequestIs
<1>2. r.kind \in OnDir => r.to \in Dirs
  BY RequestIs
<1>3. Paths \cap Dirs = {}
  BY FilesAssumption
<1> QED BY <1>1, <1>2, <1>3 DEF Touched, OnDir

\* A content is a sequence of blocks, and None is not one.
LEMMA ContentIs ==
  /\ Contents = {None} \cup Seq(Blocks) /\ None \notin Seq(Blocks) /\ <<>> \in Seq(Blocks)
  /\ \A o \in Ops : <<o>> \in Seq(Blocks)
BY FilesAssumption DEF Contents, Blocks

\* Put writes blocks into a content, onto an empty one, or at its end.
LEMMA PutIs ==
  ASSUME NEW s \in Seq(Blocks), NEW d \in Seq(Blocks), NEW at \in Nat
  PROVE  Put(s, at, d) \in Seq(Blocks)
<1> DEFINE n == IF Len(s) > at + Len(d) THEN Len(s) ELSE at + Len(d)
<1>1. n \in Nat /\ Len(d) \in Nat /\ Len(s) \in Nat
  BY LenProperties
<1>2. Hole \in Blocks
  BY DEF Blocks
<1>3. ASSUME NEW i \in 1..n
      PROVE  (IF i \in (at + 1)..(at + Len(d)) THEN d[i - at]
              ELSE IF i <= Len(s) THEN s[i] ELSE Hole) \in Blocks
  <2> HIDE DEF n
  <2>1. CASE i \in (at + 1)..(at + Len(d))
    <3>1. i - at \in 1..Len(d)
      BY <1>1, <2>1
    <3> QED BY <2>1, <3>1, ElementOfSeq
  <2>2. CASE i \notin (at + 1)..(at + Len(d)) /\ i <= Len(s)
    <3>1. i \in 1..Len(s)
      BY <1>1, <2>2
    <3> QED BY <2>2, <3>1, ElementOfSeq
  <2>3. CASE i \notin (at + 1)..(at + Len(d)) /\ ~(i <= Len(s))
    BY <1>2, <2>3
  <2> QED BY <2>1, <2>2, <2>3
<1>4. Put(s, at, d) \in [1..n -> Blocks]
  BY <1>3 DEF Put
<1> HIDE DEF n
<1> QED BY <1>1, <1>4, SeqDef

\* Writing at the start of an empty file.
LEMMA PutOnEmpty ==
  ASSUME NEW d \in Seq(Blocks)
  PROVE  Put(<<>>, 0, d) = d
<1>1. Len(<<>>) = 0 /\ Len(d) \in Nat /\ d \in [1..Len(d) -> Blocks]
  BY LenProperties
<1>2. (IF Len(<<>>) > 0 + Len(d) THEN Len(<<>>) ELSE 0 + Len(d)) = Len(d)
  BY <1>1
<1>3. \A i \in 1..Len(d) : i \in (0 + 1)..(0 + Len(d)) /\ i - 0 = i
  BY <1>1
<1>4. Put(<<>>, 0, d) = [i \in 1..Len(d) |-> d[i]]
  BY <1>2, <1>3 DEF Put
<1> QED BY <1>1, <1>4

\* Writing at the end of a file.
LEMMA PutAtEnd ==
  ASSUME NEW s \in Seq(Blocks), NEW o \in Ops
  PROVE  Put(s, Len(s), <<o>>) = s \o <<o>>
<1>1. Len(s) \in Nat /\ Len(<<o>>) = 1 /\ s \in [1..Len(s) -> Blocks]
  BY LenProperties
<1>2. (IF Len(s) > Len(s) + Len(<<o>>) THEN Len(s) ELSE Len(s) + Len(<<o>>)) = Len(s) + 1
  BY <1>1
<1>3. Put(s, Len(s), <<o>>) =
        [i \in 1..(Len(s) + 1) |->
           IF i \in (Len(s) + 1)..(Len(s) + Len(<<o>>)) THEN <<o>>[i - Len(s)]
           ELSE IF i <= Len(s) THEN s[i] ELSE Hole]
  BY <1>2 DEF Put
<1>4. s \o <<o>> = [i \in 1..(Len(s) + 1) |-> IF i <= Len(s) THEN s[i] ELSE <<o>>[i - Len(s)]]
  BY <1>1
<1>5. \A i \in 1..(Len(s) + 1) : i \in (Len(s) + 1)..(Len(s) + Len(<<o>>)) <=> ~(i <= Len(s))
  BY <1>1
<1> QED BY <1>3, <1>4, <1>5

-----------------------------------------------------------------------------
(* One operation moves; the others do not see it.                          *)

\* The operation o moves to the entry e: files it is not about stay, other
\* streams stay open, and a file into which one writes stays there.
Moves(o, e) ==
  /\ Running(o) /\ op' = [op EXCEPT ![o] = e] /\ Quiet
  /\ e \in Entries /\ e.req = op[o].req
  /\ file' \in [Paths -> Contents] /\ dirs' \subseteq Dirs
  /\ \A p \in Paths : file'[p] # None => Exists(DirOf[p])'
  /\ \A p \in Paths \ Touched(op[o].req) : file'[p] = file[p]
  /\ opened' \in SUBSET (opened \cup {o}) /\ opened \subseteq opened' \cup {o}
  /\ o \in opened' => e.pc \in {"commit", "error"}
  /\ \A p \in Paths : (\E u \in opened \ {o} : op[u].req.to = p) /\ file[p] # None => file'[p] # None

\* If the invariant holds of o after it has moved, it holds.
LEMMA MoveKeeps ==
  ASSUME FilesInv, NEW o \in Ops, NEW e, Moves(o, e),
         RunningIsTyped(o)', OpenIsThere(o)', InStep(o)'
  PROVE  FilesInv'
<1>1. TypeOK /\ op[o].req \in Requests /\ Touched(op[o].req) \subseteq Paths
  BY TouchedIs DEF FilesInv, Moves, RunningIsTyped
<1>2. TypeOK'
  <2>1. /\ op' \in [Ops -> Entries] /\ opened' \subseteq Ops
        /\ cache' \in [Caches -> [Paths -> Contents]] /\ before' \in [Ops -> [Paths -> Contents]]
        /\ disturbed' \subseteq Ops
    BY <1>1 DEF TypeOK, Moves, Quiet
  <2>2. ASSUME NEW u \in opened' PROVE op'[u].pc \in {"commit", "error"}
    BY <1>1, <2>2 DEF TypeOK, Moves
  <2> QED BY <2>1, <2>2 DEF TypeOK, Moves
<1>3. ASSUME NEW u \in Ops, u # o
      PROVE  /\ op'[u] = op[u] /\ before'[u] = before[u] /\ disturbed' = disturbed
             /\ u \in opened' <=> u \in opened
             /\ Running(u)' <=> Running(u)
  BY <1>1, <1>3 DEF Moves, Quiet, Running, TypeOK
<1>4. op'[o] = e /\ (Running(o)' => Running(o)) /\ op'[o].req = op[o].req
  BY <1>1 DEF Moves, TypeOK
<1>5. ASSUME NEW u \in Ops, u # o
      PROVE  RunningIsTyped(u)' /\ OpenIsThere(u)' /\ InStep(u)'
  <2>1. /\ RunningIsTyped(u) /\ OpenIsThere(u) /\ InStep(u) /\ OverlapIsSeen(o, u)
    BY DEF FilesInv
  <2>2. RunningIsTyped(u)'
    BY <1>3, <1>5, <2>1 DEF RunningIsTyped
  <2>3. OpenIsThere(u)'
    <3>1. SUFFICES ASSUME op[u].pc = "commit" PROVE u \in opened' /\ file'[op[u].req.to] # None
      BY <1>3, <1>5 DEF OpenIsThere
    <3>2. u \in opened \ {o} /\ file[op[u].req.to] # None
      BY <1>5, <2>1, <3>1 DEF OpenIsThere
    <3>3. op[u].req.to \in Paths
      <4>1. Running(u) /\ op[u].req \in Requests /\ op[u].req.kind \notin OnDir
        BY <2>1, <3>1 DEF RunningIsTyped, Running, Ended, StepsOf, OnDir
      <4> QED BY <4>1, TouchedIs
    <3> QED BY <1>3, <1>5, <3>2, <3>3 DEF Moves
  <2>4. InStep(u)'
    <3>1. SUFFICES ASSUME Running(u), u \notin disturbed PROVE HasDone(u)' /\ Knows(u)'
      BY <1>3, <1>5 DEF InStep
    <3>2. HasDone(u) /\ Knows(u) /\ op[u].req \in Requests
      BY <2>1, <3>1 DEF InStep, RunningIsTyped
    <3>3. \A p \in Touched(op[u].req) : p \in Paths /\ file'[p] = file[p]
      BY <1>5, <2>1, <3>1, <3>2, TouchedIs DEF OverlapIsSeen, Moves
    <3>4. HasDone(u)'
      BY <1>3, <1>5, <3>2, <3>3 DEF HasDone
    <3>5. op[u].req.kind = "append" \/ op[u].pc = "commit" => op[u].req.to \in Touched(op[u].req)
      <4>1. op[u].pc \in StepsOf(op[u].req.kind)
        BY <2>1, <3>1 DEF RunningIsTyped
      <4>2. op[u].pc = "commit" => op[u].req.kind \notin OnDir
        BY <4>1 DEF StepsOf, OnDir
      <4> QED BY <3>2, <4>2, TouchedIs DEF OnDir
    <3>6. Knows(u)'
      BY <1>3, <1>5, <3>2, <3>3, <3>5 DEF Knows
    <3> QED BY <3>4, <3>6
  <2> QED BY <2>2, <2>3, <2>4
<1>6. ASSUME NEW u \in Ops, NEW v \in Ops PROVE OverlapIsSeen(u, v)'
  <2>1. OverlapIsSeen(u, v)
    BY DEF FilesInv
  <2>2. op'[u].req = op[u].req /\ op'[v].req = op[v].req /\ disturbed' = disturbed
    BY <1>3, <1>4 DEF Moves, Quiet
  <2>3. (Running(u)' => Running(u)) /\ (Running(v)' => Running(v))
    BY <1>3, <1>4
  <2> QED BY <2>1, <2>2, <2>3 DEF OverlapIsSeen
<1> QED BY <1>2, <1>5, <1>6 DEF FilesInv

\* What holds of an operation that runs.
LEMMA RunningHas ==
  ASSUME FilesInv, NEW o \in Ops, Running(o)
  PROVE  /\ TypeOK /\ op[o] \in Entries /\ op[o].req \in Requests /\ op[o].pc \in StepsOf(op[o].req.kind)
         /\ op[o].req.kind \in OnFile \cup OnTwo \cup OnDir \cup {"update"}
         /\ op[o].req.kind \notin OnDir =>
              /\ Touched(op[o].req) = {op[o].req.from, op[o].req.to}
              /\ op[o].req.from \in Paths /\ op[o].req.to \in Paths
         /\ op[o].req.kind \in OnFile \cup {"update"} => op[o].req.from = op[o].req.to
         /\ op[o].req.kind = "mkdir" => Touched(op[o].req) = {}
         /\ op[o].req.kind \in OnDir => op[o].req.to \in Dirs /\ op[o].req.from = op[o].req.to
         /\ RunningIsTyped(o) /\ OpenIsThere(o) /\ InStep(o)
         /\ \A p \in Paths : file[p] \in Contents /\ before[o][p] \in Contents
<1>1. TypeOK /\ RunningIsTyped(o) /\ OpenIsThere(o) /\ InStep(o)
  BY DEF FilesInv
<1>2. op[o].req \in Requests /\ op[o].pc \in StepsOf(op[o].req.kind)
  BY <1>1 DEF RunningIsTyped
<1> QED BY <1>1, <1>2, RequestIs, TouchedIs DEF TypeOK

\* The entry after a step that only goes on.
LEMMA GotoIs ==
  ASSUME TypeOK, NEW o \in Ops, NEW pc \in {"idle"} \cup Steps \cup Ended, Goto(o, pc)
  PROVE  /\ [op[o] EXCEPT !.pc = pc] \in Entries /\ op' = [op EXCEPT ![o] = [op[o] EXCEPT !.pc = pc]]
         /\ op'[o].pc = pc /\ op'[o].req = op[o].req /\ op'[o].bytes = op[o].bytes
         /\ op'[o].size = op[o].size /\ op'[o].swap = op[o].swap
         /\ [op[o] EXCEPT !.pc = pc].req = op[o].req /\ [op[o] EXCEPT !.pc = pc].pc = pc
BY DEF TypeOK, Entries, Goto

\* An operation whose await fails is no longer running.
LEMMA EndKeeps ==
  ASSUME FilesInv, NEW o \in Ops, Running(o), Goto(o, "error"), UNCHANGED <<file, dirs, opened>>, Quiet
  PROVE  FilesInv'
<1> DEFINE e == [op[o] EXCEPT !.pc = "error"]
<1>1. TypeOK
  BY RunningHas
<1>2. e \in Entries /\ op' = [op EXCEPT ![o] = e] /\ op'[o].pc = "error" /\ e.req = op[o].req /\ e.pc = "error"
  BY <1>1, GotoIs DEF Ended, Entries, TypeOK
<1> HIDE DEF e
<1>3. Moves(o, e)
  BY <1>1, <1>2 DEF Moves, TypeOK, Exists
<1>4. RunningIsTyped(o)' /\ OpenIsThere(o)' /\ InStep(o)'
  BY <1>2 DEF RunningIsTyped, OpenIsThere, InStep, Running, Ended
<1> QED BY <1>3, <1>4, MoveKeeps

\* resolve_dir_create keeps it.
LEMMA EnsureDirKeeps ==
  ASSUME FilesInv, NEW o \in Ops, EnsureDir(o)
  PROVE  FilesInv'
<1>1. Running(o) /\ op[o].pc = "mkdir" /\ UNCHANGED <<file, opened>> /\ Quiet
  BY DEF EnsureDir, Running, Ended
<1> DEFINE r  == op[o].req
           d  == IF r.kind = "mkdir" THEN r.to ELSE DirOf[r.to]
           pc == IF r.kind = "mkdir" THEN "ok" ELSE "create"
           e  == [op[o] EXCEPT !.pc = pc]
<1>2. TypeOK /\ RunningIsTyped(o) /\ InStep(o) /\ r \in Requests
  BY <1>1, RunningHas
<1>3. r.kind \in {"write", "writeBase64", "fsCallBase64", "append", "copy", "move", "mkdir"}
  BY <1>1, RunningHas DEF StepsOf, OnFile, OnTwo, OnDir
<1>4. e \in Entries /\ op' = [op EXCEPT ![o] = e] /\ op'[o].pc = pc /\ op'[o].req = r
      /\ op'[o].bytes = op[o].bytes /\ e.req = r /\ e.pc = pc
  <2>1. Goto(o, pc) /\ pc \in Steps \cup Ended
    BY DEF EnsureDir, Steps, Ended
  <2> HIDE DEF pc
  <2> QED BY <1>2, <2>1, GotoIs
<1>5. dirs' = dirs \cup ({d} \ {None}) /\ d \in Dirs \cup {None}
  BY <1>1, <1>3, RunningHas, FilesAssumption DEF EnsureDir, OnDir
<1> HIDE DEF d
<1>6. Moves(o, e)
  <2>1. dirs' \subseteq Dirs /\ \A p \in Paths : file'[p] # None => Exists(DirOf[p])'
    BY <1>1, <1>2, <1>5 DEF TypeOK, Exists
  <2>2. o \notin opened
    BY <1>1, <1>2 DEF TypeOK
  <2> HIDE DEF e
  <2> QED BY <1>1, <1>2, <1>4, <2>1, <2>2 DEF Moves, TypeOK
<1>7. RunningIsTyped(o)' /\ OpenIsThere(o)' /\ InStep(o)'
  <2> HIDE DEF e
  <2>1. CASE r.kind = "mkdir"
    BY <1>4, <2>1 DEF RunningIsTyped, OpenIsThere, InStep, Running, Ended
  <2>2. CASE r.kind # "mkdir"
    <3>1. op'[o].pc = "create" /\ Running(o)'
      BY <1>4, <2>2 DEF Running, Ended
    <3>2. RunningIsTyped(o)' /\ OpenIsThere(o)'
      BY <1>1, <1>2, <1>3, <1>4, <2>2, <3>1 DEF RunningIsTyped, OpenIsThere, StepsOf
    <3>3. InStep(o)'
      BY <1>1, <1>2, <1>3, <1>4, <3>1 DEF InStep, HasDone, Knows, Quiet
    <3> QED BY <3>2, <3>3
  <2> QED BY <2>1, <2>2
<1> HIDE DEF e
<1> QED BY <1>6, <1>7, MoveKeeps

\* getFileHandle with create keeps it.
LEMMA EnsureFileKeeps ==
  ASSUME FilesInv, NEW o \in Ops, EnsureFile(o)
  PROVE  FilesInv'
<1>1. Running(o) /\ op[o].pc = "create" /\ UNCHANGED <<dirs, opened>> /\ Quiet
  BY DEF EnsureFile, Running, Ended
<1> DEFINE r  == op[o].req
           pc == IF r.kind = "append" THEN "size" ELSE "open"
           e  == [op[o] EXCEPT !.pc = pc]
<1>2. TypeOK /\ RunningIsTyped(o) /\ InStep(o) /\ r \in Requests
  BY <1>1, RunningHas
<1>3. /\ r.kind \in {"write", "writeBase64", "fsCallBase64", "append", "copy", "move"}
      /\ r.from \in Paths /\ r.to \in Paths /\ Touched(r) = {r.from, r.to}
  BY <1>1, RunningHas DEF StepsOf, OnFile, OnTwo, OnDir
<1>4. CASE ~Exists(DirOf[r.to])
  BY <1>1, <1>4, EndKeeps DEF EnsureFile
<1>5. CASE Exists(DirOf[r.to])
  <2>1. Goto(o, pc) /\ file' = [file EXCEPT ![r.to] = Created(file[r.to])]
    BY <1>5 DEF EnsureFile, Created
  <2>2. e \in Entries /\ op' = [op EXCEPT ![o] = e] /\ op'[o].pc = pc /\ op'[o].req = r
        /\ op'[o].bytes = op[o].bytes /\ e.req = r /\ e.pc = pc
    BY <1>2, <2>1, GotoIs DEF Steps, Entries, TypeOK
  <2> HIDE DEF e
  <2>3. Created(file[r.to]) \in Contents /\ Created(file[r.to]) # None
    BY <1>2, <1>3, ContentIs DEF TypeOK, Created
  <2>4. \A p \in Paths : file'[p] = IF p = r.to THEN Created(file[r.to]) ELSE file[p]
    BY <1>2, <2>1 DEF TypeOK
  <2>5. Moves(o, e)
    <3>1. file' \in [Paths -> Contents]
      BY <1>2, <1>3, <2>1, <2>3 DEF TypeOK
    <3>2. \A p \in Paths : file'[p] # None => Exists(DirOf[p])'
      BY <1>1, <1>2, <1>5, <2>4 DEF TypeOK, Exists
    <3>3. o \notin opened
      BY <1>1, <1>2 DEF TypeOK
    <3>4. \A p \in Paths : file[p] # None => file'[p] # None
      BY <2>3, <2>4
    <3> QED BY <1>1, <1>2, <1>3, <2>2, <2>4, <3>1, <3>2, <3>3, <3>4 DEF Moves, TypeOK
  <2>6. RunningIsTyped(o)' /\ OpenIsThere(o)'
    BY <1>1, <1>2, <1>3, <2>2 DEF RunningIsTyped, OpenIsThere, StepsOf, Running, Ended
  <2>7. InStep(o)'
    <3>1. SUFFICES ASSUME o \notin disturbed PROVE HasDone(o)' /\ Knows(o)'
      BY <1>1 DEF InStep, Quiet
    <3>2. HasDone(o) /\ Knows(o)
      BY <1>1, <1>2, <3>1 DEF InStep
    <3>3. before' = before /\ op'[o].pc = pc /\ op'[o].req = r
      BY <1>1, <2>2 DEF Quiet
    <3>4. HasDone(o)'
      BY <1>1, <1>3, <2>4, <3>2, <3>3 DEF HasDone
    <3>5. Knows(o)'
      BY <1>1, <1>3, <2>2, <3>2, <3>3 DEF Knows
    <3> QED BY <3>4, <3>5
  <2> QED BY <2>5, <2>6, <2>7, MoveKeeps
<1> QED BY <1>4, <1>5

\* A step that leaves the files alone and opens no stream keeps it, if the
\* operation is then where it should be.
LEMMA KnowsMore ==
  ASSUME FilesInv, NEW o \in Ops, Running(o), op[o].pc # "commit", UNCHANGED <<file, dirs, opened>>, Quiet,
         NEW e \in Entries, op' = [op EXCEPT ![o] = e], e.req = op[o].req,
         Running(o)' => RunningIsTyped(o)' /\ op'[o].pc # "commit" /\ InStep(o)'
  PROVE  FilesInv'
<1>1. TypeOK
  BY DEF FilesInv
<1>2. o \notin opened
  BY <1>1 DEF TypeOK, Running, Ended
<1>3. Moves(o, e)
  BY <1>1, <1>2 DEF Moves, TypeOK, Exists
<1>4. RunningIsTyped(o)' /\ OpenIsThere(o)' /\ InStep(o)'
  BY DEF RunningIsTyped, OpenIsThere, InStep, Running, Ended
<1> QED BY <1>3, <1>4, MoveKeeps

\* resolve_file keeps it.
LEMMA ResolveKeeps ==
  ASSUME FilesInv, NEW o \in Ops, Resolve(o)
  PROVE  FilesInv'
<1> DEFINE r  == op[o].req
           pc == IF r.kind = "append" THEN IF file[r.to] # None THEN "size" ELSE "mkdir"
                 ELSE IF file[r.to] # None THEN "open" ELSE "error"
           e  == [op[o] EXCEPT !.pc = pc]
<1>1. Running(o) /\ op[o].pc = "resolve" /\ UNCHANGED <<file, dirs, opened>> /\ Quiet
  BY DEF Resolve, Running, Ended
<1>2. TypeOK /\ RunningIsTyped(o) /\ InStep(o) /\ r \in Requests
  BY <1>1, RunningHas
<1>3. r.kind \in {"append", "update"}
  BY <1>1, RunningHas DEF StepsOf
<1>4. /\ e \in Entries /\ op' = [op EXCEPT ![o] = e] /\ op'[o].pc = pc /\ op'[o].req = r
      /\ op'[o].bytes = op[o].bytes /\ e.req = r
  <2>1. Goto(o, pc) /\ pc \in Steps \cup Ended
    BY DEF Resolve, Steps, Ended
  <2> HIDE DEF pc
  <2> QED BY <1>2, <2>1, GotoIs
<1> HIDE DEF e
<1>5. RunningIsTyped(o)'
  BY <1>2, <1>3, <1>4 DEF RunningIsTyped, StepsOf, OnTwo, Running, Ended
<1>6. InStep(o)'
  <2>1. SUFFICES ASSUME o \notin disturbed, Running(o)' PROVE HasDone(o)' /\ Knows(o)'
    BY <1>1 DEF InStep, Quiet
  <2>2. HasDone(o) /\ Knows(o) /\ r.to \in Touched(r)
    BY <1>1, <1>2, <1>3, <2>1, TouchedIs DEF InStep, OnDir
  <2>3. HasDone(o)'
    BY <1>1, <1>3, <1>4, <2>2 DEF HasDone, Created, Quiet
  <2>4. Knows(o)'
    BY <1>1, <1>3, <1>4, <2>1, <2>2 DEF Knows, HasDone, OnTwo, Quiet, Running, Ended
  <2> QED BY <2>3, <2>4
<1>7. op[o].pc # "commit" /\ op'[o].pc # "commit"
  BY <1>1, <1>4
<1> QED BY <1>1, <1>4, <1>5, <1>6, <1>7, KnowsMore

\* get_file_size keeps it.
LEMMA SizeKeeps ==
  ASSUME FilesInv, NEW o \in Ops, Size(o)
  PROVE  FilesInv'
<1> DEFINE r  == op[o].req
           pc == IF file[r.to] = None THEN "error" ELSE "open"
           n  == IF file[r.to] = None THEN 0 ELSE Len(file[r.to])
           e  == [op[o] EXCEPT !.pc = pc, !.size = n]
<1>1. Running(o) /\ op[o].pc = "size" /\ UNCHANGED <<file, dirs, opened>> /\ Quiet
  BY DEF Size, Running, Ended
<1>2. TypeOK /\ RunningIsTyped(o) /\ InStep(o) /\ r \in Requests
  BY <1>1, RunningHas
<1>3. r.kind = "append" /\ r.to \in Paths /\ r.to \in Touched(r)
  BY <1>1, RunningHas DEF StepsOf, OnDir
<1>4. n \in Nat /\ pc \in Steps \cup Ended
  BY <1>2, <1>3, ContentIs, LenProperties DEF TypeOK, Steps, Ended
<1>5. op' = [op EXCEPT ![o] = e]
  BY <1>2 DEF TypeOK, Entries, Size
<1>6. /\ e \in Entries /\ e.req = r /\ e.pc = pc /\ e.bytes = op[o].bytes
      /\ e.size = n
  <2> HIDE DEF pc, n
  <2> QED BY <1>2, <1>4 DEF TypeOK, Entries
<1> HIDE DEF e
<1>7. op'[o] = e
  BY <1>2, <1>5 DEF TypeOK
<1>8. RunningIsTyped(o)'
  BY <1>2, <1>3, <1>6, <1>7 DEF RunningIsTyped, StepsOf, OnTwo, Running, Ended
<1>9. InStep(o)'
  <2>1. SUFFICES ASSUME o \notin disturbed, Running(o)' PROVE HasDone(o)' /\ Knows(o)'
    BY <1>1 DEF InStep, Quiet
  <2>2. HasDone(o) /\ Knows(o) /\ pc = "open"
    BY <1>1, <1>2, <1>6, <1>7, <2>1 DEF InStep, Running, Ended
  <2>3. HasDone(o)'
    BY <1>1, <1>3, <1>6, <1>7, <2>2 DEF HasDone, Quiet
  <2>4. Knows(o)'
    BY <1>1, <1>3, <1>6, <1>7, <2>2 DEF Knows, OnTwo, Quiet
  <2> QED BY <2>3, <2>4
<1> QED BY <1>1, <1>5, <1>6, <1>7, <1>8, <1>9, KnowsMore

\* getFile keeps it.
LEMMA LookKeeps ==
  ASSUME FilesInv, NEW o \in Ops, Look(o)
  PROVE  FilesInv'
<1> DEFINE r  == op[o].req
           pc == IF file[r.from] = None THEN "error" ELSE "take"
           e  == [op[o] EXCEPT !.pc = pc, !.bytes = file[r.from]]
<1>1. Running(o) /\ op[o].pc = "look" /\ UNCHANGED <<file, dirs, opened>> /\ Quiet
  BY DEF Look, Running, Ended
<1>2. TypeOK /\ RunningIsTyped(o) /\ InStep(o) /\ r \in Requests
  BY <1>1, RunningHas
<1>3. r.kind \in OnTwo \cup {"read", "setFiles"} /\ r.from \in Paths /\ Touched(r) = {r.from, r.to}
      /\ (r.kind \notin OnTwo => r.to = r.from)
  BY <1>1, RunningHas DEF StepsOf, OnTwo, OnDir, OnFile
<1>4. file[r.from] \in Contents /\ pc \in Steps \cup Ended
  BY <1>2, <1>3 DEF TypeOK, Steps, Ended
<1>5. op' = [op EXCEPT ![o] = e]
  BY <1>2 DEF TypeOK, Entries, Look
<1>6. e \in Entries /\ e.req = r /\ e.pc = pc /\ e.bytes = file[r.from]
  <2> HIDE DEF pc
  <2> QED BY <1>2, <1>4 DEF TypeOK, Entries
<1> HIDE DEF e
<1>7. op'[o] = e
  BY <1>2, <1>5 DEF TypeOK
<1>8. RunningIsTyped(o)'
  BY <1>2, <1>3, <1>6, <1>7 DEF RunningIsTyped, StepsOf, OnTwo, Running, Ended
<1>9. InStep(o)'
  <2>1. SUFFICES ASSUME o \notin disturbed, Running(o)' PROVE HasDone(o)' /\ Knows(o)'
    BY <1>1 DEF InStep, Quiet
  <2>2. HasDone(o) /\ Knows(o) /\ pc = "take"
    BY <1>1, <1>2, <1>6, <1>7, <2>1 DEF InStep, Running, Ended
  <2>3. HasDone(o)'
    BY <1>1, <1>3, <1>6, <1>7, <2>2 DEF HasDone, Quiet
  <2>4. file[r.from] = before[o][r.from]
    BY <1>1, <1>3, <2>2 DEF HasDone
  <2>5. Knows(o)'
    BY <1>1, <1>3, <1>6, <1>7, <2>2, <2>4 DEF Knows, OnTwo, Quiet
  <2> QED BY <2>3, <2>5
<1> QED BY <1>1, <1>5, <1>6, <1>7, <1>8, <1>9, KnowsMore

\* arrayBuffer keeps it.
LEMMA TakeKeeps ==
  ASSUME FilesInv, NEW o \in Ops, Take(o)
  PROVE  FilesInv'
<1> DEFINE r  == op[o].req
           pc == IF file[r.from] # op[o].bytes THEN "error" ELSE IF r.kind \in OnTwo THEN "mkdir" ELSE "ok"
           e  == [op[o] EXCEPT !.pc = pc]
<1>1. Running(o) /\ op[o].pc = "take" /\ UNCHANGED <<file, dirs, opened>> /\ Quiet
  BY DEF Take, Running, Ended
<1>2. TypeOK /\ RunningIsTyped(o) /\ InStep(o) /\ r \in Requests
  BY <1>1, RunningHas
<1>3. r.kind \in OnTwo \cup {"read", "setFiles"}
  BY <1>1, RunningHas DEF StepsOf, OnTwo
<1>4. /\ e \in Entries /\ op' = [op EXCEPT ![o] = e] /\ op'[o].pc = pc /\ op'[o].req = r
      /\ op'[o].bytes = op[o].bytes /\ e.req = r
  <2>1. Goto(o, pc) /\ pc \in Steps \cup Ended
    BY DEF Take, Steps, Ended
  <2> HIDE DEF pc
  <2> QED BY <1>2, <2>1, GotoIs
<1> HIDE DEF e
<1>5. RunningIsTyped(o)'
  BY <1>1, <1>2, <1>3, <1>4 DEF RunningIsTyped, StepsOf, OnTwo, Running, Ended
<1>6. InStep(o)'
  <2>1. SUFFICES ASSUME o \notin disturbed, Running(o)' PROVE HasDone(o)' /\ Knows(o)'
    BY <1>1 DEF InStep, Quiet
  <2>2. HasDone(o) /\ Knows(o) /\ pc = "mkdir" /\ r.kind \in OnTwo
    BY <1>1, <1>2, <1>4, <2>1 DEF InStep, Running, Ended
  <2>3. HasDone(o)'
    BY <1>1, <1>3, <1>4, <2>2 DEF HasDone, Quiet
  <2>4. Knows(o)'
    BY <1>1, <1>3, <1>4, <2>1, <2>2 DEF Knows, OnTwo, Quiet
  <2> QED BY <2>3, <2>4
<1>7. op[o].pc # "commit" /\ op'[o].pc # "commit"
  BY <1>1, <1>4
<1> QED BY <1>1, <1>4, <1>5, <1>6, <1>7, KnowsMore

\* createWritable keeps it.
LEMMA OpenKeeps ==
  ASSUME FilesInv, NEW o \in Ops, Open(o)
  PROVE  FilesInv'
<1> DEFINE r == op[o].req
           s == IF r.kind \in {"append", "update"} THEN file[r.to] ELSE <<>>
           e == [op[o] EXCEPT !.pc = "commit", !.swap = s]
<1>1. Running(o) /\ op[o].pc = "open" /\ UNCHANGED <<file, dirs>> /\ Quiet
  BY DEF Open, Running, Ended
<1>2. TypeOK /\ RunningIsTyped(o) /\ InStep(o) /\ r \in Requests
  BY <1>1, RunningHas
<1>3. /\ r.kind \in {"write", "writeBase64", "fsCallBase64", "append", "update", "copy", "move"}
      /\ r.from \in Paths /\ r.to \in Paths /\ Touched(r) = {r.from, r.to}
  BY <1>1, RunningHas DEF StepsOf, OnFile, OnTwo, OnDir
<1>4. CASE file[r.to] = None
  BY <1>1, <1>4, EndKeeps DEF Open
<1>5. CASE file[r.to] # None
  <2>1. opened' = opened \cup {o} /\ op' = [op EXCEPT ![o] = e]
    BY <1>2, <1>5 DEF Open, TypeOK, Entries
  <2>2. s \in Seq(Blocks)
    BY <1>2, <1>3, <1>5, ContentIs DEF TypeOK
  <2>3. e \in Entries /\ e.req = r /\ e.pc = "commit" /\ e.swap = s /\ e.bytes = op[o].bytes
        /\ e.size = op[o].size
    <3> HIDE DEF s
    <3> QED BY <1>2, <2>2 DEF TypeOK, Entries, Steps
  <2> HIDE DEF e
  <2>4. op'[o] = e
    BY <1>2, <2>1 DEF TypeOK
  <2>5. Moves(o, e)
    BY <1>1, <1>2, <2>1, <2>3 DEF Moves, TypeOK, Exists
  <2>6. RunningIsTyped(o)' /\ OpenIsThere(o)'
    BY <1>1, <1>2, <1>3, <1>5, <2>1, <2>3, <2>4 DEF RunningIsTyped, OpenIsThere, StepsOf, Running, Ended
  <2>7. InStep(o)'
    <3>1. SUFFICES ASSUME o \notin disturbed PROVE HasDone(o)' /\ Knows(o)'
      BY <1>1 DEF InStep, Quiet
    <3>2. HasDone(o) /\ Knows(o)
      BY <1>1, <1>2, <3>1 DEF InStep
    <3>3. HasDone(o)'
      BY <1>1, <1>3, <2>3, <2>4, <3>2 DEF HasDone, Quiet
    <3>4. Knows(o)'
      BY <1>1, <1>3, <2>3, <2>4, <3>2 DEF Knows, Quiet
    <3> QED BY <3>3, <3>4
  <2> QED BY <2>5, <2>6, <2>7, MoveKeeps
<1> QED BY <1>4, <1>5

\* What the file is when its stream has been closed.
LEMMA CommitWrites ==
  ASSUME FilesInv, NEW o \in Ops, Commit(o)
  PROVE  LET r == op[o].req
         IN  /\ r.from \in Paths /\ r.to \in Paths /\ Touched(r) = {r.from, r.to}
             /\ r.kind \in {"write", "writeBase64", "fsCallBase64", "append", "update", "copy", "move"}
             /\ file' \in [Paths -> Contents] /\ file'[r.to] # None
             /\ \A p \in Paths : p # r.to => file'[p] = file[p]
             /\ o \notin disturbed =>
                  /\ r.kind \in {"write", "writeBase64", "fsCallBase64"} => file'[r.to] = <<o>>
                  /\ r.kind = "append" => file'[r.to] = Created(before[o][r.to]) \o <<o>>
                  /\ r.kind = "update" => file'[r.to] = Put(before[o][r.to], r.offset, <<o>>)
                  /\ r.kind \in OnTwo => file'[r.to] = before[o][r.from]
<1> DEFINE r  == op[o].req
           at == CASE r.kind = "append" -> op[o].size
                   [] r.kind = "update" -> r.offset
                   [] OTHER -> 0
           d  == IF r.kind \in OnTwo THEN op[o].bytes ELSE <<o>>
           s  == op[o].swap
<1>1. Running(o) /\ op[o].pc = "commit" /\ file' = [file EXCEPT ![r.to] = Put(s, at, d)]
  BY DEF Commit, Running, Ended
<1>2. TypeOK /\ RunningIsTyped(o) /\ InStep(o) /\ r \in Requests /\ op[o] \in Entries
  BY <1>1, RunningHas
<1>3. /\ r.kind \in {"write", "writeBase64", "fsCallBase64", "append", "update", "copy", "move"}
      /\ r.from \in Paths /\ r.to \in Paths /\ Touched(r) = {r.from, r.to}
  BY <1>1, RunningHas DEF StepsOf, OnFile, OnTwo, OnDir
<1>4. s \in Seq(Blocks) /\ at \in Nat /\ d \in Seq(Blocks)
  <2>1. s \in Seq(Blocks) /\ op[o].size \in Nat /\ r.offset \in Nat /\ op[o].bytes \in Contents
    BY <1>2, RequestIs DEF Entries
  <2>2. r.kind \in OnTwo => op[o].bytes # None
    BY <1>1, <1>2 DEF RunningIsTyped
  <2> QED BY <2>1, <2>2, ContentIs
<1>5. /\ r.kind \in {"write", "writeBase64", "fsCallBase64"} => at = 0 /\ d = <<o>>
      /\ r.kind = "append" => at = op[o].size /\ d = <<o>>
      /\ r.kind = "update" => at = r.offset /\ d = <<o>>
      /\ r.kind \in OnTwo => at = 0 /\ d = op[o].bytes
  BY DEF OnTwo
<1> HIDE DEF at, d
<1>6. Put(s, at, d) \in Seq(Blocks)
  BY <1>4, PutIs
<1>7. /\ file' \in [Paths -> Contents] /\ file'[r.to] = Put(s, at, d) /\ file'[r.to] # None
      /\ \A p \in Paths : p # r.to => file'[p] = file[p]
  BY <1>1, <1>2, <1>3, <1>6, ContentIs DEF TypeOK
<1>8. ASSUME o \notin disturbed
      PROVE  /\ r.kind \in {"write", "writeBase64", "fsCallBase64"} => file'[r.to] = <<o>>
             /\ r.kind = "append" => file'[r.to] = Created(before[o][r.to]) \o <<o>>
             /\ r.kind = "update" => file'[r.to] = Put(before[o][r.to], r.offset, <<o>>)
             /\ r.kind \in OnTwo => file'[r.to] = before[o][r.from]
  <2>1. HasDone(o) /\ Knows(o)
    BY <1>1, <1>2, <1>8 DEF InStep
  <2>2. file[r.to] = Created(before[o][r.to]) /\ s = (IF r.kind \in {"append", "update"} THEN file[r.to] ELSE <<>>)
    BY <1>1, <1>3, <2>1 DEF HasDone, Knows
  <2>3. CASE r.kind \in {"write", "writeBase64", "fsCallBase64"}
    BY <1>4, <1>5, <1>7, <2>2, <2>3, PutOnEmpty DEF OnTwo
  <2>4. CASE r.kind = "append"
    <3>1. at = Len(s) /\ d = <<o>> /\ s = Created(before[o][r.to])
      BY <1>1, <1>5, <2>1, <2>2, <2>4 DEF Knows
    <3>2. Put(s, Len(s), <<o>>) = s \o <<o>>
      BY <1>4, PutAtEnd
    <3> QED BY <1>7, <2>4, <3>1, <3>2 DEF OnTwo
  <2>5. CASE r.kind = "update"
    <3>1. s = before[o][r.to]
      BY <1>1, <2>1, <2>2, <2>5 DEF Knows, Created
    <3> QED BY <1>5, <1>7, <2>5, <3>1 DEF OnTwo
  <2>6. CASE r.kind \in OnTwo
    <3>1. s = <<>> /\ at = 0 /\ d = before[o][r.from]
      BY <1>1, <1>5, <2>1, <2>2, <2>6 DEF Knows, OnTwo
    <3> QED BY <1>4, <1>7, <2>6, <3>1, PutOnEmpty DEF OnTwo
  <2> QED BY <1>3, <2>3, <2>4, <2>5, <2>6 DEF OnTwo
<1> QED BY <1>3, <1>7, <1>8

\* seek, write and close keep it.
LEMMA CommitKeeps ==
  ASSUME FilesInv, NEW o \in Ops, Commit(o)
  PROVE  FilesInv'
<1> DEFINE r  == op[o].req
           pc == IF r.kind = "move" THEN "remove" ELSE "ok"
           e  == [op[o] EXCEPT !.pc = pc]
<1>1. /\ Running(o) /\ op[o].pc = "commit" /\ UNCHANGED dirs /\ Quiet
      /\ opened' = opened \ {o}
  BY DEF Commit, Running, Ended
<1>2. TypeOK /\ RunningIsTyped(o) /\ OpenIsThere(o) /\ InStep(o) /\ r \in Requests
  BY <1>1, RunningHas
<1>3. /\ r.from \in Paths /\ r.to \in Paths /\ Touched(r) = {r.from, r.to}
      /\ file' \in [Paths -> Contents] /\ file'[r.to] # None
      /\ \A p \in Paths : p # r.to => file'[p] = file[p]
      /\ o \notin disturbed /\ r.kind \in OnTwo => file'[r.to] = before[o][r.from]
  BY CommitWrites
<1>4. /\ e \in Entries /\ op' = [op EXCEPT ![o] = e] /\ op'[o].pc = pc /\ op'[o].req = r
      /\ op'[o].bytes = op[o].bytes /\ e.req = r
  <2>1. Goto(o, pc) /\ pc \in Steps \cup Ended
    BY DEF Commit, Steps, Ended
  <2> HIDE DEF pc
  <2> QED BY <1>2, <2>1, GotoIs
<1> HIDE DEF e
<1>5. Moves(o, e)
  <2>1. \A p \in Paths : file[p] # None => file'[p] # None
    BY <1>3
  <2>2. \A p \in Paths : file'[p] # None => Exists(DirOf[p])'
    <3>1. \A p \in Paths : file'[p] # None => file[p] # None
      BY <1>1, <1>2, <1>3 DEF OpenIsThere
    <3> QED BY <1>1, <1>2, <3>1 DEF TypeOK, Exists
  <2> QED BY <1>1, <1>2, <1>3, <1>4, <2>1, <2>2 DEF Moves, TypeOK
<1>6. CASE r.kind # "move"
  <2>1. RunningIsTyped(o)' /\ OpenIsThere(o)' /\ InStep(o)'
    BY <1>4, <1>6 DEF RunningIsTyped, OpenIsThere, InStep, Running, Ended
  <2> QED BY <1>5, <2>1, MoveKeeps
<1>7. CASE r.kind = "move"
  <2>1. RunningIsTyped(o)' /\ OpenIsThere(o)'
    BY <1>1, <1>2, <1>4, <1>7 DEF RunningIsTyped, OpenIsThere, StepsOf, OnTwo
  <2>2. InStep(o)'
    <3>1. SUFFICES ASSUME o \notin disturbed PROVE HasDone(o)' /\ Knows(o)'
      BY <1>1 DEF InStep, Quiet
    <3>2. HasDone(o) /\ Knows(o)
      BY <1>1, <1>2, <3>1 DEF InStep
    <3>3. HasDone(o)'
      BY <1>1, <1>3, <1>4, <1>7, <3>1, <3>2 DEF HasDone, Quiet, OnTwo
    <3>4. Knows(o)'
      BY <1>1, <1>3, <1>4, <1>7, <3>2 DEF Knows, Quiet
    <3> QED BY <3>3, <3>4
  <2> QED BY <1>5, <2>1, <2>2, MoveKeeps
<1> QED BY <1>6, <1>7

\* What removeEntry removes.
LEMMA RemoveIs ==
  ASSUME FilesInv, NEW o \in Ops, Remove(o)
  PROVE  LET r    == op[o].req
             gone == IF r.kind = "rmdir" THEN Touched(r) ELSE {r.from}
         IN  /\ Running(o) /\ op[o].pc = "remove" /\ UNCHANGED opened /\ Quiet
             /\ r.kind \in {"move", "delete", "rmdir"} /\ gone \subseteq Touched(r)
             /\ Touched(r) \subseteq Paths
             /\ r.kind # "rmdir" => r.from \in Paths /\ r.to \in Paths /\ Touched(r) = {r.from, r.to}
             /\ r.kind = "delete" => r.from = r.to
             /\ \/ Goto(o, "error") /\ UNCHANGED <<file, dirs>>
                \/ /\ Goto(o, "ok") /\ dirs' = dirs \ {r.from}
                   /\ \A u \in opened : op[u].req.to \notin gone
                   /\ file' = [p \in Paths |-> IF p \in gone THEN None ELSE file[p]]
<1> DEFINE r    == op[o].req
           gone == IF r.kind = "rmdir" THEN Touched(r) ELSE {r.from}
<1>1. Running(o) /\ op[o].pc = "remove" /\ UNCHANGED opened /\ Quiet
  BY DEF Remove, Running, Ended
<1>2. r.kind \in {"move", "delete", "rmdir"} /\ r \in Requests
  BY <1>1, RunningHas DEF StepsOf, OnFile, OnTwo, OnDir
<1>3. Touched(r) \subseteq Paths /\ (r.kind # "rmdir" => r.from \in Paths /\ r.to \in Paths /\ Touched(r) = {r.from, r.to})
  BY <1>2, TouchedIs DEF OnDir
<1>4. gone \subseteq Touched(r)
  BY <1>3
<1>5. r.kind = "delete" => r.from = r.to
  BY <1>2, RequestIs DEF OnFile
<1>6. \/ Goto(o, "error") /\ UNCHANGED <<file, dirs>>
      \/ /\ Goto(o, "ok") /\ dirs' = dirs \ {r.from}
         /\ \A u \in opened : op[u].req.to \notin gone
         /\ file' = [p \in Paths |-> IF p \in gone THEN None ELSE file[p]]
  BY DEF Remove
<1> QED BY <1>1, <1>2, <1>3, <1>4, <1>5, <1>6

\* removeEntry keeps it.
LEMMA RemoveKeeps ==
  ASSUME FilesInv, NEW o \in Ops, Remove(o)
  PROVE  FilesInv'
<1> DEFINE r    == op[o].req
           gone == IF r.kind = "rmdir" THEN Touched(r) ELSE {r.from}
           e    == [op[o] EXCEPT !.pc = "ok"]
<1>1. /\ Running(o) /\ op[o].pc = "remove" /\ UNCHANGED opened /\ Quiet
      /\ r.kind \in {"move", "delete", "rmdir"} /\ gone \subseteq Touched(r)
      /\ Touched(r) \subseteq Paths
      /\ r.kind # "rmdir" => r.from \in Paths
      /\ \/ Goto(o, "error") /\ UNCHANGED <<file, dirs>>
         \/ /\ Goto(o, "ok") /\ dirs' = dirs \ {r.from}
            /\ \A u \in opened : op[u].req.to \notin gone
            /\ file' = [p \in Paths |-> IF p \in gone THEN None ELSE file[p]]
  BY RemoveIs
<1>2. TypeOK /\ r \in Requests
  BY <1>1, RunningHas
<1>3. CASE Goto(o, "error") /\ UNCHANGED <<file, dirs>>
  BY <1>1, <1>3, EndKeeps
<1>4. CASE /\ Goto(o, "ok") /\ dirs' = dirs \ {r.from}
           /\ \A u \in opened : op[u].req.to \notin gone
           /\ file' = [p \in Paths |-> IF p \in gone THEN None ELSE file[p]]
  <2>1. /\ e \in Entries /\ op' = [op EXCEPT ![o] = e] /\ op'[o].pc = "ok" /\ e.req = r /\ e.pc = "ok"
    BY <1>2, <1>4, GotoIs DEF Ended
  <2> HIDE DEF e
  <2>2. \A p \in Paths : file'[p] # None => Exists(DirOf[p])'
    <3>1. SUFFICES ASSUME NEW p \in Paths, file'[p] # None PROVE DirOf[p] = None \/ DirOf[p] \in dirs'
      BY DEF Exists
    <3>2. p \notin gone /\ file[p] # None
      BY <1>4, <3>1
    <3>3. DirOf[p] = None \/ DirOf[p] \in dirs
      BY <1>2, <3>2 DEF TypeOK, Exists
    <3>4. DirOf[p] \in Dirs \cup {None} /\ Paths \cap Dirs = {} /\ None \notin Paths
      BY FilesAssumption
    <3>5. CASE r.kind = "rmdir"
      <4>1. DirOf[p] # r.to /\ r.from = r.to
        BY <1>2, <3>2, <3>5, TouchedIs, RequestIs DEF OnDir
      <4> QED BY <1>4, <3>3, <4>1
    <3>6. CASE r.kind # "rmdir"
      BY <1>1, <1>4, <3>3, <3>4, <3>6
    <3> QED BY <3>5, <3>6
  <2>3. file' \in [Paths -> Contents] /\ \A p \in Paths : file'[p] = IF p \in gone THEN None ELSE file[p]
    BY <1>2, <1>4, ContentIs DEF TypeOK
  <2>4. o \notin opened
    BY <1>1, <1>2 DEF TypeOK
  <2>5. \A p \in Paths : (\E u \in opened \ {o} : op[u].req.to = p) /\ file[p] # None => file'[p] # None
    BY <1>4, <2>3
  <2>6. \A p \in Paths \ Touched(op[o].req) : file'[p] = file[p]
    BY <1>1, <2>3
  <2>7. Moves(o, e)
    <3>1. dirs' \subseteq Dirs
      BY <1>2, <1>4 DEF TypeOK
    <3> QED BY <1>1, <2>1, <2>2, <2>3, <2>4, <2>5, <2>6, <3>1 DEF Moves
  <2>8. RunningIsTyped(o)' /\ OpenIsThere(o)' /\ InStep(o)'
    BY <2>1 DEF RunningIsTyped, OpenIsThere, InStep, Running, Ended
  <2> QED BY <2>7, <2>8, MoveKeeps
<1> QED BY <1>1, <1>3, <1>4

-----------------------------------------------------------------------------
(* Operations start, and are cut off.                                      *)

\* The start of an operation keeps it: those it overlaps are disturbed.
LEMMA BeginKeeps ==
  ASSUME FilesInv, NEW o \in Ops, op[o].pc = "idle", NEW e \in Entries, e.req \in Requests,
         e.pc = "ok" \/ e.pc = FirstStep(e.req.kind), Begin(o, e),
         cache' \in [Caches -> [Paths -> Contents]], UNCHANGED <<file, dirs, opened>>
  PROVE  FilesInv'
<1> DEFINE others == {u \in Ops \ {o} : Running(u) /\ Touched(op[u].req) \cap Touched(e.req) # {}}
<1>1. TypeOK
  BY DEF FilesInv
<1>2. /\ op' = [op EXCEPT ![o] = e] /\ before' = [before EXCEPT ![o] = file]
      /\ disturbed' = disturbed \cup others \cup IF others = {} THEN {} ELSE {o}
  BY DEF Begin
<1>3. /\ \A u \in Ops : u # o => op'[u] = op[u] /\ before'[u] = before[u] /\ (Running(u)' <=> Running(u))
      /\ op'[o] = e /\ before'[o] = file /\ o \notin opened
  BY <1>1, <1>2 DEF TypeOK, Running
<1>4. TypeOK'
  <2>1. others \subseteq Ops
    OBVIOUS
  <2> HIDE DEF others
  <2>2. op' \in [Ops -> Entries] /\ before' \in [Ops -> [Paths -> Contents]] /\ disturbed' \subseteq Ops
    BY <1>1, <1>2, <2>1 DEF TypeOK
  <2>3. \A u \in opened' : op'[u].pc \in {"commit", "error"}
    BY <1>1, <1>3 DEF TypeOK
  <2> QED BY <1>1, <2>2, <2>3 DEF TypeOK, Exists
<1>5. e.pc # "ok" => e.pc \in StepsOf(e.req.kind) /\ e.pc \in {"mkdir", "resolve", "look", "remove"}
  <2>1. e.req.kind \in OnFile \cup OnTwo \cup OnDir \cup {"update"}
    BY RequestIs
  <2> QED BY <2>1 DEF FirstStep, StepsOf, OnFile, OnTwo, OnDir
<1>6. e.pc # "ok" =>
        /\ e.req.kind \in OnTwo \cup {"read", "setFiles"} => e.pc = "look"
        /\ e.pc = "remove" => e.req.kind # "move"
  BY DEF FirstStep, OnTwo
<1>7. \A u \in Ops : RunningIsTyped(u)' /\ OpenIsThere(u)'
  <2>1. RunningIsTyped(o)' /\ OpenIsThere(o)'
    BY <1>3, <1>5, <1>6 DEF RunningIsTyped, OpenIsThere, Running, Ended
  <2>2. ASSUME NEW u \in Ops, u # o PROVE RunningIsTyped(u)' /\ OpenIsThere(u)'
    BY <1>3, <2>2 DEF FilesInv, RunningIsTyped, OpenIsThere
  <2> QED BY <2>1, <2>2
<1>8. \A u \in Ops : InStep(u)'
  <2>1. InStep(o)'
    <3>1. SUFFICES ASSUME Running(o)' PROVE HasDone(o)' /\ Knows(o)'
      BY DEF InStep
    <3>2. e.pc # "ok"
      BY <1>3, <3>1 DEF Running, Ended
    <3>3. HasDone(o)'
      BY <1>3, <1>5, <1>6, <3>2 DEF HasDone
    <3>4. Knows(o)'
      BY <1>3, <1>5, <1>6, <3>2 DEF Knows
    <3> QED BY <3>3, <3>4
  <2>2. ASSUME NEW u \in Ops, u # o PROVE InStep(u)'
    <3>1. InStep(u) /\ (u \notin disturbed' => u \notin disturbed)
      BY <1>2 DEF FilesInv
    <3> HIDE DEF others
    <3> QED BY <1>3, <2>2, <3>1 DEF InStep, HasDone, Knows
  <2> QED BY <2>1, <2>2
<1>9. \A u, v \in Ops : OverlapIsSeen(u, v)'
  <2>1. SUFFICES ASSUME NEW u \in Ops, NEW v \in Ops, u # v, Running(u)', Running(v)',
                        Touched(op'[u].req) \cap Touched(op'[v].req) # {}
                 PROVE  u \in disturbed' /\ v \in disturbed'
    BY DEF OverlapIsSeen, Touched
  <2>2. CASE u # o /\ v # o
    BY <1>2, <1>3, <2>1, <2>2 DEF FilesInv, OverlapIsSeen
  <2>3. CASE u = o
    <3>1. v \in others
      BY <1>3, <2>1, <2>3
    <3> HIDE DEF others
    <3> QED BY <1>2, <2>3, <3>1
  <2>4. CASE v = o
    <3>1. u \in others
      BY <1>3, <2>1, <2>4
    <3> HIDE DEF others
    <3> QED BY <1>2, <2>4, <3>1
  <2> QED BY <2>2, <2>3, <2>4
<1> QED BY <1>4, <1>7, <1>8, <1>9 DEF FilesInv

\* A call keeps it.
LEMMA StartKeeps ==
  ASSUME FilesInv, NEW o \in Ops, Start(o)
  PROVE  FilesInv'
<1>1. TypeOK
  BY DEF FilesInv
<1>2. PICK r \in Requests :
        /\ Begin(o, [Idle EXCEPT !.req = r, !.pc = FirstStep(r.kind)])
        /\ cache' = CASE r.kind = "writeBase64"  -> [cache EXCEPT !["wasm"][r.to] = <<o>>]
                      [] r.kind = "fsCallBase64" -> [cache EXCEPT !["js"][r.to] = <<o>>]
                      [] OTHER -> cache
  BY DEF Start
<1> DEFINE e == [Idle EXCEPT !.req = r, !.pc = FirstStep(r.kind)]
<1>3. r.kind \in OnFile \cup OnTwo \cup OnDir \cup {"update"} /\ (r.kind \in OnFile => r.to \in Paths)
  BY RequestIs
<1>4. FirstStep(r.kind) \in Steps
  BY <1>3 DEF FirstStep, Steps, OnFile, OnTwo, OnDir
<1>5. e \in Entries /\ e.req = r /\ e.pc = FirstStep(r.kind)
  <2>1. None \in Contents /\ <<>> \in Seq(Blocks)
    BY ContentIs
  <2> QED BY <1>4, <2>1 DEF Entries, Idle
<1>6. cache' \in [Caches -> [Paths -> Contents]]
  <2>1. \A k \in Caches, p \in Paths : [cache EXCEPT ![k][p] = <<o>>] \in [Caches -> [Paths -> Contents]]
    BY <1>1, ContentIs DEF TypeOK
  <2>2. r.kind \in {"writeBase64", "fsCallBase64"} => r.to \in Paths
    BY <1>3 DEF OnFile
  <2>3. "wasm" \in Caches /\ "js" \in Caches
    BY DEF Caches
  <2> QED BY <1>1, <1>2, <2>1, <2>2, <2>3 DEF TypeOK
<1>7. Begin(o, e) /\ op[o].pc = "idle" /\ UNCHANGED <<file, dirs, opened>>
  BY <1>2 DEF Start
<1> HIDE DEF e
<1> QED BY <1>5, <1>6, <1>7, BeginKeeps

\* So does setFiles of a path that is cached.
LEMMA TakeCachedKeeps ==
  ASSUME FilesInv, NEW o \in Ops, TakeCached(o)
  PROVE  FilesInv'
<1>1. TypeOK
  BY DEF FilesInv
<1>2. PICK p \in Paths, k \in Caches :
        /\ Begin(o, [Idle EXCEPT !.req = Request("setFiles", p, p, 0),
                                 !.pc = "ok", !.bytes = cache[k][p]])
        /\ cache' = [cache EXCEPT ![k][p] = None]
  BY DEF TakeCached
<1> DEFINE r == Request("setFiles", p, p, 0)
           e == [Idle EXCEPT !.req = r, !.pc = "ok", !.bytes = cache[k][p]]
<1>3. r \in Requests
  BY DEF TakeCached, Requests, Request, OnFile
<1>4. e \in Entries /\ e.req = r /\ e.pc = "ok"
  <2>1. cache[k][p] \in Contents /\ <<>> \in Seq(Blocks)
    BY <1>1, ContentIs DEF TypeOK
  <2> HIDE DEF r
  <2> QED BY <1>3, <2>1 DEF Entries, Idle, Ended
<1>5. cache' \in [Caches -> [Paths -> Contents]]
  <2>1. None \in Contents
    BY ContentIs
  <2> QED BY <1>1, <1>2, <2>1 DEF TypeOK
<1>6. Begin(o, e) /\ op[o].pc = "idle" /\ UNCHANGED <<file, dirs, opened>>
  BY <1>2 DEF TakeCached
<1> HIDE DEF e, r
<1> QED BY <1>3, <1>4, <1>5, <1>6, BeginKeeps

\* The end of a worker keeps it.
LEMMA TerminateKeeps ==
  ASSUME FilesInv, NEW lost \in SUBSET Ops, Terminate(lost)
  PROVE  FilesInv'
<1>1. TypeOK
  BY DEF FilesInv
<1>2. /\ op' = [o \in Ops |-> IF o \in lost THEN [op[o] EXCEPT !.pc = "lost"] ELSE op[o]]
      /\ opened' = opened \ lost /\ cache' \in {cache, NoCache} /\ UNCHANGED <<file, dirs, before, disturbed>>
  BY DEF Terminate
<1>3. ASSUME NEW o \in Ops, o \notin lost
      PROVE  op'[o] = op[o] /\ (o \in opened' <=> o \in opened) /\ (Running(o)' <=> Running(o))
  BY <1>2, <1>3 DEF Running
<1>4. ASSUME NEW o \in lost
      PROVE  /\ op'[o] \in Entries /\ op'[o].pc = "lost" /\ op'[o].req = op[o].req
             /\ o \notin opened' /\ ~Running(o)'
  <2>1. op'[o] = [op[o] EXCEPT !.pc = "lost"] /\ op[o] \in Entries /\ o \notin opened'
    BY <1>1, <1>2 DEF TypeOK
  <2>2. op'[o] \in Entries /\ op'[o].pc = "lost" /\ op'[o].req = op[o].req
    BY <2>1 DEF Entries, Ended
  <2> QED BY <2>1, <2>2 DEF Running, Ended
<1>5. TypeOK'
  <2>1. op' \in [Ops -> Entries]
    <3>1. \A o \in Ops : op'[o] \in Entries
      BY <1>1, <1>3, <1>4 DEF TypeOK
    <3> QED BY <1>2, <3>1
  <2>2. cache' \in [Caches -> [Paths -> Contents]]
    BY <1>1, <1>2, ContentIs DEF TypeOK, NoCache
  <2>3. \A o \in opened' : op'[o].pc \in {"commit", "error"}
    BY <1>1, <1>2, <1>3 DEF TypeOK
  <2> QED BY <1>1, <1>2, <2>1, <2>2, <2>3 DEF TypeOK, Exists
<1>6. ASSUME NEW o \in Ops PROVE RunningIsTyped(o)' /\ OpenIsThere(o)' /\ InStep(o)'
  <2>1. RunningIsTyped(o) /\ OpenIsThere(o) /\ InStep(o)
    BY DEF FilesInv
  <2>2. CASE o \in lost
    BY <1>4, <2>2 DEF RunningIsTyped, OpenIsThere, InStep
  <2>3. CASE o \notin lost
    BY <1>2, <1>3, <2>1, <2>3 DEF RunningIsTyped, OpenIsThere, InStep, HasDone, Knows
  <2> QED BY <2>2, <2>3
<1>7. ASSUME NEW o \in Ops, NEW u \in Ops PROVE OverlapIsSeen(o, u)'
  <2>1. OverlapIsSeen(o, u)
    BY DEF FilesInv
  <2>2. /\ Running(o)' => Running(o) /\ op'[o] = op[o]
        /\ Running(u)' => Running(u) /\ op'[u] = op[u]
    BY <1>3, <1>4
  <2> QED BY <1>2, <2>1, <2>2 DEF OverlapIsSeen
<1> QED BY <1>5, <1>6, <1>7 DEF FilesInv

\* So do the collection of a stream and the reset of the caches.
LEMMA CollectKeeps ==
  ASSUME FilesInv, NEW o \in Ops, Collect(o)
  PROVE  FilesInv'
<1>1. TypeOK /\ op[o].pc # "commit" /\ opened' = opened \ {o} /\ UNCHANGED <<file, dirs, op>> /\ Quiet
  BY DEF FilesInv, Collect, Running, Ended
<1>2. TypeOK'
  BY <1>1 DEF TypeOK, Quiet, Exists
<1>3. \A u \in Ops : RunningIsTyped(u)' /\ OpenIsThere(u)' /\ InStep(u)'
  BY <1>1 DEF FilesInv, RunningIsTyped, OpenIsThere, InStep, HasDone, Knows, Quiet, Running
<1>4. \A u, v \in Ops : OverlapIsSeen(u, v)'
  BY <1>1 DEF FilesInv, OverlapIsSeen, Running, Quiet
<1> QED BY <1>2, <1>3, <1>4 DEF FilesInv

\* Only the write caches change.
LEMMA ResetKeeps ==
  ASSUME FilesInv, UNCHANGED <<file, dirs, opened, op, before, disturbed>>,
         cache' \in [Caches -> [Paths -> Contents]]
  PROVE  FilesInv'
<1>1. TypeOK'
  BY DEF FilesInv, TypeOK, Exists
<1>2. \A u \in Ops : RunningIsTyped(u)' /\ OpenIsThere(u)' /\ InStep(u)'
  BY DEF FilesInv, RunningIsTyped, OpenIsThere, InStep, HasDone, Knows, Running
<1>3. \A u, v \in Ops : OverlapIsSeen(u, v)'
  BY DEF FilesInv, OverlapIsSeen, Running
<1> QED BY <1>1, <1>2, <1>3 DEF FilesInv

-----------------------------------------------------------------------------
(* The theorems.                                                           *)

\* The first states.
LEMMA FilesInit == Init => FilesInv
<1> SUFFICES ASSUME Init PROVE FilesInv
  OBVIOUS
<1>1. \A p \in Paths : <<p>> \in Seq(Blocks)
  BY DEF Blocks
<1>2. file \in [Paths -> Contents]
  BY <1>1, ContentIs DEF Init
<1>3. Idle \in Entries
  BY ContentIs DEF Idle, Entries
<1>4. TypeOK
  BY <1>2, <1>3, ContentIs DEF Init, TypeOK, NoCache
<1>5. \A o \in Ops : op[o].pc = "idle"
  BY DEF Init, Idle
<1> QED BY <1>4, <1>5 DEF FilesInv, RunningIsTyped, OpenIsThere, InStep, OverlapIsSeen, Running

\* Every step of an operation keeps it.
LEMMA AwaitKeeps ==
  ASSUME FilesInv, NEW o \in Ops, Await(o)
  PROVE  FilesInv'
BY EnsureDirKeeps, EnsureFileKeeps, ResolveKeeps, SizeKeeps, OpenKeeps, CommitKeeps, LookKeeps,
   TakeKeeps, RemoveKeeps DEF Await

\* Every step.
LEMMA FilesStep == FilesInv /\ [Next]_vars => FilesInv'
<1> SUFFICES ASSUME FilesInv, [Next]_vars PROVE FilesInv'
  OBVIOUS
<1>1. TypeOK
  BY DEF FilesInv
<1>2. ASSUME NEW o \in Ops, Start(o) PROVE FilesInv'
  BY <1>2, StartKeeps
<1>3. ASSUME NEW o \in Ops, TakeCached(o) PROVE FilesInv'
  BY <1>3, TakeCachedKeeps
<1>4. ASSUME NEW o \in Ops, Await(o) PROVE FilesInv'
  BY <1>4, AwaitKeeps
<1>5. ASSUME NEW o \in Ops, Fail(o) PROVE FilesInv'
  BY <1>5, EndKeeps DEF Fail
<1>6. ASSUME NEW o \in Ops, Collect(o) PROVE FilesInv'
  BY <1>6, CollectKeeps
<1>7. ASSUME NEW lost \in SUBSET {o \in Ops : Running(o)}, Terminate(lost) PROVE FilesInv'
  <2>1. lost \in SUBSET Ops
    OBVIOUS
  <2> QED BY <1>7, <2>1, TerminateKeeps
<1>8. ASSUME Reset PROVE FilesInv'
  <2>1. NoCache \in [Caches -> [Paths -> Contents]]
    BY ContentIs DEF NoCache
  <2> QED BY <1>8, <2>1, ResetKeeps DEF Reset
<1>9. ASSUME UNCHANGED vars PROVE FilesInv'
  BY <1>1, <1>9, ResetKeeps DEF vars, TypeOK
<1> QED BY <1>2, <1>3, <1>4, <1>5, <1>6, <1>7, <1>8, <1>9 DEF Next

\* The inductive invariant: every operation that none overlapped is in step with
\* its files (the awaits of opfs.rs).
THEOREM FilesInvariant == Spec => []FilesInv
BY FilesInit, FilesStep, PTL DEF Spec

\* Files are contents in directories that exist, and only operations that write,
\* or whose write failed, have a stream open.
THEOREM FilesTypes == Spec => []TypeOK
<1>1. FilesInv => TypeOK
  BY DEF FilesInv
<1> QED BY <1>1, FilesInvariant, PTL

\* Between any two awaits of an operation that none overlapped its files are
\* whole, so that nothing is lost if it fails or is cut off there.
THEOREM FilesStayWhole == Spec => []UndisturbedIsWhole
<1>1. FilesInv => UndisturbedIsWhole
  <2> SUFFICES ASSUME FilesInv, NEW o \in Ops \ disturbed, Running(o), NEW p \in Touched(op[o].req)
               PROVE  \/ file[p] = before[o][p]
                      \/ p = op[o].req.to /\ before[o][p] = None /\ file[p] = <<>>
                      \/ p = op[o].req.to /\ op[o].pc = "remove" /\ file[p] = before[o][op[o].req.from]
    BY DEF UndisturbedIsWhole
  <2>1. HasDone(o)
    BY DEF FilesInv, InStep
  <2> QED BY <2>1 DEF HasDone, Created
<1> QED BY <1>1, FilesInvariant, PTL

\* What such an operation has done when it reports success.
Exact(o) ==
  /\ \A p \in Touched(op[o].req) : file'[p] = Effect(o, before[o], p)
  /\ op[o].req.kind \in {"read", "setFiles"} => op'[o].bytes = before[o][op[o].req.from]

\* An operation whose stream has been closed has done it, unless it has to remove
\* the source yet.
LEMMA CommitIsExact ==
  ASSUME FilesInv, NEW o \in Ops \ disturbed, Commit(o), op'[o].pc = "ok"
  PROVE  Exact(o)
<1> DEFINE r == op[o].req
<1>1. /\ r.from \in Paths /\ r.to \in Paths /\ Touched(r) = {r.from, r.to}
      /\ r.kind \in {"write", "writeBase64", "fsCallBase64", "append", "update", "copy", "move"}
      /\ \A p \in Paths : p # r.to => file'[p] = file[p]
      /\ r.kind \in {"write", "writeBase64", "fsCallBase64"} => file'[r.to] = <<o>>
      /\ r.kind = "append" => file'[r.to] = Created(before[o][r.to]) \o <<o>>
      /\ r.kind = "update" => file'[r.to] = Put(before[o][r.to], r.offset, <<o>>)
      /\ r.kind \in OnTwo => file'[r.to] = before[o][r.from]
  BY CommitWrites
<1>2. Running(o) /\ op[o].pc = "commit"
  BY DEF Commit, Running, Ended
<1>3. TypeOK /\ HasDone(o) /\ r \in Requests /\ (r.kind \in OnFile \cup {"update"} => r.from = r.to)
  BY <1>2, RunningHas DEF InStep
<1>4. r.kind # "move"
  <2>1. r.kind = "move" => op'[o].pc = "remove"
    BY <1>3 DEF Commit, Goto, TypeOK, Entries
  <2> QED BY <2>1
<1>5. ASSUME NEW p \in Touched(r) PROVE file'[p] = Effect(o, before[o], p)
  <2>1. CASE p = r.to
    BY <1>1, <1>4, <2>1 DEF Effect, Created, OnTwo
  <2>2. CASE p # r.to
    <3>1. r.kind = "copy" /\ file'[p] = before[o][p]
      BY <1>1, <1>3, <1>4, <1>5, <2>2 DEF HasDone, OnFile
    <3> QED BY <2>2, <3>1 DEF Effect, OnTwo
  <2> QED BY <2>1, <2>2
<1> QED BY <1>1, <1>5 DEF Exact

\* So has one that has removed what it was to remove.
LEMMA RemoveIsExact ==
  ASSUME FilesInv, NEW o \in Ops \ disturbed, Remove(o), op'[o].pc = "ok",
         ~(op[o].req.kind = "move" /\ op[o].req.from = op[o].req.to)
  PROVE  Exact(o)
<1> DEFINE r    == op[o].req
           gone == IF r.kind = "rmdir" THEN Touched(r) ELSE {r.from}
<1>1. /\ Running(o) /\ op[o].pc = "remove"
      /\ r.kind \in {"move", "delete", "rmdir"} /\ Touched(r) \subseteq Paths
      /\ r.kind # "rmdir" => r.from \in Paths /\ r.to \in Paths /\ Touched(r) = {r.from, r.to}
      /\ r.kind = "delete" => r.from = r.to
      /\ \/ Goto(o, "error") /\ UNCHANGED <<file, dirs>>
         \/ /\ Goto(o, "ok") /\ dirs' = dirs \ {r.from}
            /\ \A u \in opened : op[u].req.to \notin gone
            /\ file' = [p \in Paths |-> IF p \in gone THEN None ELSE file[p]]
  BY RemoveIs
<1>2. TypeOK /\ HasDone(o) /\ r \in Requests
  BY <1>1, RunningHas DEF InStep
<1>3. ~Goto(o, "error")
  BY <1>2 DEF Goto, TypeOK, Entries
<1>4. \A p \in Paths : file'[p] = IF p \in gone THEN None ELSE file[p]
  BY <1>1, <1>3
<1>5. ASSUME NEW p \in Touched(r) PROVE file'[p] = Effect(o, before[o], p)
  <2>1. CASE r.kind = "delete" \/ r.kind = "rmdir"
    BY <1>1, <1>4, <1>5, <2>1 DEF Effect, OnTwo
  <2>2. CASE r.kind = "move" /\ p = r.to
    <3>1. p \notin gone /\ file[p] = before[o][r.from]
      BY <1>1, <1>2, <1>5, <2>2 DEF HasDone
    <3> QED BY <1>1, <1>4, <1>5, <2>2, <3>1 DEF Effect, OnTwo
  <2>3. CASE r.kind = "move" /\ p # r.to
    BY <1>1, <1>4, <1>5, <2>3 DEF Effect, OnTwo
  <2> QED BY <1>1, <2>1, <2>2, <2>3
<1> QED BY <1>1, <1>5 DEF Exact

\* So has a read, and a mkdir, which is about no file.
LEMMA OthersAreExact ==
  ASSUME FilesInv, NEW o \in Ops \ disturbed, EnsureDir(o) \/ Take(o), op'[o].pc = "ok"
  PROVE  Exact(o)
<1> DEFINE r == op[o].req
<1>1. Running(o) /\ UNCHANGED file
  BY DEF EnsureDir, Take, Running, Ended
<1>2. /\ TypeOK /\ HasDone(o) /\ Knows(o) /\ r \in Requests /\ op[o].pc \in StepsOf(r.kind)
      /\ r.kind = "mkdir" => Touched(r) = {}
      /\ r.kind \in {"read", "setFiles"} => Touched(r) = {r.from, r.to} /\ r.from = r.to
  BY <1>1, RunningHas DEF InStep, OnDir, OnFile
<1>3. CASE EnsureDir(o)
  <2>1. r.kind = "mkdir"
    BY <1>2, <1>3 DEF EnsureDir, Goto, TypeOK, Entries
  <2> QED BY <1>2, <2>1 DEF Exact
<1>4. CASE Take(o)
  <2>1. op[o].pc = "take" /\ r.kind \in {"read", "setFiles"} /\ op'[o].bytes = op[o].bytes
    <3>1. op[o].pc = "take" /\ r.kind \notin OnTwo /\ op'[o].bytes = op[o].bytes
      BY <1>2, <1>4 DEF Take, Goto, TypeOK, Entries
    <3>2. r.kind \in {"copy", "move", "read", "setFiles"}
      <4>1. r.kind \in OnFile \cup OnTwo \cup OnDir \cup {"update"}
        BY <1>2, RequestIs
      <4> QED BY <1>2, <3>1, <4>1 DEF StepsOf, OnFile, OnTwo, OnDir
    <3> QED BY <3>1, <3>2 DEF OnTwo
  <2>2. op'[o].bytes = before[o][r.from]
    BY <1>2, <2>1 DEF Knows
  <2>3. ASSUME NEW p \in Touched(r) PROVE file'[p] = Effect(o, before[o], p)
    BY <1>1, <1>2, <2>1, <2>3 DEF HasDone, Effect, OnTwo
  <2> QED BY <2>2, <2>3 DEF Exact
<1> QED BY <1>3, <1>4

\* A step that ends an operation well, which none overlapped, leaves exactly what it says.
LEMMA ExactStep ==
  ASSUME FilesInv, Next, NEW o \in Ops \ disturbed', Running(o), op'[o].pc = "ok",
         ~(op[o].req.kind = "move" /\ op[o].req.from = op[o].req.to)
  PROVE  Exact(o)
<1>1. TypeOK /\ op[o].pc # "ok" /\ op[o].pc # "idle"
  BY DEF FilesInv, Running, Ended
<1>2. op'[o] # op[o]
  BY <1>1
<1>3. ASSUME NEW u \in Ops, Start(u) \/ TakeCached(u) PROVE FALSE
  <2>1. op[u].pc = "idle" /\ \E e : op' = [op EXCEPT ![u] = e]
    BY <1>3 DEF Start, TakeCached, Begin
  <2> QED BY <1>1, <1>2, <2>1 DEF TypeOK
<1>4. ASSUME NEW u \in Ops, Fail(u) \/ Collect(u) PROVE FALSE
  <2>1. op' = op \/ Goto(u, "error")
    BY <1>4 DEF Fail, Collect
  <2> QED BY <1>1, <1>2, <2>1 DEF TypeOK, Entries, Goto
<1>5. ASSUME NEW lost \in SUBSET Ops, Terminate(lost) PROVE FALSE
  BY <1>1, <1>2, <1>5 DEF Terminate, TypeOK, Entries
<1>6. ASSUME Reset PROVE FALSE
  BY <1>2, <1>6 DEF Reset
<1>7. ASSUME NEW u \in Ops, Await(u) PROVE Exact(o)
  <2>1. disturbed' = disturbed /\ \A v \in Ops \ {u} : op'[v] = op[v]
    BY <1>1, <1>7 DEF Await, EnsureDir, EnsureFile, Resolve, Size, Open, Commit, Look, Take, Remove,
                      Goto, Quiet, TypeOK
  <2>2. u = o /\ o \in Ops \ disturbed
    BY <1>2, <2>1
  <2>3. EnsureDir(o) \/ Take(o) \/ Commit(o) \/ Remove(o)
    BY <1>1, <1>7, <2>2 DEF Await, EnsureFile, Resolve, Size, Open, Look, Goto, TypeOK, Entries
  <2> QED BY <2>2, <2>3, CommitIsExact, RemoveIsExact, OthersAreExact
<1> QED
  <2>1. \A lost \in SUBSET {v \in Ops : Running(v)} : lost \in SUBSET Ops
    OBVIOUS
  <2> QED BY <1>3, <1>4, <1>5, <1>6, <1>7, <2>1 DEF Next

\* An operation that reports success, and that none overlapped, has done exactly
\* what it says to its files, and what it read of them is what was there.  A setFiles
\* that takes cached bytes reads no file; a move of a file to its own path is left out.
THEOREM FilesAreExact == Spec => UndisturbedIsExact
<1>1. FilesInv /\ [Next]_vars =>
        [\A o \in Ops \ disturbed' :
           Running(o) /\ op'[o].pc = "ok"
             /\ ~(op[o].req.kind = "move" /\ op[o].req.from = op[o].req.to) =>
               /\ \A p \in Touched(op[o].req) : file'[p] = Effect(o, before[o], p)
               /\ op[o].req.kind \in {"read", "setFiles"} =>
                    op'[o].bytes = before[o][op[o].req.from]]_vars
  BY ExactStep DEF Exact
<1> QED BY <1>1, FilesInvariant, PTL DEF Spec, UndisturbedIsExact
=============================================================================
