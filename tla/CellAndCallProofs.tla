-------------------------- MODULE CellAndCallProofs --------------------------
(***************************************************************************)
(* The theorems about the cell loop: each call of a cell is executed and   *)
(* resumed once, over batches, timers that fire, are cleared or throw, and *)
(* calls made while others are resumed; and the status a cell ends with is *)
(* true, for any number of calls and cells.                                *)
(*                                                                         *)
(* The inductive invariant is CellInv: beside the properties it says where *)
(* commands may wait at each point of the loop, and what its result says   *)
(* of the VM.                                                              *)
(*                                                                         *)
(* The theorems about one call: what its handler in Rust is told is what   *)
(* the call means, for every API whose tables fit together and every list  *)
(* of arguments.  CallsInv says that a call under way has the parameters   *)
(* that were transported; the rest is a case for each form of arguments.   *)
(***************************************************************************)
EXTENDS CellLoop, ApiCalls, SequenceTheorems, FiniteSetTheorems, WellFoundedInduction, TLAPS

(***************************************************************************)
(* Induction over the numbers, for a set.                                  *)
(***************************************************************************)

\* A set of numbers that is not empty has a least one.
LEMMA LeastNumber ==
  ASSUME NEW S \in SUBSET Nat, S # {}
  PROVE  \E m \in S : \A i \in S : m <= i
<1> DEFINE below == {0..n : n \in S}
<1>1. below \subseteq FiniteSubsetsOf(Nat) /\ below # {}
  <2>1. \A n \in S : 0..n \in SUBSET Nat /\ IsFiniteSet(0..n)
    BY FS_Interval
  <2> QED BY <2>1 DEF FiniteSubsetsOf
<1>2. \E x \in below : \A y \in below : ~ (<<y, x>> \in StrictSubsetOrdering(Nat))
  BY <1>1, FS_StrictSubsetOrderingWellFounded, WFMin
<1>3. PICK m \in S : \A y \in below : ~ (<<y, 0..m>> \in StrictSubsetOrdering(Nat))
  BY <1>2
<1>4. ASSUME NEW n \in S, n < m PROVE FALSE
  <2>1. 0..n \in SUBSET Nat /\ 0..m \in SUBSET Nat /\ 0..n \subseteq 0..m /\ 0..n # 0..m
    <3>1. m \in 0..m /\ m \notin 0..n /\ 0..n \subseteq 0..m
      BY <1>4
    <3> QED BY <3>1
  <2> QED BY <1>3, <2>1 DEF StrictSubsetOrdering
<1> QED BY <1>4

\* A set with 0 and with the successor of each of its numbers has them all.
LEMMA SetInduction ==
  ASSUME NEW S \in SUBSET Nat, 0 \in S, \A n \in S : n + 1 \in S
  PROVE  S = Nat
<1> SUFFICES ASSUME Nat \ S # {} PROVE FALSE
  OBVIOUS
<1>1. PICK m \in Nat \ S : \A i \in Nat \ S : m <= i
  BY LeastNumber
<1>2. m # 0 /\ m - 1 \in Nat
  OBVIOUS
<1>3. m - 1 \in S
  BY <1>1, <1>2
<1>4. (m - 1) + 1 \in S
  BY <1>3
<1>5. (m - 1) + 1 = m
  OBVIOUS
<1> QED BY <1>4, <1>5

(***************************************************************************)
(* Sequences of commands.                                                  *)
(***************************************************************************)

\* The commands of a sequence, and when none is in it twice.
LEMMA CommandsAre ==
  ASSUME NEW T, NEW s \in Seq(T)
  PROVE  /\ DOMAIN s = 1..Len(s) /\ Len(s) \in Nat
         /\ Commands(s) = {s[i] : i \in 1..Len(s)} /\ Commands(s) \subseteq T
         /\ IsInjective(s) <=> \A i, j \in 1..Len(s) : s[i] = s[j] => i = j
         /\ s = <<>> <=> Commands(s) = {}
<1>1. DOMAIN s = 1..Len(s) /\ Len(s) \in Nat /\ \A i \in 1..Len(s) : s[i] \in T
  BY LenProperties, ElementOfSeq
<1>2. s = <<>> <=> Len(s) = 0
  BY EmptySeq
<1>3. Len(s) = 0 <=> Commands(s) = {}
  <2>1. Len(s) # 0 => 1 \in 1..Len(s)
    BY <1>1
  <2>2. Len(s) = 0 => 1..Len(s) = {}
    BY <1>1
  <2> QED BY <1>1, <2>1, <2>2 DEF Commands
<1> QED BY <1>1, <1>2, <1>3 DEF Commands, IsInjective

\* An empty queue has no commands, and none twice.
LEMMA NoCommands == Commands(<<>>) = {} /\ IsInjective(<<>>)
BY DEF Commands, IsInjective

\* Two sequences one after the other.
LEMMA CommandsOfBoth ==
  ASSUME NEW T, NEW s \in Seq(T), NEW t \in Seq(T)
  PROVE  /\ s \o t \in Seq(T)
         /\ Commands(s \o t) = Commands(s) \cup Commands(t)
         /\ IsInjective(s \o t) <=>
              IsInjective(s) /\ IsInjective(t) /\ Commands(s) \cap Commands(t) = {}
<1>1. /\ s \o t \in Seq(T) /\ Len(s \o t) = Len(s) + Len(t) /\ Len(s) \in Nat /\ Len(t) \in Nat
      /\ \A i \in 1..Len(s) + Len(t) : (s \o t)[i] = IF i <= Len(s) THEN s[i] ELSE t[i - Len(s)]
  BY ConcatProperties, LenProperties
<1> DEFINE u == s \o t
<1> HIDE DEF u
<1>2. /\ Len(u) = Len(s) + Len(t) /\ Len(s) \in Nat /\ Len(t) \in Nat /\ u \in Seq(T)
      /\ \A i \in 1..Len(s) : i \in 1..Len(u) /\ u[i] = s[i]
      /\ \A i \in 1..Len(t) : Len(s) + i \in 1..Len(u) /\ u[Len(s) + i] = t[i]
      /\ \A i \in 1..Len(u) : i \in 1..Len(s) \/ (i - Len(s) \in 1..Len(t) /\ u[i] = t[i - Len(s)])
  BY <1>1 DEF u
<1>3. /\ Commands(s) = {s[i] : i \in 1..Len(s)} /\ Commands(t) = {t[i] : i \in 1..Len(t)}
      /\ Commands(u) = {u[i] : i \in 1..Len(u)}
      /\ IsInjective(s) <=> \A i, j \in 1..Len(s) : s[i] = s[j] => i = j
      /\ IsInjective(t) <=> \A i, j \in 1..Len(t) : t[i] = t[j] => i = j
      /\ IsInjective(u) <=> \A i, j \in 1..Len(u) : u[i] = u[j] => i = j
  BY <1>2, CommandsAre
<1>4. Commands(u) = Commands(s) \cup Commands(t)
  <2>1. ASSUME NEW i \in 1..Len(u) PROVE u[i] \in Commands(s) \cup Commands(t)
    <3>1. CASE i \in 1..Len(s)
      BY <1>2, <1>3, <3>1
    <3>2. CASE i - Len(s) \in 1..Len(t) /\ u[i] = t[i - Len(s)]
      BY <1>3, <3>2
    <3> QED BY <1>2, <3>1, <3>2
  <2>2. Commands(s) \subseteq Commands(u) /\ Commands(t) \subseteq Commands(u)
    BY <1>2, <1>3
  <2>3. Commands(u) \subseteq Commands(s) \cup Commands(t)
    BY <1>3, <2>1
  <2> QED BY <2>2, <2>3
<1>5. ASSUME IsInjective(u)
      PROVE  IsInjective(s) /\ IsInjective(t) /\ Commands(s) \cap Commands(t) = {}
  <2>1. IsInjective(s)
    BY <1>2, <1>3, <1>5
  <2>2. ASSUME NEW i \in 1..Len(t), NEW j \in 1..Len(t), t[i] = t[j] PROVE i = j
    <3>1. Len(s) + i \in 1..Len(u) /\ Len(s) + j \in 1..Len(u) /\ u[Len(s) + i] = u[Len(s) + j]
      BY <1>2, <2>2
    <3>2. Len(s) + i = Len(s) + j
      BY <1>3, <1>5, <3>1
    <3> QED BY <1>2, <3>2
  <2>3. ASSUME NEW i \in 1..Len(s), NEW j \in 1..Len(t), s[i] = t[j] PROVE FALSE
    <3>1. i = Len(s) + j
      BY <1>2, <1>3, <1>5, <2>3
    <3> QED BY <1>2, <3>1
  <2> QED BY <1>3, <2>1, <2>2, <2>3
<1>6. ASSUME IsInjective(s), IsInjective(t), Commands(s) \cap Commands(t) = {}
      PROVE  IsInjective(u)
  <2>1. SUFFICES ASSUME NEW i \in 1..Len(u), NEW j \in 1..Len(u), u[i] = u[j] PROVE i = j
    BY <1>3
  <2>2. CASE i \in 1..Len(s) /\ j \in 1..Len(s)
    BY <1>2, <1>3, <1>6, <2>1, <2>2
  <2>3. CASE i \notin 1..Len(s) /\ j \notin 1..Len(s)
    <3>1. i - Len(s) \in 1..Len(t) /\ j - Len(s) \in 1..Len(t) /\ t[i - Len(s)] = t[j - Len(s)]
      BY <1>2, <2>1, <2>3
    <3>2. i - Len(s) = j - Len(s)
      BY <1>3, <1>6, <3>1
    <3>3. i \in Nat /\ j \in Nat
      BY <1>2, <2>1
    <3> QED BY <1>2, <3>2, <3>3
  <2>4. CASE i \in 1..Len(s) /\ j \notin 1..Len(s)
    <3>1. j - Len(s) \in 1..Len(t) /\ s[i] = t[j - Len(s)]
      BY <1>2, <2>1, <2>4
    <3>2. s[i] \in Commands(s) /\ t[j - Len(s)] \in Commands(t)
      BY <1>3, <2>4, <3>1
    <3> QED BY <1>6, <3>1, <3>2
  <2>5. CASE i \notin 1..Len(s) /\ j \in 1..Len(s)
    <3>1. i - Len(s) \in 1..Len(t) /\ s[j] = t[i - Len(s)]
      BY <1>2, <2>1, <2>5
    <3>2. s[j] \in Commands(s) /\ t[i - Len(s)] \in Commands(t)
      BY <1>3, <2>5, <3>1
    <3> QED BY <1>6, <3>1, <3>2
  <2> QED BY <2>2, <2>3, <2>4, <2>5
<1>7. u \in Seq(T) /\ Commands(u) = Commands(s) \cup Commands(t)
      /\ (IsInjective(u) <=> IsInjective(s) /\ IsInjective(t) /\ Commands(s) \cap Commands(t) = {})
  BY <1>2, <1>4, <1>5, <1>6
<1> QED BY <1>7 DEF u

\* One more command at the end.
LEMMA OneCommand == \A x : Commands(<<x>>) = {x} /\ IsInjective(<<x>>)
BY DEF Commands, IsInjective

\* A queue with one command more.
LEMMA CommandsAppend ==
  ASSUME NEW T, NEW s \in Seq(T), NEW x \in T
  PROVE  /\ Append(s, x) \in Seq(T) /\ Commands(Append(s, x)) = Commands(s) \cup {x}
         /\ IsInjective(s) /\ x \notin Commands(s) => IsInjective(Append(s, x))
<1>1. Append(s, x) = s \o <<x>> /\ <<x>> \in Seq(T)
  BY AppendIsConcat
<1> DEFINE e == <<x>>
<1>2. e \in Seq(T) /\ Append(s, x) = s \o e /\ Commands(e) = {x} /\ IsInjective(e)
  BY <1>1, OneCommand
<1> HIDE DEF e
<1>3. /\ s \o e \in Seq(T) /\ Commands(s \o e) = Commands(s) \cup Commands(e)
      /\ IsInjective(s) /\ IsInjective(e) /\ Commands(s) \cap Commands(e) = {} => IsInjective(s \o e)
  BY <1>2, CommandsOfBoth
<1> QED BY <1>2, <1>3

\* The first command and the others.
LEMMA CommandsOfTail ==
  ASSUME NEW T, NEW s \in Seq(T), s # <<>>
  PROVE  /\ Tail(s) \in Seq(T) /\ Head(s) \in T /\ Commands(s) = {Head(s)} \cup Commands(Tail(s))
         /\ IsInjective(s) => IsInjective(Tail(s)) /\ Head(s) \notin Commands(Tail(s))
<1>1. Tail(s) \in Seq(T) /\ Head(s) \in T /\ s = <<Head(s)>> \o Tail(s)
  BY HeadTailProperties
<1>2. <<Head(s)>> \in Seq(T)
  BY <1>1
<1> DEFINE h == <<Head(s)>>
           t == Tail(s)
<1>3. s = h \o t /\ h \in Seq(T) /\ t \in Seq(T) /\ Commands(h) = {Head(s)}
  BY <1>1, <1>2, OneCommand
<1> HIDE DEF h, t
<1>4. Commands(s) = Commands(h) \cup Commands(t)
      /\ (IsInjective(s) => IsInjective(t) /\ Commands(h) \cap Commands(t) = {})
  BY <1>3, CommandsOfBoth
<1> QED BY <1>1, <1>3, <1>4 DEF t

(***************************************************************************)
(* Clearing timers.                                                        *)
(***************************************************************************)

\* Without is what its recursive function says.
LEMMA WithoutIs ==
  ASSUME NEW T, NEW s \in Seq(T), NEW ids
  PROVE  \E kept : /\ Without(s, ids) = kept[Len(s)] /\ kept[0] = <<>>
                   /\ \A n \in 1..Len(s) :
                        kept[n] = IF s[n] \in ids THEN kept[n - 1] ELSE Append(kept[n - 1], s[n])
<1> DEFINE Next1(g, n) == IF s[n] \in ids THEN g[n - 1] ELSE Append(g[n - 1], s[n])
           IsKept(g, m) == g = [n \in 0..m |-> IF n = 0 THEN <<>> ELSE Next1(g, n)]
           Good == {m \in Nat : \E g : IsKept(g, m)}
<1>1. Good = Nat
  <2>1. 0 \in Good
    <3>1. IsKept([n \in 0..0 |-> <<>>], 0)
      OBVIOUS
    <3> QED BY <3>1
  <2>2. ASSUME NEW m \in Good PROVE m + 1 \in Good
    <3>1. PICK g : IsKept(g, m)
      OBVIOUS
    <3> DEFINE h == [n \in 0..(m + 1) |-> IF n = 0 THEN <<>> ELSE Next1(g, n)]
    <3>2. m \in Nat /\ \A n \in 0..m : g[n] = IF n = 0 THEN <<>> ELSE Next1(g, n)
      <4>1. m \in Nat
        OBVIOUS
      <4>2. ASSUME NEW n \in 0..m PROVE g[n] = IF n = 0 THEN <<>> ELSE Next1(g, n)
        BY <3>1
      <4> QED BY <4>1, <4>2
    <3>3. \A n \in 0..m : h[n] = g[n]
      BY <3>2
    <3>4. \A n \in 0..(m + 1) : n # 0 => n - 1 \in 0..m /\ h[n - 1] = g[n - 1]
      BY <3>2, <3>3
    <3>5. IsKept(h, m + 1)
      BY <3>4
    <3>6. \E g2 : IsKept(g2, m + 1)
      <4> HIDE DEF h, IsKept
      <4> QED BY <3>5
    <3>7. m + 1 \in Nat
      BY <3>2
    <3> HIDE DEF IsKept
    <3> QED BY <3>6, <3>7
  <2> HIDE DEF Good
  <2>3. Good \in SUBSET Nat
    BY DEF Good
  <2> QED BY <2>1, <2>2, <2>3, SetInduction
<1>2. Len(s) \in Nat
  BY LenProperties
<1> DEFINE kept == CHOOSE g : IsKept(g, Len(s))
<1>3. IsKept(kept, Len(s))
  BY <1>1, <1>2
<1>4. Without(s, ids) = kept[Len(s)]
  BY DEF Without
<1> HIDE DEF kept
<1>5. kept[0] = <<>> /\ \A n \in 1..Len(s) : kept[n] = Next1(kept, n)
  <2>1. kept = [n \in 0..Len(s) |-> IF n = 0 THEN <<>> ELSE Next1(kept, n)]
    BY <1>3
  <2>2. ASSUME NEW n \in 0..Len(s) PROVE kept[n] = IF n = 0 THEN <<>> ELSE Next1(kept, n)
    BY <2>1
  <2>3. 0 \in 0..Len(s) /\ \A n \in 1..Len(s) : n \in 0..Len(s) /\ n # 0
    BY <1>2
  <2> QED BY <2>2, <2>3
<1> QED BY <1>4, <1>5

\* What clearing leaves in a queue: the other commands, each as often as before.
LEMMA WithoutKeeps ==
  ASSUME NEW T, NEW s \in Seq(T), NEW ids
  PROVE  /\ Without(s, ids) \in Seq(T) /\ Commands(Without(s, ids)) = Commands(s) \ ids
         /\ IsInjective(s) => IsInjective(Without(s, ids))
<1>1. PICK kept : /\ Without(s, ids) = kept[Len(s)] /\ kept[0] = <<>>
                  /\ \A n \in 1..Len(s) :
                       kept[n] = IF s[n] \in ids THEN kept[n - 1] ELSE Append(kept[n - 1], s[n])
  BY WithoutIs
<1>2. /\ Len(s) \in Nat /\ Commands(s) = {s[i] : i \in 1..Len(s)} /\ \A i \in 1..Len(s) : s[i] \in T
      /\ IsInjective(s) => \A i, j \in 1..Len(s) : s[i] = s[j] => i = j
  BY CommandsAre, ElementOfSeq
<1> DEFINE Upto(n) == {s[i] : i \in 1..n}
           Good == {n \in Nat : n <= Len(s) =>
                      /\ kept[n] \in Seq(T) /\ Commands(kept[n]) = Upto(n) \ ids
                      /\ IsInjective(s) => IsInjective(kept[n])}
<1>3. 0 \in Good
  <2>1. Upto(0) = {}
    <3>1. 1..0 = {}
      OBVIOUS
    <3> QED BY <3>1
  <2>2. kept[0] = <<>> /\ <<>> \in Seq(T) /\ Commands(<<>>) = {} /\ IsInjective(<<>>)
    BY <1>1, NoCommands
  <2> HIDE DEF Upto
  <2> QED BY <2>1, <2>2
<1>4. ASSUME NEW n \in Good PROVE n + 1 \in Good
  <2>1. SUFFICES ASSUME n + 1 <= Len(s)
                 PROVE  /\ kept[n + 1] \in Seq(T) /\ Commands(kept[n + 1]) = Upto(n + 1) \ ids
                        /\ IsInjective(s) => IsInjective(kept[n + 1])
    OBVIOUS
  <2>2. /\ kept[n] \in Seq(T) /\ Commands(kept[n]) = Upto(n) \ ids
        /\ IsInjective(s) => IsInjective(kept[n])
    BY <1>2, <2>1
  <2>3. n + 1 \in 1..Len(s) /\ (n + 1) - 1 = n /\ n \in Nat
    BY <1>2, <2>1
  <2>4. kept[n + 1] = IF s[n + 1] \in ids THEN kept[n] ELSE Append(kept[n], s[n + 1])
    BY <1>1, <2>3
  <2>5. Upto(n + 1) = Upto(n) \cup {s[n + 1]}
    <3>1. 1..(n + 1) = (1..n) \cup {n + 1}
      BY <2>3
    <3> QED BY <3>1
  <2>6. IsInjective(s) => s[n + 1] \notin Upto(n)
    <3>1. \A i \in 1..n : i \in 1..Len(s) /\ i # n + 1
      BY <1>2, <2>3
    <3> QED BY <1>2, <2>3, <3>1
  <2>7. s[n + 1] \in T
    BY <1>2, <2>3
  <2> DEFINE x == s[n + 1]
             k == kept[n]
             c == Upto(n)
  <2>8. /\ k \in Seq(T) /\ x \in T /\ Commands(k) = c \ ids /\ kept[n + 1] = IF x \in ids THEN k ELSE Append(k, x)
        /\ Upto(n + 1) = c \cup {x} /\ (IsInjective(s) => x \notin c /\ IsInjective(k))
    BY <2>2, <2>4, <2>5, <2>6, <2>7
  <2> HIDE DEF x, k, c, Upto, Good
  <2>9. /\ Append(k, x) \in Seq(T) /\ Commands(Append(k, x)) = Commands(k) \cup {x}
        /\ IsInjective(k) /\ x \notin Commands(k) => IsInjective(Append(k, x))
    BY <2>8, CommandsAppend
  <2> QED BY <2>8, <2>9
<1>5. Len(s) \in Good
  <2> HIDE DEF Good
  <2>1. Good \in SUBSET Nat
    BY DEF Good
  <2>2. Good = Nat
    BY <1>3, <1>4, <2>1, SetInduction
  <2> QED BY <1>2, <2>2
<1> QED BY <1>1, <1>2, <1>5

(***************************************************************************)
(* Segments.                                                               *)
(***************************************************************************)

VMs == [issued : 0..MaxCalls, calls : SUBSET Ids, timers : SUBSET Ids, queued : Seq(Ids),
        top : {"pending", "fulfilled", "rejected"}]

\* The calls made between the VMs v and w.
Made(v, w) == (v.issued + 1)..w.issued

\* A VM, by its fields.
LEMMA IsVMIs ==
  ASSUME NEW v \in VMs
  PROVE  IsVM(v) <=> /\ v.calls \subseteq 1..v.issued /\ v.timers \subseteq 1..v.issued
                     /\ v.calls \cap v.timers = {} /\ v.queued \in Seq(1..v.issued)
BY DEF IsVM, VMs, Entries

\* A sequence over some of the calls is one over all of them.
LEMMA SeqGrows ==
  ASSUME NEW S, NEW T, S \subseteq T, NEW s \in Seq(S)
  PROVE  s \in Seq(T)
<1>1. s \in [1..Len(s) -> S] /\ Len(s) \in Nat
  BY LenProperties
<1>2. s \in [1..Len(s) -> T]
  BY <1>1
<1> QED BY <1>1, <1>2, SeqDef

\* The calls that a segment makes are new, queued in their order, and waiting.
LEMMA IssueIs ==
  ASSUME NEW v, IsVM(v), NEW n \in 0..(MaxCalls - v.issued), NEW ks \in [1..n -> Kinds], NEW u, u = Issue(v, ks)
  PROVE  /\ u \in VMs /\ IsVM(u) /\ v.issued <= u.issued /\ u.top = v.top
         /\ Entries(u) = Entries(v) \cup Made(v, u) /\ v.timers \subseteq u.timers
         /\ Commands(u.queued) = Commands(v.queued) \cup Made(v, u)
         /\ IsInjective(v.queued) => IsInjective(u.queued)
<1> DEFINE New(k) == {v.issued + i : i \in {j \in DOMAIN ks : ks[j] = k}}
           f == [i \in DOMAIN ks |-> v.issued + i]
<1>1. /\ v \in VMs /\ v.issued \in 0..MaxCalls /\ MaxCalls \in Nat /\ n \in Nat /\ v.issued + n \in 0..MaxCalls
      /\ DOMAIN ks = 1..n /\ \A i \in 1..n : ks[i] = "call" \/ ks[i] = "timer"
      /\ v.calls \subseteq 1..v.issued /\ v.timers \subseteq 1..v.issued
      /\ v.calls \cap v.timers = {} /\ v.queued \in Seq(1..v.issued)
  <2>1. v \in VMs
    BY DEF IsVM, VMs
  <2>2. v.issued \in 0..MaxCalls /\ MaxCalls \in Nat
    BY <2>1, BoundsAssumption DEF VMs
  <2>3. n \in Nat /\ v.issued + n \in 0..MaxCalls
    BY <2>2
  <2>4. DOMAIN ks = 1..n /\ \A i \in 1..n : ks[i] = "call" \/ ks[i] = "timer"
    BY DEF Kinds
  <2> QED BY <2>1, <2>2, <2>3, <2>4, IsVMIs
<1>2. Len(ks) = n
  <2>1. ks \in Seq(Kinds)
    BY <1>1, SeqDef
  <2> QED BY <1>1, <2>1, LenProperties
<1>3. u = [v EXCEPT !.issued = @ + n, !.calls = @ \cup New("call"),
                    !.timers = @ \cup New("timer"), !.queued = @ \o f]
  BY <1>2 DEF Issue
<1>4. f \in Seq(1..(v.issued + n)) /\ Commands(f) = (v.issued + 1)..(v.issued + n) /\ IsInjective(f)
  <2>1. f \in [1..n -> 1..(v.issued + n)]
    BY <1>1
  <2>2. f \in Seq(1..(v.issued + n))
    BY <1>1, <2>1, SeqDef
  <2>3. Commands(f) = (v.issued + 1)..(v.issued + n)
    <3>1. Commands(f) = {v.issued + i : i \in 1..n}
      BY <1>1 DEF Commands
    <3>2. ASSUME NEW m \in (v.issued + 1)..(v.issued + n)
          PROVE  \E i \in 1..n : m = v.issued + i
      <4>1. m - v.issued \in 1..n /\ m = v.issued + (m - v.issued)
        BY <1>1
      <4> QED BY <4>1
    <3>3. \A i \in 1..n : v.issued + i \in (v.issued + 1)..(v.issued + n)
      BY <1>1
    <3> QED BY <3>1, <3>2, <3>3
  <2>4. IsInjective(f)
    BY <1>1 DEF IsInjective
  <2> QED BY <2>2, <2>3, <2>4
<1>5. /\ New("call") \cup New("timer") = (v.issued + 1)..(v.issued + n)
      /\ New("call") \cap New("timer") = {}
  <2>1. \A m \in New("call") \cup New("timer") : m \in (v.issued + 1)..(v.issued + n)
    BY SMTT(20), <1>1
  <2>2. ASSUME NEW m \in (v.issued + 1)..(v.issued + n) PROVE m \in New("call") \cup New("timer")
    <3>1. m - v.issued \in 1..n /\ m = v.issued + (m - v.issued)
      BY <1>1
    <3> QED BY <1>1, <3>1
  <2>3. ASSUME NEW m \in New("call"), m \in New("timer") PROVE FALSE
    <3>1. PICK i \in 1..n : ks[i] = "call" /\ m = v.issued + i
      BY <1>1
    <3>2. PICK j \in 1..n : ks[j] = "timer" /\ m = v.issued + j
      BY <1>1, <2>3
    <3>3. i = j
      BY SMTT(20), <1>1, <3>1, <3>2
    <3> QED BY <3>1, <3>2, <3>3
  <2> QED BY <2>1, <2>2, <2>3
<1> DEFINE calls  == New("call")
           timers == New("timer")
<1>6. /\ u.issued = v.issued + n /\ u.calls = v.calls \cup calls /\ u.timers = v.timers \cup timers
      /\ u.queued = v.queued \o f /\ u.top = v.top
      /\ calls \cup timers = Made(v, u) /\ calls \cap timers = {}
  <2> HIDE DEF New, f
  <2> QED BY <1>1, <1>3, <1>5 DEF VMs, Made
<1>7. u \in [issued : {u.issued}, calls : {u.calls}, timers : {u.timers}, queued : {u.queued}, top : {u.top}]
  <2> HIDE DEF New, f
  <2> QED BY <1>1, <1>3 DEF VMs
<1> DEFINE q == v.queued
           m == v.issued + n
<1>8. /\ q \in Seq(1..m) /\ f \in Seq(1..m) /\ Commands(f) = Made(v, u) /\ IsInjective(f)
      /\ Commands(q) \cap Made(v, u) = {} /\ u.queued = q \o f /\ m = u.issued
  <2>1. 1..v.issued \subseteq 1..m
    BY <1>1
  <2>2. q \in Seq(1..m)
    BY <1>1, <2>1, SeqGrows
  <2>3. Commands(q) \subseteq 1..v.issued
    BY SMTT(20), <1>1, CommandsAre
  <2>4. \A i \in Made(v, u) : i \notin 1..v.issued
    BY <1>1, <1>6 DEF Made
  <2> HIDE DEF f
  <2> QED BY <1>4, <1>6, <2>2, <2>3, <2>4 DEF Made
<1> HIDE DEF f, calls, timers, New, q
<1>9. /\ q \o f \in Seq(1..m) /\ Commands(q \o f) = Commands(q) \cup Commands(f)
      /\ IsInjective(q) /\ IsInjective(f) /\ Commands(q) \cap Commands(f) = {} => IsInjective(q \o f)
  BY <1>8, CommandsOfBoth
<1>10. u.queued \in Seq(1..u.issued)
  BY <1>8, <1>9
<1>11. /\ calls \subseteq Made(v, u) /\ timers \subseteq Made(v, u) /\ Made(v, u) \subseteq 1..u.issued
       /\ 1..v.issued \subseteq 1..u.issued /\ 1..u.issued \subseteq Ids /\ u.issued \in 0..MaxCalls
       /\ Made(v, u) \cap (1..v.issued) = {} /\ v.issued <= u.issued
  BY <1>1, <1>6 DEF Made, Ids
<1>12. u.queued \in Seq(Ids)
  BY <1>10, <1>11, SeqGrows
<1>13. u \in VMs
  BY <1>1, <1>6, <1>7, <1>11, <1>12 DEF VMs
<1>14. IsVM(u)
  BY <1>1, <1>6, <1>10, <1>11, <1>13, IsVMIs
<1>15. Entries(u) = Entries(v) \cup Made(v, u)
  BY <1>6 DEF Entries
<1> QED BY <1>6, <1>8, <1>9, <1>11, <1>13, <1>14, <1>15 DEF q

\* A segment from the VM v to w: commands are added, each once, and an entry of w
\* is queued unless it was under way before.
Segment(v, w) ==
  /\ w \in VMs /\ IsVM(w) /\ v.issued <= w.issued
  /\ Commands(w.queued) \subseteq Commands(v.queued) \cup Made(v, w)
  /\ \A e \in Entries(w) : e \in Commands(w.queued) \/ e \in Entries(v) \ Commands(v.queued)
  /\ IsInjective(v.queued) => IsInjective(w.queued)

\* Every segment the VM may run is a Segment: it issues new calls and clears old ones.
LEMMA SegmentIs ==
  ASSUME NEW v, IsVM(v), NEW w \in Segments(v)
  PROVE  Segment(v, w)
<1>1. v \in VMs /\ v.issued \in 0..MaxCalls /\ MaxCalls \in Nat
  BY BoundsAssumption DEF IsVM, VMs
<1>2. PICK ks \in SeqOf(Kinds, MaxCalls - v.issued) :
        \E ids \in SUBSET Issue(v, ks).timers :
          \E t \in IF v.top = "pending" THEN {"pending", "fulfilled", "rejected"} ELSE {v.top} :
            w = [Clear(Issue(v, ks), ids) EXCEPT !.top = t]
  BY DEF Segments
<1>3. PICK n \in 0..(MaxCalls - v.issued) : ks \in [1..n -> Kinds]
  BY DEF SeqOf
<1>4. PICK u : u = Issue(v, ks)
  OBVIOUS
<1>5. /\ u \in VMs /\ IsVM(u) /\ v.issued <= u.issued /\ u.top = v.top
      /\ Entries(u) = Entries(v) \cup Made(v, u) /\ v.timers \subseteq u.timers
      /\ Commands(u.queued) = Commands(v.queued) \cup Made(v, u)
      /\ IsInjective(v.queued) => IsInjective(u.queued)
  BY <1>3, <1>4, IssueIs
<1>6. PICK ids \in SUBSET u.timers, t \in {"pending", "fulfilled", "rejected"} :
        w = [Clear(u, ids) EXCEPT !.top = t]
  BY <1>1, <1>2, <1>4 DEF VMs
<1> DEFINE q == Without(u.queued, ids)
<1>7. /\ u.queued \in Seq(1..u.issued) /\ u.calls \subseteq 1..u.issued /\ u.timers \subseteq 1..u.issued
      /\ u.calls \cap u.timers = {} /\ u.issued \in 0..MaxCalls
  BY <1>5, IsVMIs DEF VMs
<1>8. /\ q \in Seq(1..u.issued) /\ Commands(q) = Commands(u.queued) \ ids
      /\ IsInjective(u.queued) => IsInjective(q)
  BY <1>7, WithoutKeeps
<1>9. /\ w.issued = u.issued /\ w.calls = u.calls /\ w.timers = u.timers \ ids /\ w.queued = q /\ w.top = t
      /\ w \in [issued : {u.issued}, calls : {u.calls}, timers : {u.timers \ ids}, queued : {q}, top : {t}]
  <2> HIDE DEF q
  <2> QED BY <1>5, <1>6 DEF Clear, VMs, q
<1> HIDE DEF q
<1>10. w \in VMs
  <2>1. 1..u.issued \subseteq Ids
    BY <1>1, <1>7 DEF Ids
  <2>2. q \in Seq(Ids)
    BY <1>8, <2>1, SeqGrows
  <2> QED BY <1>7, <1>9, <2>1, <2>2 DEF VMs
<1>11. IsVM(w)
  BY <1>7, <1>8, <1>9, <1>10, IsVMIs
<1>12. Made(v, w) = Made(v, u) /\ Entries(w) = Entries(u) \ ids
  BY <1>7, <1>9 DEF Made, Entries
<1> QED BY <1>5, <1>8, <1>9, <1>10, <1>11, <1>12 DEF Segment

\* What resume_cell does to the VM and the result.
Resumes(id) ==
  /\ IsVM(vm') /\ vm.issued <= vm'.issued /\ needsReset' \in BOOLEAN
  /\ result'.status \in {"pending", "ok", "error", "fuel", "internal"}
  /\ result' \in [status : Statuses, cmds : Seq(Ids)] /\ result'.cmds \in Seq(1..vm'.issued)
  /\ IsInjective(result'.cmds) /\ IsInjective(vm'.queued)
  /\ Commands(result'.cmds) \cap Commands(vm'.queued) = {}
  /\ Commands(result'.cmds) \cup Commands(vm'.queued) \subseteq Commands(vm.queued) \cup Made(vm, vm')
  /\ \A e \in Entries(vm') :
       \/ e \in Commands(result'.cmds) \cup Commands(vm'.queued)
       \/ e \in Entries(vm) \ Commands(vm.queued) /\ (e = id => e \in thrown')
  /\ thrown \subseteq thrown' /\ thrown' \subseteq thrown \cup {id} /\ resumed' = resumed \cup {id}
  /\ result'.status \notin Errors => vm'.queued = <<>>
  /\ result'.status = "pending" => result'.cmds # <<>> \/ Entries(vm') # {}
  /\ result'.status = "ok" => Entries(vm') = {}

\* The result of a segment without commands.
LEMMA EmptyResult ==
  ASSUME NEW s \in Statuses, result' = Result(s, <<>>)
  PROVE  /\ result'.status = s /\ result'.cmds = <<>> /\ Commands(result'.cmds) = {} /\ IsInjective(result'.cmds)
         /\ result' \in [status : Statuses, cmds : Seq(Ids)] /\ \A T : result'.cmds \in Seq(T)
<1>1. result'.status = s /\ result'.cmds = <<>> /\ result' \in [status : Statuses, cmds : {<<>>}]
  BY DEF Result
<1>2. \A T : <<>> \in Seq(T)
  OBVIOUS
<1> QED BY <1>1, <1>2, NoCommands

\* The commands of a segment that end up in its result.
LEMMA DrainedIs ==
  ASSUME NEW w \in VMs, IsVM(w)
  PROVE  /\ Drained(w) \in VMs /\ IsVM(Drained(w)) /\ Drained(w).queued = <<>>
         /\ Drained(w).issued = w.issued /\ Entries(Drained(w)) = Entries(w)
<1> DEFINE d == Drained(w)
<1>1. /\ d.queued = <<>> /\ d.issued = w.issued /\ d.calls = w.calls /\ d.timers = w.timers
      /\ d \in [issued : {w.issued}, calls : {w.calls}, timers : {w.timers}, queued : {<<>>}, top : {w.top}]
  BY DEF Drained, VMs
<1> HIDE DEF d
<1>2. <<>> \in Seq(Ids) /\ <<>> \in Seq(1..w.issued)
  OBVIOUS
<1>3. d \in VMs
  BY <1>1, <1>2 DEF VMs
<1>4. IsVM(d) /\ Entries(d) = Entries(w)
  BY <1>1, <1>2, <1>3, IsVMIs DEF Entries
<1> QED BY <1>1, <1>3, <1>4 DEF d

\* What a resume does to the VM and to the result, whichever command it answers.
LEMMA ResumeIs ==
  ASSUME IsVM(vm), IsInjective(vm.queued), needsReset \in BOOLEAN, NEW id, ResumeCell(id)
  PROVE  Resumes(id)
<1>1. vm \in VMs /\ resumed' = resumed \cup {id} /\ vm.issued \in Nat
  BY BoundsAssumption DEF IsVM, VMs, ResumeCell
<1>2. CASE ResumeMissing(id)
  <2>1. result' = Result("internal", <<>>) /\ vm' = vm /\ thrown' = thrown /\ needsReset' \in BOOLEAN
        /\ id \notin Entries(vm)
    BY <1>2 DEF ResumeMissing
  <2>2. "internal" \in Statuses
    BY DEF Statuses
  <2>3. /\ result'.status = "internal" /\ result'.cmds = <<>> /\ Commands(result'.cmds) = {} /\ IsInjective(result'.cmds)
        /\ result' \in [status : Statuses, cmds : Seq(Ids)] /\ \A T : result'.cmds \in Seq(T)
    BY <2>1, <2>2, EmptyResult
  <2>4. \A e \in Entries(vm) : e \in Commands(vm.queued) \/ e \in Entries(vm) \ Commands(vm.queued)
    OBVIOUS
  <2> QED BY <1>1, <2>1, <2>3, <2>4 DEF Resumes, Errors
<1>3. CASE ResumeThrows(id)
  <2>1. result' = Result("internal", <<>>) /\ thrown' = thrown \cup {id} /\ needsReset' \in BOOLEAN
        /\ vm' \in Segments(vm)
    BY <1>3 DEF ResumeThrows, Callbacks
  <2>2. "internal" \in Statuses
    BY DEF Statuses
  <2>3. /\ result'.status = "internal" /\ result'.cmds = <<>> /\ Commands(result'.cmds) = {} /\ IsInjective(result'.cmds)
        /\ result' \in [status : Statuses, cmds : Seq(Ids)] /\ \A T : result'.cmds \in Seq(T)
    BY <2>1, <2>2, EmptyResult
  <2>4. Segment(vm, vm')
    BY <2>1, SegmentIs
  <2> QED BY <1>1, <2>1, <2>3, <2>4 DEF Resumes, Errors, Segment
<1>4. CASE ResumeEntry(id)
  <2> DEFINE v == [vm EXCEPT !.calls = @ \ {id}, !.timers = @ \ {id}]
  <2>1. PICK w \in Segments(v) : OutOfFuel(w) \/ ResumeResult(w)
    BY <1>4 DEF ResumeEntry
  <2>2. thrown' = thrown /\ needsReset' \in BOOLEAN /\ id \in Entries(vm)
    BY <1>4 DEF ResumeEntry
  <2>3. /\ v \in VMs /\ v.issued = vm.issued /\ v.calls = vm.calls \ {id} /\ v.timers = vm.timers \ {id}
        /\ v.queued = vm.queued /\ v.top = vm.top
    BY <1>1 DEF VMs
  <2> HIDE DEF v
  <2>4. IsVM(v) /\ Entries(v) = Entries(vm) \ {id} /\ Made(v, w) = Made(vm, w)
    BY <1>1, <2>3, IsVMIs DEF Entries, Made
  <2>5. Segment(v, w)
    BY <2>1, <2>4, SegmentIs
  <2>6. /\ w \in VMs /\ IsVM(w) /\ vm.issued <= w.issued /\ IsInjective(w.queued)
        /\ Commands(w.queued) \subseteq Commands(vm.queued) \cup Made(vm, w)
        /\ \A e \in Entries(w) : e \in Commands(w.queued) \/ (e \in Entries(vm) \ Commands(vm.queued) /\ e # id)
    BY <2>3, <2>4, <2>5 DEF Segment
  <2>7. CASE OutOfFuel(w)
    <3>1. result' = Result("fuel", <<>>) /\ vm' = w /\ "fuel" \in Statuses
      BY <2>7 DEF OutOfFuel, Statuses
    <3>2. /\ result'.status = "fuel" /\ result'.cmds = <<>> /\ Commands(result'.cmds) = {} /\ IsInjective(result'.cmds)
          /\ result' \in [status : Statuses, cmds : Seq(Ids)] /\ \A T : result'.cmds \in Seq(T)
      BY <3>1, EmptyResult
    <3> QED BY <1>1, <2>2, <2>6, <3>1, <3>2 DEF Resumes, Errors
  <2>8. CASE ResumeResult(w)
    <3>1. /\ vm' \in VMs /\ IsVM(vm') /\ vm'.queued = <<>> /\ Entries(vm') = Entries(w) /\ vm'.issued = w.issued
          /\ Commands(vm'.queued) = {} /\ IsInjective(vm'.queued) /\ Made(vm, vm') = Made(vm, w)
      BY <2>6, <2>8, DrainedIs, NoCommands DEF ResumeResult, Made
    <3>2. CASE Entries(w) = {} /\ w.queued = <<>>
      <4>1. PICK s \in {"error", "ok"} : result' = Result(s, <<>>)
        BY <2>8, <3>2 DEF ResumeResult
      <4>2. s \in Statuses
        BY DEF Statuses
      <4>3. /\ result'.status = s /\ result'.cmds = <<>> /\ Commands(result'.cmds) = {} /\ IsInjective(result'.cmds)
            /\ result' \in [status : Statuses, cmds : Seq(Ids)] /\ \A T : result'.cmds \in Seq(T)
        BY <4>1, <4>2, EmptyResult
      <4> QED BY <1>1, <2>2, <2>6, <3>1, <3>2, <4>3 DEF Resumes, Errors
    <3>3. CASE Entries(w) # {} \/ w.queued # <<>>
      <4>1. result' = Result("pending", w.queued) /\ "pending" \in Statuses
        BY <2>8, <3>3 DEF ResumeResult, Statuses
      <4>2. w.queued \in Seq(Ids) /\ w.queued \in Seq(1..w.issued)
        BY <2>6, IsVMIs DEF VMs
      <4>3. /\ result'.status = "pending" /\ result'.cmds = w.queued
            /\ result' \in [status : Statuses, cmds : Seq(Ids)]
        BY <4>1, <4>2 DEF Result
      <4> QED BY <1>1, <2>2, <2>6, <3>1, <3>3, <4>2, <4>3 DEF Resumes, Errors
    <3> QED BY <3>2, <3>3
  <2> QED BY <2>1, <2>7, <2>8
<1> QED BY <1>2, <1>3, <1>4 DEF ResumeCell

(***************************************************************************)
(* The loop.                                                               *)
(***************************************************************************)

\* The commands of four sequences.
All(b, a, q, c) == Commands(b) \cup Commands(a) \cup Commands(q) \cup Commands(c)

\* EachCallOnce, by the places where commands wait.
Once(p, b, a, q, c, res, entries, thr) ==
  p \in Running =>
    /\ IsInjective(b) /\ IsInjective(a) /\ IsInjective(q) /\ IsInjective(c)
    /\ Commands(b) \cap Commands(a) = {} /\ Commands(b) \cap Commands(q) = {}
    /\ Commands(b) \cap Commands(c) = {} /\ Commands(a) \cap Commands(q) = {}
    /\ Commands(a) \cap Commands(c) = {} /\ Commands(q) \cap Commands(c) = {}
    /\ All(b, a, q, c) \cap res = {}
    /\ p # "aborting" => entries \subseteq All(b, a, q, c) \cup thr

\* A queue has the commands of four others, none twice if each has none twice and
\* they have none in common.
MadeOf(s, b, a, q, c) ==
  /\ Commands(s) = All(b, a, q, c)
  /\ IsInjective(s) <=>
       /\ IsInjective(b) /\ IsInjective(a) /\ IsInjective(q) /\ IsInjective(c)
       /\ Commands(b) \cap Commands(a) = {} /\ Commands(b) \cap Commands(q) = {}
       /\ Commands(b) \cap Commands(c) = {} /\ Commands(a) \cap Commands(q) = {}
       /\ Commands(a) \cap Commands(c) = {} /\ Commands(q) \cap Commands(c) = {}

\* So it is with four queues behind each other.
LEMMA WaitingIs ==
  ASSUME NEW T, NEW b \in Seq(T), NEW a \in Seq(T), NEW q \in Seq(T), NEW c \in Seq(T)
  PROVE  MadeOf(b \o a \o q \o c, b, a, q, c)
<1> DEFINE x == b \o a
           y == x \o q
<1>1. /\ x \in Seq(T) /\ Commands(x) = Commands(b) \cup Commands(a)
      /\ IsInjective(x) <=> IsInjective(b) /\ IsInjective(a) /\ Commands(b) \cap Commands(a) = {}
  BY CommandsOfBoth
<1> HIDE DEF x
<1>2. /\ y \in Seq(T) /\ Commands(y) = Commands(x) \cup Commands(q)
      /\ IsInjective(y) <=> IsInjective(x) /\ IsInjective(q) /\ Commands(x) \cap Commands(q) = {}
  BY <1>1, CommandsOfBoth
<1> HIDE DEF y
<1>3. /\ Commands(y \o c) = Commands(y) \cup Commands(c)
      /\ IsInjective(y \o c) <=> IsInjective(y) /\ IsInjective(c) /\ Commands(y) \cap Commands(c) = {}
  BY <1>2, CommandsOfBoth
<1>4. y \o c = b \o a \o q \o c
  BY DEF y, x
<1>5. Commands(y) = Commands(b) \cup Commands(a) \cup Commands(q)
  BY <1>1, <1>2
<1>6. Commands(y \o c) = All(b, a, q, c)
  BY <1>3, <1>5 DEF All
<1>7. Commands(y) \cap Commands(c) = {} <=>
        Commands(b) \cap Commands(c) = {} /\ Commands(a) \cap Commands(c) = {} /\ Commands(q) \cap Commands(c) = {}
  BY <1>5
<1>8. Commands(x) \cap Commands(q) = {} <=> Commands(b) \cap Commands(q) = {} /\ Commands(a) \cap Commands(q) = {}
  BY <1>1
<1>9. IsInjective(y \o c) <=>
        /\ IsInjective(b) /\ IsInjective(a) /\ IsInjective(q) /\ IsInjective(c)
        /\ Commands(b) \cap Commands(a) = {} /\ Commands(b) \cap Commands(q) = {}
        /\ Commands(b) \cap Commands(c) = {} /\ Commands(a) \cap Commands(q) = {}
        /\ Commands(a) \cap Commands(c) = {} /\ Commands(q) \cap Commands(c) = {}
  BY <1>1, <1>2, <1>3, <1>7, <1>8
<1> QED BY <1>4, <1>6, <1>9 DEF MadeOf

\* The commands of the result count as long as the loop has not taken them.
OfResult(p, r) == IF p = "loop" THEN r.cmds ELSE <<>>

\* EachCallOnce, said of the parts of the state it speaks of ...
LEMMA OnceIs ==
  ASSUME TypeOK
  PROVE  EachCallOnce <=>
           Once(pc, batch, accumulated, vm.queued, OfResult(pc, result), resumed, Entries(vm), thrown)
<1> DEFINE T == 1..vm.issued
           b == batch
           a == accumulated
           q == vm.queued
           c == OfResult(pc, result)
<1>1. b \in Seq(T) /\ a \in Seq(T) /\ q \in Seq(T) /\ result.cmds \in Seq(T)
  BY DEF TypeOK, IsVM
<1>2. Waiting = b \o a \o q \o c
  BY DEF Waiting, OfResult
<1>3. \A p : p \in Running \ {"aborting"} <=> p \in Running /\ p # "aborting"
  OBVIOUS
<1>4. EachCallOnce <=>
        /\ pc \in Running => IsInjective(b \o a \o q \o c) /\ Commands(b \o a \o q \o c) \cap resumed = {}
        /\ pc \in Running \ {"aborting"} => Entries(vm) \subseteq Commands(b \o a \o q \o c) \cup thrown
  <2> HIDE DEF b, a, q, c
  <2> QED BY <1>2 DEF EachCallOnce, NoCommandTwice, NoCallForgotten
<1> HIDE DEF T
<1>5. c \in Seq(T)
  BY <1>1 DEF OfResult
<1> HIDE DEF b, a, q, c
<1>6. MadeOf(b \o a \o q \o c, b, a, q, c)
  BY <1>1, <1>5, WaitingIs
<1>7. EachCallOnce <=> Once(pc, b, a, q, c, resumed, Entries(vm), thrown)
  BY <1>3, <1>4, <1>6 DEF Once, MadeOf
<1> QED BY <1>7 DEF b, a, q, c

\* ... and the same of the next state.
LEMMA OnceIsNext ==
  ASSUME TypeOK'
  PROVE  EachCallOnce' <=>
           Once(pc', batch', accumulated', vm'.queued, OfResult(pc', result'), resumed', Entries(vm'), thrown')
<1> DEFINE T == 1..vm'.issued
           b == batch'
           a == accumulated'
           q == vm'.queued
           c == OfResult(pc', result')
<1>1. b \in Seq(T) /\ a \in Seq(T) /\ q \in Seq(T) /\ result'.cmds \in Seq(T)
  BY DEF TypeOK, IsVM
<1>2. Waiting' = b \o a \o q \o c
  BY DEF Waiting, OfResult
<1>3. \A p : p \in Running \ {"aborting"} <=> p \in Running /\ p # "aborting"
  OBVIOUS
<1>4. EachCallOnce' <=>
        /\ pc' \in Running => IsInjective(b \o a \o q \o c) /\ Commands(b \o a \o q \o c) \cap resumed' = {}
        /\ pc' \in Running \ {"aborting"} => Entries(vm') \subseteq Commands(b \o a \o q \o c) \cup thrown'
  <2> HIDE DEF b, a, q, c
  <2> QED BY <1>2 DEF EachCallOnce, NoCommandTwice, NoCallForgotten
<1> HIDE DEF T
<1>5. c \in Seq(T)
  BY <1>1 DEF OfResult
<1> HIDE DEF b, a, q, c
<1>6. MadeOf(b \o a \o q \o c, b, a, q, c)
  BY <1>1, <1>5, WaitingIs
<1>7. EachCallOnce' <=> Once(pc', b, a, q, c, resumed', Entries(vm'), thrown')
  BY <1>3, <1>4, <1>6 DEF Once, MadeOf
<1> QED BY <1>7 DEF b, a, q, c

\* A resume keeps the invariant, in the batch and when it is aborted.
LEMMA ResumeKeeps ==
  ASSUME CellInv, pc \in {"resuming", "aborting"}, batch # <<>>, ResumeCell(Head(batch)),
         batch' = Tail(batch), UNCHANGED <<pc, cells, aborted>>,
         accumulated' = IF pc = "resuming" THEN accumulated \o result'.cmds ELSE accumulated
  PROVE  CellInv'
<1> DEFINE id == Head(batch)
<1>1. /\ TypeOK /\ WhereTheyWait /\ ResultIsTrue /\ StuckIsThrown
      /\ Once(pc, batch, accumulated, vm.queued, <<>>, resumed, Entries(vm), thrown)
      /\ IsVM(vm) /\ batch \in Seq(1..vm.issued) /\ accumulated \in Seq(1..vm.issued)
      /\ vm.queued \in Seq(1..vm.issued) /\ resumed \subseteq 1..vm.issued /\ thrown \subseteq 1..vm.issued
      /\ pc \in Running /\ Commands(<<>>) = {} /\ needsReset \in BOOLEAN
  BY OnceIs, NoCommands DEF CellInv, OfResult, TypeOK, IsVM, Running
<1>2. /\ IsInjective(batch) /\ IsInjective(accumulated) /\ IsInjective(vm.queued)
      /\ Commands(batch) \cap Commands(accumulated) = {} /\ Commands(batch) \cap Commands(vm.queued) = {}
      /\ Commands(accumulated) \cap Commands(vm.queued) = {}
      /\ (Commands(batch) \cup Commands(accumulated) \cup Commands(vm.queued)) \cap resumed = {}
      /\ pc # "aborting" => Entries(vm) \subseteq Commands(batch) \cup Commands(accumulated) \cup Commands(vm.queued) \cup thrown
  BY <1>1 DEF Once, All
<1>3. /\ batch' \in Seq(1..vm.issued) /\ id \in 1..vm.issued /\ Commands(batch) = {id} \cup Commands(batch')
      /\ IsInjective(batch') /\ id \notin Commands(batch')
  BY <1>1, <1>2, CommandsOfTail
<1>4. Resumes(id)
  BY <1>1, <1>2, ResumeIs
<1> HIDE DEF id
<1>5. /\ IsVM(vm') /\ vm.issued <= vm'.issued
      /\ result' \in [status : Statuses, cmds : Seq(Ids)] /\ result'.cmds \in Seq(1..vm'.issued)
      /\ vm'.queued \in Seq(1..vm'.issued) /\ vm'.issued \in Nat /\ vm.issued \in Nat
  BY SMTT(20), <1>1, <1>4, BoundsAssumption DEF Resumes, IsVM
<1>6. 1..vm.issued \subseteq 1..vm'.issued /\ Made(vm, vm') \cap (1..vm.issued) = {}
  BY <1>5 DEF Made
<1>7. /\ batch' \in Seq(1..vm'.issued) /\ accumulated \in Seq(1..vm'.issued)
      /\ resumed' \subseteq 1..vm'.issued /\ thrown' \subseteq 1..vm'.issued
  <2>1. batch' \in Seq(1..vm'.issued) /\ accumulated \in Seq(1..vm'.issued)
    BY <1>1, <1>3, <1>6, SeqGrows
  <2>2. resumed' \subseteq resumed \cup {id} /\ thrown' \subseteq thrown \cup {id}
    BY <1>4 DEF Resumes
  <2> QED BY <1>1, <1>3, <1>6, <2>1, <2>2
<1>8. /\ Commands(batch) \subseteq 1..vm.issued /\ Commands(accumulated) \subseteq 1..vm.issued
  BY ZenonT(30), <1>1, CommandsAre
<1> DEFINE new  == result'.cmds
           left == vm'.queued
<1>9. /\ IsInjective(new) /\ IsInjective(left) /\ Commands(new) \cap Commands(left) = {}
      /\ Commands(new) \cup Commands(left) \subseteq Commands(vm.queued) \cup Made(vm, vm')
      /\ \A e \in Entries(vm') :
           \/ e \in Commands(new) \cup Commands(left)
           \/ e \in Entries(vm) \ Commands(vm.queued) /\ (e = id => e \in thrown')
      /\ thrown \subseteq thrown' /\ resumed' = resumed \cup {id}
      /\ new \in Seq(1..vm'.issued) /\ left \in Seq(1..vm'.issued)
  BY <1>4, <1>5 DEF Resumes
<1> HIDE DEF new, left
<1>10. /\ Commands(new) \cap Commands(batch) = {} /\ Commands(left) \cap Commands(batch) = {}
       /\ Commands(new) \cap Commands(accumulated) = {} /\ Commands(left) \cap Commands(accumulated) = {}
       /\ Commands(new) \cap resumed = {} /\ Commands(left) \cap resumed = {}
  BY <1>1, <1>2, <1>6, <1>8, <1>9
<1>11. CASE pc = "resuming"
  <2>1. /\ accumulated' = accumulated \o new /\ accumulated' \in Seq(1..vm'.issued)
        /\ Commands(accumulated') = Commands(accumulated) \cup Commands(new)
        /\ IsInjective(accumulated')
    <3>1. accumulated' = accumulated \o new
      BY <1>11 DEF new
    <3>2. /\ accumulated \o new \in Seq(1..vm'.issued)
          /\ Commands(accumulated \o new) = Commands(accumulated) \cup Commands(new)
          /\ IsInjective(accumulated) /\ IsInjective(new) /\ Commands(accumulated) \cap Commands(new) = {}
               => IsInjective(accumulated \o new)
      BY <1>7, <1>9, CommandsOfBoth
    <3> QED BY <1>2, <1>9, <1>10, <3>1, <3>2
  <2>2. TypeOK'
    BY <1>1, <1>4, <1>5, <1>7, <1>11, <2>1 DEF TypeOK, Resumes
  <2>3. Entries(vm') \subseteq Commands(batch') \cup Commands(accumulated') \cup Commands(left) \cup thrown'
    <3>1. SUFFICES ASSUME NEW e \in Entries(vm'), e \notin Commands(new) \cup Commands(left), e \notin thrown'
                   PROVE  e \in Commands(batch') \cup Commands(accumulated')
      BY <2>1
    <3>2. e \in Entries(vm) \ Commands(vm.queued) /\ e # id /\ e \notin thrown
      BY <1>9, <3>1
    <3> QED BY <1>2, <1>3, <1>11, <2>1, <3>2
  <2>4. Once("resuming", batch', accumulated', left, <<>>, resumed', Entries(vm'), thrown')
    <3>1. /\ Commands(batch') \cap Commands(accumulated') = {} /\ Commands(batch') \cap Commands(left) = {}
          /\ Commands(accumulated') \cap Commands(left) = {}
      BY <1>2, <1>3, <1>9, <1>10, <2>1
    <3>2. (Commands(batch') \cup Commands(accumulated') \cup Commands(left)) \cap resumed' = {}
      BY <1>2, <1>3, <1>9, <1>10, <2>1
    <3> QED BY <1>3, <1>9, <2>1, <2>3, <3>1, <3>2, NoCommands DEF Once, All
  <2>5. EachCallOnce'
    <3>1. pc' = "resuming"
      BY <1>11
    <3> QED BY <2>2, <2>4, <3>1, OnceIsNext DEF OfResult, left
  <2>6. accumulated' = <<>> => result'.cmds = <<>>
    <3>1. accumulated' = <<>> => Commands(new) = {}
      BY <2>1, NoCommands
    <3>2. Commands(new) = {} => new = <<>>
      BY <1>9, CommandsAre
    <3> QED BY <3>1, <3>2 DEF new
  <2>7. WhereTheyWait' /\ ResultIsTrue' /\ StuckIsThrown'
    BY <1>4, <1>11, <2>6 DEF WhereTheyWait, ResultIsTrue, StuckIsThrown, Resumes, Errors
  <2> QED BY <2>2, <2>5, <2>7 DEF CellInv
<1>12. CASE pc = "aborting"
  <2>1. accumulated' = accumulated /\ accumulated = <<>> /\ pc' = "aborting"
    BY <1>1, <1>12 DEF WhereTheyWait
  <2>2. TypeOK'
    BY <1>1, <1>4, <1>5, <1>7, <1>12, <2>1 DEF TypeOK, Resumes
  <2>3. Once("aborting", batch', accumulated', left, <<>>, resumed', Entries(vm'), thrown')
    <3>1. Commands(batch') \cap Commands(left) = {}
      BY <1>2, <1>3, <1>9, <1>10
    <3>2. (Commands(batch') \cup Commands(left)) \cap resumed' = {}
      BY <1>2, <1>3, <1>9, <1>10
    <3> QED BY <1>3, <1>9, <2>1, <3>1, <3>2, NoCommands DEF Once, All
  <2>4. EachCallOnce'
    BY <2>1, <2>2, <2>3, OnceIsNext DEF OfResult, left
  <2>5. WhereTheyWait' /\ ResultIsTrue' /\ StuckIsThrown'
    BY <1>4, <2>1 DEF WhereTheyWait, ResultIsTrue, StuckIsThrown, Resumes, Errors
  <2> QED BY <2>2, <2>4, <2>5 DEF CellInv
<1> QED BY <1>11, <1>12

\* A new VM has no entries and nothing queued.
LEMMA FreshIs == FreshVM \in VMs /\ IsVM(FreshVM) /\ Entries(FreshVM) = {} /\ FreshVM.queued = <<>>
<1>1. /\ FreshVM.queued = <<>> /\ FreshVM.issued = 0 /\ FreshVM.calls = {} /\ FreshVM.timers = {}
      /\ \A T : <<>> \in Seq(T)
  BY DEF FreshVM
<1>2. FreshVM \in VMs
  BY <1>1, BoundsAssumption DEF FreshVM, VMs
<1> QED BY <1>1, <1>2, IsVMIs DEF Entries

\* Between two cells nothing waits.
LEMMA CellInvBetween ==
  ASSUME TypeOK, pc = "idle", result = NoResult, batch = <<>>, accumulated = <<>>, resumed = {}, thrown = {}
  PROVE  CellInv
<1>1. EachCallOnce
  BY DEF EachCallOnce, NoCommandTwice, NoCallForgotten, Running
<1>2. result.status = "none"
  BY DEF NoResult, Result
<1> QED BY <1>1, <1>2 DEF CellInv, StuckIsThrown, WhereTheyWait, ResultIsTrue, Running

\* The start of a cell keeps the invariant.
LEMMA RunCellKeeps ==
  ASSUME CellInv, RunCell
  PROVE  CellInv'
<1>1. /\ TypeOK /\ WhereTheyWait /\ pc = "idle" /\ batch' = <<>> /\ accumulated' = <<>> /\ resumed' = {} /\ thrown' = {}
      /\ cells' \in 0..MaxCells /\ aborted' = FALSE /\ needsReset' = FALSE
      /\ pc' = IF result'.status = "pending" THEN "loop" ELSE "done"
  <2>1. TypeOK /\ WhereTheyWait /\ pc = "idle"
    BY DEF CellInv, RunCell
  <2>2. cells' \in 0..MaxCells
    BY <2>1, BoundsAssumption DEF TypeOK, RunCell
  <2> QED BY <2>1, <2>2 DEF RunCell, WhereTheyWait
<1>2. PICK w \in Segments(FreshVM) : OutOfFuel(w) \/ FirstResult(w)
  BY DEF RunCell
<1>3. Segment(FreshVM, w)
  BY FreshIs, SegmentIs
<1>4. /\ w \in VMs /\ IsVM(w) /\ IsInjective(w.queued) /\ w.queued \in Seq(1..w.issued) /\ w.queued \in Seq(Ids)
      /\ Entries(w) \subseteq Commands(w.queued)
  <2>1. w \in VMs /\ IsVM(w) /\ IsInjective(w.queued) /\ Entries(w) \subseteq Commands(w.queued)
    BY <1>3, FreshIs, NoCommands DEF Segment
  <2> QED BY <2>1, IsVMIs DEF VMs
<1>5. CASE result'.status = "pending"
  <2>1. w.queued # <<>> /\ result' = Result("pending", w.queued) /\ vm' = Drained(w)
    <3>1. \A s, c : Result(s, c).status = s
      BY DEF Result
    <3> QED BY <1>2, <1>5, <3>1 DEF OutOfFuel, FirstResult
  <2>2. /\ vm' \in VMs /\ IsVM(vm') /\ vm'.queued = <<>> /\ vm'.issued = w.issued /\ Entries(vm') = Entries(w)
    BY <1>4, <2>1, DrainedIs
  <2>3. result'.cmds = w.queued /\ result' \in [status : Statuses, cmds : Seq(Ids)] /\ pc' = "loop"
    BY <1>1, <1>4, <1>5, <2>1 DEF Result, Statuses
  <2>4. TypeOK'
    <3>1. /\ result'.cmds \in Seq(1..vm'.issued) /\ batch' \in Seq(1..vm'.issued)
          /\ accumulated' \in Seq(1..vm'.issued)
      <4>1. \A T : <<>> \in Seq(T)
        OBVIOUS
      <4> QED BY <1>1, <1>4, <2>2, <2>3, <4>1
    <3> QED BY <1>1, <2>2, <2>3, <3>1 DEF TypeOK, Running
  <2>5. Once("loop", <<>>, <<>>, <<>>, result'.cmds, {}, Entries(vm'), {})
    BY <1>4, <2>2, <2>3, NoCommands DEF Once, All
  <2>6. EachCallOnce'
    BY <1>1, <2>2, <2>3, <2>4, <2>5, OnceIsNext DEF OfResult
  <2> QED BY <1>1, <1>5, <2>1, <2>2, <2>3, <2>4, <2>6
          DEF CellInv, StuckIsThrown, WhereTheyWait, ResultIsTrue, Errors
<1>6. CASE result'.status # "pending"
  <2>1. PICK s \in {"fuel", "error", "ok"} : result' = Result(s, <<>>) /\ vm' = w /\ (s = "ok" => w.queued = <<>>)
    <3>1. \A s, c : Result(s, c).status = s
      BY DEF Result
    <3> QED BY <1>2, <1>6, <3>1 DEF OutOfFuel, FirstResult
  <2>2. s \in Statuses
    BY DEF Statuses
  <2>3. result'.status = s /\ result'.cmds = <<>> /\ result' \in [status : Statuses, cmds : Seq(Ids)]
        /\ \A T : result'.cmds \in Seq(T)
    BY <2>1, <2>2, EmptyResult
  <2>4. pc' = "done"
    BY <1>1, <1>6
  <2>5. TypeOK'
    BY ZenonT(30), <1>1, <1>4, <2>1, <2>3, <2>4 DEF TypeOK
  <2>6. EachCallOnce' /\ StuckIsThrown' /\ WhereTheyWait'
    BY <1>1, <2>3, <2>4 DEF EachCallOnce, NoCommandTwice, NoCallForgotten, Running, StuckIsThrown, WhereTheyWait
  <2>7. ResultIsTrue'
    BY <1>4, <2>1, <2>3, <2>4, NoCommands DEF ResultIsTrue, Running
  <2> QED BY <2>5, <2>6, <2>7 DEF CellInv
<1> QED BY <1>5, <1>6

\* A step that leaves the VM and the commands where they are.
LEMMA FlagKeeps ==
  ASSUME CellInv, UNCHANGED <<pc, cells, vm, result, batch, accumulated, resumed, thrown>>,
         needsReset' \in BOOLEAN, aborted' \in BOOLEAN
  PROVE  CellInv'
<1>1. TypeOK'
  BY DEF CellInv, TypeOK
<1>2. Waiting' = Waiting
  BY DEF Waiting
<1> QED BY <1>1, <1>2 DEF CellInv, EachCallOnce, NoCommandTwice, NoCallForgotten, StuckIsThrown,
                          WhereTheyWait, ResultIsTrue

\* A step to the end of a cell, with a result that is true.
LEMMA DoneKeeps ==
  ASSUME CellInv, pc \in Running, pc' = "done", UNCHANGED <<cells, vm, needsReset, aborted, resumed, thrown>>,
         batch' = batch, accumulated' = <<>>, result' \in {result, Result("unfinished", <<>>), Result("stuck", <<>>)},
         result'.status = "stuck" => thrown # {}
  PROVE  CellInv'
<1>1. TypeOK /\ ResultIsTrue
  BY DEF CellInv
<1>2. \A T : <<>> \in Seq(T)
  OBVIOUS
<1>3. /\ result' \in [status : Statuses, cmds : Seq(Ids)] /\ result'.cmds \in Seq(1..vm.issued)
      /\ result'.status = "ok" => result.status = "ok"
  <2>1. ASSUME NEW s \in {"unfinished", "stuck"}, result' = Result(s, <<>>)
        PROVE  /\ result' \in [status : Statuses, cmds : Seq(Ids)] /\ result'.cmds \in Seq(1..vm.issued)
               /\ result'.status # "ok"
    <3>1. s \in Statuses /\ s # "ok"
      BY DEF Statuses
    <3> QED BY <2>1, <3>1, EmptyResult
  <2>2. CASE result' = result
    BY <1>1, <2>2 DEF TypeOK
  <2> QED BY <2>1, <2>2
<1>4. TypeOK'
  BY <1>1, <1>2, <1>3 DEF TypeOK
<1> QED BY <1>1, <1>3, <1>4 DEF CellInv, EachCallOnce, NoCommandTwice, NoCallForgotten, StuckIsThrown,
                                WhereTheyWait, ResultIsTrue, Running

\* The loop takes the commands of a result, waits for the handlers, and ends a
\* batch.
LEMMA NextBatchKeeps ==
  ASSUME CellInv, NextBatch
  PROVE  CellInv'
<1>1. /\ TypeOK /\ WhereTheyWait /\ ResultIsTrue /\ pc = "loop" /\ result.cmds # <<>>
      /\ batch = <<>> /\ accumulated = <<>> /\ vm.queued = <<>> /\ result.status = "pending"
  BY DEF CellInv, NextBatch, IsStuck, WhereTheyWait, ResultIsTrue
<1>2. /\ batch' = result.cmds /\ pc' \in {"aborting", "awaiting"}
      /\ UNCHANGED <<cells, vm, needsReset, aborted, result, accumulated, resumed, thrown>>
  BY DEF NextBatch
<1>3. TypeOK'
  BY <1>1, <1>2 DEF TypeOK, Running
<1>4. Once("loop", <<>>, <<>>, <<>>, result.cmds, resumed, Entries(vm), thrown)
  BY <1>1, OnceIs DEF CellInv, OfResult
<1>5. Once(pc', result.cmds, <<>>, <<>>, <<>>, resumed, Entries(vm), thrown)
  BY <1>2, <1>4, NoCommands DEF Once, All, Running
<1>6. EachCallOnce'
  <2>1. OfResult(pc', result') = <<>>
    BY <1>2 DEF OfResult
  <2> QED BY <1>1, <1>2, <1>3, <1>5, <2>1, OnceIsNext
<1>7. WhereTheyWait' /\ ResultIsTrue' /\ StuckIsThrown'
  BY <1>1, <1>2 DEF WhereTheyWait, ResultIsTrue, StuckIsThrown, Running
<1> QED BY <1>3, <1>6, <1>7 DEF CellInv

\* The batch has been executed.
LEMMA JoinAllKeeps ==
  ASSUME CellInv, JoinAll
  PROVE  CellInv'
<1>1. /\ TypeOK /\ WhereTheyWait /\ ResultIsTrue /\ StuckIsThrown /\ EachCallOnce
      /\ pc = "awaiting" /\ pc' = "resuming"
      /\ UNCHANGED <<cells, vm, needsReset, aborted, result, batch, accumulated, resumed, thrown>>
  BY DEF CellInv, JoinAll
<1>2. TypeOK'
  BY <1>1 DEF TypeOK, Running
<1>3. EachCallOnce'
  <2>1. Waiting' = Waiting
    BY <1>1 DEF Waiting
  <2> QED BY <1>1, <2>1 DEF EachCallOnce, NoCommandTwice, NoCallForgotten, Running
<1>4. WhereTheyWait' /\ ResultIsTrue' /\ StuckIsThrown'
  BY <1>1 DEF WhereTheyWait, ResultIsTrue, StuckIsThrown, Running
<1> QED BY <1>2, <1>3, <1>4 DEF CellInv

\* What the resumes of a batch left waiting becomes the next result.
LEMMA EndBatchKeeps ==
  ASSUME CellInv, EndBatch
  PROVE  CellInv'
<1>1. /\ TypeOK /\ WhereTheyWait /\ ResultIsTrue /\ StuckIsThrown /\ pc = "resuming" /\ batch = <<>>
      /\ batch' = <<>> /\ accumulated' = <<>>
      /\ UNCHANGED <<cells, vm, needsReset, aborted, resumed, thrown>>
      /\ result' = IF accumulated # <<>> /\ result.status \notin Errors
                   THEN Result("pending", accumulated) ELSE result
      /\ pc' = IF result'.status = "pending" THEN "loop" ELSE "done"
  BY DEF CellInv, EndBatch
<1>2. CASE result'.status # "pending"
  <2>1. result' = result /\ pc' = "done" /\ pc \in Running /\ result'.status # "stuck"
    BY <1>1, <1>2 DEF Result, Running, ResultIsTrue
  <2> QED BY <1>1, <2>1, DoneKeeps
<1>3. CASE result'.status = "pending"
  <2>1. /\ result.status \notin Errors /\ vm.queued = <<>> /\ result'.cmds = accumulated /\ pc' = "loop"
        /\ result'.cmds # <<>> \/ Entries(vm) # {}
        /\ result' \in [status : Statuses, cmds : Seq(Ids)]
    <3>1. /\ TypeOK => result \in [status : Statuses, cmds : Seq(Ids)] /\ accumulated \in Seq(1..vm.issued)
          /\ 1..vm.issued \subseteq Ids
      BY <1>1, BoundsAssumption DEF TypeOK, IsVM, Ids
    <3>2. accumulated \in Seq(Ids)
      BY <1>1, <3>1, SeqGrows
    <3>3. result.status \notin Errors
      BY <1>1, <1>3 DEF Errors
    <3>4. CASE accumulated # <<>>
      BY <1>1, <1>3, <3>2, <3>3, <3>4 DEF WhereTheyWait, Result, Statuses
    <3>5. CASE accumulated = <<>>
      BY <1>1, <1>3, <3>1, <3>3, <3>5 DEF WhereTheyWait, ResultIsTrue
    <3> QED BY <3>4, <3>5
  <2>2. TypeOK'
    BY <1>1, <2>1 DEF TypeOK, Running
  <2>3. Once("resuming", <<>>, accumulated, <<>>, <<>>, resumed, Entries(vm), thrown)
    BY <1>1, <2>1, OnceIs DEF CellInv, OfResult
  <2>4. Once("loop", <<>>, <<>>, <<>>, accumulated, resumed, Entries(vm), thrown)
    BY <2>3, NoCommands DEF Once, All, Running
  <2>5. EachCallOnce'
    BY <1>1, <2>1, <2>2, <2>4, OnceIsNext DEF OfResult
  <2>6. WhereTheyWait' /\ ResultIsTrue' /\ StuckIsThrown'
    BY <1>1, <1>3, <2>1 DEF WhereTheyWait, ResultIsTrue, StuckIsThrown, Running, Errors
  <2> QED BY <2>2, <2>5, <2>6 DEF CellInv
<1> QED BY <1>2, <1>3

\* A cell is stuck only if a timer threw: each entry is otherwise in a command.
LEMMA StuckKeeps ==
  ASSUME CellInv, Stuck
  PROVE  CellInv'
<1>1. /\ TypeOK /\ pc = "loop" /\ result.cmds = <<>> /\ batch = <<>> /\ accumulated = <<>> /\ vm.queued = <<>>
      /\ result.status = "pending" /\ Entries(vm) # {}
  BY DEF CellInv, Stuck, IsStuck, WhereTheyWait, ResultIsTrue
<1>2. Once("loop", <<>>, <<>>, <<>>, <<>>, resumed, Entries(vm), thrown)
  BY <1>1, OnceIs DEF CellInv, OfResult
<1>3. thrown # {}
  BY <1>1, <1>2, NoCommands DEF Once, All, Running
<1> QED BY <1>1, <1>3, DoneKeeps DEF Stuck, Running

(***************************************************************************)
(* The theorems.                                                           *)
(***************************************************************************)

\* The first state.
LEMMA CellInit == Init => CellInv
<1> SUFFICES ASSUME Init PROVE CellInv
  OBVIOUS
<1>1. \A T : <<>> \in Seq(T)
  OBVIOUS
<1>2. NoResult \in [status : Statuses, cmds : Seq(Ids)] /\ NoResult.cmds = <<>>
  BY <1>1 DEF NoResult, Result, Statuses
<1>3. TypeOK
  <2>1. result.cmds \in Seq(1..vm.issued) /\ batch \in Seq(1..vm.issued) /\ accumulated \in Seq(1..vm.issued)
    BY <1>1, <1>2 DEF Init
  <2>2. cells \in 0..MaxCells
    BY BoundsAssumption DEF Init
  <2>3. IsVM(vm) /\ result \in [status : Statuses, cmds : Seq(Ids)]
    BY <1>2, FreshIs DEF Init
  <2>4. /\ pc = "idle" /\ needsReset \in BOOLEAN /\ aborted \in BOOLEAN /\ resumed = {} /\ thrown = {}
    BY DEF Init
  <2> QED BY <2>1, <2>2, <2>3, <2>4 DEF TypeOK
<1> QED BY <1>3, CellInvBetween DEF Init

\* Every step.
LEMMA CellStep == CellInv /\ [Next]_vars => CellInv'
<1> SUFFICES ASSUME CellInv, [Next]_vars PROVE CellInv'
  OBVIOUS
<1>1. TypeOK /\ WhereTheyWait
  BY DEF CellInv
<1>2. CASE Reset
  <2>1. /\ vm' = FreshVM /\ needsReset' = FALSE /\ pc = "idle"
        /\ UNCHANGED <<pc, cells, aborted, result, batch, accumulated, resumed, thrown>>
    BY <1>2 DEF Reset
  <2>2. result = NoResult /\ batch = <<>> /\ accumulated = <<>> /\ resumed = {} /\ thrown = {}
    BY <1>1, <2>1 DEF WhereTheyWait
  <2>3. \A T : <<>> \in Seq(T)
    OBVIOUS
  <2>4. TypeOK'
    BY <1>1, <2>1, <2>2, <2>3, FreshIs DEF TypeOK, NoResult, Result
  <2> QED BY <2>1, <2>2, <2>4 DEF CellInv, EachCallOnce, NoCommandTwice, NoCallForgotten, StuckIsThrown,
                                  WhereTheyWait, ResultIsTrue, Running, NoResult, Result
<1>3. CASE RunCell
  BY <1>3, RunCellKeeps
<1>4. CASE SetAborted
  BY <1>1, <1>4, FlagKeeps DEF SetAborted, TypeOK
<1>5. CASE Stuck
  BY <1>5, StuckKeeps
<1>6. CASE NextBatch
  BY <1>6, NextBatchKeeps
<1>7. CASE JoinAll
  BY <1>7, JoinAllKeeps
<1>8. CASE ResumeNext
  BY <1>8, ResumeKeeps DEF ResumeNext
<1>9. CASE EndBatch
  BY <1>9, EndBatchKeeps
<1>10. CASE AbortNext
  BY <1>10, ResumeKeeps DEF AbortNext
<1>11. CASE EndAbort
  <2>1. pc \in Running /\ accumulated = <<>> /\ result'.status # "stuck"
    BY <1>1, <1>11 DEF EndAbort, Running, WhereTheyWait, CellInv, ResultIsTrue, Result
  <2> QED BY <1>11, <2>1, DoneKeeps DEF EndAbort
<1>12. CASE Return
  <2>1. /\ pc' = "idle" /\ result' = NoResult /\ batch' = <<>> /\ accumulated' = <<>> /\ resumed' = {} /\ thrown' = {}
        /\ UNCHANGED <<cells, vm, needsReset, aborted>>
    BY <1>12 DEF Return
  <2>2. \A T : <<>> \in Seq(T)
    OBVIOUS
  <2>3. TypeOK'
    BY <1>1, <2>1, <2>2 DEF TypeOK, NoResult, Result, Statuses
  <2> QED BY <2>1, <2>3 DEF CellInv, EachCallOnce, NoCommandTwice, NoCallForgotten, StuckIsThrown,
                            WhereTheyWait, ResultIsTrue, Running, NoResult, Result
<1>13. CASE UNCHANGED vars
  BY <1>1, <1>13, FlagKeeps DEF vars, TypeOK
<1> QED BY <1>2, <1>3, <1>4, <1>5, <1>6, <1>7, <1>8, <1>9, <1>10, <1>11, <1>12, <1>13
        DEF Next, LoopStep

\* The inductive invariant: where commands wait, and what the result says of the
\* VM, at every point of the loop (run_cell_async_loop).
THEOREM CellInvariant == SafeSpec => []CellInv
BY CellInit, CellStep, PTL DEF SafeSpec

\* The entries and the commands are calls that the cell has made.
THEOREM CellTypes == SafeSpec => []TypeOK
<1>1. CellInv => TypeOK
  BY DEF CellInv
<1> QED BY <1>1, CellInvariant, PTL

\* No command is executed or resumed twice, and a cell that goes on has forgotten
\* none.
THEOREM CallsRunOnce == SafeSpec => []EachCallOnce
<1>1. CellInv => EachCallOnce
  BY DEF CellInv
<1> QED BY <1>1, CellInvariant, PTL

\* A cell that ends with ok has left no call under way, though its promise may still
\* be pending, and only one in which a timer threw is reported stuck.
THEOREM StatusAlwaysTells == SafeSpec => []StatusTellsOfCalls
<1>1. CellInv => StatusTellsOfCalls
  BY DEF CellInv, StatusTellsOfCalls, OkLeavesNothing, StuckIsThrown, ResultIsTrue
<1> QED BY <1>1, CellInvariant, PTL

(***************************************************************************)
(* Calls: what arguments become, and how they are read.                    *)
(***************************************************************************)

\* What the assumptions say of one list of arguments.
LEMMA ArgumentsAre ==
  ASSUME NEW api \in Apis, NEW args \in Arguments(api)
  PROVE  /\ args \in Seq(Range(args)) /\ Len(args) \in Nat
         /\ DOMAIN args = 1..Len(args)
         /\ \A i \in 1..Len(args) :
              args[i] = Value(args[i].kind, args[i].of) /\ args[i].kind \in ArgumentKinds
<1>1. /\ args \in Seq(Range(args))
      /\ \A i \in DOMAIN args : IsArgument(args[i])
  BY CallsAssumption
<1>2. DOMAIN args = 1..Len(args) /\ Len(args) \in Nat
  BY <1>1
<1> QED BY <1>1, <1>2 DEF IsArgument

\* No argument that is transported is undefined.
LEMMA TransportedAre ==
  ASSUME NEW api \in Apis, NEW args \in Arguments(api), Transported(api, args) # Refused
  PROVE  \A i \in 1..Len(args) : args[i].kind \in ArgumentKinds \ {"undefined"}
<1>1. DOMAIN args = 1..Len(args) /\ \A i \in 1..Len(args) : args[i].kind \in ArgumentKinds
  BY ArgumentsAre
<1>2. \A i \in DOMAIN args : args[i].kind # "undefined"
  BY DEF Transported
<1> QED BY <1>1, <1>2

\* What a cell gives is an array, an object, or its only argument.
LEMMA GatheredIs ==
  ASSUME NEW api \in Apis, NEW args \in Arguments(api), NEW fields,
         \A i \in 1..Len(args) : args[i].kind # "undefined"
  PROVE  /\ Gathered(fields, args).kind \in ValueKinds \ {"refused"}
         /\ Len(args) = 1 => Gathered(fields, args) = args[1]
<1>1. /\ Len(args) \in Nat /\ DOMAIN args = 1..Len(args)
      /\ args \in Seq(Range(args))
      /\ \A i \in 1..Len(args) : args[i].kind \in ArgumentKinds
  BY ArgumentsAre
<1>2. CASE Len(args) = 1
  <2>1. args # <<>> /\ args[1].kind \in ArgumentKinds /\ args[1].kind # "undefined"
    BY <1>1, <1>2
  <2> QED BY <1>2, <2>1 DEF Gathered, ArgumentKinds, ValueKinds
<1>3. CASE Len(args) # 1
  BY <1>3 DEF Gathered, Object, Array, Value, ValueKinds
<1> QED BY <1>2, <1>3

\* What is transported has one of the kinds of values.
LEMMA TransportedKind ==
  ASSUME NEW api \in Apis, NEW args \in Arguments(api)
  PROVE  Transported(api, args).kind \in ValueKinds
<1>0. Refused.kind = "refused" /\ "refused" \in ValueKinds
  BY DEF Refused, Value, ValueKinds
<1>1. CASE \E i \in DOMAIN args : args[i].kind = "undefined"
  BY <1>0, <1>1 DEF Transported
<1>2. CASE ~ \E i \in DOMAIN args : args[i].kind = "undefined"
  <2>1. \A i \in 1..Len(args) : args[i].kind # "undefined"
    BY <1>2, ArgumentsAre
  <2>2. \A fields : Gathered(fields, args).kind \in ValueKinds
    BY <2>1, GatheredIs
  <2>3. CASE api.parity
    BY <1>2, <2>3 DEF Transported, Array, Value, ValueKinds
  <2>4. CASE ~api.parity /\ api.fields = <<>>
    BY <1>2, <2>2, <2>4 DEF Transported
  <2>5. CASE ~api.parity /\ api.fields # <<>>
    <3>1. Transported(api, args) = Named(api.fields, Gathered(api.fields, args))
      BY <1>2, <2>5 DEF Transported
    <3>2. ASSUME NEW v, v.kind \in ValueKinds PROVE Named(api.fields, v).kind \in ValueKinds
      BY <1>0, <3>2 DEF Named, Object, Value, ValueKinds
    <3> QED BY <2>2, <3>1, <3>2
  <2> QED BY <2>3, <2>4, <2>5
<1> QED BY <1>1, <1>2

(***************************************************************************)
(* Calls: the members a handler is given are those the call means.         *)
(***************************************************************************)

\* The members an API in Rust is read with, and what their table says.
ReadWith(api, ms) ==
  \/ ms = AllMembers[api.struct]
  \/ api.struct = "Fetch" /\ ms = FetchPositional

\* What the tables say of an API in Rust.
LEMMA TablesAre ==
  ASSUME NEW api \in Apis, api.by = "rust"
  PROVE  /\ ~api.parity
         /\ api.fields \in Seq(STRING) /\ Len(api.fields) \in Nat
         /\ DOMAIN api.fields = 1..Len(api.fields)
         /\ AreDistinct(api.fields)
         /\ api.struct = "Fetch" => api.fields # <<>> /\ api.fields # <<"fields">>
         /\ api.fields # <<>> => FieldsFit(api.fields, AllMembers[api.struct])
<1>1. api.fields \in Seq(STRING) /\ TablesFit(api)
  BY CallsAssumption
<1>2. DOMAIN api.fields = 1..Len(api.fields) /\ Len(api.fields) \in Nat
  BY <1>1
<1>3. <<"url", "options">> # <<>> /\ <<"url", "options">> # <<"fields">>
  OBVIOUS
<1> QED BY <1>1, <1>2, <1>3 DEF TablesFit

\* The struct of the API with the array fits no parameters without it.
LEMMA FieldsAreRequired ==
  ASSUME NEW api \in Apis, api.by = "rust", api.fields = <<"fields">>,
         NEW v, v.kind = "object", Fits(AllMembers[api.struct], v)
  PROVE  /\ "fields" \in DOMAIN v.of /\ v.of["fields"].kind = "array"
<1> DEFINE members == AllMembers[api.struct]
<1>1. FieldsFit(api.fields, members)
  <2>1. <<"fields">> # <<>>
    OBVIOUS
  <2> QED BY <2>1, TablesAre
<1>2. PICK i \in DOMAIN members : members[i].need = "required" /\ members[i].name = "fields"
  BY <1>1 DEF FieldsFit
<1>3. members[i].type = "array"
  <2>1. Len(<<"fields">>) = 1 /\ <<"fields">>[1] = "fields"
    OBVIOUS
  <2> QED BY <1>1, <1>2, <2>1 DEF FieldsFit
<1>4. FitsMember(members[i], v.of)
  BY DEF Fits, Given
<1> HIDE DEF members
<1> QED BY <1>2, <1>3, <1>4 DEF FitsMember, MayLack, IsOfType, IsOfPlainType

\* Values without names have none.
LEMMA ZipEmpty ==
  ASSUME NEW names
  PROVE  Zip2(names, <<>>) = <<>>
<1>1. {names[i] : i \in 1..(IF Len(names) < Len(<<>>) THEN Len(names) ELSE Len(<<>>))} = {}
  OBVIOUS
<1> QED BY <1>1 DEF Zip2

\* One value gets the first of the names.
LEMMA ZipOne ==
  ASSUME NEW names, names \in Seq(STRING), names # <<>>, NEW values, values \in Seq(Range(values)),
         Len(values) = 1
  PROVE  Zip2(names, values) = [m \in {names[1]} |-> values[1]]
<1> DEFINE n == IF Len(names) < Len(values) THEN Len(names) ELSE Len(values)
<1>1. n = 1
  OBVIOUS
<1>2. {names[i] : i \in 1..n} = {names[1]}
  BY <1>1
<1>3. (CHOOSE i \in 1..n : names[i] = names[1]) = 1
  BY <1>1
<1>4. \A m \in {names[1]} : values[CHOOSE i \in 1..n : names[i] = m] = values[1]
  BY <1>3
<1>5. Zip2(names, values) = [m \in {names[i] : i \in 1..n} |-> values[CHOOSE i \in 1..n : names[i] = m]]
  BY DEF Zip2
<1> HIDE DEF n
<1> QED BY <1>2, <1>4, <1>5

\* An empty list has the length 0, one of one argument or of several is not empty.
LEMMA Lengths ==
  /\ Len(<<>>) = 0 /\ Len(<<>>) # 1
  /\ \A n \in Nat : n > 1 => n # 0 /\ n # 1
  /\ \A n \in Nat : n = 0 \/ n = 1 \/ n > 1
OBVIOUS

\* Without arguments there are no members.
LEMMA NoneIsMeant ==
  ASSUME NEW api \in Apis, api.by = "rust", NEW args \in Arguments(api), Len(args) = 0,
         NEW ms, ReadWith(api, ms), Fits(ms, Transported(api, args))
  PROVE  Given(ms, Transported(api, args)) = Meant(api, args)
<1> DEFINE v == Transported(api, args)
<1>1. args = <<>> /\ DOMAIN args = {}
  <2>1. args \in Seq(Range(args)) /\ DOMAIN args = 1..0
    BY ArgumentsAre
  <2> QED BY <2>1
<1>2. Gathered(<<>>, args) = Object(<<>>) /\ Gathered(api.fields, args) = Object(<<>>)
  BY <1>1 DEF Gathered
<1>3. v = Object(<<>>)
  <2>1. ~api.parity
    BY TablesAre
  <2>2. Named(api.fields, Object(<<>>)) = Object(<<>>)
    BY DEF Named, Object, Value, IsKind
  <2> QED BY <1>1, <1>2, <2>1, <2>2 DEF Transported
<1>4. Given(ms, v) = <<>>
  BY <1>3 DEF Given, Object, Value
<1>5. api.fields # <<"fields">>
  <2> SUFFICES ASSUME api.fields = <<"fields">> PROVE FALSE
    OBVIOUS
  <2>1. ms = AllMembers[api.struct]
    BY TablesAre DEF ReadWith
  <2>2. "fields" \in DOMAIN v.of
    <3>1. v.kind = "object"
      BY <1>3 DEF Object, Value
    <3> QED BY <2>1, <3>1, FieldsAreRequired
  <2>3. DOMAIN v.of = {}
    BY <1>3 DEF Object, Value
  <2> QED BY <2>2, <2>3
<1>6. Meant(api, args) = <<>>
  BY <1>1, <1>5, ZipEmpty DEF Meant
<1> HIDE DEF v
<1> QED BY <1>4, <1>6 DEF v

\* A single argument: an object is the parameters, an array the values by position,
\* a string or a number the first of them.
LEMMA OneIsMeant ==
  ASSUME NEW api \in Apis, api.by = "rust", NEW args \in Arguments(api), Len(args) = 1,
         Transported(api, args) # Refused,
         NEW ms, ReadWith(api, ms), Fits(ms, Transported(api, args))
  PROVE  Given(ms, Transported(api, args)) = Meant(api, args)
<1> DEFINE v == Transported(api, args)
           arg == args[1]
<1>1. /\ args \in Seq(Range(args)) /\ args # <<>> /\ 1 \in 1..Len(args)
      /\ arg = Value(arg.kind, arg.of) /\ arg.kind \in ArgumentKinds \ {"undefined"}
  <2>1. args \in Seq(Range(args)) /\ args # <<>>
    BY ArgumentsAre, Lengths, Zenon
  <2>2. 1 \in 1..Len(args)
    OBVIOUS
  <2> QED BY <2>1, <2>2, ArgumentsAre, TransportedAre
<1>2. ~api.parity /\ api.fields \in Seq(STRING)
  BY TablesAre
<1>3. \A fields : Gathered(fields, args) = arg
  BY <1>1 DEF Gathered
<1>4. v = IF api.fields = <<>> THEN arg ELSE Named(api.fields, arg)
  BY <1>2, <1>3 DEF Transported
<1>5. v.kind \in {"object", "array"}
  BY DEF Fits, HasShape
<1>6. CASE arg.kind = "object"
  <2>1. v = arg
    BY <1>4, <1>6 DEF Named, IsKind
  <2> QED BY <1>6, <2>1 DEF Given, Meant
<1>7. CASE arg.kind = "array" /\ api.fields = <<>>
  <2>1. v = arg
    BY <1>4, <1>7
  <2>2. ms = AllMembers[api.struct]
    BY <1>7, TablesAre DEF ReadWith
  <2>3. <<>> # <<"fields">>
    OBVIOUS
  <2>4. Meant(api, args) = Zip2(NamesOf(AllMembers[api.struct]), arg.of)
    BY <1>7, <2>3 DEF Meant
  <2> QED BY <1>7, <2>1, <2>2, <2>4 DEF Given
<1>8. CASE arg.kind = "array" /\ api.fields = <<"fields">>
  <2>1. <<"fields">> # <<>>
    OBVIOUS
  <2>2. v = Object([fields |-> arg])
    BY <1>4, <1>8, <2>1 DEF Named
  <2>3. arg = Array(arg.of)
    BY <1>1, <1>8 DEF Array
  <2>4. Meant(api, args) = [fields |-> Array(arg.of)]
    BY <1>8 DEF Meant
  <2> QED BY <2>2, <2>3, <2>4 DEF Given, Object, Value
<1>9. CASE arg.kind = "array" /\ api.fields # <<>> /\ api.fields # <<"fields">>
  <2>1. v = Object(Zip2(api.fields, arg.of))
    BY <1>4, <1>9 DEF Named
  <2>2. Meant(api, args) = Zip2(api.fields, arg.of)
    BY <1>9 DEF Meant
  <2> QED BY <2>1, <2>2 DEF Given, Object, Value
<1>10. CASE arg.kind \in {"string", "number"}
  <2>1. api.fields # <<>>
    BY <1>4, <1>5, <1>10
  <2>2. v = Object([m \in {api.fields[1]} |-> arg])
    BY <1>4, <1>10, <2>1 DEF Named, IsKind
  <2>3. Given(ms, v) = [m \in {api.fields[1]} |-> arg]
    BY <2>2 DEF Given, Object, Value
  <2>4. api.fields # <<"fields">>
    <3> SUFFICES ASSUME api.fields = <<"fields">> PROVE FALSE
      OBVIOUS
    <3>1. ms = AllMembers[api.struct]
      BY TablesAre DEF ReadWith
    <3>2. v.kind = "object" /\ v.of = [m \in {api.fields[1]} |-> arg]
      BY <2>2 DEF Object, Value
    <3>3. "fields" \in DOMAIN v.of /\ v.of["fields"].kind = "array"
      BY <3>1, <3>2, FieldsAreRequired
    <3> HIDE DEF v, arg
    <3>4. v.of["fields"] = arg
      BY <3>2, <3>3
    <3> QED BY <1>10, <3>3, <3>4
  <2>5. Meant(api, args) = Zip2(api.fields, args)
    BY <1>10, <2>1, <2>4 DEF Meant
  <2>6. Zip2(api.fields, args) = [m \in {api.fields[1]} |-> arg]
    <3>1. args \in Seq(Range(args)) /\ Len(args) = 1
      BY <1>1
    <3>2. api.fields \in Seq(STRING) /\ api.fields # <<>>
      BY <1>2, <2>1
    <3> QED BY ONLY <3>1, <3>2, ZipOne
  <2> HIDE DEF v, arg
  <2> QED BY <2>3, <2>5, <2>6 DEF v
<1>11. CASE arg.kind \in {"boolean", "null"}
  <2>1. v = arg
    BY <1>4, <1>11 DEF Named, IsKind
  <2> QED BY <1>5, <1>11, <2>1
<1>12. arg.kind \in {"object", "array", "string", "number", "boolean", "null"}
  BY <1>1 DEF ArgumentKinds
<1> HIDE DEF v, arg
<1> QED BY <1>6, <1>7, <1>8, <1>9, <1>10, <1>11, <1>12 DEF v

\* Several arguments: options after the only field, or the values by position.
LEMMA SeveralAreMeant ==
  ASSUME NEW api \in Apis, api.by = "rust", NEW args \in Arguments(api), Len(args) > 1,
         Transported(api, args) # Refused,
         NEW ms, ReadWith(api, ms)
  PROVE  Given(ms, Transported(api, args)) = Meant(api, args)
<1> DEFINE v == Transported(api, args)
<1>1. /\ args \in Seq(Range(args)) /\ args # <<>> /\ Len(args) \in Nat
      /\ Len(args) # 1 /\ Len(args) # 0
  <2>1. args \in Seq(Range(args)) /\ Len(args) \in Nat
    BY ArgumentsAre
  <2>2. Len(args) # 1 /\ Len(args) # 0
    BY <2>1, Lengths, Zenon
  <2> QED BY <2>1, <2>2, Lengths, Zenon
<1>2. ~api.parity /\ api.fields \in Seq(STRING)
  BY TablesAre
<1>3. v = IF api.fields = <<>> THEN Gathered(<<>>, args)
          ELSE Named(api.fields, Gathered(api.fields, args))
  BY <1>2 DEF Transported
<1>4. CASE IsOptions(api.fields, args)
  <2>1. api.fields # <<>> /\ Len(args) = 2 /\ Len(api.fields) = 1 /\ args[2].kind = "object"
    BY <1>4, Lengths, Zenon DEF IsOptions
  <2> DEFINE both == [m \in {api.fields[1]} \cup DOMAIN args[2].of |->
                        IF m = api.fields[1] THEN args[1] ELSE args[2].of[m]]
  <2>2. Gathered(api.fields, args) = Object(both)
    BY <1>1, <1>4, <2>1 DEF Gathered
  <2>3. v = Object(both)
    <3> HIDE DEF both
    <3> QED BY <1>3, <2>1, <2>2 DEF Named, Object, Value, IsKind
  <2>4. Meant(api, args) = both
    BY <2>1 DEF Meant
  <2>5. Given(ms, v) = both
    <3> HIDE DEF both
    <3> QED BY <2>3 DEF Given, Object, Value
  <2> QED BY <2>4, <2>5
<1>5. CASE ~IsOptions(api.fields, args)
  <2>1. Gathered(api.fields, args) = Array(args)
    BY <1>1, <1>5 DEF Gathered
  <2>2. Gathered(<<>>, args) = Array(args)
    BY <1>1, Lengths DEF Gathered, IsOptions
  <2>3. ~(Len(args) = 2 /\ Len(api.fields) = 1 /\ args[2].kind = "object")
    BY <1>5 DEF IsOptions
  <2>4. CASE api.fields = <<>>
    <3>1. v = Array(args)
      BY <1>3, <2>2, <2>4
    <3>2. ms = AllMembers[api.struct]
      BY <2>4, TablesAre DEF ReadWith
    <3>3. <<>> # <<"fields">>
      OBVIOUS
    <3>4. Meant(api, args) = Zip2(NamesOf(AllMembers[api.struct]), args)
      BY <1>1, <2>3, <2>4, <3>3 DEF Meant
    <3> QED BY <3>1, <3>2, <3>4 DEF Given, Array, Value
  <2>5. CASE api.fields = <<"fields">>
    <3>1. <<"fields">> # <<>>
      OBVIOUS
    <3>2. v = Object([fields |-> Array(args)])
      BY <1>3, <2>1, <2>5, <3>1 DEF Named, Array, Value
    <3>3. Meant(api, args) = [fields |-> Array(args)]
      BY <1>1, <2>3, <2>5 DEF Meant
    <3> QED BY <3>2, <3>3 DEF Given, Object, Value
  <2>6. CASE api.fields # <<>> /\ api.fields # <<"fields">>
    <3>1. v = Object(Zip2(api.fields, args))
      BY <1>3, <2>1, <2>6 DEF Named, Array, Value
    <3>2. Meant(api, args) = Zip2(api.fields, args)
      BY <1>1, <2>3, <2>6 DEF Meant
    <3> QED BY <3>1, <3>2 DEF Given, Object, Value
  <2> QED BY <2>4, <2>5, <2>6
<1> QED BY <1>4, <1>5

\* Whatever the arguments: what the struct is read from is what the call means.
LEMMA GivenIsMeant ==
  ASSUME NEW api \in Apis, api.by = "rust", NEW args \in Arguments(api),
         Transported(api, args) # Refused,
         NEW ms, ReadWith(api, ms), Fits(ms, Transported(api, args))
  PROVE  Given(ms, Transported(api, args)) = Meant(api, args)
<1>1. Len(args) \in Nat
  BY ArgumentsAre
<1>2. Len(args) = 0 \/ Len(args) = 1 \/ Len(args) > 1
  BY <1>1, Lengths, Zenon
<1> QED BY <1>2, NoneIsMeant, OneIsMeant, SeveralAreMeant

\* What is transported to an API with fields is no array.
LEMMA FieldsGetNames ==
  ASSUME NEW api \in Apis, api.by = "rust", api.fields # <<>>, NEW args \in Arguments(api)
  PROVE  Transported(api, args).kind # "array"
<1>1. ~api.parity
  BY TablesAre
<1>2. \A v : Named(api.fields, v).kind # "array"
  BY DEF Named, Object, Value, Refused
<1>3. Refused.kind # "array"
  BY DEF Refused, Value
<1> QED BY <1>1, <1>2, <1>3 DEF Transported

\* The members fetch is read with, if FetchParams does not fit.
LEMMA ToldIsRead ==
  ASSUME NEW api \in Apis, api.by = "rust", NEW args \in Arguments(api),
         Transported(api, args) # Refused,
         Parsed(api, Transported(api, args)) # Refused
  PROVE  LET told == Told(api, Meant(api, args))
         IN  /\ ReadWith(api, told)
             /\ Fits(told, Transported(api, args))
             /\ Parsed(api, Transported(api, args)) = Read(told, Transported(api, args))
<1> DEFINE v == Transported(api, args)
           members == AllMembers[api.struct]
           meant == Meant(api, args)
<1>0. \A ms : Fits(ms, v) <=> Read(ms, v) # Refused
  BY DEF Read, Object, Refused, Value
<1>1. CASE Fits(members, v)
  <2>1. ReadWith(api, members)
    BY DEF ReadWith
  <2>2. Given(members, v) = meant
    BY <1>1, <2>1, GivenIsMeant
  <2>3. \A m \in Range(members) : FitsMember(m, meant)
    <3> HIDE DEF meant, v
    <3> QED BY <1>1, <2>2 DEF Fits, Range
  <2>4. Told(api, meant) = members
    <3> HIDE DEF meant, v
    <3>1. api.struct = "Fetch" => members = AllMembers["Fetch"]
      OBVIOUS
    <3> HIDE DEF members
    <3> QED BY <2>3, <3>1 DEF Told, members
  <2>5. Parsed(api, v) = Read(members, v)
    <3>1. Read(members, v) # Refused
      BY <1>0, <1>1
    <3> QED BY <3>1 DEF Parsed
  <2> HIDE DEF v, members, meant
  <2> QED BY <1>1, <2>1, <2>4, <2>5 DEF v, meant
<1>2. CASE ~Fits(members, v)
  <2>1. Read(members, v) = Refused
    BY <1>0, <1>2
  <2>2. api.struct = "Fetch" /\ Parsed(api, v) = Read(FetchPositional, v)
    <3> HIDE DEF v
    <3> QED BY <2>1 DEF Parsed, v
  <2>3. ReadWith(api, FetchPositional) /\ Fits(FetchPositional, v)
    BY <1>0, <2>2 DEF ReadWith
  <2>4. Given(FetchPositional, v) = meant
    BY <2>3, GivenIsMeant
  <2>5. v.kind = "object"
    <3>1. v.kind # "array"
      BY <2>2, FieldsGetNames, TablesAre
    <3>2. v.kind \in {"object", "array"}
      BY <2>3 DEF Fits, HasShape
    <3> QED BY <3>1, <3>2
  <2>6. Given(members, v) = meant
    BY <2>4, <2>5 DEF Given
  <2> HIDE DEF v, meant
  <2>7. \E i \in DOMAIN members : ~FitsMember(members[i], meant)
    <3> HIDE DEF members
    <3> QED BY <1>2, <2>5, <2>6 DEF Fits, HasShape
  <2>8. \E m \in Range(AllMembers["Fetch"]) : ~FitsMember(m, meant)
    BY <2>2, <2>7 DEF Range
  <2>9. Told(api, meant) = FetchPositional
    BY <2>2, <2>8 DEF Told
  <2> QED BY <2>2, <2>3, <2>9 DEF v, meant
<1> HIDE DEF v, members, meant
<1> QED BY <1>1, <1>2

\* A handler in Rust that starts has the values it was meant to have.
LEMMA ReadAsMeant ==
  ASSUME NEW api \in Apis, api.by = "rust", NEW args \in Arguments(api),
         Transported(api, args) # Refused,
         NEW read, read = Parsed(api, Transported(api, args)), read # Refused
  PROVE  LET meant == Meant(api, args)
         IN  \A m \in Range(Told(api, meant)) :
               IF m.name \in DOMAIN meant /\ meant[m.name].kind # "null"
               THEN m.name \in DOMAIN read.of /\ read.of[m.name] = meant[m.name]
               ELSE m.name \notin DOMAIN read.of
<1> DEFINE v == Transported(api, args)
           meant == Meant(api, args)
           told == Told(api, meant)
<1>1. ReadWith(api, told) /\ Fits(told, v) /\ read = Read(told, v)
  BY ToldIsRead
<1>2. Given(told, v) = meant
  BY <1>1, GivenIsMeant
<1>3. read = Object([n \in Held(told, meant) |-> meant[n]])
  <2> HIDE DEF v, told, meant
  <2> QED BY <1>1, <1>2 DEF Read
<1> HIDE DEF v, told, meant
<1>4. read.of = [n \in Held(told, meant) |-> meant[n]]
  BY <1>3 DEF Object, Value
<1>5. \A m \in Range(told) : m.name \in Range(NamesOf(told))
  BY DEF Range, NamesOf
<1>6. \A m \in Range(told) :
        m.name \in Held(told, meant) <=> m.name \in DOMAIN meant /\ meant[m.name].kind # "null"
  BY <1>5 DEF Held
<1>7. \A m \in Range(told) :
        IF m.name \in DOMAIN meant /\ meant[m.name].kind # "null"
        THEN m.name \in DOMAIN read.of /\ read.of[m.name] = meant[m.name]
        ELSE m.name \notin DOMAIN read.of
  BY <1>4, <1>6
<1> QED BY <1>7 DEF told, meant

\* Every field whose value is not one that a fetch may lose has a member in what the
\* handler is told.
LEMMA FieldsAreTold ==
  ASSUME NEW api \in Apis, api.by = "rust", NEW meant,
         NEW f \in Range(api.fields) \ MayBeLost(api)
  PROVE  \E m \in Range(Told(api, meant)) : m.name = f
<1> DEFINE members == AllMembers[api.struct]
<1>1. /\ f \in Range(NamesOf(members))
      /\ api.struct = "Fetch" => api.fields = <<"url", "options">>
  <2>1. TablesFit(api)
    BY CallsAssumption
  <2> HIDE DEF members
  <2> QED BY <2>1 DEF TablesFit, members
<1>2. \E m \in Range(members) : m.name = f
  <2> HIDE DEF members
  <2> QED BY <1>1 DEF Range, NamesOf
<1>3. CASE Told(api, meant) = members
  <2> HIDE DEF members
  <2> QED BY <1>2, <1>3
<1>4. CASE Told(api, meant) # members
  <2>1. api.struct = "Fetch" /\ Told(api, meant) = FetchPositional
    <3>1. Told(api, meant) \in {members, FetchPositional}
      BY DEF Told
    <3>2. api.struct # "Fetch" => Told(api, meant) = members
      BY DEF Told
    <3> QED BY <1>4, <3>1, <3>2
  <2>2. f = "url"
    <3>1. Range(<<"url", "options">>) = {"url", "options"}
      BY DEF Range
    <3> QED BY <1>1, <2>1, <3>1 DEF MayBeLost
  <2>3. /\ 1 \in DOMAIN FetchPositional
        /\ FetchPositional[1] \in Range(FetchPositional) /\ FetchPositional[1].name = "url"
    BY DEF FetchPositional, Required, Range
  <2> QED BY <2>1, <2>2, <2>3
<1> QED BY <1>3, <1>4

(***************************************************************************)
(* Calls: one value of the right type for each field is enough.            *)
(***************************************************************************)

\* A call with one value of the right type for each field.
OneForEach(api, args) ==
  /\ Len(args) = Len(api.fields)
  /\ \A i \in DOMAIN args : IsOfType(args[i], TypeOf(api, api.fields[i]))

\* The type a field has is that of its member.
LEMMA TypeOfIs ==
  ASSUME NEW api \in Apis, api.by = "rust", NEW i \in DOMAIN AllMembers[api.struct]
  PROVE  TypeOf(api, AllMembers[api.struct][i].name) = AllMembers[api.struct][i].type
<1> DEFINE members == AllMembers[api.struct]
           name == members[i].name
<1>1. AreDistinct(NamesOf(members))
  BY CallsAssumption DEF TablesFit
<1> HIDE DEF members
<1>2. members[i] \in Range(members)
  BY DEF members, Range
<1>3. \A m \in Range(members) : m.name = name => m = members[i]
  <2> SUFFICES ASSUME NEW j \in DOMAIN members, members[j].name = name
               PROVE  members[j] = members[i]
    BY DEF Range
  <2>1. NamesOf(members)[j] = NamesOf(members)[i] /\ DOMAIN NamesOf(members) = DOMAIN members
    BY DEF NamesOf, members
  <2>2. i = j
    BY <1>1, <2>1 DEF AreDistinct, members
  <2> QED BY <2>2
<1>4. (CHOOSE m \in Range(members) : m.name = name) = members[i]
  BY <1>2, <1>3
<1> QED BY <1>2, <1>4 DEF TypeOf, members

\* The type of a field is one of those of the table, or there is no member for it.
LEMMA FieldTypes ==
  ASSUME NEW api \in Apis, api.by = "rust", NEW f \in DOMAIN api.fields, api.fields # <<>>
  PROVE  /\ TypeOf(api, api.fields[f]) \in (TypeNames \ {"any"}) \cup {"none"}
         /\ Len(api.fields) = 1 =>
              TypeOf(api, api.fields[1]) \in
                {"none"} \cup IF api.fields = <<"fields">> THEN {"array"} ELSE {"string", "number"}
<1> DEFINE members == AllMembers[api.struct]
           allowed == IF api.fields = <<"fields">> THEN {"array"} ELSE {"string", "number"}
<1>1. FieldsFit(api.fields, members)
  BY TablesAre
<1>2. ASSUME NEW field, NEW types,
             \A i \in DOMAIN members : members[i].name = field => members[i].type \in types
      PROVE  TypeOf(api, field) \in types \cup {"none"}
  <2>1. CASE \E m \in Range(members) : m.name = field
    <3>1. PICK i \in DOMAIN members : members[i].name = field
      BY <2>1 DEF Range
    <3>2. TypeOf(api, field) = members[i].type
      BY <3>1, TypeOfIs
    <3> HIDE DEF members
    <3> QED BY <1>2, <3>1, <3>2
  <2>2. CASE ~ \E m \in Range(members) : m.name = field
    BY <2>2 DEF TypeOf
  <2> QED BY <2>1, <2>2
<1>3. api.fields[f] \in Range(api.fields)
  BY DEF Range
<1> HIDE DEF members
<1>4. /\ \A i \in DOMAIN members : members[i].name = api.fields[f] => members[i].type \in TypeNames \ {"any"}
      /\ Len(api.fields) = 1 =>
           \A i \in DOMAIN members : members[i].name = api.fields[1] => members[i].type \in allowed
  BY <1>1, <1>3 DEF FieldsFit
<1> HIDE DEF allowed
<1>5. TypeOf(api, api.fields[f]) \in (TypeNames \ {"any"}) \cup {"none"}
  BY <1>2, <1>4
<1>6. Len(api.fields) = 1 => TypeOf(api, api.fields[1]) \in allowed \cup {"none"}
  BY <1>2, <1>4
<1> QED BY <1>5, <1>6 DEF allowed

\* A value of a type that is not any is none of the kinds no type has.
LEMMA OfTypeIs ==
  ASSUME NEW v, v.kind \in ArgumentKinds,
         NEW type, type \in (TypeNames \ {"any"}) \cup {"none"}, IsOfType(v, type)
  PROVE  /\ type # "none" /\ v.kind # "undefined"
         /\ type = "array" => v.kind = "array" /\ AreStrings(v)
         /\ type \in {"string", "number"} => v.kind = type
BY DEF IsOfType, IsOfPlainType, TypeNames, ArgumentKinds

\* Such a call is transported by the names of its fields, each with its value.
LEMMA EachGetsItsName ==
  ASSUME NEW api \in Apis, api.by = "rust", api.fields # <<>>,
         NEW args \in Arguments(api), OneForEach(api, args)
  PROVE  /\ Transported(api, args).kind = "object"
         /\ DOMAIN Transported(api, args).of = Range(api.fields)
         /\ \A i \in DOMAIN args : /\ api.fields[i] \in DOMAIN Transported(api, args).of
                                   /\ Transported(api, args).of[api.fields[i]] = args[i]
<1> DEFINE v == Transported(api, args)
           fields == api.fields
<1>1. /\ args \in Seq(Range(args)) /\ Len(args) \in Nat /\ DOMAIN args = 1..Len(args)
      /\ \A i \in DOMAIN args : args[i].kind \in ArgumentKinds
  BY ArgumentsAre
<1>2. /\ ~api.parity /\ fields \in Seq(STRING) /\ AreDistinct(fields)
      /\ DOMAIN fields = 1..Len(fields)
  BY TablesAre
<1>3. Len(args) = Len(fields) /\ DOMAIN args = DOMAIN fields
  BY <1>1, <1>2 DEF OneForEach
<1>4. \A i \in DOMAIN args :
        /\ TypeOf(api, fields[i]) \in (TypeNames \ {"any"}) \cup {"none"}
        /\ IsOfType(args[i], TypeOf(api, fields[i]))
  BY <1>3, FieldTypes DEF OneForEach
<1>5. \A i \in DOMAIN args : args[i].kind # "undefined"
  BY <1>1, <1>4, OfTypeIs
<1>6. v = Named(fields, Gathered(fields, args))
  BY <1>2, <1>5 DEF Transported
<1>7. CASE Len(args) = 1
  <2>1. args # <<>> /\ Gathered(fields, args) = args[1] /\ 1 \in DOMAIN args /\ DOMAIN args = {1}
    <3>1. args # <<>>
      BY <1>7, Lengths, Zenon
    <3>2. 1..1 = {1}
      OBVIOUS
    <3>3. DOMAIN args = {1}
      BY <1>1, <1>7, <3>2, Zenon
    <3> QED BY <1>7, <3>1, <3>3 DEF Gathered
  <2>2. TypeOf(api, fields[1]) \in
           {"none"} \cup IF fields = <<"fields">> THEN {"array"} ELSE {"string", "number"}
    BY <1>3, <1>7, <2>1, FieldTypes
  <2>3. CASE fields = <<"fields">>
    <3>1. args[1].kind = "array" /\ AreStrings(args[1])
      <4>1. TypeOf(api, fields[1]) \in {"none", "array"}
        BY <2>2, <2>3
      <4>2. TypeOf(api, fields[1]) = "array"
        BY <1>1, <1>4, <2>1, <4>1, OfTypeIs
      <4> QED BY <1>1, <1>4, <2>1, <4>2, OfTypeIs
    <3>2. v = Object([fields |-> args[1]])
      BY <1>6, <2>1, <2>3, <3>1 DEF Named
    <3>3. fields[1] = "fields" /\ Range(fields) = {"fields"}
      <4>1. fields[1] = "fields"
        BY <2>3
      <4>2. DOMAIN fields = {1}
        BY <1>3, <2>1
      <4> HIDE DEF fields
      <4> QED BY <4>1, <4>2 DEF Range
    <3>4. v.kind = "object" /\ v.of = [fields |-> args[1]]
      BY <3>2 DEF Object, Value
    <3> HIDE DEF v, fields
    <3> QED BY <2>1, <3>3, <3>4 DEF v, fields
  <2>4. CASE fields # <<"fields">>
    <3>1. args[1].kind \in {"string", "number"}
      <4>1. TypeOf(api, fields[1]) \in {"none", "string", "number"}
        BY <2>2, <2>4
      <4>2. TypeOf(api, fields[1]) \in {"string", "number"}
        BY <1>1, <1>4, <2>1, <4>1, OfTypeIs
      <4> QED BY <1>1, <1>4, <2>1, <4>2, OfTypeIs
    <3>2. v = Object([m \in {fields[1]} |-> args[1]])
      BY <1>6, <2>1, <3>1 DEF Named, IsKind
    <3>3. v.kind = "object" /\ v.of = [m \in {fields[1]} |-> args[1]]
      BY <3>2 DEF Object, Value
    <3>4. Range(fields) = {fields[1]}
      <4>1. DOMAIN fields = {1}
        BY <1>3, <2>1
      <4> HIDE DEF fields
      <4> QED BY <4>1 DEF Range
    <3> HIDE DEF v, fields
    <3> QED BY <2>1, <3>3, <3>4 DEF v, fields
  <2> QED BY <2>3, <2>4
<1>8. CASE Len(args) # 1
  <2>1. Gathered(fields, args) = Array(args)
    <3>1. args # <<>>
      <4>1. Len(fields) # 0
        BY <1>2, EmptySeq
      <4> QED BY <1>3, <4>1, Lengths, Zenon
    <3> QED BY <1>3, <1>8, <3>1 DEF Gathered, IsOptions
  <2>2. fields # <<"fields">>
    <3>1. Len(<<"fields">>) = 1
      OBVIOUS
    <3> QED BY <1>3, <1>8, <3>1, Zenon
  <2>3. v = Object(Zip2(fields, args))
    BY <1>6, <2>1, <2>2 DEF Named, Array, Value
  <2>4. v.kind = "object" /\ v.of = Zip2(fields, args)
    BY <2>3 DEF Object, Value
  <2>5. /\ DOMAIN Zip2(fields, args) = Range(fields)
        /\ \A i \in DOMAIN args : fields[i] \in DOMAIN Zip2(fields, args) /\ Zip2(fields, args)[fields[i]] = args[i]
    <3> DEFINE n == IF Len(fields) < Len(args) THEN Len(fields) ELSE Len(args)
               At(m) == CHOOSE i \in 1..n : fields[i] = m
    <3>1. n = Len(args)
      BY <1>3
    <3>2. Zip2(fields, args) = [m \in {fields[i] : i \in 1..n} |-> args[At(m)]]
      BY DEF Zip2
    <3> HIDE DEF n
    <3>3. ASSUME NEW i \in DOMAIN args PROVE At(fields[i]) = i
      BY <1>1, <1>2, <1>3, <3>1 DEF AreDistinct
    <3> HIDE DEF fields, At
    <3>4. {fields[i] : i \in 1..n} = Range(fields)
      BY <1>1, <1>3, <3>1 DEF Range
    <3>5. \A i \in DOMAIN args : fields[i] \in Range(fields)
      BY <1>3 DEF Range
    <3> QED BY <3>2, <3>3, <3>4, <3>5
  <2> HIDE DEF v, fields
  <2> QED BY <2>4, <2>5 DEF v, fields
<1> QED BY <1>7, <1>8

\* No struct needs what the fields do not name, so that the handler starts.
LEMMA FieldsSuffice ==
  ASSUME NEW api \in Apis, api.by = "rust", api.fields # <<>>,
         NEW args \in Arguments(api), OneForEach(api, args)
  PROVE  /\ Transported(api, args) # Refused
         /\ Parsed(api, Transported(api, args)) # Refused
<1> DEFINE v == Transported(api, args)
           members == AllMembers[api.struct]
<1>1. /\ v.kind = "object"
      /\ \A i \in DOMAIN args : api.fields[i] \in DOMAIN v.of /\ v.of[api.fields[i]] = args[i]
  BY EachGetsItsName
<1>2. DOMAIN api.fields = DOMAIN args /\ FieldsFit(api.fields, members)
  BY ArgumentsAre, TablesAre DEF OneForEach
<1>3. \A i \in DOMAIN args : IsOfType(args[i], TypeOf(api, api.fields[i]))
  BY DEF OneForEach
<1>4. DOMAIN v.of = Range(api.fields)
  BY EachGetsItsName
<1> HIDE DEF v
<1>5. ASSUME NEW i \in DOMAIN members PROVE FitsMember(members[i], v.of)
  <2>1. CASE members[i].name \in Range(api.fields)
    <3>1. PICK j \in DOMAIN args : api.fields[j] = members[i].name
      BY <1>2, <2>1 DEF Range
    <3>2. members[i].name \in DOMAIN v.of /\ v.of[members[i].name] = args[j]
      BY <1>1, <3>1
    <3>3. IsOfType(args[j], members[i].type)
      BY <1>3, <3>1, TypeOfIs
    <3> HIDE DEF members
    <3> QED BY <3>2, <3>3 DEF FitsMember
  <2>2. CASE members[i].name \notin Range(api.fields)
    <3>1. members[i].need # "required"
      BY <1>2, <2>2 DEF FieldsFit
    <3> HIDE DEF members
    <3> QED BY <1>4, <2>2, <3>1 DEF FitsMember, MayLack
  <2> QED BY <2>1, <2>2
<1>6. Fits(members, v)
  <2> HIDE DEF members
  <2> QED BY <1>1, <1>5 DEF Fits, HasShape, Given
<1>7. Read(members, v) # Refused
  BY <1>6 DEF Read, Object, Refused, Value
<1>8. v # Refused
  <2>1. Refused.kind = "refused"
    BY DEF Refused, Value
  <2> QED BY <1>1, <2>1
<1> QED BY <1>7, <1>8 DEF Parsed, v

(***************************************************************************)
(* Calls: the invariant.                                                   *)
(***************************************************************************)

\* A call is no NoCall.
LEMMA CallIsSome ==
  ASSUME NEW x, NEW y, NEW z
  PROVE  [action |-> x, api |-> y, args |-> z] # NoCall
<1>1. "api" \in DOMAIN [action |-> x, api |-> y, args |-> z] /\ "api" \notin DOMAIN NoCall
  BY DEF NoCall
<1> QED BY <1>1

\* A call that begins is transported, or rejected at once.
LEMMA CallKeeps ==
  ASSUME CallsInv, NEW api \in Apis, NEW args \in Arguments(api), Call(api, args)
  PROVE  CallsInv'
<1>1. /\ call' = [action |-> api.action, api |-> api, args |-> args]
      /\ params' = Transported(api, args) /\ received' = Refused
      /\ stage' = IF params' = Refused THEN "rejected" ELSE "queued"
  BY DEF Call
<1>2. call'.api = api /\ call'.args = args
  BY <1>1
<1>3. UnderWay'
  BY <1>1, <1>2 DEF UnderWay
<1> QED BY <1>1, <1>3 DEF CallsInv

\* The dispatcher starts the handler with what it reads, or refuses.
LEMMA DispatchKeeps ==
  ASSUME CallsInv, Dispatch
  PROVE  CallsInv'
<1>1. /\ stage = "queued" /\ UnderWay
      /\ received' = Started(call.api, params)
      /\ stage' = IF received' = Refused THEN "rejected" ELSE "running"
      /\ call' = call /\ params' = params
  BY DEF CallsInv, Dispatch
<1>2. UnderWay'
  BY <1>1 DEF UnderWay
<1> QED BY <1>1, <1>2 DEF CallsInv

\* The other steps leave the call and what it was told.
LEMMA OthersKeep ==
  ASSUME CallsInv, Answer \/ CallbackFails \/ HandBack \/ UNCHANGED callsVars
  PROVE  CallsInv'
<1>1. CASE Answer
  BY <1>1 DEF Answer, CallsInv, UnderWay
<1>2. CASE CallbackFails
  BY <1>2 DEF CallbackFails, CallsInv, UnderWay
<1>3. CASE HandBack
  BY <1>3 DEF HandBack, CallsInv
<1>4. CASE UNCHANGED callsVars
  BY <1>4 DEF callsVars, CallsInv, UnderWay
<1> QED BY <1>1, <1>2, <1>3, <1>4

\* Every call that is under way is one of an API, transported and read as makeAsync
\* and serde do, whatever the APIs and the arguments.
THEOREM CallsInvariant == CallsSpec => []CallsInv
<1>1. CallsInit => CallsInv
  BY DEF CallsInit, CallsInv
<1>2. CallsInv /\ [CallsNext]_callsVars => CallsInv'
  BY CallKeeps, DispatchKeeps, OthersKeep DEF CallsNext
<1> QED BY <1>1, <1>2, PTL DEF CallsSpec

\* What a handler in Rust is started with has the kind of a value.
LEMMA StartedKind ==
  ASSUME NEW api, NEW v, v.kind \in ValueKinds
  PROVE  Started(api, v).kind \in ValueKinds
<1>1. \A ms : Read(ms, v).kind \in ValueKinds
  BY DEF Read, Object, Refused, Value, ValueKinds
<1> QED BY <1>1 DEF Started, Parsed

\* Parameters and members are values, and only the stages that have them have them.
THEOREM CallsTypesHold == CallsSpec => []CallsTypes
<1>1. CallsInv => CallsTypes
  <2> SUFFICES ASSUME CallsInv PROVE CallsTypes
    OBVIOUS
  <2>1. Refused.kind \in ValueKinds /\ Null.kind \in ValueKinds
    BY DEF Refused, Null, Value, ValueKinds
  <2>2. CASE stage = "idle"
    BY <2>1, <2>2 DEF CallsInv, CallsTypes
  <2>3. CASE stage # "idle"
    <3>1. UnderWay
      BY <2>3 DEF CallsInv
    <3>2. params.kind \in ValueKinds
      BY <3>1, TransportedKind DEF UnderWay
    <3>3. received.kind \in ValueKinds
      BY <2>1, <3>1, <3>2, StartedKind DEF UnderWay
    <3>4. call # NoCall
      BY <3>1, CallIsSome DEF UnderWay
    <3> QED BY <2>3, <3>1, <3>2, <3>3, <3>4 DEF CallsInv, UnderWay, CallsTypes
  <2> QED BY <2>2, <2>3
<1> QED BY <1>1, CallsInvariant, PTL

\* A call with one value of the right type for each field is never refused.
LEMMA EnoughIsEnough == CallsInv => FieldsAreEnough
<1> SUFFICES ASSUME CallsInv, call # NoCall, call.api.by = "rust", call.api.fields # <<>>,
                    OneForEach(call.api, call.args)
             PROVE  stage # "rejected"
  BY DEF FieldsAreEnough, OneForEach
<1>1. UnderWay
  BY DEF CallsInv
<1>2. params # Refused /\ Parsed(call.api, params) # Refused
  BY <1>1, FieldsSuffice DEF UnderWay
<1>3. Started(call.api, params) = Parsed(call.api, params)
  <2>1. "rust" # "js"
    OBVIOUS
  <2> QED BY <2>1 DEF Started
<1> QED BY <1>1, <1>2, <1>3 DEF UnderWay

\* A handler in Rust that runs was told what the call means.
LEMMA ArrivalIsMeant == CallsInv => ArrivesAsMeant
<1> SUFFICES ASSUME CallsInv, stage = "running", call.api.by = "rust" PROVE ArrivesAsMeant
  BY DEF ArrivesAsMeant, ByRust
<1>1. UnderWay
  BY DEF CallsInv
<1>2. /\ call.api \in Apis /\ call.args \in Arguments(call.api)
      /\ Transported(call.api, call.args) # Refused
      /\ received = Parsed(call.api, Transported(call.api, call.args)) /\ received # Refused
  <2>1. Started(call.api, params) = Parsed(call.api, params)
    <3>1. "rust" # "js"
      OBVIOUS
    <3> QED BY <3>1 DEF Started
  <2> QED BY <1>1, <2>1 DEF UnderWay
<1> DEFINE meant == Meant(call.api, call.args)
           given == {n \in DOMAIN meant : meant[n].kind # "null"}
<1>3. \A m \in Range(Told(call.api, meant)) :
        IF m.name \in given
        THEN m.name \in DOMAIN received.of /\ received.of[m.name] = meant[m.name]
        ELSE m.name \notin DOMAIN received.of
  BY <1>2, ReadAsMeant
<1>4. (Range(call.api.fields) \cap given) \ MayBeLost(call.api) \subseteq DOMAIN received.of
  <2> SUFFICES ASSUME NEW f \in (Range(call.api.fields) \cap given) \ MayBeLost(call.api)
               PROVE  f \in DOMAIN received.of
    OBVIOUS
  <2>1. PICK m \in Range(Told(call.api, meant)) : m.name = f
    BY <1>2, FieldsAreTold
  <2> HIDE DEF meant
  <2> QED BY <1>3, <2>1
<1> QED BY <1>3, <1>4 DEF ArrivesAsMeant

\* For every API whose tables fit together, and all arguments: a handler in Rust finds
\* each value that its struct has a member for in that member and no other value, no
\* value for a field is dropped but the options of a fetch, which FetchParams ignores,
\* and a call with one value of the right type for each field is never refused.
THEOREM CallsAreUnderstoodAlways == CallsSpec => []CallsAreUnderstood
<1>1. CallsInv => CallsAreUnderstood
  BY EnoughIsEnough, ArrivalIsMeant DEF CallsAreUnderstood
<1> QED BY <1>1, CallsInvariant, PTL
==============================================================================
