------------------------ MODULE ObservationLeaseProofs ------------------------
(* Proofs about module ObservationLease, for any number of elements and any  *)
(* set of looks, with and without clones.                                    *)
EXTENDS ObservationLease, FiniteSetTheorems, WellFoundedInduction, TLAPS

(***************************************************************************)
(* The largest and the smallest number of a set.                           *)
(***************************************************************************)

\* A set of numbers that is not empty has a least one, ...
LEMMA LeastOf ==
  ASSUME NEW S \in SUBSET Nat, S # {}
  PROVE  \E m \in S : \A i \in S : m <= i
<1> DEFINE below == {0..n : n \in S}
<1>1. below \subseteq FiniteSubsetsOf(Nat) /\ below # {}
  <2>1. \A n \in S : 0..n \in SUBSET Nat /\ IsFiniteSet(0..n)
    BY FS_Interval
  <2> QED BY <2>1 DEF FiniteSubsetsOf
<1>2. \E x \in below : \A y \in below : ~ (<<y, x>> \in StrictSubsetOrdering(Nat))
  BY <1>1, FS_StrictSubsetOrderingWellFounded, WFMin
<1>3. PICK m \in S : \A y \in below : ~ (<<y, 0..m>> \in StrictSubsetOrdering(Nat))
  BY <1>2
<1>4. ASSUME NEW n \in S, n < m PROVE FALSE
  <2>1. 0..n \in SUBSET Nat /\ 0..m \in SUBSET Nat /\ 0..n \subseteq 0..m /\ 0..n # 0..m
    <3>1. m \in 0..m /\ m \notin 0..n /\ 0..n \subseteq 0..m
      BY <1>4
    <3> QED BY <3>1
  <2> QED BY <1>3, <2>1 DEF StrictSubsetOrdering
<1> QED BY <1>4

\* ... which is its Min.
LEMMA MinIsLeast ==
  ASSUME NEW S \in SUBSET Nat, S # {}
  PROVE  Min(S) \in S /\ \A i \in S : Min(S) <= i
BY LeastOf DEF Min

\* A bounded set of numbers that is not empty has a largest one, its Max.
LEMMA MaxIsLargest ==
  ASSUME NEW n \in Nat, NEW S \in SUBSET (0..n), S # {}
  PROVE  Max(S) \in S /\ \A i \in S : Max(S) >= i
<1> DEFINE T == {n - i : i \in S}
<1>1. T \in SUBSET Nat /\ T # {}
  <2>1. \A i \in S : n - i \in Nat
    OBVIOUS
  <2> QED BY <2>1
<1>2. PICK m \in T : \A i \in T : m <= i
  BY <1>1, LeastOf
<1>3. PICK s \in S : m = n - s
  BY <1>2
<1>4. \A i \in S : s >= i
  <2> TAKE i \in S
  <2>1. n - s <= n - i /\ i \in Int /\ s \in Int
    BY <1>2, <1>3
  <2> QED BY <2>1
<1> QED BY <1>4 DEF Max

(***************************************************************************)
(* The allocation of refIds.                                               *)
(***************************************************************************)

\* There are finitely many elements.
LEMMA FinitelyMany ==
  ASSUME NEW S \in SUBSET Elements
  PROVE  /\ IsFiniteSet(S) /\ Cardinality(S) \in Nat /\ Cardinality(S) <= MaxElements
         /\ S \in SUBSET Nat /\ MaxElements \in Nat
<1>1. /\ IsFiniteSet(Elements) /\ Cardinality(Elements) = MaxElements
      /\ MaxElements \in Nat /\ Elements \subseteq Nat
  BY ElementsAssumption, FS_Interval DEF Elements
<1>2. IsFiniteSet(S) /\ Cardinality(S) <= Cardinality(Elements)
  BY <1>1, FS_Subset
<1> QED BY <1>1, <1>2, FS_CardinalityType

\* The elements of S up to element e.
UpTo(S, e) == {f \in S : f <= e}

\* Elements are told apart by how many of a set come up to each.
LEMMA CountUpTo ==
  ASSUME NEW S \in SUBSET Elements, NEW e \in S
  PROVE  /\ IsFiniteSet(S) /\ Cardinality(S) \in Nat
         /\ Cardinality(UpTo(S, e)) \in 1..Cardinality(S)
         /\ \A f \in S : f # e => Cardinality(UpTo(S, f)) # Cardinality(UpTo(S, e))
<1>1. IsFiniteSet(S) /\ Cardinality(S) \in Nat /\ S \in SUBSET Nat
  BY FinitelyMany
<1>2. ASSUME NEW f \in S
      PROVE  /\ UpTo(S, f) \in SUBSET S /\ f \in UpTo(S, f) /\ IsFiniteSet(UpTo(S, f))
             /\ Cardinality(UpTo(S, f)) \in 1..Cardinality(S)
  <2>1. UpTo(S, f) \in SUBSET S /\ f \in UpTo(S, f)
    BY DEF UpTo, Elements
  <2>2. IsFiniteSet(UpTo(S, f)) /\ Cardinality(UpTo(S, f)) <= Cardinality(S)
    BY <1>1, <2>1, FS_Subset
  <2>3. Cardinality(UpTo(S, f)) \in Nat /\ Cardinality(UpTo(S, f)) # 0
    BY <2>1, <2>2, FS_CardinalityType, FS_EmptySet
  <2> QED BY <1>1, <2>1, <2>2, <2>3
<1>3. ASSUME NEW f \in S, NEW g \in S, f < g
      PROVE  Cardinality(UpTo(S, f)) # Cardinality(UpTo(S, g))
  <2>1. UpTo(S, f) \in SUBSET UpTo(S, g) /\ g \notin UpTo(S, f)
    <3>1. /\ f \in Nat /\ g \in Nat /\ f < g
          /\ \A h \in S : h \in Nat
      BY <1>1, <1>3
    <3>2. \A h \in S : h <= f => h <= g
      BY <3>1
    <3>3. ~ (g <= f)
      BY <3>1
    <3> QED BY <3>2, <3>3 DEF UpTo
  <2> QED BY <1>2, <2>1, FS_Subset
<1>4. ASSUME NEW f \in S, f # e PROVE Cardinality(UpTo(S, f)) # Cardinality(UpTo(S, e))
  <2>1. f < e \/ e < f
    BY <1>1, <1>4
  <2> QED BY <1>3, <2>1
<1> QED BY <1>1, <1>2, <1>4

\* The elements that have a refId, given those of the document.
Having(rs) == {e \in Elements : rs[e] # 0}

\* The elements of w get refIds they have not shared with an element of the document,
\* and a refId is at most the number of elements that have one.
LEMMA RefsAreFresh ==
  ASSUME TypeOK, RefsAreCounted, NEW w \in SUBSET connected
  PROVE  /\ RefsOf(w) \in [Elements -> 0..MaxElements]
         /\ \A e \in w : RefsOf(w)[e] \in RefIds
         /\ \A e \in Elements : ref[e] # 0 => RefsOf(w)[e] = ref[e]
         /\ \A e \in Elements : RefsOf(w)[e] # 0 =>
              e \in created /\ RefsOf(w)[e] <= Cardinality(Having(RefsOf(w)))
         /\ \A e, f \in connected : e # f /\ ref[e] = 0 /\ RefsOf(w)[e] # 0 =>
              RefsOf(w)[f] # RefsOf(w)[e]
<1> DEFINE known == {0} \cup {ref[e] : e \in connected}
           counter == Max(known)
           new == {e \in w : ref[e] = 0}
           rs == RefsOf(w)
<1>1. connected \subseteq Elements /\ w \subseteq Elements /\ connected \subseteq created
      /\ MaxElements \in Nat /\ ref \in [Elements -> 0..MaxElements]
  BY ElementsAssumption DEF TypeOK
<1>2. /\ counter \in Nat /\ counter \in known
      /\ \A e \in connected : ref[e] <= counter /\ ref[e] \in Nat
  <2>1. known \in SUBSET (0..MaxElements) /\ known # {}
    BY <1>1
  <2>2. Max(known) \in known /\ \A i \in known : Max(known) >= i
    <3> HIDE DEF known
    <3> QED BY <1>1, <2>1, MaxIsLargest
  <2>3. \A e \in connected : ref[e] \in known /\ ref[e] \in Nat
    BY <1>1
  <2>4. \A i \in known : i \in Nat
    BY <2>1
  <2> HIDE DEF known
  <2> QED BY <2>2, <2>3, <2>4
<1>3. rs = [e \in Elements |-> IF e \in new THEN counter + Cardinality(UpTo(new, e)) ELSE ref[e]]
  BY DEF RefsOf, UpTo
<1>4. new \in SUBSET Elements /\ IsFiniteSet(new) /\ Cardinality(new) \in Nat
  <2>1. new \in SUBSET Elements
    BY <1>1
  <2> HIDE DEF new
  <2> QED BY <2>1, FinitelyMany
<1>5. /\ \A e \in new : Cardinality(UpTo(new, e)) \in 1..Cardinality(new)
      /\ \A e, f \in new : e # f => Cardinality(UpTo(new, f)) # Cardinality(UpTo(new, e))
  <2> HIDE DEF new
  <2> QED BY <1>4, CountUpTo
<1> HIDE DEF rs, counter, new
<1>6. /\ Having(ref) \in SUBSET Elements /\ IsFiniteSet(Having(ref))
      /\ Cardinality(Having(ref)) \in Nat /\ counter <= Cardinality(Having(ref))
  <2>1. IsFiniteSet(Having(ref)) /\ Cardinality(Having(ref)) \in Nat /\ Having(ref) \in SUBSET Elements
    <3>1. Having(ref) \in SUBSET Elements
      BY DEF Having
    <3> QED BY <3>1, FinitelyMany
  <2>2. CASE counter = 0
    BY <2>1, <2>2
  <2>3. CASE counter # 0
    <3>1. PICK e \in connected : counter = ref[e]
      BY <1>2, <2>3
    <3> QED BY <1>1, <2>1, <2>3, <3>1 DEF RefsAreCounted, Having
  <2> QED BY <2>1, <2>2, <2>3
<1>7. /\ \A e \in new : /\ rs[e] = counter + Cardinality(UpTo(new, e)) /\ ref[e] = 0
                        /\ rs[e] \in Nat \ {0} /\ rs[e] > counter
                        /\ rs[e] <= Cardinality(Having(ref)) + Cardinality(new)
      /\ \A e \in Elements \ new : rs[e] = ref[e]
      /\ \A e \in w \ new : ref[e] # 0
      /\ \A e \in new : e \in w
  <2>1. \A e \in new : rs[e] = counter + Cardinality(UpTo(new, e))
    BY <1>3, <1>4
  <2>2. /\ \A e \in Elements \ new : rs[e] = ref[e]
        /\ \A e \in w \ new : ref[e] # 0
        /\ \A e \in new : e \in w /\ ref[e] = 0
    BY <1>3 DEF new
  <2> QED BY <1>2, <1>4, <1>5, <1>6, <2>1, <2>2
<1>8. Having(rs) = Having(ref) \cup new /\ Having(ref) \cap new = {}
  BY <1>4, <1>7 DEF Having
<1>9. /\ Cardinality(Having(rs)) = Cardinality(Having(ref)) + Cardinality(new)
      /\ Cardinality(Having(rs)) <= MaxElements
  <2>1. Cardinality(Having(rs)) = Cardinality(Having(ref)) + Cardinality(new) - Cardinality({})
    BY <1>4, <1>6, <1>8, FS_Union
  <2>2. Having(rs) \in SUBSET Elements
    BY DEF Having
  <2>3. Cardinality(Having(rs)) <= MaxElements
    BY <2>2, FinitelyMany
  <2> QED BY <1>4, <1>6, <2>1, <2>3, FS_EmptySet
<1>10. \A e \in Elements : rs[e] # 0 =>
         e \in created /\ rs[e] \in Nat /\ rs[e] <= Cardinality(Having(rs))
  <2> SUFFICES ASSUME NEW e \in Elements, rs[e] # 0
               PROVE  e \in created /\ rs[e] \in Nat /\ rs[e] <= Cardinality(Having(rs))
    OBVIOUS
  <2>1. CASE e \in new
    BY <1>1, <1>7, <1>9, <2>1
  <2>2. CASE e \notin new
    <3>1. rs[e] = ref[e] /\ e \in created /\ ref[e] <= Cardinality(Having(ref)) /\ ref[e] \in Nat
      BY <1>1, <1>7, <2>2 DEF RefsAreCounted, Having
    <3> QED BY <1>4, <1>6, <1>9, <3>1
  <2> QED BY <2>1, <2>2
<1>11. rs \in [Elements -> 0..MaxElements]
  <2>1. \A e \in Elements : rs[e] \in 0..MaxElements
    BY <1>1, <1>4, <1>6, <1>9, <1>10
  <2>2. rs = [e \in Elements |-> rs[e]]
    BY <1>3
  <2> QED BY <2>1, <2>2
<1>12. \A e \in w : rs[e] \in RefIds
  <2> SUFFICES ASSUME NEW e \in w PROVE rs[e] # 0
    BY <1>1, <1>11 DEF RefIds
  <2> QED BY <1>1, <1>7
<1>13. \A e \in Elements : ref[e] # 0 => rs[e] = ref[e]
  BY <1>7
<1>14. ASSUME NEW e \in connected, NEW f \in connected, e # f, ref[e] = 0, rs[e] # 0
       PROVE  rs[f] # rs[e]
  <2>1. e \in new
    BY <1>1, <1>7, <1>14
  <2>2. CASE f \in new
    <3>1. /\ Cardinality(UpTo(new, e)) \in Int /\ Cardinality(UpTo(new, f)) \in Int
          /\ Cardinality(UpTo(new, f)) # Cardinality(UpTo(new, e))
      BY <1>5, <1>14, <2>1, <2>2
    <3> QED BY <1>2, <1>7, <2>1, <2>2, <3>1
  <2>3. CASE f \notin new
    <3>1. rs[f] = ref[f] /\ ref[f] <= counter
      BY <1>1, <1>2, <1>7, <2>3
    <3> QED BY <1>2, <1>7, <2>1, <3>1
  <2> QED BY <2>2, <2>3
<1> QED BY <1>10, <1>11, <1>12, <1>13, <1>14 DEF rs

(***************************************************************************)
(* Observations.                                                           *)
(***************************************************************************)

\* Each target of a new lease is an element of the document; unless the refId has a
\* twin, it is the element that was shown with it.
LEMMA LeaseOnShown ==
  ASSUME TypeOK, NEW w \in SUBSET connected, NEW rs \in [Elements -> 0..MaxElements],
         \A e \in w : rs[e] \in RefIds, NEW isSnapshot \in BOOLEAN
  PROVE  LET new == LeaseOn(w, rs, isSnapshot)
         IN  /\ \E refIds \in SUBSET RefIds : new \in [refIds -> Targets]
             /\ \A r \in DOMAIN new \ Twins(rs) :
                  \E e \in w : rs[e] = r /\ look[e] = new[r].look
<1> DEFINE refIds == {rs[e] : e \in w}
           having(r) == {e \in IF isSnapshot THEN connected ELSE w : rs[e] = r}
           target(r) == IF isSnapshot THEN Min(having(r)) ELSE Max(having(r))
           new == LeaseOn(w, rs, isSnapshot)
<1>1. connected \in SUBSET Elements /\ w \in SUBSET Elements /\ refIds \in SUBSET RefIds
  BY DEF TypeOK
<1>2. new = [r \in refIds |-> [element |-> target(r), look |-> look[target(r)]]]
  BY DEF LeaseOn
<1>3. ASSUME NEW r \in refIds
      PROVE  target(r) \in having(r) /\ having(r) \in SUBSET Elements
             /\ \E e \in w : rs[e] = r /\ e \in having(r)
  <2>1. PICK e \in w : rs[e] = r
    OBVIOUS
  <2>2. e \in having(r) /\ having(r) \in SUBSET Elements
    BY <1>1, <2>1
  <2>3. having(r) \in SUBSET Nat /\ having(r) \in SUBSET (0..MaxElements) /\ MaxElements \in Nat
    <3> HIDE DEF having
    <3> QED BY <2>2, ElementsAssumption DEF Elements
  <2>4. Min(having(r)) \in having(r) /\ Max(having(r)) \in having(r)
    <3> HIDE DEF having
    <3> QED BY <2>2, <2>3, MinIsLeast, MaxIsLargest
  <2> QED BY <2>1, <2>2, <2>4
<1> HIDE DEF target, refIds, new
<1>4. \A r \in refIds : [element |-> target(r), look |-> look[target(r)]] \in Targets
  BY <1>3 DEF Targets, TypeOK
<1>5. new \in [refIds -> Targets]
  BY <1>2, <1>4
<1>6. ASSUME NEW r \in refIds \ Twins(rs)
      PROVE  \E e \in w : rs[e] = r /\ look[e] = new[r].look
  <2>1. new[r].look = look[target(r)]
    BY <1>2
  <2>2. PICK e \in w : rs[e] = r /\ e \in having(r)
    BY <1>3
  <2>3. target(r) \in w /\ rs[target(r)] = r
    <3>1. CASE isSnapshot
      <4>1. having(r) = {f \in connected : rs[f] = r}
        BY <3>1
      <4>2. ~ (Cardinality(having(r)) > 1)
        BY <1>1, <1>6, <4>1 DEF Twins, refIds
      <4>3. IsFiniteSet(having(r)) /\ Cardinality(having(r)) \in Nat
        BY <1>3, FinitelyMany
      <4>4. target(r) \in having(r) /\ e \in having(r)
        BY <1>3, <2>2
      <4>5. Cardinality(having(r)) = 1
        BY <4>2, <4>3, <4>4, FS_EmptySet
      <4>6. \E x : having(r) = {x}
        <5> HIDE DEF having
        <5> QED BY <4>3, <4>5, FS_Singleton
      <4>7. target(r) = e
        <5> HIDE DEF having
        <5> QED BY <4>4, <4>6
      <4> QED BY <2>2, <4>7
    <3>2. CASE ~ isSnapshot
      BY <1>3, <3>2
    <3> QED BY <3>1, <3>2
  <2> QED BY <2>1, <2>3
<1> QED BY <1>1, <1>2, <1>5, <1>6 DEF new

\* What an observation leaves of the invariant.
Observed ==
  /\ ref' \in [Elements -> 0..MaxElements] /\ RefsAreCounted'
  /\ lease' = None \/ \E refIds \in SUBSET RefIds : lease' \in [refIds -> Targets]
  /\ shown' \subseteq RefIds \X Looks /\ twins' \subseteq RefIds /\ LeaseIsShown'

\* An observation of any part of the document.
LEMMA ObserveKeeps ==
  ASSUME TypeOK, RefsAreCounted, UNCHANGED page, NEW w \in SUBSET connected,
         NEW isSnapshot \in BOOLEAN, Observe(w, isSnapshot)
  PROVE  Observed
<1> DEFINE rs == RefsOf(w)
           new == LeaseOn(w, rs, isSnapshot)
<1>1. /\ rs \in [Elements -> 0..MaxElements]
      /\ \A e \in w : rs[e] \in RefIds
      /\ \A e \in Elements : rs[e] # 0 => e \in created /\ rs[e] <= Cardinality(Having(rs))
  BY RefsAreFresh
<1>2. /\ ref' = rs /\ lease' = LeaseOn(w, ref', isSnapshot)
      /\ shown' = {<<ref'[e], look[e]>> : e \in w} /\ twins' = Twins(ref')
  BY DEF Observe
<1> HIDE DEF rs
<1>3. /\ \E refIds \in SUBSET RefIds : new \in [refIds -> Targets]
      /\ \A r \in DOMAIN new \ Twins(rs) : \E e \in w : rs[e] = r /\ look[e] = new[r].look
  BY <1>1, LeaseOnShown
<1>4. lease' = new
  BY <1>2
<1>5. RefsAreCounted'
  BY <1>1, <1>2 DEF RefsAreCounted, Having, page
<1>6. shown' \subseteq RefIds \X Looks
  <2>1. \A e \in w : rs[e] \in RefIds /\ look[e] \in Looks
    BY <1>1 DEF TypeOK
  <2> QED BY <1>2, <2>1
<1>7. twins' \subseteq RefIds
  BY <1>2 DEF Twins
<1>8. LeaseIsShown'
  <2> HIDE DEF new
  <2> SUFFICES ASSUME NEW r \in DOMAIN new \ Twins(rs)
               PROVE  \E s \in shown' : s[1] = r /\ Alike(s[2], new[r].look)
    BY <1>2, <1>4 DEF LeaseIsShown, IsShown
  <2>1. PICK e \in w : rs[e] = r /\ look[e] = new[r].look
    BY <1>3
  <2>2. <<r, new[r].look>> \in shown'
    BY <1>2, <2>1
  <2> DEFINE s == <<r, new[r].look>>
  <2>3. s[1] = r /\ Alike(s[2], new[r].look)
    BY DEF Alike
  <2> QED BY <2>2, <2>3
<1> QED BY <1>1, <1>2, <1>3, <1>4, <1>5, <1>6, <1>7, <1>8 DEF Observed

(***************************************************************************)
(* The steps.                                                              *)
(***************************************************************************)

LastTypes == [how : Failures \cup {"none", "acted", "raw"},
              refId : 0..MaxElements, element : 0..MaxElements]

\* What the handlers may have done.
LEMMA LastIsTyped ==
  /\ Nothing \in LastTypes /\ Nothing.how = "none"
  /\ \A r \in 0..MaxElements, e \in Elements :
       /\ Acted(r, e) \in LastTypes
       /\ Acted(r, e).how = "acted" /\ Acted(r, e).refId = r /\ Acted(r, e).element = e
       /\ [how |-> "raw", refId |-> r, element |-> e] \in LastTypes
  /\ \A r \in 0..MaxElements, f \in Failures :
       Failed(r, f) \in LastTypes /\ Failed(r, f).how = f /\ Failed(r, f).how # "acted"
<1>1. 0 \in 0..MaxElements /\ \A e \in Elements : e \in 0..MaxElements
  BY ElementsAssumption DEF Elements
<1> QED BY <1>1 DEF LastTypes, Nothing, Acted, Failed, Failures

\* What leaves the lease and what was shown alone keeps the lease shown.
LEMMA StaysShown ==
  ASSUME LeaseIsShown, UNCHANGED <<lease, shown, twins>>
  PROVE  LeaseIsShown'
BY DEF LeaseIsShown, IsShown

\* The steps of the page keep the invariant.
LEMMA PageKeeps ==
  ASSUME LeaseInv, Quiet, created' \subseteq Elements, created \subseteq created',
         connected' \subseteq created', look' \in [Elements -> Looks],
         ref' \in [Elements -> 0..MaxElements], RefsAreCounted'
  PROVE  LeaseInv'
<1>1. TypeOK /\ LeaseIsShown
  BY DEF LeaseInv
<1>2. UNCHANGED <<lease, shown, twins>> /\ last' = Nothing
  BY DEF Quiet
<1>3. TypeOK'
  BY <1>1, <1>2, LastIsTyped DEF TypeOK, LastTypes
<1>4. LeaseIsShown'
  BY <1>1, <1>2, StaysShown
<1>5. ActsAsShownIfUnique'
  BY <1>2, LastIsTyped DEF ActsAsShownIfUnique, ActsAsShown
<1> QED BY <1>3, <1>4, <1>5 DEF LeaseInv

\* A clone takes over a refId and is counted, so the refIds are still counted.
LEMMA CloneKeeps ==
  ASSUME LeaseInv, NEW e \in Elements, NEW f \in Elements, CloneElement(e, f)
  PROVE  LeaseInv'
<1>1. TypeOK /\ RefsAreCounted
  BY DEF LeaseInv
<1>2. /\ e \in connected /\ f \notin created /\ e \in created
      /\ connected' = connected \cup {f} /\ created' = created \cup {f}
      /\ look' = [look EXCEPT ![f] = look[e]] /\ ref' = [ref EXCEPT ![f] = ref[e]] /\ Quiet
  BY <1>1 DEF CloneElement, TypeOK
<1>3. Having(ref) \in SUBSET Having(ref') /\ Having(ref') \in SUBSET Elements
  BY <1>1, <1>2 DEF Having, RefsAreCounted, TypeOK
<1>4. /\ Cardinality(Having(ref)) \in Nat /\ Cardinality(Having(ref')) \in Nat
      /\ Cardinality(Having(ref)) <= Cardinality(Having(ref'))
  BY <1>3, FinitelyMany, FS_Subset
<1>5. RefsAreCounted'
  <2> SUFFICES ASSUME NEW g \in Elements, ref'[g] # 0
               PROVE  g \in created' /\ ref'[g] <= Cardinality(Having(ref'))
    BY DEF RefsAreCounted, Having
  <2>1. PICK h \in Elements : ref'[g] = ref[h] /\ (g = f \/ g = h)
    BY <1>1, <1>2 DEF TypeOK
  <2>2. h \in created /\ ref[h] <= Cardinality(Having(ref)) /\ ref[h] \in Nat
    BY <1>1, <2>1 DEF RefsAreCounted, Having, TypeOK
  <2> QED BY <1>2, <1>4, <2>1, <2>2
<1>6. /\ created' \subseteq Elements /\ created \subseteq created' /\ connected' \subseteq created'
      /\ look' \in [Elements -> Looks] /\ ref' \in [Elements -> 0..MaxElements]
  BY <1>1, <1>2 DEF TypeOK
<1> QED BY <1>2, <1>5, <1>6, PageKeeps

\* A refused action keeps it.
LEMMA RefuseKeeps ==
  ASSUME LeaseInv, UNCHANGED page, NEW r \in 0..MaxElements, NEW f \in Failures, Refuse(r, f)
  PROVE  LeaseInv'
<1>1. TypeOK /\ RefsAreCounted
  BY DEF LeaseInv
<1>2. Observe(connected, TRUE) /\ last' = Failed(r, f)
  BY DEF Refuse
<1>3. Observed
  BY <1>1, <1>2, ObserveKeeps
<1>4. TypeOK'
  BY <1>1, <1>2, <1>3, LastIsTyped DEF TypeOK, LastTypes, Observed, page
<1>5. ActsAsShownIfUnique'
  BY <1>2, LastIsTyped DEF ActsAsShownIfUnique, ActsAsShown
<1> QED BY <1>3, <1>4, <1>5 DEF LeaseInv, Observed

\* What was shown of a refId does not depend on which of two looks alike is asked for.
LEMMA AlikeIsShown ==
  ASSUME NEW r, NEW l, NEW m, Alike(l, m), IsShown(r, l)
  PROVE  IsShown(r, m)
BY DEF IsShown, Alike

\* An action keeps it, if it reaches an element of the document that looks as shown.
LEMMA ActKeeps ==
  ASSUME LeaseInv, UNCHANGED page, NEW r \in 0..MaxElements, NEW e \in connected, Act(r, e),
         lease' = None \/ \E refIds \in SUBSET RefIds : lease' \in [refIds -> Targets],
         LeaseIsShown',
         r # 0 /\ r \notin twins => IsShown(r, look[e])
  PROVE  LeaseInv'
<1>1. TypeOK /\ RefsAreCounted /\ e \in Elements
  BY DEF LeaseInv, TypeOK
<1>2. last' = Acted(r, e) /\ UNCHANGED <<connected, created, look, ref, shown, twins>>
  BY DEF Act, page
<1>3. TypeOK'
  BY <1>1, <1>2, LastIsTyped DEF TypeOK, LastTypes
<1>4. RefsAreCounted'
  BY <1>1, <1>2 DEF RefsAreCounted
<1>5. ActsAsShownIfUnique'
  <2>1. last'.how = "acted" /\ last'.refId = r /\ last'.element = e /\ e \in connected'
    BY <1>1, <1>2 DEF Acted
  <2>2. r # 0 /\ r \notin twins' => IsShown(r, look[e])'
    BY <1>2 DEF IsShown
  <2> QED BY ZenonT(30), <2>1, <2>2 DEF ActsAsShownIfUnique, ActsAsShown
<1> QED BY <1>3, <1>4, <1>5 DEF LeaseInv

\* So does requireTarget: the target of the lease still looks as it was shown, or an
\* element that does is found.
LEMMA ActOnRefKeeps ==
  ASSUME LeaseInv, NEW r \in RefIds, ActOnRef(r)
  PROVE  LeaseInv'
<1>1. TypeOK /\ LeaseIsShown /\ UNCHANGED page /\ r \in 0..MaxElements
  BY DEF LeaseInv, ActOnRef, RefIds
<1>2. {"observation_required", "not_in_latest", "disconnected", "changed", "ambiguous",
       "not_found"} = Failures
  BY DEF Failures
<1>3. CASE lease = None
  BY <1>1, <1>2, <1>3, RefuseKeeps DEF ActOnRef
<1>4. CASE lease # None /\ r \notin DOMAIN lease
  BY <1>1, <1>2, <1>4, RefuseKeeps DEF ActOnRef
<1>5. CASE lease # None /\ r \in DOMAIN lease
  <2> DEFINE e == lease[r].element  l == lease[r].look
  <2>1. PICK refIds \in SUBSET RefIds : lease \in [refIds -> Targets]
    BY <1>1, <1>5 DEF TypeOK
  <2>2. e \in Elements /\ l \in Looks
    BY <1>5, <2>1 DEF Targets
  <2>3. r \notin twins => IsShown(r, l)
    BY <1>1, <1>5 DEF LeaseIsShown
  <2>4. IF e \notin connected
        THEN IF Refind(l) # {}
             THEN /\ Act(r, Min(Refind(l)))
                  /\ lease' = [lease EXCEPT ![r].element = Min(Refind(l)),
                                            ![r].look = look[Min(Refind(l))]]
             ELSE Refuse(r, "disconnected")
        ELSE IF look[e] # l THEN Refuse(r, "changed") ELSE Act(r, e) /\ UNCHANGED lease
    BY <1>5 DEF ActOnRef
  <2> HIDE DEF e, l
  <2>5. CASE e \notin connected /\ Refind(l) # {}
    <3>1. Refind(l) \in SUBSET Nat /\ Refind(l) \in SUBSET connected
      BY <1>1 DEF Refind, TypeOK, Elements
    <3>2. Min(Refind(l)) \in Refind(l)
      BY <2>5, <3>1, MinIsLeast
    <3> DEFINE m == Min(Refind(l))
    <3>3. m \in connected /\ Alike(look[m], l) /\ m \in Elements
      BY <1>1, <3>2 DEF Refind, TypeOK
    <3>4. Act(r, m) /\ lease' = [lease EXCEPT ![r].element = m, ![r].look = look[m]]
      BY <2>4, <2>5
    <3> HIDE DEF m
    <3>5. lease' \in [refIds -> Targets] /\ DOMAIN lease' = DOMAIN lease
          /\ \A q \in DOMAIN lease : Alike(lease[q].look, lease'[q].look)
      <4>1. [lease[r] EXCEPT !.element = m, !.look = look[m]] \in Targets
            /\ [lease[r] EXCEPT !.element = m, !.look = look[m]].look = look[m]
        BY <1>1, <1>5, <2>1, <2>2, <3>3 DEF Targets, TypeOK
      <4>2. lease' = [lease EXCEPT ![r] = [lease[r] EXCEPT !.element = m, !.look = look[m]]]
        BY <1>5, <2>1, <3>4
      <4>3. \A q \in DOMAIN lease : Alike(lease[q].look, lease'[q].look)
        <5> SUFFICES ASSUME NEW q \in DOMAIN lease
                     PROVE  Alike(lease[q].look, lease'[q].look)
          OBVIOUS
        <5>1. CASE q = r
          BY <2>1, <3>3, <4>1, <4>2, <5>1 DEF l, Alike
        <5>2. CASE q # r
          BY <2>1, <4>2, <5>2 DEF Alike
        <5> QED BY <5>1, <5>2
      <4> QED BY <1>5, <2>1, <4>1, <4>2, <4>3
    <3>6. LeaseIsShown'
      <4> SUFFICES ASSUME NEW q \in DOMAIN lease \ twins
                   PROVE  \E s \in shown : s[1] = q /\ Alike(s[2], lease'[q].look)
        BY <3>4, <3>5 DEF LeaseIsShown, IsShown, Act
      <4>1. IsShown(q, lease[q].look)
        BY <1>1, <1>5 DEF LeaseIsShown
      <4>2. IsShown(q, lease'[q].look)
        BY <3>5, <4>1, AlikeIsShown
      <4> QED BY <4>2 DEF IsShown
    <3>7. r \notin twins => IsShown(r, look[m])
      BY <2>3, <3>3, AlikeIsShown DEF Alike
    <3> QED BY <1>1, <3>3, <3>4, <3>5, <3>6, <3>7, ActKeeps
  <2>6. CASE e \notin connected /\ Refind(l) = {}
    BY <1>1, <1>2, <2>4, <2>6, RefuseKeeps
  <2>7. CASE e \in connected /\ look[e] # l
    BY <1>1, <1>2, <2>4, <2>7, RefuseKeeps
  <2>8. CASE e \in connected /\ look[e] = l
    <3>1. Act(r, e) /\ lease' = lease
      BY <2>4, <2>8
    <3>2. LeaseIsShown'
      BY <1>1, <3>1, StaysShown DEF Act
    <3> QED BY <1>1, <2>1, <2>3, <2>8, <3>1, <3>2, ActKeeps
  <2> QED BY <2>5, <2>6, <2>7, <2>8
<1> QED BY <1>3, <1>4, <1>5

\* requireTargetByLabel keeps it: it acts on no refId.
LEMMA ActOnLabelKeeps ==
  ASSUME LeaseInv, NEW l \in Names, ActOnLabel(l)
  PROVE  LeaseInv'
<1>1. /\ TypeOK /\ RefsAreCounted /\ LeaseIsShown /\ UNCHANGED page /\ 0 \in 0..MaxElements
      /\ {"observation_required", "disconnected", "ambiguous", "not_found"} \subseteq Failures
  BY ElementsAssumption DEF LeaseInv, ActOnLabel, Failures
<1>2. CASE lease = None
  BY <1>1, <1>2, RefuseKeeps DEF ActOnLabel
<1>3. CASE lease # None
  <2> DEFINE rs == {r \in DOMAIN lease : look[lease[r].element].name = l}
             e == lease[CHOOSE r \in rs : TRUE].element
  <2>1. \/ /\ rs = {}
           /\ last' = Failed(0, "not_found")
           /\ UNCHANGED <<ref, lease, shown, twins>>
        \/ Refuse(0, "ambiguous")
        \/ /\ Cardinality(rs) = 1
           /\ IF e \in connected THEN Act(0, e) /\ UNCHANGED lease
              ELSE Refuse(0, "disconnected")
    BY <1>3 DEF ActOnLabel
  <2>2. CASE /\ last' = Failed(0, "not_found")
             /\ UNCHANGED <<ref, lease, shown, twins>>
    <3>1. TypeOK'
      BY <1>1, <2>2, LastIsTyped DEF TypeOK, LastTypes, page
    <3>2. RefsAreCounted' /\ LeaseIsShown'
      BY <1>1, <2>2, StaysShown DEF RefsAreCounted, page
    <3>3. ActsAsShownIfUnique'
      BY <1>1, <2>2, LastIsTyped DEF ActsAsShownIfUnique, ActsAsShown
    <3> QED BY <3>1, <3>2, <3>3 DEF LeaseInv
  <2>3. ASSUME e \in connected, Act(0, e), UNCHANGED lease PROVE LeaseInv'
    <3>1. LeaseIsShown' /\ (lease' = None \/ \E refIds \in SUBSET RefIds : lease' \in [refIds -> Targets])
      BY <1>1, <2>3, StaysShown DEF Act, TypeOK
    <3> HIDE DEF e
    <3> QED BY <1>1, <2>3, <3>1, ActKeeps
  <2>4. ASSUME NEW f \in Failures, Refuse(0, f) PROVE LeaseInv'
    BY <1>1, <2>4, RefuseKeeps
  <2> QED BY <1>1, <2>1, <2>2, <2>3, <2>4
<1> QED BY <1>2, <1>3

\* So does resolveTargetRaw, which does not ask the lease.
LEMMA ActRawKeeps ==
  ASSUME LeaseInv, NEW r \in RefIds, ActRaw(r)
  PROVE  LeaseInv'
<1>1. /\ TypeOK /\ RefsAreCounted /\ LeaseIsShown /\ UNCHANGED page /\ r \in 0..MaxElements
      /\ "not_found" \in Failures
  BY DEF LeaseInv, ActRaw, RefIds, Failures
<1> DEFINE es == {e \in connected : ref[e] = r}
<1>2. \/ Refuse(r, "not_found")
      \/ /\ es # {}
         /\ last' = [how |-> "raw", refId |-> r, element |-> Min(es)]
         /\ UNCHANGED <<ref, lease, shown, twins>>
  BY DEF ActRaw
<1>3. CASE Refuse(r, "not_found")
  BY <1>1, <1>3, RefuseKeeps
<1>4. CASE /\ es # {}
           /\ last' = [how |-> "raw", refId |-> r, element |-> Min(es)]
           /\ UNCHANGED <<ref, lease, shown, twins>>
  <2>1. Min(es) \in Elements
    <3>1. es \in SUBSET Elements
      BY <1>1 DEF TypeOK
    <3> HIDE DEF es
    <3>2. es \in SUBSET Nat
      BY <3>1, FinitelyMany
    <3> QED BY <1>4, <3>1, <3>2, MinIsLeast
  <2>2. last' \in LastTypes /\ last'.how = "raw"
    BY <1>1, <1>4, <2>1, LastIsTyped
  <2>3. TypeOK'
    BY <1>1, <1>4, <2>2 DEF TypeOK, LastTypes, page
  <2>4. RefsAreCounted' /\ LeaseIsShown' /\ ActsAsShownIfUnique'
    BY <1>1, <1>4, <2>2, StaysShown DEF RefsAreCounted, ActsAsShownIfUnique, ActsAsShown, page
  <2> QED BY <2>3, <2>4 DEF LeaseInv
<1> QED BY <1>2, <1>3, <1>4

\* The first state.
LEMMA LeaseInit == Init => LeaseInv
<1> SUFFICES ASSUME Init PROVE LeaseInv
  OBVIOUS
<1>1. TypeOK
  BY ElementsAssumption, LastIsTyped DEF Init, TypeOK, LastTypes
<1>2. RefsAreCounted /\ LeaseIsShown /\ ActsAsShownIfUnique
  BY LastIsTyped DEF Init, RefsAreCounted, LeaseIsShown, ActsAsShownIfUnique, ActsAsShown
<1> QED BY <1>1, <1>2 DEF LeaseInv

\* Every step.
LEMMA LeaseStep == LeaseInv /\ [Next]_vars => LeaseInv'
<1> SUFFICES ASSUME LeaseInv, [Next]_vars PROVE LeaseInv'
  OBVIOUS
<1>1. TypeOK /\ RefsAreCounted /\ LeaseIsShown
  BY DEF LeaseInv
<1>2. ASSUME NEW e \in Elements, AddElement(e) \/ RemoveElement(e) PROVE LeaseInv'
  <2>1. /\ Quiet /\ UNCHANGED <<look, ref>>
        /\ created' \subseteq Elements /\ created \subseteq created' /\ connected' \subseteq created'
    BY <1>1, <1>2 DEF AddElement, RemoveElement, TypeOK
  <2>2. RefsAreCounted'
    BY <1>1, <2>1 DEF RefsAreCounted
  <2> QED BY <1>1, <2>1, <2>2, PageKeeps DEF TypeOK
<1>3. ASSUME NEW e \in Elements, NEW l \in Drawn[e], ChangeElement(e, l) PROVE LeaseInv'
  <2>1. Quiet /\ UNCHANGED <<connected, created, ref>> /\ look' \in [Elements -> Looks]
    BY <1>1, <1>3, DrawnAssumption DEF ChangeElement, TypeOK, Elements
  <2>2. RefsAreCounted'
    BY <1>1, <2>1 DEF RefsAreCounted
  <2> QED BY <1>1, <2>1, <2>2, PageKeeps DEF TypeOK
<1>4. ASSUME NEW e \in Elements, NEW f \in Elements, CloneElement(e, f) PROVE LeaseInv'
  BY <1>4, CloneKeeps
<1>5. ASSUME NEW w \in SUBSET connected, NEW isSnapshot \in BOOLEAN, ObservePage(w, isSnapshot)
      PROVE  LeaseInv'
  <2>1. UNCHANGED page /\ last' = Nothing /\ Observed
    BY <1>1, <1>5, ObserveKeeps DEF ObservePage
  <2>2. TypeOK'
    BY <1>1, <2>1, LastIsTyped DEF TypeOK, LastTypes, Observed, page
  <2>3. ActsAsShownIfUnique'
    BY <2>1, LastIsTyped DEF ActsAsShownIfUnique, ActsAsShown
  <2> QED BY <2>1, <2>2, <2>3 DEF LeaseInv, Observed
<1>6. CASE Invalidate
  <2>1. UNCHANGED <<page, ref, shown, twins>> /\ lease' = None /\ last' = Nothing
    BY <1>6 DEF Invalidate
  <2>2. TypeOK'
    BY <1>1, <2>1, LastIsTyped DEF TypeOK, LastTypes, page
  <2>3. RefsAreCounted' /\ LeaseIsShown' /\ ActsAsShownIfUnique'
    BY <1>1, <2>1, LastIsTyped
       DEF RefsAreCounted, LeaseIsShown, ActsAsShownIfUnique, ActsAsShown, page
  <2> QED BY <2>2, <2>3 DEF LeaseInv
<1>7. CASE PressUnobserved
  <2>1. /\ UNCHANGED <<page, ref, lease, shown, twins>> /\ 0 \in 0..MaxElements
        /\ last' = Failed(0, "observation_required") /\ "observation_required" \in Failures
    BY <1>7, ElementsAssumption DEF PressUnobserved, Failures
  <2>2. TypeOK'
    BY <1>1, <2>1, LastIsTyped DEF TypeOK, LastTypes, page
  <2>3. RefsAreCounted' /\ LeaseIsShown' /\ ActsAsShownIfUnique'
    BY <1>1, <2>1, StaysShown, LastIsTyped
       DEF RefsAreCounted, ActsAsShownIfUnique, ActsAsShown, page
  <2> QED BY <2>2, <2>3 DEF LeaseInv
<1>8. CASE UNCHANGED vars
  <2>1. UNCHANGED <<connected, created, look, ref, lease, shown, last, twins>>
    BY <1>8 DEF vars, page
  <2>2. LeaseIsShown' /\ (IsShown(last.refId, look[last.element])
                             => IsShown(last.refId, look[last.element])')
    BY <1>1, <2>1, StaysShown DEF IsShown
  <2> QED BY <2>1, <2>2 DEF LeaseInv, TypeOK, RefsAreCounted, ActsAsShownIfUnique,
                            ActsAsShown
<1> QED BY <1>2, <1>3, <1>4, <1>5, <1>6, <1>7, <1>8, ActOnRefKeeps, ActOnLabelKeeps, ActRawKeeps
        DEF Next

(***************************************************************************)
(* The theorems.                                                           *)
(***************************************************************************)

\* What the lease knows of a refId without a twin is what the agent was shown of it,
\* and the refIds of a document are counted.
THEOREM LeaseInvariant == Spec => []LeaseInv
BY LeaseInit, LeaseStep, PTL DEF Spec

\* The type invariant: refIds stay within the number of elements.
THEOREM LeaseTypes == Spec => []TypeOK
<1>1. LeaseInv => TypeOK
  BY DEF LeaseInv
<1> QED BY <1>1, LeaseInvariant, PTL

\* An action on a refId that one element had when it was observed reaches an element
\* of the document that looks as it was shown (requireTarget).
THEOREM LeaseActsAsShown == Spec => []ActsAsShownIfUnique
<1>1. LeaseInv => ActsAsShownIfUnique
  BY DEF LeaseInv
<1> QED BY <1>1, LeaseInvariant, PTL

\* A refId that is allocated is not the refId of another element of the document
\* (syncRefIdCounterFromDom before allocateRefId).
THEOREM LeaseAllocatesFree == Spec => AllocatedIsFree
<1> DEFINE Free == \A e, f \in connected : e # f /\ ref[e] = 0 /\ ref'[e] # 0 => ref'[f] # ref'[e]
<1>1. LeaseInv /\ [Next]_vars => Free
  <2> SUFFICES ASSUME LeaseInv, [Next]_vars, NEW e \in connected, NEW f \in connected, e # f,
                      ref[e] = 0, ref'[e] # 0
               PROVE  ref'[f] # ref'[e]
    OBVIOUS
  <2>1. TypeOK /\ RefsAreCounted /\ connected \subseteq created /\ connected \in SUBSET connected
    BY DEF LeaseInv, TypeOK
  <2>2. ASSUME NEW w \in SUBSET connected, ref' = RefsOf(w) PROVE ref'[f] # ref'[e]
    BY <2>1, <2>2, RefsAreFresh
  <2>3. ref' = ref \/ \E w \in SUBSET connected : ref' = RefsOf(w)
    <3>1. ASSUME NEW g \in Elements, NEW h \in Elements, CloneElement(g, h) PROVE FALSE
      BY <2>1, <3>1 DEF CloneElement, TypeOK
    <3>2. ASSUME NEW r, NEW why, Refuse(r, why) PROVE ref' = RefsOf(connected)
      BY <3>2 DEF Refuse, Observe
    <3>3. ASSUME NEW g \in Elements, AddElement(g) \/ RemoveElement(g) PROVE ref' = ref
      BY <3>3 DEF AddElement, RemoveElement
    <3>4. ASSUME NEW g \in Elements, NEW l \in Drawn[g], ChangeElement(g, l) PROVE ref' = ref
      BY <3>4 DEF ChangeElement
    <3>5. ASSUME NEW w \in SUBSET connected, NEW s \in BOOLEAN, ObservePage(w, s)
          PROVE  ref' = RefsOf(w)
      BY <3>5 DEF ObservePage, Observe
    <3>6. ASSUME NEW r \in RefIds, ActOnRef(r) PROVE ref' = ref \/ ref' = RefsOf(connected)
      BY <3>2, <3>6 DEF ActOnRef, Act
    <3>7. ASSUME NEW r \in RefIds, ActRaw(r) PROVE ref' = ref \/ ref' = RefsOf(connected)
      BY <3>2, <3>7 DEF ActRaw
    <3>8. ASSUME NEW l \in Names, ActOnLabel(l) PROVE ref' = ref \/ ref' = RefsOf(connected)
      BY <3>2, <3>8 DEF ActOnLabel, Act
    <3>9. Invalidate \/ PressUnobserved \/ UNCHANGED vars => ref' = ref
      BY DEF Invalidate, PressUnobserved, vars
    <3> QED BY <2>1, <3>1, <3>3, <3>4, <3>5, <3>6, <3>7, <3>8, <3>9 DEF Next
  <2> QED BY <2>2, <2>3
<1> HIDE DEF Free
<1>2. Free => [Free]_vars
  OBVIOUS
<1>3. Spec => [][Free]_vars
  BY <1>1, LeaseInvariant, PTL DEF Spec
<1> QED BY <1>3 DEF Free, AllocatedIsFree
=============================================================================
