--------------------------- MODULE ObservationLease ---------------------------
(***************************************************************************)
(* The content script of one document: how elements get their refIds       *)
(* (ref-id.ts), how an observation grants a lease over them, and when an   *)
(* action of the agent on a refId is let through (observation-lease.ts),   *)
(* while the page adds, removes, changes and clones elements.              *)
(*                                                                         *)
(* A handler runs to its end before anything else does.  A refId is its    *)
(* number, 0 the missing attribute.  The fingerprint of an element is its  *)
(* look: its role, its name trimmed and in small letters, and what of the  *)
(* fingerprint these leave out (the tag, the case and the spaces of the    *)
(* name).  Elements are numbered in document order.                        *)
(***************************************************************************)
EXTENDS Naturals, FiniteSets, FiniteSetsExt, Functions

CONSTANTS
  MaxElements,  \* bound: elements the page ever creates
  Looks,        \* fingerprints: records of a role, a name and a detail
  Drawn,        \* bound: the looks the page gives each element (a clone has another's)
  Copies,       \* whether the page clones elements and inserts removed ones again
  None          \* no observation, nothing shown

ASSUME ElementsAssumption == MaxElements \in Nat /\ Copies \in BOOLEAN
ASSUME DrawnAssumption == \A e \in 1..MaxElements : Drawn[e] \subseteq Looks

VARIABLES
  connected,  \* page: the elements in the document
  created,    \* page: the elements that exist
  look,       \* page: the look of each element
  ref,        \* page: the data-ref-id of each element
  lease,      \* the targets of the latest observation, or None without one
  shown,      \* what the latest observation told the agent: refId and look
  last,       \* what the last handler did
  twins       \* history: refIds of several elements, at the latest observation

page == <<connected, created, look>>
vars == <<page, ref, lease, shown, last, twins>>

Elements == 1..MaxElements
RefIds   == 1..MaxElements

\* Looks that refindByFingerprint takes for one another, and the names of looks.
Alike(l, m) == l.role = m.role /\ l.name = m.name
Names == {l.name : l \in Looks}

\* A target of the lease: an element and the look it had.
Targets == [element : Elements, look : Looks]

\* What a handler did: acted on an element, or failed and why.
Failures   == {"observation_required", "not_in_latest", "disconnected",
               "changed", "ambiguous", "not_found"}
Nothing    == [how |-> "none", refId |-> 0, element |-> 0]
Acted(r, e)  == [how |-> "acted", refId |-> r, element |-> e]
Failed(r, f) == [how |-> f, refId |-> r, element |-> 0]

Init ==
  /\ connected \in SUBSET Elements /\ created = connected
  /\ look \in {f \in [Elements -> Looks] : \A e \in Elements : f[e] \in Drawn[e]}
  /\ ref = [e \in Elements |-> 0]
  /\ lease = None /\ shown = {} /\ last = Nothing
  /\ twins = {}

-----------------------------------------------------------------------------
(* The page.                                                               *)

Quiet == UNCHANGED <<lease, shown, twins>> /\ last' = Nothing

AddElement(e) ==
  /\ e \notin connected /\ (Copies \/ e \notin created)
  /\ connected' = connected \cup {e} /\ created' = created \cup {e}
  /\ UNCHANGED <<look, ref>> /\ Quiet

RemoveElement(e) ==
  /\ e \in connected
  /\ connected' = connected \ {e}
  /\ UNCHANGED <<created, look, ref>> /\ Quiet

ChangeElement(e, l) ==
  /\ e \in connected /\ l # look[e]
  /\ look' = [look EXCEPT ![e] = l]
  /\ UNCHANGED <<connected, created, ref>> /\ Quiet

\* cloneNode copies the data-ref-id.
CloneElement(e, f) ==
  /\ Copies /\ e \in connected /\ f \notin created
  /\ connected' = connected \cup {f} /\ created' = created \cup {f}
  /\ look' = [look EXCEPT ![f] = look[e]]
  /\ ref' = [ref EXCEPT ![f] = ref[e]]
  /\ Quiet

-----------------------------------------------------------------------------
(* Observations.                                                           *)

\* Mutated form of RefsOf: the counter starts again at 0 (no sync).
RefsFromOne(w) ==
  LET new == {e \in w : ref[e] = 0}
  IN  [e \in Elements |->
         IF e \in new THEN Cardinality({f \in new : f <= e}) ELSE ref[e]]

\* Mutated form of RefsOf: an element that has a refId gets another one.
RefsAgain(w) ==
  LET counter == Max({0} \cup {ref[e] : e \in connected})
  IN  [e \in Elements |->
         IF e \in w THEN counter + Cardinality({f \in w : f <= e}) ELSE ref[e]]

\* syncRefIdCounterFromDom and allocateRefId for the elements of w: the counter
\* is the largest refId in the document, and those without one are numbered on.
RefsOf(w) ==
  LET counter == Max({0} \cup {ref[e] : e \in connected})
      new == {e \in w : ref[e] = 0}
  IN  [e \in Elements |->
         IF e \in new THEN counter + Cardinality({f \in new : f <= e}) ELSE ref[e]]

\* The lease on the elements of w, if they have the refIds of rs.  A snapshot
\* looks each refId up in the document (the first element that has it), find and
\* dom take the elements themselves (the last one).
LeaseOn(w, rs, isSnapshot) ==
  LET Having(r) == {e \in IF isSnapshot THEN connected ELSE w : rs[e] = r}
      Target(r) == IF isSnapshot THEN Min(Having(r)) ELSE Max(Having(r))
  IN  [r \in {rs[e] : e \in w} |-> [element |-> Target(r), look |-> look[Target(r)]]]

\* RefIds that several elements of the document have.
Twins(rs) == {r \in RefIds : Cardinality({e \in connected : rs[e] = r}) > 1}

\* Mutated form of Observe: targets of earlier observations are kept.
ObserveMore(w, isSnapshot) ==
  /\ ref' = RefsOf(w)
  /\ lease' = LET new == LeaseOn(w, ref', isSnapshot)
              IN  IF lease = None THEN new
                  ELSE [r \in DOMAIN new \cup DOMAIN lease |->
                          IF r \in DOMAIN lease THEN lease[r] ELSE new[r]]
  /\ shown' = {<<ref'[e], look[e]>> : e \in w}
  /\ twins' = Twins(ref')

\* grantFromInlineSnapshot, find, dom: refIds are allocated and the lease is the
\* new observation only.
Observe(w, isSnapshot) ==
  /\ ref' = RefsOf(w)
  /\ lease' = LeaseOn(w, ref', isSnapshot)
  /\ shown' = {<<ref'[e], look[e]>> : e \in w}
  /\ twins' = Twins(ref')

\* snapshot, snapshot_text, snapshot_query (of up to max_nodes), find, dom.
ObservePage(w, isSnapshot) ==
  /\ Observe(w, isSnapshot)
  /\ last' = Nothing
  /\ UNCHANGED page

\* A refused action attaches a snapshot of the whole document to its error.
Refuse(r, failure) ==
  /\ Observe(connected, TRUE)
  /\ last' = Failed(r, failure)

-----------------------------------------------------------------------------
(* Actions of the agent.                                                   *)

Act(r, e) ==
  /\ last' = Acted(r, e)
  /\ UNCHANGED <<ref, shown, twins>>

\* Mutated form of Refind: the role is enough.
RefindByRole(l) == {e \in connected : look[e].role = l.role}

\* refindByFingerprint: elements of the document with that role and name; neither
\* the tag nor how the name is written is compared.
Refind(l) == {e \in connected : Alike(look[e], l)}

\* requireTarget (click, fill, press by refId).  A target that is still there must
\* look exactly as it did, one that is gone may be found again in another.
ActOnRef(r) ==
  /\ UNCHANGED page
  /\ IF lease = None THEN Refuse(r, "observation_required")
     ELSE IF r \notin DOMAIN lease THEN Refuse(r, "not_in_latest")
     ELSE LET e == lease[r].element
              l == lease[r].look
          IN  IF e \notin connected
              THEN IF Refind(l) # {}
                   THEN /\ Act(r, Min(Refind(l)))
                        /\ lease' = [lease EXCEPT ![r].element = Min(Refind(l)),
                                                  ![r].look = look[Min(Refind(l))]]
                   ELSE Refuse(r, "disconnected")
              ELSE IF look[e] # l
                   THEN Refuse(r, "changed")
                   ELSE Act(r, e) /\ UNCHANGED lease

\* requireTargetByLabel (click by label): the targets that have that name now.
ActOnLabel(n) ==
  /\ UNCHANGED page
  /\ IF lease = None THEN Refuse(0, "observation_required")
     ELSE LET rs == {r \in DOMAIN lease : look[lease[r].element].name = n}
          IN  \/ /\ rs = {}
                 /\ last' = Failed(0, "not_found")
                 /\ UNCHANGED <<ref, lease, shown, twins>>
              \/ Cardinality(rs) > 1 /\ Refuse(0, "ambiguous")
              \/ /\ Cardinality(rs) = 1
                 /\ LET e == lease[CHOOSE r \in rs : TRUE].element
                    IN  IF e \in connected
                        THEN Act(0, e) /\ UNCHANGED lease
                        ELSE Refuse(0, "disconnected")

\* resolveTargetRaw (type, append, select, check, hover, ...): whatever element
\* of the document has the refId, without the lease.
ActRaw(r) ==
  /\ UNCHANGED page
  /\ LET es == {e \in connected : ref[e] = r}
     IN  \/ /\ es = {} /\ Refuse(r, "not_found")
         \/ /\ es # {}
            /\ last' = [how |-> "raw", refId |-> r, element |-> Min(es)]
            /\ UNCHANGED <<ref, lease, shown, twins>>

\* press without a lease is refused, and attaches no snapshot.
PressUnobserved ==
  /\ lease = None
  /\ last' = Failed(0, "observation_required")
  /\ UNCHANGED <<page, ref, lease, shown, twins>>

\* invalidateLease, by scroll, back and forward.
Invalidate ==
  /\ lease' = None
  /\ last' = Nothing
  /\ UNCHANGED <<page, ref, shown, twins>>

-----------------------------------------------------------------------------
Next ==
  \/ \E e \in Elements : AddElement(e) \/ RemoveElement(e)
  \/ \E e \in Elements : \E l \in Drawn[e] : ChangeElement(e, l)
  \/ \E e, f \in Elements : CloneElement(e, f)
  \/ \E w \in SUBSET connected, isSnapshot \in BOOLEAN : ObservePage(w, isSnapshot)
  \/ \E r \in RefIds : ActOnRef(r) \/ ActRaw(r)
  \/ \E n \in Names : ActOnLabel(n)
  \/ PressUnobserved
  \/ Invalidate

Spec == Init /\ [][Next]_vars

-----------------------------------------------------------------------------
(* Properties.                                                             *)

\* Type invariant.
TypeOK ==
  /\ connected \subseteq created /\ created \subseteq Elements
  /\ look \in [Elements -> Looks]
  /\ ref \in [Elements -> 0..MaxElements]
  /\ lease = None \/ \E refIds \in SUBSET RefIds : lease \in [refIds -> Targets]
  /\ shown \subseteq RefIds \X Looks
  /\ last \in [how : Failures \cup {"none", "acted", "raw"},
               refId : 0..MaxElements, element : 0..MaxElements]
  /\ twins \subseteq RefIds

\* The latest observation showed the agent that refId with a role and a name like
\* those of the look l.
IsShown(r, l) == \E s \in shown : s[1] = r /\ Alike(s[2], l)

\* An action on a refId reaches an element of the document with the role and the
\* name, but for case and spaces, that the latest observation showed the agent for
\* that refId ("Resolve a snapshot node's refId back to its live element").
ActsAsShown ==
  last.how = "acted" /\ last.refId # 0 =>
    last.element \in connected /\ IsShown(last.refId, look[last.element])

\* The same, as far as the code has it: through removals, changes, any number of
\* rebindings and refIds that are given out again, an action on a refId that one
\* element had when it was observed never reaches an element with another role or
\* name (requireTarget, refindByFingerprint).  The role alone is not enough.
ActsAsShownIfUnique == last.refId \notin twins => ActsAsShown

\* A refId that is allocated is not the refId of another element of the document,
\* whatever the page cloned, removed or inserted again (the counter is synced to
\* the document before it is used).
AllocatedIsFree ==
  [][\A e, f \in connected :
       e # f /\ ref[e] = 0 /\ ref'[e] # 0 => ref'[f] # ref'[e]]_vars

-----------------------------------------------------------------------------
(* The inductive invariant of the proofs in ObservationLeaseProofs.        *)

\* RefIds are counted up from one, an element at a time.
RefsAreCounted ==
  \A e \in Elements :
    ref[e] # 0 => e \in created /\ ref[e] <= Cardinality({f \in Elements : ref[f] # 0})

\* The lease holds what the agent was shown.
LeaseIsShown ==
  lease # None => \A r \in DOMAIN lease \ twins : IsShown(r, lease[r].look)

LeaseInv == TypeOK /\ RefsAreCounted /\ LeaseIsShown /\ ActsAsShownIfUnique
=============================================================================
