------------------------------- MODULE WebPage -------------------------------
(***************************************************************************)
(* The page tools of the web demo (web-js/src/browser_api.rs): cells take  *)
(* snapshots, look for elements and act on them, while the page changes.   *)
(*                                                                         *)
(* A snapshot numbers what it lists e1, e2, ..., writes that number into   *)
(* the attribute data-ref-id of each element, and leaves the attribute of  *)
(* all others alone; find gives a number to the elements that have none.   *)
(* An action takes the first element of the document that carries the      *)
(* refId.  A selector stands for the elements it matches.                  *)
(***************************************************************************)
EXTENDS SemanticTree

CONSTANTS
  Documents,   \* a sequence: the documents the page may be loaded with
  Options,     \* with what snapshots are taken
  Selectors,   \* what find is given: sets of elements
  Awaited,     \* what wait_for is given
  Targets,     \* what an action is given: a refId, a label, a selector
  Texts,       \* what is filled in or appended
  Lower,       \* the lower case of the words that have some upper case
  Changing,    \* the elements that the page hides, shows, removes and creates
  Timeout,     \* the timeout of wait_for ...
  Interval,    \* ... and the time between two of its looks, in ticks
  MaxLate,     \* how late a timer may be
  MaxValue     \* bound on the words in a field

\* The refIds of snapshots and of finds; a refId is a text of one word.
RefId(i) == <<"e" \o ToString(i)>>
FindId(i) == <<"webjs-find-" \o ToString(i)>>

\* Documents hold no refIds before a snapshot or a find writes them, and the
\* formatting of numbers tells numbers apart.
ASSUME PageAssumption ==
  /\ \A s \in DOMAIN Documents : \A e \in DOMAIN Documents[s] :
       /\ e \in Nodes /\ Ancestors[e] \subseteq DOMAIN Documents[s]
       /\ DOMAIN Documents[s][e] = DOMAIN Plain /\ Documents[s][e].ref = None
  /\ \A opts \in Options : opts.maxNodes \in Nat
  /\ Timeout \in Nat /\ Interval \in Nat /\ MaxLate \in Nat
  /\ \A i \in Nodes, j \in 0 .. Len(Parent) :
       /\ RefId(i) = RefId(j) => i = j
       /\ RefId(i) # FindId(j) /\ RefId(i) # None

VARIABLES
  source,      \* which document was loaded
  doc,         \* the document: its elements and their attributes
  removed,     \* the elements taken out of it, as they were then
  shown,       \* the elements that the latest snapshot listed, in order
  leaving,     \* a navigation has been started
  wait,        \* the pending wait_for, if any
  did          \* the latest action and what it acted on, for the properties

pageVars == <<source, doc, removed, shown, leaving, wait, did>>

Nothing == [what |-> "nothing"]

PageInit ==
  /\ source \in DOMAIN Documents
  /\ doc = Documents[source]
  /\ removed = <<>>
  /\ shown = <<>>
  /\ leaving = FALSE
  /\ wait = None
  /\ did = Nothing
-----------------------------------------------------------------------------
(* Finding elements.                                                       *)

Matches(d, selector) == InOrder(selector \cap DOMAIN d)

\* find: what matches and has no refId gets its place among the matches.
Found(d, selector) ==
  LET all == Matches(d, selector)
  IN  [e \in DOMAIN d |->
         IF e \in Range(all) /\ d[e].ref = None
         THEN [d[e] EXCEPT !.ref = FindId(SelectInSeq(all, LAMBDA x : x = e) - 1)]
         ELSE d[e]]

\* querySelector("[data-ref-id='...']").
Carrier(d, ref) == IF ref = <<>> THEN 0 ELSE First({e \in DOMAIN d : d[e].ref = ref})

Lowered(text) ==
  [i \in DOMAIN text |-> IF text[i] \in DOMAIN Lower THEN Lower[text[i]] ELSE text[i]]

\* find_element_by_label.
ByLabel(d, label) ==
  LET Says(e) ==
        \/ d[e].label # None /\ Lowered(d[e].label[1]) = Lowered(label)
        \/ d[e].tag = "input" /\ d[e].placeholder # None
             /\ Lowered(d[e].placeholder[1]) = Lowered(label)
        \/ Lowered(TextContent(d, e)) = Lowered(label)
      Acts(e) == d[e].tag \in NaturalTags \/ d[e].role \in {"button", "link"}
  IN  IF label = <<>> THEN 0 ELSE First({e \in DOMAIN d : Acts(e) /\ Says(e)})

\* resolve_ref_id_or_selector: a selector is looked for with find, which marks its
\* matches, and gives the refId of the first.
Resolved(d, by) ==
  IF by.selector = None THEN [doc |-> d, ref |-> by.ref]
  ELSE LET found == Found(d, by.selector[1])
           e     == First(by.selector[1] \cap DOMAIN d)
       IN  [doc |-> found, ref |-> IF e = 0 THEN <<>> ELSE found[e].ref]

\* resolved_label.
LabelOf(by, ref) == IF by.label # <<>> THEN by.label ELSE ref

\* The element an action is for, 0 for none; some actions look for a label too
\* when no element carries the refId.
Target(d, by, labelled) ==
  LET r == Resolved(d, by)
      e == Carrier(r.doc, r.ref)
  IN  CASE by.selector # None /\ r.ref = <<>> -> 0
        [] e = 0 /\ labelled -> ByLabel(r.doc, LabelOf(by, r.ref))
        [] OTHER -> e
-----------------------------------------------------------------------------
(* Actions on elements.                                                    *)

\* What an action makes of the elements it can act on; others it fails on.
Extended(x, text) ==
  IF Len(x.value[1] \o text) > MaxValue THEN x
  ELSE [x EXCEPT !.value = Some(@[1] \o text)]

Filled(x, text) == IF x.tag = "input" THEN [x EXCEPT !.value = Some(text)] ELSE x

Appended(x, text) == IF x.tag = "input" THEN Extended(x, text) ELSE x

Typed(x, text) == IF x.tag \in {"input", "textarea"} THEN Extended(x, text) ELSE x

Checked(x, on) ==
  IF x.tag = "input" THEN [x EXCEPT !.props = [checked |-> on] @@ @] ELSE x

\* An element that is no select is left alone, and a value that is no option
\* empties the select; the answer is ok.
Selected(x, text) ==
  IF x.tag # "select" THEN x
  ELSE [x EXCEPT !.value = Some(IF text \in x.options THEN text ELSE <<>>)]

\* An action makes its element what after says; if it fails, or there is none, the
\* refIds that find gave remain.
Act(by, labelled, after) ==
  LET d == Resolved(doc, by).doc
      e == Target(doc, by, labelled)
  IN  /\ doc' = IF e = 0 THEN d
                 ELSE [d EXCEPT ![e] = [after[e] EXCEPT !.ref = d[e].ref]]
      /\ did' = [what |-> "act", by |-> by, on |-> e]
      /\ UNCHANGED <<source, removed, shown, leaving, wait>>

Click(by)    == Act(by, TRUE, doc)
ScrollTo(by) == Act(by, TRUE, doc)
Hover(by)    == Act(by, FALSE, doc)
DblClick(by) == Act(by, FALSE, doc)

Fill(by, text)       == Act(by, TRUE, [e \in DOMAIN doc |-> Filled(doc[e], text)])
AppendText(by, text) == Act(by, TRUE, [e \in DOMAIN doc |-> Appended(doc[e], text)])
Type(by, text)       == Act(by, FALSE, [e \in DOMAIN doc |-> Typed(doc[e], text)])
Check(by, on)        == Act(by, FALSE, [e \in DOMAIN doc |-> Checked(doc[e], on)])
Select(by, text)     == Act(by, FALSE, [e \in DOMAIN doc |-> Selected(doc[e], text)])

\* A key goes to the document where no element carries the refId.
Press(by) == Act(by, FALSE, doc)
-----------------------------------------------------------------------------
(* Looking at the page.                                                    *)

\* Mutated form of Marked: an element keeps the refId it has.
MarkedOnce(d, nodes) ==
  [e \in DOMAIN d |->
     IF e \in Range(nodes) /\ d[e].ref = None
     THEN [d[e] EXCEPT !.ref = RefId(SelectInSeq(nodes, LAMBDA x : x = e))]
     ELSE d[e]]

\* Mutated form of Marked: the numbers start at 0.
MarkedFromZero(d, nodes) ==
  [e \in DOMAIN d |->
     IF e \in Range(nodes)
     THEN [d[e] EXCEPT !.ref = RefId(SelectInSeq(nodes, LAMBDA x : x = e) - 1)]
     ELSE d[e]]

\* RefAllocator: the nodes of a snapshot are numbered from 1.
Marked(d, nodes) ==
  [e \in DOMAIN d |->
     IF e \in Range(nodes)
     THEN [d[e] EXCEPT !.ref = RefId(SelectInSeq(nodes, LAMBDA x : x = e))]
     ELSE d[e]]

Snapshot(opts) ==
  /\ shown' = Collect(doc, opts)
  /\ doc' = Marked(doc, shown')
  /\ did' = Nothing
  /\ UNCHANGED <<source, removed, leaving, wait>>

Find(selector) ==
  /\ doc' = Found(doc, selector)
  /\ did' = Nothing
  /\ UNCHANGED <<source, removed, shown, leaving, wait>>

\* Mutated form of Answer: the time is looked at before the document.
AnswerTimeFirst(d, w) ==
  CASE w.elapsed >= Timeout -> "timeout"
    [] Matches(d, w.selector) # <<>> -> "found"
    [] OTHER -> "later"

\* What a look of wait_for ends with.
Answer(d, w) ==
  CASE Matches(d, w.selector) # <<>> -> "found"
    [] Matches(d, w.selector) = <<>> /\ w.elapsed >= Timeout -> "timeout"
    [] OTHER -> "later"

\* The next look is an interval away.
Later(w) == [w EXCEPT !.due = w.elapsed + Interval]

\* A look answers or waits for the next.
LookNow(w) ==
  /\ wait' = IF Answer(doc, w) = "later" THEN Some(Later(w)) ELSE None
  /\ did' = [what |-> "look", answer |-> Answer(doc, w)]
  /\ UNCHANGED <<source, doc, removed, shown, leaving>>

WaitFor(selector) ==
  /\ wait = None
  /\ LookNow([selector |-> selector, elapsed |-> 0, due |-> 0])

Look ==
  /\ wait # None
  /\ wait[1].elapsed >= wait[1].due
  /\ LookNow(wait[1])

Tick ==
  /\ wait # None
  /\ wait[1].elapsed < wait[1].due + MaxLate
  /\ wait' = Some([wait[1] EXCEPT !.elapsed = @ + 1])
  /\ did' = Nothing
  /\ UNCHANGED <<source, doc, removed, shown, leaving>>
-----------------------------------------------------------------------------
(* The page.                                                               *)

\* goto, back, forward and reload answer at once.
Navigate ==
  /\ ~leaving
  /\ leaving' = TRUE
  /\ did' = Nothing
  /\ UNCHANGED <<source, doc, removed, shown, wait>>

\* The program is part of the page and is loaded anew with it.
Load ==
  /\ leaving
  /\ source' \in DOMAIN Documents
  /\ doc' = Documents[source'] /\ removed' = <<>>
  /\ shown' = <<>> /\ leaving' = FALSE /\ wait' = None /\ did' = Nothing

Toggle(e) ==
  /\ e \in DOMAIN doc
  /\ doc' = [doc EXCEPT ![e].hiding = IF "display" \in @ THEN @ \ {"display"}
                                      ELSE @ \cup {"display"}]
  /\ did' = Nothing
  /\ UNCHANGED <<source, removed, shown, leaving, wait>>

Detach(e) ==
  LET gone == {x \in DOMAIN doc : x = e \/ e \in Ancestors[x]}
  IN  /\ e \in DOMAIN doc
      /\ doc' = [x \in DOMAIN doc \ gone |-> doc[x]]
      /\ removed' = [x \in DOMAIN removed \cup gone |-> IF x \in gone THEN doc[x] ELSE removed[x]]
      /\ did' = Nothing
      /\ UNCHANGED <<source, shown, leaving, wait>>

\* The element that was removed comes back, refId and all, or a new one in its place.
Attach(e) ==
  /\ e \in DOMAIN removed
  /\ Parent[e] \in DOMAIN doc
  /\ \E x \in {removed[e], Documents[source][e]} :
       doc' = [y \in DOMAIN doc \cup {e} |-> IF y = e THEN x ELSE doc[y]]
  /\ removed' = [y \in DOMAIN removed \ {e} |-> removed[y]]
  /\ did' = Nothing
  /\ UNCHANGED <<source, shown, leaving, wait>>

PageNext ==
  \/ \E by \in Targets :
       \/ Click(by) \/ ScrollTo(by) \/ Hover(by) \/ DblClick(by) \/ Press(by)
       \/ \E text \in Texts :
            Fill(by, text) \/ AppendText(by, text) \/ Type(by, text) \/ Select(by, text)
       \/ \E on \in BOOLEAN : Check(by, on)
  \/ \E opts \in Options : Snapshot(opts)
  \/ \E selector \in Selectors : Find(selector)
  \/ \E selector \in Awaited : WaitFor(selector)
  \/ Look
  \/ Tick
  \/ Navigate
  \/ Load
  \/ \E e \in Changing : Toggle(e) \/ Detach(e) \/ Attach(e)

\* Timers fire, and the loop of wait_for goes on when its timer has.
PageSpec == PageInit /\ [][PageNext]_pageVars /\ WF_pageVars(Tick) /\ WF_pageVars(Look)
-----------------------------------------------------------------------------
(* Properties.                                                             *)

Waits == [selector : Awaited, elapsed : 0 .. Timeout + Interval + MaxLate,
          due : 0 .. Timeout + Interval]

Refs == {None} \cup {RefId(i) : i \in Nodes} \cup {FindId(i - 1) : i \in Nodes}

IsElement(x) == DOMAIN x = DOMAIN Plain /\ x.ref \in Refs

\* The elements and their refIds are such as snapshots and finds give.
PageTypes ==
  /\ DOMAIN doc \cup DOMAIN removed = DOMAIN Documents[source]
  /\ DOMAIN doc \cap DOMAIN removed = {}
  /\ \A e \in DOMAIN doc : Ancestors[e] \subseteq DOMAIN doc /\ IsElement(doc[e])
  /\ \A e \in DOMAIN removed : IsElement(removed[e])
  /\ Range(shown) \subseteq Nodes
  /\ wait \in {None} \cup {Some(w) : w \in Waits}
  /\ leaving \in BOOLEAN

\* Whatever the page has become, the walk over it lists with all options what is
\* visible, in document order and up to max_nodes: nothing hidden, no part of
\* anything hidden, nothing twice, and nothing is lost behind what is passed over.
SnapshotIsExact == \A opts \in Options : Collect(doc, opts) = Visible(doc, opts)

\* An action on a refId of the latest snapshot never acts on another element that
\* this snapshot showed, unless its own has gone and a label is looked for; while
\* its own carries the refId, all it may take instead is an element earlier in the
\* document, which the snapshot left out and which has the number of an older one.
ActsAsShown ==
  did.what = "act" /\ did.by.selector = None =>
    \A i \in DOMAIN shown :
      did.by.ref = RefId(i) /\ did.on \notin {0, shown[i]} =>
        \/ did.on \notin Range(shown) /\ did.on < shown[i] /\ doc[did.on].ref = did.by.ref
        \/ /\ shown[i] \in DOMAIN doc => doc[shown[i]].ref # did.by.ref
           /\ did.on \in Range(shown) => doc[did.on].ref # did.by.ref

\* wait_for ends with a timeout only after its time and when nothing matches, and
\* else only because something does.
WaitTells ==
  [][wait # None /\ wait' = None /\ ~leaving =>
       IF Matches(doc, wait[1].selector) # <<>> THEN did'.answer = "found"
       ELSE did'.answer = "timeout" /\ wait[1].elapsed >= Timeout]_pageVars

\* Each wait_for ends, whatever the page does.
WaitEnds == wait # None ~> wait = None

\* wait_for always answers, and what it answers is so.
WaitAnswers == WaitTells /\ WaitEnds
-----------------------------------------------------------------------------
(* The inductive invariant.                                                *)

\* An element of the latest snapshot that carries the number of a snapshot, in the
\* document or taken out of it, carries its own number in the latest one.
CarriesItsOwn ==
  \A i \in DOMAIN shown, j \in Nodes :
    /\ shown[i] \in DOMAIN doc /\ doc[shown[i]].ref = RefId(j) => i = j
    /\ shown[i] \in DOMAIN removed /\ removed[shown[i]].ref = RefId(j) => i = j

PageInv ==
  /\ PageTypes /\ CarriesItsOwn /\ ActsAsShown
  /\ source \in DOMAIN Documents
  /\ shown \in Seq(Nodes) /\ Len(shown) <= Len(Parent)
  /\ wait # None => wait[1].elapsed <= wait[1].due + MaxLate
=============================================================================
