----------------------------- MODULE SemanticTree -----------------------------
(***************************************************************************)
(* The semantic tree (crates/dom-semantic-tree): which elements of a       *)
(* document a snapshot lists, and in which order.                          *)
(*                                                                         *)
(* The elements a document may hold are numbered in document order, 1 is   *)
(* the body; a document maps those it has to their attributes.  A text is  *)
(* a sequence of words; an attribute is None or Some(its value).           *)
(***************************************************************************)
EXTENDS Naturals, Sequences, FiniteSets, SequencesExt

CONSTANTS
  Parent  \* the parent of each element, 0 for the body

Nodes == 1 .. Len(Parent)

Ancestors[e \in Nodes] ==
  IF Parent[e] = 0 THEN {} ELSE {Parent[e]} \cup Ancestors[Parent[e]]

\* In document order an element comes after its parent, and what comes before it
\* is in the same parent, or is it.
ASSUME TreeAssumption ==
  /\ Parent \in Seq(Nat) /\ Parent[1] = 0
  /\ \A e \in 2 .. Len(Parent) : /\ Parent[e] \in 1 .. e - 1
                                /\ Parent[e] \in Ancestors[e - 1] \cup {e - 1}

None == <<>>
Some(x) == <<x>>

\* A div with nothing: what an element has when no more is said of it; a role
\* attribute that is empty is written as any other that is no role.
Plain ==
  [tag |-> "div", type |-> "", role |-> "", scope |-> "",
   hiding |-> {}, zero |-> FALSE, events |-> {}, live |-> FALSE,
   label |-> None, labelledby |-> <<>>, for |-> 0,
   alt |-> None, title |-> None, placeholder |-> None,
   text |-> <<>>, value |-> None, options |-> {}, props |-> <<>>,
   ref |-> None]

\* The elements of S in document order.
InOrder(S) ==
  LET Upto[e \in 0 .. Len(Parent)] ==
        IF e = 0 THEN <<>>
        ELSE IF e \in S THEN Append(Upto[e - 1], e) ELSE Upto[e - 1]
  IN  Upto[Len(Parent)]

\* The first element of a set in document order, 0 for none.
First(S) == IF S = {} THEN 0 ELSE CHOOSE e \in S : \A x \in S : e <= x

\* Mutated form of Children: the last child is left out.
ChildrenButLast(d, e) ==
  LET all == {c \in DOMAIN d : Parent[c] = e}
  IN  {c \in all : \E x \in all : c < x}

Children(d, e) == {c \in DOMAIN d : Parent[c] = e}

\* textContent.
TextContent(d, e) ==
  LET inside == InOrder({x \in DOMAIN d : x = e \/ e \in Ancestors[x]})
  IN  FlattenSeq([i \in DOMAIN inside |-> d[inside[i]].text])
-----------------------------------------------------------------------------
(* Roles.                                                                  *)

ButtonTypes == {"submit", "button", "reset", "file", "color"}
TextTypes == {"text", "search", "email", "url", "tel", "password", "number"}

TagRoles ==
  [textarea |-> "textbox", select |-> "combobox", option |-> "option", a |-> "link",
   img |-> "img", h1 |-> "heading", h2 |-> "heading", ul |-> "list", li |-> "listitem",
   table |-> "table", tbody |-> "rowgroup", tr |-> "row", td |-> "cell",
   nav |-> "navigation", main |-> "main", form |-> "form", article |-> "article",
   dialog |-> "dialog", details |-> "group", summary |-> "button", label |-> "label",
   iframe |-> "iframe", video |-> "video", audio |-> "audio"]

\* Those of the valid values of the role attribute that documents here use.
ValidRoles ==
  {"alert", "status", "heading", "button", "link", "textbox", "checkbox", "switch",
   "tab", "menuitem", "list", "region", "none", "presentation"}

InteractiveRoles ==
  {"button", "link", "textbox", "checkbox", "radio", "combobox", "listbox", "option",
   "menuitem", "switch", "slider", "tab", "searchbox", "spinbutton"}

Named(x) == x.label # None \/ x.labelledby # <<>> \/ x.title # None

\* infer_role: the attribute if its value is a role, else what the tag means.
Role(x) ==
  CASE x.role \in ValidRoles -> x.role
    [] x.tag \in {"button", "input"} /\ x.type \in ButtonTypes -> "button"
    [] x.tag \in {"button", "input"} /\ x.type \in TextTypes -> "textbox"
    [] x.tag \in {"button", "input"} /\ x.type \in {"checkbox", "radio"} -> x.type
    [] x.tag \in {"button", "input"} /\ x.type = "range" -> "slider"
    [] x.tag \in {"button", "input"} /\ x.type = "image" -> "img"
    [] x.tag = "th" -> IF x.scope = "row" THEN "rowheader" ELSE "columnheader"
    [] x.tag = "section" /\ Named(x) -> "region"
    [] OTHER -> CASE x.tag = "button" -> "button"
                  [] x.tag = "input" -> "textbox"
                  [] x.tag \in DOMAIN TagRoles -> TagRoles[x.tag]
                  [] OTHER -> "generic"

NaturalTags == {"input", "select", "textarea", "button", "a"}

Focusable(x) ==
  \/ Role(x) \in InteractiveRoles
  \/ x.tag \in NaturalTags
  \/ x.events \cap {"tabindex", "contenteditable"} # {}

Interactive(x) == Focusable(x) \/ "onclick" \in x.events
-----------------------------------------------------------------------------
(* Names.                                                                  *)

\* try_aria_labelledby: one of the elements that it names has a text.
LabelledBy(d, x) ==
  \E l \in Range(x.labelledby) \cap DOMAIN d : TextContent(d, l) # <<>>

LabelFor(d, e) == \E l \in DOMAIN d : d[l].tag = "label" /\ d[l].for = e

\* find_ancestor_label, for the controls that a label may surround.
AncestorLabel(d, e) ==
  /\ d[e].tag \in {"input", "select", "textarea"}
  /\ \E l \in Ancestors[e] : d[l].tag = "label"

\* compute_name finds a source of a name; one that is there may be empty.
HasName(d, e) ==
  LET x == d[e]
  IN  \/ x.label # None \/ x.title # None \/ x.placeholder # None
      \/ LabelledBy(d, x) \/ LabelFor(d, e) \/ AncestorLabel(d, e)
      \/ x.alt # None /\ (x.tag = "img" \/ x.type = "image")
      \/ x.value # None /\ x.tag = "input" /\ x.type \in {"button", "submit", "reset"}
      \/ "aria" \notin x.hiding /\ TextContent(d, e) # <<>>
-----------------------------------------------------------------------------
(* Collecting.                                                             *)

TextTags == {"p", "span", "label", "li", "td", "th", "header", "footer", "code", "em", "strong"}

\* is_markdown_visible_element.
MarkdownVisible(d, e) ==
  \/ Role(d[e]) # "generic"
  \/ d[e].live
  \/ TextContent(d, e) # <<>> /\ (d[e].tag \in TextTags \/ d[e].text # <<>>)

EmptyGeneric(d, e) ==
  /\ Role(d[e]) = "generic"
  /\ ~HasName(d, e) /\ d[e].value = None
  /\ Children(d, e) = {}
  /\ ~MarkdownVisible(d, e)

ExcludedTags == {"script", "style", "meta", "link", "template", "noscript", "head"}

\* getBoundingClientRect: what is not displayed, or in such an element, has no size.
ZeroSize(d, e) ==
  d[e].zero \/ \E a \in Ancestors[e] \cup {e} : "display" \in d[a].hiding

\* Neither the element nor anything in it is looked at.
Closed(d, e, opts) ==
  \/ d[e].tag \in ExcludedTags
  \/ d[e].hiding # {} /\ ~opts.hidden
  \/ opts.geometry /\ ZeroSize(d, e) /\ ~Interactive(d[e])

\* The element is passed over, what is in it is not.
PassedOver(x, opts) == ~Interactive(x) /\ opts.interactiveOnly /\ ~opts.all

LeafSvg(x) == x.tag = "svg" /\ x.role = "" /\ ~Interactive(x) /\ ~Named(x)

\* traverse, from the body.  Behind[e] is what recurse_children does from the child
\* e on: it traverses e and then its next sibling; 0 is the end of the children.
Collect(d, opts) ==
  LET Behind[e \in 0 .. Len(Parent)] ==
        [nodes \in Seq(Nodes) |->
           LET Below(ns) == Behind[First(Children(d, e))][ns]
               after ==
                 CASE Len(nodes) >= opts.maxNodes \/ Closed(d, e, opts) -> nodes
                   [] OTHER -> CASE PassedOver(d[e], opts) -> Below(nodes)
                                 [] ~PassedOver(d[e], opts) /\ EmptyGeneric(d, e) -> nodes
                                 [] OTHER -> IF LeafSvg(d[e]) THEN Append(nodes, e)
                                             ELSE Below(Append(nodes, e))
           IN  IF e = 0 THEN nodes
               ELSE Behind[First({c \in Children(d, Parent[e]) : c > e})][after]]
  IN  IF 1 \in DOMAIN d THEN Behind[1][<<>>] ELSE <<>>

\* What a snapshot should list: of the elements inside nothing that is closed, or
\* a drawing that stands for itself, those that are wanted, and of these the first.
Visible(d, opts) ==
  LET Wanted(e) == ~PassedOver(d[e], opts) /\ ~EmptyGeneric(d, e)
      Shown(e) ==
        /\ \A a \in Ancestors[e] \cup {e} : ~Closed(d, a, opts)
        /\ \A a \in Ancestors[e] : ~(LeafSvg(d[a]) /\ ~PassedOver(d[a], opts))
      all == InOrder({e \in DOMAIN d : Shown(e) /\ Wanted(e)})
  IN  SubSeq(all, 1, IF Len(all) < opts.maxNodes THEN Len(all) ELSE opts.maxNodes)
=============================================================================
