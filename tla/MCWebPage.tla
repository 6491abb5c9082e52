------------------------------ MODULE MCWebPage ------------------------------
(* Small pages: a body with a box, two elements in it and one after it.    *)
EXTENDS WebPage

MCParent == <<0, 1, 2, 2, 1>>

Body == [Plain EXCEPT !.tag = "body"]
Button(word) == [Plain EXCEPT !.tag = "button", !.text = <<word>>]
Field ==
  [Plain EXCEPT !.tag = "input", !.type = "text", !.placeholder = Some(<<"Name">>),
                !.value = Some(<<>>), !.props = [checked |-> FALSE]]
\* A box with a button and a field, and a button after it.
Dialog ==
  <<Body, Plain, Button("Save"), Field, [Button("Send") EXCEPT !.label = Some(<<"save">>)]>>

\* A label around an empty div and a field, and a select after it.
Form ==
  <<Body, [Plain EXCEPT !.tag = "label", !.text = <<"Name", "*">>], Plain,
    [Field EXCEPT !.value = Some(<<"red">>)],
    [Plain EXCEPT !.tag = "select", !.options = {<<"red">>}, !.value = Some(<<>>)]>>

\* A drawing with a shape in it that can be clicked and a script, and a box
\* without size.
Drawing ==
  <<Body, [Plain EXCEPT !.tag = "svg"], [Plain EXCEPT !.tag = "g", !.events = {"onclick"}],
    [Plain EXCEPT !.tag = "script", !.text = <<"x">>],
    [Plain EXCEPT !.tag = "p", !.zero = TRUE, !.text = <<"none">>]>>

MCDocuments == <<Dialog, Form, Drawing>>

Opts(n, interactive, hidden) ==
  [maxNodes |-> n, interactiveOnly |-> interactive, all |-> FALSE,
   hidden |-> hidden, geometry |-> TRUE]
MCOptions == {Opts(1000, TRUE, FALSE), Opts(3, FALSE, TRUE)}

MCSelectors == {{3, 5}}
MCAwaited == {{3}}

Ref(r) == [ref |-> r, label |-> <<>>, selector |-> None]
MCTargets ==
  {Ref(<<"e2">>),
   [Ref(<<"e1">>) EXCEPT !.label = <<"save">>]}
    \cup {[Ref(<<>>) EXCEPT !.selector = Some({3, 5})]}

MCLower == [Save |-> "save", Send |-> "send", Name |-> "name"]
MCTexts == {<<"red">>}
=============================================================================
