-------------------------- MODULE MCObservationLease --------------------------
(* A small instance of ObservationLease: two looks that are alike but for the  *)
(* tag and the writing of the name, and one of the same role.  One element may *)
(* be taken for another one's, and one changes.                                *)
EXTENDS ObservationLease

CONSTANTS d1, d2

Button(name, detail) == [role |-> "button", name |-> name, detail |-> detail]
MCLooks == {Button("save", d1), Button("save", d2), Button("cancel", d1)}

MCDrawn == <<{Button("save", d1), Button("cancel", d1)},
             {Button("save", d2)},
             {Button("cancel", d1)}>>
=============================================================================
