--------------------------- MODULE MCLookupForms ---------------------------
(* The three forms, two companies, two stored destinations.               *)
EXTENDS LookupForms
CONSTANTS c1, c2, d1, d2
TwoPlaces == {c1, c2}
TwoRecords == {d1, d2}
ThreeForms == {"company", "lead", "destination"}
=============================================================================
