---------------------------- MODULE MCCommercial ----------------------------
(* Instance of Commercial for TLC: two requests, a lead that can be reached,  *)
(* two companies that may want the same document, and two opportunities.     *)
EXTENDS Commercial, TLC

CONSTANTS s1, s2, l1, c1, c2, o1, o2, d1, d2

MCSessions == {s1, s2}
MCLeads == {l1}
MCReachable == {l1}
MCCompanies == {c1, c2}
MCOpportunities == {o1, o2}
MCDocuments == {d1, d2}
MCStages == {"DISCOVERY", "PROPOSAL", "CLOSED_WON"}

\* Ids are only compared with one another.
Symmetry == Permutations(MCSessions) \cup Permutations(MCCompanies)
            \cup Permutations(MCOpportunities) \cup Permutations(MCDocuments)

=============================================================================
