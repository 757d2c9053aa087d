---------------------------- MODULE MCQuotation ----------------------------
(* Instance of Quotation for TLC: two requests, two items, two prices. *)
EXTENDS Quotation

CONSTANTS s1, s2, i1, i2, p1, p2

MCSessions == {s1, s2}
MCItems == {i1, i2}
MCPrices == {p1, p2}

=============================================================================
