--------------------------- MODULE MCLandingStore ---------------------------
(* A small instance of the landing store: two identifiers, two contents    *)
(* within scale and one that the schema would round to the first.          *)
EXTENDS LandingStore

CONSTANTS k1, k2, c1, c2, cx

MCStored == [c \in Contents |-> IF c = cx THEN c1 ELSE c]
=============================================================================
