------------------------ MODULE MCFjellvikExtraction ------------------------
(* Two accounts, the first of which spans two pages or three, the second   *)
(* one page or none; any plan of up to two refusals among the first five   *)
(* requests.  One entry cannot be mapped; in some runs the first account   *)
(* cannot, or the second one is listed but not served.                     *)
EXTENDS FjellvikExtraction

CONSTANTS a1, a2, e1, e2, e3, e4, e5

MCAccounts == <<a1, a2>>

MCFirstReports ==
    {[a \in {a1, a2} |-> IF a = a1 THEN [booked |-> <<e1, e2>>, pending |-> <<e3>>] ELSE second] :
        second \in {[booked |-> <<>>, pending |-> <<>>], [booked |-> <<>>, pending |-> <<e4>>]}}
    \cup {[a \in {a1, a2} |->
             IF a = a1 THEN [booked |-> <<e1>>, pending |-> <<e2, e3>>]
             ELSE [booked |-> <<e4>>, pending |-> <<>>]]}

MCListings ==
    {[mappable |-> {a1, a2}, served |-> {a1, a2}],
     [mappable |-> {a2}, served |-> {a1, a2}],
     [mappable |-> {a1, a2}, served |-> {a1}]}

MCPlans == {plan \in SUBSET (0..4) : Cardinality(plan) <= 2}
=============================================================================
