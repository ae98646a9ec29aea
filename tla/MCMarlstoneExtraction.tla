------------------------- MODULE MCMarlstoneExtraction -------------------------
(* Two accounts, of which the first has up to three entries, so that a     *)
(* last page of two is full, nearly full or empty.                         *)
EXTENDS MarlstoneExtraction

CONSTANTS checking, savings, a, b, c, d

Posted(account, id) == [account |-> account, id |-> id, status |-> "POSTED"]

MCFirstReports == {
    <<>>,
    <<Posted(checking, a), Posted(checking, b)>>,
    <<Posted(checking, a), Posted(savings, d), Posted(checking, b), Posted(checking, c)>>}
=============================================================================
