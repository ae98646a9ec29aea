------------------------ MODULE MCTaktwerkExtraction ------------------------
(* A header of two characters and rows of four, the last two of which are  *)
(* the account number and the newline: <<r, r>> is cut at the end of its   *)
(* first row, <<r, r, s>> within an account number, <<r>> and the defect   *)
(* within a row, and the empty export within the header.  A row of no      *)
(* amount, and an account, cannot be mapped.                               *)
EXTENDS TaktwerkExtraction

CONSTANTS n1, n2, n3, fee, rent, zero

RowOf(account, text) == [account |-> account, text |-> text, columns |-> 9]

r == RowOf(n1, rent)
s == RowOf(n1, fee)
t == RowOf(n2, fee)
Defect == [r EXCEPT !.columns = 8]
Nothing == RowOf(n1, zero)

MCRows == {r, s, t, Defect, Nothing}

MCMalformed == {Nothing, n3}

MCExports ==
    {<<>>, <<r>>, <<r, r>>, <<s, r>>, <<r, s>>, <<r, r, s>>, <<s, r, r>>, <<r, t>>, <<r, Defect>>,
     <<r, Nothing>>}

MCWidth(row) == 4

MCPlans == SUBSET {0, 1}
=============================================================================
