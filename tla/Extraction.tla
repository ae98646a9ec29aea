------------------------------ MODULE Extraction ------------------------------
(***************************************************************************)
(* What a paging adapter promises of one extraction, over a bank that      *)
(* changes what it reports while it is being read.  The extract need not   *)
(* be what the bank reported at any one moment; it holds every record that *)
(* was reported throughout, but for at most one for each record the bank   *)
(* withdrew meanwhile, and none that was not reported at some time.        *)
(* Implemented by FjellvikExtraction and MarlstoneExtraction.              *)
(***************************************************************************)
EXTENDS Naturals, FiniteSets

CONSTANT Records

VARIABLES
    reported,  \* what the bank reports
    steady,    \* what it has reported ever since the extraction began
    seen,      \* what it has reported at some time since then
    withdrawn, \* how many records it has withdrawn since then
    outcome,   \* "running", or how the extraction has ended
    extract    \* what the adapter returned

vars == <<reported, steady, seen, withdrawn, outcome, extract>>

Init ==
    /\ reported \subseteq Records
    /\ steady = reported
    /\ seen = reported
    /\ withdrawn = 0
    /\ outcome = "running"
    /\ extract = {}

Report ==
    /\ reported' \subseteq Records
    /\ steady' = steady \cap reported'
    /\ seen' = seen \cup reported'
    /\ withdrawn' \in {withdrawn, withdrawn + 1}
    /\ UNCHANGED <<outcome, extract>>

Return ==
    /\ outcome = "running"
    /\ outcome' = "done"
    /\ extract' \subseteq seen
    /\ Cardinality(steady \ extract') <= withdrawn
    /\ UNCHANGED <<reported, steady, seen, withdrawn>>

(* A BankApiError ("failed"), or any other exception ("raised") *)
Except ==
    /\ outcome = "running"
    /\ outcome' \in {"failed", "raised"}
    /\ UNCHANGED <<reported, steady, seen, withdrawn, extract>>

Begin ==
    /\ outcome # "running"
    /\ outcome' = "running"
    /\ extract' = {}
    /\ steady' = reported
    /\ seen' = reported
    /\ withdrawn' = 0
    /\ UNCHANGED reported

Next == Report \/ Return \/ Except \/ Begin

Spec == Init /\ [][Next]_vars
=============================================================================
