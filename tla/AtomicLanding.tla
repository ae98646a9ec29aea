--------------------------- MODULE AtomicLanding ---------------------------
(***************************************************************************)
(* What the landing store promises its caller, with none of its mechanism. *)
(*                                                                         *)
(* A batch offered to a table either lands whole, or leaves no trace.  It  *)
(* lands exactly when it can be reconciled with what has landed already    *)
(* and with itself: an identifier never carries two contents.  The answer  *)
(* to a batch that landed is the number of identifiers it added.  A batch  *)
(* whose content the schema cannot store without loss is refused up front. *)
(* LandingStore.tla shows that the row by row code implements this.        *)
(***************************************************************************)
EXTENDS Integers, Sequences, FiniteSets

CONSTANTS
    Ids,         \* identifiers: derived account and transaction ids
    Contents,    \* what a record says, its identifier aside
    OutOfScale,  \* the contents whose amount has too many decimal places
    MaxBatch,    \* bound on the length of a batch
    Absent       \* stands for "no row with this identifier"

VARIABLES
    landed,      \* landed[t][k]: the content landed in table t under id k
    pending,     \* the call being served, or NoCall
    response     \* the answer to the last call served

Tables == {"accounts", "transactions"}

Records == [id : Ids, content : Contents]

Batches == UNION {[1..n -> Records] : n \in 0..MaxBatch}

Calls == [table : Tables, batch : Batches]

NoCall == [table |-> "none", batch |-> <<>>]

Answer(kind, count) == [kind |-> kind, count |-> count]

NoAnswer == Answer("none", 0)

EmptyTables == [t \in Tables |-> [k \in Ids |-> Absent]]

HasOutOfScale(batch) == \E i \in DOMAIN batch : batch[i].content \in OutOfScale

(* No record contradicts a landed row, and no two records contradict each other. *)
Consistent(rows, batch) ==
    /\ \A i \in DOMAIN batch : rows[batch[i].id] \in {Absent, batch[i].content}
    /\ \A i, j \in DOMAIN batch :
          batch[i].id = batch[j].id => batch[i].content = batch[j].content

(* The identifiers a batch would add to the rows of a table. *)
NewIds(rows, batch) ==
    {k \in Ids : rows[k] = Absent /\ \E i \in DOMAIN batch : batch[i].id = k}

(* First write wins: only absent identifiers take their content from the batch. *)
Merge(rows, batch) ==
    [k \in Ids |->
        IF k \in NewIds(rows, batch)
        THEN batch[CHOOSE i \in DOMAIN batch : batch[i].id = k].content
        ELSE rows[k]]

-----------------------------------------------------------------------------

vars == <<landed, pending, response>>

Init ==
    /\ landed = EmptyTables
    /\ pending = NoCall
    /\ response = NoAnswer

Submit(t, batch) ==
    /\ pending = NoCall
    /\ t = "transactions" => ~HasOutOfScale(batch)
    /\ pending' = [table |-> t, batch |-> batch]
    /\ response' = NoAnswer
    /\ UNCHANGED landed

Refuse(batch) ==
    /\ pending = NoCall
    /\ HasOutOfScale(batch)
    /\ response' = Answer("out_of_scale", 0)
    /\ UNCHANGED <<landed, pending>>

Accept ==
    /\ pending # NoCall
    /\ LET rows == landed[pending.table]
           batch == pending.batch
       IN  /\ Consistent(rows, batch)
           /\ landed' = [landed EXCEPT ![pending.table] = Merge(rows, batch)]
           /\ response' = Answer("loaded", Cardinality(NewIds(rows, batch)))
    /\ pending' = NoCall

Reject ==
    /\ pending # NoCall
    /\ ~Consistent(landed[pending.table], pending.batch)
    /\ response' = Answer("conflict", 0)
    /\ pending' = NoCall
    /\ UNCHANGED landed

(* The storage fails, or the caller goes away: the call leaves no trace. *)
Fail ==
    /\ pending # NoCall
    /\ response' \in {Answer("storage_error", 0), NoAnswer}
    /\ pending' = NoCall
    /\ UNCHANGED landed

(* A new caller, or the last caller leaving, knows of no answer. *)
Forget ==
    /\ pending = NoCall
    /\ response' = NoAnswer
    /\ UNCHANGED <<landed, pending>>

Next ==
    \/ \E t \in Tables, batch \in Batches : Submit(t, batch)
    \/ \E batch \in Batches : Refuse(batch)
    \/ Accept
    \/ Reject
    \/ Fail
    \/ Forget

Spec == Init /\ [][Next]_vars
=============================================================================
