---------------------------- MODULE LandingStore ----------------------------
(***************************************************************************)
(* The landing store (ingestion/landing.py): two tables in one database    *)
(* file, written by one connection.  A batch goes in row by row inside one *)
(* database transaction: look the identifier up, insert when it is absent, *)
(* skip when the stored row equals the record, otherwise raise and roll    *)
(* back.  What the database adds (a transaction sees its own writes, an    *)
(* open transaction dies with its connection, COMMIT is atomic) is         *)
(* modelled by keeping the committed tables and the connection's view of   *)
(* them apart.                                                             *)
(*                                                                         *)
(* Abstracted: a record's columns are one content value; the rounding      *)
(* DECIMAL(18, 4) would do is the function Stored, the identity on every   *)
(* content within scale.  The two CREATE TABLE IF NOT EXISTS of            *)
(* initialize_schema are part of Open, and a table that does not exist yet *)
(* is an empty one.                                                        *)
(***************************************************************************)
EXTENDS Integers, Sequences, FiniteSets

CONSTANTS
    Ids,         \* derived account and transaction identifiers
    Contents,    \* what a record says, its identifier aside
    OutOfScale,  \* the contents whose amount has more than AMOUNT_SCALE places
    Stored,      \* what the schema keeps of a content
    MaxBatch,    \* bound on the length of a batch
    Absent       \* what a lookup of an unknown identifier returns

(* The schema is lossless exactly where the scale check says it is, and    *)
(* None is not a record.                                                   *)
ASSUME ContentAssumption ==
    /\ OutOfScale \subseteq Contents
    /\ Stored \in [Contents -> Contents]
    /\ \A c \in Contents : c \notin OutOfScale => Stored[c] = c
    /\ Absent \notin Contents

ASSUME BatchAssumption == MaxBatch \in Nat

VARIABLES
    tables,         \* the committed rows, what another connection would read
    view,           \* the rows this connection reads, its own writes included
    connection,     \* "closed", "idle" or "in_transaction"
    call,           \* the table and the batch being inserted, or NoCall
    position,       \* index in the batch of the next record
    insertedCount,  \* inserted_count of the code
    outcome         \* what the last insert returned or raised

vars == <<tables, view, connection, call, position, insertedCount, outcome>>

Tables == {"accounts", "transactions"}

Records == [id : Ids, content : Contents]

Batches == UNION {[1..n -> Records] : n \in 0..MaxBatch}

(* An account carries no amount, so its content is never out of scale. *)
AccountBatches ==
    {batch \in Batches : \A i \in DOMAIN batch : batch[i].content \notin OutOfScale}

NoCall == [table |-> "none", batch |-> <<>>]

Calls == [table : Tables, batch : Batches]

OutcomeKinds == {"none", "loaded", "conflict", "out_of_scale", "storage_error"}

Outcome(kind, count) == [kind |-> kind, count |-> count]

NoOutcome == Outcome("none", 0)

EmptyTables == [t \in Tables |-> [k \in Ids |-> Absent]]

TypeOK ==
    /\ tables \in [Tables -> [Ids -> Contents \cup {Absent}]]
    /\ view \in [Tables -> [Ids -> Contents \cup {Absent}]]
    /\ connection \in {"closed", "idle", "in_transaction"}
    /\ call \in Calls \cup {NoCall}
    /\ position \in 1..(MaxBatch + 1)
    /\ insertedCount \in 0..MaxBatch
    /\ outcome \in [kind : OutcomeKinds, count : 0..MaxBatch]

-----------------------------------------------------------------------------
(* Helpers of _insert_atomically.  An operator marked "slip" is not part of *)
(* the model: it is the plausible mistake a property is shown to notice.    *)

(* _reject_out_of_scale_amount *)
NothingIsOutOfScale(content) == FALSE  \* slip: the scale check is dropped
IsOutOfScale(content) == content \in OutOfScale

HasOutOfScale(batch) == \E i \in DOMAIN batch : IsOutOfScale(batch[i].content)

(* The record at the loop's index. *)
Current == call.batch[position]

(* What the lookup finds under the record's identifier, the rows this very *)
(* transaction has inserted included.                                      *)
CommittedRow == tables[call.table][Current.id]  \* slip: a lookup on another connection
Existing == view[call.table][Current.id]

NeverDiffers(existing, content) == FALSE  \* slip: a known identifier is always a replay
Differs(existing, content) == existing # content

(* The call is over: its answer is handed to the caller. *)
Finish(kind, count) ==
    /\ connection' = "idle"
    /\ call' = NoCall
    /\ position' = 1
    /\ insertedCount' = 0
    /\ outcome' = Outcome(kind, count)

(* Slip: the connection commits row by row, so there is nothing to undo. *)
KeepAndRaise(kind) ==
    /\ connection = "in_transaction"
    /\ Finish(kind, 0)
    /\ tables' = view
    /\ UNCHANGED view

RollbackAndRaise(kind) ==
    /\ connection = "in_transaction"
    /\ Finish(kind, 0)
    /\ view' = tables
    /\ UNCHANGED tables

-----------------------------------------------------------------------------

Init ==
    /\ tables = EmptyTables
    /\ view = EmptyTables
    /\ connection = "closed"
    /\ call = NoCall
    /\ position = 1
    /\ insertedCount = 0
    /\ outcome = NoOutcome

(* open and initialize_schema: a connection reads the committed rows. *)
Open ==
    /\ connection = "closed"
    /\ connection' = "idle"
    /\ UNCHANGED <<tables, view, call, position, insertedCount, outcome>>

(* Slip: closing commits what the interrupted transaction had written. *)
CloseCommits ==
    /\ connection # "closed"
    /\ connection' = "closed"
    /\ call' = NoCall
    /\ position' = 1
    /\ insertedCount' = 0
    /\ outcome' = NoOutcome
    /\ tables' = view
    /\ UNCHANGED view

(* close and __exit__, and also the end of the process.  KeyboardInterrupt *)
(* is no Exception, so it passes the ROLLBACK by and reaches __exit__ with  *)
(* the transaction still open; closing discards what was not committed.    *)
Close ==
    /\ connection # "closed"
    /\ connection' = "closed"
    /\ call' = NoCall
    /\ position' = 1
    /\ insertedCount' = 0
    /\ outcome' = NoOutcome
    /\ view' = tables
    /\ UNCHANGED tables

(* inserted_count = 0 and BEGIN TRANSACTION. *)
BeginInsert(t, batch) ==
    /\ connection = "idle"
    /\ connection' = "in_transaction"
    /\ call' = [table |-> t, batch |-> batch]
    /\ position' = 1
    /\ insertedCount' = 0
    /\ outcome' = NoOutcome
    /\ UNCHANGED <<tables, view>>

InsertNewAccounts(batch) == BeginInsert("accounts", batch)

(* Every amount is checked before the transaction begins. *)
InsertNewTransactions(batch) ==
    /\ ~HasOutOfScale(batch)
    /\ BeginInsert("transactions", batch)

RefuseOutOfScale(batch) ==
    /\ connection = "idle"
    /\ HasOutOfScale(batch)
    /\ outcome' = Outcome("out_of_scale", 0)
    /\ UNCHANGED <<tables, view, connection, call, position, insertedCount>>

(* The loop has a record left. *)
Inserting ==
    /\ connection = "in_transaction"
    /\ position <= Len(call.batch)

(* Slip: INSERT OR REPLACE instead of looking the identifier up. *)
ReplaceRow ==
    /\ Inserting
    /\ view' = [view EXCEPT ![call.table][Current.id] = Stored[Current.content]]
    /\ insertedCount' = insertedCount + 1
    /\ position' = position + 1
    /\ UNCHANGED <<tables, connection, call, outcome>>

InsertRow ==
    /\ Inserting
    /\ Existing = Absent
    /\ view' = [view EXCEPT ![call.table][Current.id] = Stored[Current.content]]
    /\ insertedCount' = insertedCount + 1
    /\ position' = position + 1
    /\ UNCHANGED <<tables, connection, call, outcome>>

(* Slip: a replayed record is counted as a new one. *)
CountReplay ==
    /\ Inserting
    /\ Existing # Absent
    /\ ~Differs(Existing, Current.content)
    /\ position' = position + 1
    /\ insertedCount' = insertedCount + 1
    /\ UNCHANGED <<tables, view, connection, call, outcome>>

SkipReplay ==
    /\ Inserting
    /\ Existing # Absent
    /\ ~Differs(Existing, Current.content)
    /\ position' = position + 1
    /\ UNCHANGED <<tables, view, connection, call, insertedCount, outcome>>

(* LandingConflictError: first write wins. *)
RaiseConflict ==
    /\ Inserting
    /\ Existing # Absent
    /\ Differs(Existing, Current.content)
    /\ RollbackAndRaise("conflict")

(* Any statement of the transaction may raise: disk full, constraint, COMMIT itself. *)
StorageError == RollbackAndRaise("storage_error")

(* Slip: the loop's index is returned for the count. *)
CommitIndex ==
    /\ connection = "in_transaction"
    /\ position > Len(call.batch)
    /\ tables' = view
    /\ Finish("loaded", position)
    /\ UNCHANGED view

Commit ==
    /\ connection = "in_transaction"
    /\ position > Len(call.batch)
    /\ tables' = view
    /\ Finish("loaded", insertedCount)
    /\ UNCHANGED view

(* The loop and its ends, without the calls that start it. *)
Step == InsertRow \/ SkipReplay \/ RaiseConflict \/ StorageError \/ Commit

Next ==
    \/ Open
    \/ Close
    \/ \E batch \in AccountBatches : InsertNewAccounts(batch)
    \/ \E batch \in Batches : InsertNewTransactions(batch)
    \/ \E batch \in Batches : RefuseOutOfScale(batch)
    \/ Step

Spec == Init /\ [][Next]_vars

-----------------------------------------------------------------------------
(* Properties *)

(* Between calls the connection reads exactly the committed rows, whatever *)
(* way the last transaction ended.                                         *)
NothingLeftOver ==
    connection # "in_transaction" => view = tables /\ call = NoCall

(* Within a call: the identifiers this transaction has added to its table. *)
Added == {k \in Ids : tables[call.table][k] = Absent /\ view[call.table][k] # Absent}

(* In the middle of a batch, the connection reads the committed rows plus  *)
(* the records before position, each with the very content that was handed *)
(* in (not a rounded one), and the running count is the number of rows     *)
(* added so far, however many replays and duplicates the batch holds.      *)
PrefixApplied ==
    connection = "in_transaction" =>
        /\ call \in Calls
        /\ \A i \in DOMAIN call.batch : call.batch[i].content \notin OutOfScale
        /\ position \in 1..(Len(call.batch) + 1)
        /\ \A t \in Tables \ {call.table} : view[t] = tables[t]
        /\ \A k \in Ids :
              tables[call.table][k] # Absent => view[call.table][k] = tables[call.table][k]
        /\ \A i \in 1..(position - 1) :
              view[call.table][call.batch[i].id] = call.batch[i].content
        /\ \A k \in Added : \E i \in 1..(position - 1) : call.batch[i].id = k
        /\ IsFiniteSet(Added)
        /\ insertedCount = Cardinality(Added)
        /\ insertedCount < position

(* The inductive invariant of the store. *)
LandingInv == NothingLeftOver /\ PrefixApplied

(* A landed row is never changed or removed, by any later batch, failure,  *)
(* interruption or restart.                                                *)
FirstWriteWins ==
    [][\A t \in Tables, k \in Ids :
          tables[t][k] # Absent => tables'[t][k] = tables[t][k]]_vars

(* The row by row code implements the promise of AtomicLanding: a batch    *)
(* lands whole or leaves no trace, is rejected only for a real             *)
(* contradiction, and the count returned is the number of new identifiers. *)
Promise == INSTANCE AtomicLanding
            WITH landed <- tables, pending <- call, response <- outcome

ImplementsAtomicLanding == Promise!Spec
=============================================================================
