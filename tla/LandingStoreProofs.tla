------------------------- MODULE LandingStoreProofs -------------------------
(***************************************************************************)
(* Proofs about the landing store, for any identifiers, contents and batch *)
(* length: its types, its inductive invariant, first write wins, and that  *)
(* it implements AtomicLanding.                                            *)
(***************************************************************************)
EXTENDS LandingStore, FiniteSetTheorems, TLAPS

(* A batch is a sequence of records no longer than the bound.               *)
LEMMA BatchType ==
    ASSUME NEW batch \in Batches
    PROVE  /\ Len(batch) \in 0..MaxBatch
           /\ DOMAIN batch = 1..Len(batch)
           /\ batch \in Seq(Records)
           /\ \A i \in 1..Len(batch) :
                 /\ batch[i].id \in Ids
                 /\ batch[i].content \in Contents
<1>1. PICK n \in 0..MaxBatch : batch \in [1..n -> Records]
  BY DEF Batches
<1>2. /\ Len(batch) = n
      /\ DOMAIN batch = 1..n
      /\ batch \in Seq(Records)
  BY <1>1, BatchAssumption
<1>3. \A i \in 1..n : batch[i] \in Records
  BY <1>1
<1>4. QED
  BY <1>1, <1>2, <1>3 DEF Records

LEMMA CallType ==
    ASSUME NEW c \in Calls
    PROVE  /\ c.table \in Tables
           /\ c.batch \in Batches
           /\ c # NoCall
  BY DEF Calls, Tables, NoCall

-----------------------------------------------------------------------------
(* The types and the inductive invariant are one argument: that a count    *)
(* stays within the bound follows from the position, and the position's    *)
(* range from the invariant.                                               *)

IInv == TypeOK /\ LandingInv

LEMMA InitIInv == Init => IInv
  BY BatchAssumption, ContentAssumption
     DEF Init, IInv, TypeOK, LandingInv, NothingLeftOver, PrefixApplied,
         EmptyTables, Tables, NoOutcome, Outcome, OutcomeKinds

LEMMA OpenKeepsIInv == IInv /\ Open => IInv'
  BY DEF IInv, TypeOK, LandingInv, NothingLeftOver, PrefixApplied, Open

LEMMA CloseKeepsIInv == IInv /\ Close => IInv'
  BY BatchAssumption
     DEF IInv, TypeOK, LandingInv, NothingLeftOver, PrefixApplied, Close,
         NoOutcome, Outcome, OutcomeKinds

LEMMA RollbackKeepsIInv ==
    ASSUME NEW kind \in OutcomeKinds, IInv, RollbackAndRaise(kind)
    PROVE  IInv'
  BY BatchAssumption
     DEF IInv, TypeOK, LandingInv, NothingLeftOver, PrefixApplied,
         RollbackAndRaise, Finish, Outcome

LEMMA BeginKeepsIInv ==
    ASSUME NEW t \in Tables, NEW batch \in Batches,
           \A i \in DOMAIN batch : batch[i].content \notin OutOfScale,
           IInv, BeginInsert(t, batch)
    PROVE  IInv'
<1>1. call' \in Calls /\ call'.table = t /\ call'.batch = batch
  BY DEF BeginInsert, Calls
<1>2. TypeOK'
  BY <1>1, BatchAssumption
     DEF IInv, TypeOK, BeginInsert, NoOutcome, Outcome, OutcomeKinds
<1>3. view = tables /\ view' = view /\ tables' = tables
  BY DEF IInv, LandingInv, NothingLeftOver, BeginInsert
<1>4. NothingLeftOver'
  BY DEF NothingLeftOver, BeginInsert
<1>5. Added' = {}
  BY <1>3 DEF Added
<1>6. PrefixApplied'
  BY <1>1, <1>3, <1>5, BatchType, FS_EmptySet
     DEF PrefixApplied, BeginInsert
<1>7. QED
  BY <1>2, <1>4, <1>6 DEF IInv, LandingInv

(* What the loop has at hand while a record is left. *)
LEMMA LoopFacts ==
    ASSUME IInv, Inserting
    PROVE  /\ call \in Calls
           /\ call.table \in Tables
           /\ position \in 1..Len(call.batch)
           /\ Len(call.batch) \in 0..MaxBatch
           /\ Current.id \in Ids
           /\ Current.content \in Contents
           /\ Stored[Current.content] = Current.content
           /\ Current.content # Absent
<1>1. call \in Calls /\ position \in 1..(Len(call.batch) + 1)
  BY DEF IInv, LandingInv, PrefixApplied, Inserting
<1>2. call.batch \in Batches /\ call.table \in Tables
  BY <1>1, CallType
<1>3. position \in 1..Len(call.batch) /\ Len(call.batch) \in 0..MaxBatch
  BY <1>1, <1>2, BatchType DEF Inserting
<1>4. Current.id \in Ids /\ Current.content \in Contents
  BY <1>2, <1>3, BatchType DEF Current
<1>5. Current.content \notin OutOfScale
  BY <1>2, <1>3, BatchType
     DEF IInv, LandingInv, PrefixApplied, Inserting, Current
<1>6. QED
  BY <1>1, <1>2, <1>3, <1>4, <1>5, ContentAssumption

(* The loop never counts past the records it has seen. *)
LEMMA SkipKeepsIInv == IInv /\ SkipReplay => IInv'
<1> SUFFICES ASSUME IInv, SkipReplay
             PROVE  IInv'
  OBVIOUS
<1>1. Inserting
  BY DEF SkipReplay
<1>2. TypeOK'
  BY <1>1, LoopFacts, BatchAssumption DEF IInv, TypeOK, SkipReplay
<1>3. NothingLeftOver'
  BY <1>1 DEF NothingLeftOver, SkipReplay, Inserting
<1>4. view[call.table][Current.id] = Current.content
  BY DEF SkipReplay, Differs, Existing
<1>5. Added' = Added
  BY DEF SkipReplay, Added
<1>6. PrefixApplied'
  <2>1. position' = position + 1 /\ position' - 1 = position
    BY <1>1, LoopFacts DEF SkipReplay
  <2>2. position' \in 1..(Len(call.batch) + 1)
    BY <1>1, <2>1, LoopFacts
  <2>3. \A i \in 1..position : view[call.table][call.batch[i].id] = call.batch[i].content
    BY <1>1, <1>4, LoopFacts
       DEF IInv, LandingInv, PrefixApplied, Inserting, Current
  <2>4. \A k \in Added : \E i \in 1..position : call.batch[i].id = k
    BY <1>1, LoopFacts DEF IInv, LandingInv, PrefixApplied, Inserting
  <2>5. insertedCount' < position'
    BY <1>1, <2>1, LoopFacts
       DEF SkipReplay, IInv, TypeOK, LandingInv, PrefixApplied, Inserting
  <2>6. QED
    BY <1>1, <1>5, <2>1, <2>2, <2>3, <2>4, <2>5
       DEF IInv, LandingInv, PrefixApplied, SkipReplay, Inserting
<1>7. QED
  BY <1>2, <1>3, <1>6 DEF IInv, LandingInv

LEMMA InsertKeepsIInv == IInv /\ InsertRow => IInv'
<1> SUFFICES ASSUME IInv, InsertRow
             PROVE  IInv'
  OBVIOUS
<1> DEFINE t == call.table
           k == Current.id
<1>1. Inserting /\ UNCHANGED <<tables, connection, call, outcome>>
  BY DEF InsertRow
<1>2. view' = [view EXCEPT ![t][k] = Current.content]
  BY <1>1, LoopFacts DEF InsertRow
<1>3. view[t][k] = Absent /\ tables[t][k] = Absent
  BY <1>1, LoopFacts
     DEF InsertRow, Existing, IInv, TypeOK, LandingInv, PrefixApplied, Inserting
<1>4. /\ view'[t][k] = Current.content
      /\ \A j \in Ids \ {k} : view'[t][j] = view[t][j]
      /\ \A u \in Tables \ {t} : view'[u] = view[u]
  BY <1>1, <1>2, LoopFacts DEF IInv, TypeOK
<1>5. Added' = Added \cup {k} /\ k \notin Added
  BY <1>1, <1>3, <1>4, LoopFacts DEF Added
<1>6. IsFiniteSet(Added) /\ insertedCount = Cardinality(Added)
  BY <1>1 DEF IInv, LandingInv, PrefixApplied, Inserting
<1>7. IsFiniteSet(Added') /\ insertedCount' = Cardinality(Added')
  BY <1>5, <1>6, FS_AddElement DEF InsertRow
<1>8. NothingLeftOver'
  BY <1>1 DEF NothingLeftOver, Inserting
<1>9. PrefixApplied'
  <2>1. position' = position + 1 /\ position' - 1 = position
    BY <1>1, LoopFacts DEF InsertRow
  <2>2. position' \in 1..(Len(call.batch) + 1)
    BY <1>1, <2>1, LoopFacts
  <2>3. \A i \in 1..(position - 1) : call.batch[i].id # k
    BY <1>1, <1>3, LoopFacts, CallType, BatchType, ContentAssumption
       DEF IInv, LandingInv, PrefixApplied, Inserting
  <2>4. \A i \in 1..position : view'[t][call.batch[i].id] = call.batch[i].content
    <3>1. \A i \in 1..(position - 1) : view[t][call.batch[i].id] = call.batch[i].content
      BY <1>1 DEF IInv, LandingInv, PrefixApplied, Inserting
    <3>2. \A i \in 1..(position - 1) : call.batch[i].id \in Ids
      BY <1>1, LoopFacts, CallType, BatchType
    <3>3. QED
      BY <1>1, <1>4, <2>3, <3>1, <3>2, LoopFacts DEF Current
  <2>5. \A j \in Added' : \E i \in 1..position : call.batch[i].id = j
    <3>1. \A j \in Added : \E i \in 1..(position - 1) : call.batch[i].id = j
      BY <1>1 DEF IInv, LandingInv, PrefixApplied, Inserting
    <3>2. QED
      BY <1>1, <1>5, <3>1, LoopFacts DEF Current
  <2>6. \A j \in Ids : tables[t][j] # Absent => view'[t][j] = tables[t][j]
    BY <1>1, <1>3, <1>4 DEF IInv, LandingInv, PrefixApplied, Inserting
  <2>7. \A u \in Tables \ {t} : view'[u] = tables[u]
    BY <1>1, <1>4 DEF IInv, LandingInv, PrefixApplied, Inserting
  <2>8. \A i \in DOMAIN call.batch : call.batch[i].content \notin OutOfScale
    BY <1>1 DEF IInv, LandingInv, PrefixApplied, Inserting
  <2>9. insertedCount' < position'
    BY <1>1, <2>1, LoopFacts
       DEF InsertRow, IInv, TypeOK, LandingInv, PrefixApplied, Inserting
  <2>10. QED
    BY <1>1, <1>7, <2>1, <2>2, <2>4, <2>5, <2>6, <2>7, <2>8, <2>9,
       LoopFacts
       DEF PrefixApplied
<1>10. TypeOK'
  <2>1. view' \in [Tables -> [Ids -> Contents \cup {Absent}]]
    BY <1>1, <1>2, LoopFacts DEF IInv, TypeOK
  <2>2. insertedCount' \in 0..MaxBatch
    BY <1>1, LoopFacts, BatchAssumption
       DEF InsertRow, IInv, TypeOK, LandingInv, PrefixApplied, Inserting
  <2>3. QED
    BY <1>1, <2>1, <2>2, LoopFacts, BatchAssumption DEF IInv, TypeOK, InsertRow
<1>11. QED
  BY <1>8, <1>9, <1>10 DEF IInv, LandingInv

LEMMA ConflictKeepsIInv == IInv /\ RaiseConflict => IInv'
  BY RollbackKeepsIInv DEF RaiseConflict, OutcomeKinds

LEMMA StorageErrorKeepsIInv == IInv /\ StorageError => IInv'
  BY RollbackKeepsIInv DEF StorageError, OutcomeKinds

LEMMA CommitKeepsIInv == IInv /\ Commit => IInv'
  BY BatchAssumption
     DEF IInv, TypeOK, LandingInv, NothingLeftOver, PrefixApplied, Commit,
         Finish, Outcome, OutcomeKinds

LEMMA RefuseKeepsIInv ==
    ASSUME NEW batch \in Batches, IInv, RefuseOutOfScale(batch)
    PROVE  IInv'
  BY BatchAssumption
     DEF IInv, TypeOK, LandingInv, NothingLeftOver, PrefixApplied, Added,
         RefuseOutOfScale, Outcome, OutcomeKinds

LEMMA NextKeepsIInv == IInv /\ [Next]_vars => IInv'
<1> SUFFICES ASSUME IInv, [Next]_vars
             PROVE  IInv'
  OBVIOUS
<1>1. CASE Open
  BY <1>1, OpenKeepsIInv
<1>2. CASE Close
  BY <1>2, CloseKeepsIInv
<1>3. ASSUME NEW batch \in AccountBatches, InsertNewAccounts(batch)
      PROVE  IInv'
  BY <1>3, BeginKeepsIInv DEF InsertNewAccounts, AccountBatches, Tables
<1>4. ASSUME NEW batch \in Batches, InsertNewTransactions(batch)
      PROVE  IInv'
  BY <1>4, BeginKeepsIInv
     DEF InsertNewTransactions, HasOutOfScale, IsOutOfScale, Tables
<1>5. ASSUME NEW batch \in Batches, RefuseOutOfScale(batch)
      PROVE  IInv'
  BY <1>5, RefuseKeepsIInv
<1>6. CASE InsertRow
  BY <1>6, InsertKeepsIInv
<1>7. CASE SkipReplay
  BY <1>7, SkipKeepsIInv
<1>8. CASE RaiseConflict
  BY <1>8, ConflictKeepsIInv
<1>9. CASE StorageError
  BY <1>9, StorageErrorKeepsIInv
<1>10. CASE Commit
  BY <1>10, CommitKeepsIInv
<1>11. CASE UNCHANGED vars
  BY <1>11
     DEF vars, IInv, TypeOK, LandingInv, NothingLeftOver, PrefixApplied, Added
<1>12. QED
  BY <1>1, <1>2, <1>3, <1>4, <1>5, <1>6, <1>7, <1>8, <1>9, <1>10, <1>11
     DEF Next, Step

LEMMA StoreInvariant == Spec => []IInv
  BY InitIInv, NextKeepsIInv, PTL DEF Spec

(* The store never leaves its types: the position stays within the batch,  *)
(* and the count within the records that have been seen.                   *)
THEOREM StoreTypes == Spec => []TypeOK
<1>1. IInv => TypeOK
  BY DEF IInv
<1>2. QED
  BY <1>1, StoreInvariant, PTL

(* Between calls nothing is left over, and in the middle of a batch the    *)
(* view holds just the records up to the loop's position.                  *)
THEOREM StoreIsConsistent == Spec => []LandingInv
<1>1. IInv => LandingInv
  BY DEF IInv
<1>2. QED
  BY <1>1, StoreInvariant, PTL

-----------------------------------------------------------------------------
(* First write wins: the committed rows change only in Commit, which puts  *)
(* the view in their place, and the view keeps every committed row.        *)

KeepsRows ==
    \A t \in Tables, k \in Ids : tables[t][k] # Absent => tables'[t][k] = tables[t][k]

LEMMA NextKeepsRows == IInv /\ [Next]_vars => [KeepsRows]_vars
<1> SUFFICES ASSUME IInv, Next
             PROVE  KeepsRows
  OBVIOUS
<1>1. CASE Commit
  BY <1>1 DEF Commit, IInv, LandingInv, PrefixApplied, KeepsRows
<1>2. CASE UNCHANGED tables
  BY <1>2 DEF KeepsRows
<1>3. QED
  BY <1>1, <1>2
     DEF Next, Step, Open, Close, InsertNewAccounts, InsertNewTransactions,
         BeginInsert, RefuseOutOfScale, InsertRow, SkipReplay, RaiseConflict,
         StorageError, RollbackAndRaise

(* No batch, failure, interruption or restart ever changes a landed row. *)
THEOREM LandedRowsAreForever == Spec => FirstWriteWins
  BY StoreInvariant, NextKeepsRows, PTL DEF Spec, FirstWriteWins, KeepsRows

-----------------------------------------------------------------------------
(* Refinement.  A call becomes pending when its transaction begins; Commit  *)
(* is Accept, RaiseConflict is Reject, StorageError and the interruption of *)
(* a call are Fail; the rows of the loop are invisible.                    *)

(* A committed batch had nothing to contradict it, and the rows it added   *)
(* are those of the abstract merge.                                        *)
LEMMA CommitIsAccept == IInv /\ Commit => Promise!Accept
<1> SUFFICES ASSUME IInv, Commit
             PROVE  Promise!Accept
  OBVIOUS
<1> DEFINE t == call.table
           b == call.batch
<1>1. connection = "in_transaction" /\ position > Len(b)
  BY DEF Commit
<1>2. call \in Calls /\ t \in Tables /\ b \in Batches /\ call # NoCall
  BY <1>1, CallType DEF IInv, LandingInv, PrefixApplied
<1>3. /\ DOMAIN b = 1..Len(b)
      /\ position - 1 = Len(b)
      /\ \A i \in DOMAIN b : b[i].id \in Ids /\ b[i].content # Absent
  BY <1>1, <1>2, BatchType, ContentAssumption
     DEF IInv, LandingInv, PrefixApplied
<1>4. /\ \A i \in DOMAIN b : view[t][b[i].id] = b[i].content
      /\ \A k \in Ids : tables[t][k] # Absent => view[t][k] = tables[t][k]
      /\ \A k \in Added : \E i \in DOMAIN b : b[i].id = k
      /\ insertedCount = Cardinality(Added)
      /\ \A u \in Tables \ {t} : view[u] = tables[u]
  BY <1>1, <1>3 DEF IInv, LandingInv, PrefixApplied
<1>5. Promise!Consistent(tables[t], b)
  BY <1>3, <1>4 DEF Promise!Consistent
<1>6. Promise!NewIds(tables[t], b) = Added
  BY <1>3, <1>4 DEF Promise!NewIds, Added
<1>7. view[t] = Promise!Merge(tables[t], b)
  <2>1. view[t] = [k \in Ids |-> view[t][k]]
    BY <1>2 DEF IInv, TypeOK
  <2>2. ASSUME NEW k \in Added
        PROVE  view[t][k] = b[CHOOSE i \in DOMAIN b : b[i].id = k].content
    BY <1>4, <2>2
  <2>3. ASSUME NEW k \in Ids, k \notin Added
        PROVE  view[t][k] = tables[t][k]
    BY <1>4, <2>3 DEF Added
  <2>4. QED
    BY <1>6, <2>1, <2>2, <2>3 DEF Promise!Merge
<1>8. tables' = [tables EXCEPT ![t] = Promise!Merge(tables[t], b)]
  <2>1. tables' = view
    BY DEF Commit
  <2>2. view = [tables EXCEPT ![t] = view[t]]
    BY <1>2, <1>4 DEF IInv, TypeOK
  <2>3. QED
    BY <1>7, <2>1, <2>2
<1>9. outcome' = Promise!Answer("loaded", Promise!Cardinality(Promise!NewIds(tables[t], b)))
  <2>1. outcome' = Promise!Answer("loaded", Cardinality(Promise!NewIds(tables[t], b)))
    BY <1>4, <1>6 DEF Commit, Finish, Outcome, Promise!Answer
  <2>2. Cardinality(Added) = Promise!Cardinality(Added)
    BY DEF Cardinality, Promise!Cardinality
  <2>3. QED
    BY <1>6, <2>1, <2>2
<1>10. call # Promise!NoCall /\ call' = Promise!NoCall
  BY <1>2 DEF Promise!NoCall, NoCall, Commit, Finish
<1>11. QED
  BY <1>5, <1>8, <1>9, <1>10, Zenon DEF Promise!Accept

(* A conflict is raised only when the batch contradicts a landed row or    *)
(* an earlier record of its own.                                           *)
LEMMA ConflictIsReject == IInv /\ RaiseConflict => Promise!Reject
<1> SUFFICES ASSUME IInv, RaiseConflict
             PROVE  Promise!Reject
  OBVIOUS
<1> DEFINE t == call.table
           b == call.batch
           k == Current.id
<1>1. Inserting /\ view[t][k] # Absent /\ view[t][k] # Current.content
  BY DEF RaiseConflict, Existing, Differs
<1>2. /\ call \in Calls /\ call # NoCall /\ b \in Batches
      /\ k \in Ids /\ position \in DOMAIN b
  BY <1>1, LoopFacts, CallType, BatchType
<1>3. ~Promise!Consistent(tables[t], b)
  <2>1. CASE tables[t][k] # Absent
    <3>1. view[t][k] = tables[t][k]
      BY <1>1, <1>2, <2>1 DEF IInv, LandingInv, PrefixApplied, Inserting
    <3>2. QED
      BY <1>1, <1>2, <2>1, <3>1 DEF Promise!Consistent, Current
  <2>2. CASE tables[t][k] = Absent
    <3>1. PICK i \in 1..(position - 1) : b[i].id = k
      BY <1>1, <1>2, <2>2 DEF IInv, LandingInv, PrefixApplied, Inserting, Added
    <3>2. view[t][k] = b[i].content
      BY <1>1, <3>1 DEF IInv, LandingInv, PrefixApplied, Inserting
    <3>3. i \in DOMAIN b
      BY <1>1, <1>2, BatchType, LoopFacts
    <3>4. QED
      BY <1>1, <1>2, <3>1, <3>2, <3>3 DEF Promise!Consistent, Current
  <2>3. QED
    BY <2>1, <2>2
<1>4. QED
  BY <1>2, <1>3
     DEF Promise!Reject, Promise!Answer, Promise!NoCall, NoCall, Outcome,
         RaiseConflict, RollbackAndRaise, Finish

LEMMA InitRefines == Init => Promise!Init
  BY DEF Init, EmptyTables, Tables, NoCall, NoOutcome, Outcome, Promise!Init,
         Promise!EmptyTables, Promise!Tables, Promise!NoCall, Promise!NoAnswer,
         Promise!Answer

LEMMA BeginIsSubmit ==
    ASSUME NEW t \in Tables, NEW batch \in Batches,
           t = "transactions" => ~HasOutOfScale(batch),
           IInv, BeginInsert(t, batch)
    PROVE  Promise!Submit(t, batch)
  BY DEF BeginInsert, IInv, LandingInv, NothingLeftOver, NoCall, NoOutcome, Outcome,
         HasOutOfScale, IsOutOfScale, Promise!Submit, Promise!HasOutOfScale,
         Promise!NoCall, Promise!NoAnswer, Promise!Answer

(* A call that ends in an error other than a conflict. *)
LEMMA StorageErrorIsFail == IInv /\ StorageError => Promise!Fail
  BY CallType
     DEF IInv, LandingInv, PrefixApplied, StorageError, RollbackAndRaise, Finish,
         Outcome, NoCall, Promise!Fail, Promise!NoCall, Promise!Answer

LEMMA CloseForgetsOrFails == IInv /\ Close => Promise!Forget \/ Promise!Fail
  BY DEF Close, NoOutcome, Outcome, NoCall, Promise!Fail, Promise!Forget,
         Promise!NoCall, Promise!NoAnswer, Promise!Answer

LEMMA NextRefines == IInv /\ [Next]_vars => [Promise!Next]_(Promise!vars)
<1> SUFFICES ASSUME IInv, [Next]_vars
             PROVE  [Promise!Next]_(Promise!vars)
  OBVIOUS
<1> USE DEF Promise!Next
<1>0. Promise!Tables = Tables /\ Promise!Batches = Batches
  BY DEF Promise!Tables, Tables, Promise!Batches, Batches, Promise!Records, Records
<1>1. CASE Open
  BY <1>1 DEF Open, Promise!vars
<1>2. CASE Close
  BY <1>2, CloseForgetsOrFails
<1>3. ASSUME NEW batch \in AccountBatches, InsertNewAccounts(batch)
      PROVE  Promise!Next
  <2>1. batch \in Batches
    BY DEF AccountBatches
  <2>2. Promise!Submit("accounts", batch)
    BY <1>3, <2>1, BeginIsSubmit DEF InsertNewAccounts, Tables
  <2>3. QED
    BY <1>0, <2>1, <2>2 DEF Tables
<1>4. ASSUME NEW batch \in Batches, InsertNewTransactions(batch)
      PROVE  Promise!Next
  <2>1. Promise!Submit("transactions", batch)
    BY <1>4, BeginIsSubmit DEF InsertNewTransactions, Tables
  <2>2. QED
    BY <1>0, <2>1 DEF Tables
<1>5. ASSUME NEW batch \in Batches, RefuseOutOfScale(batch)
      PROVE  Promise!Next
  <2>1. Promise!Refuse(batch)
    BY <1>5
       DEF RefuseOutOfScale, IInv, LandingInv, NothingLeftOver, NoCall, Outcome,
           HasOutOfScale, IsOutOfScale, Promise!Refuse, Promise!HasOutOfScale,
           Promise!NoCall, Promise!Answer
  <2>2. QED
    BY <1>0, <2>1
<1>6. CASE InsertRow \/ SkipReplay
  BY <1>6 DEF InsertRow, SkipReplay, Promise!vars
<1>7. CASE RaiseConflict
  BY <1>7, ConflictIsReject
<1>8. CASE StorageError
  BY <1>8, StorageErrorIsFail
<1>9. CASE Commit
  BY <1>9, CommitIsAccept
<1>10. CASE UNCHANGED vars
  BY <1>10 DEF vars, Promise!vars
<1>11. QED
  BY <1>1, <1>2, <1>3, <1>4, <1>5, <1>6, <1>7, <1>8, <1>9, <1>10
     DEF Next, Step

(* The row by row code keeps the promise of AtomicLanding. *)
THEOREM StoreImplementsPromise == Spec => ImplementsAtomicLanding
  BY StoreInvariant, InitRefines, NextRefines, PTL
     DEF Spec, ImplementsAtomicLanding, Promise!Spec
=============================================================================
