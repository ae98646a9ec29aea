--------------------------- MODULE IngestionProofs ---------------------------
(***************************************************************************)
(* Proofs about ingestion runs, for any banks, accounts, transactions,     *)
(* rules and budget: whatever ends a run, the report and the exit code are *)
(* true, each bank has landed whole or not at all, and no transaction      *)
(* lacks its account.  What LandingStoreProofs proves of the store is used *)
(* under the instance of it that the runs write to.                        *)
(***************************************************************************)
EXTENDS Ingestion, FiniteSetTheorems, FunctionTheorems, TLAPS

Landing == INSTANCE LandingStoreProofs
           WITH Ids <- AccountIds \cup TransactionIds,
                Contents <- RecordContents,
                OutOfScale <- {c \in TransactionContents : c[2] \in Overprecise},
                Stored <- StoredContent,
                MaxBatch <- LongestBatch

(* The instance satisfies what LandingStore assumes. *)
LEMMA StoreAssumptions == Landing!ContentAssumption /\ Landing!BatchAssumption
<1>1. LongestBatch \in Nat
  BY BanksAssumption, FS_CardinalityType DEF LongestBatch
<1>2. \A c \in RecordContents : c[1] = "transaction" => c \in TransactionContents
  BY DEF RecordContents, AccountContents, TransactionContents
<1>3. \A c \in TransactionContents : StoredContent[c] = <<"transaction", Rounded[c[2]], c[3]>>
  BY DEF RecordContents, TransactionContents, StoredContent
<1>4. ASSUME NEW c \in TransactionContents
      PROVE  /\ StoredContent[c] \in TransactionContents
             /\ c[2] \notin Overprecise => StoredContent[c] = c
  BY <1>3, RecordsAssumption DEF TransactionContents
<1>5. ASSUME NEW c \in AccountContents
      PROVE  StoredContent[c] = c
  BY DEF StoredContent, RecordContents, AccountContents
<1>6. StoredContent \in [RecordContents -> RecordContents]
  BY <1>4, <1>5 DEF RecordContents, StoredContent
<1>7. QED
  BY <1>1, <1>4, <1>5, <1>6, RecordsAssumption
     DEF Landing!ContentAssumption, Landing!BatchAssumption, RecordContents

-----------------------------------------------------------------------------
(* Extracts *)

WorldTypes ==
    /\ names \in [AccountIds -> Names]
    /\ \A x \in TransactionIds : reported[x] \in Reportable[x] \cup {Unreported}
    /\ service \in [Banks -> Services]
    /\ rules \in Rules
    /\ budget \in 0..Budget

Distinct(batch) == \A i, j \in DOMAIN batch : batch[i].id = batch[j].id => i = j

IsExtract(b, e) ==
    /\ e.accounts \in Landing!AccountBatches /\ Distinct(e.accounts)
    /\ e.transactions \in Landing!Batches /\ Distinct(e.transactions)
    /\ \A i \in DOMAIN e.accounts : e.accounts[i].id \in ToSet(AccountsOf[b])
    /\ \A a \in ToSet(AccountsOf[b]) : \E i \in DOMAIN e.accounts : e.accounts[i].id = a
    /\ \A i \in DOMAIN e.transactions : e.transactions[i].id \in TransactionsOf[b]

LEMMA AccountRecordType ==
    ASSUME WorldTypes, NEW a \in AccountIds
    PROVE  /\ AccountRecord(a) \in Landing!Records
           /\ AccountRecord(a).id = a
           /\ AccountRecord(a).content \notin {c \in TransactionContents : c[2] \in Overprecise}
<1>1. names[a] \in Names
  BY DEF WorldTypes
<1>2. QED
  BY <1>1 DEF AccountRecord, Landing!Records, RecordContents, AccountContents, TransactionContents

LEMMA TransactionRecordType ==
    ASSUME WorldTypes, NEW x \in TransactionIds, reported[x] # Unreported
    PROVE  /\ TransactionRecord(x) \in Landing!Records
           /\ TransactionRecord(x).id = x
<1>1. reported[x] \in Versions /\ Category[rules][x] \in Categories
  BY DEF WorldTypes, Versions, Categories
<1>2. QED
  BY <1>1 DEF TransactionRecord, Landing!Records, RecordContents, TransactionContents

LEMMA ExtractFacts ==
    ASSUME WorldTypes, NEW b \in Banks, NEW e \in Extracts(b)
    PROVE  IsExtract(b, e)
<1> DEFINE ids == AccountIds \cup TransactionIds
<1>1. PICK order \in SetToSeqs(Reported(b)) : e = Extract(b, order)
  BY DEF Extracts
<1>2. IsFiniteSet(ids) /\ LongestBatch \in Nat
  BY BanksAssumption, FS_CardinalityType DEF LongestBatch
<1>3. /\ e.accounts = [i \in DOMAIN AccountsOf[b] |-> AccountRecord(AccountsOf[b][i])]
      /\ e.transactions = [i \in DOMAIN order |-> TransactionRecord(order[i])]
  BY <1>1 DEF Extract
<1>4. PICK n \in Nat : AccountsOf[b] \in [1..n -> AccountIds]
  BY BanksAssumption
<1>5. /\ \A i \in 1..n : AccountsOf[b][i] \in AccountIds
      /\ \A i, j \in 1..n : AccountsOf[b][i] = AccountsOf[b][j] => i = j
      /\ ToSet(AccountsOf[b]) = {AccountsOf[b][i] : i \in 1..n}
  BY <1>4, BanksAssumption DEF ToSet
<1>6. n \in 0..LongestBatch
  <2>1. AccountsOf[b] \in Injection(1..n, ids)
    BY <1>4, <1>5, Fun_IsInj
  <2>2. Cardinality(1..n) <= Cardinality(ids)
    BY <1>2, <2>1, FS_Injection
  <2>3. Cardinality(1..n) = n
    BY FS_Interval
  <2>4. QED
    BY <1>2, <2>2, <2>3 DEF LongestBatch
<1>7. /\ e.accounts \in [1..n -> Landing!Records]
      /\ \A i \in 1..n :
            /\ e.accounts[i].id = AccountsOf[b][i]
            /\ e.accounts[i].content \notin {c \in TransactionContents : c[2] \in Overprecise}
  BY <1>3, <1>4, <1>5, AccountRecordType
<1>8. e.accounts \in Landing!AccountBatches
  BY <1>6, <1>7 DEF Landing!AccountBatches, Landing!Batches
<1>9. /\ Distinct(e.accounts)
      /\ \A i \in DOMAIN e.accounts : e.accounts[i].id \in ToSet(AccountsOf[b])
      /\ \A a \in ToSet(AccountsOf[b]) : \E i \in DOMAIN e.accounts : e.accounts[i].id = a
  BY <1>5, <1>7 DEF Distinct
<1> DEFINE m == Cardinality(Reported(b))
<1>10. IsFiniteSet(Reported(b)) /\ m \in 0..LongestBatch
  <2>1. Reported(b) \in SUBSET ids
    BY DEF Reported, TransactionIds
  <2>2. QED
    BY <1>2, <2>1, FS_Subset, FS_CardinalityType DEF LongestBatch
<1>11. /\ order \in [1..m -> Reported(b)]
       /\ \A i, j \in 1..m : order[i] = order[j] => i = j
  BY DEF SetToSeqs
<1>12. \A i \in 1..m :
          /\ order[i] \in TransactionsOf[b] /\ order[i] \in TransactionIds
          /\ reported[order[i]] # Unreported
  BY <1>11 DEF Reported, TransactionIds
<1>13. /\ e.transactions \in [1..m -> Landing!Records]
       /\ \A i \in 1..m : e.transactions[i].id = order[i]
  BY <1>3, <1>11, <1>12, TransactionRecordType
<1>14. /\ e.transactions \in Landing!Batches
       /\ Distinct(e.transactions)
       /\ \A i \in DOMAIN e.transactions : e.transactions[i].id \in TransactionsOf[b]
  BY <1>10, <1>11, <1>12, <1>13 DEF Landing!Batches, Distinct
<1>15. QED
  BY <1>8, <1>9, <1>14 DEF IsExtract

-----------------------------------------------------------------------------
(* The invariant.  What a run has landed is stated of rows that are        *)
(* arguments, so that it reads the same before and after a step.           *)

LandedIn(rows, batch) == \A i \in DOMAIN batch : rows[batch[i].id] = batch[i].content

GainedIn(before, rows, ids) == {k \in ids : before[k] = Absent /\ rows[k] # Absent}

OpposedBy(rows, batch) ==
    \E i \in DOMAIN batch : rows[batch[i].id] \notin {Absent, batch[i].content}

NewAccounts(b) ==
    GainedIn(rowsAtStart["accounts"], tables["accounts"], ToSet(AccountsOf[b]))

NewTransactions(b) ==
    GainedIn(rowsAtStart["transactions"], tables["transactions"], TransactionsOf[b])

(* The insert that was called has returned a count. *)
Returned == connection = "idle" /\ outcome.kind = "loaded"

Refused == connection = "idle" /\ outcome.kind = "conflict"

AtBank == {"land_accounts", "landing_accounts", "landing_transactions"}

(* Rows that were there when the run started are there still. *)
Snapshot ==
    \A t \in {"accounts", "transactions"}, k \in AccountIds \cup TransactionIds :
        rowsAtStart[t][k] # Absent => tables[t][k] = rowsAtStart[t][k]

Control ==
    /\ stage \in Stages /\ bankIndex \in 1..(BankCount + 1)
    /\ stage = "idle" <=> connection = "closed"
    /\ stage \in {"extract", "land_accounts"} => connection = "idle"
    /\ connection = "in_transaction" =>
          call = IF stage = "landing_accounts"
                 THEN [table |-> "accounts", batch |-> extract.accounts]
                 ELSE [table |-> "transactions", batch |-> extract.transactions]
    /\ stage \in AtBank =>
          bankIndex <= BankCount /\ IsExtract(Bank, extract) /\ extracted[Bank] = extract
    /\ extracted = [b \in Banks |-> extracted[b]]
    /\ \A b \in Banks :
          extracted[b].accounts \in Landing!Batches /\ extracted[b].transactions \in Landing!Batches

(* The bank the run is at, and those it has not reached. *)
Progress ==
    /\ \A i \in 1..BankCount :
          i > bankIndex \/ (i = bankIndex /\ stage = "extract") =>
              /\ NewAccounts(BankOrder[i]) = {} /\ NewTransactions(BankOrder[i]) = {}
              /\ extracted[BankOrder[i]] = NoExtract
    /\ stage = "land_accounts" => NewAccounts(Bank) = {} /\ NewTransactions(Bank) = {}
    /\ stage = "landing_accounts" =>
          /\ NewTransactions(Bank) = {}
          /\ ~Returned => NewAccounts(Bank) = {}
          /\ Returned => /\ LandedIn(tables["accounts"], extract.accounts)
                         /\ outcome.count = Cardinality(NewAccounts(Bank))
          /\ Refused => OpposedBy(rowsAtStart["accounts"], extract.accounts)
    /\ stage = "landing_transactions" =>
          /\ LandedIn(tables["accounts"], extract.accounts)
          /\ accountsLoaded = Cardinality(NewAccounts(Bank))
          /\ ~Returned => NewTransactions(Bank) = {}
          /\ Returned => /\ LandedIn(tables["transactions"], extract.transactions)
                         /\ outcome.count = Cardinality(NewTransactions(Bank))
          /\ Refused => OpposedBy(rowsAtStart["transactions"], extract.transactions)

BankResults == [bank : Banks, accounts : Nat, transactions : Nat, isSuccess : BOOLEAN]

Passed(i) ==
    /\ results[i].bank = BankOrder[i]
    /\ results[i].accounts = Cardinality(NewAccounts(BankOrder[i]))
    /\ results[i].transactions = Cardinality(NewTransactions(BankOrder[i]))
    /\ results[i].isSuccess =>
          /\ LandedIn(tables["accounts"], extracted[BankOrder[i]].accounts)
          /\ LandedIn(tables["transactions"], extracted[BankOrder[i]].transactions)
    /\ ~results[i].isSuccess => extracted[BankOrder[i]] = NoExtract

(* The banks the run has passed. *)
Past ==
    /\ results \in Seq(BankResults)
    /\ Len(results) = bankIndex - 1
    /\ accountsLoaded \in 0..LongestBatch
    /\ \A i \in 1..(bankIndex - 1) : Passed(i)

(* How the run has ended. *)
Ended ==
    /\ exit \in Exits
    /\ stage # "idle" => exit = "none" /\ raised = "nothing"
    /\ exit \in {"ok", "failed"} =>
          exit = "ok" <=> bankIndex = BankCount + 1 /\ \A i \in DOMAIN results : results[i].isSuccess
    /\ raised \in {"nothing"} \cup Errors
    /\ raised \in Errors =>
          /\ bankIndex <= BankCount
          /\ NewTransactions(Bank) = {}
          /\ raised = "conflict" =>
                \/ OpposedBy(rowsAtStart["accounts"], extracted[Bank].accounts)
                \/ OpposedBy(rowsAtStart["transactions"], extracted[Bank].transactions)

Whole ==
    \A b \in Banks :
        /\ NewTransactions(b) # {} =>
              /\ LandedIn(tables["transactions"], extracted[b].transactions)
              /\ LandedIn(tables["accounts"], extracted[b].accounts)
        /\ NewAccounts(b) # {} => LandedIn(tables["accounts"], extracted[b].accounts)

RunInv ==
    /\ WorldTypes /\ Landing!IInv
    /\ Snapshot /\ Control /\ Progress /\ Past /\ Ended /\ Whole /\ ReferentialIntegrity

-----------------------------------------------------------------------------
(* The store's part of a step *)

LEMMA BankFacts ==
    /\ BankCount \in Nat
    /\ \A i \in 1..BankCount : BankOrder[i] \in Banks
    /\ \A i, j \in 1..BankCount : BankOrder[i] = BankOrder[j] => i = j
    /\ \A b \in Banks : \E i \in 1..BankCount : b = BankOrder[i]
  BY BanksAssumption DEF BankCount, Banks

(* A row of a batch and the end of a batch, under both names of the store. *)
LEMMA StoreStepIs ==
    /\ Store!InsertRow => Landing!InsertRow
    /\ Store!SkipReplay => Landing!SkipReplay
    /\ Store!RaiseConflict => Landing!RaiseConflict
    /\ Store!Commit => Landing!Commit
<1>1. Store!InsertRow => Landing!InsertRow
  BY DEF Store!InsertRow, Store!Inserting, Store!Existing, Store!Current,
         Landing!InsertRow, Landing!Inserting, Landing!Existing, Landing!Current
<1>2. Store!SkipReplay => Landing!SkipReplay
  BY DEF Store!SkipReplay, Store!Inserting, Store!Existing, Store!Current, Store!Differs,
         Landing!SkipReplay, Landing!Inserting, Landing!Existing, Landing!Current,
         Landing!Differs
<1>3. Store!RaiseConflict => Landing!RaiseConflict
  BY DEF Store!RaiseConflict, Store!Inserting, Store!Existing, Store!Current, Store!Differs,
         Store!RollbackAndRaise, Store!Finish, Store!NoCall, Store!Outcome,
         Landing!RaiseConflict, Landing!Inserting, Landing!Existing, Landing!Current,
         Landing!Differs, Landing!RollbackAndRaise, Landing!Finish, Landing!NoCall,
         Landing!Outcome
<1>4. Store!Commit => Landing!Commit
  BY DEF Store!Commit, Store!Finish, Store!NoCall, Store!Outcome,
         Landing!Commit, Landing!Finish, Landing!NoCall, Landing!Outcome
<1>5. QED
  BY <1>1, <1>2, <1>3, <1>4

(* Every step is a step of the store, or leaves it alone. *)
LEMMA StoreMoves == RunInv /\ [Next]_vars => [Landing!Next]_(Landing!vars)
<1> SUFFICES ASSUME RunInv, Next
             PROVE  Landing!Next \/ UNCHANGED Landing!vars
  BY DEF vars, storeVars, Landing!vars
<1> USE DEF Landing!Next, Landing!Step, storeVars, Landing!vars
<1>1. CASE StartRun
  BY <1>1 DEF StartRun, Store!Open, Landing!Open
<1>2. CASE ExtractFails \/ ExtractSucceeds \/ RecordResult
  BY <1>2 DEF ExtractFails, ExtractSucceeds, RecordResult
<1>3. CASE ExtractRaises \/ Abort \/ FinishRun \/ Kill
  BY <1>3 DEF ExtractRaises, Abort, FinishRun, Kill, Store!Close, Store!NoCall, Store!NoOutcome,
              Store!Outcome, Landing!Close, Landing!NoCall, Landing!NoOutcome, Landing!Outcome
<1>4. CASE LandAccounts
  <2>1. extract.accounts \in Landing!AccountBatches
    BY <1>4 DEF LandAccounts, RunInv, Control, AtBank, IsExtract
  <2>2. Landing!InsertNewAccounts(extract.accounts)
    BY <1>4 DEF LandAccounts, Store!InsertNewAccounts, Store!BeginInsert, Store!NoOutcome,
                Store!Outcome, Landing!InsertNewAccounts, Landing!BeginInsert,
                Landing!NoOutcome, Landing!Outcome
  <2>3. QED
    BY <2>1, <2>2
<1>5. CASE LandTransactions
  <2>1. extract.transactions \in Landing!Batches
    BY <1>5 DEF LandTransactions, RunInv, Control, AtBank, IsExtract
  <2>2. \/ Landing!InsertNewTransactions(extract.transactions)
        \/ Landing!RefuseOutOfScale(extract.transactions)
    BY <1>5 DEF LandTransactions, Store!InsertNewTransactions, Store!RefuseOutOfScale,
                Store!HasOutOfScale, Store!IsOutOfScale, Store!BeginInsert, Store!NoOutcome,
                Store!Outcome, Landing!InsertNewTransactions, Landing!RefuseOutOfScale,
                Landing!HasOutOfScale, Landing!IsOutOfScale, Landing!BeginInsert,
                Landing!NoOutcome, Landing!Outcome
  <2>3. QED
    BY <2>1, <2>2
<1>6. CASE StoreStep
  BY <1>6, StoreStepIs DEF StoreStep
<1>7. CASE StatementFails
  BY <1>7 DEF StatementFails, Store!StorageError, Store!RollbackAndRaise, Store!Finish,
              Store!NoCall, Store!Outcome, Landing!StorageError, Landing!RollbackAndRaise,
              Landing!Finish, Landing!NoCall, Landing!Outcome
<1>8. CASE \/ \E x \in TransactionIds : \E v \in Reportable[x] \cup {Unreported} : Report(x, v)
           \/ \E a \in AccountIds, n \in Names : Rename(a, n)
           \/ \E b \in Banks, s \in Services : ChangeService(b, s)
           \/ \E r \in Rules : ReleaseRules(r)
  BY <1>8 DEF Report, Rename, ChangeService, ReleaseRules
<1>9. QED
  BY <1>1, <1>2, <1>3, <1>4, <1>5, <1>6, <1>7, <1>8 DEF Next, Run, World

LEMMA StoreKeeps ==
    ASSUME RunInv, [Next]_vars
    PROVE  /\ Landing!IInv'
           /\ \A t \in {"accounts", "transactions"}, k \in AccountIds \cup TransactionIds :
                 tables[t][k] # Absent => tables'[t][k] = tables[t][k]
<1>1. Landing!IInv /\ [Landing!Next]_(Landing!vars)
  BY StoreMoves DEF RunInv
<1>2. Landing!IInv'
  BY <1>1, StoreAssumptions, Landing!NextKeepsIInv
<1>3. [Landing!KeepsRows]_(Landing!vars)
  BY <1>1, StoreAssumptions, Landing!NextKeepsRows
<1>4. QED
  BY <1>2, <1>3 DEF Landing!KeepsRows, Landing!vars, Landing!Tables

-----------------------------------------------------------------------------
(* Steps that leave the rows alone *)

Core == Snapshot /\ Control /\ Progress /\ Past /\ Ended /\ Whole /\ ReferentialIntegrity

LEMMA NothingGained ==
    /\ \A rows, ids : GainedIn(rows, rows, ids) = {}
    /\ \A rows : LandedIn(rows, <<>>)
    /\ <<>> \in Landing!Batches
    /\ Cardinality({}) = 0
<1>1. <<>> \in Landing!Batches
  BY StoreAssumptions DEF Landing!Batches, Landing!BatchAssumption
<1>2. QED
  BY <1>1, FS_EmptySet DEF GainedIn, LandedIn

(* What the run, its store's calls and its history show is unchanged. *)
LEMMA StillKeepsCore ==
    ASSUME Core, UNCHANGED <<tables, connection, call, outcome, runVars, historyVars>>
    PROVE  Core'
<1> USE DEF Core, runVars, historyVars
<1>1. Snapshot' /\ Whole' /\ ReferentialIntegrity'
  BY DEF Snapshot, Whole, ReferentialIntegrity, NewAccounts, NewTransactions
<1>2. Control'
  BY DEF Control, Bank
<1>3. Progress'
  BY DEF Progress, NewAccounts, NewTransactions, Returned, Refused, Bank
<1>4. Past' /\ Ended'
  BY DEF Past, Passed, Ended, NewAccounts, NewTransactions, Bank
<1>5. QED
  BY <1>1, <1>2, <1>3, <1>4

LEMMA StartRunKeepsCore ==
    ASSUME Core, StartRun
    PROVE  Core'
<1> USE DEF Core
<1>1. /\ stage' = "extract" /\ connection' = "idle" /\ bankIndex' = 1 /\ results' = <<>>
      /\ exit' = "none" /\ raised' = "nothing" /\ extracted' = [b \in Banks |-> NoExtract]
      /\ tables' = tables /\ rowsAtStart' = tables /\ accountsLoaded' = accountsLoaded
  BY DEF StartRun, Store!Open
<1>2. \A b \in Banks : NewAccounts(b)' = {} /\ NewTransactions(b)' = {}
  BY <1>1, NothingGained DEF NewAccounts, NewTransactions
<1>3. Snapshot' /\ ReferentialIntegrity' /\ Whole'
  BY <1>1, <1>2 DEF Snapshot, ReferentialIntegrity, Whole
<1>4. Control'
  BY <1>1, BankFacts, NothingGained DEF Control, Stages, AtBank, NoExtract
<1>5. Progress'
  BY <1>1, <1>2, BankFacts DEF Progress
<1>6. Past' /\ Ended'
  BY <1>1 DEF Past, Ended, Exits, Errors
<1>7. QED
  BY <1>3, <1>4, <1>5, <1>6

(* What appending a result does to the banks the run has passed. *)
LEMMA ResultAppended ==
    ASSUME Past, bankIndex \in 1..BankCount, bankIndex' = bankIndex + 1,
           NEW r \in BankResults, results' = Append(results, r)
    PROVE  /\ results' \in Seq(BankResults)
           /\ Len(results') = bankIndex' - 1
           /\ \A i \in 1..(bankIndex - 1) : results'[i] = results[i]
           /\ results'[bankIndex] = r
           /\ \A i \in 1..(bankIndex' - 1) : i = bankIndex \/ i \in 1..(bankIndex - 1)
<1>1. results \in Seq(BankResults) /\ Len(results) = bankIndex - 1
  BY DEF Past
<1>2. BankCount \in Nat
  BY BankFacts
<1>3. QED
  BY <1>1, <1>2

LEMMA ExtractFailsKeepsCore ==
    ASSUME Core, ExtractFails
    PROVE  Core'
<1> USE DEF Core
<1>1. /\ stage = "extract" /\ stage' = stage /\ bankIndex \in 1..BankCount
      /\ bankIndex' = bankIndex + 1
      /\ results' = Append(results, Result(Bank, 0, 0, FALSE))
      /\ UNCHANGED <<tables, connection, call, outcome, extract, accountsLoaded, exit, raised,
                     rowsAtStart, extracted>>
  BY BankFacts DEF ExtractFails, storeVars, historyVars, Control
<1>2. \A b : NewAccounts(b)' = NewAccounts(b) /\ NewTransactions(b)' = NewTransactions(b)
  BY <1>1 DEF NewAccounts, NewTransactions
<1>3. Snapshot' /\ ReferentialIntegrity' /\ Whole'
  BY <1>1, <1>2 DEF Snapshot, ReferentialIntegrity, Whole
<1>4. Control'
  BY <1>1, BankFacts DEF Control, Stages, AtBank
<1>5. Progress'
  <2>1. ASSUME NEW i \in 1..BankCount, i > bankIndex' \/ (i = bankIndex' /\ stage' = "extract")
        PROVE  /\ NewAccounts(BankOrder[i])' = {} /\ NewTransactions(BankOrder[i])' = {}
               /\ extracted'[BankOrder[i]] = NoExtract
    <3>1. i > bankIndex
      BY <1>1, <2>1, BankFacts
    <3>2. QED
      BY <1>1, <1>2, <3>1 DEF Progress
  <2>2. QED
    BY <1>1, <2>1 DEF Progress
<1>6. Past'
  <2>1. /\ NewAccounts(BankOrder[bankIndex]) = {} /\ NewTransactions(BankOrder[bankIndex]) = {}
        /\ extracted[BankOrder[bankIndex]] = NoExtract
    BY <1>1 DEF Progress
  <2>2. Result(Bank, 0, 0, FALSE) \in BankResults
    BY <1>1, BankFacts DEF Result, Bank, BankResults
  <2>3. /\ results' \in Seq(BankResults)
        /\ Len(results') = bankIndex' - 1
        /\ \A i \in 1..(bankIndex - 1) : results'[i] = results[i]
        /\ results'[bankIndex] = Result(Bank, 0, 0, FALSE)
        /\ \A i \in 1..(bankIndex' - 1) : i = bankIndex \/ i \in 1..(bankIndex - 1)
    BY <1>1, <2>2, ResultAppended
  <2>4. accountsLoaded' \in 0..LongestBatch
    BY <1>1 DEF Past
  <2>5. ASSUME NEW i \in 1..(bankIndex - 1)
        PROVE  Passed(i)'
    BY <1>1, <1>2, <2>3 DEF Past, Passed
  <2>6. ASSUME NEW i, i = bankIndex
        PROVE  Passed(i)'
    <3>1. /\ results'[i].bank = BankOrder[i] /\ results'[i].accounts = 0
          /\ results'[i].transactions = 0 /\ ~results'[i].isSuccess
      BY <2>3, <2>6 DEF Result, Bank
    <3>2. /\ NewAccounts(BankOrder[i])' = {} /\ NewTransactions(BankOrder[i])' = {}
          /\ extracted'[BankOrder[i]] = NoExtract
      BY <1>1, <1>2, <2>1, <2>6
    <3>3. Cardinality({}) = 0
      BY FS_EmptySet
    <3>4. QED
      BY <3>1, <3>2, <3>3 DEF Passed
  <2>7. QED
    BY <2>3, <2>4, <2>5, <2>6 DEF Past
<1>7. Ended'
  BY <1>1 DEF Ended, Exits, Errors
<1>8. QED
  BY <1>3, <1>4, <1>5, <1>6, <1>7

LEMMA ExtractSucceedsKeepsCore ==
    ASSUME WorldTypes, Core, ExtractSucceeds
    PROVE  Core'
<1> USE DEF Core
<1>1. /\ stage = "extract" /\ stage' = "land_accounts" /\ bankIndex \in 1..BankCount
      /\ Bank = BankOrder[bankIndex] /\ Bank' = Bank /\ Bank \in Banks
      /\ extracted' = [extracted EXCEPT ![Bank] = extract']
      /\ UNCHANGED <<tables, connection, call, outcome, bankIndex, accountsLoaded, results, exit, raised,
                     rowsAtStart>>
  BY BankFacts DEF ExtractSucceeds, storeVars, Control, Bank
<1>2. \A b : NewAccounts(b)' = NewAccounts(b) /\ NewTransactions(b)' = NewTransactions(b)
  BY <1>1 DEF NewAccounts, NewTransactions
<1>3. IsExtract(Bank, extract')
  BY <1>1, ExtractFacts DEF ExtractSucceeds
<1>4. /\ extracted'[Bank] = extract'
      /\ \A b \in Banks \ {Bank} : extracted'[b] = extracted[b]
      /\ extracted' = [b \in Banks |-> extracted'[b]]
  BY <1>1 DEF Control
<1>5. /\ NewAccounts(Bank) = {} /\ NewTransactions(Bank) = {}
      /\ \A i \in 1..BankCount : i # bankIndex => BankOrder[i] \in Banks \ {Bank}
  BY <1>1, BankFacts DEF Progress
<1>6. Snapshot' /\ ReferentialIntegrity' /\ Whole'
  BY <1>1, <1>2, <1>4, <1>5 DEF Snapshot, ReferentialIntegrity, Whole
<1>7. Control'
  <2>1. extract'.accounts \in Landing!Batches /\ extract'.transactions \in Landing!Batches
    BY <1>3 DEF IsExtract, Landing!AccountBatches
  <2>2. QED
    BY <1>1, <1>3, <1>4, <2>1, BankFacts DEF Control, Stages, AtBank
<1>8. Progress'
  BY <1>1, <1>2, <1>4, <1>5 DEF Progress
<1>9. Past'
  <2>1. ASSUME NEW i \in 1..(bankIndex - 1)
        PROVE  Passed(i)'
    <3>1. i # bankIndex /\ i \in 1..BankCount
      BY <1>1, BankFacts
    <3>2. extracted'[BankOrder[i]] = extracted[BankOrder[i]]
      BY <1>4, <1>5, <3>1
    <3>3. QED
      BY <1>1, <1>2, <3>2 DEF Past, Passed
  <2>2. QED
    BY <1>1, <2>1 DEF Past
<1>10. Ended'
  BY <1>1 DEF Ended, Exits, Errors
<1>11. QED
  BY <1>6, <1>7, <1>8, <1>9, <1>10

(* The store is closed, by whatever ends the run. *)
LEMMA ClosingKeepsCore ==
    ASSUME Core, stage' = "idle", connection' = "closed", Ended',
           UNCHANGED <<tables, bankIndex, extract, accountsLoaded, results, historyVars>>
    PROVE  Core'
<1> USE DEF Core, historyVars
<1>1. \A b : NewAccounts(b)' = NewAccounts(b) /\ NewTransactions(b)' = NewTransactions(b)
  BY DEF NewAccounts, NewTransactions
<1>2. Snapshot' /\ ReferentialIntegrity' /\ Whole'
  BY <1>1 DEF Snapshot, ReferentialIntegrity, Whole
<1>3. Control'
  BY DEF Control, Stages, AtBank
<1>4. Progress'
  BY <1>1 DEF Progress
<1>5. Past'
  BY <1>1 DEF Past, Passed
<1>6. QED
  BY <1>2, <1>3, <1>4, <1>5

LEMMA ExtractRaisesKeepsCore ==
    ASSUME Core, ExtractRaises
    PROVE  Core'
<1>1. /\ stage = "extract" /\ bankIndex \in 1..BankCount 
      /\ exit' = "failed" /\ raised' = "extract_error"
      /\ stage' = "idle" /\ connection' = "closed"
      /\ UNCHANGED <<tables, bankIndex, extract, accountsLoaded, results, historyVars>>
  BY BankFacts DEF ExtractRaises, Store!Close, Core, Control
<1>2. NewTransactions(Bank) = {}
  BY <1>1 DEF Core, Progress, Bank
<1>3. NewTransactions(Bank)' = {} /\ bankIndex' <= BankCount /\ bankIndex' # BankCount + 1
  BY <1>1, <1>2, BankFacts DEF NewTransactions, Bank, historyVars
<1>4. Ended'
  BY <1>1, <1>3 DEF Ended, Exits, Errors
<1>5. QED
  BY <1>1, <1>4, ClosingKeepsCore

LEMMA AbortKeepsCore ==
    ASSUME Core, Abort
    PROVE  Core'
<1>1. /\ stage \in {"landing_accounts", "landing_transactions"} /\ connection = "idle"
      /\ outcome.kind \in {"conflict", "out_of_scale", "storage_error"} 
      /\ exit' = "failed" /\ raised' = outcome.kind
      /\ stage' = "idle" /\ connection' = "closed"
      /\ UNCHANGED <<tables, bankIndex, extract, accountsLoaded, results, historyVars>>
  BY DEF Abort, Store!Close
<1>2. bankIndex \in 1..BankCount /\ extracted[Bank] = extract
  BY <1>1, BankFacts DEF Core, Control, AtBank
<1>3. /\ NewTransactions(Bank) = {}
      /\ raised' = "conflict" => \/ OpposedBy(rowsAtStart["accounts"], extract.accounts)
                                 \/ OpposedBy(rowsAtStart["transactions"], extract.transactions)
  BY <1>1 DEF Core, Progress, Returned, Refused
<1>4. /\ NewTransactions(Bank)' = {} /\ bankIndex' <= BankCount /\ bankIndex' # BankCount + 1
      /\ extracted'[Bank'] = extract /\ rowsAtStart' = rowsAtStart
  BY <1>1, <1>2, <1>3, BankFacts DEF NewTransactions, Bank, historyVars
<1>5. Ended'
  BY <1>1, <1>3, <1>4 DEF Ended, Exits, Errors
<1>6. QED
  BY <1>1, <1>5, ClosingKeepsCore

LEMMA FinishRunKeepsCore ==
    ASSUME Core, FinishRun
    PROVE  Core'
<1>1. /\ stage = "extract" /\ bankIndex > BankCount /\ exit' = ExitCode /\ raised' = "nothing"
      /\ stage' = "idle" /\ connection' = "closed"
      /\ UNCHANGED <<tables, bankIndex, extract, accountsLoaded, results, historyVars>>
  BY DEF FinishRun, Store!Close, Core, Ended
<1>2. bankIndex = BankCount + 1
  BY <1>1, BankFacts DEF Core, Control
<1>3. Ended'
  BY <1>1, <1>2 DEF Ended, Exits, Errors, ExitCode
<1>4. QED
  BY <1>1, <1>3, ClosingKeepsCore

LEMMA KillKeepsCore ==
    ASSUME Core, Kill
    PROVE  Core'
<1>1. /\ exit' = "killed" /\ raised' = "nothing" /\ stage' = "idle" /\ connection' = "closed"
      /\ UNCHANGED <<tables, bankIndex, extract, accountsLoaded, results, historyVars>>
  BY DEF Kill, Store!Close, Core, Ended
<1>2. Ended'
  BY <1>1 DEF Ended, Exits, Errors
<1>3. QED
  BY <1>1, <1>2, ClosingKeepsCore

-----------------------------------------------------------------------------
(* The calls of a bank *)

LEMMA LandAccountsKeepsCore ==
    ASSUME Core, LandAccounts
    PROVE  Core'
<1> USE DEF Core
<1>1. /\ stage = "land_accounts" /\ stage' = "landing_accounts"
      /\ connection' = "in_transaction"
      /\ call' = [table |-> "accounts", batch |-> extract.accounts]
      /\ UNCHANGED <<tables, bankIndex, extract, accountsLoaded, results, exit, raised,
                     rowsAtStart, extracted>>
  BY DEF LandAccounts, Store!InsertNewAccounts, Store!BeginInsert, historyVars
<1>2. \A b : NewAccounts(b)' = NewAccounts(b) /\ NewTransactions(b)' = NewTransactions(b)
  BY <1>1 DEF NewAccounts, NewTransactions
<1>3. Snapshot' /\ ReferentialIntegrity' /\ Whole'
  BY <1>1, <1>2 DEF Snapshot, ReferentialIntegrity, Whole
<1>4. Bank' = Bank
  BY <1>1 DEF Bank
<1>5. Control'
  BY <1>1, <1>4 DEF Control, Stages, AtBank
<1>6. Progress'
  BY <1>1, <1>2, <1>4 DEF Progress, Returned, Refused
<1>7. Past'
  BY <1>1, <1>2 DEF Past, Passed
<1>8. Ended'
  BY <1>1 DEF Ended, Exits, Errors
<1>9. QED
  BY <1>3, <1>5, <1>6, <1>7, <1>8

LEMMA CountType ==
    ASSUME Landing!IInv
    PROVE  outcome.count \in 0..LongestBatch
  BY StoreAssumptions DEF Landing!IInv, Landing!TypeOK, Landing!BatchAssumption

LEMMA LandTransactionsKeepsCore ==
    ASSUME Landing!IInv, Core, LandTransactions
    PROVE  Core'
<1> USE DEF Core
<1>1. /\ stage = "landing_accounts" /\ stage' = "landing_transactions"
      /\ connection = "idle" /\ outcome.kind = "loaded" /\ accountsLoaded' = outcome.count
      /\ UNCHANGED <<tables, bankIndex, extract, results, exit, raised, rowsAtStart, extracted>>
  BY DEF LandTransactions, Store!InsertNewTransactions, Store!BeginInsert,
         Store!RefuseOutOfScale, historyVars
<1>2. \/ /\ connection' = "in_transaction"
         /\ call' = [table |-> "transactions", batch |-> extract.transactions]
      \/ connection' = "idle" /\ outcome'.kind = "out_of_scale"
  BY <1>1 DEF LandTransactions, Store!InsertNewTransactions, Store!BeginInsert,
              Store!RefuseOutOfScale, Store!Outcome
<1>3. ~Returned' /\ ~Refused'
  BY <1>2 DEF Returned, Refused
<1>4. \A b : NewAccounts(b)' = NewAccounts(b) /\ NewTransactions(b)' = NewTransactions(b)
  BY <1>1 DEF NewAccounts, NewTransactions
<1>5. Snapshot' /\ ReferentialIntegrity' /\ Whole'
  BY <1>1, <1>4 DEF Snapshot, ReferentialIntegrity, Whole
<1>6. Bank' = Bank
  BY <1>1 DEF Bank
<1>7. Control'
  BY <1>1, <1>2, <1>6 DEF Control, Stages, AtBank
<1>8. /\ LandedIn(tables["accounts"], extract.accounts) /\ NewTransactions(Bank) = {}
      /\ outcome.count = Cardinality(NewAccounts(Bank))
  BY <1>1 DEF Progress, Returned
<1>9. Progress'
  BY <1>1, <1>3, <1>4, <1>6, <1>8 DEF Progress
<1>10. Past'
  BY <1>1, <1>4, <1>8, CountType DEF Past, Passed
<1>11. Ended'
  BY <1>1 DEF Ended, Exits, Errors
<1>12. QED
  BY <1>5, <1>7, <1>9, <1>10, <1>11

LEMMA RecordResultKeepsCore ==
    ASSUME Landing!IInv, Core, RecordResult
    PROVE  Core'
<1> USE DEF Core
<1>1. /\ stage = "landing_transactions" /\ stage' = "extract" /\ Returned
      /\ results' = Append(results, Result(Bank, accountsLoaded, outcome.count, TRUE))
      /\ bankIndex' = bankIndex + 1 /\ bankIndex \in 1..BankCount
      /\ UNCHANGED <<tables, connection, call, outcome, extract, accountsLoaded, exit, raised,
                     rowsAtStart, extracted>>
  BY BankFacts DEF RecordResult, storeVars, historyVars, Control, Returned, AtBank
<1>2. \A b : NewAccounts(b)' = NewAccounts(b) /\ NewTransactions(b)' = NewTransactions(b)
  BY <1>1 DEF NewAccounts, NewTransactions
<1>3. Snapshot' /\ ReferentialIntegrity' /\ Whole'
  BY <1>1, <1>2 DEF Snapshot, ReferentialIntegrity, Whole
<1>4. Control'
  BY <1>1, BankFacts DEF Control, Stages, AtBank, Returned
<1>5. Progress'
  <2>1. ASSUME NEW i \in 1..BankCount, i > bankIndex' \/ (i = bankIndex' /\ stage' = "extract")
        PROVE  /\ NewAccounts(BankOrder[i])' = {} /\ NewTransactions(BankOrder[i])' = {}
               /\ extracted'[BankOrder[i]] = NoExtract
    <3>1. i > bankIndex
      BY <1>1, <2>1, BankFacts
    <3>2. QED
      BY <1>1, <1>2, <3>1 DEF Progress
  <2>2. QED
    BY <1>1, <2>1 DEF Progress
<1>6. Past'
  <2>1. accountsLoaded \in Nat /\ outcome.count \in Nat
    BY CountType, StoreAssumptions DEF Past, Landing!BatchAssumption
  <2>2. Result(Bank, accountsLoaded, outcome.count, TRUE) \in BankResults
    BY <1>1, <2>1, BankFacts DEF Result, Bank, BankResults
  <2>3. /\ results' \in Seq(BankResults)
        /\ Len(results') = bankIndex' - 1
        /\ \A i \in 1..(bankIndex - 1) : results'[i] = results[i]
        /\ results'[bankIndex] = Result(Bank, accountsLoaded, outcome.count, TRUE)
        /\ \A i \in 1..(bankIndex' - 1) : i = bankIndex \/ i \in 1..(bankIndex - 1)
    BY <1>1, <2>2, ResultAppended
  <2>4. ASSUME NEW i \in 1..(bankIndex - 1)
        PROVE  Passed(i)'
    BY <1>1, <1>2, <2>3 DEF Past, Passed
  <2>5. ASSUME NEW i, i = bankIndex
        PROVE  Passed(i)'
    <3>1. Bank = BankOrder[i] /\ extracted[Bank] = extract
      BY <1>1, <2>5 DEF Bank, Control, AtBank
    <3>2. /\ results'[i].bank = BankOrder[i] /\ results'[i].accounts = accountsLoaded
          /\ results'[i].transactions = outcome.count /\ results'[i].isSuccess = TRUE
      BY <2>3, <2>5, <3>1 DEF Result
    <3>3. /\ LandedIn(tables["accounts"], extract.accounts)
          /\ LandedIn(tables["transactions"], extract.transactions)
          /\ accountsLoaded = Cardinality(NewAccounts(Bank))
          /\ outcome.count = Cardinality(NewTransactions(Bank))
      BY <1>1 DEF Progress
    <3>4. /\ results'[i].accounts = Cardinality(NewAccounts(BankOrder[i])')
          /\ results'[i].transactions = Cardinality(NewTransactions(BankOrder[i])')
      BY <1>2, <3>1, <3>2, <3>3
    <3>5. QED
      BY <1>1, <3>1, <3>2, <3>3, <3>4 DEF Passed
  <2>6. QED
    BY <1>1, <2>1, <2>3, <2>4, <2>5 DEF Past
<1>7. Ended'
  BY <1>1 DEF Ended, Exits, Errors
<1>8. QED
  BY <1>3, <1>4, <1>5, <1>6, <1>7

-----------------------------------------------------------------------------
(* The rows of a batch *)

LEMMA InCall ==
    ASSUME Core, connection = "in_transaction"
    PROVE  /\ stage \in {"landing_accounts", "landing_transactions"}
           /\ bankIndex \in 1..BankCount /\ Bank \in Banks
           /\ IsExtract(Bank, extract) /\ extracted[Bank] = extract
           /\ stage = "landing_accounts" =>
                 /\ call = [table |-> "accounts", batch |-> extract.accounts]
                 /\ NewAccounts(Bank) = {} /\ NewTransactions(Bank) = {}
           /\ stage = "landing_transactions" =>
                 /\ call = [table |-> "transactions", batch |-> extract.transactions]
                 /\ NewTransactions(Bank) = {}
                 /\ LandedIn(tables["accounts"], extract.accounts)
                 /\ accountsLoaded = Cardinality(NewAccounts(Bank))
<1>1. stage \in {"landing_accounts", "landing_transactions"}
  BY DEF Core, Control, Stages
<1>2. bankIndex \in 1..BankCount /\ Bank \in Banks
  BY <1>1, BankFacts DEF Core, Control, AtBank, Bank
<1>3. QED
  BY <1>1, <1>2 DEF Core, Control, Progress, AtBank, Returned

LEMMA RollbackKeepsCore ==
    ASSUME Core, connection = "in_transaction", connection' = "idle", outcome'.kind # "loaded",
           UNCHANGED <<tables, runVars, historyVars>>,
           outcome'.kind = "conflict" =>
              /\ stage = "landing_accounts" =>
                    OpposedBy(rowsAtStart["accounts"], extract.accounts)
              /\ stage = "landing_transactions" =>
                    OpposedBy(rowsAtStart["transactions"], extract.transactions)
    PROVE  Core'
<1> USE DEF Core, runVars, historyVars
<1>1. \A b : NewAccounts(b)' = NewAccounts(b) /\ NewTransactions(b)' = NewTransactions(b)
  BY DEF NewAccounts, NewTransactions
<1>2. Snapshot' /\ Whole' /\ ReferentialIntegrity'
  BY <1>1 DEF Snapshot, Whole, ReferentialIntegrity
<1>3. Bank' = Bank
  BY DEF Bank
<1>4. Control'
  BY <1>3, InCall DEF Control, AtBank
<1>5. Progress'
  <2>1. ~Returned' /\ (Refused' => outcome'.kind = "conflict")
    BY DEF Returned, Refused
  <2>2. QED
    BY <1>1, <1>3, <2>1, InCall DEF Progress
<1>6. Past' /\ Ended'
  BY <1>1, <1>3 DEF Past, Passed, Ended
<1>7. QED
  BY <1>2, <1>4, <1>5, <1>6

LEMMA StatementFailsKeepsCore ==
    ASSUME Core, StatementFails
    PROVE  Core'
<1>1. /\ connection = "in_transaction" /\ connection' = "idle" /\ outcome'.kind = "storage_error"
      /\ UNCHANGED <<tables, runVars, historyVars>>
  BY DEF StatementFails, Store!StorageError, Store!RollbackAndRaise, Store!Finish, Store!Outcome
<1>2. QED
  BY <1>1, RollbackKeepsCore

(* No identifier is twice in an extract, so the row in the way of a record *)
(* is not one this transaction has written, and as the bank had gained     *)
(* nothing in that table, it was there when the run started.               *)
LEMMA ConflictIsWithOldRows ==
    ASSUME Landing!IInv, Core, Landing!RaiseConflict
    PROVE  OpposedBy(rowsAtStart[call.table], call.batch)
<1> DEFINE t == call.table
           batch == call.batch
           k == batch[position].id
<1>1. connection = "in_transaction" /\ position <= Len(batch)
  BY DEF Landing!RaiseConflict, Landing!Inserting
<1>2. view[t][k] # Absent /\ view[t][k] # batch[position].content
  BY DEF Landing!RaiseConflict, Landing!Existing, Landing!Differs, Landing!Current
<1>3. call \in Landing!Calls /\ position \in 1..Len(batch)
  BY <1>1 DEF Landing!IInv, Landing!LandingInv, Landing!PrefixApplied
<1>4. t \in Landing!Tables /\ batch \in Landing!Batches
  BY <1>3 DEF Landing!Calls
<1>5. DOMAIN batch = 1..Len(batch) /\ k \in AccountIds \cup TransactionIds
  BY <1>3, <1>4, StoreAssumptions, Landing!BatchType
<1>6. tables[t][k] # Absent
  <2>1. SUFFICES ASSUME tables[t][k] = Absent
                 PROVE  FALSE
    OBVIOUS
  <2>2. k \in Landing!Added
    BY <1>2, <1>5, <2>1 DEF Landing!Added
  <2>3. PICK i \in 1..(position - 1) : batch[i].id = k
    BY <1>1, <2>2 DEF Landing!IInv, Landing!LandingInv, Landing!PrefixApplied
  <2>4. Distinct(batch)
    BY <1>1, InCall DEF IsExtract
  <2>5. i \in DOMAIN batch /\ i # position
    BY <1>3, <1>5
  <2>6. QED
    BY <1>3, <1>5, <2>3, <2>4, <2>5 DEF Distinct
<1>7. tables[t][k] = view[t][k]
  BY <1>1, <1>5, <1>6 DEF Landing!IInv, Landing!LandingInv, Landing!PrefixApplied
<1>8. rowsAtStart[t][k] # Absent
  <2>1. CASE stage = "landing_accounts"
    <3>1. t = "accounts" /\ batch = extract.accounts /\ k \in ToSet(AccountsOf[Bank])
      BY <1>1, <1>3, <1>5, <2>1, InCall DEF IsExtract
    <3>2. NewAccounts(Bank) = {}
      BY <1>1, <2>1, InCall
    <3>3. QED
      BY <1>6, <3>1, <3>2 DEF NewAccounts, GainedIn
  <2>2. CASE stage = "landing_transactions"
    <3>1. t = "transactions" /\ batch = extract.transactions /\ k \in TransactionsOf[Bank]
      BY <1>1, <1>3, <1>5, <2>2, InCall DEF IsExtract
    <3>2. NewTransactions(Bank) = {}
      BY <1>1, <2>2, InCall
    <3>3. QED
      BY <1>6, <3>1, <3>2 DEF NewTransactions, GainedIn
  <2>3. QED
    BY <1>1, <2>1, <2>2, InCall
<1>9. rowsAtStart[t][k] = tables[t][k]
  BY <1>4, <1>5, <1>8 DEF Core, Snapshot, Landing!Tables
<1>10. QED
  BY <1>2, <1>3, <1>5, <1>7, <1>8, <1>9 DEF OpposedBy

LEMMA RaiseConflictKeepsCore ==
    ASSUME Landing!IInv, Core, Landing!RaiseConflict, UNCHANGED <<runVars, historyVars>>
    PROVE  Core'
<1>1. /\ connection = "in_transaction" /\ connection' = "idle" /\ outcome'.kind = "conflict"
      /\ UNCHANGED <<tables, runVars, historyVars>>
  BY DEF Landing!RaiseConflict, Landing!RollbackAndRaise, Landing!Finish, Landing!Outcome
<1>2. /\ stage = "landing_accounts" => OpposedBy(rowsAtStart["accounts"], extract.accounts)
      /\ stage = "landing_transactions" =>
            OpposedBy(rowsAtStart["transactions"], extract.transactions)
  BY <1>1, ConflictIsWithOldRows, InCall
<1>3. QED
  BY <1>1, <1>2, RollbackKeepsCore

-----------------------------------------------------------------------------
(* The commit of a batch *)

Fresh(before, rows) == GainedIn(before, rows, AccountIds \cup TransactionIds)

LEMMA CommitFacts ==
    ASSUME Landing!IInv, Landing!Commit
    PROVE  /\ call.table \in Landing!Tables /\ call.batch \in Landing!Batches
           /\ connection = "in_transaction" /\ connection' = "idle" /\ outcome'.kind = "loaded"
           /\ \A s \in Landing!Tables \ {call.table} : tables'[s] = tables[s]
           /\ LandedIn(tables'[call.table], call.batch)
           /\ \A k \in Fresh(tables[call.table], tables'[call.table]) :
                 \E i \in DOMAIN call.batch : call.batch[i].id = k
           /\ outcome'.count = Cardinality(Fresh(tables[call.table], tables'[call.table]))
<1> DEFINE t == call.table
           batch == call.batch
<1>1. /\ connection = "in_transaction" /\ position > Len(batch)
      /\ tables' = view /\ connection' = "idle"
      /\ outcome'.kind = "loaded" /\ outcome'.count = insertedCount
  BY DEF Landing!Commit, Landing!Finish, Landing!Outcome
<1>2. Landing!PrefixApplied
  BY DEF Landing!IInv, Landing!LandingInv
<1>3. call \in Landing!Calls /\ position \in 1..(Len(batch) + 1)
  BY <1>1, <1>2 DEF Landing!PrefixApplied
<1>4. t \in Landing!Tables /\ batch \in Landing!Batches
  BY <1>3 DEF Landing!Calls
<1>5. DOMAIN batch = 1..Len(batch) /\ Len(batch) \in Nat
  BY <1>4, StoreAssumptions, Landing!BatchType DEF Landing!BatchAssumption
<1>6. 1..(position - 1) = DOMAIN batch
  BY <1>1, <1>3, <1>5
<1>7. LandedIn(tables'[t], batch)
  BY <1>1, <1>2, <1>6 DEF Landing!PrefixApplied, LandedIn
<1>8. Fresh(tables[t], tables'[t]) = Landing!Added
  BY <1>1 DEF Fresh, GainedIn, Landing!Added
<1>9. \A k \in Landing!Added : \E i \in DOMAIN batch : batch[i].id = k
  BY <1>1, <1>2, <1>6 DEF Landing!PrefixApplied
<1>10. insertedCount = Cardinality(Landing!Added)
  <2>1. insertedCount = Landing!Cardinality(Landing!Added)
    BY <1>1, <1>2 DEF Landing!PrefixApplied
  <2>2. Landing!Cardinality(Landing!Added) = Cardinality(Landing!Added)
    BY DEF Cardinality, Landing!Cardinality
  <2>3. QED
    BY <2>1, <2>2
<1>11. \A s \in Landing!Tables \ {t} : tables'[s] = tables[s]
  BY <1>1, <1>2 DEF Landing!PrefixApplied
<1>12. QED
  BY <1>1, <1>4, <1>7, <1>8, <1>9, <1>10, <1>11

LEMMA LandedStays ==
    ASSUME RunInv, [Next]_vars, NEW t \in {"accounts", "transactions"},
           NEW batch \in Landing!Batches, LandedIn(tables[t], batch)
    PROVE  LandedIn(tables'[t], batch)
<1>1. ASSUME NEW i \in DOMAIN batch
      PROVE  batch[i].id \in AccountIds \cup TransactionIds /\ batch[i].content # Absent
  <2>1. batch[i].id \in AccountIds \cup TransactionIds /\ batch[i].content \in RecordContents
    BY StoreAssumptions, Landing!BatchType
  <2>2. QED
    BY <2>1, RecordsAssumption
<1>2. QED
  BY <1>1, StoreKeeps DEF LandedIn

LEMMA BanksAreDisjoint ==
    /\ \A b \in Banks :
          ToSet(AccountsOf[b]) \subseteq AccountIds /\ TransactionsOf[b] \subseteq TransactionIds
    /\ \A b \in Banks, c \in Banks :
          b # c => /\ ToSet(AccountsOf[b]) \cap ToSet(AccountsOf[c]) = {}
                   /\ TransactionsOf[b] \cap TransactionsOf[c] = {}
<1>1. ASSUME NEW b \in Banks
      PROVE  ToSet(AccountsOf[b]) \subseteq AccountIds /\ TransactionsOf[b] \subseteq TransactionIds
  BY DEF AccountIds, TransactionIds
<1>2. ASSUME NEW b \in Banks, NEW c \in Banks, b # c
      PROVE  /\ ToSet(AccountsOf[b]) \cap ToSet(AccountsOf[c]) = {}
             /\ TransactionsOf[b] \cap TransactionsOf[c] = {}
  <2>1. c \in Banks \ {b}
    BY <1>2
  <2>2. QED
    BY <2>1, BanksAssumption
<1>3. QED
  BY <1>1, <1>2

(* What a bank gains by a commit are the rows that are new in its table. *)
LEMMA GainOfCommit ==
    ASSUME Core, Landing!IInv, Landing!Commit,
           NEW mine \in SUBSET (AccountIds \cup TransactionIds),
           GainedIn(rowsAtStart[call.table], tables[call.table], mine) = {},
           \A i \in DOMAIN call.batch : call.batch[i].id \in mine,
           \A k \in AccountIds \cup TransactionIds :
              tables[call.table][k] # Absent => tables'[call.table][k] = tables[call.table][k]
    PROVE  /\ outcome'.count =
                 Cardinality(GainedIn(rowsAtStart[call.table], tables'[call.table], mine))
           /\ \A others \in SUBSET (AccountIds \cup TransactionIds) :
                 mine \cap others = {} =>
                    GainedIn(rowsAtStart[call.table], tables'[call.table], others)
                       = GainedIn(rowsAtStart[call.table], tables[call.table], others)
<1> DEFINE t == call.table
           old == rowsAtStart[t]
           rows == tables[t]
           new == tables'[t]
<1>1. /\ t \in {"accounts", "transactions"}
      /\ outcome'.count = Cardinality(Fresh(rows, new))
      /\ \A k \in Fresh(rows, new) : k \in mine
  BY CommitFacts DEF Landing!Tables
<1>2. \A k \in AccountIds \cup TransactionIds : old[k] # Absent => rows[k] = old[k]
  BY <1>1 DEF Core, Snapshot
<1>3. Fresh(rows, new) = GainedIn(old, new, mine)
  BY <1>1, <1>2 DEF Fresh, GainedIn
<1>4. ASSUME NEW others \in SUBSET (AccountIds \cup TransactionIds), mine \cap others = {}
      PROVE  GainedIn(old, new, others) = GainedIn(old, rows, others)
  <2>1. \A k \in others : new[k] = Absent <=> rows[k] = Absent
    BY <1>1, <1>4 DEF Fresh, GainedIn
  <2>2. QED
    BY <2>1 DEF GainedIn
<1>5. QED
  BY <1>1, <1>3, <1>4

(* A commit shows in one table, and there only as gains of the bank. *)
LEMMA CommitOfAccounts ==
    ASSUME RunInv, [Next]_vars, Landing!Commit, UNCHANGED <<runVars, historyVars>>,
           stage = "landing_accounts"
    PROVE  /\ call.batch = extract.accounts
           /\ tables'["transactions"] = tables["transactions"]
           /\ LandedIn(tables'["accounts"], extract.accounts)
           /\ outcome'.count = Cardinality(NewAccounts(Bank)')
           /\ \A b \in Banks : NewTransactions(b)' = NewTransactions(b)
           /\ \A b \in Banks \ {Bank} : NewAccounts(b)' = NewAccounts(b)
<1>1. Core /\ Landing!IInv
  BY DEF RunInv, Core
<1>2. connection = "in_transaction"
  BY <1>1, CommitFacts
<1>3. /\ call.table = "accounts" /\ call.batch = extract.accounts /\ Bank \in Banks
      /\ NewAccounts(Bank) = {} /\ IsExtract(Bank, extract)
  BY <1>1, <1>2, InCall
<1>4. /\ tables'["transactions"] = tables["transactions"]
      /\ LandedIn(tables'["accounts"], extract.accounts)
  BY <1>1, <1>3, CommitFacts DEF Landing!Tables
<1>5. rowsAtStart' = rowsAtStart /\ Bank' = Bank
  BY DEF runVars, historyVars, Bank
<1>6. /\ GainedIn(rowsAtStart[call.table], tables[call.table], ToSet(AccountsOf[Bank])) = {}
      /\ \A i \in DOMAIN call.batch : call.batch[i].id \in ToSet(AccountsOf[Bank])
      /\ ToSet(AccountsOf[Bank]) \in SUBSET (AccountIds \cup TransactionIds)
  BY <1>3, BanksAreDisjoint DEF NewAccounts, IsExtract
<1>7. \A k \in AccountIds \cup TransactionIds :
         tables[call.table][k] # Absent => tables'[call.table][k] = tables[call.table][k]
  BY <1>3, StoreKeeps
<1>8. /\ outcome'.count = Cardinality(GainedIn(rowsAtStart["accounts"], tables'["accounts"],
                                               ToSet(AccountsOf[Bank])))
      /\ \A others \in SUBSET (AccountIds \cup TransactionIds) :
            ToSet(AccountsOf[Bank]) \cap others = {} =>
               GainedIn(rowsAtStart["accounts"], tables'["accounts"], others)
                  = GainedIn(rowsAtStart["accounts"], tables["accounts"], others)
  BY <1>1, <1>3, <1>6, <1>7, GainOfCommit
<1>9. ASSUME NEW b \in Banks \ {Bank}
      PROVE  NewAccounts(b)' = NewAccounts(b)
  <2>1. /\ ToSet(AccountsOf[Bank]) \cap ToSet(AccountsOf[b]) = {}
        /\ ToSet(AccountsOf[b]) \in SUBSET (AccountIds \cup TransactionIds)
    BY <1>3, BanksAreDisjoint
  <2>2. QED
    BY <1>5, <1>8, <2>1 DEF NewAccounts
<1>10. \A b \in Banks : NewTransactions(b)' = NewTransactions(b)
  BY <1>4, <1>5 DEF NewTransactions
<1>11. outcome'.count = Cardinality(NewAccounts(Bank)')
  BY <1>5, <1>8 DEF NewAccounts
<1>12. QED
  BY <1>3, <1>4, <1>9, <1>10, <1>11

LEMMA CommitOfTransactions ==
    ASSUME RunInv, [Next]_vars, Landing!Commit, UNCHANGED <<runVars, historyVars>>,
           stage = "landing_transactions"
    PROVE  /\ call.batch = extract.transactions
           /\ tables'["accounts"] = tables["accounts"]
           /\ LandedIn(tables'["transactions"], extract.transactions)
           /\ outcome'.count = Cardinality(NewTransactions(Bank)')
           /\ \A b \in Banks : NewAccounts(b)' = NewAccounts(b)
           /\ \A b \in Banks \ {Bank} : NewTransactions(b)' = NewTransactions(b)
           /\ \A x \in Fresh(tables["transactions"], tables'["transactions"]) :
                 x \in TransactionsOf[Bank]
<1>1. Core /\ Landing!IInv
  BY DEF RunInv, Core
<1>2. connection = "in_transaction"
  BY <1>1, CommitFacts
<1>3. /\ call.table = "transactions" /\ call.batch = extract.transactions /\ Bank \in Banks
      /\ NewTransactions(Bank) = {} /\ IsExtract(Bank, extract)
  BY <1>1, <1>2, InCall
<1>4. /\ tables'["accounts"] = tables["accounts"]
      /\ LandedIn(tables'["transactions"], extract.transactions)
      /\ \A x \in Fresh(tables["transactions"], tables'["transactions"]) :
            \E i \in DOMAIN extract.transactions : extract.transactions[i].id = x
  BY <1>1, <1>3, CommitFacts DEF Landing!Tables
<1>5. rowsAtStart' = rowsAtStart /\ Bank' = Bank
  BY DEF runVars, historyVars, Bank
<1>6. /\ GainedIn(rowsAtStart[call.table], tables[call.table], TransactionsOf[Bank]) = {}
      /\ \A i \in DOMAIN call.batch : call.batch[i].id \in TransactionsOf[Bank]
      /\ TransactionsOf[Bank] \in SUBSET (AccountIds \cup TransactionIds)
  BY <1>3, BanksAreDisjoint DEF NewTransactions, IsExtract
<1>7. \A k \in AccountIds \cup TransactionIds :
         tables[call.table][k] # Absent => tables'[call.table][k] = tables[call.table][k]
  BY <1>3, StoreKeeps
<1>8. /\ outcome'.count = Cardinality(GainedIn(rowsAtStart["transactions"],
                                               tables'["transactions"], TransactionsOf[Bank]))
      /\ \A others \in SUBSET (AccountIds \cup TransactionIds) :
            TransactionsOf[Bank] \cap others = {} =>
               GainedIn(rowsAtStart["transactions"], tables'["transactions"], others)
                  = GainedIn(rowsAtStart["transactions"], tables["transactions"], others)
  BY <1>1, <1>3, <1>6, <1>7, GainOfCommit
<1>9. ASSUME NEW b \in Banks \ {Bank}
      PROVE  NewTransactions(b)' = NewTransactions(b)
  <2>1. /\ TransactionsOf[Bank] \cap TransactionsOf[b] = {}
        /\ TransactionsOf[b] \in SUBSET (AccountIds \cup TransactionIds)
    BY <1>3, BanksAreDisjoint
  <2>2. QED
    BY <1>5, <1>8, <2>1 DEF NewTransactions
<1>10. \A b \in Banks : NewAccounts(b)' = NewAccounts(b)
  BY <1>4, <1>5 DEF NewAccounts
<1>11. outcome'.count = Cardinality(NewTransactions(Bank)')
  BY <1>5, <1>8 DEF NewTransactions
<1>12. \A x \in Fresh(tables["transactions"], tables'["transactions"]) : x \in TransactionsOf[Bank]
  BY <1>3, <1>4 DEF IsExtract
<1>13. QED
  BY <1>3, <1>4, <1>9, <1>10, <1>11, <1>12

LEMMA CommitKeepsCore ==
    ASSUME RunInv, [Next]_vars, Landing!Commit, UNCHANGED <<runVars, historyVars>>
    PROVE  Core'
<1> DEFINE accounts(b) == extracted[b].accounts
           transactions(b) == extracted[b].transactions
<1>1. Core /\ Landing!IInv
  BY DEF RunInv, Core
<1>2. /\ connection = "in_transaction" /\ connection' = "idle" /\ outcome'.kind = "loaded"
      /\ Returned' /\ ~Refused'
  BY <1>1, CommitFacts DEF Returned, Refused
<1>3. /\ stage \in {"landing_accounts", "landing_transactions"}
      /\ bankIndex \in 1..BankCount /\ Bank \in Banks
      /\ IsExtract(Bank, extract) /\ extracted[Bank] = extract
  BY <1>1, <1>2, InCall
<1>4. UNCHANGED <<stage, bankIndex, extract, accountsLoaded, results, exit, raised, rowsAtStart,
                  extracted, Bank>>
  BY DEF runVars, historyVars, Bank
<1>5. ASSUME NEW i \in 1..BankCount, i # bankIndex
      PROVE  BankOrder[i] \in Banks \ {Bank}
  BY <1>3, <1>5, BankFacts DEF Bank
<1>6. ASSUME NEW b \in Banks \ {Bank}
      PROVE  NewAccounts(b)' = NewAccounts(b) /\ NewTransactions(b)' = NewTransactions(b)
  BY <1>3, CommitOfAccounts, CommitOfTransactions
<1>7. ASSUME NEW b \in Banks
      PROVE  /\ LandedIn(tables["accounts"], accounts(b)) =>
                   LandedIn(tables'["accounts"], accounts(b))
             /\ LandedIn(tables["transactions"], transactions(b)) =>
                   LandedIn(tables'["transactions"], transactions(b))
  <2>1. accounts(b) \in Landing!Batches /\ transactions(b) \in Landing!Batches
    BY <1>1 DEF Core, Control
  <2>2. QED
    BY <2>1, LandedStays
<1>8. Snapshot'
  BY <1>1, <1>4, StoreKeeps DEF Core, Snapshot
<1>9. Control'
  BY <1>1, <1>2, <1>3, <1>4 DEF Core, Control, AtBank
<1>10. Progress'
  <2>1. ASSUME NEW i \in 1..BankCount, i > bankIndex
        PROVE  /\ NewAccounts(BankOrder[i])' = {} /\ NewTransactions(BankOrder[i])' = {}
               /\ extracted'[BankOrder[i]] = NoExtract
    <3>1. BankOrder[i] \in Banks \ {Bank}
      BY <1>3, <1>5, <2>1, BankFacts
    <3>2. QED
      BY <1>1, <1>4, <1>6, <2>1, <3>1 DEF Core, Progress
  <2>2. CASE stage = "landing_accounts"
    <3>1. /\ NewTransactions(Bank)' = {} /\ LandedIn(tables'["accounts"], extract.accounts)
          /\ outcome'.count = Cardinality(NewAccounts(Bank)')
      BY <1>1, <1>2, <1>3, <1>4, <2>2, InCall, CommitOfAccounts
    <3>2. QED
      BY <1>2, <1>4, <2>1, <2>2, <3>1 DEF Progress
  <2>3. CASE stage = "landing_transactions"
    <3>1. /\ LandedIn(tables'["transactions"], extract.transactions)
          /\ outcome'.count = Cardinality(NewTransactions(Bank)')
          /\ tables'["accounts"] = tables["accounts"] /\ NewAccounts(Bank)' = NewAccounts(Bank)
      BY <1>3, <1>4, <2>3, CommitOfTransactions
    <3>2. LandedIn(tables["accounts"], extract.accounts)
          /\ accountsLoaded = Cardinality(NewAccounts(Bank))
      BY <1>1, <1>2, <2>3, InCall
    <3>3. QED
      BY <1>2, <1>4, <2>1, <2>3, <3>1, <3>2 DEF Progress
  <2>4. QED
    BY <1>3, <2>2, <2>3
<1>11. Past'
  <2>1. ASSUME NEW i \in 1..(bankIndex - 1)
        PROVE  Passed(i)'
    <3>1. BankOrder[i] \in Banks \ {Bank}
      BY <1>3, <1>5, BankFacts
    <3>2. Passed(i)
      BY <1>1 DEF Core, Past
    <3>3. QED
      BY <1>4, <1>6, <1>7, <3>1, <3>2 DEF Passed
  <2>2. QED
    BY <1>1, <1>4, <2>1 DEF Core, Past
<1>12. Ended'
  BY <1>1, <1>3, <1>4 DEF Core, Ended, Exits, Errors
<1>13. Whole'
  <2>1. ASSUME NEW b \in Banks \ {Bank}
        PROVE  /\ NewTransactions(b)' # {} =>
                     /\ LandedIn(tables'["transactions"], transactions(b))
                     /\ LandedIn(tables'["accounts"], accounts(b))
               /\ NewAccounts(b)' # {} => LandedIn(tables'["accounts"], accounts(b))
    BY <1>1, <1>6, <1>7 DEF Core, Whole
  <2>2. /\ NewTransactions(Bank)' # {} =>
              /\ LandedIn(tables'["transactions"], transactions(Bank))
              /\ LandedIn(tables'["accounts"], accounts(Bank))
        /\ NewAccounts(Bank)' # {} => LandedIn(tables'["accounts"], accounts(Bank))
    <3>1. CASE stage = "landing_accounts"
      BY <1>1, <1>2, <1>3, <1>4, <3>1, InCall, CommitOfAccounts
    <3>2. CASE stage = "landing_transactions"
      BY <1>1, <1>2, <1>3, <1>4, <3>2, InCall, CommitOfTransactions
    <3>3. QED
      BY <1>3, <3>1, <3>2
  <2>3. QED
    BY <1>4, <2>1, <2>2 DEF Whole
<1>14. ReferentialIntegrity'
  <2>1. SUFFICES ASSUME NEW x \in TransactionIds, tables'["transactions"][x] # Absent
                 PROVE  tables'["accounts"][AccountOf[x]] # Absent
    BY DEF ReferentialIntegrity
  <2>2. AccountOf[x] \in AccountIds
    BY BanksAssumption, BanksAreDisjoint DEF TransactionIds
  <2>3. CASE tables["transactions"][x] # Absent
    <3>1. tables["accounts"][AccountOf[x]] # Absent
      BY <1>1, <2>3 DEF Core, ReferentialIntegrity
    <3>2. QED
      BY <2>2, <3>1, StoreKeeps
  <2>4. CASE tables["transactions"][x] = Absent
    <3>1. stage = "landing_transactions"
      BY <1>3, <2>1, <2>4, CommitOfAccounts
    <3>2. x \in TransactionsOf[Bank]
      BY <2>1, <2>4, <3>1, CommitOfTransactions DEF Fresh, GainedIn, TransactionIds
    <3>3. AccountOf[x] \in ToSet(AccountsOf[Bank])
      BY <1>3, <3>2, BanksAssumption
    <3>4. PICK i \in DOMAIN extract.accounts : extract.accounts[i].id = AccountOf[x]
      BY <1>3, <3>3 DEF IsExtract
    <3>5. /\ LandedIn(tables["accounts"], extract.accounts)
          /\ tables'["accounts"] = tables["accounts"]
      BY <1>1, <1>2, <3>1, InCall, CommitOfTransactions
    <3>6. extract.accounts[i].content # Absent
      <4>1. extract.accounts \in Landing!Batches
        BY <1>3 DEF IsExtract, Landing!AccountBatches
      <4>2. extract.accounts[i].content \in RecordContents
        BY <4>1, StoreAssumptions, Landing!BatchType
      <4>3. QED
        BY <4>2, RecordsAssumption
    <3>7. QED
      BY <3>4, <3>5, <3>6 DEF LandedIn
  <2>5. QED
    BY <2>3, <2>4
<1>15. QED
  BY <1>8, <1>9, <1>10, <1>11, <1>12, <1>13, <1>14 DEF Core

-----------------------------------------------------------------------------
(* The invariant holds *)

LEMMA StoreStepKeepsCore ==
    ASSUME RunInv, [Next]_vars, StoreStep
    PROVE  Core'
<1>1. Core /\ Landing!IInv /\ UNCHANGED <<runVars, historyVars>>
  BY DEF RunInv, Core, StoreStep
<1>2. CASE Store!InsertRow \/ Store!SkipReplay
  BY <1>1, <1>2, StillKeepsCore DEF Store!InsertRow, Store!SkipReplay
<1>3. CASE Store!RaiseConflict
  BY <1>1, <1>3, StoreStepIs, RaiseConflictKeepsCore
<1>4. CASE Store!Commit
  BY <1>1, <1>4, StoreStepIs, CommitKeepsCore
<1>5. QED
  BY <1>2, <1>3, <1>4 DEF StoreStep

(* The bank, its rules and its service change; the run does not notice. *)
Outside ==
    \/ \E x \in TransactionIds : \E v \in Reportable[x] \cup {Unreported} : Report(x, v)
    \/ \E a \in AccountIds, n \in Names : Rename(a, n)
    \/ \E b \in Banks, s \in Services : ChangeService(b, s)
    \/ \E r \in Rules : ReleaseRules(r)

LEMMA OutsideFacts ==
    ASSUME Outside
    PROVE  UNCHANGED <<storeVars, runVars, historyVars>>
  BY DEF Outside, Report, Rename, ChangeService, ReleaseRules

LEMMA NextKeepsWorldTypes ==
    ASSUME WorldTypes, [Next]_vars
    PROVE  WorldTypes'
<1>1. CASE Spend
  <2>1. budget' \in 0..Budget
    BY <1>1, RecordsAssumption DEF Spend, WorldTypes
  <2>2. CASE \E x \in TransactionIds : \E v \in Reportable[x] \cup {Unreported} : Report(x, v)
    BY <2>1, <2>2 DEF Report, WorldTypes
  <2>3. QED
    BY <1>1, <2>1, <2>2
       DEF Next, vars, worldVars, World, WorldTypes, StartRun, Run, StatementFails, Kill,
           Rename, ChangeService, ReleaseRules, ExtractFails, ExtractSucceeds, ExtractRaises,
           LandAccounts, LandTransactions, RecordResult, Abort, FinishRun, StoreStep
<1>2. CASE UNCHANGED worldVars
  BY <1>2 DEF worldVars, WorldTypes
<1>3. QED
  BY <1>1, <1>2
     DEF Next, vars, World, StartRun, Run, StatementFails, Kill, Report, Rename, ChangeService,
         ReleaseRules, ExtractFails, ExtractSucceeds, ExtractRaises, LandAccounts,
         LandTransactions, RecordResult, Abort, FinishRun, StoreStep

LEMMA NextKeepsCore ==
    ASSUME RunInv, [Next]_vars
    PROVE  Core'
<1>1. Core /\ Landing!IInv /\ WorldTypes
  BY DEF RunInv, Core
<1>2. CASE UNCHANGED vars
  BY <1>1, <1>2, StillKeepsCore DEF vars, storeVars
<1>3. CASE StartRun
  BY <1>1, <1>3, StartRunKeepsCore
<1>4. CASE ExtractFails
  BY <1>1, <1>4, ExtractFailsKeepsCore
<1>5. CASE ExtractSucceeds
  BY <1>1, <1>5, ExtractSucceedsKeepsCore
<1>6. CASE ExtractRaises
  BY <1>1, <1>6, ExtractRaisesKeepsCore
<1>7. CASE LandAccounts
  BY <1>1, <1>7, LandAccountsKeepsCore
<1>8. CASE LandTransactions
  BY <1>1, <1>8, LandTransactionsKeepsCore
<1>9. CASE RecordResult
  BY <1>1, <1>9, RecordResultKeepsCore
<1>10. CASE Abort
  BY <1>1, <1>10, AbortKeepsCore
<1>11. CASE FinishRun
  BY <1>1, <1>11, FinishRunKeepsCore
<1>12. CASE StoreStep
  BY <1>12, StoreStepKeepsCore
<1>13. CASE StatementFails
  BY <1>1, <1>13, StatementFailsKeepsCore
<1>14. CASE Kill
  BY <1>1, <1>14, KillKeepsCore
<1>15. CASE Outside
  BY <1>1, <1>15, OutsideFacts, StillKeepsCore DEF storeVars
<1>16. QED
  BY <1>2, <1>3, <1>4, <1>5, <1>6, <1>7, <1>8, <1>9, <1>10, <1>11, <1>12, <1>13, <1>14, <1>15
     DEF Next, Run, World, Outside

LEMMA InitRunInv == Init => RunInv
<1> SUFFICES ASSUME Init
             PROVE  RunInv
  OBVIOUS
<1>1. /\ tables = Store!EmptyTables /\ connection = "closed" /\ stage = "idle" /\ bankIndex = 1
      /\ results = <<>> /\ exit = "none" /\ raised = "nothing" /\ accountsLoaded = 0 /\ rowsAtStart = tables
      /\ extracted = [b \in Banks |-> NoExtract]
  BY DEF Init, Store!Init
<1>2. Landing!IInv
  <2>1. Landing!Init
    BY DEF Init, Store!Init, Store!EmptyTables, Store!Tables, Store!NoCall, Store!NoOutcome,
           Store!Outcome, Landing!Init, Landing!EmptyTables, Landing!Tables, Landing!NoCall,
           Landing!NoOutcome, Landing!Outcome
  <2>2. QED
    BY <2>1, StoreAssumptions, Landing!InitIInv
<1>3. WorldTypes
  BY RecordsAssumption DEF Init, WorldTypes, Services
<1>4. \A b : NewAccounts(b) = {} /\ NewTransactions(b) = {}
  BY <1>1, NothingGained DEF NewAccounts, NewTransactions
<1>5. Snapshot /\ Whole
  BY <1>1, <1>4 DEF Snapshot, Whole
<1>6. ReferentialIntegrity
  BY <1>1 DEF ReferentialIntegrity, Store!EmptyTables, Store!Tables
<1>7. Control
  BY <1>1, BankFacts, NothingGained DEF Control, Stages, AtBank, NoExtract
<1>8. Progress
  BY <1>1, <1>4, BankFacts DEF Progress
<1>9. Past
  BY <1>1, StoreAssumptions DEF Past, Landing!BatchAssumption
<1>10. Ended
  BY <1>1 DEF Ended, Exits, Errors
<1>11. QED
  BY <1>2, <1>3, <1>5, <1>6, <1>7, <1>8, <1>9, <1>10 DEF RunInv

LEMMA NextKeepsRunInv == RunInv /\ [Next]_vars => RunInv'
<1> SUFFICES ASSUME RunInv, [Next]_vars
             PROVE  RunInv'
  OBVIOUS
<1>1. WorldTypes'
  BY NextKeepsWorldTypes DEF RunInv
<1>2. QED
  BY <1>1, StoreKeeps, NextKeepsCore DEF RunInv, Core

LEMMA RunInvariant == Spec => []RunInv
  BY InitRunInv, NextKeepsRunInv, PTL DEF Spec

-----------------------------------------------------------------------------
(* What the invariant says of the properties *)

LEMMA PassedBanks ==
    ASSUME RunInv
    PROVE  /\ bankIndex \in 1..(BankCount + 1) /\ BankCount \in Nat
           /\ Len(results) = bankIndex - 1 /\ DOMAIN results = 1..(bankIndex - 1)
           /\ \A i \in DOMAIN results : Passed(i) /\ BankOrder[i] \in Banks
<1>1. /\ bankIndex \in 1..(BankCount + 1) /\ BankCount \in Nat
      /\ Len(results) = bankIndex - 1 /\ results \in Seq(BankResults)
  BY BankFacts DEF RunInv, Control, Past
<1>2. DOMAIN results = 1..(bankIndex - 1)
  BY <1>1
<1>3. ASSUME NEW i \in DOMAIN results
      PROVE  Passed(i) /\ BankOrder[i] \in Banks
  <2>1. i \in 1..(bankIndex - 1) /\ i \in 1..BankCount
    BY <1>1, <1>2
  <2>2. QED
    BY <2>1, BankFacts DEF RunInv, Past
<1>4. QED
  BY <1>1, <1>2, <1>3

LEMMA SameMeaning ==
    /\ \A b : NewAccounts(b) = GainedAccounts(b) /\ NewTransactions(b) = GainedTransactions(b)
    /\ \A t, batch : LandedIn(tables[t], batch) => LandedWhole(t, batch)
    /\ \A rows, batch : OpposedBy(rows, batch) => Contradicts(rows, batch)
<1>1. \A b : NewAccounts(b) = GainedAccounts(b) /\ NewTransactions(b) = GainedTransactions(b)
  BY DEF NewAccounts, NewTransactions, GainedIn, GainedAccounts, GainedTransactions, Gained
<1>2. \A t, batch : LandedIn(tables[t], batch) => LandedWhole(t, batch)
  BY DEF LandedIn, LandedWhole, Landed, ToSet
<1>3. \A rows, batch : OpposedBy(rows, batch) => Contradicts(rows, batch)
  BY DEF OpposedBy, Contradicts, ToSet
<1>4. QED
  BY <1>1, <1>2, <1>3

(* Every variable of the run keeps its type, and the store is open exactly *)
(* while a run is going on (the with block of cli.py).                     *)
THEOREM RunTypes == Spec => []TypeOK
<1>1. ASSUME RunInv
      PROVE  TypeOK
  <2>1. outcome.kind \in Store!OutcomeKinds
    BY <1>1, StoreAssumptions
       DEF RunInv, Landing!IInv, Landing!TypeOK, Landing!OutcomeKinds, Store!OutcomeKinds
  <2>2. Len(results) <= BankCount
    BY <1>1, PassedBanks
  <2>3. QED
    BY <1>1, <2>1, <2>2 DEF RunInv, WorldTypes, Control, Past, Ended, TypeOK
<1>2. QED
  BY <1>1, RunInvariant, PTL

(* Whatever fails or is killed between the two database transactions of a  *)
(* bank, no landed transaction lacks its account (run_ingestion lands the  *)
(* accounts first).                                                        *)
THEOREM NoOrphans == Spec => []ReferentialIntegrity
<1>1. RunInv => ReferentialIntegrity
  BY DEF RunInv
<1>2. QED
  BY <1>1, RunInvariant, PTL

(* The counts a run reports for a bank are the rows that bank gained in    *)
(* this run, zero for a bank that failed.                                  *)
THEOREM ReportIsExact == Spec => []ReportExact
<1>1. ASSUME RunInv
      PROVE  ReportExact
  BY <1>1, PassedBanks, SameMeaning DEF ReportExact, Passed
<1>2. QED
  BY <1>1, RunInvariant, PTL

(* Exit status 0 says that every bank was reached and that everything the  *)
(* banks answered has landed with that content; status 1, of a failed bank *)
(* or of an exception that left main, that the run was not complete        *)
(* (exit_code_for, and the interpreter).                                   *)
THEOREM ExitCodeIsTrue == Spec => []ExitCodeMeansComplete
<1>1. ASSUME RunInv, exit \in {"ok", "failed"}
      PROVE  /\ exit = "ok" <=> Len(results) = BankCount /\ \A i \in DOMAIN results : results[i].isSuccess
             /\ \A i \in DOMAIN results :
                   results[i].isSuccess =>
                      /\ LandedWhole("accounts", extracted[BankOrder[i]].accounts)
                      /\ LandedWhole("transactions", extracted[BankOrder[i]].transactions)
  <2>1. exit = "ok" <=> bankIndex = BankCount + 1 /\ \A i \in DOMAIN results : results[i].isSuccess
    BY <1>1 DEF RunInv, Ended
  <2>2. Len(results) = BankCount <=> bankIndex = BankCount + 1
    BY <1>1, PassedBanks, BankFacts DEF RunInv, Past
  <2>3. QED
    BY <1>1, <2>1, <2>2, PassedBanks, SameMeaning DEF Passed
<1>2. RunInv => ExitCodeMeansComplete
  BY <1>1 DEF ExitCodeMeansComplete
<1>3. QED
  BY <1>2, RunInvariant, PTL

(* A run that ends in an exception has landed the earlier banks, nothing   *)
(* of the later ones, and a conflict is one with a row that was there when *)
(* the run started, never with something this run has written.             *)
THEOREM AbortStopsThere == Spec => []AbortStopsAtOneBank
<1>1. ASSUME RunInv, raised \in Errors
      PROVE  AbortStopsAtOneBank
  <2>1. Len(results) + 1 = bankIndex /\ Len(results) + 2 = bankIndex + 1
    BY <1>1, PassedBanks
  <2>2. NewTransactions(Bank) = {}
    BY <1>1 DEF RunInv, Ended
  <2>3. ASSUME NEW i \in (bankIndex + 1)..BankCount
        PROVE  NewAccounts(BankOrder[i]) \cup NewTransactions(BankOrder[i]) = {}
    <3>1. i \in 1..BankCount /\ i > bankIndex
      BY <1>1, PassedBanks
    <3>2. QED
      BY <1>1, <3>1 DEF RunInv, Progress
  <2>4. ASSUME NEW i \in DOMAIN results
        PROVE  LandedIn(tables["transactions"], extracted[BankOrder[i]].transactions)
    BY <1>1, PassedBanks, NothingGained DEF Passed, NoExtract, LandedIn, BankResults
  <2>5. raised = "conflict" =>
           \/ OpposedBy(rowsAtStart["accounts"], extracted[Bank].accounts)
           \/ OpposedBy(rowsAtStart["transactions"], extracted[Bank].transactions)
    BY <1>1 DEF RunInv, Ended
  <2>6. QED
    BY <2>1, <2>2, <2>3, <2>4, <2>5, SameMeaning DEF AbortStopsAtOneBank, Bank
<1>2. RunInv => AbortStopsAtOneBank
  BY <1>1 DEF AbortStopsAtOneBank
<1>3. QED
  BY <1>2, RunInvariant, PTL

(* Wherever a run is cut, the transactions it landed of a bank are all the *)
(* bank answered, and its accounts have landed with them.                  *)
THEOREM BanksAreWhole == Spec => []BanksLandWhole
<1>1. ASSUME RunInv
      PROVE  BanksLandWhole
  BY <1>1, SameMeaning DEF RunInv, Whole, BanksLandWhole
<1>2. QED
  BY <1>1, RunInvariant, PTL

-----------------------------------------------------------------------------
(* The runs, with all that befalls them, drive the store as LandingStore   *)
(* specifies it, so that all that is proved of the store holds of it here. *)
THEOREM RunsUseTheStore == Spec => Landing!Spec
<1>1. Init => Landing!Init
  BY DEF Init, Store!Init, Store!EmptyTables, Store!Tables, Store!NoCall, Store!NoOutcome,
         Store!Outcome, Landing!Init, Landing!EmptyTables, Landing!Tables, Landing!NoCall,
         Landing!NoOutcome, Landing!Outcome
<1>2. QED
  BY <1>1, RunInvariant, StoreMoves, PTL DEF Spec, Landing!Spec

(* No run, whatever it meets and whatever ends it, changes or removes a    *)
(* row that has landed (first write wins, across runs).                    *)
THEOREM RunsKeepLandedRows == Spec => Landing!FirstWriteWins
  BY RunsUseTheStore, StoreAssumptions, Landing!LandedRowsAreForever, PTL

(* What the runs do to the tables is what batches that land whole or leave *)
(* no trace would do, the insertion row by row and its interruptions       *)
(* included.                                                               *)
THEOREM RunsLandAtomically == Spec => Landing!ImplementsAtomicLanding
  BY RunsUseTheStore, StoreAssumptions, Landing!StoreImplementsPromise, PTL
=============================================================================
