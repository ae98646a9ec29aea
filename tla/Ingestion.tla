------------------------------ MODULE Ingestion ------------------------------
(***************************************************************************)
(* Ingestion runs (ingestion/runner.py as started by cli.py) over the      *)
(* landing store of LandingStore.tla.  A run opens the store and takes the *)
(* banks in order: extract, categorize, land the accounts in one database  *)
(* transaction, land the transactions in a second one, record the result.  *)
(* A bank whose extraction fails with a BankApiError is recorded as failed *)
(* and skipped; every other exception leaves run_ingestion, closes the     *)
(* store and leaves main, too: Python then exits with status 1, the status *)
(* that exit_code_for gives for a failed bank.                             *)
(*                                                                         *)
(* Around the runs the world moves: a bank reports new transactions,       *)
(* amends old ones or renames an account, goes out of service and comes    *)
(* back, the categorization rules are replaced between runs, the process   *)
(* is killed, a statement fails.  Each of these costs one unit of budget,  *)
(* which is the only bound: the number of runs is not bounded.             *)
(*                                                                         *)
(* Abstracted: an extract is one step that reads what the bank reports at  *)
(* that moment, retries and paging included; a transaction's content is    *)
(* the version the bank reports and the category the rules give it.        *)
(***************************************************************************)
EXTENDS Integers, Sequences, FiniteSets, SequencesExt

CONSTANTS
    BankOrder,       \* the banks, in the order of build_extractors
    AccountsOf,      \* AccountsOf[b]: the accounts bank b lists, in order
    TransactionsOf,  \* TransactionsOf[b]: the transactions b may report
    AccountOf,       \* AccountOf[x]: the account transaction x belongs to
    Names,           \* what an account's record may say
    Reportable,      \* Reportable[x]: what the bank may report of x; a single version
                     \* where the identifier is derived from the row's own content
    Overprecise,     \* the versions whose amount is out of scale
    Rounded,         \* the version the schema would keep of a version
    Category,        \* Category[r][x]: the category of x under the rules r
    FirstName,       \* every account's name when the system is first used
    FirstReport,     \* FirstReport[x]: the version reported then, or Unreported
    Budget,          \* bound on the events of the environment
    Unreported,      \* the bank does not report this transaction
    Absent           \* as in LandingStore

BankCount == Len(BankOrder)

Banks == {BankOrder[i] : i \in 1..BankCount}

AccountIds == UNION {ToSet(AccountsOf[b]) : b \in Banks}

TransactionIds == UNION {TransactionsOf[b] : b \in Banks}

Versions == UNION {Reportable[x] : x \in TransactionIds}

Rules == DOMAIN Category

Categories == {Category[r][x] : r \in Rules, x \in TransactionIds}

AccountContents == {<<"account", n>> : n \in Names}

TransactionContents == {<<"transaction", v, c>> : v \in Versions, c \in Categories}

RecordContents == AccountContents \cup TransactionContents

(* DECIMAL(18, 4) rounds an amount that has more decimal places. *)
StoredContent ==
    [c \in RecordContents |->
        IF c[1] = "transaction" THEN <<"transaction", Rounded[c[2]], c[3]>> ELSE c]

LongestBatch == Cardinality(AccountIds \cup TransactionIds)

(* Identifiers are derived from the bank and the account: no two banks     *)
(* share one, and a bank reports transactions of its own accounts only.    *)
ASSUME BanksAssumption ==
    /\ BankOrder \in Seq(Banks)
    /\ \A i, j \in DOMAIN BankOrder : BankOrder[i] = BankOrder[j] => i = j
    /\ IsFiniteSet(AccountIds \cup TransactionIds)
    /\ \A b \in Banks :
          /\ AccountsOf[b] \in Seq(AccountIds)
          /\ \A i, j \in DOMAIN AccountsOf[b] : AccountsOf[b][i] = AccountsOf[b][j] => i = j
          /\ \A x \in TransactionsOf[b] : AccountOf[x] \in ToSet(AccountsOf[b])
          /\ \A c \in Banks \ {b} :
                /\ ToSet(AccountsOf[b]) \cap ToSet(AccountsOf[c]) = {}
                /\ TransactionsOf[b] \cap TransactionsOf[c] = {}

(* The schema rounds where the scale check refuses, and nowhere else.      *)
ASSUME RecordsAssumption ==
    /\ FirstName \in Names
    /\ \A x \in TransactionIds : FirstReport[x] \in Reportable[x] \cup {Unreported}
    /\ \A v \in Versions :
          /\ v # Unreported
          /\ Rounded[v] \in Versions
          /\ v \notin Overprecise => Rounded[v] = v
    /\ Absent \notin RecordContents
    /\ Budget \in Nat

VARIABLES
    \* the landing store
    tables, view, connection, call, position, insertedCount, outcome,
    \* the run
    stage,           \* "idle" between runs, else what run_ingestion is doing
    bankIndex,       \* the bank the loop has reached
    extract,         \* the categorized extract of that bank
    accountsLoaded,  \* what insert_new_accounts returned for it
    results,         \* bank_results
    exit,            \* the exit status of the last run, as its caller sees it
    raised,          \* the exception that left main in it, or "nothing"
    \* the world
    names, reported, service, rules, budget,
    \* history: the rows when the run started, and what it extracted so far
    rowsAtStart, extracted

storeVars == <<tables, view, connection, call, position, insertedCount, outcome>>

runVars == <<stage, bankIndex, extract, accountsLoaded, results, exit, raised>>

worldVars == <<names, reported, service, rules, budget>>

historyVars == <<rowsAtStart, extracted>>

vars == <<storeVars, runVars, worldVars, historyVars>>

Store == INSTANCE LandingStore
         WITH Ids <- AccountIds \cup TransactionIds,
              Contents <- RecordContents,
              OutOfScale <- {c \in TransactionContents : c[2] \in Overprecise},
              Stored <- StoredContent,
              MaxBatch <- LongestBatch

NoExtract == [accounts |-> <<>>, transactions |-> <<>>]

Stages == {"idle", "extract", "land_accounts", "landing_accounts", "landing_transactions"}

(* "down": every attempt ends in a BankApiError.  "drifted": the bank answers *)
(* with something the adapter rejects (an unknown status, a missing field). *)
Services == {"up", "down", "drifted"}

Errors == {"extract_error", "conflict", "out_of_scale", "storage_error"}

(* "ok" is status 0 and "failed" is status 1. *)
Exits == {"none", "ok", "failed", "killed"}

Result(bank, accounts, transactions, isSuccess) ==
    [bank |-> bank, accounts |-> accounts, transactions |-> transactions,
     isSuccess |-> isSuccess]

Bank == BankOrder[bankIndex]

-----------------------------------------------------------------------------
(* What the bank reports, as the records the adapters and apply_category    *)
(* make of it.                                                             *)

AccountRecord(a) == [id |-> a, content |-> <<"account", names[a]>>]

TransactionRecord(x) ==
    [id |-> x, content |-> <<"transaction", reported[x], Category[rules][x]>>]

Reported(b) == {x \in TransactionsOf[b] : reported[x] # Unreported}

(* An extract lists the transactions in an order of the bank's choice.     *)
Extract(b, order) ==
    [accounts |-> [i \in DOMAIN AccountsOf[b] |-> AccountRecord(AccountsOf[b][i])],
     transactions |-> [i \in DOMAIN order |-> TransactionRecord(order[i])]]

Extracts(b) == {Extract(b, order) : order \in SetToSeqs(Reported(b))}

-----------------------------------------------------------------------------

Init ==
    /\ Store!Init
    /\ stage = "idle"
    /\ bankIndex = 1
    /\ extract = NoExtract
    /\ accountsLoaded = 0
    /\ results = <<>>
    /\ exit = "none"
    /\ raised = "nothing"
    /\ names = [a \in AccountIds |-> FirstName]
    /\ reported = FirstReport
    /\ service = [b \in Banks |-> "up"]
    /\ rules \in Rules
    /\ budget = Budget
    /\ rowsAtStart = tables
    /\ extracted = [b \in Banks |-> NoExtract]

(* main: open the store and enter run_ingestion. *)
StartRun ==
    /\ stage = "idle"
    /\ Store!Open
    /\ stage' = "extract"
    /\ bankIndex' = 1
    /\ results' = <<>>
    /\ exit' = "none"
    /\ raised' = "nothing"
    /\ rowsAtStart' = tables
    /\ extracted' = [b \in Banks |-> NoExtract]
    /\ UNCHANGED <<extract, accountsLoaded, worldVars>>

(* Slip: the result of a failed bank ends the loop. *)
StopAtOutage ==
    /\ stage = "extract"
    /\ bankIndex <= BankCount
    /\ service[Bank] = "down"
    /\ results' = Append(results, Result(Bank, 0, 0, FALSE))
    /\ bankIndex' = BankCount + 1
    /\ UNCHANGED <<storeVars, stage, extract, accountsLoaded, exit, raised, worldVars, historyVars>>

(* except BankApiError: the retries are used up; record the failure, continue with the next bank. *)
ExtractFails ==
    /\ stage = "extract"
    /\ bankIndex <= BankCount
    /\ service[Bank] = "down"
    /\ results' = Append(results, Result(Bank, 0, 0, FALSE))
    /\ bankIndex' = bankIndex + 1
    /\ UNCHANGED <<storeVars, stage, extract, accountsLoaded, exit, raised, worldVars, historyVars>>

ExtractSucceeds ==
    /\ stage = "extract"
    /\ bankIndex <= BankCount
    /\ service[Bank] = "up"
    /\ extract' \in Extracts(Bank)
    /\ extracted' = [extracted EXCEPT ![Bank] = extract']
    /\ stage' = "land_accounts"
    /\ UNCHANGED <<storeVars, bankIndex, accountsLoaded, results, exit, raised, worldVars, rowsAtStart>>

(* Any other exception is a bug and ends the run. *)
ExtractRaises ==
    /\ stage = "extract"
    /\ bankIndex <= BankCount
    /\ service[Bank] = "drifted"
    /\ Store!Close
    /\ stage' = "idle"
    /\ exit' = "failed"
    /\ raised' = "extract_error"
    /\ UNCHANGED <<bankIndex, extract, accountsLoaded, results, worldVars, historyVars>>

LandAccounts ==
    /\ stage = "land_accounts"
    /\ Store!InsertNewAccounts(extract.accounts)
    /\ stage' = "landing_accounts"
    /\ UNCHANGED <<bankIndex, extract, accountsLoaded, results, exit, raised, worldVars, historyVars>>

(* Slip: an error of insert_new_accounts is swallowed. *)
LandTransactionsRegardless ==
    /\ stage = "landing_accounts"
    /\ connection = "idle"
    /\ accountsLoaded' = outcome.count
    /\ \/ Store!InsertNewTransactions(extract.transactions)
       \/ Store!RefuseOutOfScale(extract.transactions)
    /\ stage' = "landing_transactions"
    /\ UNCHANGED <<bankIndex, extract, results, exit, raised, worldVars, historyVars>>

(* insert_new_accounts has returned; insert_new_transactions is called. *)
LandTransactions ==
    /\ stage = "landing_accounts"
    /\ connection = "idle"
    /\ outcome.kind = "loaded"
    /\ accountsLoaded' = outcome.count
    /\ \/ Store!InsertNewTransactions(extract.transactions)
       \/ Store!RefuseOutOfScale(extract.transactions)
    /\ stage' = "landing_transactions"
    /\ UNCHANGED <<bankIndex, extract, results, exit, raised, worldVars, historyVars>>

(* insert_new_transactions has returned: the bank's result is complete. *)
RecordResult ==
    /\ stage = "landing_transactions"
    /\ connection = "idle"
    /\ outcome.kind = "loaded"
    /\ results' = Append(results, Result(Bank, accountsLoaded, outcome.count, TRUE))
    /\ bankIndex' = bankIndex + 1
    /\ stage' = "extract"
    /\ UNCHANGED <<storeVars, extract, accountsLoaded, exit, raised, worldVars, historyVars>>

(* Slip: the store is not a context manager. *)
AbortLeavesOpen ==
    /\ stage \in {"landing_accounts", "landing_transactions"}
    /\ connection = "idle"
    /\ outcome.kind \in {"conflict", "out_of_scale", "storage_error"}
    /\ stage' = "idle"
    /\ exit' = "failed"
    /\ raised' = outcome.kind
    /\ UNCHANGED <<storeVars, bankIndex, extract, accountsLoaded, results,
                   worldVars, historyVars>>

(* The store raised: the exception leaves run_ingestion, __exit__ closes   *)
(* the store, and the exception leaves main.                               *)
Abort ==
    /\ stage \in {"landing_accounts", "landing_transactions"}
    /\ connection = "idle"
    /\ outcome.kind \in {"conflict", "out_of_scale", "storage_error"}
    /\ Store!Close
    /\ stage' = "idle"
    /\ exit' = "failed"
    /\ raised' = outcome.kind
    /\ UNCHANGED <<bankIndex, extract, accountsLoaded, results, worldVars, historyVars>>

AlwaysOk == "ok"  \* slip: the exit code ignores the failed banks

(* exit_code_for *)
ExitCode == IF \A i \in DOMAIN results : results[i].isSuccess THEN "ok" ELSE "failed"

FinishRun ==
    /\ stage = "extract"
    /\ bankIndex > BankCount
    /\ Store!Close
    /\ stage' = "idle"
    /\ exit' = ExitCode
    /\ UNCHANGED <<bankIndex, extract, accountsLoaded, results, raised, worldVars, historyVars>>

(* The rows of a batch, until the call returns or raises. *)
StoreStep ==
    /\ Store!InsertRow \/ Store!SkipReplay \/ Store!RaiseConflict \/ Store!Commit
    /\ UNCHANGED <<runVars, worldVars, historyVars>>

Run ==
    \/ ExtractFails
    \/ ExtractSucceeds
    \/ ExtractRaises
    \/ LandAccounts
    \/ LandTransactions
    \/ RecordResult
    \/ Abort
    \/ FinishRun
    \/ StoreStep

-----------------------------------------------------------------------------
(* The world *)

Spend ==
    /\ budget > 0
    /\ budget' = budget - 1

(* A statement of the open transaction fails. *)
StatementFails ==
    /\ Spend
    /\ Store!StorageError
    /\ UNCHANGED <<runVars, names, reported, service, rules, historyVars>>

(* KeyboardInterrupt or a kill: the connection dies with the process. *)
Kill ==
    /\ Spend
    /\ stage # "idle"
    /\ Store!Close
    /\ stage' = "idle"
    /\ exit' = "killed"
    /\ UNCHANGED <<bankIndex, extract, accountsLoaded, results, raised,
                   names, reported, service, rules, historyVars>>

(* A bank reports a new transaction, amends one under the same identifier  *)
(* (a pending one is booked, say), or no longer reports it.                *)
Report(x, v) ==
    /\ Spend
    /\ reported[x] # v
    /\ reported' = [reported EXCEPT ![x] = v]
    /\ UNCHANGED <<storeVars, runVars, names, service, rules, historyVars>>

Rename(a, n) ==
    /\ Spend
    /\ names[a] # n
    /\ names' = [names EXCEPT ![a] = n]
    /\ UNCHANGED <<storeVars, runVars, reported, service, rules, historyVars>>

ChangeService(b, s) ==
    /\ Spend
    /\ service[b] # s
    /\ service' = [service EXCEPT ![b] = s]
    /\ UNCHANGED <<storeVars, runVars, names, reported, rules, historyVars>>

(* A process runs the rules it was started with. *)
ReleaseRules(r) ==
    /\ Spend
    /\ stage = "idle"
    /\ rules # r
    /\ rules' = r
    /\ UNCHANGED <<storeVars, runVars, names, reported, service, historyVars>>

World ==
    \/ StatementFails
    \/ Kill
    \/ \E x \in TransactionIds : \E v \in Reportable[x] \cup {Unreported} : Report(x, v)
    \/ \E a \in AccountIds, n \in Names : Rename(a, n)
    \/ \E b \in Banks, s \in Services : ChangeService(b, s)
    \/ \E r \in Rules : ReleaseRules(r)

Next == StartRun \/ Run \/ World

(* The process runs while it lives; someone reruns the command.            *)
Fairness == WF_vars(StartRun) /\ WF_vars(Run)

Spec == Init /\ [][Next]_vars /\ Fairness

-----------------------------------------------------------------------------
(* Properties *)

(* The store's own types are Store!TypeOK, which LandingStoreProofs proves. *)
TypeOK ==
    /\ connection = "closed" <=> stage = "idle"
    /\ outcome.kind \in Store!OutcomeKinds
    /\ stage \in Stages
    /\ bankIndex \in 1..(BankCount + 1)
    /\ accountsLoaded \in 0..LongestBatch
    /\ Len(results) <= BankCount
    /\ exit \in Exits
    /\ raised \in {"nothing"} \cup Errors
    /\ service \in [Banks -> Services]
    /\ budget \in 0..Budget

Landed(record, t) == tables[t][record.id] = record.content

LandedWhole(t, batch) == \A record \in ToSet(batch) : Landed(record, t)

Gained(t, ids) == {k \in ids : rowsAtStart[t][k] = Absent /\ tables[t][k] # Absent}

GainedAccounts(b) == Gained("accounts", ToSet(AccountsOf[b]))

GainedTransactions(b) == Gained("transactions", TransactionsOf[b])

Contradicts(rows, batch) ==
    \E record \in ToSet(batch) : rows[record.id] \notin {Absent, record.content}

(* No landed transaction ever lacks its account, although the two batches  *)
(* of a bank are two database transactions and the run can die between     *)
(* them.  The tables declare no foreign key: only the order of the two     *)
(* calls in run_ingestion protects this.                                   *)
ReferentialIntegrity ==
    \A x \in TransactionIds :
        tables["transactions"][x] # Absent => tables["accounts"][AccountOf[x]] # Absent

(* The report tells the truth: a bank's counts are the rows it gained in   *)
(* this run, and a bank reported as failed gained none.                    *)
ReportExact ==
    \A i \in DOMAIN results :
        LET result == results[i]
        IN  /\ result.bank = BankOrder[i]
            /\ result.accounts = Cardinality(GainedAccounts(result.bank))
            /\ result.transactions = Cardinality(GainedTransactions(result.bank))

(* Exit status 0 means that every bank was reached and answered, and that  *)
(* all it answered in this run has landed with that very content; every    *)
(* such run has it.  Status 1 is what a failed bank and an exception that  *)
(* escaped have in common: it says that some bank is missing, and only of  *)
(* the banks with a result that is a success that they have landed.        *)
ExitCodeMeansComplete ==
    exit \in {"ok", "failed"} =>
        /\ exit = "ok" <=> Len(results) = BankCount /\ \A i \in DOMAIN results : results[i].isSuccess
        /\ \A i \in DOMAIN results :
              results[i].isSuccess =>
                  /\ LandedWhole("accounts", extracted[BankOrder[i]].accounts)
                  /\ LandedWhole("transactions", extracted[BankOrder[i]].transactions)

(* A run that ends in an exception stops at one bank: the earlier banks    *)
(* keep what they landed, the later ones gain nothing, and the bank itself *)
(* gains no transaction.  A conflict is always with rows that were there   *)
(* when the run started, never with something this run did itself.         *)
AbortStopsAtOneBank ==
    raised \in Errors =>
        LET b == BankOrder[Len(results) + 1]
        IN  /\ GainedTransactions(b) = {}
            /\ \A i \in (Len(results) + 2)..BankCount :
                  GainedAccounts(BankOrder[i]) \cup GainedTransactions(BankOrder[i]) = {}
            /\ \A i \in DOMAIN results :
                  LandedWhole("transactions", extracted[BankOrder[i]].transactions)
            /\ raised = "conflict" =>
                  \/ Contradicts(rowsAtStart["accounts"], extracted[b].accounts)
                  \/ Contradicts(rowsAtStart["transactions"], extracted[b].transactions)

(* Whenever a run is cut, each bank's transactions of that run are either  *)
(* all there or none of them is.                                           *)
BanksLandWhole ==
    \A b \in Banks :
        /\ GainedTransactions(b) # {} =>
              /\ LandedWhole("transactions", extracted[b].transactions)
              /\ LandedWhole("accounts", extracted[b].accounts)
        /\ GainedAccounts(b) # {} => LandedWhole("accounts", extracted[b].accounts)

(* What the bank reports now could land now. *)
Landable(b) ==
    /\ service[b] = "up"
    /\ \A e \in Extracts(b) :
          /\ ~Contradicts(tables["accounts"], e.accounts)
          /\ ~Contradicts(tables["transactions"], e.transactions)
          /\ ~Store!HasOutOfScale(e.transactions)

(* Failure isolation, and its limit: a bank whose records can land does    *)
(* land them, by a rerun at the latest, even while banks before it in the  *)
(* order stay down; but only if no earlier bank makes the run abort.       *)
Reachable(i) ==
    /\ Landable(BankOrder[i])
    /\ \A j \in 1..(i - 1) : service[BankOrder[j]] = "down" \/ Landable(BankOrder[j])

AllLanded(b) ==
    \A e \in Extracts(b) :
        /\ LandedWhole("accounts", e.accounts)
        /\ LandedWhole("transactions", e.transactions)

FailureIsolation ==
    \A i \in 1..BankCount : <>[]Reachable(i) => <>[]AllLanded(BankOrder[i])
=============================================================================
