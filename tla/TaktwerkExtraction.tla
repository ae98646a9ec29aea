-------------------------- MODULE TaktwerkExtraction --------------------------
(***************************************************************************)
(* Runs against taktwerk: the mock bank (mock_banks/taktwerk.py), which    *)
(* serves whole files and cuts a planned download of the export short      *)
(* without saying so; the adapter (adapters/taktwerk.py), which must tell  *)
(* a cut file from a whole one and invent identifiers for rows that have   *)
(* none; the retry loop (ingestion/retry.py); and the landing of the       *)
(* transactions, which is AtomicLanding.  Between any two steps the bank   *)
(* may publish another export, open an account or change the header.       *)
(*                                                                         *)
(* Abstracted: the characters of a line (only its width counts), the       *)
(* dates, amounts and accounts as values, and the waits.                   *)
(***************************************************************************)
EXTENDS SequencesExt, FiniteSetsExt, Integers

CONSTANTS
    Rows,          \* contents of rows: [account, text, columns]
    Malformed,     \* rows and accounts that cannot be mapped
    Exports,       \* the sequences of rows the bank may publish
    MaxRows,       \* bound on the length of an export
    FirstAccounts, \* the accounts in accounts.csv at first
    LateAccounts,  \* accounts that may be opened
    HeaderWidth,   \* characters of the header line, newline included
    NumberWidth,   \* characters of the last column, the account number
    Width(_),      \* characters of a row, newline included
    Plans,         \* the download indexes that may be planned to fail
    MaxAttempts,   \* RetryPolicy.max_attempts
    MaxChanges,    \* bound on what the bank changes
    Absent,        \* AtomicLanding: no such row
    Garbled        \* a cut account number

(* None is not a row. *)
ASSUME RowsAssumption == Absent \notin Rows

ASSUME ExportsAssumption ==
    /\ MaxRows \in Nat
    /\ \A rows \in Exports : rows \in Seq(Rows) /\ Len(rows) <= MaxRows

(* RetryPolicy.__post_init__ *)
ASSUME AttemptsAssumption == MaxAttempts \in Nat \ {0}

Columns == 9

VARIABLES
    export,        \* transactions_export.csv
    header,        \* is its header the expected one?
    accounts,      \* the numbers in accounts.csv
    planned,       \* failing_request_indexes
    downloadIndex, \* _download_index
    phase,         \* what the run does next, or how it has ended
    known,         \* the accounts the adapter has read
    attempt,       \* attempt of fetch_with_retry
    batch,         \* the transactions it has made of the export
    changes,       \* changes the bank has made
    landed, pending, response, \* AtomicLanding
    best           \* history: per row, the most copies a landed batch had

bankVars == <<export, header, accounts>>
runVars == <<planned, downloadIndex, phase, known, attempt, batch>>
storeVars == <<landed, pending, response>>
vars == <<bankVars, runVars, changes, storeVars, best>>

(* Identifiers are read as what they are derived from. *)
Identifiers == Rows \X (0..MaxRows - 1)

Store == INSTANCE AtomicLanding
    WITH Ids <- Identifiers, Contents <- Rows, OutOfScale <- {}, MaxBatch <- MaxRows

-----------------------------------------------------------------------------
(* The download *)

(* Where the first n rows end. *)
EndOf(rows, n) == FoldSeq(LAMBDA row, sum : sum + Width(row), HeaderWidth, SubSeq(rows, 1, n))

(* What is left of a row: its last column cut, or too few columns. *)
Fragment(row, characters) ==
    IF characters >= Width(row) - NumberWidth - 1
    THEN [row EXCEPT !.account = Garbled]
    ELSE [row EXCEPT !.columns = @ - 1]

Whole(rows) == [rows |-> rows, newline |-> TRUE]

(* Six tenths of the text, wherever that is. *)
CutShort(rows) ==
    LET length == (EndOf(rows, Len(rows)) * 6) \div 10
        kept == Max({0} \cup {n \in 1..Len(rows) : EndOf(rows, n) <= length})
        rest == length - EndOf(rows, kept)
    IN  [rows |-> SubSeq(rows, 1, kept)
                     \o IF rest > 0 THEN <<Fragment(rows[kept + 1], rest)>> ELSE <<>>,
         newline |-> rest = 0]

(* download_transactions_export *)
Downloaded == IF downloadIndex \in planned THEN CutShort(export) ELSE Whole(export)

-----------------------------------------------------------------------------
(* The adapter's verdict on a download, in the order of its checks. *)

HasShortRow(text) == \E i \in DOMAIN text.rows : text.rows[i].columns # Columns

(* Slip: only the columns are counted. *)
TruncatedByColumns(text) == header /\ HasShortRow(text)

(* TruncatedExportError *)
Truncated(text) == ~text.newline \/ (header /\ HasShortRow(text))

(* Its account is not in the list, or _map_transaction_row raises over its *)
(* content: a date, an amount, a control character, a zero amount.         *)
Rejected(row) == row.account \notin known \/ row \in Malformed

(* ValueError: the header has drifted, or a row cannot be mapped. *)
Unreadable(text) ==
    /\ ~Truncated(text)
    /\ ~header \/ \E i \in DOMAIN text.rows : Rejected(text.rows[i])

(* Slip: the line number takes the place of the count. *)
LineNumber(rows, i) == i - 1

(* occurrence_counts: how many identical rows stand before this one *)
OccurrenceIndex(rows, i) == Cardinality({j \in 1..(i - 1) : rows[j] = rows[i]})

(* derive_content_source_transaction_id: every column, and the index *)
Identifier(row, index) == <<row, index>>

(* _map_transaction_row *)
Transactions(rows) ==
    [i \in DOMAIN rows |->
        [id |-> Identifier(rows[i], OccurrenceIndex(rows, i)), content |-> rows[i]]]

-----------------------------------------------------------------------------

Init ==
    /\ export \in Exports
    /\ \A i \in DOMAIN export : export[i].account \in FirstAccounts
    /\ header = TRUE
    /\ accounts = FirstAccounts
    /\ planned \in Plans
    /\ downloadIndex = 0
    /\ phase = "accounts"
    /\ known = {}
    /\ attempt = 1
    /\ batch = <<>>
    /\ changes = 0
    /\ Store!Init
    /\ best = [row \in Rows |-> 0]

(* The accounts are downloaded, and never cut: an account that cannot be   *)
(* mapped (_map_account) ends the run.                                     *)
MapsAccounts == accounts \cap Malformed = {}

RaiseAccounts ==
    /\ phase = "accounts"
    /\ ~MapsAccounts
    /\ phase' = "raised"
    /\ UNCHANGED <<bankVars, planned, downloadIndex, known, attempt, batch, changes, storeVars, best>>

ReadAccounts ==
    /\ phase = "accounts"
    /\ MapsAccounts
    /\ known' = accounts
    /\ phase' = "export"
    /\ UNCHANGED <<bankVars, planned, downloadIndex, attempt, batch, changes, storeVars, best>>

Download ==
    /\ phase = "export"
    /\ downloadIndex' = downloadIndex + 1
    /\ UNCHANGED <<bankVars, planned, known, changes, storeVars, best>>

(* Slip: one attempt too many. *)
RetryOnceMore ==
    /\ Download
    /\ Truncated(Downloaded)
    /\ attempt <= MaxAttempts
    /\ attempt' = attempt + 1
    /\ UNCHANGED <<phase, batch>>

(* fetch_with_retry: TruncatedExportError, and attempts are left. *)
Retry ==
    /\ Download
    /\ Truncated(Downloaded)
    /\ attempt < MaxAttempts
    /\ attempt' = attempt + 1
    /\ UNCHANGED <<phase, batch>>

GiveUp ==
    /\ Download
    /\ Truncated(Downloaded)
    /\ attempt = MaxAttempts
    /\ phase' = "failed"
    /\ UNCHANGED <<attempt, batch>>

(* A ValueError is not retried. *)
Raise ==
    /\ Download
    /\ Unreadable(Downloaded)
    /\ phase' = "raised"
    /\ UNCHANGED <<attempt, batch>>

Parse ==
    /\ Download
    /\ ~Truncated(Downloaded) /\ ~Unreadable(Downloaded)
    /\ batch' = Transactions(Downloaded.rows)
    /\ phase' = "parsed"
    /\ UNCHANGED attempt

(* insert_new_transactions *)
Insert ==
    /\ phase = "parsed"
    /\ Store!Submit("transactions", batch)
    /\ phase' = "inserting"
    /\ UNCHANGED <<bankVars, planned, downloadIndex, known, attempt, batch, changes, best>>

Copies(transactions, row) == Cardinality({i \in DOMAIN transactions : transactions[i].content = row})

(* The store answers: the batch lands, or contradicts what has landed. *)
Land ==
    /\ phase = "inserting"
    /\ IF Store!Consistent(landed["transactions"], batch)
       THEN /\ Store!Accept
            /\ phase' = "done"
            /\ best' = [row \in Rows |-> Max({best[row], Copies(batch, row)})]
       ELSE /\ Store!Reject
            /\ phase' = "conflict"
            /\ UNCHANGED best
    /\ UNCHANGED <<bankVars, planned, downloadIndex, known, attempt, batch, changes>>

Over == phase \in {"done", "failed", "raised", "conflict"}

(* Slip: the accounts are kept for the next run. *)
RerunFromExport(plan) ==
    /\ Over
    /\ planned' = plan
    /\ downloadIndex' = 0
    /\ phase' = "export"
    /\ attempt' = 1
    /\ UNCHANGED <<bankVars, known, batch, changes, storeVars, best>>

(* The next run builds a new client, which has a plan of its own. *)
Rerun(plan) ==
    /\ Over
    /\ planned' = plan
    /\ downloadIndex' = 0
    /\ phase' = "accounts"
    /\ known' = {}
    /\ attempt' = 1
    /\ batch' = <<>>
    /\ UNCHANGED <<bankVars, changes, storeVars, best>>

-----------------------------------------------------------------------------
(* The bank *)

Change == changes < MaxChanges /\ changes' = changes + 1

Publish(rows) ==
    /\ Change
    /\ rows # export
    /\ \A i \in DOMAIN rows : rows[i].account \in accounts
    /\ export' = rows
    /\ UNCHANGED <<header, accounts, runVars, storeVars, best>>

OpenAccount(account) ==
    /\ Change
    /\ account \notin accounts
    /\ accounts' = accounts \cup {account}
    /\ UNCHANGED <<export, header, runVars, storeVars, best>>

ChangeHeader ==
    /\ Change
    /\ header' = ~header
    /\ UNCHANGED <<export, accounts, runVars, storeVars, best>>

RunStep ==
    \/ RaiseAccounts \/ ReadAccounts \/ Retry \/ GiveUp \/ Raise \/ Parse \/ Insert \/ Land

Next ==
    \/ RunStep
    \/ \E plan \in Plans : Rerun(plan)
    \/ \E rows \in Exports : Publish(rows)
    \/ \E account \in LateAccounts : OpenAccount(account)
    \/ ChangeHeader

Spec == Init /\ [][Next]_vars

(* A run goes on until it is over; then there is another, and again and    *)
(* again one whose downloads are not cut.                                  *)
FairSpec == Spec /\ WF_vars(RunStep) /\ SF_vars(Rerun({}))

-----------------------------------------------------------------------------
(* Properties *)

TypeOK ==
    /\ export \in Exports /\ header \in BOOLEAN
    /\ known \subseteq accounts /\ accounts \subseteq FirstAccounts \cup LateAccounts
    /\ phase \in {"accounts", "export", "parsed", "inserting"} \/ Over
    /\ downloadIndex \in 0..MaxAttempts /\ attempt \in 1..MaxAttempts
    /\ pending # Store!NoCall <=> phase = "inserting"
    /\ \A k \in Identifiers : landed["transactions"][k] \in Rows \cup {Absent}

(* Derived identifiers do their work: whatever the bank publishes, however *)
(* it reorders, extends or shortens its export between runs, and wherever  *)
(* downloads are cut, each row has landed exactly as many times as the     *)
(* fullest export that was taken in held it.  Nothing is doubled by a      *)
(* replay, no copy of equal payments is lost (ADR-0001), and no export     *)
(* contradicts what has landed.                                            *)
LandedIsTheMostEverSeen ==
    /\ phase # "conflict"
    /\ \A row \in Rows :
          {k \in Identifiers : landed["transactions"][k] = row} = {row} \X (0..best[row] - 1)

(* A lost connection is never taken for a defect: what a run raises over   *)
(* stands in what the bank has published (a header, a row or an account of *)
(* its own), wherever the download was cut.  It may be a row of an account *)
(* that was opened after the run had read the accounts.                    *)
CutsNeverRaise ==
    [][phase' = "raised" /\ phase # "raised" =>
          IF phase = "accounts"
          THEN ~MapsAccounts
          ELSE ~header \/ \E i \in DOMAIN export : Rejected(export[i])]_vars

Readable ==
    /\ header /\ MapsAccounts
    /\ ~HasShortRow(Whole(export))
    /\ \A i \in DOMAIN export : export[i] \notin Malformed

Taken == \A i \in DOMAIN export :
    landed["transactions"][Identifier(export[i], OccurrenceIndex(export, i))] = export[i]

(* A cut at the end of a row goes unnoticed and is only a delay, and so is *)
(* an account that was opened too late for a run to know it: once the bank *)
(* stops changing, a readable export has landed whole for good.            *)
ExportsLandInTheEnd == <>[](Readable => Taken)
=============================================================================
