-------------------------- MODULE FjellvikExtraction --------------------------
(***************************************************************************)
(* One run's extraction from fjellvik: the mock bank (mock_banks/          *)
(* fjellvik.py), which serves an account's entries page by page, booked    *)
(* ones first, and answers planned requests with 429; the adapter          *)
(* (adapters/fjellvik.py), which follows the next links; and the retry     *)
(* loop around every single request (ingestion/retry.py).  The bank reads  *)
(* its data anew for every request, so what it reports may change between  *)
(* two pages: an entry is added, a pending one is booked, or an entry is   *)
(* withdrawn.  It implements Extraction.                                   *)
(*                                                                         *)
(* Abstracted: the waits, the JSON text, and the columns of an account and *)
(* of an entry: the adapter maps each by itself, and either maps it or     *)
(* raises.                                                                 *)
(***************************************************************************)
EXTENDS Integers, SequencesExt, FiniteSetsExt

CONSTANTS
    Accounts,     \* the accounts the bank lists, in order
    Entries,      \* the transactions that may be reported
    Malformed,    \* those with a column that map_transaction refuses
    FirstReports, \* what the bank may report when the run starts
    Listings,     \* which of the accounts may be mapped, and served
    Plans,        \* the request indexes that may be planned to fail
    PageSize,
    MaxAttempts,  \* RetryPolicy.max_attempts
    MaxChanges    \* bound on the changes of what the bank reports

ASSUME MalformedAssumption == Malformed \subseteq Entries

ASSUME PageSizeAssumption == PageSize \in Nat \ {0}

AccountSet == ToSet(Accounts)

ASSUME AccountsAssumption == Accounts \in Seq(AccountSet)

(* mappable: map_account takes them; served: their transactions are there. *)
ASSUME ListingsAssumption ==
    Listings \subseteq [mappable : SUBSET AccountSet, served : SUBSET AccountSet]

Reports == [AccountSet -> [booked : Seq(Entries), pending : Seq(Entries)]]

EntriesOf(some, account, status) == ToSet(some[account][status])

(* An entry is reported of one account, once, and is booked or pending. *)
OnePlace(some) ==
    /\ \A a, b \in AccountSet : EntriesOf(some, a, "booked") \cap EntriesOf(some, b, "pending") = {}
    /\ \A a, b \in AccountSet : a # b =>
          /\ EntriesOf(some, a, "booked") \cap EntriesOf(some, b, "booked") = {}
          /\ EntriesOf(some, a, "pending") \cap EntriesOf(some, b, "pending") = {}
    /\ \A a \in AccountSet : IsInjective(some[a].booked) /\ IsInjective(some[a].pending)

ASSUME ReportsAssumption == \A first \in FirstReports : first \in Reports /\ OnePlace(first)

(* RetryPolicy.__post_init__ *)
ASSUME AttemptsAssumption == MaxAttempts \in Nat \ {0}

VARIABLES
    report,        \* per account, the booked and the pending entries, in order
    listing,       \* the accounts that can be mapped, and those that are served
    planned,       \* failing_request_indexes
    requestIndex,  \* _request_index
    phase,         \* "accounts", "pages", or how the extraction has ended
    accountIndex,  \* the account the adapter has reached
    pageNumber,    \* the page its next request asks for
    attempt,       \* attempt of fetch_with_retry
    extracted,     \* transactions
    changes,       \* changes of the report so far
    steady,        \* history: the records reported ever since the run began
    seen,          \* history: those reported at some time since then
    withdrawn      \* history: how many entries were withdrawn since then

bankVars == <<report, listing, planned, requestIndex>>
adapterVars == <<phase, accountIndex, pageNumber, attempt, extracted>>
historyVars == <<steady, seen, withdrawn>>
vars == <<bankVars, adapterVars, changes, historyVars>>

Tagged(entries, status) == [i \in DOMAIN entries |-> [entry |-> entries[i], status |-> status]]

(* Slip: the pending entries come first. *)
PendingFirst(account) ==
    Tagged(report[account].pending, "pending") \o Tagged(report[account].booked, "booked")

(* tagged_entries *)
TaggedEntries(account) ==
    Tagged(report[account].booked, "booked") \o Tagged(report[account].pending, "pending")

(* page_count *)
PageCount(account) == (Len(TaggedEntries(account)) + PageSize - 1) \div PageSize

(* Slip: the start of a page is counted from one. *)
PageFromOne(account, number) ==
    LET start == (number - 1) * PageSize + 1
    IN  SubSeq(TaggedEntries(account), start + 1,
               Min({start + PageSize, Len(TaggedEntries(account))}))

(* _transactions_page: page_entries *)
Page(account, number) ==
    LET start == (number - 1) * PageSize
    IN  SubSeq(TaggedEntries(account), start + 1,
               Min({start + PageSize, Len(TaggedEntries(account))}))

(* Slip: the last page is taken for one before the last. *)
AlwaysNext(account, number) == number <= PageCount(account)

HasNext(account, number) == number < PageCount(account)

Records == [account : AccountSet, entry : Entries, status : {"booked", "pending"}]

(* map_transaction: the identifier and the content of a canonical record. *)
Record(account, tagged) ==
    [account |-> account, entry |-> tagged.entry, status |-> tagged.status]

RecordsWith(account, entries, status) == [account : {account}, entry : entries, status : {status}]

RecordsOf(some) ==
    UNION {RecordsWith(account, EntriesOf(some, account, "booked"), "booked")
              \cup RecordsWith(account, EntriesOf(some, account, "pending"), "pending") :
           account \in AccountSet}

-----------------------------------------------------------------------------

Init ==
    /\ report \in FirstReports
    /\ listing \in Listings
    /\ planned \in Plans
    /\ requestIndex = 0
    /\ phase = "accounts"
    /\ accountIndex = 1
    /\ pageNumber = 1
    /\ attempt = 1
    /\ extracted = <<>>
    /\ changes = 0
    /\ steady = RecordsOf(report)
    /\ seen = RecordsOf(report)
    /\ withdrawn = 0

(* _consume_request_or_rate_limit *)
RateLimited == requestIndex \in planned

Request == requestIndex' = requestIndex + 1

Requesting == phase \in {"accounts", "pages"}

(* Slip: the last attempt is not the last one. *)
RetryOnceMore ==
    /\ Requesting
    /\ RateLimited
    /\ Request
    /\ attempt <= MaxAttempts
    /\ attempt' = attempt + 1
    /\ UNCHANGED <<report, listing, planned, phase, accountIndex, pageNumber, extracted, changes, historyVars>>

(* fetch_with_retry: RateLimitError, and attempts are left. *)
Retry ==
    /\ Requesting
    /\ RateLimited
    /\ Request
    /\ attempt < MaxAttempts
    /\ attempt' = attempt + 1
    /\ UNCHANGED <<report, listing, planned, phase, accountIndex, pageNumber, extracted, changes, historyVars>>

(* fetch_with_retry: RateLimitError on the last attempt leaves extract. *)
GiveUp ==
    /\ Requesting
    /\ RateLimited
    /\ Request
    /\ attempt = MaxAttempts
    /\ phase' = "failed"
    /\ UNCHANGED <<report, listing, planned, accountIndex, pageNumber, attempt, extracted, changes, historyVars>>

(* Slip: one budget of attempts for the whole extraction. *)
SameAttempts == attempt' = attempt

(* Every request is a call of fetch_with_retry of its own. *)
NextFetch == attempt' = 1

Answered == ~RateLimited

(* The accounts are answered, and each is mapped. *)
ListAccounts ==
    /\ phase = "accounts"
    /\ Answered
    /\ AccountSet \subseteq listing.mappable
    /\ Request
    /\ NextFetch
    /\ phase' = IF Accounts = <<>> THEN "done" ELSE "pages"
    /\ UNCHANGED <<report, listing, planned, accountIndex, pageNumber, extracted, changes, historyVars>>

(* map_transaction and the validation of CanonicalTransaction: an amount   *)
(* or a date that cannot be read, a zero amount, a control character, ...  *)
Mappable(page) == \A i \in DOMAIN page : page[i].entry \notin Malformed

(* A page is answered: its entries are mapped, and the adapter turns to the *)
(* page of the next link, to the next account, or is done.                 *)
ReadPage ==
    LET account == Accounts[accountIndex]
        page == Page(account, pageNumber)
    IN  /\ phase = "pages"
        /\ Answered
        /\ account \in listing.served
        /\ pageNumber <= PageCount(account)
        /\ Mappable(page)
        /\ Request
        /\ NextFetch
        /\ extracted' = extracted \o [i \in DOMAIN page |-> Record(account, page[i])]
        /\ IF HasNext(account, pageNumber)
           THEN pageNumber' = pageNumber + 1 /\ UNCHANGED <<accountIndex, phase>>
           ELSE /\ pageNumber' = 1
                /\ accountIndex' = accountIndex + 1
                /\ phase' = IF accountIndex = Len(Accounts) THEN "done" ELSE "pages"
        /\ UNCHANGED <<report, listing, planned, changes, historyVars>>

(* Any other exception leaves extract at once: nothing retries it. *)
Raise(what) ==
    /\ Answered
    /\ Request
    /\ phase' = what
    /\ UNCHANGED <<report, listing, planned, accountIndex, pageNumber, attempt, extracted,
                   changes, historyVars>>

(* map_account refuses an account. *)
RaiseUnmappableAccount ==
    /\ phase = "accounts"
    /\ ~(AccountSet \subseteq listing.mappable)
    /\ Raise("unmappable")

(* An account of the list has no transactions to serve. *)
RaiseUnknownAccount ==
    /\ phase = "pages"
    /\ Accounts[accountIndex] \notin listing.served
    /\ Raise("unknown account")

(* The page asked for is not, or no longer, there. *)
RaiseOutOfRange ==
    /\ phase = "pages"
    /\ Accounts[accountIndex] \in listing.served
    /\ pageNumber > PageCount(Accounts[accountIndex])
    /\ Raise("out of range")

RaiseUnmappable ==
    /\ phase = "pages"
    /\ Accounts[accountIndex] \in listing.served
    /\ pageNumber <= PageCount(Accounts[accountIndex])
    /\ ~Mappable(Page(Accounts[accountIndex], pageNumber))
    /\ Raise("unmappable")

(* The next run builds a new client, which has a plan of its own. *)
Rerun ==
    /\ ~Requesting
    /\ listing' \in Listings
    /\ planned' \in Plans
    /\ requestIndex' = 0
    /\ phase' = "accounts"
    /\ accountIndex' = 1
    /\ pageNumber' = 1
    /\ attempt' = 1
    /\ extracted' = <<>>
    /\ steady' = RecordsOf(report)
    /\ seen' = RecordsOf(report)
    /\ withdrawn' = 0
    /\ UNCHANGED <<report, changes>>

-----------------------------------------------------------------------------
(* What the bank reports changes. *)

Change ==
    /\ changes < MaxChanges
    /\ changes' = changes + 1
    /\ steady' = steady \cap RecordsOf(report')
    /\ seen' = seen \cup RecordsOf(report')
    /\ UNCHANGED <<listing, planned, requestIndex, adapterVars>>

Reported ==
    UNION {EntriesOf(report, account, "booked") \cup EntriesOf(report, account, "pending") :
              account \in AccountSet}

Add(account, entry, status) ==
    /\ entry \notin Reported
    /\ report' = [report EXCEPT ![account][status] = Append(@, entry)]
    /\ UNCHANGED withdrawn
    /\ Change

Book(account, i) ==
    /\ report' = [report EXCEPT ![account] =
                     [booked |-> Append(@.booked, @.pending[i]), pending |-> RemoveAt(@.pending, i)]]
    /\ UNCHANGED withdrawn
    /\ Change

Withdraw(account, i, status) ==
    /\ report' = [report EXCEPT ![account][status] = RemoveAt(@, i)]
    /\ withdrawn' = withdrawn + 1
    /\ Change

Next ==
    \/ Retry \/ GiveUp \/ ListAccounts \/ ReadPage \/ Rerun
    \/ RaiseUnmappableAccount \/ RaiseUnknownAccount \/ RaiseOutOfRange \/ RaiseUnmappable
    \/ \E account \in AccountSet :
          \/ \E entry \in Entries, status \in {"booked", "pending"} : Add(account, entry, status)
          \/ \E i \in DOMAIN report[account].pending : Book(account, i)
          \/ \E status \in {"booked", "pending"} :
                \E i \in DOMAIN report[account][status] : Withdraw(account, i, status)

Spec == Init /\ [][Next]_vars

-----------------------------------------------------------------------------
(* Properties *)

TypeOK ==
    /\ phase \in {"accounts", "pages", "done", "failed",
                  "unmappable", "unknown account", "out of range"}
    /\ requestIndex \in Nat
    /\ attempt \in 1..MaxAttempts
    /\ accountIndex \in 1..(Len(Accounts) + 1)
    /\ pageNumber \in Nat \ {0}
    /\ extracted \in Seq(Records)
    /\ steady \subseteq seen
    /\ seen \subseteq Records
    /\ withdrawn \in Nat

(* All that an account reports, as canonical records. *)
AllRecords(account) ==
    LET tagged == TaggedEntries(account)
    IN  [i \in DOMAIN tagged |-> Record(account, tagged[i])]

(* If the report did not change meanwhile, the pages put together are      *)
(* exactly what it holds: no entry at a page's edge is lost or taken       *)
(* twice, whichever requests were refused and retried.                     *)
StableExtractIsComplete ==
    phase = "done" /\ steady = seen =>
        extracted = FlattenSeq([i \in DOMAIN Accounts |-> AllRecords(Accounts[i])])

(* The bank is given up exactly when one request was refused MaxAttempts   *)
(* times in a row; refusals of different requests do not add up.           *)
OutageNeedsConsecutiveRefusals ==
    /\ phase = "failed" => requestIndex - MaxAttempts .. requestIndex - 1 \subseteq planned
    /\ phase = "done" =>
          \A i \in 0..(requestIndex - MaxAttempts) : ~(i..(i + MaxAttempts - 1) \subseteq planned)

(* A page is out of range only after a withdrawal, or where the account    *)
(* had no entry all along (the adapter asks for a first page that the bank *)
(* counts as out of range): a next link that was answered stays good while *)
(* entries are only added and booked, although the pages are cut anew.     *)
OutOfRangeNeedsWithdrawals ==
    [][phase' = "out of range" /\ phase # phase' /\ withdrawn = 0 =>
          /\ pageNumber = 1
          /\ \A record \in seen : record.account # Accounts[accountIndex]]_vars

Outcome ==
    IF Requesting THEN "running" ELSE IF phase \in {"done", "failed"} THEN phase ELSE "raised"

(* The extract, refused requests or not, is what Extraction promises: all  *)
(* that was reported throughout, although it may have moved to another     *)
(* page, but for at most one record for each entry that was withdrawn, and *)
(* nothing that never was reported; and when it fails or raises, nothing   *)
(* is returned.  The booked entries come first, so adding and booking only *)
(* move the others towards pages that are still to be read; a withdrawal   *)
(* moves one back over the edge of the pages read.  (An entry that is      *)
(* booked between two pages can be missed or taken twice.)                 *)
Extract == INSTANCE Extraction
    WITH reported <- RecordsOf(report),
         outcome <- Outcome,
         extract <- IF phase = "done" THEN ToSet(extracted) ELSE {}

ImplementsExtraction == Extract!Spec
=============================================================================
