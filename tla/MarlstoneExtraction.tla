-------------------------- MODULE MarlstoneExtraction --------------------------
(***************************************************************************)
(* Runs against marlstone: the mock bank (mock_banks/marlstone.py), which  *)
(* answers with a page of an account's entries and a cursor to the next,   *)
(* and the adapter (adapters/marlstone.py), which follows the cursors.  A  *)
(* cursor is an offset into a list that is read anew for every request, so *)
(* it means something else once the list has changed.  The bank has no     *)
(* planned failures, so fetch_with_retry never has anything to retry.      *)
(*                                                                         *)
(* Abstracted: paths and JSON text, and the columns of an entry except     *)
(* whether its status is one the adapter knows.                            *)
(***************************************************************************)
EXTENDS Integers, SequencesExt, FiniteSetsExt

CONSTANTS
    Accounts,     \* the accounts the bank may have
    Ids,          \* the transactions it may report
    FirstReports, \* what transactions.json may hold at first
    PageSize,
    MaxChanges    \* bound on what the bank changes

ASSUME PageSizeAssumption == PageSize \in Nat \ {0}

ASSUME AccountsAssumption == IsFiniteSet(Accounts)

VARIABLES
    open,         \* accounts.json
    report,       \* transactions.json: entries [account, id, status]
    phase,        \* "accounts", "pages", or how the extraction has ended
    todo,         \* the accounts that are still to be read, the current one first
    cursor,       \* the offset of the next request, 0 for none
    extracted,    \* transactions
    changes,      \* changes the bank has made
    steady, seen, \* history: the records reported always, and ever, since the run began
    inserted, removed \* history: entries put in front or removed since then

bankVars == <<open, report>>
adapterVars == <<phase, todo, cursor, extracted>>
historyVars == <<steady, seen, inserted, removed>>
vars == <<bankVars, adapterVars, changes, historyVars>>

Statuses == {"POSTED", "PENDING", "OTHER"}
Records == [account : Accounts, id : Ids, status : Statuses]

IdsOf(entries) == [i \in DOMAIN entries |-> entries[i].id]

(* The bank gives every transaction an identifier of its own. *)
ASSUME ReportsAssumption ==
    \A first \in FirstReports : first \in Seq(Records) /\ IsInjective(IdsOf(first))

(* What the bank reports: an entry of an account it does not list is never asked for. *)
Reported(accounts, entries) == {e \in ToSet(entries) : e.account \in ToSet(accounts)}

(* How many of the first n entries are of an account. *)
UpTo(entries, account, n) == Cardinality({i \in 1..n : entries[i].account = account})

(* The place of the n-th entry of an account *)
Place(entries, account, n) ==
    CHOOSE i \in DOMAIN entries :
        entries[i].account = account /\ UpTo(entries, account, i) = n

(* account_entries *)
AccountEntries(account) ==
    [n \in 1..UpTo(report, account, Len(report)) |-> report[Place(report, account, n)]]

(* Slip: the entry at the end of a page is left to the next one. *)
PageBefore(account) ==
    SubSeq(AccountEntries(account), cursor + 1,
           Min({cursor + PageSize, Len(AccountEntries(account))}) - 1)

(* Slip: the end of a page is counted in. *)
PageAndOne(account) ==
    SubSeq(AccountEntries(account), cursor + 1,
           Min({cursor + PageSize + 1, Len(AccountEntries(account))}))

(* _transactions_page: transactions *)
Page(account) ==
    SubSeq(AccountEntries(account), cursor + 1,
           Min({cursor + PageSize, Len(AccountEntries(account))}))

(* Slip: a last page that is full is taken for one before the last. *)
AlwaysAfterFullPage(account) == cursor + PageSize <= Len(AccountEntries(account))

(* next_offset is not None *)
HasNext(account) == cursor + PageSize < Len(AccountEntries(account))

(* _parse_offset_cursor; the first request has no cursor. *)
PastEnd(account) == cursor > 0 /\ cursor >= Len(AccountEntries(account))

(* Slip: a status that is not known is passed on. *)
AnyStatus(entries) == TRUE

(* map_transaction: a status the adapter does not know is a ValueError. *)
Mappable(entries) == \A i \in DOMAIN entries : entries[i].status # "OTHER"

-----------------------------------------------------------------------------

Init ==
    /\ open \in {SetToSeq(some) : some \in SUBSET Accounts}
    /\ report \in FirstReports
    /\ phase = "accounts"
    /\ todo = <<>>
    /\ cursor = 0
    /\ extracted = <<>>
    /\ changes = 0
    /\ steady = Reported(open, report)
    /\ seen = Reported(open, report)
    /\ inserted = 0
    /\ removed = 0

ListAccounts ==
    /\ phase = "accounts"
    /\ todo' = open
    /\ phase' = IF open = <<>> THEN "done" ELSE "pages"
    /\ UNCHANGED <<bankVars, cursor, extracted, changes, historyVars>>

(* A page is answered and mapped; the adapter turns to the next page, to   *)
(* the next account, or is done.                                           *)
ReadPage ==
    /\ phase = "pages"
    /\ Head(todo) \in ToSet(open)
    /\ ~PastEnd(Head(todo))
    /\ Mappable(Page(Head(todo)))
    /\ extracted' = extracted \o Page(Head(todo))
    /\ IF HasNext(Head(todo))
       THEN cursor' = cursor + PageSize /\ UNCHANGED <<todo, phase>>
       ELSE /\ cursor' = 0
            /\ todo' = Tail(todo)
            /\ phase' = IF Len(todo) = 1 THEN "done" ELSE "pages"
    /\ UNCHANGED <<bankVars, changes, historyVars>>

(* A ValueError, of the bank or of the adapter, ends the extraction. *)
Raise(reason) ==
    /\ phase' = reason
    /\ UNCHANGED <<bankVars, todo, cursor, extracted, changes, historyVars>>

RaiseUnknownAccount ==
    /\ phase = "pages"
    /\ Head(todo) \notin ToSet(open)
    /\ Raise("unknown account")

RaisePastEnd ==
    /\ phase = "pages"
    /\ Head(todo) \in ToSet(open)
    /\ PastEnd(Head(todo))
    /\ Raise("past the end")

RaiseUnknownStatus ==
    /\ phase = "pages"
    /\ Head(todo) \in ToSet(open)
    /\ ~PastEnd(Head(todo))
    /\ ~Mappable(Page(Head(todo)))
    /\ Raise("unknown status")

Rerun ==
    /\ phase \notin {"accounts", "pages"}
    /\ phase' = "accounts"
    /\ todo' = <<>>
    /\ cursor' = 0
    /\ extracted' = <<>>
    /\ steady' = Reported(open, report)
    /\ seen' = Reported(open, report)
    /\ inserted' = 0
    /\ removed' = 0
    /\ UNCHANGED <<bankVars, changes>>

-----------------------------------------------------------------------------
(* The bank *)

Change(accounts, entries) ==
    /\ changes < MaxChanges
    /\ changes' = changes + 1
    /\ open' = accounts
    /\ report' = entries
    /\ steady' = steady \cap Reported(accounts, entries)
    /\ seen' = seen \cup Reported(accounts, entries)
    /\ UNCHANGED adapterVars

New(entry) == entry.id \notin ToSet(IdsOf(report))

AppendEntry(entry) ==
    /\ New(entry)
    /\ Change(open, Append(report, entry))
    /\ UNCHANGED <<inserted, removed>>

InsertInFront(entry) ==
    /\ New(entry)
    /\ Change(open, <<entry>> \o report)
    /\ inserted' = inserted + 1
    /\ UNCHANGED removed

Amend(i, status) ==
    /\ report[i].status # status
    /\ Change(open, [report EXCEPT ![i].status = status])
    /\ UNCHANGED <<inserted, removed>>

RemoveEntry(i) ==
    /\ Change(open, RemoveAt(report, i))
    /\ removed' = removed + 1
    /\ UNCHANGED inserted

(* accounts.json changes by itself: an account is opened or closed. *)
ListOtherAccounts(accounts) ==
    /\ accounts # open
    /\ Change(accounts, report)
    /\ UNCHANGED <<inserted, removed>>

Next ==
    \/ ListAccounts \/ ReadPage \/ RaiseUnknownAccount \/ RaisePastEnd \/ RaiseUnknownStatus
    \/ Rerun
    \/ \E entry \in Records : AppendEntry(entry) \/ InsertInFront(entry)
    \/ \E i \in DOMAIN report : (\E status \in Statuses : Amend(i, status)) \/ RemoveEntry(i)
    \/ \E some \in SUBSET Accounts : ListOtherAccounts(SetToSeq(some))

Spec == Init /\ [][Next]_vars

-----------------------------------------------------------------------------
(* Properties *)

TypeOK ==
    /\ phase \in {"accounts", "pages", "done", "unknown account", "past the end", "unknown status"}
    /\ ToSet(open) \subseteq Accounts /\ ToSet(todo) \subseteq Accounts
    /\ phase = "pages" => todo # <<>>
    /\ ToSet(report) \subseteq Records
    /\ IsInjective(IdsOf(report))
    /\ cursor % PageSize = 0
    /\ \A i \in DOMAIN extracted : extracted[i].status # "OTHER"
    /\ steady \subseteq seen /\ seen \subseteq Records

(* A transaction is taken twice, with two contents perhaps, only when it   *)
(* was pushed onto the next page by a new one in front of it, or was gone  *)
(* and came back.  Changes in place and at the end repeat nothing.         *)
RepeatsComeFromInsertions ==
    LET Distinct == {<<extracted[i].account, extracted[i].id>> : i \in DOMAIN extracted}
    IN  Len(extracted) - Cardinality(Distinct) <= inserted + removed

(* A cursor is past the end only when entries have gone since the run      *)
(* began: the bank never hands out one that is past it already, not at a   *)
(* full last page and not for an account without entries.                  *)
PastEndNeedsRemovals == phase = "past the end" => removed > 0

(* The extract is what Extraction promises: an entry that was reported     *)
(* unchanged from the beginning to the end is missed only when it slipped  *)
(* over the end of a page that had been read, and every removal pushes at  *)
(* most one entry over it.                                                 *)
Extract == INSTANCE Extraction
    WITH reported <- Reported(open, report),
         withdrawn <- removed,
         outcome <- CASE phase \in {"accounts", "pages"} -> "running"
                      [] phase = "done" -> "done"
                      [] OTHER -> "raised",
         extract <- IF phase = "done" THEN ToSet(extracted) ELSE {}

ImplementsExtraction == Extract!Spec
=============================================================================
