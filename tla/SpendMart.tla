------------------------------- MODULE SpendMart -------------------------------
(***************************************************************************)
(* From the banks' reports to the monthly spend: a run categorizes every   *)
(* reported transaction anew (runner.py, categorization.py) and offers     *)
(* them to the landing store, which keeps AtomicLanding's promise; the     *)
(* mart (mart.py) is computed from the landed rows whenever it is asked    *)
(* for.  Between runs a bank reports more, amends what it has reported or  *)
(* withdraws it, and a release appends a keyword rule.                     *)
(*                                                                         *)
(* Abstracted: the banks (Ingestion has them), the day of a booking date,  *)
(* the currency, which the query does not read, and the order of the       *)
(* mart's rows.                                                            *)
(***************************************************************************)
EXTENDS Categorization, SequencesExt

CONSTANTS
    Ids,          \* derived transaction identifiers
    Transactions, \* what banks may report, as canonical records without category
    FirstRules,   \* the rules of the first release
    LateRules,    \* keyword rules that later releases may append
    MaxReleases, MaxReports, \* bounds on releases and on what the banks report
    Absent

Transaction ==
    [amount : Int, status : {"booked", "pending"},
     date : ([year : Int, month : 1..12] \cup {None}),
     label : Labels \cup {None}, description : Texts, counterparty : Texts]

(* reject_zero_amount, verify_booked_transaction_has_booking_date *)
Valid(transaction) ==
    /\ transaction \in Transaction
    /\ transaction.amount # 0
    /\ transaction.status = "booked" => transaction.date # None

ASSUME TransactionsAssumption == \A transaction \in Transactions : Valid(transaction)
ASSUME RulesAssumption == FirstRules \in Rules /\ LateRules \subseteq KeywordRules

Contents == [source : Transactions, category : Categories]

ASSUME IdsAssumption == IsFiniteSet(Ids)
ASSUME AbsentAssumption == Absent \notin Transactions /\ Absent \notin Contents

VARIABLES
    report,      \* what the banks report
    rules,       \* the deployed rules
    releases, reports, \* how many there were
    landed, pending, response, \* AtomicLanding
    offered,     \* history: the report and the rules of the last run
    taken        \* history: what runs that succeeded were offered last, by identifier

vars == <<report, rules, releases, reports, landed, pending, response, offered, taken>>

Store == INSTANCE AtomicLanding
    WITH OutOfScale <- {}, MaxBatch <- Cardinality(Ids)

storeVars == <<landed, pending, response>>

-----------------------------------------------------------------------------
(* The mart *)

(* Slip: inflows are left in. *)
CountedDated(row) == row # Absent /\ row.source.date # None

(* WHERE *)
Counted(row) == row # Absent /\ row.source.amount < 0 /\ row.source.date # None

(* Slip: the months of all years are one. *)
MonthBucket(row) == [month |-> [month |-> row.source.date.month], category |-> row.category]

(* GROUP BY *)
Bucket(row) == [month |-> row.source.date, category |-> row.category]

(* _SPEND_MART_QUERY, over any table of transactions *)
BuildSpendMart(rows) ==
    LET counted == {k \in Ids : Counted(rows[k])}
        In(bucket) == {k \in counted : Bucket(rows[k]) = bucket}
    IN  [bucket \in {Bucket(rows[k]) : k \in counted} |->
            [total_spend |-> SumFunctionOnSet([k \in counted |-> -rows[k].source.amount], In(bucket)),
             transaction_count |-> Cardinality(In(bucket))]]

Mart == BuildSpendMart(landed["transactions"])

-----------------------------------------------------------------------------

Init ==
    /\ report = [k \in Ids |-> Absent]
    /\ rules = FirstRules
    /\ releases = 0
    /\ reports = 0
    /\ Store!Init
    /\ offered = [report |-> report, rules |-> rules]
    /\ taken = [k \in Ids |-> Absent]

(* apply_category *)
ApplyCategory(k) == [source |-> report[k], category |-> Categorize(rules, report[k])]

(* A run offers everything reported; it loads the rules when it starts. *)
Run ==
    /\ LET reported == SetToSeq({k \in Ids : report[k] # Absent})
       IN  Store!Submit("transactions",
               [i \in DOMAIN reported |-> [id |-> reported[i], content |-> ApplyCategory(reported[i])]])
    /\ offered' = [report |-> report, rules |-> rules]
    /\ UNCHANGED <<report, rules, releases, reports, taken>>

(* What the last run was offered under an identifier *)
Offer(k) == [source |-> offered.report[k], category |-> Categorize(offered.rules, offered.report[k])]

(* What becomes of it: it lands, a LandingConflictError, or it dies. *)
Land ==
    /\ Store!Accept
    /\ taken' = [k \in Ids |-> IF offered.report[k] = Absent THEN taken[k] ELSE Offer(k)]
    /\ UNCHANGED <<report, rules, releases, reports, offered>>
Conflict == Store!Reject /\ UNCHANGED <<report, rules, releases, reports, offered, taken>>
Die == Store!Fail /\ UNCHANGED <<report, rules, releases, reports, offered, taken>>

(* A transaction is reported, amended (booked, or corrected), or withdrawn. *)
Report(k, transaction) ==
    /\ reports < MaxReports
    /\ reports' = reports + 1
    /\ transaction # report[k]
    /\ report' = [report EXCEPT ![k] = transaction]
    /\ UNCHANGED <<rules, releases, storeVars, offered, taken>>

(* Slip: the new rule goes first. *)
PrependRule(rule) ==
    /\ releases < MaxReleases
    /\ releases' = releases + 1
    /\ pending = Store!NoCall
    /\ rules' = [rules EXCEPT !.keywords = <<rule>> \o @]
    /\ UNCHANGED <<report, reports, storeVars, offered, taken>>

(* A release with one more rule, behind those that are there. *)
AppendRule(rule) ==
    /\ releases < MaxReleases
    /\ releases' = releases + 1
    /\ pending = Store!NoCall
    /\ rules' = [rules EXCEPT !.keywords = Append(@, rule)]
    /\ UNCHANGED <<report, reports, storeVars, offered, taken>>

Next ==
    \/ Run \/ Land \/ Conflict \/ Die
    \/ \E k \in Ids, transaction \in Transactions \cup {Absent} : Report(k, transaction)
    \/ \E rule \in LateRules : AppendRule(rule)

Spec == Init /\ [][Next]_vars

-----------------------------------------------------------------------------
(* Properties *)

(* Every landed category is what the rules of some release gave the row,   *)
(* and what they give it now unless it is uncategorized.                   *)
OldCategoriesStand ==
    \A k \in Ids :
        LET row == landed["transactions"][k]
        IN  row # Absent /\ row.category # Uncategorized =>
                row.category = Categorize(rules, row.source)

(* A release that appends a rule makes no run fail over a row that has a   *)
(* category: rejected is a batch that holds a transaction the bank has     *)
(* amended, or one that had landed without a category.                     *)
OnlyUncategorizedRowsConflict ==
    [][response'.kind = "conflict" /\ pending # Store!NoCall =>
          \E i \in DOMAIN pending.batch :
              LET row == landed["transactions"][pending.batch[i].id]
              IN  /\ row # Absent
                  /\ \/ row.source # pending.batch[i].content.source
                     \/ row.category = Uncategorized]_vars

(* What the mart has shown it never takes back: whatever is reported anew, *)
(* amended, recategorized or rejected, no bucket's total or count shrinks. *)
SpendNeverShrinks ==
    [][\A bucket \in DOMAIN Mart :
          /\ bucket \in DOMAIN Mart'
          /\ Mart[bucket].total_spend <= Mart'[bucket].total_spend
          /\ Mart[bucket].transaction_count <= Mart'[bucket].transaction_count]_vars

(* However runs fail, are replayed, or no longer find what was reported,   *)
(* the mart is always this: the dated outflows, booked or not, that runs   *)
(* that succeeded were ever offered, each once, as it was last offered to  *)
(* one, by the month of a year and by the category of that run's rules.    *)
MartIsWhatTheRunsSaw ==
    LET spent == {k \in Ids : taken[k] # Absent /\ taken[k].source.amount < 0 /\ taken[k].source.date # None}
    IN  /\ Cardinality(spent) = SumFunction([bucket \in DOMAIN Mart |-> Mart[bucket].transaction_count])
        /\ \A k \in spent :
              LET bucket == [month |-> taken[k].source.date, category |-> taken[k].category]
                  alike == {j \in spent : /\ taken[j].source.date = taken[k].source.date
                                          /\ taken[j].category = taken[k].category}
              IN  /\ bucket \in DOMAIN Mart
                  /\ Mart[bucket].total_spend
                       = -SumFunctionOnSet([j \in spent |-> taken[j].source.amount], alike)

Landed == {landed["transactions"][k] : k \in Ids} \ {Absent}

(* Stated by ADR-0005 and by a test of the mart: the filter on             *)
(* booking_date leaves out what is pending.  But a pending transaction may *)
(* have a date.                                                            *)
PendingIsLeftOut == \A row \in Landed : Counted(row) => row.source.status = "booked"
=============================================================================
