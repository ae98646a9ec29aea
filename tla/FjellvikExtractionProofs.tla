----------------------- MODULE FjellvikExtractionProofs -----------------------
(***************************************************************************)
(* Proofs about fjellvik's extraction, for any accounts, reports, plans of *)
(* refusals, page sizes and numbers of attempts: a bank is given up only   *)
(* after a run of refusals of one request, a page is out of range only     *)
(* after a withdrawal or where there never was an entry, and the extract   *)
(* is what Extraction promises, although the report changes between the    *)
(* pages; when it does not, the extract is the report in its order.        *)
(***************************************************************************)
EXTENDS FjellvikExtraction, FiniteSetTheorems, SequenceTheorems, WellFoundedInduction, TLAPS

-----------------------------------------------------------------------------
(* The requests *)

Ends == {"failed", "unmappable", "unknown account", "out of range"}

RequestTypes ==
    /\ requestIndex \in Nat
    /\ attempt \in 1..MaxAttempts
    /\ phase \in {"accounts", "pages", "done"} \cup Ends

Window(i) == i..(i + MaxAttempts - 1)

(* The requests before the next one, back to the last that was answered,   *)
(* are the attempts of the current fetch; no earlier fetch used them up.   *)
Streak ==
    /\ Requesting =>
          /\ attempt <= requestIndex + 1
          /\ (requestIndex - attempt + 1)..(requestIndex - 1) \subseteq planned
          /\ attempt <= requestIndex => requestIndex - attempt \notin planned
    /\ Requesting \/ phase = "done" =>
          \A i \in 0..(requestIndex - MaxAttempts) : ~(Window(i) \subseteq planned)
    /\ phase = "failed" => requestIndex - MaxAttempts .. requestIndex - 1 \subseteq planned

RequestInv == RequestTypes /\ Streak

LEMMA InitRequests == Init => RequestInv
  BY AttemptsAssumption DEF Init, RequestInv, RequestTypes, Streak, Requesting

(* A request that is answered is in no window of refusals. *)
LEMMA AnsweredKeepsRequests ==
    ASSUME RequestInv, Requesting, ~RateLimited, Request, NextFetch,
           planned' = planned, phase' \in {"accounts", "pages", "done"}
    PROVE  RequestInv'
<1>1. RequestTypes'
  BY AttemptsAssumption DEF RequestInv, RequestTypes, Request, NextFetch
<1>2. ASSUME NEW i \in 0..(requestIndex' - MaxAttempts)
      PROVE  ~(Window(i) \subseteq planned)
  <2>1. CASE i \in 0..(requestIndex - MaxAttempts)
    BY <2>1 DEF RequestInv, Streak
  <2>2. CASE i = requestIndex + 1 - MaxAttempts
    <3>1. requestIndex \in Window(i)
      BY <2>2, AttemptsAssumption DEF RequestInv, RequestTypes, Window
    <3>2. QED
      BY <3>1 DEF RateLimited
  <2>3. QED
    BY <2>1, <2>2, AttemptsAssumption DEF RequestInv, RequestTypes, Request
<1>3. QED
  BY <1>1, <1>2
     DEF RequestInv, RequestTypes, Streak, Requesting, Request, NextFetch, RateLimited, Window

(* A refused request lengthens the streak, but not to a whole window.      *)
LEMMA RetryKeepsRequests == RequestInv /\ Retry => RequestInv'
<1> SUFFICES ASSUME RequestInv, Retry
             PROVE  RequestInv'
  OBVIOUS
<1>1. RequestTypes'
  BY AttemptsAssumption DEF RequestInv, RequestTypes, Retry, Request
<1>2. ASSUME NEW i \in 0..(requestIndex' - MaxAttempts)
      PROVE  ~(Window(i) \subseteq planned)
  <2>1. CASE i \in 0..(requestIndex - MaxAttempts)
    BY <2>1 DEF RequestInv, Streak, Retry
  <2>2. CASE i = requestIndex + 1 - MaxAttempts
    <3>1. requestIndex - attempt \in Window(i) /\ attempt <= requestIndex
      BY <2>2, AttemptsAssumption DEF RequestInv, RequestTypes, Retry, Window
    <3>2. QED
      BY <3>1 DEF RequestInv, Streak, Retry
  <2>3. QED
    BY <2>1, <2>2, AttemptsAssumption DEF RequestInv, RequestTypes, Retry, Request
<1>3. (requestIndex' - attempt' + 1)..(requestIndex' - 1) \subseteq planned
  BY DEF RequestInv, RequestTypes, Streak, Retry, Request, RateLimited
<1>4. QED
  BY <1>1, <1>2, <1>3
     DEF RequestInv, RequestTypes, Streak, Requesting, Request, Retry, Window

LEMMA GiveUpKeepsRequests == RequestInv /\ GiveUp => RequestInv'
<1> SUFFICES ASSUME RequestInv, GiveUp
             PROVE  RequestInv'
  OBVIOUS
<1>1. RequestTypes'
  <2>1. phase' \in Ends
    BY DEF GiveUp, Ends
  <2>2. requestIndex' \in Nat /\ attempt' \in 1..MaxAttempts
    BY DEF RequestInv, RequestTypes, GiveUp, Request
  <2>3. QED
    BY <2>1, <2>2 DEF RequestTypes
<1>2. requestIndex' - MaxAttempts .. requestIndex' - 1 \subseteq planned
  BY AttemptsAssumption DEF RequestInv, RequestTypes, Streak, GiveUp, Request, RateLimited
<1>3. QED
  BY <1>1, <1>2 DEF RequestInv, Streak, Requesting, GiveUp

Raises == RaiseUnmappableAccount \/ RaiseUnknownAccount \/ RaiseOutOfRange \/ RaiseUnmappable

LEMMA RaisesRaise ==
    ASSUME Raises
    PROVE  /\ Requesting /\ ~RateLimited /\ Request
           /\ phase' \in Ends \ {"failed"}
           /\ UNCHANGED <<report, listing, planned, accountIndex, pageNumber, attempt, extracted,
                          changes, historyVars>>
  BY DEF Raises, RaiseUnmappableAccount, RaiseUnknownAccount, RaiseOutOfRange, RaiseUnmappable,
         Raise, Answered, Requesting, Ends

AccountStep ==
    \E account \in AccountSet :
        \/ \E entry \in Entries, status \in {"booked", "pending"} : Add(account, entry, status)
        \/ \E i \in DOMAIN report[account].pending : Book(account, i)
        \/ \E status \in {"booked", "pending"} :
              \E i \in DOMAIN report[account][status] : Withdraw(account, i, status)

LEMMA AccountStepChanges == AccountStep => Change
  BY DEF AccountStep, Add, Book, Withdraw

LEMMA NextRequests == RequestInv /\ [Next]_vars => RequestInv'
<1> SUFFICES ASSUME RequestInv, [Next]_vars
             PROVE  RequestInv'
  OBVIOUS
<1>1. CASE ListAccounts
  BY <1>1, AnsweredKeepsRequests DEF ListAccounts, Requesting, Answered
<1>2. CASE ReadPage
  BY <1>2, AnsweredKeepsRequests DEF ReadPage, Requesting, Answered
<1>3. CASE Raises
  <2>1. ~Requesting' /\ phase' # "done" /\ phase' # "failed"
    BY <1>3, RaisesRaise DEF Requesting, Ends
  <2>2. RequestTypes'
    BY <1>3, RaisesRaise DEF RequestInv, RequestTypes, Request
  <2>3. QED
    BY <2>1, <2>2 DEF RequestInv, Streak
<1>4. CASE Rerun
  BY <1>4, AttemptsAssumption DEF Rerun, RequestInv, RequestTypes, Streak, Requesting
<1>5. CASE UNCHANGED <<planned, requestIndex, phase, attempt>>
  BY <1>5 DEF RequestInv, RequestTypes, Streak, Requesting, Window
<1>6. CASE AccountStep
  BY <1>5, <1>6, AccountStepChanges DEF Change, adapterVars
<1>7. CASE UNCHANGED vars
  BY <1>5, <1>7 DEF vars, bankVars, adapterVars
<1>8. QED
  BY <1>1, <1>2, <1>3, <1>4, <1>6, <1>7, RetryKeepsRequests, GiveUpKeepsRequests
     DEF Next, AccountStep, Raises

(* The bank is given up exactly when one request was refused MaxAttempts   *)
(* times in a row, whatever the plan of refusals.                          *)
THEOREM OutagesAreConsecutive == Spec => []OutageNeedsConsecutiveRefusals
<1>1. RequestInv => OutageNeedsConsecutiveRefusals
  BY DEF RequestInv, Streak, OutageNeedsConsecutiveRefusals, Window
<1>2. QED
  BY <1>1, InitRequests, NextRequests, PTL DEF Spec

-----------------------------------------------------------------------------
(* The report *)

LEMMA RecordsOfReport ==
    ASSUME NEW some \in Reports
    PROVE  /\ RecordsOf(some) \subseteq Records
           /\ \A r \in Records :
                 r \in RecordsOf(some) <=> r.entry \in EntriesOf(some, r.account, r.status)
<1>1. \A account \in AccountSet, status \in {"booked", "pending"} :
         EntriesOf(some, account, status) \subseteq Entries
  BY DEF Reports, EntriesOf, ToSet
<1>2. \A r : r \in RecordsOf(some) <=>
         \E account \in AccountSet :
            \/ r \in RecordsWith(account, EntriesOf(some, account, "booked"), "booked")
            \/ r \in RecordsWith(account, EntriesOf(some, account, "pending"), "pending")
  BY DEF RecordsOf
<1>3. QED
  BY <1>1, <1>2 DEF RecordsWith, Records

LEMMA TaggedOne ==
    ASSUME NEW some \in Seq(Entries), NEW status \in {"booked", "pending"}
    PROVE  /\ Tagged(some, status) \in Seq([entry : Entries, status : {"booked", "pending"}])
           /\ Len(Tagged(some, status)) = Len(some)
           /\ \A i \in 1..Len(some) : Tagged(some, status)[i] = [entry |-> some[i], status |-> status]
<1>1. Tagged(some, status) = [i \in 1..Len(some) |-> [entry |-> some[i], status |-> status]]
  BY DEF Tagged
<1>2. \A i \in 1..Len(some) : [entry |-> some[i], status |-> status] \in [entry : Entries, status : {"booked", "pending"}]
  OBVIOUS
<1>3. QED
  BY <1>1, <1>2

TaggedTypes == [entry : Entries, status : {"booked", "pending"}]

Listed(booked, pending) == Tagged(booked, "booked") \o Tagged(pending, "pending")

(* The entries of an account in the order in which the bank serves them *)
LEMMA TaggedOrder ==
    ASSUME NEW booked \in Seq(Entries), NEW pending \in Seq(Entries)
    PROVE  /\ Listed(booked, pending) \in Seq(TaggedTypes)
           /\ Len(Listed(booked, pending)) = Len(booked) + Len(pending)
           /\ \A i \in 1..Len(booked) :
                 Listed(booked, pending)[i] = [entry |-> booked[i], status |-> "booked"]
           /\ \A i \in 1..Len(pending) :
                 Listed(booked, pending)[Len(booked) + i] = [entry |-> pending[i], status |-> "pending"]
<1>1. PICK first, second :
         first = Tagged(booked, "booked") /\ second = Tagged(pending, "pending")
  OBVIOUS
<1>2. /\ first \in Seq(TaggedTypes) /\ Len(first) = Len(booked)
      /\ \A i \in 1..Len(first) : first[i] = [entry |-> booked[i], status |-> "booked"]
  BY <1>1, TaggedOne DEF TaggedTypes
<1>3. /\ second \in Seq(TaggedTypes) /\ Len(second) = Len(pending)
      /\ \A i \in 1..Len(second) : second[i] = [entry |-> pending[i], status |-> "pending"]
  BY <1>1, TaggedOne DEF TaggedTypes
<1>4. first \in Seq(TaggedTypes) /\ second \in Seq(TaggedTypes)
  BY <1>2, <1>3
<1>5. first \o second \in Seq(TaggedTypes)
  BY <1>4
<1>6. Len(first \o second) = Len(first) + Len(second)
  BY <1>4
<1>7. \A i \in 1..Len(first) : (first \o second)[i] = first[i]
  BY <1>4
<1>8. \A i \in 1..Len(second) : (first \o second)[Len(first) + i] = second[i]
  BY <1>4
<1>9. QED
  BY <1>1, <1>2, <1>3, <1>5, <1>6, <1>7, <1>8 DEF Listed

(* Nothing in a list has moved forward, and x is the only thing new.       *)
Behind(old, new, x) ==
    /\ Len(old) <= Len(new)
    /\ \A i \in 1..Len(new) :
          new[i] = x \/ \E j \in 1..Len(old) : j <= i /\ old[j] = new[i]

LEMMA StandsBehind ==
    ASSUME NEW booked \in Seq(Entries), NEW pending \in Seq(Entries),
           NEW booked2 \in Seq(Entries), NEW pending2 \in Seq(Entries), NEW x,
           Len(booked) + Len(pending) <= Len(booked2) + Len(pending2),
           \A i \in 1..Len(booked2) :
              \/ i \in 1..Len(booked) /\ booked2[i] = booked[i]
              \/ [entry |-> booked2[i], status |-> "booked"] = x,
           \A i \in 1..Len(pending2) :
              \/ [entry |-> pending2[i], status |-> "pending"] = x
              \/ \E m \in 1..Len(pending) :
                    pending[m] = pending2[i] /\ Len(booked) + m <= Len(booked2) + i
    PROVE  Behind(Listed(booked, pending), Listed(booked2, pending2), x)
<1>1. PICK old, new : old = Listed(booked, pending) /\ new = Listed(booked2, pending2)
  OBVIOUS
<1>2. /\ Len(old) = Len(booked) + Len(pending)
      /\ \A i \in 1..Len(booked) : old[i] = [entry |-> booked[i], status |-> "booked"]
      /\ \A i \in 1..Len(pending) : old[Len(booked) + i] = [entry |-> pending[i], status |-> "pending"]
  BY <1>1, TaggedOrder
<1>3. /\ Len(new) = Len(booked2) + Len(pending2)
      /\ \A i \in 1..Len(booked2) : new[i] = [entry |-> booked2[i], status |-> "booked"]
      /\ \A i \in 1..Len(pending2) :
            new[Len(booked2) + i] = [entry |-> pending2[i], status |-> "pending"]
  BY <1>1, TaggedOrder
<1>4. PICK b \in Nat, p \in Nat, b2 \in Nat, p2 \in Nat :
         b = Len(booked) /\ p = Len(pending) /\ b2 = Len(booked2) /\ p2 = Len(pending2)
  OBVIOUS
<1>5. ASSUME NEW i \in 1..Len(new), new[i] # x
      PROVE  \E j \in 1..Len(old) : j <= i /\ old[j] = new[i]
  <2>1. i \in 1..(b2 + p2)
    BY <1>3, <1>4
  <2>2. CASE i <= b2
    <3>1. i \in 1..b2
      BY <2>1, <2>2
    <3>2. new[i] = [entry |-> booked2[i], status |-> "booked"]
      BY <1>3, <1>4, <3>1
    <3>3. i \in 1..b /\ booked2[i] = booked[i]
      BY <1>4, <1>5, <3>1, <3>2
    <3>4. old[i] = new[i]
      BY <1>2, <1>4, <3>2, <3>3
    <3>5. i \in 1..Len(old) /\ i <= i
      BY <1>2, <1>4, <3>3
    <3>6. QED
      BY <3>4, <3>5
  <2>3. CASE ~(i <= b2)
    <3>1. PICK k : k = i - b2
      OBVIOUS
    <3>2. k \in 1..p2 /\ i = b2 + k
      BY <2>1, <2>3, <3>1
    <3>3. new[i] = [entry |-> pending2[k], status |-> "pending"]
      BY <1>3, <1>4, <3>2
    <3>4. PICK m \in 1..p : pending[m] = pending2[k] /\ b + m <= b2 + k
      BY <1>4, <1>5, <3>2, <3>3
    <3>5. old[b + m] = [entry |-> pending[m], status |-> "pending"]
      BY <1>2, <1>4, <3>4
    <3>6. b + m \in 1..Len(old) /\ b + m <= i
      BY <1>2, <1>4, <3>2, <3>4
    <3>7. QED
      BY <3>3, <3>4, <3>5, <3>6
  <2>4. QED
    BY <2>2, <2>3
<1>6. Len(old) <= Len(new)
  BY <1>2, <1>3
<1>7. QED
  BY <1>1, <1>5, <1>6 DEF Behind

LEMMA BookedStandsBehind ==
    ASSUME NEW booked \in Seq(Entries), NEW pending \in Seq(Entries), NEW entry \in Entries
    PROVE  Behind(Listed(booked, pending), Listed(Append(booked, entry), pending),
                  [entry |-> entry, status |-> "booked"])
<1>1. PICK more : more = Append(booked, entry)
  OBVIOUS
<1>2. /\ more \in Seq(Entries) /\ Len(more) = Len(booked) + 1 /\ more[Len(booked) + 1] = entry
      /\ \A i \in 1..Len(booked) : more[i] = booked[i]
  BY <1>1
<1>3. /\ Len(booked) + Len(pending) <= Len(more) + Len(pending)
      /\ \A i \in 1..Len(more) :
            \/ i \in 1..Len(booked) /\ more[i] = booked[i]
            \/ [entry |-> more[i], status |-> "booked"] = [entry |-> entry, status |-> "booked"]
      /\ \A i \in 1..Len(pending) : Len(booked) + i <= Len(more) + i
  BY <1>2
<1>4. QED
  BY <1>1, <1>2, <1>3, StandsBehind

LEMMA PendingStandsBehind ==
    ASSUME NEW booked \in Seq(Entries), NEW pending \in Seq(Entries), NEW entry \in Entries
    PROVE  Behind(Listed(booked, pending), Listed(booked, Append(pending, entry)),
                  [entry |-> entry, status |-> "pending"])
<1>1. PICK more : more = Append(pending, entry)
  OBVIOUS
<1>2. /\ more \in Seq(Entries) /\ Len(more) = Len(pending) + 1 /\ more[Len(pending) + 1] = entry
      /\ \A i \in 1..Len(pending) : more[i] = pending[i]
  BY <1>1
<1>3. /\ Len(booked) + Len(pending) <= Len(booked) + Len(more)
      /\ \A i \in 1..Len(more) :
            \/ [entry |-> more[i], status |-> "pending"] = [entry |-> entry, status |-> "pending"]
            \/ i \in 1..Len(pending) /\ pending[i] = more[i] /\ Len(booked) + i <= Len(booked) + i
  BY <1>2
<1>4. QED
  BY <1>1, <1>2, <1>3, StandsBehind

LEMMA RemoveOne ==
    ASSUME NEW S, NEW s \in Seq(S), NEW k \in 1..Len(s)
    PROVE  /\ RemoveAt(s, k) \in Seq(S)
           /\ Len(RemoveAt(s, k)) = Len(s) - 1
           /\ \A i \in 1..(k - 1) : RemoveAt(s, k)[i] = s[i]
           /\ \A i \in k..(Len(s) - 1) : RemoveAt(s, k)[i] = s[i + 1]
<1>1. PICK first, second : first = SubSeq(s, 1, k - 1) /\ second = SubSeq(s, k + 1, Len(s))
  OBVIOUS
<1>2. first \in Seq(S) /\ Len(first) = k - 1 /\ \A i \in 1..(k - 1) : first[i] = s[i]
  BY <1>1
<1>3. second \in Seq(S) /\ Len(second) = Len(s) - k /\ \A i \in 1..(Len(s) - k) : second[i] = s[k + i]
  BY <1>1
<1>4. first \in Seq(S) /\ second \in Seq(S)
  BY <1>2, <1>3
<1>5. first \o second \in Seq(S)
  BY <1>4
<1>6. Len(first \o second) = Len(first) + Len(second)
  BY <1>4
<1>7. \A i \in 1..Len(first) : (first \o second)[i] = first[i]
  BY <1>4
<1>8. \A i \in 1..Len(second) : (first \o second)[Len(first) + i] = second[i]
  BY <1>4
<1>9. ASSUME NEW i \in k..(Len(s) - 1)
      PROVE  (first \o second)[i] = s[i + 1]
  <2>1. i - (k - 1) \in 1..Len(second) /\ i = Len(first) + (i - (k - 1))
    BY <1>2, <1>3
  <2>2. (first \o second)[i] = second[i - (k - 1)]
    BY <1>8, <2>1
  <2>3. second[i - (k - 1)] = s[k + (i - (k - 1))]
    BY <1>3, <2>1
  <2>4. QED
    BY <2>2, <2>3
<1>10. RemoveAt(s, k) = first \o second
  BY <1>1 DEF RemoveAt
<1>11. Len(first \o second) = Len(s) - 1
  BY <1>2, <1>3, <1>6
<1>12. \A i \in 1..(k - 1) : (first \o second)[i] = s[i]
  BY <1>2, <1>7
<1>13. QED
  BY <1>5, <1>9, <1>10, <1>11, <1>12

LEMMA MovedStandsBehind ==
    ASSUME NEW booked \in Seq(Entries), NEW pending \in Seq(Entries), NEW k \in 1..Len(pending)
    PROVE  Behind(Listed(booked, pending), Listed(Append(booked, pending[k]), RemoveAt(pending, k)),
                  [entry |-> pending[k], status |-> "booked"])
<1>1. PICK more, rest : more = Append(booked, pending[k]) /\ rest = RemoveAt(pending, k)
  OBVIOUS
<1>2. /\ more \in Seq(Entries) /\ Len(more) = Len(booked) + 1 /\ more[Len(booked) + 1] = pending[k]
      /\ \A i \in 1..Len(booked) : more[i] = booked[i]
  BY <1>1
<1>3. /\ rest \in Seq(Entries) /\ Len(rest) = Len(pending) - 1
      /\ \A i \in 1..(k - 1) : rest[i] = pending[i]
      /\ \A i \in k..(Len(pending) - 1) : rest[i] = pending[i + 1]
  BY <1>1, RemoveOne
<1>4. PICK b \in Nat, p \in Nat : b = Len(booked) /\ p = Len(pending)
  OBVIOUS
<1>5. ASSUME NEW i \in 1..Len(rest)
      PROVE  \E m \in 1..Len(pending) : pending[m] = rest[i] /\ Len(booked) + m <= Len(more) + i
  <2>1. i \in 1..(p - 1) /\ Len(more) = b + 1 /\ k \in 1..p
    BY <1>2, <1>3, <1>4
  <2>2. PICK m \in {i, i + 1} : pending[m] = rest[i]
    BY <1>3, <1>4, <2>1
  <2>3. m \in 1..p /\ b + m <= b + 1 + i
    BY <2>1
  <2>4. QED
    BY <1>4, <2>1, <2>2, <2>3
<1>6. Len(booked) + Len(pending) <= Len(more) + Len(rest)
  BY <1>2, <1>3, <1>4
<1>7. \A i \in 1..Len(more) :
         \/ i \in 1..Len(booked) /\ more[i] = booked[i]
         \/ [entry |-> more[i], status |-> "booked"] = [entry |-> pending[k], status |-> "booked"]
  BY <1>2
<1>8. more \in Seq(Entries) /\ rest \in Seq(Entries)
  BY <1>2, <1>3
<1>9. QED
  BY <1>1, <1>5, <1>6, <1>7, <1>8, StandsBehind

(* Nothing in a list has moved forward by more than one place.             *)
Closer(old, new) ==
    \A i \in 1..Len(new) : \E j \in 1..Len(old) : j <= i + 1 /\ old[j] = new[i]

LEMMA StandsCloser ==
    ASSUME NEW booked \in Seq(Entries), NEW pending \in Seq(Entries),
           NEW booked2 \in Seq(Entries), NEW pending2 \in Seq(Entries),
           \A i \in 1..Len(booked2) :
              \E j \in 1..Len(booked) : j <= i + 1 /\ booked[j] = booked2[i],
           \A i \in 1..Len(pending2) :
              \E m \in 1..Len(pending) :
                 pending[m] = pending2[i] /\ Len(booked) + m <= Len(booked2) + i + 1
    PROVE  Closer(Listed(booked, pending), Listed(booked2, pending2))
<1>1. PICK old, new : old = Listed(booked, pending) /\ new = Listed(booked2, pending2)
  OBVIOUS
<1>2. /\ Len(old) = Len(booked) + Len(pending)
      /\ \A i \in 1..Len(booked) : old[i] = [entry |-> booked[i], status |-> "booked"]
      /\ \A i \in 1..Len(pending) : old[Len(booked) + i] = [entry |-> pending[i], status |-> "pending"]
  BY <1>1, TaggedOrder
<1>3. /\ Len(new) = Len(booked2) + Len(pending2)
      /\ \A i \in 1..Len(booked2) : new[i] = [entry |-> booked2[i], status |-> "booked"]
      /\ \A i \in 1..Len(pending2) :
            new[Len(booked2) + i] = [entry |-> pending2[i], status |-> "pending"]
  BY <1>1, TaggedOrder
<1>4. PICK b \in Nat, p \in Nat, b2 \in Nat, p2 \in Nat :
         b = Len(booked) /\ p = Len(pending) /\ b2 = Len(booked2) /\ p2 = Len(pending2)
  OBVIOUS
<1>5. ASSUME NEW i \in 1..Len(new)
      PROVE  \E j \in 1..Len(old) : j <= i + 1 /\ old[j] = new[i]
  <2>1. i \in 1..(b2 + p2)
    BY <1>3, <1>4
  <2>2. CASE i <= b2
    <3>1. i \in 1..b2
      BY <2>1, <2>2
    <3>2. PICK j \in 1..b : j <= i + 1 /\ booked[j] = booked2[i]
      BY <1>4, <3>1
    <3>3. old[j] = [entry |-> booked[j], status |-> "booked"] /\ new[i] = [entry |-> booked2[i], status |-> "booked"]
      BY <1>2, <1>3, <1>4, <3>1
    <3>4. j \in 1..Len(old)
      BY <1>2, <1>4
    <3>5. QED
      BY <3>2, <3>3, <3>4
  <2>3. CASE ~(i <= b2)
    <3>1. PICK k : k = i - b2
      OBVIOUS
    <3>2. k \in 1..p2 /\ i = b2 + k
      BY <2>1, <2>3, <3>1
    <3>3. new[i] = [entry |-> pending2[k], status |-> "pending"]
      BY <1>3, <1>4, <3>2
    <3>4. PICK m \in 1..p : pending[m] = pending2[k] /\ b + m <= b2 + k + 1
      BY <1>4, <3>2
    <3>5. old[b + m] = [entry |-> pending[m], status |-> "pending"]
      BY <1>2, <1>4, <3>4
    <3>6. b + m \in 1..Len(old) /\ b + m <= i + 1
      BY <1>2, <1>4, <3>2, <3>4
    <3>7. QED
      BY <3>3, <3>4, <3>5, <3>6
  <2>4. QED
    BY <2>2, <2>3
<1>6. QED
  BY <1>1, <1>5 DEF Closer

LEMMA BookedStandsCloser ==
    ASSUME NEW booked \in Seq(Entries), NEW pending \in Seq(Entries), NEW k \in 1..Len(booked)
    PROVE  Closer(Listed(booked, pending), Listed(RemoveAt(booked, k), pending))
<1>1. PICK rest : rest = RemoveAt(booked, k)
  OBVIOUS
<1>2. /\ rest \in Seq(Entries) /\ Len(rest) = Len(booked) - 1
      /\ \A i \in 1..(k - 1) : rest[i] = booked[i]
      /\ \A i \in k..(Len(booked) - 1) : rest[i] = booked[i + 1]
  BY <1>1, RemoveOne
<1>3. PICK b \in Nat : b = Len(booked)
  OBVIOUS
<1>4. ASSUME NEW i \in 1..Len(rest)
      PROVE  \E j \in 1..Len(booked) : j <= i + 1 /\ booked[j] = rest[i]
  <2>1. i \in 1..(b - 1) /\ k \in 1..b
    BY <1>2, <1>3
  <2>2. PICK j \in {i, i + 1} : booked[j] = rest[i]
    BY <1>2, <1>3, <2>1
  <2>3. j \in 1..b /\ j <= i + 1
    BY <2>1
  <2>4. QED
    BY <1>3, <2>2, <2>3
<1>5. \A i \in 1..Len(pending) : Len(booked) + i <= Len(rest) + i + 1
  BY <1>2
<1>6. QED
  BY <1>1, <1>2, <1>4, <1>5, StandsCloser

LEMMA PendingStandsCloser ==
    ASSUME NEW booked \in Seq(Entries), NEW pending \in Seq(Entries), NEW k \in 1..Len(pending)
    PROVE  Closer(Listed(booked, pending), Listed(booked, RemoveAt(pending, k)))
<1>1. PICK rest : rest = RemoveAt(pending, k)
  OBVIOUS
<1>2. /\ rest \in Seq(Entries) /\ Len(rest) = Len(pending) - 1
      /\ \A i \in 1..(k - 1) : rest[i] = pending[i]
      /\ \A i \in k..(Len(pending) - 1) : rest[i] = pending[i + 1]
  BY <1>1, RemoveOne
<1>3. PICK b \in Nat, p \in Nat : b = Len(booked) /\ p = Len(pending)
  OBVIOUS
<1>4. ASSUME NEW i \in 1..Len(rest)
      PROVE  \E m \in 1..Len(pending) :
                pending[m] = rest[i] /\ Len(booked) + m <= Len(booked) + i + 1
  <2>1. i \in 1..(p - 1) /\ k \in 1..p
    BY <1>2, <1>3
  <2>2. PICK m \in {i, i + 1} : pending[m] = rest[i]
    BY <1>2, <1>3, <2>1
  <2>3. m \in 1..p /\ b + m <= b + i + 1
    BY <2>1
  <2>4. QED
    BY <1>3, <2>2, <2>3
<1>5. \A i \in 1..Len(booked) : i <= i + 1
  OBVIOUS
<1>6. QED
  BY <1>1, <1>2, <1>4, <1>5, StandsCloser

WorldInv ==
    /\ report \in Reports /\ OnePlace(report)
    /\ steady \subseteq RecordsOf(report) /\ RecordsOf(report) \subseteq seen
    /\ seen \subseteq Records
    /\ withdrawn \in Nat

(* What an added or a booked entry does to the report: nothing in it moves *)
(* towards the pages that have been read.                                  *)
Grows ==
    /\ report' \in Reports /\ OnePlace(report')
    /\ \E x :
          /\ \A account \in AccountSet :
                /\ Behind(TaggedEntries(account), TaggedEntries(account)', x)
                /\ Record(account, x) \notin RecordsOf(report)
          /\ \E account \in AccountSet : Record(account, x) \in RecordsOf(report')

(* What a withdrawal does to it: the entries behind move by one place.     *)
Shrinks ==
    /\ report' \in Reports /\ OnePlace(report')
    /\ \A account \in AccountSet : Closer(TaggedEntries(account), TaggedEntries(account)')
    /\ ~(RecordsOf(report) \subseteq RecordsOf(report'))

(* What entries an account reports, after one of the changes *)
LEMMA AppendedEntries ==
    ASSUME NEW some \in Seq(Entries), NEW entry \in Entries
    PROVE  Append(some, entry) \in Seq(Entries) /\ ToSet(Append(some, entry)) = ToSet(some) \cup {entry}
<1>1. PICK more : more = Append(some, entry)
  OBVIOUS
<1>2. PICK n \in Nat : n = Len(some)
  OBVIOUS
<1>3. /\ more \in Seq(Entries) /\ DOMAIN more = 1..(n + 1) /\ DOMAIN some = 1..n
      /\ \A i \in 1..n : more[i] = some[i]
      /\ more[n + 1] = entry
  BY <1>1, <1>2
<1>4. \A i \in 1..(n + 1) : i \in 1..n \/ i = n + 1
  BY <1>2
<1>5. n + 1 \in 1..(n + 1) /\ 1..n \subseteq 1..(n + 1)
  BY <1>2
<1>6. ToSet(more) = ToSet(some) \cup {entry}
  BY <1>3, <1>4, <1>5 DEF ToSet
<1>7. QED
  BY <1>1, <1>3, <1>6

LEMMA RemovedEntries ==
    ASSUME NEW some \in Seq(Entries), IsInjective(some), NEW k \in 1..Len(some)
    PROVE  /\ RemoveAt(some, k) \in Seq(Entries)
           /\ ToSet(RemoveAt(some, k)) = ToSet(some) \ {some[k]}
           /\ IsInjective(RemoveAt(some, k))
<1>1. PICK rest : rest = RemoveAt(some, k)
  OBVIOUS
<1>2. /\ rest \in Seq(Entries) /\ Len(rest) = Len(some) - 1
      /\ \A i \in 1..(k - 1) : rest[i] = some[i]
      /\ \A i \in k..(Len(some) - 1) : rest[i] = some[i + 1]
  BY <1>1, RemoveOne
<1>3. PICK n \in Nat : n = Len(some)
  OBVIOUS
<1>4. \A i, j \in 1..n : some[i] = some[j] => i = j
  BY <1>3 DEF IsInjective
<1>5. \A i \in 1..(n - 1) : rest[i] = IF i < k THEN some[i] ELSE some[i + 1]
  BY <1>2, <1>3
<1>6. DOMAIN rest = 1..(n - 1) /\ DOMAIN some = 1..n
  BY <1>2, <1>3
<1>7. IsInjective(rest)
  BY <1>3, <1>4, <1>5, <1>6 DEF IsInjective
<1>8. ASSUME NEW i \in 1..(n - 1)
      PROVE  rest[i] \in ToSet(some) \ {some[k]}
  BY <1>3, <1>4, <1>5, <1>6 DEF ToSet
<1>9. ASSUME NEW i \in 1..n, i # k
      PROVE  some[i] \in ToSet(rest)
  <2>1. CASE i < k
    <3>1. i \in 1..(n - 1) /\ rest[i] = some[i]
      BY <1>3, <1>5, <2>1
    <3>2. QED
      BY <1>6, <3>1 DEF ToSet
  <2>2. CASE i > k
    <3>1. i - 1 \in 1..(n - 1) /\ rest[i - 1] = some[i]
      BY <1>3, <1>5, <2>2
    <3>2. QED
      BY <1>6, <3>1 DEF ToSet
  <2>3. QED
    BY <1>3, <1>9, <2>1, <2>2
<1>10. ToSet(rest) = ToSet(some) \ {some[k]}
  BY <1>3, <1>6, <1>8, <1>9 DEF ToSet
<1>11. QED
  BY <1>1, <1>2, <1>7, <1>10

LEMMA AppendedStaysInjective ==
    ASSUME NEW some \in Seq(Entries), IsInjective(some), NEW entry \in Entries, entry \notin ToSet(some)
    PROVE  IsInjective(Append(some, entry))
<1>1. PICK more : more = Append(some, entry)
  OBVIOUS
<1>2. PICK n \in Nat : n = Len(some)
  OBVIOUS
<1>3. /\ DOMAIN more = 1..(n + 1) /\ DOMAIN some = 1..n
      /\ \A i \in 1..n : more[i] = some[i]
      /\ more[n + 1] = entry
  BY <1>1, <1>2
<1>4. \A i \in 1..n : some[i] # entry
  BY <1>3 DEF ToSet
<1>5. \A i, j \in 1..n : some[i] = some[j] => i = j
  BY <1>3 DEF IsInjective
<1>6. ASSUME NEW i \in 1..(n + 1), NEW j \in 1..(n + 1), more[i] = more[j]
      PROVE  i = j
  BY <1>2, <1>3, <1>4, <1>5, <1>6
<1>7. QED
  BY <1>1, <1>3, <1>6 DEF IsInjective

AccountChanges(account, booked, pending) ==
    /\ report' \in Reports
    /\ report'[account].booked = booked /\ report'[account].pending = pending
    /\ \A other \in AccountSet \ {account} : report'[other] = report[other]

LEMMA ReportChanges ==
    ASSUME report \in Reports, NEW account \in AccountSet,
           NEW booked \in Seq(Entries), NEW pending \in Seq(Entries),
           report' = [report EXCEPT ![account] = [booked |-> booked, pending |-> pending]]
    PROVE  AccountChanges(account, booked, pending)
  BY DEF AccountChanges, Reports

LEMMA EntriesChange ==
    ASSUME report \in Reports, NEW account \in AccountSet, NEW booked, NEW pending,
           AccountChanges(account, booked, pending)
    PROVE  /\ EntriesOf(report', account, "booked") = ToSet(booked)
           /\ EntriesOf(report', account, "pending") = ToSet(pending)
           /\ \A other \in AccountSet \ {account}, status \in {"booked", "pending"} :
                 EntriesOf(report', other, status) = EntriesOf(report, other, status)
           /\ TaggedEntries(account) = Listed(report[account].booked, report[account].pending)
           /\ TaggedEntries(account)' = Listed(booked, pending)
           /\ \A other \in AccountSet \ {account} : TaggedEntries(other)' = TaggedEntries(other)
  BY DEF AccountChanges, EntriesOf, TaggedEntries, Listed

LEMMA NothingMoves ==
    ASSUME report \in Reports, NEW account \in AccountSet, NEW x
    PROVE  Behind(TaggedEntries(account), TaggedEntries(account), x)
<1>1. report[account].booked \in Seq(Entries) /\ report[account].pending \in Seq(Entries)
  BY DEF Reports
<1>2. Len(TaggedEntries(account)) \in Nat
  BY <1>1, TaggedOrder DEF TaggedEntries, Listed
<1>3. QED
  BY <1>2 DEF Behind

LEMMA PrimedRecords == RecordsOf(report)' = RecordsOf(report')
  BY DEF RecordsOf, RecordsWith, EntriesOf

LEMMA StaysOnePlace ==
    ASSUME report \in Reports, OnePlace(report), NEW account \in AccountSet,
           NEW booked \in Seq(Entries), NEW pending \in Seq(Entries),
           AccountChanges(account, booked, pending),
           IsInjective(booked), IsInjective(pending), ToSet(booked) \cap ToSet(pending) = {},
           \A other \in AccountSet \ {account}, status \in {"booked", "pending"} :
              EntriesOf(report, other, status) \cap (ToSet(booked) \cup ToSet(pending)) = {}
    PROVE  OnePlace(report')
<1>1. /\ EntriesOf(report', account, "booked") = ToSet(booked)
      /\ EntriesOf(report', account, "pending") = ToSet(pending)
      /\ \A other \in AccountSet \ {account}, status \in {"booked", "pending"} :
            EntriesOf(report', other, status) = EntriesOf(report, other, status)
  BY EntriesChange
<1>2. \A a, b \in AccountSet : EntriesOf(report', a, "booked") \cap EntriesOf(report', b, "pending") = {}
  <2>1. TAKE a, b \in AccountSet
  <2>2. CASE a = account /\ b = account
    BY <1>1, <2>2
  <2>3. CASE a # account /\ b = account
    BY <1>1, <2>3
  <2>4. CASE a = account /\ b # account
    BY <1>1, <2>4
  <2>5. CASE a # account /\ b # account
    BY <1>1, <2>5 DEF OnePlace
  <2>6. QED
    BY <2>2, <2>3, <2>4, <2>5
<1>3. \A a, b \in AccountSet, status \in {"booked", "pending"} : a # b =>
         EntriesOf(report', a, status) \cap EntriesOf(report', b, status) = {}
  <2>1. TAKE a, b \in AccountSet, status \in {"booked", "pending"}
  <2>2. CASE a = account /\ b # account
    BY <1>1, <2>2
  <2>3. CASE a # account /\ b = account
    BY <1>1, <2>3
  <2>4. CASE a # account /\ b # account
    BY <1>1, <2>4 DEF OnePlace
  <2>5. QED
    BY <2>2, <2>3, <2>4
<1>4. \A a \in AccountSet : IsInjective(report'[a].booked) /\ IsInjective(report'[a].pending)
  BY DEF AccountChanges, OnePlace
<1>5. QED
  BY <1>2, <1>3, <1>4 DEF OnePlace

(* An entry is reported of one account only. *)
LEMMA Elsewhere ==
    ASSUME OnePlace(report), NEW account \in AccountSet, NEW other \in AccountSet \ {account},
           NEW status \in {"booked", "pending"}
    PROVE  EntriesOf(report, other, status)
              \cap (EntriesOf(report, account, "booked") \cup EntriesOf(report, account, "pending")) = {}
  BY DEF OnePlace

LEMMA ChangeGrows ==
    ASSUME report \in Reports, NEW account \in AccountSet, NEW booked, NEW pending,
           AccountChanges(account, booked, pending), OnePlace(report'),
           NEW entry \in Entries, NEW status \in {"booked", "pending"},
           Behind(Listed(report[account].booked, report[account].pending), Listed(booked, pending),
                  [entry |-> entry, status |-> status]),
           \A other \in AccountSet : entry \notin EntriesOf(report, other, status),
           entry \in EntriesOf(report', account, status)
    PROVE  Grows
<1> DEFINE x == [entry |-> entry, status |-> status]
<1>1. \A other \in AccountSet :
         /\ Record(other, x) \in Records
         /\ Record(other, x).entry = entry
         /\ Record(other, x).account = other
         /\ Record(other, x).status = status
  BY DEF Record, Records
<1>2. \A other \in AccountSet : Record(other, x) \notin RecordsOf(report)
  BY <1>1, RecordsOfReport
<1>3. report' \in Reports
  BY DEF AccountChanges
<1>4. Record(account, x) \in RecordsOf(report')
  BY <1>1, <1>3, RecordsOfReport
<1>5. \A other \in AccountSet : Behind(TaggedEntries(other), TaggedEntries(other)', x)
  BY EntriesChange, NothingMoves
<1>6. QED
  BY <1>2, <1>3, <1>4, <1>5 DEF Grows

LEMMA AddGrows ==
    ASSUME WorldInv, NEW account \in AccountSet, NEW entry \in Entries,
           NEW status \in {"booked", "pending"}, Add(account, entry, status)
    PROVE  Grows
<1>1. PICK booked \in Seq(Entries), pending \in Seq(Entries) :
         booked = report[account].booked /\ pending = report[account].pending
  BY DEF WorldInv, Reports
<1>2. /\ EntriesOf(report, account, "booked") = ToSet(booked)
      /\ EntriesOf(report, account, "pending") = ToSet(pending)
  BY <1>1 DEF EntriesOf
<1>3. \A other \in AccountSet, kind \in {"booked", "pending"} :
         entry \notin EntriesOf(report, other, kind)
  BY DEF Add, Reported
<1>4. /\ IsInjective(booked) /\ IsInjective(pending) /\ ToSet(booked) \cap ToSet(pending) = {}
      /\ report \in Reports /\ OnePlace(report)
  BY <1>1, <1>2 DEF WorldInv, OnePlace
<1>5. \A other \in AccountSet \ {account}, kind \in {"booked", "pending"} :
         EntriesOf(report, other, kind) \cap (ToSet(booked) \cup ToSet(pending) \cup {entry}) = {}
  BY <1>2, <1>3, <1>4, Elsewhere
<1>6. report[account] \in [booked : Seq(Entries), pending : Seq(Entries)]
  BY <1>4 DEF Reports
<1>7. CASE status = "booked"
  <2>1. PICK more : more = Append(booked, entry)
    OBVIOUS
  <2>2. more \in Seq(Entries) /\ ToSet(more) = ToSet(booked) \cup {entry}
    BY <2>1, AppendedEntries
  <2>3. IsInjective(more)
    BY <1>2, <1>3, <1>4, <2>1, AppendedStaysInjective
  <2>4. [report[account] EXCEPT !["booked"] = Append(@, entry)] = [booked |-> more, pending |-> pending]
    <3>1. [[booked |-> booked, pending |-> pending] EXCEPT !["booked"] = more]
             = [booked |-> more, pending |-> pending]
      OBVIOUS
    <3>2. report[account] = [booked |-> booked, pending |-> pending]
      BY <1>1, <1>6
    <3>3. QED
      BY <2>1, <3>1, <3>2
  <2>5. report' = [report EXCEPT ![account] = [booked |-> more, pending |-> pending]]
    BY <1>7, <2>4 DEF Add
  <2>6. AccountChanges(account, more, pending)
    BY <1>4, <2>2, <2>5, ReportChanges
  <2>7. OnePlace(report')
    <3>1. ToSet(more) \cap ToSet(pending) = {}
      BY <1>2, <1>3, <1>4, <2>2
    <3>2. \A other \in AccountSet \ {account}, kind \in {"booked", "pending"} :
             EntriesOf(report, other, kind) \cap (ToSet(more) \cup ToSet(pending)) = {}
      BY <1>5, <2>2
    <3>3. QED
      BY <1>4, <2>2, <2>3, <2>6, <3>1, <3>2, StaysOnePlace
  <2>8. entry \in EntriesOf(report', account, "booked")
    BY <1>4, <2>2, <2>6, EntriesChange
  <2>9. Behind(Listed(booked, pending), Listed(more, pending), [entry |-> entry, status |-> "booked"])
    BY <2>1, BookedStandsBehind
  <2>10. QED
    BY <1>1, <1>3, <1>4, <2>6, <2>7, <2>8, <2>9, ChangeGrows
<1>8. CASE status = "pending"
  <2>1. PICK more : more = Append(pending, entry)
    OBVIOUS
  <2>2. more \in Seq(Entries) /\ ToSet(more) = ToSet(pending) \cup {entry}
    BY <2>1, AppendedEntries
  <2>3. IsInjective(more)
    BY <1>2, <1>3, <1>4, <2>1, AppendedStaysInjective
  <2>4. [report[account] EXCEPT !["pending"] = Append(@, entry)] = [booked |-> booked, pending |-> more]
    <3>1. [[booked |-> booked, pending |-> pending] EXCEPT !["pending"] = more]
             = [booked |-> booked, pending |-> more]
      OBVIOUS
    <3>2. report[account] = [booked |-> booked, pending |-> pending]
      BY <1>1, <1>6
    <3>3. QED
      BY <2>1, <3>1, <3>2
  <2>5. report' = [report EXCEPT ![account] = [booked |-> booked, pending |-> more]]
    BY <1>8, <2>4 DEF Add
  <2>6. AccountChanges(account, booked, more)
    BY <1>4, <2>2, <2>5, ReportChanges
  <2>7. OnePlace(report')
    <3>1. ToSet(booked) \cap ToSet(more) = {}
      BY <1>2, <1>3, <1>4, <2>2
    <3>2. \A other \in AccountSet \ {account}, kind \in {"booked", "pending"} :
             EntriesOf(report, other, kind) \cap (ToSet(booked) \cup ToSet(more)) = {}
      BY <1>5, <2>2
    <3>3. QED
      BY <1>4, <2>2, <2>3, <2>6, <3>1, <3>2, StaysOnePlace
  <2>8. entry \in EntriesOf(report', account, "pending")
    BY <1>4, <2>2, <2>6, EntriesChange
  <2>9. Behind(Listed(booked, pending), Listed(booked, more), [entry |-> entry, status |-> "pending"])
    BY <2>1, PendingStandsBehind
  <2>10. QED
    BY <1>1, <1>3, <1>4, <2>6, <2>7, <2>8, <2>9, ChangeGrows
<1>9. QED
  BY <1>7, <1>8

LEMMA BookGrows ==
    ASSUME WorldInv, NEW account \in AccountSet, NEW k \in DOMAIN report[account].pending,
           Book(account, k)
    PROVE  Grows
<1>1. PICK booked \in Seq(Entries), pending \in Seq(Entries) :
         booked = report[account].booked /\ pending = report[account].pending
  BY DEF WorldInv, Reports
<1>2. /\ EntriesOf(report, account, "booked") = ToSet(booked)
      /\ EntriesOf(report, account, "pending") = ToSet(pending)
  BY <1>1 DEF EntriesOf
<1>3. k \in 1..Len(pending)
  BY <1>1
<1>4. PICK entry \in Entries : entry = pending[k]
  BY <1>3
<1>5. entry \in ToSet(pending)
  BY <1>3, <1>4 DEF ToSet
<1>6. /\ IsInjective(booked) /\ IsInjective(pending) /\ ToSet(booked) \cap ToSet(pending) = {}
      /\ report \in Reports /\ OnePlace(report)
  BY <1>1, <1>2 DEF WorldInv, OnePlace
<1>7. PICK more, rest : more = Append(booked, entry) /\ rest = RemoveAt(pending, k)
  OBVIOUS
<1>8. more \in Seq(Entries) /\ ToSet(more) = ToSet(booked) \cup {entry} /\ IsInjective(more)
  BY <1>5, <1>6, <1>7, AppendedEntries, AppendedStaysInjective
<1>9. rest \in Seq(Entries) /\ ToSet(rest) = ToSet(pending) \ {entry} /\ IsInjective(rest)
  BY <1>3, <1>4, <1>6, <1>7, RemovedEntries
<1>10. AccountChanges(account, more, rest)
  BY <1>1, <1>4, <1>6, <1>7, <1>8, <1>9, ReportChanges DEF Book
<1>11. OnePlace(report')
  <2>1. ToSet(more) \cap ToSet(rest) = {}
    BY <1>6, <1>8, <1>9
  <2>2. \A other \in AccountSet \ {account}, kind \in {"booked", "pending"} :
           EntriesOf(report, other, kind) \cap (ToSet(more) \cup ToSet(rest)) = {}
    BY <1>2, <1>5, <1>6, <1>8, <1>9, Elsewhere
  <2>3. QED
    BY <1>6, <1>8, <1>9, <1>10, <2>1, <2>2, StaysOnePlace
<1>12. entry \in EntriesOf(report', account, "booked")
  BY <1>6, <1>8, <1>10, EntriesChange
<1>13. \A other \in AccountSet : entry \notin EntriesOf(report, other, "booked")
  BY <1>2, <1>5, <1>6 DEF OnePlace
<1>14. Behind(Listed(booked, pending), Listed(more, rest), [entry |-> entry, status |-> "booked"])
  BY <1>3, <1>4, <1>7, MovedStandsBehind
<1>15. QED
  BY <1>1, <1>6, <1>10, <1>11, <1>12, <1>13, <1>14, ChangeGrows

LEMMA ChangeShrinks ==
    ASSUME report \in Reports, NEW account \in AccountSet, NEW booked, NEW pending,
           AccountChanges(account, booked, pending), OnePlace(report'),
           NEW entry \in Entries, NEW status \in {"booked", "pending"},
           Closer(Listed(report[account].booked, report[account].pending), Listed(booked, pending)),
           entry \in EntriesOf(report, account, status),
           entry \notin EntriesOf(report', account, status)
    PROVE  Shrinks
<1>1. PICK r \in Records : r = [account |-> account, entry |-> entry, status |-> status]
  BY DEF Records
<1>2. report' \in Reports
  BY DEF AccountChanges
<1>3. r \in RecordsOf(report) /\ r \notin RecordsOf(report')
  BY <1>1, <1>2, RecordsOfReport
<1>4. \A other \in AccountSet : Closer(TaggedEntries(other), TaggedEntries(other)')
  <2>1. Closer(TaggedEntries(account), TaggedEntries(account)')
    BY EntriesChange
  <2>2. ASSUME NEW other \in AccountSet \ {account}
        PROVE  Closer(TaggedEntries(other), TaggedEntries(other)')
    <3>1. TaggedEntries(other)' = TaggedEntries(other)
      BY EntriesChange
    <3>2. \A i \in 1..Len(TaggedEntries(other)) : i <= i + 1
      OBVIOUS
    <3>3. QED
      BY <3>1, <3>2 DEF Closer
  <2>3. QED
    BY <2>1, <2>2
<1>5. QED
  BY <1>2, <1>3, <1>4 DEF Shrinks

LEMMA WithdrawShrinks ==
    ASSUME WorldInv, NEW account \in AccountSet, NEW status \in {"booked", "pending"},
           NEW k \in DOMAIN report[account][status], Withdraw(account, k, status)
    PROVE  Shrinks
<1>1. PICK booked \in Seq(Entries), pending \in Seq(Entries) :
         booked = report[account].booked /\ pending = report[account].pending
  BY DEF WorldInv, Reports
<1>2. /\ EntriesOf(report, account, "booked") = ToSet(booked)
      /\ EntriesOf(report, account, "pending") = ToSet(pending)
  BY <1>1 DEF EntriesOf
<1>3. /\ IsInjective(booked) /\ IsInjective(pending) /\ ToSet(booked) \cap ToSet(pending) = {}
      /\ report \in Reports /\ OnePlace(report)
  BY <1>1, <1>2 DEF WorldInv, OnePlace
<1>4. \A other \in AccountSet \ {account}, kind \in {"booked", "pending"} :
         EntriesOf(report, other, kind) \cap (ToSet(booked) \cup ToSet(pending)) = {}
  BY <1>2, <1>3, Elsewhere
<1>5. report[account] \in [booked : Seq(Entries), pending : Seq(Entries)]
  BY <1>3 DEF Reports
<1>6. CASE status = "booked"
  <2>1. k \in 1..Len(booked)
    BY <1>1, <1>6
  <2>2. PICK entry \in Entries : entry = booked[k]
    BY <2>1
  <2>3. PICK rest : rest = RemoveAt(booked, k)
    OBVIOUS
  <2>4. rest \in Seq(Entries) /\ ToSet(rest) = ToSet(booked) \ {entry} /\ IsInjective(rest)
    BY <1>3, <2>1, <2>2, <2>3, RemovedEntries
  <2>5. [report[account] EXCEPT !["booked"] = RemoveAt(@, k)] = [booked |-> rest, pending |-> pending]
    BY <1>1, <1>5, <2>3
  <2>6. report' = [report EXCEPT ![account] = [booked |-> rest, pending |-> pending]]
    BY <1>6, <2>5 DEF Withdraw
  <2>7. AccountChanges(account, rest, pending)
    BY <1>3, <2>4, <2>6, ReportChanges
  <2>8. OnePlace(report')
    <3>1. ToSet(rest) \cap ToSet(pending) = {}
      BY <1>3, <2>4
    <3>2. \A other \in AccountSet \ {account}, kind \in {"booked", "pending"} :
             EntriesOf(report, other, kind) \cap (ToSet(rest) \cup ToSet(pending)) = {}
      BY <1>4, <2>4
    <3>3. QED
      BY <1>3, <2>4, <2>7, <3>1, <3>2, StaysOnePlace
  <2>9. entry \in EntriesOf(report, account, "booked")
    BY <1>2, <2>1, <2>2 DEF ToSet
  <2>10. entry \notin EntriesOf(report', account, "booked")
    BY <1>3, <2>4, <2>7, EntriesChange
  <2>11. Closer(Listed(booked, pending), Listed(rest, pending))
    BY <2>1, <2>3, BookedStandsCloser
  <2>12. QED
    BY <1>1, <1>3, <2>7, <2>8, <2>9, <2>10, <2>11, ChangeShrinks
<1>7. CASE status = "pending"
  <2>1. k \in 1..Len(pending)
    BY <1>1, <1>7
  <2>2. PICK entry \in Entries : entry = pending[k]
    BY <2>1
  <2>3. PICK rest : rest = RemoveAt(pending, k)
    OBVIOUS
  <2>4. rest \in Seq(Entries) /\ ToSet(rest) = ToSet(pending) \ {entry} /\ IsInjective(rest)
    BY <1>3, <2>1, <2>2, <2>3, RemovedEntries
  <2>5. [report[account] EXCEPT !["pending"] = RemoveAt(@, k)] = [booked |-> booked, pending |-> rest]
    BY <1>1, <1>5, <2>3
  <2>6. report' = [report EXCEPT ![account] = [booked |-> booked, pending |-> rest]]
    BY <1>7, <2>5 DEF Withdraw
  <2>7. AccountChanges(account, booked, rest)
    BY <1>3, <2>4, <2>6, ReportChanges
  <2>8. OnePlace(report')
    <3>1. ToSet(booked) \cap ToSet(rest) = {}
      BY <1>3, <2>4
    <3>2. \A other \in AccountSet \ {account}, kind \in {"booked", "pending"} :
             EntriesOf(report, other, kind) \cap (ToSet(booked) \cup ToSet(rest)) = {}
      BY <1>4, <2>4
    <3>3. QED
      BY <1>3, <2>4, <2>7, <3>1, <3>2, StaysOnePlace
  <2>9. entry \in EntriesOf(report, account, "pending")
    BY <1>2, <2>1, <2>2 DEF ToSet
  <2>10. entry \notin EntriesOf(report', account, "pending")
    BY <1>3, <2>4, <2>7, EntriesChange
  <2>11. Closer(Listed(booked, pending), Listed(booked, rest))
    BY <2>1, <2>3, PendingStandsCloser
  <2>12. QED
    BY <1>1, <1>3, <2>7, <2>8, <2>9, <2>10, <2>11, ChangeShrinks
<1>8. QED
  BY <1>6, <1>7

LEMMA AccountStepIs ==
    ASSUME WorldInv, AccountStep
    PROVE  /\ Change
           /\ \/ Grows /\ withdrawn' = withdrawn
              \/ Shrinks /\ withdrawn' = withdrawn + 1
<1>1. PICK account \in AccountSet :
         \/ \E entry \in Entries, status \in {"booked", "pending"} : Add(account, entry, status)
         \/ \E i \in DOMAIN report[account].pending : Book(account, i)
         \/ \E status \in {"booked", "pending"} :
               \E i \in DOMAIN report[account][status] : Withdraw(account, i, status)
  BY DEF AccountStep
<1>2. CASE \E entry \in Entries, status \in {"booked", "pending"} : Add(account, entry, status)
  BY <1>2, AddGrows DEF Add
<1>3. CASE \E i \in DOMAIN report[account].pending : Book(account, i)
  BY <1>3, BookGrows DEF Book
<1>4. CASE \E status \in {"booked", "pending"} :
               \E i \in DOMAIN report[account][status] : Withdraw(account, i, status)
  BY <1>4, WithdrawShrinks DEF Withdraw
<1>5. QED
  BY <1>1, <1>2, <1>3, <1>4, AccountStepChanges

(* A change leaves something that was not reported throughout. *)
LEMMA ChangeKeepsWorld ==
    ASSUME WorldInv, Change, Grows \/ Shrinks, withdrawn' \in Nat
    PROVE  WorldInv' /\ steady' # seen'
<1>1. report' \in Reports /\ OnePlace(report')
  BY DEF Grows, Shrinks
<1>2. OnePlace(report)'
  BY <1>1 DEF OnePlace, EntriesOf
<1>3. steady' = steady \cap RecordsOf(report') /\ seen' = seen \cup RecordsOf(report')
  BY DEF Change
<1>4. RecordsOf(report') \subseteq Records
  BY <1>1, RecordsOfReport
<1>5. WorldInv'
  BY <1>1, <1>2, <1>3, <1>4, PrimedRecords DEF WorldInv
<1>6. steady \subseteq RecordsOf(report) /\ RecordsOf(report) \subseteq seen
  BY DEF WorldInv
<1>7. CASE Grows
  <2>1. \E r : r \in RecordsOf(report') /\ r \notin RecordsOf(report)
    BY <1>7 DEF Grows
  <2>2. QED
    BY <1>3, <1>5, <1>6, <2>1
<1>8. CASE Shrinks
  <2>1. \E r : r \in RecordsOf(report) /\ r \notin RecordsOf(report')
    BY <1>8 DEF Shrinks
  <2>2. QED
    BY <1>3, <1>5, <1>6, <2>1
<1>9. QED
  BY <1>5, <1>7, <1>8

-----------------------------------------------------------------------------
(* The pages *)

LEMMA Products ==
    ASSUME NEW a \in Int, NEW b \in Int, NEW p \in Nat, a <= b
    PROVE  a * p <= b * p
  OBVIOUS

LEMMA Quotients ==
    ASSUME NEW n \in Nat, NEW p \in Nat \ {0}
    PROVE  /\ (n + p - 1) \div p \in Nat
           /\ n <= ((n + p - 1) \div p) * p
           /\ (((n + p - 1) \div p) - 1) * p < n
<1>1. PICK q : q = (n + p - 1) \div p
  OBVIOUS
<1>2. q \in Int
  BY <1>1
<1>3. q * p <= n + p - 1 /\ n + p - 1 < (q + 1) * p
  BY <1>1
<1>4. (q + 1) * p = q * p + p /\ (q - 1) * p = q * p - p
  BY <1>2
<1>5. QED
  BY <1>1, <1>2, <1>3, <1>4

LEMMA SmallerOf ==
    ASSUME NEW a \in Int, NEW b \in Int
    PROVE  Min({a, b}) = IF a <= b THEN a ELSE b
<1>1. PICK m \in {a, b} : \A y \in {a, b} : m <= y
  OBVIOUS
<1>2. Min({a, b}) \in {a, b} /\ \A y \in {a, b} : Min({a, b}) <= y
  BY <1>1 DEF Min
<1>3. QED
  BY <1>2

LEMMA Served ==
    ASSUME report \in Reports, NEW account \in AccountSet
    PROVE  /\ TaggedEntries(account) \in Seq(TaggedTypes)
           /\ \A i \in 1..Len(TaggedEntries(account)) :
                 Record(account, TaggedEntries(account)[i]) \in RecordsOf(report)
           /\ \A r \in RecordsOf(report) : r.account = account =>
                 \E i \in 1..Len(TaggedEntries(account)) : Record(account, TaggedEntries(account)[i]) = r
           /\ PageCount(account) \in Nat
           /\ Len(TaggedEntries(account)) <= PageCount(account) * PageSize
           /\ (PageCount(account) - 1) * PageSize < Len(TaggedEntries(account))
<1>1. PICK booked \in Seq(Entries), pending \in Seq(Entries) :
         booked = report[account].booked /\ pending = report[account].pending
  BY DEF Reports
<1>2. PICK tagged : tagged = Listed(booked, pending)
  OBVIOUS
<1>3. TaggedEntries(account) = tagged
  BY <1>1, <1>2 DEF TaggedEntries, Listed
<1>4. PICK b \in Nat, p \in Nat : b = Len(booked) /\ p = Len(pending)
  OBVIOUS
<1>5. /\ tagged \in Seq(TaggedTypes)
      /\ Len(tagged) = b + p
      /\ \A i \in 1..b : tagged[i] = [entry |-> booked[i], status |-> "booked"]
      /\ \A i \in 1..p : tagged[b + i] = [entry |-> pending[i], status |-> "pending"]
  BY <1>2, <1>4, TaggedOrder
<1>6. /\ EntriesOf(report, account, "booked") = {booked[i] : i \in 1..b}
      /\ EntriesOf(report, account, "pending") = {pending[i] : i \in 1..p}
  BY <1>1, <1>4 DEF EntriesOf, ToSet
<1>7. ASSUME NEW i \in 1..Len(tagged)
      PROVE  Record(account, tagged[i]) \in RecordsOf(report)
  <2>1. tagged[i] \in TaggedTypes
    BY <1>5
  <2>2. PICK r \in Records : r = Record(account, tagged[i])
    BY <2>1 DEF Record, Records, TaggedTypes
  <2>3. r.account = account /\ r.entry = tagged[i].entry /\ r.status = tagged[i].status
    BY <2>2 DEF Record
  <2>4. CASE i \in 1..b
    <3>1. tagged[i] = [entry |-> booked[i], status |-> "booked"]
      BY <1>5, <2>4
    <3>2. r.entry = booked[i] /\ r.status = "booked"
      BY <2>3, <3>1
    <3>3. QED
      BY <1>6, <2>2, <2>3, <2>4, <3>2, RecordsOfReport
  <2>5. CASE i - b \in 1..p
    <3>1. tagged[b + (i - b)] = [entry |-> pending[i - b], status |-> "pending"]
      BY <1>5, <2>5
    <3>2. tagged[i] = [entry |-> pending[i - b], status |-> "pending"]
      BY <1>4, <1>5, <3>1
    <3>3. r.entry = pending[i - b] /\ r.status = "pending"
      BY <2>3, <3>2
    <3>4. QED
      BY <1>6, <2>2, <2>3, <2>5, <3>3, RecordsOfReport
  <2>6. QED
    BY <1>4, <1>5, <2>4, <2>5
<1>8. ASSUME NEW r \in RecordsOf(report), r.account = account
      PROVE  \E i \in 1..Len(tagged) : Record(account, tagged[i]) = r
  <2>1. r \in Records /\ r.entry \in EntriesOf(report, account, r.status)
    BY <1>8, RecordsOfReport
  <2>2. r = [account |-> account, entry |-> r.entry, status |-> r.status]
    BY <1>8, <2>1 DEF Records
  <2>3. CASE r.status = "booked"
    <3>1. PICK i \in 1..b : r.entry = booked[i]
      BY <1>6, <2>1, <2>3
    <3>2. i \in 1..Len(tagged) /\ tagged[i] = [entry |-> r.entry, status |-> r.status]
      BY <1>4, <1>5, <2>3, <3>1
    <3>3. QED
      BY <2>2, <3>2 DEF Record
  <2>4. CASE r.status = "pending"
    <3>1. PICK i \in 1..p : r.entry = pending[i]
      BY <1>6, <2>1, <2>4
    <3>2. b + i \in 1..Len(tagged) /\ tagged[b + i] = [entry |-> r.entry, status |-> r.status]
      BY <1>4, <1>5, <2>4, <3>1
    <3>3. QED
      BY <2>2, <3>2 DEF Record
  <2>5. QED
    BY <2>1, <2>3, <2>4 DEF Records
<1>9. PICK n \in Nat : n = Len(tagged)
  BY <1>4, <1>5
<1>10. PageCount(account) = (n + PageSize - 1) \div PageSize
  BY <1>3, <1>9 DEF PageCount
<1>11. /\ PageCount(account) \in Nat
       /\ n <= PageCount(account) * PageSize
       /\ (PageCount(account) - 1) * PageSize < n
  BY <1>10, Quotients, PageSizeAssumption
<1>12. QED
  BY <1>3, <1>5, <1>7, <1>8, <1>9, <1>11

(* A page within range holds its stretch of the list, and nothing else.    *)
LEMMA PageIsStretch ==
    ASSUME report \in Reports, NEW account \in AccountSet, NEW number \in Nat \ {0},
           number <= PageCount(account)
    PROVE  LET start == (number - 1) * PageSize
               tagged == TaggedEntries(account)
               page == Page(account, number)
           IN  /\ start \in Nat
               /\ number * PageSize = start + PageSize
               /\ page \in Seq(TaggedTypes)
               /\ \A i \in 1..Len(page) : start + i \in 1..Len(tagged) /\ page[i] = tagged[start + i]
               /\ \A i \in 1..Len(tagged) :
                     start < i /\ i <= start + PageSize => i - start \in 1..Len(page)
<1>1. PICK tagged \in Seq(TaggedTypes) : tagged = TaggedEntries(account)
  BY Served
<1>2. PICK n \in Nat : n = Len(tagged)
  BY <1>1
<1>3. PICK start \in Int : start = (number - 1) * PageSize
  BY PageSizeAssumption
<1>4. PICK size \in Nat \ {0} : size = PageSize
  BY PageSizeAssumption
<1>5. number * size = start + size
  BY <1>3, <1>4
<1>6. 0 <= start
  <2>1. 0 * size <= (number - 1) * size
    BY Products
  <2>2. QED
    BY <1>3, <1>4, <2>1
<1>7. start < n
  <2>1. (number - 1) * PageSize <= (PageCount(account) - 1) * PageSize
    BY Products, Served, PageSizeAssumption
  <2>2. (PageCount(account) - 1) * PageSize < n /\ (PageCount(account) - 1) * PageSize \in Int
    BY <1>1, <1>2, Served, PageSizeAssumption
  <2>3. QED
    BY <1>3, <2>1, <2>2
<1>8. PICK last \in Int : last = Min({start + size, n})
  BY <1>2, SmallerOf
<1>9. last = (IF start + size <= n THEN start + size ELSE n)
  BY <1>8, SmallerOf
<1>10. PICK page : page = SubSeq(tagged, start + 1, last)
  OBVIOUS
<1>11. Page(account, number) = page
  BY <1>1, <1>2, <1>3, <1>4, <1>8, <1>10 DEF Page
<1>12. start + 1 \in 1..n /\ last \in 1..n /\ start + 1 <= last
  BY <1>6, <1>7, <1>9
<1>13. page \in Seq(TaggedTypes)
  BY <1>2, <1>10, <1>12
<1>14. Len(page) = last - start
  BY <1>2, <1>10, <1>12
<1>15. \A i \in 1..(last - start) : page[i] = tagged[start + i]
  BY <1>2, <1>10, <1>12
<1>16. \A i \in 1..(last - start) : start + i \in 1..n
  BY <1>6, <1>12
<1>17. \A i \in 1..n : start < i /\ i <= start + size => i - start \in 1..(last - start)
  BY <1>9
<1>18. start \in Nat
  BY <1>6
<1>19. QED
  BY <1>1, <1>2, <1>3, <1>4, <1>5, <1>11, <1>13, <1>14, <1>15, <1>16, <1>17, <1>18

LEMMA AppendedRecords ==
    ASSUME NEW some \in Seq(Records), NEW account \in AccountSet, NEW page \in Seq(TaggedTypes)
    PROVE  LET more == some \o [i \in DOMAIN page |-> Record(account, page[i])]
           IN  /\ more \in Seq(Records)
               /\ ToSet(more) = ToSet(some) \cup {Record(account, page[i]) : i \in 1..Len(page)}
<1>1. PICK n \in Nat, m \in Nat : n = Len(some) /\ m = Len(page)
  OBVIOUS
<1>2. PICK read : read = [i \in 1..m |-> Record(account, page[i])]
  OBVIOUS
<1>3. read = [i \in DOMAIN page |-> Record(account, page[i])]
  BY <1>1, <1>2
<1>4. ASSUME NEW i \in 1..m
      PROVE  Record(account, page[i]) \in Records
  <2>1. page[i] \in TaggedTypes
    BY <1>1
  <2>2. QED
    BY <2>1 DEF Record, Records, TaggedTypes
<1>5. read \in Seq(Records) /\ Len(read) = m
  BY <1>2, <1>4
<1>6. PICK more : more = some \o read
  OBVIOUS
<1>7. some \in Seq(Records) /\ read \in Seq(Records)
  BY <1>5
<1>8. more \in Seq(Records) /\ Len(more) = n + m
  <2>1. some \o read \in Seq(Records)
    BY <1>7
  <2>2. Len(some \o read) = Len(some) + Len(read)
    BY <1>7
  <2>3. QED
    BY <1>1, <1>5, <1>6, <2>1, <2>2
<1>9. \A i \in 1..n : more[i] = some[i]
  <2>1. \A i \in 1..Len(some) : (some \o read)[i] = some[i]
    BY <1>7
  <2>2. QED
    BY <1>1, <1>6, <2>1
<1>10. \A i \in 1..m : more[n + i] = read[i]
  <2>1. \A i \in 1..Len(read) : (some \o read)[Len(some) + i] = read[i]
    BY <1>7
  <2>2. QED
    BY <1>1, <1>5, <1>6, <2>1
<1>11. ToSet(more) = {more[i] : i \in 1..(n + m)} /\ ToSet(some) = {some[i] : i \in 1..n}
  <2>1. DOMAIN more = 1..(n + m)
    BY <1>8
  <2>2. DOMAIN some = 1..n
    BY <1>1
  <2>3. ToSet(more) = {more[i] : i \in 1..(n + m)}
    BY <2>1 DEF ToSet
  <2>4. ToSet(some) = {some[i] : i \in 1..n}
    BY <2>2 DEF ToSet
  <2>5. QED
    BY <2>3, <2>4
<1>12. \A i \in 1..(n + m) : i \in 1..n \/ (i - n \in 1..m /\ i = n + (i - n))
  BY <1>1
<1>13. \A i \in 1..(n + m) : more[i] \in {some[j] : j \in 1..n} \cup {read[j] : j \in 1..m}
  <2>1. TAKE i \in 1..(n + m)
  <2>2. CASE i \in 1..n
    BY <1>9, <2>2
  <2>3. CASE i - n \in 1..m /\ i = n + (i - n)
    <3>1. PICK j \in 1..m : i = n + j
      BY <2>3
    <3>2. QED
      BY <1>10, <3>1
  <2>4. QED
    BY <1>12, <2>2, <2>3
<1>14. \A i \in 1..n : some[i] \in {more[j] : j \in 1..(n + m)}
  BY <1>1, <1>9
<1>15. \A i \in 1..m : read[i] \in {more[j] : j \in 1..(n + m)}
  <2>1. \A i \in 1..m : n + i \in 1..(n + m)
    BY <1>1
  <2>2. QED
    BY <1>10, <2>1
<1>16. {read[j] : j \in 1..m} = {Record(account, page[i]) : i \in 1..m}
  BY <1>2
<1>17. ToSet(more) = ToSet(some) \cup {read[j] : j \in 1..m}
  BY <1>11, <1>13, <1>14, <1>15
<1>18. QED
  BY <1>1, <1>3, <1>6, <1>8, <1>16, <1>17

-----------------------------------------------------------------------------
(* The run *)

ControlTypes ==
    /\ accountIndex \in 1..(Len(Accounts) + 1)
    /\ pageNumber \in Nat \ {0}
    /\ extracted \in Seq(Records)
    /\ phase = "accounts" => accountIndex = 1 /\ pageNumber = 1
    /\ phase = "pages" => accountIndex \in 1..Len(Accounts)
    /\ phase = "done" => accountIndex = Len(Accounts) + 1

(* A link leads to a page, and still does unless an entry was withdrawn.   *)
InRange ==
    \A account \in AccountSet :
        withdrawn = 0 /\ phase = "pages" /\ account = Accounts[accountIndex] /\ pageNumber # 1 =>
            pageNumber <= PageCount(account)

(* Without a withdrawal, an account does not lose its last entry.          *)
Kept ==
    withdrawn = 0 =>
        \A account \in AccountSet : (\E r \in seen : r.account = account) =>
            Len(TaggedEntries(account)) > 0

Seen == ToSet(extracted) \subseteq seen

(* The record's place is on a page that has been read. *)
Passed(r) ==
    \/ \E i \in 1..(accountIndex - 1) : r.account = Accounts[i]
    \/ /\ phase = "pages" /\ r.account = Accounts[accountIndex]
       /\ \E i \in 1..Len(TaggedEntries(r.account)) :
             /\ i <= (pageNumber - 1) * PageSize
             /\ Record(r.account, TaggedEntries(r.account)[i]) = r

(* What was there throughout, and moved over the edge of the pages read.   *)
Missed == {r \in steady : Passed(r) /\ r \notin ToSet(extracted)}

FewMissed == IsFiniteSet(Missed) /\ Cardinality(Missed) <= withdrawn

RunInv ==
    /\ RequestInv /\ WorldInv /\ ControlTypes
    /\ InRange /\ Kept /\ Seen /\ FewMissed

Fresh ==
    /\ RequestInv
    /\ report \in Reports /\ OnePlace(report)
    /\ steady = RecordsOf(report) /\ seen = RecordsOf(report) /\ withdrawn = 0
    /\ phase = "accounts" /\ accountIndex = 1 /\ pageNumber = 1 /\ extracted = <<>>

LEMMA FreshRuns == Fresh => RunInv
<1> SUFFICES ASSUME Fresh
             PROVE  RunInv
  OBVIOUS
<1>1. WorldInv
  BY RecordsOfReport DEF Fresh, WorldInv
<1>2. ControlTypes
  BY AccountsAssumption DEF Fresh, ControlTypes
<1>3. ToSet(extracted) = {}
  BY DEF Fresh, ToSet
<1>4. InRange /\ Seen
  BY <1>3 DEF Fresh, InRange, Seen
<1>5. Kept
  <2>1. ASSUME NEW account \in AccountSet, NEW r \in RecordsOf(report), r.account = account
        PROVE  Len(TaggedEntries(account)) > 0
    <3>1. PICK n \in Nat : n = Len(TaggedEntries(account))
      BY Served DEF Fresh
    <3>2. \E i \in 1..n : Record(account, TaggedEntries(account)[i]) = r
      BY <2>1, <3>1, Served DEF Fresh
    <3>3. QED
      BY <3>1, <3>2
  <2>2. QED
    BY <2>1 DEF Fresh, Kept
<1>6. FewMissed
  <2>1. \A r \in steady : ~Passed(r)
    BY DEF Passed, Fresh
  <2>2. Missed = {}
    BY <2>1 DEF Missed
  <2>3. QED
    BY <2>2, FS_EmptySet DEF Fresh, FewMissed
<1>7. QED
  BY <1>1, <1>2, <1>4, <1>5, <1>6 DEF Fresh, RunInv

LEMMA InitFresh == Init => Fresh
  BY InitRequests, ReportsAssumption DEF Init, Fresh

LEMMA InitRuns == Init => RunInv
  BY InitFresh, FreshRuns

LEMMA SameWorld ==
    ASSUME UNCHANGED <<report, historyVars>>
    PROVE  /\ RecordsOf(report)' = RecordsOf(report)
           /\ \A account \in AccountSet :
                 /\ TaggedEntries(account)' = TaggedEntries(account)
                 /\ PageCount(account)' = PageCount(account)
           /\ WorldInv => WorldInv'
           /\ Kept => Kept'
<1>1. RecordsOf(report)' = RecordsOf(report)
  BY DEF RecordsOf, RecordsWith, EntriesOf
<1>2. \A account \in AccountSet : TaggedEntries(account)' = TaggedEntries(account)
  BY DEF TaggedEntries
<1>3. \A account \in AccountSet : PageCount(account)' = PageCount(account)
  BY <1>2 DEF PageCount
<1>4. OnePlace(report)' <=> OnePlace(report)
  BY DEF OnePlace, EntriesOf
<1>5. WorldInv => WorldInv'
  BY <1>1, <1>4 DEF WorldInv, historyVars
<1>6. Kept => Kept'
  BY <1>2 DEF Kept, historyVars
<1>7. QED
  BY <1>1, <1>2, <1>3, <1>5, <1>6

LEMMA MorePages ==
    ASSUME NEW n \in Nat, NEW m \in Nat, n <= m, NEW p \in Nat \ {0}
    PROVE  (n + p - 1) \div p <= (m + p - 1) \div p
<1>1. PICK q \in Nat, t \in Nat : q = (n + p - 1) \div p /\ t = (m + p - 1) \div p
  BY Quotients
<1>2. (q - 1) * p < n /\ m <= t * p
  BY <1>1, Quotients
<1>3. CASE t <= q - 1
  <2>1. t * p <= (q - 1) * p
    BY <1>3, Products
  <2>2. QED
    BY <1>2, <2>1
<1>4. QED
  BY <1>1, <1>3

LEMMA ReportListed ==
    ASSUME report' \in Reports, NEW account \in AccountSet
    PROVE  /\ TaggedEntries(account)' \in Seq(TaggedTypes)
           /\ PageCount(account)' \in Nat
<1>1. report'[account].booked \in Seq(Entries) /\ report'[account].pending \in Seq(Entries)
  BY DEF Reports
<1>2. Listed(report'[account].booked, report'[account].pending) \in Seq(TaggedTypes)
  BY <1>1, TaggedOrder
<1>3. TaggedEntries(account)' \in Seq(TaggedTypes)
  BY <1>2 DEF TaggedEntries, Listed
<1>4. PICK m \in Nat : m = Len(TaggedEntries(account)')
  BY <1>3
<1>5. PageCount(account)' = (m + PageSize - 1) \div PageSize
  BY <1>4 DEF PageCount
<1>6. QED
  BY <1>3, <1>5, Quotients, PageSizeAssumption

(* Without a withdrawal there are no fewer pages than before, and what was *)
(* there throughout is passed only where it was passed before.             *)
LEMMA GrowthPasses ==
    ASSUME RunInv, Change, Grows
    PROVE  /\ \A account \in AccountSet :
                 /\ Len(TaggedEntries(account)) \in Nat /\ Len(TaggedEntries(account)') \in Nat
                 /\ Len(TaggedEntries(account)) <= Len(TaggedEntries(account)')
                 /\ PageCount(account) <= PageCount(account)'
           /\ Missed' \subseteq Missed
<1>1. PICK x : \A account \in AccountSet :
         /\ Behind(TaggedEntries(account), TaggedEntries(account)', x)
         /\ Record(account, x) \notin RecordsOf(report)
  BY DEF Grows
<1>2. \A account \in AccountSet :
         /\ Len(TaggedEntries(account)) \in Nat /\ Len(TaggedEntries(account)') \in Nat
         /\ Len(TaggedEntries(account)) <= Len(TaggedEntries(account)')
  <2>1. TAKE account \in AccountSet
  <2>2. TaggedEntries(account) \in Seq(TaggedTypes) /\ TaggedEntries(account)' \in Seq(TaggedTypes)
    BY Served, ReportListed DEF RunInv, WorldInv, Grows
  <2>3. Len(TaggedEntries(account)) <= Len(TaggedEntries(account)')
    BY <1>1 DEF Behind
  <2>4. QED
    BY <2>2, <2>3
<1>3. \A account \in AccountSet : PageCount(account) <= PageCount(account)'
  <2>1. TAKE account \in AccountSet
  <2>2. PICK n \in Nat, m \in Nat :
           n = Len(TaggedEntries(account)) /\ m = Len(TaggedEntries(account)') /\ n <= m
    BY <1>2
  <2>3. PageCount(account) = (n + PageSize - 1) \div PageSize
    BY <2>2 DEF PageCount
  <2>4. PageCount(account)' = (m + PageSize - 1) \div PageSize
    BY <2>2 DEF PageCount
  <2>5. QED
    BY <2>2, <2>3, <2>4, MorePages, PageSizeAssumption
<1>4. ASSUME NEW r \in steady', Passed(r)'
      PROVE  Passed(r)
  <2>1. r \in RecordsOf(report) /\ r.account \in AccountSet
    BY RecordsOfReport DEF RunInv, WorldInv, Change, Records
  <2>2. CASE \E i \in 1..(accountIndex - 1) : r.account = Accounts[i]
    BY <2>2 DEF Passed
  <2>3. CASE ~\E i \in 1..(accountIndex - 1) : r.account = Accounts[i]
    <3>1. PICK account, old, new :
             account \in AccountSet /\ account = r.account /\ old = TaggedEntries(account) /\ new = TaggedEntries(account)'
      BY <2>1
    <3>2. /\ phase = "pages" /\ account = Accounts[accountIndex]
          /\ \E i \in 1..Len(new) :
                i <= (pageNumber - 1) * PageSize /\ Record(account, new[i]) = r
      BY <1>4, <2>3, <3>1 DEF Passed, Change, adapterVars
    <3>3. PICK i \in 1..Len(new) : i <= (pageNumber - 1) * PageSize /\ Record(account, new[i]) = r
      BY <3>2
    <3>4. new[i] # x
      BY <1>1, <2>1, <3>1, <3>3
    <3>5. PICK j \in 1..Len(old) : j <= i /\ old[j] = new[i]
      BY <1>1, <3>1, <3>3, <3>4 DEF Behind
    <3>6. PICK start \in Int : start = (pageNumber - 1) * PageSize
      BY PageSizeAssumption DEF RunInv, ControlTypes
    <3>7. j <= start
      BY <3>3, <3>5, <3>6
    <3>8. Record(account, old[j]) = r
      BY <3>3, <3>5
    <3>9. QED
      BY <3>1, <3>2, <3>6, <3>7, <3>8 DEF Passed
  <2>4. QED
    BY <2>2, <2>3
<1>5. Missed' \subseteq Missed
  <2>1. steady' \subseteq steady /\ extracted' = extracted
    BY DEF Change, adapterVars
  <2>2. ASSUME NEW r \in Missed'
        PROVE  r \in Missed
    <3>1. r \in steady' /\ Passed(r)' /\ r \notin ToSet(extracted')
      BY <2>2 DEF Missed
    <3>2. QED
      BY <1>4, <2>1, <3>1 DEF Missed
  <2>3. QED
    BY <2>2
<1>6. QED
  BY <1>2, <1>3, <1>5

(* A withdrawal moves at most one record over the edge. *)
LEMMA WithdrawalPasses ==
    ASSUME RunInv, Change, Shrinks
    PROVE  \E x : Missed' \subseteq Missed \cup {x}
<1>1. PICK start \in Int : start = (pageNumber - 1) * PageSize
  BY PageSizeAssumption DEF RunInv, ControlTypes
<1>2. PICK x : x = Record(Accounts[accountIndex], TaggedEntries(Accounts[accountIndex])[start + 1])
  OBVIOUS
<1>3. ASSUME NEW r \in steady', Passed(r)'
      PROVE  Passed(r) \/ r = x
  <2>1. r \in RecordsOf(report) /\ r.account \in AccountSet
    BY RecordsOfReport DEF RunInv, WorldInv, Change, Records
  <2>2. CASE \E i \in 1..(accountIndex - 1) : r.account = Accounts[i]
    BY <2>2 DEF Passed
  <2>3. CASE ~\E i \in 1..(accountIndex - 1) : r.account = Accounts[i]
    <3>1. PICK account, old, new :
             account \in AccountSet /\ account = r.account /\ old = TaggedEntries(account) /\ new = TaggedEntries(account)'
      BY <2>1
    <3>2. /\ phase = "pages" /\ account = Accounts[accountIndex]
          /\ \E i \in 1..Len(new) :
                i <= (pageNumber - 1) * PageSize /\ Record(account, new[i]) = r
      BY <1>3, <2>3, <3>1 DEF Passed, Change, adapterVars
    <3>3. PICK i \in 1..Len(new) : i <= (pageNumber - 1) * PageSize /\ Record(account, new[i]) = r
      BY <3>2
    <3>4. PICK j \in 1..Len(old) : j <= i + 1 /\ old[j] = new[i]
      BY <3>1, <3>3 DEF Closer, Shrinks
    <3>5. j <= start \/ j = start + 1
      BY <1>1, <3>3, <3>4
    <3>6. Record(account, old[j]) = r
      BY <3>3, <3>4
    <3>7. CASE j <= start
      BY <1>1, <3>1, <3>2, <3>6, <3>7 DEF Passed
    <3>8. CASE j = start + 1
      BY <1>2, <3>1, <3>2, <3>6, <3>8
    <3>9. QED
      BY <3>5, <3>7, <3>8
  <2>4. QED
    BY <2>2, <2>3
<1>4. steady' \subseteq steady /\ extracted' = extracted
  BY DEF Change, adapterVars
<1>5. ASSUME NEW r \in Missed'
      PROVE  r \in Missed \cup {x}
  <2>1. r \in steady' /\ Passed(r)' /\ r \notin ToSet(extracted')
    BY <1>5 DEF Missed
  <2>2. QED
    BY <1>3, <1>4, <2>1 DEF Missed
<1>6. QED
  BY <1>5

LEMMA StillFew ==
    ASSUME FewMissed, withdrawn \in Nat, NEW T, T \subseteq Missed
    PROVE  IsFiniteSet(T) /\ Cardinality(T) <= withdrawn
<1>1. IsFiniteSet(T) /\ Cardinality(T) <= Cardinality(Missed)
  BY FS_Subset DEF FewMissed
<1>2. Cardinality(T) \in Nat /\ Cardinality(Missed) \in Nat
  BY <1>1, FS_CardinalityType DEF FewMissed
<1>3. QED
  BY <1>1, <1>2 DEF FewMissed

LEMMA OneMore ==
    ASSUME FewMissed, withdrawn \in Nat, NEW T, NEW x, T \subseteq Missed \cup {x}
    PROVE  IsFiniteSet(T) /\ Cardinality(T) <= withdrawn + 1
<1>1. Cardinality(Missed) \in Nat /\ IsFiniteSet(Missed) /\ Cardinality(Missed) <= withdrawn
  BY FS_CardinalityType DEF FewMissed
<1>2. PICK U : U = Missed \cup {x}
  OBVIOUS
<1>3. IsFiniteSet(U) /\ Cardinality(U) \in Nat /\ Cardinality(U) <= Cardinality(Missed) + 1
  BY <1>1, <1>2, FS_AddElement
<1>4. IsFiniteSet(T) /\ Cardinality(T) <= Cardinality(U)
  BY <1>2, <1>3, FS_Subset
<1>5. Cardinality(T) \in Nat
  BY <1>4, FS_CardinalityType
<1>6. QED
  BY <1>1, <1>3, <1>4, <1>5

(* No change of the report disturbs a run. *)
LEMMA ChangeKeepsRun ==
    ASSUME RunInv, Change,
           \/ Grows /\ withdrawn' = withdrawn
           \/ Shrinks /\ withdrawn' = withdrawn + 1
    PROVE  RunInv' /\ steady' # seen'
<1>1. withdrawn \in Nat /\ withdrawn' \in Nat /\ WorldInv' /\ steady' # seen'
  BY ChangeKeepsWorld DEF RunInv, WorldInv
<1>2. RequestInv'
  BY DEF RunInv, RequestInv, RequestTypes, Streak, Requesting, Window, Change, adapterVars
<1>3. ControlTypes'
  BY DEF RunInv, ControlTypes, Change, adapterVars
<1>4. Seen'
  BY DEF RunInv, Seen, Change, adapterVars
<1>5. CASE Grows /\ withdrawn' = withdrawn
  <2>1. /\ \A account \in AccountSet :
              /\ Len(TaggedEntries(account)) \in Nat /\ Len(TaggedEntries(account)') \in Nat
              /\ Len(TaggedEntries(account)) <= Len(TaggedEntries(account)')
              /\ PageCount(account) <= PageCount(account)'
        /\ Missed' \subseteq Missed
    BY <1>5, GrowthPasses
  <2>2. InRange'
    <3>1. ASSUME NEW account \in AccountSet, withdrawn = 0, phase = "pages",
                 account = Accounts[accountIndex], pageNumber # 1
          PROVE  pageNumber <= PageCount(account)'
      <4>1. pageNumber <= PageCount(account) /\ pageNumber \in Nat
        BY <3>1 DEF RunInv, InRange, ControlTypes
      <4>2. PageCount(account) \in Nat /\ PageCount(account)' \in Nat
        BY <1>5, Served, ReportListed DEF RunInv, WorldInv, Grows
      <4>3. QED
        BY <2>1, <4>1, <4>2
    <3>2. QED
      BY <1>5, <3>1 DEF InRange, Change, adapterVars
  <2>3. Kept'
    <3>1. ASSUME NEW account \in AccountSet, NEW r \in seen', r.account = account, withdrawn = 0
          PROVE  Len(TaggedEntries(account)') > 0
      <4>1. CASE r \in seen
        <5>1. Len(TaggedEntries(account)) > 0
          BY <3>1, <4>1 DEF RunInv, Kept
        <5>2. QED
          BY <2>1, <5>1
      <4>2. CASE r \in RecordsOf(report')
        <5>1. r.entry \in EntriesOf(report', account, r.status) /\ r.status \in {"booked", "pending"}
          BY <1>5, <3>1, <4>2, RecordsOfReport DEF Grows, Records
        <5>2. PICK booked \in Seq(Entries), pending \in Seq(Entries) :
                 booked = report'[account].booked /\ pending = report'[account].pending
          BY <1>5 DEF Grows, Reports
        <5>3. ToSet(booked) # {} \/ ToSet(pending) # {}
          BY <5>1, <5>2 DEF EntriesOf
        <5>4. PICK b \in Nat, p \in Nat : b = Len(booked) /\ p = Len(pending)
          OBVIOUS
        <5>5. b > 0 \/ p > 0
          BY <5>3, <5>4 DEF ToSet
        <5>6. TaggedEntries(account)' = Listed(booked, pending)
          BY <5>2 DEF TaggedEntries, Listed
        <5>7. Len(TaggedEntries(account)') = b + p
          BY <5>4, <5>6, TaggedOrder
        <5>8. QED
          BY <5>4, <5>5, <5>7
      <4>3. QED
        BY <3>1, <4>1, <4>2 DEF Change
    <3>2. QED
      BY <1>5, <3>1 DEF Kept
  <2>4. FewMissed'
    BY <1>1, <1>5, <2>1, StillFew DEF RunInv, FewMissed
  <2>5. QED
    BY <1>1, <1>2, <1>3, <1>4, <2>2, <2>3, <2>4 DEF RunInv
<1>6. CASE Shrinks /\ withdrawn' = withdrawn + 1
  <2>1. withdrawn' # 0
    BY <1>1, <1>6
  <2>2. InRange' /\ Kept'
    BY <2>1 DEF InRange, Kept
  <2>3. FewMissed'
    BY <1>1, <1>6, WithdrawalPasses, OneMore DEF RunInv, FewMissed
  <2>4. QED
    BY <1>1, <1>2, <1>3, <1>4, <2>2, <2>3 DEF RunInv
<1>7. QED
  BY <1>5, <1>6

(* The adapter's steps do not disturb what the bank reports. *)
LEMMA RefusalKeepsRun ==
    ASSUME RunInv, RequestInv', UNCHANGED <<report, accountIndex, pageNumber, extracted, historyVars>>,
           phase' = phase \/ phase' \in Ends
    PROVE  RunInv'
<1>1. WorldInv' /\ Kept'
  BY SameWorld DEF RunInv
<1>2. \A account \in AccountSet :
         TaggedEntries(account)' = TaggedEntries(account) /\ PageCount(account)' = PageCount(account)
  BY SameWorld
<1>3. phase' = "pages" => phase = "pages"
  BY DEF Ends
<1>4. InRange' /\ Seen'
  BY <1>2, <1>3 DEF RunInv, InRange, Seen, historyVars
<1>5. ControlTypes'
  BY DEF RunInv, ControlTypes, Ends
<1>6. \A r \in steady : Passed(r)' => Passed(r)
  <2>1. ASSUME NEW r \in steady, Passed(r)'
        PROVE  Passed(r)
    <3>1. r.account \in AccountSet
      BY RecordsOfReport DEF RunInv, WorldInv, Records
    <3>2. TaggedEntries(r.account)' = TaggedEntries(r.account)
      BY <1>2, <3>1
    <3>3. QED
      BY <1>3, <2>1, <3>2 DEF Passed
  <2>2. QED
    BY <2>1
<1>7. Missed' \subseteq Missed
  BY <1>6 DEF Missed, historyVars
<1>8. FewMissed'
  BY <1>7, StillFew DEF RunInv, WorldInv, FewMissed, historyVars
<1>9. QED
  BY <1>1, <1>4, <1>5, <1>8 DEF RunInv

LEMMA ListKeepsRun == RunInv /\ ListAccounts => RunInv'
<1> SUFFICES ASSUME RunInv, ListAccounts
             PROVE  RunInv'
  OBVIOUS
<1>1. RequestInv'
  BY NextRequests DEF RunInv, Next
<1>2. PICK n \in Nat : n = Len(Accounts)
  BY AccountsAssumption
<1>3. Accounts = <<>> <=> n = 0
  BY <1>2, AccountsAssumption
<1>4. accountIndex' = 1 /\ pageNumber' = 1
  BY DEF RunInv, ControlTypes, ListAccounts
<1>5. ControlTypes'
  BY <1>2, <1>3, <1>4 DEF RunInv, ControlTypes, ListAccounts
<1>6. WorldInv' /\ Kept'
  BY SameWorld DEF RunInv, ListAccounts
<1>7. Seen'
  BY DEF RunInv, Seen, ListAccounts, historyVars
<1>8. InRange'
  BY <1>4 DEF InRange
<1>9. (pageNumber' - 1) * PageSize = 0
  BY <1>4, PageSizeAssumption
<1>10. \A r : ~Passed(r)'
  BY <1>4, <1>9 DEF Passed
<1>11. Missed' \subseteq Missed
  BY <1>10 DEF Missed
<1>12. FewMissed'
  BY <1>11, StillFew DEF RunInv, WorldInv, FewMissed, ListAccounts, historyVars
<1>13. QED
  BY <1>1, <1>5, <1>6, <1>7, <1>8, <1>12 DEF RunInv

LEMMA ReadKeepsRun == RunInv /\ ReadPage => RunInv'
<1> SUFFICES ASSUME RunInv, ReadPage
             PROVE  RunInv'
  OBVIOUS
<1>1. RequestInv'
  BY NextRequests DEF RunInv, Next
<1>2. PICK n \in Nat : n = Len(Accounts)
  BY AccountsAssumption
<1>3. accountIndex \in 1..n /\ phase = "pages"
  BY <1>2 DEF RunInv, ControlTypes, ReadPage
<1>4. PICK account \in AccountSet : account = Accounts[accountIndex]
  BY <1>2, <1>3, AccountsAssumption
<1>5. pageNumber \in Nat \ {0} /\ pageNumber <= PageCount(account)
  BY <1>4 DEF RunInv, ControlTypes, ReadPage
<1>6. PICK tagged \in Seq(TaggedTypes) : tagged = TaggedEntries(account)
  BY Served DEF RunInv, WorldInv
<1>7. PICK start \in Nat, page \in Seq(TaggedTypes) :
         /\ start = (pageNumber - 1) * PageSize /\ page = Page(account, pageNumber)
         /\ pageNumber * PageSize = start + PageSize
         /\ \A i \in 1..Len(page) : start + i \in 1..Len(tagged) /\ page[i] = tagged[start + i]
         /\ \A i \in 1..Len(tagged) : start < i /\ i <= start + PageSize => i - start \in 1..Len(page)
  BY <1>5, <1>6, PageIsStretch DEF RunInv, WorldInv
<1>8. extracted' = extracted \o [i \in DOMAIN page |-> Record(account, page[i])]
  BY <1>4, <1>7 DEF ReadPage
<1>9. /\ extracted' \in Seq(Records)
      /\ ToSet(extracted') = ToSet(extracted) \cup {Record(account, page[i]) : i \in 1..Len(page)}
  BY <1>8, AppendedRecords DEF RunInv, ControlTypes
<1>10. /\ UNCHANGED <<report, historyVars>>
       /\ TaggedEntries(account)' = tagged /\ PageCount(account)' = PageCount(account)
       /\ WorldInv' /\ Kept'
  BY <1>6, SameWorld DEF RunInv, ReadPage
<1>11. Seen'
  <2>1. ASSUME NEW i \in 1..Len(page)
        PROVE  Record(account, page[i]) \in RecordsOf(report)
    BY <1>6, <1>7, Served DEF RunInv, WorldInv
  <2>2. QED
    BY <1>9, <1>10, <2>1 DEF RunInv, WorldInv, Seen, historyVars
<1>12. ASSUME NEW r \in Missed', NEW i \in 1..Len(tagged), i <= pageNumber * PageSize,
              Record(account, tagged[i]) = r, r.account = account
       PROVE  Passed(r)
  <2>1. r \notin ToSet(extracted')
    BY DEF Missed
  <2>2. CASE i <= start
    BY <1>3, <1>4, <1>6, <1>7, <1>12, <2>2 DEF Passed
  <2>3. CASE start < i
    <3>1. PICK k \in 1..Len(page) : k = i - start
      BY <1>7, <1>12, <2>3
    <3>2. page[k] = tagged[start + k] /\ start + k = i
      BY <1>7, <3>1
    <3>3. QED
      BY <1>9, <1>12, <2>1, <3>1, <3>2
  <2>4. QED
    BY <2>2, <2>3
<1>13. SUFFICES ASSUME ControlTypes' => InRange' /\ Missed' \subseteq Missed, ControlTypes'
                PROVE  RunInv'
  <2>1. CASE HasNext(account, pageNumber)
    <3>1. pageNumber' = pageNumber + 1 /\ accountIndex' = accountIndex /\ phase' = "pages"
      BY <1>3, <1>4, <2>1 DEF ReadPage
    <3>2. ControlTypes'
      BY <1>2, <1>3, <1>5, <1>9, <3>1 DEF ControlTypes
    <3>3. PageCount(account) \in Nat
      BY Served DEF RunInv, WorldInv
    <3>4. InRange'
      BY <1>4, <1>5, <1>10, <2>1, <3>1, <3>3 DEF InRange, HasNext
    <3>5. (pageNumber' - 1) * PageSize = pageNumber * PageSize
      BY <1>5, <3>1
    <3>6. ASSUME NEW r \in Missed'
          PROVE  r \in Missed
      <4>1. r \in steady /\ Passed(r)' /\ r \notin ToSet(extracted)
        BY <1>9, <1>10 DEF Missed, historyVars
      <4>2. CASE \E i \in 1..(accountIndex - 1) : r.account = Accounts[i]
        BY <4>1, <4>2 DEF Missed, Passed
      <4>3. CASE ~\E i \in 1..(accountIndex - 1) : r.account = Accounts[i]
        <5>1. /\ r.account = account
              /\ \E i \in 1..Len(tagged) : i <= pageNumber * PageSize /\ Record(account, tagged[i]) = r
          BY <1>4, <1>10, <3>1, <3>5, <4>1, <4>3 DEF Passed
        <5>2. Passed(r)
          BY <1>12, <5>1
        <5>3. QED
          BY <4>1, <5>2 DEF Missed
      <4>4. QED
        BY <4>2, <4>3
    <3>7. QED
      BY <1>13, <3>2, <3>4, <3>6
  <2>2. CASE ~HasNext(account, pageNumber)
    <3>1. /\ pageNumber' = 1 /\ accountIndex' = accountIndex + 1
          /\ phase' = IF accountIndex = n THEN "done" ELSE "pages"
      BY <1>2, <1>4, <2>2 DEF ReadPage
    <3>2. ControlTypes'
      BY <1>2, <1>3, <1>9, <3>1 DEF ControlTypes
    <3>3. InRange'
      BY <3>1 DEF InRange
    <3>4. PageCount(account) = pageNumber
      BY <1>5, <2>2, Served DEF HasNext, RunInv, WorldInv
    <3>5. Len(tagged) <= pageNumber * PageSize
      BY <1>6, <3>4, Served DEF RunInv, WorldInv
    <3>6. (pageNumber' - 1) * PageSize = 0
      BY <3>1, PageSizeAssumption
    <3>7. ASSUME NEW r \in Missed'
          PROVE  r \in Missed
      <4>1. r \in steady /\ Passed(r)' /\ r \notin ToSet(extracted)
        BY <1>9, <1>10 DEF Missed, historyVars
      <4>2. PICK i \in 1..(accountIndex' - 1) : r.account = Accounts[i]
        <5>1. \A i \in Nat \ {0} : ~(i <= 0)
          OBVIOUS
        <5>2. QED
          BY <3>6, <4>1, <5>1 DEF Passed
      <4>3. CASE i = accountIndex
        <5>1. r \in RecordsOf(report) /\ r.account = account
          BY <1>4, <4>1, <4>2, <4>3 DEF RunInv, WorldInv
        <5>2. PICK k \in 1..Len(tagged) : Record(account, tagged[k]) = r
          BY <1>6, <5>1, Served DEF RunInv, WorldInv
        <5>3. k <= pageNumber * PageSize
          <6>1. PICK m \in Nat, last \in Int : m = Len(tagged) /\ last = pageNumber * PageSize
            BY <1>5, <1>6, PageSizeAssumption
          <6>2. k \in 1..m /\ m <= last
            BY <3>5, <6>1
          <6>3. QED
            BY <6>1, <6>2
        <5>4. Passed(r)
          BY <1>12, <5>1, <5>2, <5>3
        <5>5. QED
          BY <4>1, <5>4 DEF Missed
      <4>4. CASE i # accountIndex
        <5>1. i \in 1..(accountIndex - 1)
          BY <1>3, <3>1, <4>2, <4>4
        <5>2. QED
          BY <4>1, <4>2, <5>1 DEF Missed, Passed
      <4>5. QED
        BY <4>3, <4>4
    <3>8. QED
      BY <1>13, <3>2, <3>3, <3>7
  <2>3. QED
    BY <2>1, <2>2
<1>14. FewMissed'
  BY <1>10, <1>13, StillFew DEF RunInv, WorldInv, FewMissed, historyVars
<1>15. QED
  BY <1>1, <1>10, <1>11, <1>13, <1>14 DEF RunInv

LEMMA RerunIsFresh == RunInv /\ Rerun => Fresh'
<1> SUFFICES ASSUME RunInv, Rerun
             PROVE  Fresh'
  OBVIOUS
<1>1. RequestInv'
  BY NextRequests DEF RunInv, Next
<1>2. OnePlace(report)'
  BY DEF RunInv, WorldInv, Rerun, OnePlace, EntriesOf
<1>3. RecordsOf(report)' = RecordsOf(report)
  BY PrimedRecords DEF Rerun
<1>4. QED
  BY <1>1, <1>2, <1>3 DEF RunInv, WorldInv, Rerun, Fresh

LEMMA NextRuns == RunInv /\ [Next]_vars => RunInv'
<1> SUFFICES ASSUME RunInv, [Next]_vars
             PROVE  RunInv'
  OBVIOUS
<1>1. RequestInv'
  BY NextRequests DEF RunInv
<1>2. CASE Retry \/ GiveUp
  <2>1. phase' = phase \/ phase' \in Ends
    BY <1>2 DEF Retry, GiveUp, Ends
  <2>2. UNCHANGED <<report, accountIndex, pageNumber, extracted, historyVars>>
    BY <1>2 DEF Retry, GiveUp
  <2>3. QED
    BY <1>1, <2>1, <2>2, RefusalKeepsRun
<1>3. CASE Raises
  BY <1>1, <1>3, RaisesRaise, RefusalKeepsRun
<1>4. CASE Rerun
  <2>1. Fresh'
    BY <1>4, RerunIsFresh
  <2>2. Fresh' => RunInv'
    BY FreshRuns, PTL
  <2>3. QED
    BY <2>1, <2>2
<1>5. CASE AccountStep
  BY <1>5, AccountStepIs, ChangeKeepsRun DEF RunInv
<1>6. CASE UNCHANGED vars
  BY <1>1, <1>6, RefusalKeepsRun DEF vars, adapterVars, bankVars
<1>7. QED
  BY <1>2, <1>3, <1>4, <1>5, <1>6, ListKeepsRun, ReadKeepsRun DEF Next, AccountStep, Raises

-----------------------------------------------------------------------------
(* The abstract extraction *)

LEMMA Outcomes ==
    /\ Requesting => Outcome = "running"
    /\ ~Requesting /\ phase \in {"done", "failed"} => Outcome = phase
    /\ ~Requesting /\ phase \notin {"done", "failed"} => Outcome = "raised"
  BY DEF Outcome

LEMMA OutcomesAfter ==
    /\ Requesting' => Outcome' = "running"
    /\ ~Requesting' /\ phase' \in {"done", "failed"} => Outcome' = phase'
    /\ ~Requesting' /\ phase' \notin {"done", "failed"} => Outcome' = "raised"
  BY DEF Outcome

LEMMA InitImplements == Init => Extract!Init
<1> SUFFICES ASSUME Init
             PROVE  Extract!Init
  OBVIOUS
<1>1. WorldInv
  BY InitRuns DEF RunInv
<1>2. Requesting /\ phase # "done"
  BY DEF Init, Requesting
<1>3. QED
  BY <1>1, <1>2, Outcomes DEF Init, WorldInv, Extract!Init

(* What the bank does between two requests *)
LEMMA ChangeImplements ==
    ASSUME WorldInv', Change, withdrawn' \in {withdrawn, withdrawn + 1}
    PROVE  Extract!Report
<1>1. RecordsOf(report)' \subseteq Records /\ RecordsOf(report)' = RecordsOf(report')
  BY PrimedRecords DEF WorldInv
<1>2. steady' = steady \cap RecordsOf(report') /\ seen' = seen \cup RecordsOf(report')
  BY DEF Change
<1>3. phase' = phase /\ extracted' = extracted
  BY DEF Change, adapterVars
<1>4. Outcome' = Outcome
  BY <1>3 DEF Outcome, Requesting
<1>5. QED
  BY <1>1, <1>2, <1>3, <1>4 DEF Extract!Report

(* Extraction counts as this module does. *)
LEMMA SameCardinality == \A S : Extract!Cardinality(S) = Cardinality(S)
  BY DEF Extract!Cardinality, Cardinality

(* The last page of the last account returns all but the few missed. *)
LEMMA DoneImplements ==
    ASSUME RunInv, RunInv', UNCHANGED <<report, historyVars>>, Requesting, phase' = "done"
    PROVE  Extract!Return
<1>1. ToSet(extracted') \subseteq seen
  BY DEF RunInv, Seen, historyVars
<1>2. steady \ ToSet(extracted') \subseteq Missed'
  <2>1. ASSUME NEW r \in steady, r \notin ToSet(extracted')
        PROVE  r \in Missed'
    <3>1. r.account \in AccountSet
      BY RecordsOfReport DEF RunInv, WorldInv, Records
    <3>2. PICK i \in 1..Len(Accounts) : r.account = Accounts[i]
      BY <3>1, AccountsAssumption DEF AccountSet, ToSet
    <3>3. accountIndex' - 1 = Len(Accounts)
      BY AccountsAssumption DEF RunInv, ControlTypes
    <3>4. Passed(r)'
      BY <3>2, <3>3 DEF Passed
    <3>5. QED
      BY <2>1, <3>4 DEF Missed, historyVars
  <2>2. QED
    BY <2>1
<1>3. Cardinality(steady \ ToSet(extracted')) <= withdrawn
  <2>1. IsFiniteSet(Missed') /\ Cardinality(Missed') <= withdrawn /\ withdrawn \in Nat
    BY DEF RunInv, WorldInv, FewMissed, historyVars
  <2>2. PICK M, T : M = Missed' /\ T = steady \ ToSet(extracted')
    OBVIOUS
  <2>3. IsFiniteSet(T) /\ Cardinality(T) <= Cardinality(M)
    BY <1>2, <2>1, <2>2, FS_Subset
  <2>4. Cardinality(T) \in Nat /\ Cardinality(M) \in Nat
    BY <2>1, <2>2, <2>3, FS_CardinalityType
  <2>5. QED
    BY <2>1, <2>2, <2>3, <2>4
<1>4. Outcome = "running" /\ Outcome' = "done"
  BY Outcomes, OutcomesAfter DEF Requesting
<1>5. RecordsOf(report)' = RecordsOf(report)
  BY SameWorld
<1>6. QED
  BY <1>1, <1>3, <1>4, <1>5, SameCardinality DEF Extract!Return, historyVars

LEMMA NextImplements == RunInv /\ RunInv' /\ [Next]_vars => [Extract!Next]_Extract!vars
<1> SUFFICES ASSUME RunInv, RunInv', [Next]_vars
             PROVE  [Extract!Next]_Extract!vars
  OBVIOUS
<1>1. CASE AccountStep
  BY <1>1, AccountStepIs, ChangeImplements DEF RunInv, Extract!Next
<1>2. CASE Rerun
  <2>1. Fresh'
    BY <1>2, RerunIsFresh
  <2>2. RecordsOf(report)' = RecordsOf(report)
    BY <1>2, PrimedRecords DEF Rerun
  <2>3. steady' = RecordsOf(report) /\ seen' = RecordsOf(report) /\ withdrawn' = 0
    BY <1>2 DEF Rerun
  <2>4. ~Requesting /\ phase # "running" /\ Requesting' /\ phase' # "done"
    BY <1>2 DEF Rerun, Requesting, RunInv, RequestInv, RequestTypes, Ends
  <2>5. Outcome # "running" /\ Outcome' = "running"
    BY <2>4, Outcomes, OutcomesAfter
  <2>6. Extract!Begin
    BY <2>2, <2>3, <2>4, <2>5 DEF Extract!Begin
  <2>7. QED
    BY <2>6 DEF Extract!Next
<1>3. CASE GiveUp \/ Raises
  <2>1. Requesting /\ ~Requesting' /\ phase # "done" /\ phase' # "done"
    BY <1>3, RaisesRaise DEF GiveUp, Requesting, Ends
  <2>2. UNCHANGED <<report, historyVars>>
    BY <1>3, RaisesRaise DEF GiveUp
  <2>3. RecordsOf(report)' = RecordsOf(report)
    BY <2>2, SameWorld
  <2>4. Outcome = "running" /\ Outcome' \in {"failed", "raised"}
    BY <2>1, Outcomes, OutcomesAfter
  <2>5. Extract!Except
    BY <2>1, <2>2, <2>3, <2>4 DEF Extract!Except, historyVars
  <2>6. QED
    BY <2>5 DEF Extract!Next
<1>4. CASE ListAccounts \/ ReadPage
  <2>1. Requesting /\ UNCHANGED <<report, historyVars>>
    BY <1>4 DEF ListAccounts, ReadPage, Requesting
  <2>2. phase # "done" /\ phase' \in {"pages", "done"}
    BY <1>4 DEF ListAccounts, ReadPage
  <2>3. CASE phase' = "done"
    BY <2>1, <2>3, DoneImplements DEF Extract!Next
  <2>4. CASE phase' = "pages"
    <3>1. Requesting' /\ phase' # "done"
      BY <2>4 DEF Requesting
    <3>2. Outcome = "running" /\ Outcome' = "running"
      BY <2>1, <3>1, Outcomes, OutcomesAfter
    <3>3. RecordsOf(report)' = RecordsOf(report)
      BY <2>1, SameWorld
    <3>4. QED
      BY <2>1, <2>2, <3>1, <3>2, <3>3 DEF Extract!vars, historyVars
  <2>5. QED
    BY <2>2, <2>3, <2>4
<1>5. CASE Retry \/ UNCHANGED vars
  <2>1. UNCHANGED <<report, historyVars>>
    BY <1>5 DEF Retry, vars, bankVars
  <2>2. phase' = phase /\ extracted' = extracted
    BY <1>5 DEF Retry, vars, adapterVars
  <2>3. Outcome' = Outcome
    BY <2>2 DEF Outcome, Requesting
  <2>4. RecordsOf(report)' = RecordsOf(report)
    BY <2>1, SameWorld
  <2>5. QED
    BY <2>1, <2>2, <2>3, <2>4 DEF Extract!vars, historyVars
<1>6. QED
  BY <1>1, <1>2, <1>3, <1>4, <1>5 DEF Next, AccountStep, Raises

-----------------------------------------------------------------------------
(* The order of the extract *)

(* Induction, for a property given as the set of the numbers that have it. *)
LEMMA NatSetInduction ==
    ASSUME NEW T, 0 \in T, \A n \in Nat : n \in T => n + 1 \in T
    PROVE  \A n \in Nat : n \in T
<1> DEFINE R == OpToRel(<, Nat)
           Bad == {n \in Nat : n \notin T}
<1>1. SUFFICES ASSUME Bad # {} PROVE FALSE
  OBVIOUS
<1>2. \E m \in Bad : \A n \in Bad : <<n, m>> \notin R
  <2>1. IsWellFoundedOn(R, Nat) /\ Bad \subseteq Nat
    BY NatLessThanWellFounded
  <2>. HIDE DEF R, Bad
  <2>2. QED
    BY <1>1, <2>1, WFMin
<1>3. PICK m \in Bad : \A n \in Bad : <<n, m>> \notin R
  BY <1>2
<1>4. m \in Nat /\ m # 0
  BY <1>3
<1>5. m - 1 \in Nat /\ m - 1 < m
  BY <1>4
<1>6. <<m - 1, m>> \in R
  BY <1>4, <1>5 DEF OpToRel
<1>7. m - 1 \in T
  BY <1>3, <1>5, <1>6
<1>8. m \in T
  BY <1>4, <1>5, <1>7
<1>9. QED
  BY <1>3, <1>8

Then(some, more) == some \o more

IsFlat(flatten, rows, n) ==
    flatten = [i \in 1..n |-> IF i = 1 THEN rows[i] ELSE Then(flatten[i - 1], rows[i])]

(* FlattenSeq, of the rows up to each of them *)
Flatten(rows) == CHOOSE flatten : IsFlat(flatten, rows, Len(rows))

LEMMA FlattenExists ==
    ASSUME NEW rows, Len(rows) \in Nat
    PROVE  IsFlat(Flatten(rows), rows, Len(rows))
<1> DEFINE T == {n \in Nat : \E flatten : IsFlat(flatten, rows, n)}
<1>1. 0 \in T
  <2>1. IsFlat([i \in 1..0 |-> 0], rows, 0)
    BY DEF IsFlat
  <2>2. QED
    BY <2>1
<1>2. ASSUME NEW n \in Nat, n \in T PROVE n + 1 \in T
  <2>1. PICK flatten : IsFlat(flatten, rows, n)
    BY <1>2
  <2> DEFINE Step(i) == IF i = 1 THEN rows[i] ELSE Then(flatten[i - 1], rows[i])
             more == [i \in 1..(n + 1) |-> Step(i)]
  <2>2. \A i \in 1..n : more[i] = flatten[i]
    BY <2>1 DEF IsFlat
  <2>3. \A i \in 1..(n + 1) : i # 1 => more[i - 1] = flatten[i - 1]
    <3>1. \A i \in 1..(n + 1) : i # 1 => i - 1 \in 1..n
      OBVIOUS
    <3>. HIDE DEF more
    <3>2. QED
      BY <2>2, <3>1
  <2>4. \A i \in 1..(n + 1) : more[i] = IF i = 1 THEN rows[i] ELSE Then(more[i - 1], rows[i])
    <3>1. TAKE i \in 1..(n + 1)
    <3>2. more[i] = Step(i)
      OBVIOUS
    <3>. HIDE DEF more
    <3>3. QED
      BY <2>3, <3>2
  <2>5. more = [i \in 1..(n + 1) |-> more[i]]
    OBVIOUS
  <2>. HIDE DEF more
  <2>6. IsFlat(more, rows, n + 1)
    BY <2>4, <2>5 DEF IsFlat
  <2>7. QED
    BY <2>6
<1>3. \A n \in Nat : n \in T
  <2>. HIDE DEF T
  <2>1. QED
    BY <1>1, <1>2, NatSetInduction
<1>4. QED
  BY <1>3 DEF Flatten

(* The rows before one of them, put together *)
Before(rows, i) == IF i = 1 THEN <<>> ELSE Flatten(rows)[i - 1]

LEMMA BeforeNext ==
    ASSUME NEW S, NEW rows \in Seq(Seq(S)), NEW i \in 1..Len(rows)
    PROVE  Before(rows, i) \in Seq(S) /\ Before(rows, i + 1) = Before(rows, i) \o rows[i]
<1> DEFINE flat == Flatten(rows)
           T == {n \in Nat : n \in 1..Len(rows) => flat[n] \in Seq(S)}
<1>1. PICK size \in Nat : size = Len(rows)
  OBVIOUS
<1>2. \A k \in 1..size : rows[k] \in Seq(S)
  BY <1>1
<1>3. \A k \in 1..size : flat[k] = IF k = 1 THEN rows[k] ELSE Then(flat[k - 1], rows[k])
  BY <1>1, FlattenExists DEF IsFlat
<1>. HIDE DEF flat
<1>4. 0 \in T
  OBVIOUS
<1>5. ASSUME NEW n \in Nat, n \in T PROVE n + 1 \in T
  <2>1. SUFFICES ASSUME n + 1 \in 1..size PROVE flat[n + 1] \in Seq(S)
    BY <1>1
  <2>2. CASE n = 0
    BY <1>2, <1>3, <2>1, <2>2
  <2>3. CASE n # 0
    <3>1. n \in 1..size /\ n + 1 # 1 /\ (n + 1) - 1 = n
      BY <2>1, <2>3
    <3>2. flat[n] \in Seq(S)
      BY <1>1, <1>5, <3>1
    <3>3. flat[n + 1] = flat[n] \o rows[n + 1]
      BY <1>3, <2>1, <3>1 DEF Then
    <3>4. rows[n + 1] \in Seq(S)
      BY <1>2, <2>1
    <3>5. QED
      BY <3>2, <3>3, <3>4
  <2>4. QED
    BY <2>2, <2>3
<1>6. \A n \in Nat : n \in T
  <2>. HIDE DEF T
  <2>1. QED
    BY <1>4, <1>5, NatSetInduction
<1>7. i \in 1..size /\ i + 1 # 1 /\ (i + 1) - 1 = i
  BY <1>1
<1>8. CASE i = 1
  <2>1. flat[1] = rows[1] /\ rows[1] \in Seq(S)
    BY <1>2, <1>3, <1>7, <1>8
  <2>2. Before(rows, i) = <<>> /\ Before(rows, i + 1) = rows[1]
    BY <1>7, <1>8, <2>1 DEF Before, flat
  <2>3. <<>> \o rows[1] = rows[1] /\ <<>> \in Seq(S)
    BY <2>1, ConcatEmptySeq, EmptySeq
  <2>4. QED
    BY <1>8, <2>2, <2>3
<1>9. CASE i # 1
  <2>1. i - 1 \in Nat /\ i - 1 \in 1..Len(rows)
    BY <1>1, <1>9
  <2>2. flat[i - 1] \in Seq(S)
    BY <1>6, <2>1
  <2>3. flat[i] = flat[i - 1] \o rows[i]
    BY <1>3, <1>7, <1>9 DEF Then
  <2>4. Before(rows, i) = flat[i - 1] /\ Before(rows, i + 1) = flat[i]
    BY <1>7, <1>9 DEF Before, flat
  <2>5. QED
    BY <2>2, <2>3, <2>4
<1>10. QED
  BY <1>8, <1>9

LEMMA AllBefore ==
    ASSUME NEW S, NEW rows \in Seq(Seq(S))
    PROVE  FlattenSeq(rows) = Before(rows, Len(rows) + 1)
<1>1. PICK size \in Nat : size = Len(rows)
  OBVIOUS
<1>2. CASE size = 0
  <2>1. rows = <<>>
    BY <1>1, <1>2, EmptySeq
  <2>2. FlattenSeq(rows) = rows
    BY <1>1, <1>2 DEF FlattenSeq
  <2>3. QED
    BY <1>1, <1>2, <2>1, <2>2 DEF Before
<1>3. CASE size # 0
  <2>1. size + 1 # 1 /\ (size + 1) - 1 = size
    BY <1>3
  <2>2. FlattenSeq(rows) = Flatten(rows)[size]
    BY <1>1, <1>3 DEF FlattenSeq, Flatten, IsFlat, Then
  <2>3. QED
    BY <1>1, <2>1, <2>2 DEF Before
<1>4. QED
  BY <1>2, <1>3

(* Unless the report has changed, what has been extracted is what the      *)
(* accounts before this one report, and this one's pages before the next.  *)
Rows == [i \in DOMAIN Accounts |-> AllRecords(Accounts[i])]

FirstOf(account, n) == SubSeq(AllRecords(account), 1, n)

InOrder ==
    steady = seen =>
        /\ phase = "accounts" => extracted = <<>>
        /\ phase = "pages" =>
              extracted = Before(Rows, accountIndex)
                             \o FirstOf(Accounts[accountIndex], (pageNumber - 1) * PageSize)
        /\ phase = "done" => extracted = Before(Rows, accountIndex)

OrderInv == RunInv /\ InOrder

LEMMA RowTypes ==
    ASSUME report \in Reports
    PROVE  /\ Rows \in Seq(Seq(Records)) /\ Len(Rows) = Len(Accounts)
           /\ \A account \in AccountSet :
                 /\ AllRecords(account) \in Seq(Records)
                 /\ Len(AllRecords(account)) = Len(TaggedEntries(account))
           /\ \A i \in 1..Len(Accounts) : Rows[i] = AllRecords(Accounts[i])
<1>1. ASSUME NEW account \in AccountSet
      PROVE  /\ AllRecords(account) \in Seq(Records)
             /\ Len(AllRecords(account)) = Len(TaggedEntries(account))
  <2>1. PICK tagged \in Seq(TaggedTypes) : tagged = TaggedEntries(account)
    BY Served
  <2>2. PICK n \in Nat : n = Len(tagged)
    OBVIOUS
  <2>3. PICK all : all = [i \in 1..n |-> Record(account, tagged[i])]
    OBVIOUS
  <2>4. AllRecords(account) = all
    BY <2>1, <2>2, <2>3 DEF AllRecords
  <2>5. ASSUME NEW i \in 1..n
        PROVE  Record(account, tagged[i]) \in Records
    <3>1. tagged[i] \in TaggedTypes
      BY <2>2
    <3>2. QED
      BY <3>1 DEF Record, Records, TaggedTypes
  <2>6. all \in Seq(Records) /\ Len(all) = n
    BY <2>3, <2>5
  <2>7. QED
    BY <2>1, <2>2, <2>4, <2>6
<1>2. PICK size \in Nat : size = Len(Accounts)
  BY AccountsAssumption
<1>3. DOMAIN Accounts = 1..size /\ \A i \in 1..size : Accounts[i] \in AccountSet
  BY <1>2, AccountsAssumption
<1>4. Rows = [i \in 1..size |-> AllRecords(Accounts[i])]
  BY <1>3 DEF Rows
<1>5. \A i \in 1..size : AllRecords(Accounts[i]) \in Seq(Records)
  BY <1>1, <1>3
<1>6. Rows \in Seq(Seq(Records)) /\ Len(Rows) = size /\ \A i \in 1..size : Rows[i] = AllRecords(Accounts[i])
  BY <1>4, <1>5
<1>7. QED
  BY <1>1, <1>2, <1>6

(* A page adds its stretch of the account's records to those before it.    *)
LEMMA PageContinues ==
    ASSUME report \in Reports, NEW account \in AccountSet, NEW number \in Nat \ {0},
           number <= PageCount(account)
    PROVE  LET page == Page(account, number)
               read == [i \in DOMAIN page |-> Record(account, page[i])]
           IN  /\ read \in Seq(Records)
               /\ FirstOf(account, (number - 1) * PageSize) \in Seq(Records)
               /\ FirstOf(account, (number - 1) * PageSize) \o read =
                     IF HasNext(account, number) THEN FirstOf(account, number * PageSize)
                                                 ELSE AllRecords(account)
<1>1. PICK tagged \in Seq(TaggedTypes) : tagged = TaggedEntries(account)
  BY Served
<1>2. PICK n \in Nat : n = Len(tagged)
  BY <1>1
<1>3. PICK size \in Nat \ {0} : size = PageSize
  BY PageSizeAssumption
<1>4. PICK start \in Nat : start = (number - 1) * PageSize /\ number * PageSize = start + PageSize
  BY PageIsStretch
<1>5. PICK count \in Nat : count = PageCount(account) /\ n <= count * PageSize /\ (count - 1) * PageSize < n
  BY <1>1, <1>2, Served
<1>6. start < n
  <2>1. (number - 1) * PageSize <= (count - 1) * PageSize
    <3>1. number - 1 \in Int /\ count - 1 \in Int /\ PageSize \in Nat
      BY PageSizeAssumption
    <3>2. number - 1 <= count - 1
      BY <1>5
    <3>3. QED
      BY <3>1, <3>2, Products
  <2>2. (count - 1) * PageSize \in Int
    BY PageSizeAssumption
  <2>3. QED
    BY <1>4, <1>5, <2>1, <2>2
<1>7. PICK last \in Int : last = IF start + size <= n THEN start + size ELSE n
  OBVIOUS
<1>8. Page(account, number) = SubSeq(tagged, start + 1, last)
  <2>1. Min({start + size, n}) = last
    BY <1>7, SmallerOf
  <2>2. QED
    BY <1>1, <1>2, <1>3, <1>4, <2>1 DEF Page
<1>9. start + 1 \in 1..n /\ last \in start..n
  BY <1>6, <1>7
<1>10. PICK page : page = SubSeq(tagged, start + 1, last)
  OBVIOUS
<1>11. /\ page \in Seq(TaggedTypes) /\ Len(page) = last - start
       /\ \A i \in 1..(last - start) : page[i] = tagged[start + i]
  BY <1>2, <1>9, <1>10
<1>12. PICK all \in Seq(Records) : all = AllRecords(account) /\ Len(all) = n
  BY <1>1, <1>2, RowTypes
<1>13. \A i \in 1..n : all[i] = Record(account, tagged[i])
  BY <1>1, <1>2, <1>12 DEF AllRecords
<1>14. PICK read : read = [i \in 1..(last - start) |-> Record(account, page[i])]
  OBVIOUS
<1>15. [i \in DOMAIN page |-> Record(account, page[i])] = read
  BY <1>9, <1>11, <1>14
<1>16. \A i \in 1..(last - start) : read[i] = all[start + i] /\ start + i \in 1..n
  <2>1. TAKE i \in 1..(last - start)
  <2>2. start + i \in 1..n
    BY <1>9
  <2>3. QED
    BY <1>11, <1>13, <1>14, <2>2
<1>17. PICK stretch : stretch = SubSeq(all, start + 1, last)
  OBVIOUS
<1>18. /\ stretch \in Seq(Records) /\ Len(stretch) = last - start
       /\ \A i \in 1..(last - start) : stretch[i] = all[start + i]
  BY <1>9, <1>12, <1>17
<1>19. \A i \in 1..(last - start) : read[i] \in Records
  BY <1>12, <1>16
<1>20. read \in Seq(Records) /\ Len(read) = last - start
  BY <1>9, <1>14, <1>19
<1>21. read = stretch
  BY <1>16, <1>18, <1>20, SeqEqual
<1>22. SubSeq(all, 1, start) \o SubSeq(all, start + 1, last) = SubSeq(all, 1, last)
  <2>1. 1 \in 1..(Len(all) + 1) /\ start \in (1 - 1)..Len(all) /\ last \in start..Len(all)
    BY <1>9, <1>12
  <2>2. QED
    BY <2>1, ConcatAdjacentSubSeq
<1>23. SubSeq(all, 1, start) \in Seq(Records)
  BY <1>9, <1>12
<1>24. CASE HasNext(account, number)
  <2>1. number <= count - 1
    BY <1>5, <1>24 DEF HasNext
  <2>2. number * PageSize <= (count - 1) * PageSize
    <3>1. number \in Int /\ count - 1 \in Int /\ PageSize \in Nat
      BY PageSizeAssumption
    <3>2. QED
      BY <2>1, <3>1, Products
  <2>3. (count - 1) * PageSize \in Int
    BY PageSizeAssumption
  <2>4. start + size <= n
    BY <1>3, <1>4, <1>5, <2>2, <2>3
  <2>5. last = number * PageSize
    BY <1>3, <1>4, <1>7, <2>4
  <2>6. QED
    BY <1>4, <1>8, <1>10, <1>12, <1>15, <1>17, <1>20, <1>21, <1>22, <1>23, <1>24, <2>5 DEF FirstOf
<1>25. CASE ~HasNext(account, number)
  <2>1. number = count
    BY <1>5, <1>25 DEF HasNext
  <2>2. n <= start + size
    BY <1>3, <1>4, <1>5, <2>1
  <2>3. last = n
    BY <1>7, <2>2
  <2>4. SubSeq(all, 1, n) = all
    BY <1>12, SubSeqFull
  <2>5. QED
    BY <1>4, <1>8, <1>10, <1>12, <1>15, <1>17, <1>20, <1>21, <1>22, <1>23, <1>25, <2>3, <2>4 DEF FirstOf
<1>26. QED
  BY <1>24, <1>25

LEMMA SameRows ==
    ASSUME report' = report
    PROVE  Rows' = Rows /\ \A account \in AccountSet : AllRecords(account)' = AllRecords(account)
  BY DEF Rows, AllRecords, TaggedEntries

LEMMA SameOrder ==
    ASSUME OrderInv, UNCHANGED <<report, accountIndex, pageNumber, extracted, historyVars>>,
           phase' = phase \/ phase' \in Ends
    PROVE  InOrder'
<1>1. Rows' = Rows
  BY SameRows
<1>2. Before(Rows, accountIndex)' = Before(Rows, accountIndex)
  BY <1>1 DEF Before
<1>3. FirstOf(Accounts[accountIndex], (pageNumber - 1) * PageSize)' =
         FirstOf(Accounts[accountIndex], (pageNumber - 1) * PageSize)
  BY DEF FirstOf, AllRecords, TaggedEntries
<1>4. QED
  BY <1>2, <1>3 DEF OrderInv, InOrder, historyVars, Ends

LEMMA ListKeepsOrder == OrderInv /\ ListAccounts => InOrder'
<1> SUFFICES ASSUME OrderInv, ListAccounts
             PROVE  InOrder'
  OBVIOUS
<1>1. UNCHANGED <<report, steady, seen, extracted>> /\ accountIndex' = 1 /\ pageNumber' = 1
  BY DEF OrderInv, RunInv, ControlTypes, ListAccounts, historyVars
<1>2. Before(Rows, accountIndex)' = <<>>
  BY <1>1 DEF Before
<1>3. FirstOf(Accounts[accountIndex], (pageNumber - 1) * PageSize)' = <<>>
  <2>1. (pageNumber' - 1) * PageSize = 0
    BY <1>1, PageSizeAssumption
  <2>2. \A all : SubSeq(all, 1, 0) = <<>>
    BY SubSeqEmpty
  <2>3. QED
    BY <2>1, <2>2 DEF FirstOf
<1>4. <<>> \o <<>> = <<>>
  OBVIOUS
<1>5. phase' # "accounts" /\ (steady = seen => extracted = <<>>)
  BY DEF OrderInv, InOrder, ListAccounts
<1>6. QED
  BY <1>1, <1>2, <1>3, <1>4, <1>5 DEF InOrder

LEMMA ReadKeepsOrder == OrderInv /\ ReadPage => InOrder'
<1> SUFFICES ASSUME OrderInv, ReadPage
             PROVE  InOrder'
  OBVIOUS
<1>1. /\ UNCHANGED <<report, steady, seen>> /\ phase = "pages" /\ phase' \in {"pages", "done"}
      /\ report \in Reports
  BY DEF OrderInv, RunInv, WorldInv, ReadPage, historyVars
<1>2. SUFFICES ASSUME steady = seen
               PROVE  InOrder'
  BY <1>1 DEF InOrder
<1>3. PICK n \in Nat : n = Len(Accounts)
  BY AccountsAssumption
<1>4. accountIndex \in 1..n /\ pageNumber \in Nat \ {0}
  BY <1>1, <1>3 DEF OrderInv, RunInv, ControlTypes
<1>5. PICK account \in AccountSet : account = Accounts[accountIndex]
  BY <1>3, <1>4, AccountsAssumption
<1>6. pageNumber <= PageCount(account)
  BY <1>5 DEF ReadPage
<1>7. PICK first, read, before, page :
         /\ first = FirstOf(account, (pageNumber - 1) * PageSize)
         /\ page = Page(account, pageNumber)
         /\ read = [i \in DOMAIN page |-> Record(account, page[i])]
         /\ before = Before(Rows, accountIndex)
  OBVIOUS
<1>8. /\ read \in Seq(Records) /\ first \in Seq(Records)
      /\ first \o read = IF HasNext(account, pageNumber) THEN FirstOf(account, pageNumber * PageSize)
                                                         ELSE AllRecords(account)
  BY <1>1, <1>4, <1>6, <1>7, PageContinues
<1>9. /\ before \in Seq(Records)
       /\ Before(Rows, accountIndex + 1) = before \o AllRecords(account)
  BY <1>1, <1>3, <1>4, <1>5, <1>7, RowTypes, BeforeNext
<1>10. extracted = before \o first
  BY <1>1, <1>2, <1>5, <1>7 DEF OrderInv, InOrder
<1>11. extracted' = extracted \o read
  BY <1>5, <1>7 DEF ReadPage
<1>12. extracted' = before \o (first \o read)
  <2>1. before \in Seq(Records) /\ first \in Seq(Records) /\ read \in Seq(Records)
    BY <1>8, <1>9
  <2>2. (before \o first) \o read = before \o (first \o read)
    BY <2>1, ConcatAssociative
  <2>3. QED
    BY <1>10, <1>11, <2>2
<1>13. Rows' = Rows /\ \A other \in AccountSet : AllRecords(other)' = AllRecords(other)
  BY <1>1, SameRows
<1>14. CASE HasNext(account, pageNumber)
  <2>1. pageNumber' = pageNumber + 1 /\ accountIndex' = accountIndex /\ phase' = "pages"
    BY <1>1, <1>5, <1>14 DEF ReadPage
  <2>2. (pageNumber' - 1) * PageSize = pageNumber * PageSize
    BY <1>4, <2>1
  <2>3. FirstOf(Accounts[accountIndex], (pageNumber - 1) * PageSize)' = FirstOf(account, pageNumber * PageSize)
    BY <1>5, <1>13, <2>1, <2>2 DEF FirstOf
  <2>4. Before(Rows, accountIndex)' = before
    BY <1>7, <1>13, <2>1 DEF Before
  <2>5. extracted' = before \o FirstOf(account, pageNumber * PageSize)
    BY <1>8, <1>12, <1>14
  <2>6. QED
    BY <2>1, <2>3, <2>4, <2>5 DEF InOrder
<1>15. CASE ~HasNext(account, pageNumber)
  <2>1. pageNumber' = 1 /\ accountIndex' = accountIndex + 1
    BY <1>5, <1>15 DEF ReadPage
  <2>2. Before(Rows, accountIndex)' = Before(Rows, accountIndex + 1)
    BY <1>13, <2>1 DEF Before
  <2>3. extracted' = Before(Rows, accountIndex + 1)
    BY <1>8, <1>9, <1>12, <1>15
  <2>4. FirstOf(Accounts[accountIndex], (pageNumber - 1) * PageSize)' = <<>>
    <3>1. (pageNumber' - 1) * PageSize = 0
      BY <2>1, PageSizeAssumption
    <3>2. \A all : SubSeq(all, 1, 0) = <<>>
      BY SubSeqEmpty
    <3>3. QED
      BY <3>1, <3>2 DEF FirstOf
  <2>5. before \o AllRecords(account) \in Seq(Records)
    BY <1>1, <1>9, RowTypes
  <2>6. extracted' \o <<>> = extracted'
    BY <1>9, <2>3, <2>5, ConcatEmptySeq
  <2>7. QED
    BY <1>1, <2>2, <2>3, <2>4, <2>6 DEF InOrder
<1>16. QED
  BY <1>14, <1>15

LEMMA FreshOrder == Fresh => InOrder
  BY DEF Fresh, InOrder

LEMMA NextOrders == OrderInv /\ RunInv' /\ [Next]_vars => OrderInv'
<1> SUFFICES ASSUME OrderInv, RunInv', [Next]_vars
             PROVE  InOrder'
  BY DEF OrderInv
<1>1. CASE Retry \/ GiveUp \/ UNCHANGED vars
  <2>1. UNCHANGED <<report, accountIndex, pageNumber, extracted, historyVars>>
    BY <1>1 DEF Retry, GiveUp, vars, adapterVars, bankVars
  <2>2. phase' = phase \/ phase' \in Ends
    BY <1>1 DEF Retry, GiveUp, vars, adapterVars, Ends
  <2>3. QED
    BY <2>1, <2>2, SameOrder
<1>2. CASE Raises
  BY <1>2, RaisesRaise, SameOrder
<1>3. CASE ListAccounts
  BY <1>3, ListKeepsOrder
<1>4. CASE ReadPage
  BY <1>4, ReadKeepsOrder
<1>5. CASE Rerun
  <2>1. Fresh'
    BY <1>5, RerunIsFresh DEF OrderInv
  <2>2. Fresh' => InOrder'
    BY FreshOrder, PTL
  <2>3. QED
    BY <2>1, <2>2
<1>6. CASE AccountStep
  BY <1>6, AccountStepIs, ChangeKeepsRun DEF OrderInv, RunInv, InOrder
<1>7. QED
  BY <1>1, <1>2, <1>3, <1>4, <1>5, <1>6 DEF Next, AccountStep, Raises

-----------------------------------------------------------------------------
(* The theorems *)

LEMMA AlwaysRuns == Spec => []RunInv
  BY InitRuns, NextRuns, PTL DEF Spec

(* Every variable has its type, for any accounts, reports and plans.       *)
THEOREM TypeCorrect == Spec => []TypeOK
<1>1. RunInv => TypeOK
  BY DEF RunInv, RequestInv, RequestTypes, Ends, WorldInv, ControlTypes, TypeOK
<1>2. QED
  BY <1>1, AlwaysRuns, PTL

LEMMA RangeIsExplained ==
    ASSUME RunInv, RaiseOutOfRange, withdrawn = 0
    PROVE  pageNumber = 1 /\ \A record \in seen : record.account # Accounts[accountIndex]
<1> phase = "pages" /\ pageNumber > PageCount(Accounts[accountIndex])
  BY DEF RaiseOutOfRange
<1>1. PICK account \in AccountSet : account = Accounts[accountIndex]
  <2>1. accountIndex \in 1..Len(Accounts)
    BY DEF RunInv, ControlTypes
  <2>2. QED
    BY <2>1, AccountsAssumption
<1>2. PageCount(account) \in Nat /\ pageNumber > PageCount(account) /\ pageNumber \in Nat \ {0}
  BY <1>1, Served DEF RunInv, WorldInv, ControlTypes
<1>3. pageNumber = 1 /\ PageCount(account) = 0
  <2>1. pageNumber # 1 => pageNumber <= PageCount(account)
    BY <1>1 DEF RunInv, InRange
  <2>2. QED
    BY <1>2, <2>1
<1>4. ~(Len(TaggedEntries(account)) > 0)
  <2>1. PICK n \in Nat : n = Len(TaggedEntries(account))
    BY Served DEF RunInv, WorldInv
  <2>2. n <= PageCount(account) * PageSize
    BY <2>1, Served DEF RunInv, WorldInv
  <2>3. PageCount(account) * PageSize = 0
    BY <1>3, PageSizeAssumption
  <2>4. QED
    BY <2>1, <2>2, <2>3
<1>5. QED
  BY <1>1, <1>3, <1>4 DEF RunInv, Kept

(* Only a withdrawal makes the page of a link that was answered go out of  *)
(* range; without one, an account whose first page is out of range has had *)
(* no entry since the run began.                                           *)
THEOREM RangesNeedWithdrawals == Spec => OutOfRangeNeedsWithdrawals
<1> DEFINE Explained ==
              phase' = "out of range" /\ phase # phase' /\ withdrawn = 0 =>
                  /\ pageNumber = 1
                  /\ \A record \in seen : record.account # Accounts[accountIndex]
<1>1. RunInv /\ [Next]_vars => [Explained]_vars
  <2> SUFFICES ASSUME RunInv, Next, phase' = "out of range", phase # phase', withdrawn = 0
               PROVE  /\ pageNumber = 1
                      /\ \A record \in seen : record.account # Accounts[accountIndex]
    OBVIOUS
  <2>1. ~Retry /\ ~GiveUp /\ ~ListAccounts /\ ~ReadPage /\ ~Rerun
    BY DEF Retry, GiveUp, ListAccounts, ReadPage, Rerun
  <2>2. ~RaiseUnmappableAccount /\ ~RaiseUnknownAccount /\ ~RaiseUnmappable
    BY DEF RaiseUnmappableAccount, RaiseUnknownAccount, RaiseUnmappable, Raise
  <2>3. ~AccountStep
    BY AccountStepChanges DEF Change, adapterVars
  <2>4. RaiseOutOfRange
    BY <2>1, <2>2, <2>3 DEF Next, AccountStep
  <2>5. QED
    BY <2>4, RangeIsExplained
<1>2. Spec => [][Explained]_vars
  BY <1>1, AlwaysRuns, PTL DEF Spec
<1>3. QED
  BY <1>2 DEF OutOfRangeNeedsWithdrawals

(* Without changes, the pages put together are the whole report in order.  *)
THEOREM StableExtractsAreWhole == Spec => []StableExtractIsComplete
<1>1. Init => OrderInv
  BY InitFresh, InitRuns, FreshOrder DEF OrderInv
<1>2. OrderInv => StableExtractIsComplete
  <2> SUFFICES ASSUME OrderInv, phase = "done", steady = seen
               PROVE  extracted = FlattenSeq(Rows)
    BY DEF StableExtractIsComplete, Rows
  <2>1. Rows \in Seq(Seq(Records)) /\ Len(Rows) = Len(Accounts)
    BY RowTypes DEF OrderInv, RunInv, WorldInv
  <2>2. accountIndex = Len(Rows) + 1
    BY <2>1 DEF OrderInv, RunInv, ControlTypes
  <2>3. extracted = Before(Rows, accountIndex)
    BY DEF OrderInv, InOrder
  <2>4. QED
    BY <2>1, <2>2, <2>3, AllBefore
<1>3. QED
  BY <1>1, <1>2, AlwaysRuns, NextOrders, PTL DEF Spec

(* The extract is what Extraction promises, for any pages, refusals and    *)
(* changes of the report: all that was reported throughout, but for at     *)
(* most one record for each withdrawal, and nothing that never was.        *)
THEOREM ExtractionImplemented == Spec => ImplementsExtraction
<1>1. Spec => Extract!Spec
  BY AlwaysRuns, InitImplements, NextImplements, PTL DEF Spec, Extract!Spec
<1>2. QED
  BY <1>1 DEF ImplementsExtraction
=============================================================================
