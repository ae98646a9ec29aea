----------------------- MODULE MarlstoneExtractionProofs -----------------------
(***************************************************************************)
(* Proofs about marlstone's extraction, for any accounts, reports, sizes   *)
(* of pages and numbers of changes between the requests: the extract is    *)
(* what Extraction promises, only insertions and removals repeat an entry, *)
(* and only removals leave a cursor past the end.                          *)
(***************************************************************************)
EXTENDS MarlstoneExtraction, FiniteSetTheorems, SequenceTheorems, WellFoundedInduction, TLAPS

-----------------------------------------------------------------------------
(* The inductive invariant *)

Types ==
    /\ phase \in {"accounts", "pages", "done", "unknown account", "past the end", "unknown status"}
    /\ open \in Seq(Accounts)
    /\ IsInjective(open)
    /\ todo \in Seq(Accounts)
    /\ IsInjective(todo)
    /\ phase = "accounts" => cursor = 0 /\ extracted = <<>>
    /\ phase = "pages" => todo # <<>>
    /\ report \in Seq(Records)
    /\ IsInjective(IdsOf(report))
    /\ extracted \in Seq(Records)
    /\ \A i \in DOMAIN extracted : extracted[i].status # "OTHER"
    /\ inserted \in Nat /\ removed \in Nat

(* Every cursor is the end of a full page. *)
Pages == \E n \in Nat : cursor = n * PageSize

(* What the run has seen *)
Histories ==
    /\ steady \subseteq Reported(open, report)
    /\ steady \subseteq seen
    /\ Reported(open, report) \subseteq seen
    /\ seen \subseteq Records
    /\ ToSet(extracted) \subseteq seen

(* Has the place of an entry been read, when the accounts are still to be  *)
(* read and the cursor stands at the offset?  What has been read moves     *)
(* with the entries.                                                       *)
IsRead(entries, accounts, offset, i) ==
    \/ entries[i].account \notin ToSet(accounts)
    \/ entries[i].account = Head(accounts) /\ UpTo(entries, Head(accounts), i) <= offset

(* The entries that have been there all the time, and slipped by. *)
MissedIn(entries, accounts, offset, taken, always) ==
    {e \in always : /\ e \notin ToSet(taken)
                    /\ \E i \in DOMAIN entries :
                          entries[i] = e /\ IsRead(entries, accounts, offset, i)}

Missed == MissedIn(report, todo, cursor, extracted, steady)

KeyOf(entry) == <<entry.account, entry.id>>

KeysOf(entries) == {KeyOf(entries[i]) : i \in DOMAIN entries}

(* The transactions that were taken, and are where they may be met again:  *)
(* at a place that is still to be read, or nowhere.                        *)
MayRepeatIn(entries, accounts, offset, taken) ==
    {x \in KeysOf(taken) : \A i \in DOMAIN entries :
                              KeyOf(entries[i]) = x => ~IsRead(entries, accounts, offset, i)}

MayRepeat == MayRepeatIn(report, todo, cursor, extracted)

Repeats ==
    /\ Len(extracted) - Cardinality(KeysOf(extracted)) <= inserted + removed
    /\ phase = "pages" =>
          Len(extracted) - Cardinality(KeysOf(extracted)) + Cardinality(MayRepeat)
             <= inserted + removed

Misses == phase = "pages" => Cardinality(Missed) <= removed

Total(account) == UpTo(report, account, Len(report))

CursorIsWithin ==
    /\ phase = "pages" /\ removed = 0 /\ cursor > 0 => cursor < Total(Head(todo))
    /\ phase = "past the end" => removed > 0

IInv == Types /\ Pages /\ Histories /\ Repeats /\ Misses /\ CursorIsWithin
-----------------------------------------------------------------------------
(* Counting the entries of an account *)

(* Induction, for a property given as the set of the numbers that have it. *)
LEMMA NatSetInduction ==
    ASSUME NEW T, 0 \in T, \A n \in Nat : n \in T => n + 1 \in T
    PROVE  \A n \in Nat : n \in T
<1> DEFINE R == OpToRel(<, Nat)
           Bad == {n \in Nat : n \notin T}
<1>1. SUFFICES ASSUME Bad # {} PROVE FALSE
  OBVIOUS
<1>2. \E m \in Bad : \A n \in Bad : <<n, m>> \notin R
  <2>1. IsWellFoundedOn(R, Nat) /\ Bad \subseteq Nat
    BY NatLessThanWellFounded
  <2>. HIDE DEF R, Bad
  <2>2. QED
    BY <1>1, <2>1, WFMin
<1>3. PICK m \in Bad : \A n \in Bad : <<n, m>> \notin R
  BY <1>2
<1>4. m \in Nat /\ m \notin T /\ m # 0
  OBVIOUS
<1>5. m - 1 \in Bad
  BY <1>4
<1>6. <<m - 1, m>> \in R
  <2>1. <<m - 1, m>> \in Nat \X Nat /\ m - 1 < m
    BY <1>4
  <2>2. QED
    BY <2>1 DEF OpToRel
<1>7. QED
  BY <1>3, <1>5, <1>6


PlacesUpTo(entries, account, n) == {i \in 1..n : entries[i].account = account}

LEMMA UpToType ==
    ASSUME NEW r, NEW a, NEW n \in Nat
    PROVE  IsFiniteSet(PlacesUpTo(r, a, n)) /\ UpTo(r, a, n) \in 0..n
<1>1. IsFiniteSet(1..n) /\ Cardinality(1..n) = n
  BY FS_Interval
<1>2. PlacesUpTo(r, a, n) \in SUBSET (1..n)
  BY DEF PlacesUpTo
<1>3. IsFiniteSet(PlacesUpTo(r, a, n)) /\ Cardinality(PlacesUpTo(r, a, n)) <= n
  BY <1>1, <1>2, FS_Subset
<1>4. Cardinality(PlacesUpTo(r, a, n)) \in Nat
  BY <1>3, FS_CardinalityType
<1>5. UpTo(r, a, n) = Cardinality(PlacesUpTo(r, a, n))
  BY DEF UpTo, PlacesUpTo
<1>6. QED
  BY <1>3, <1>4, <1>5

LEMMA UpToNone == ASSUME NEW r, NEW a PROVE UpTo(r, a, 0) = 0
  BY UpToType

LEMMA UpToOneMore ==
    ASSUME NEW r, NEW a, NEW n \in Nat
    PROVE  UpTo(r, a, n + 1) = IF r[n + 1].account = a THEN UpTo(r, a, n) + 1 ELSE UpTo(r, a, n)
<1>0. /\ UpTo(r, a, n) = Cardinality(PlacesUpTo(r, a, n))
      /\ UpTo(r, a, n + 1) = Cardinality(PlacesUpTo(r, a, n + 1))
  BY DEF UpTo, PlacesUpTo
<1>1. CASE r[n + 1].account = a
  <2>1. PlacesUpTo(r, a, n + 1) = PlacesUpTo(r, a, n) \cup {n + 1}
    BY <1>1 DEF PlacesUpTo
  <2>2. n + 1 \notin PlacesUpTo(r, a, n)
    BY DEF PlacesUpTo
  <2>3. Cardinality(PlacesUpTo(r, a, n) \cup {n + 1}) = Cardinality(PlacesUpTo(r, a, n)) + 1
    BY <2>2, UpToType, FS_AddElement
  <2>4. QED
    BY <1>0, <1>1, <2>1, <2>3
<1>2. CASE r[n + 1].account # a
  <2>1. PlacesUpTo(r, a, n + 1) = PlacesUpTo(r, a, n)
    BY <1>2 DEF PlacesUpTo
  <2>2. QED
    BY <1>0, <1>2, <2>1
<1>3. QED
  BY <1>1, <1>2

LEMMA UpToGrows ==
    ASSUME NEW r, NEW a, NEW m \in Nat, NEW n \in Nat, m <= n
    PROVE  UpTo(r, a, m) <= UpTo(r, a, n)
<1>1. \A k \in Nat : UpTo(r, a, k) = Cardinality(PlacesUpTo(r, a, k))
  BY DEF UpTo, PlacesUpTo
<1>2. PlacesUpTo(r, a, m) \in SUBSET PlacesUpTo(r, a, n)
  BY DEF PlacesUpTo
<1>3. Cardinality(PlacesUpTo(r, a, m)) <= Cardinality(PlacesUpTo(r, a, n))
  BY <1>2, UpToType, FS_Subset
<1>4. QED
  BY <1>1, <1>3

(* The entry at a place is one more than stood before it.                  *)
LEMMA UpToPlace ==
    ASSUME NEW r, NEW a, NEW i \in Nat \ {0}, r[i].account = a
    PROVE  UpTo(r, a, i) = UpTo(r, a, i - 1) + 1 /\ UpTo(r, a, i) \in Nat \ {0}
<1>1. PICK n \in Nat : i = n + 1
  <2>1. i - 1 \in Nat /\ i = (i - 1) + 1
    OBVIOUS
  <2>2. QED
    BY <2>1
<1>2. UpTo(r, a, n + 1) = UpTo(r, a, n) + 1
  BY <1>1, UpToOneMore
<1>3. UpTo(r, a, n) \in Nat /\ i - 1 = n
  BY <1>1, UpToType
<1>4. QED
  BY <1>1, <1>2, <1>3

(* No two places of an account have the same number.                       *)
LEMMA UpToInjective ==
    ASSUME NEW r, NEW a, NEW i \in Nat \ {0}, NEW j \in Nat \ {0},
           r[i].account = a, r[j].account = a, UpTo(r, a, i) = UpTo(r, a, j)
    PROVE  i = j
<1>1. ASSUME NEW m \in Nat \ {0}, NEW n \in Nat \ {0}, m < n, r[n].account = a
      PROVE  UpTo(r, a, m) < UpTo(r, a, n)
  <2>1. PICK k : k = n - 1
    OBVIOUS
  <2>2. k \in Nat /\ m <= k
    BY <1>1, <2>1
  <2>3. UpTo(r, a, m) <= UpTo(r, a, k)
    BY <2>2, UpToGrows
  <2>4. UpTo(r, a, n) = UpTo(r, a, k) + 1
    BY <1>1, <2>1, UpToPlace
  <2>5. UpTo(r, a, m) \in Nat /\ UpTo(r, a, k) \in Nat
    BY <2>2, UpToType
  <2>6. QED
    BY <2>3, <2>4, <2>5
<1>2. UpTo(r, a, i) \in Nat
  BY UpToType
<1>3. QED
  BY <1>1, <1>2

(* Every number up to the total has a place.                               *)
LEMMA PlaceExists ==
    ASSUME NEW r, NEW a, NEW m \in Nat, NEW k \in 1..UpTo(r, a, m)
    PROVE  \E i \in 1..m : r[i].account = a /\ UpTo(r, a, i) = k
<1> DEFINE Met(n) == k <= UpTo(r, a, n) =>
                        \E i \in 1..n : r[i].account = a /\ UpTo(r, a, i) = k
           T == {n \in Nat : Met(n)}
<1>0. k \in Nat \ {0}
  BY UpToType
<1>1. 0 \in T
  BY <1>0, UpToNone
<1>2. ASSUME NEW n \in Nat, n \in T PROVE n + 1 \in T
  <2>1. SUFFICES ASSUME k <= UpTo(r, a, n + 1)
                 PROVE  \E i \in 1..(n + 1) : r[i].account = a /\ UpTo(r, a, i) = k
    OBVIOUS
  <2>2. CASE k <= UpTo(r, a, n)
    <3>1. PICK i \in 1..n : r[i].account = a /\ UpTo(r, a, i) = k
      BY <1>2, <2>2
    <3>2. i \in 1..(n + 1)
      OBVIOUS
    <3>3. QED
      BY <3>1, <3>2
  <2>3. CASE ~(k <= UpTo(r, a, n))
    <3>1. UpTo(r, a, n) \in Nat
      BY UpToType
    <3>2. r[n + 1].account = a /\ UpTo(r, a, n + 1) = k
      BY <1>0, <2>1, <2>3, <3>1, UpToOneMore
    <3>3. QED
      BY <3>2
  <2>4. QED
    BY <2>2, <2>3
<1>3. m \in T
  <2>. HIDE DEF T
  <2>1. QED
    BY <1>1, <1>2, NatSetInduction
<1>4. UpTo(r, a, m) \in Nat
  BY UpToType
<1>5. QED
  BY <1>0, <1>3, <1>4
-----------------------------------------------------------------------------
(* Pages *)

LEMMA MinOfTwo ==
    ASSUME NEW x \in Nat, NEW y \in Nat
    PROVE  Min({x, y}) = IF x < y THEN x ELSE y
<1>1. PICK m \in {x, y} : \A z \in {x, y} : m <= z
  BY DEF Min
<1>2. Min({x, y}) \in {x, y} /\ \A z \in {x, y} : Min({x, y}) <= z
  BY <1>1 DEF Min
<1>3. QED
  BY <1>2

LEMMA PlaceIs ==
    ASSUME NEW r \in Seq(Records), NEW a, NEW n \in 1..UpTo(r, a, Len(r))
    PROVE  /\ Place(r, a, n) \in 1..Len(r)
           /\ r[Place(r, a, n)].account = a
           /\ UpTo(r, a, Place(r, a, n)) = n
<1>1. \E i \in 1..Len(r) : r[i].account = a /\ UpTo(r, a, i) = n
  BY PlaceExists
<1>2. DOMAIN r = 1..Len(r)
  OBVIOUS
<1>3. \E i \in DOMAIN r : r[i].account = a /\ UpTo(r, a, i) = n
  BY <1>1, <1>2
<1>4. QED
  BY <1>2, <1>3 DEF Place

LEMMA AccountEntriesAre ==
    ASSUME report \in Seq(Records), NEW a
    PROVE  /\ Total(a) \in Nat
           /\ AccountEntries(a) \in Seq(Records)
           /\ Len(AccountEntries(a)) = Total(a)
           /\ \A n \in 1..Total(a) : AccountEntries(a)[n] = report[Place(report, a, n)]
<1>1. Total(a) \in Nat
  BY UpToType DEF Total
<1>2. AccountEntries(a) = [n \in 1..Total(a) |-> report[Place(report, a, n)]]
  BY DEF AccountEntries, Total
<1>3. \A n \in 1..Total(a) : report[Place(report, a, n)] \in Records
  BY PlaceIs DEF Total
<1>4. QED
  BY <1>1, <1>2, <1>3

PageEnd(a) == Min({cursor + PageSize, Total(a)})

LEMMA PageEndIs ==
    ASSUME report \in Seq(Records), cursor \in Nat, NEW a
    PROVE  /\ Total(a) \in Nat
           /\ PageEnd(a) = IF cursor + PageSize < Total(a) THEN cursor + PageSize ELSE Total(a)
           /\ PageEnd(a) \in 0..Total(a)
  BY AccountEntriesAre, MinOfTwo, PageSizeAssumption DEF PageEnd

LEMMA PageIs ==
    ASSUME report \in Seq(Records), cursor \in Nat, NEW a
    PROVE  /\ Page(a) \in Seq(Records)
           /\ Len(Page(a)) = IF cursor < PageEnd(a) THEN PageEnd(a) - cursor ELSE 0
           /\ \A k \in 1..Len(Page(a)) :
                 /\ cursor + k \in 1..PageEnd(a)
                 /\ Page(a)[k] = report[Place(report, a, cursor + k)]
<1>1. PICK list, from, to : list = AccountEntries(a) /\ from = cursor + 1 /\ to = PageEnd(a)
  OBVIOUS
<1>2. list \in Seq(Records) /\ Len(list) = Total(a) /\ from \in Nat \ {0} /\ to \in 0..Len(list)
  BY <1>1, AccountEntriesAre, PageEndIs
<1>3. Page(a) = SubSeq(list, from, to)
  BY <1>1, AccountEntriesAre DEF Page, PageEnd
<1>4. /\ SubSeq(list, from, to) \in Seq(Records)
      /\ Len(SubSeq(list, from, to)) = IF from <= to THEN to - from + 1 ELSE 0
      /\ \A k \in 1..Len(SubSeq(list, from, to)) : SubSeq(list, from, to)[k] = list[from + k - 1]
  BY <1>2
<1>5. PICK page : page = SubSeq(list, from, to)
  OBVIOUS
<1>6. /\ page \in Seq(Records)
      /\ Len(page) = IF from <= to THEN to - from + 1 ELSE 0
      /\ \A k \in 1..Len(page) : page[k] = list[from + k - 1]
  BY <1>4, <1>5
<1>7. Len(page) = IF cursor < PageEnd(a) THEN PageEnd(a) - cursor ELSE 0
  BY <1>1, <1>2, <1>6
<1>8. ASSUME NEW k \in 1..Len(page)
      PROVE  cursor + k \in 1..PageEnd(a) /\ page[k] = report[Place(report, a, cursor + k)]
  <2>1. cursor + k \in 1..PageEnd(a) /\ from + k - 1 = cursor + k
    BY <1>1, <1>2, <1>7
  <2>2. cursor + k \in 1..Total(a)
    BY <2>1, PageEndIs
  <2>3. page[k] = list[cursor + k]
    BY <1>6, <2>1
  <2>4. list[cursor + k] = report[Place(report, a, cursor + k)]
    BY <1>1, <2>2, AccountEntriesAre
  <2>5. QED
    BY <2>1, <2>3, <2>4
<1>9. QED
  BY <1>3, <1>5, <1>6, <1>7, <1>8

(* A page has the entries whose number is behind the cursor, and at most a *)
(* page away, each once.                                                   *)
LEMMA PageEntry ==
    ASSUME report \in Seq(Records), cursor \in Nat, NEW a, NEW k \in DOMAIN Page(a)
    PROVE  \E i \in DOMAIN report :
              /\ Page(a)[k] = report[i]
              /\ report[i].account = a
              /\ UpTo(report, a, i) = cursor + k
              /\ cursor < UpTo(report, a, i)
              /\ UpTo(report, a, i) <= cursor + PageSize
<1>1. PICK page : page = Page(a)
  OBVIOUS
<1>2. page \in Seq(Records) /\ k \in 1..Len(page)
  BY <1>1, PageIs
<1>3. cursor + k \in 1..PageEnd(a) /\ page[k] = report[Place(report, a, cursor + k)]
  BY <1>1, <1>2, PageIs
<1>4. cursor + k \in 1..Total(a) /\ cursor + k <= cursor + PageSize
  BY <1>3, PageEndIs, PageSizeAssumption
<1>5. PICK i : i = Place(report, a, cursor + k)
  OBVIOUS
<1>6. i \in 1..Len(report) /\ report[i].account = a /\ UpTo(report, a, i) = cursor + k
  BY <1>4, <1>5, PlaceIs DEF Total
<1>7. cursor < cursor + k
  BY <1>2
<1>8. QED
  BY <1>1, <1>3, <1>4, <1>5, <1>6, <1>7

LEMMA PageCovers ==
    ASSUME report \in Seq(Records), cursor \in Nat, NEW i \in DOMAIN report,
           NEW a, report[i].account = a,
           cursor < UpTo(report, a, i), UpTo(report, a, i) <= cursor + PageSize
    PROVE  \E k \in DOMAIN Page(a) : Page(a)[k] = report[i]
<1>0. i \in 1..Len(report)
  OBVIOUS
<1>1. PICK k, u : u = UpTo(report, a, i) /\ k = u - cursor
  OBVIOUS
<1>2. u \in Nat /\ u <= Total(a)
  BY <1>0, <1>1, UpToType, UpToGrows DEF Total
<1>3. k \in 1..(PageEnd(a) - cursor) /\ cursor < PageEnd(a) /\ cursor + k = u /\ u \in 1..Total(a)
  BY <1>1, <1>2, PageEndIs, PageSizeAssumption
<1>4. PICK page : page = Page(a)
  OBVIOUS
<1>5. page \in Seq(Records) /\ k \in 1..Len(page)
  BY <1>3, <1>4, PageIs
<1>6. page[k] = report[Place(report, a, u)]
  BY <1>3, <1>4, <1>5, PageIs
<1>7. Place(report, a, u) = i
  <2>1. PICK j : j = Place(report, a, u)
    OBVIOUS
  <2>2. j \in 1..Len(report) /\ report[j].account = a /\ UpTo(report, a, j) = u
    BY <1>3, <2>1, PlaceIs DEF Total
  <2>3. j \in Nat \ {0} /\ i \in Nat \ {0}
    BY <1>0, <2>2
  <2>4. QED
    BY <1>1, <2>1, <2>2, <2>3, UpToInjective
<1>8. QED
  BY <1>4, <1>5, <1>6, <1>7
-----------------------------------------------------------------------------
(* Where the entries are after a change of the report *)

SameAccounts(r, q, n) == \A i \in 1..n : q[i].account = r[i].account

OneFurther(r, q, n) == \A i \in 1..n : q[i + 1] = r[i]

OneGone(r, q, k, n) == (\A i \in 1..(k - 1) : q[i] = r[i]) /\ \A i \in k..n : q[i] = r[i + 1]

(* Up to a place, two reports with entries of the same accounts count the same. *)
LEMMA SameUpTo ==
    ASSUME NEW r, NEW q, NEW a, NEW n \in Nat, SameAccounts(r, q, n)
    PROVE  UpTo(q, a, n) = UpTo(r, a, n)
<1>1. PlacesUpTo(q, a, n) = PlacesUpTo(r, a, n)
  BY DEF PlacesUpTo, SameAccounts
<1>2. QED
  BY <1>1 DEF UpTo, PlacesUpTo

(* Entries that all stand one place further, behind the first. *)
LEMMA BehindFirst ==
    ASSUME NEW r, NEW q, NEW a, NEW n \in Nat,
           OneFurther(r, q, n)
    PROVE  UpTo(q, a, n + 1) = IF q[1].account = a THEN UpTo(r, a, n) + 1 ELSE UpTo(r, a, n)
<1> DEFINE Behind(m) == UpTo(q, a, m + 1)
                           = IF q[1].account = a THEN UpTo(r, a, m) + 1 ELSE UpTo(r, a, m)
           T == {m \in Nat : m <= n => Behind(m)}
<1>1. 0 \in T
  <2>1. UpTo(q, a, 0 + 1) = IF q[0 + 1].account = a THEN UpTo(q, a, 0) + 1 ELSE UpTo(q, a, 0)
    BY UpToOneMore
  <2>2. UpTo(q, a, 0) = 0 /\ UpTo(r, a, 0) = 0
    BY UpToNone
  <2>3. QED
    BY <2>1, <2>2
<1>2. ASSUME NEW m \in Nat, m \in T PROVE m + 1 \in T
  <2>1. SUFFICES ASSUME m + 1 <= n PROVE Behind(m + 1)
    OBVIOUS
  <2>2. Behind(m)
    BY <1>2, <2>1
  <2>3. q[(m + 1) + 1] = r[m + 1]
    BY <2>1 DEF OneFurther
  <2>4. UpTo(q, a, (m + 1) + 1) =
           IF q[(m + 1) + 1].account = a THEN UpTo(q, a, m + 1) + 1 ELSE UpTo(q, a, m + 1)
    BY UpToOneMore
  <2>5. UpTo(r, a, m + 1) = IF r[m + 1].account = a THEN UpTo(r, a, m) + 1 ELSE UpTo(r, a, m)
    BY UpToOneMore
  <2>6. UpTo(r, a, m) \in Nat
    BY UpToType
  <2>7. QED
    BY <2>2, <2>3, <2>4, <2>5, <2>6
<1>3. n \in T
  <2>. HIDE DEF T
  <2>1. QED
    BY <1>1, <1>2, NatSetInduction
<1>4. QED
  BY <1>3

(* Entries behind a place that is gone stand one place nearer.             *)
LEMMA BehindGone ==
    ASSUME NEW r, NEW q, NEW a, NEW k \in Nat \ {0}, NEW n \in Nat, k <= n,
           OneGone(r, q, k, n)
    PROVE  UpTo(r, a, n + 1) = IF r[k].account = a THEN UpTo(q, a, n) + 1 ELSE UpTo(q, a, n)
<1> DEFINE Behind(m) == UpTo(r, a, m + 1)
                           = IF r[k].account = a THEN UpTo(q, a, m) + 1 ELSE UpTo(q, a, m)
           T == {m \in Nat : k <= m + 1 /\ m <= n => Behind(m)}
<1>0. PICK h \in Nat : k = h + 1
  <2>1. k - 1 \in Nat /\ k = (k - 1) + 1
    OBVIOUS
  <2>2. QED
    BY <2>1
<1>1. Behind(h)
  <2>1. UpTo(q, a, h) = UpTo(r, a, h)
    <3>1. SameAccounts(r, q, h)
      BY <1>0 DEF OneGone, SameAccounts
    <3>2. QED
      BY <3>1, SameUpTo
  <2>2. UpTo(r, a, h + 1) = IF r[h + 1].account = a THEN UpTo(r, a, h) + 1 ELSE UpTo(r, a, h)
    BY UpToOneMore
  <2>3. QED
    BY <1>0, <2>1, <2>2
<1>2. ASSUME NEW m \in Nat, m \in T PROVE m + 1 \in T
  <2>1. SUFFICES ASSUME k <= (m + 1) + 1, m + 1 <= n PROVE Behind(m + 1)
    OBVIOUS
  <2>2. CASE m + 1 = h
    BY <1>1, <2>2
  <2>3. CASE m + 1 # h
    <3>1. k <= m + 1 /\ m <= n
      BY <1>0, <2>1, <2>3
    <3>2. Behind(m)
      BY <1>2, <3>1
    <3>3. q[m + 1] = r[(m + 1) + 1]
      BY <2>1, <3>1 DEF OneGone
    <3>4. UpTo(r, a, (m + 1) + 1) =
             IF r[(m + 1) + 1].account = a THEN UpTo(r, a, m + 1) + 1 ELSE UpTo(r, a, m + 1)
      BY UpToOneMore
    <3>5. UpTo(q, a, m + 1) = IF q[m + 1].account = a THEN UpTo(q, a, m) + 1 ELSE UpTo(q, a, m)
      BY UpToOneMore
    <3>6. UpTo(q, a, m) \in Nat
      BY UpToType
    <3>7. QED
      BY <3>2, <3>3, <3>4, <3>5, <3>6
  <2>4. QED
    BY <2>2, <2>3
<1>3. 0 \in T
  <2>1. CASE h = 0
    BY <1>1, <2>1
  <2>2. CASE h # 0
    BY <1>0, <2>2
  <2>3. QED
    BY <2>1, <2>2
<1>4. n \in T
  <2>. HIDE DEF T
  <2>1. QED
    BY <1>2, <1>3, NatSetInduction
<1>5. QED
  BY <1>4

LEMMA SameUpToAll ==
    ASSUME NEW r, NEW q, NEW m \in Nat, SameAccounts(r, q, m)
    PROVE  \A i \in 0..m, a \in Accounts : UpTo(q, a, i) = UpTo(r, a, i)
<1> SUFFICES ASSUME NEW i \in 0..m, NEW a \in Accounts
             PROVE  UpTo(q, a, i) = UpTo(r, a, i)
  OBVIOUS
<1>1. i \in Nat /\ SameAccounts(r, q, i)
  BY DEF SameAccounts
<1>2. QED
  BY <1>1, SameUpTo

CountsFurther(r, q, first, n) ==
    \A i \in 0..n, a \in Accounts :
       UpTo(q, a, i + 1) = IF first = a THEN UpTo(r, a, i) + 1 ELSE UpTo(r, a, i)

LEMMA BehindFirstAll ==
    ASSUME NEW r, NEW q, NEW m \in Nat, OneFurther(r, q, m)
    PROVE  CountsFurther(r, q, q[1].account, m)
<1> SUFFICES ASSUME NEW i \in 0..m, NEW a \in Accounts
             PROVE  UpTo(q, a, i + 1)
                       = IF q[1].account = a THEN UpTo(r, a, i) + 1 ELSE UpTo(r, a, i)
  BY DEF CountsFurther
<1>1. i \in Nat /\ OneFurther(r, q, i)
  BY DEF OneFurther
<1>2. QED
  BY <1>1, BehindFirst

LEMMA BehindGoneAll ==
    ASSUME NEW r, NEW q, NEW k \in Nat \ {0}, NEW m \in Nat, OneGone(r, q, k, m)
    PROVE  \A i \in k..m, a \in Accounts :
              UpTo(r, a, i + 1) = IF r[k].account = a THEN UpTo(q, a, i) + 1 ELSE UpTo(q, a, i)
<1> SUFFICES ASSUME NEW i \in k..m, NEW a \in Accounts
             PROVE  UpTo(r, a, i + 1)
                       = IF r[k].account = a THEN UpTo(q, a, i) + 1 ELSE UpTo(q, a, i)
  OBVIOUS
<1>1. i \in Nat /\ k <= i
  OBVIOUS
<1>2. OneGone(r, q, k, i)
  BY DEF OneGone
<1>3. QED
  BY <1>1, <1>2, BehindGone

Appended(r, q, e) ==
    /\ q \in Seq(Records) /\ Len(q) = Len(r) + 1 /\ q[Len(r) + 1] = e
    /\ \A i \in 1..Len(r) : q[i] = r[i]
    /\ \A i \in 0..Len(r), a \in Accounts : UpTo(q, a, i) = UpTo(r, a, i)

LEMMA AppendedPlaces ==
    ASSUME NEW r \in Seq(Records), NEW e \in Records, NEW q, q = Append(r, e)
    PROVE  Appended(r, q, e)
<1>1. /\ q \in Seq(Records) /\ Len(q) = Len(r) + 1 /\ q[Len(r) + 1] = e
      /\ \A i \in 1..Len(r) : q[i] = r[i]
  OBVIOUS
<1>2. Len(r) \in Nat /\ SameAccounts(r, q, Len(r))
  BY <1>1 DEF SameAccounts
<1>3. \A i \in 0..Len(r), a \in Accounts : UpTo(q, a, i) = UpTo(r, a, i)
  BY <1>2, SameUpToAll
<1>4. QED
  BY <1>1, <1>3 DEF Appended

Inserted(r, q, e) ==
    /\ q \in Seq(Records) /\ Len(q) = Len(r) + 1 /\ q[1] = e
    /\ \A i \in 1..Len(r) : q[i + 1] = r[i]
    /\ CountsFurther(r, q, e.account, Len(r))

LEMMA InsertedPlaces ==
    ASSUME NEW r \in Seq(Records), NEW e \in Records, NEW q, q = <<e>> \o r
    PROVE  Inserted(r, q, e)
<1>1. <<e>> \in Seq(Records) /\ Len(<<e>>) = 1 /\ <<e>>[1] = e
  OBVIOUS
<1>2. PICK f : f = <<e>>
  OBVIOUS
<1>3. f \in Seq(Records) /\ Len(f) = 1 /\ f[1] = e /\ q = f \o r
  BY <1>1, <1>2
<1>4. /\ f \o r \in Seq(Records) /\ Len(f \o r) = Len(f) + Len(r)
      /\ \A i \in 1..Len(f) + Len(r) : (f \o r)[i] = IF i <= Len(f) THEN f[i] ELSE r[i - Len(f)]
  BY <1>3, ConcatProperties
<1>5. /\ q \in Seq(Records) /\ Len(q) = Len(r) + 1
      /\ \A i \in 1..Len(r) + 1 : q[i] = IF i <= 1 THEN f[i] ELSE r[i - 1]
  BY <1>3, <1>4
<1>6. q[1] = e
  BY <1>3, <1>5
<1>7. ASSUME NEW i \in 1..Len(r) PROVE q[i + 1] = r[i]
  <2>1. i + 1 \in 1..Len(r) + 1 /\ ~(i + 1 <= 1) /\ (i + 1) - 1 = i
    OBVIOUS
  <2>2. QED
    BY <1>5, <2>1
<1>8. CountsFurther(r, q, e.account, Len(r))
  <2>1. PICK m \in Nat : m = Len(r)
    OBVIOUS
  <2>2. OneFurther(r, q, m)
    BY <1>7, <2>1 DEF OneFurther
  <2>3. CountsFurther(r, q, q[1].account, m)
    BY <2>2, BehindFirstAll
  <2>4. q[1].account = e.account
    BY <1>6
  <2>5. QED
    BY <2>1, <2>3, <2>4
<1>9. QED
  BY <1>5, <1>6, <1>7, <1>8 DEF Inserted

Gone(r, q, k) ==
    /\ q \in Seq(Records) /\ Len(q) = Len(r) - 1
    /\ \A i \in 1..(k - 1) : q[i] = r[i]
    /\ \A i \in k..Len(q) : q[i] = r[i + 1]
    /\ \A i \in 0..(k - 1), a \in Accounts : UpTo(q, a, i) = UpTo(r, a, i)
    /\ \A i \in k..Len(q), a \in Accounts :
          UpTo(r, a, i + 1) = IF r[k].account = a THEN UpTo(q, a, i) + 1 ELSE UpTo(q, a, i)

LEMMA GonePlaces ==
    ASSUME NEW r \in Seq(Records), NEW k \in 1..Len(r), NEW q, q = RemoveAt(r, k)
    PROVE  Gone(r, q, k)
<1>1. PICK f, g : f = SubSeq(r, 1, k - 1) /\ g = SubSeq(r, k + 1, Len(r))
  OBVIOUS
<1>2. /\ f \in Seq(Records) /\ Len(f) = k - 1
      /\ \A i \in 1..(k - 1) : f[i] = r[i]
  BY <1>1
<1>3. /\ g \in Seq(Records) /\ Len(g) = Len(r) - k
      /\ \A i \in 1..Len(g) : g[i] = r[k + i]
  <2>1. /\ SubSeq(r, k + 1, Len(r)) \in Seq(Records)
        /\ Len(SubSeq(r, k + 1, Len(r))) = Len(r) - k
        /\ \A i \in 1..(Len(r) - k) : SubSeq(r, k + 1, Len(r))[i] = r[k + i]
    OBVIOUS
  <2>2. QED
    BY <1>1, <2>1
<1>4. q = f \o g
  BY <1>1 DEF RemoveAt
<1>5. /\ f \o g \in Seq(Records) /\ Len(f \o g) = Len(f) + Len(g)
      /\ \A i \in 1..Len(f) + Len(g) : (f \o g)[i] = IF i <= Len(f) THEN f[i] ELSE g[i - Len(f)]
  BY <1>2, <1>3, ConcatProperties
<1>6. /\ q \in Seq(Records) /\ Len(q) = Len(r) - 1
      /\ \A i \in 1..Len(q) : q[i] = IF i <= k - 1 THEN f[i] ELSE g[i - (k - 1)]
  BY <1>2, <1>3, <1>4, <1>5
<1>7. ASSUME NEW i \in 1..(k - 1) PROVE q[i] = r[i]
  <2>1. i \in 1..Len(q) /\ i <= k - 1
    BY <1>6
  <2>2. q[i] = f[i]
    BY <1>6, <2>1
  <2>3. f[i] = r[i]
    BY <1>2
  <2>4. QED
    BY <2>2, <2>3
<1>8. ASSUME NEW i \in k..Len(q) PROVE q[i] = r[i + 1]
  <2>1. PICK j : j = i - (k - 1)
    OBVIOUS
  <2>2. j \in 1..Len(g) /\ k + j = i + 1 /\ i \in 1..Len(q) /\ ~(i <= k - 1)
    BY <1>3, <1>6, <2>1
  <2>3. q[i] = g[j]
    BY <1>6, <2>1, <2>2
  <2>4. QED
    BY <1>3, <2>2, <2>3
<1>9. \A i \in 0..(k - 1), a \in Accounts : UpTo(q, a, i) = UpTo(r, a, i)
  <2>1. (k - 1) \in Nat /\ SameAccounts(r, q, k - 1)
    BY <1>7 DEF SameAccounts
  <2>2. QED
    BY <2>1, SameUpToAll
<1>10. \A i \in k..Len(q), a \in Accounts :
          UpTo(r, a, i + 1) = IF r[k].account = a THEN UpTo(q, a, i) + 1 ELSE UpTo(q, a, i)
  <2>1. k \in Nat \ {0} /\ Len(q) \in Nat
    BY <1>6
  <2>2. OneGone(r, q, k, Len(q))
    BY <1>7, <1>8 DEF OneGone
  <2>3. QED
    BY <2>1, <2>2, BehindGoneAll
<1>11. QED
  BY <1>6, <1>7, <1>8, <1>9, <1>10 DEF Gone

Amended(r, q, k, status) ==
    /\ q \in Seq(Records) /\ Len(q) = Len(r)
    /\ \A i \in 1..Len(r) : q[i].account = r[i].account /\ q[i].id = r[i].id
    /\ \A i \in 1..Len(r) : i # k => q[i] = r[i]
    /\ q[k].status = status
    /\ \A i \in 0..Len(r), a \in Accounts : UpTo(q, a, i) = UpTo(r, a, i)

LEMMA AmendedPlaces ==
    ASSUME NEW r \in Seq(Records), NEW k \in 1..Len(r), NEW status \in Statuses,
           NEW q, q = [r EXCEPT ![k].status = status]
    PROVE  Amended(r, q, k, status)
<1>1. PICK account \in Accounts, id \in Ids, old \in Statuses :
         r[k] = [account |-> account, id |-> id, status |-> old]
  <2>1. PICK e \in Records : e = r[k]
    OBVIOUS
  <2>2. \E account \in Accounts, id \in Ids, old \in Statuses :
           e = [account |-> account, id |-> id, status |-> old]
    BY DEF Records
  <2>3. QED
    BY <2>1, <2>2
<1>2. PICK e : e = [account |-> account, id |-> id, status |-> status]
  OBVIOUS
<1>3. e \in Records /\ e.account = account /\ e.id = id /\ e.status = status
  BY <1>2 DEF Records
<1>4. q = [r EXCEPT ![k] = e]
  <2>1. [r[k] EXCEPT !.status = status] = e
    BY <1>1, <1>2
  <2>2. QED
    BY <2>1
<1>5. q \in Seq(Records) /\ Len(q) = Len(r) /\ q[k] = e
  BY <1>3, <1>4
<1>6. \A i \in 1..Len(r) : i # k => q[i] = r[i]
  BY <1>4
<1>7. r[k].account = account /\ r[k].id = id
  BY <1>1
<1>8. \A i \in 1..Len(r) : q[i].account = r[i].account /\ q[i].id = r[i].id
  BY <1>3, <1>5, <1>6, <1>7
<1>9. \A i \in 0..Len(r), a \in Accounts : UpTo(q, a, i) = UpTo(r, a, i)
  <2>1. Len(r) \in Nat /\ SameAccounts(r, q, Len(r))
    BY <1>8 DEF SameAccounts
  <2>2. QED
    BY <2>1, SameUpToAll
<1>10. QED
  BY <1>3, <1>5, <1>6, <1>8, <1>9 DEF Amended
-----------------------------------------------------------------------------
(* What a change of the report does to what has been read *)

(* What stands at a read place afterwards stood at one before, but for some. *)
NothingSlips(r, q, accounts, offset, some) ==
    \A j \in DOMAIN q : IsRead(q, accounts, offset, j) =>
       \/ q[j] \notin ToSet(r)
       \/ q[j] \in some
       \/ \E i \in DOMAIN r : r[i] = q[j] /\ IsRead(r, accounts, offset, i)

(* What stood at a read place stands at one afterwards, but for some.      *)
NothingReturns(r, q, accounts, offset, some) ==
    \A i \in DOMAIN r : IsRead(r, accounts, offset, i) =>
       \/ KeyOf(r[i]) \in some
       \/ \E j \in DOMAIN q : KeyOf(q[j]) = KeyOf(r[i]) /\ IsRead(q, accounts, offset, j)

LEMMA AppendedReads ==
    ASSUME NEW r \in Seq(Records), NEW e \in Records, NEW q, Appended(r, q, e),
           e.id \notin ToSet(IdsOf(r)),
           NEW accounts, Head(accounts) \in Accounts, NEW offset \in Nat
    PROVE  /\ NothingSlips(r, q, accounts, offset, {})
           /\ NothingReturns(r, q, accounts, offset, {})
<1>1. /\ q \in Seq(Records) /\ Len(q) = Len(r) + 1 /\ q[Len(r) + 1] = e
      /\ \A i \in 1..Len(r) : q[i] = r[i]
      /\ \A i \in 1..Len(r) : UpTo(q, Head(accounts), i) = UpTo(r, Head(accounts), i)
  BY DEF Appended
<1>2. ASSUME NEW i \in 1..Len(r)
      PROVE  IsRead(q, accounts, offset, i) <=> IsRead(r, accounts, offset, i)
  BY <1>1 DEF IsRead
<1>3. e \notin ToSet(r)
  BY DEF ToSet, IdsOf
<1>4. DOMAIN q = 1..(Len(r) + 1) /\ DOMAIN r = 1..Len(r)
  BY <1>1
<1>5. NothingSlips(r, q, accounts, offset, {})
  <2>1. SUFFICES ASSUME NEW j \in 1..(Len(r) + 1), IsRead(q, accounts, offset, j)
                 PROVE  \/ q[j] \notin ToSet(r)
                        \/ \E i \in DOMAIN r : r[i] = q[j] /\ IsRead(r, accounts, offset, i)
    BY <1>4 DEF NothingSlips
  <2>2. CASE j = Len(r) + 1
    BY <1>1, <1>3, <2>2
  <2>3. CASE j \in 1..Len(r)
    BY <1>1, <1>2, <1>4, <2>1, <2>3
  <2>4. QED
    BY <2>2, <2>3
<1>6. NothingReturns(r, q, accounts, offset, {})
  <2>1. SUFFICES ASSUME NEW i \in 1..Len(r), IsRead(r, accounts, offset, i)
                 PROVE  \E j \in DOMAIN q :
                           KeyOf(q[j]) = KeyOf(r[i]) /\ IsRead(q, accounts, offset, j)
    BY <1>4 DEF NothingReturns
  <2>2. i \in DOMAIN q /\ q[i] = r[i] /\ IsRead(q, accounts, offset, i)
    BY <1>1, <1>2, <1>4, <2>1
  <2>3. QED
    BY <2>2
<1>7. QED
  BY <1>5, <1>6

LEMMA AmendedReads ==
    ASSUME NEW r \in Seq(Records), IsInjective(IdsOf(r)), NEW k \in 1..Len(r),
           NEW status \in Statuses, r[k].status # status,
           NEW q, Amended(r, q, k, status),
           NEW accounts, Head(accounts) \in Accounts, NEW offset \in Nat
    PROVE  /\ NothingSlips(r, q, accounts, offset, {})
           /\ NothingReturns(r, q, accounts, offset, {})
<1>1. /\ q \in Seq(Records) /\ Len(q) = Len(r)
      /\ \A i \in 1..Len(r) : q[i].account = r[i].account /\ q[i].id = r[i].id
      /\ \A i \in 1..Len(r) : i # k => q[i] = r[i]
      /\ q[k].status = status
      /\ \A i \in 1..Len(r) : UpTo(q, Head(accounts), i) = UpTo(r, Head(accounts), i)
  BY DEF Amended
<1>2. ASSUME NEW i \in 1..Len(r)
      PROVE  IsRead(q, accounts, offset, i) <=> IsRead(r, accounts, offset, i)
  BY <1>1 DEF IsRead
<1>3. q[k] \notin ToSet(r)
  <2>1. SUFFICES ASSUME NEW i \in DOMAIN r, r[i] = q[k] PROVE FALSE
    BY DEF ToSet
  <2>2. r[i].id = r[k].id
    BY <1>1, <2>1
  <2>3. i = k
    BY <2>2 DEF IsInjective, IdsOf
  <2>4. QED
    BY <1>1, <2>1, <2>3
<1>4. DOMAIN q = 1..Len(r) /\ DOMAIN r = 1..Len(r)
  BY <1>1
<1>5. NothingSlips(r, q, accounts, offset, {})
  <2>1. SUFFICES ASSUME NEW j \in 1..Len(r), IsRead(q, accounts, offset, j)
                 PROVE  \/ q[j] \notin ToSet(r)
                        \/ \E i \in DOMAIN r : r[i] = q[j] /\ IsRead(r, accounts, offset, i)
    BY <1>4 DEF NothingSlips
  <2>2. CASE j = k
    BY <1>3, <2>2
  <2>3. CASE j # k
    BY <1>1, <1>2, <1>4, <2>1, <2>3
  <2>4. QED
    BY <2>2, <2>3
<1>6. NothingReturns(r, q, accounts, offset, {})
  <2>1. SUFFICES ASSUME NEW i \in 1..Len(r), IsRead(r, accounts, offset, i)
                 PROVE  \E j \in DOMAIN q :
                           KeyOf(q[j]) = KeyOf(r[i]) /\ IsRead(q, accounts, offset, j)
    BY <1>4 DEF NothingReturns
  <2>2. i \in DOMAIN q /\ KeyOf(q[i]) = KeyOf(r[i]) /\ IsRead(q, accounts, offset, i)
    BY <1>1, <1>2, <1>4, <2>1 DEF KeyOf
  <2>3. QED
    BY <2>2
<1>7. QED
  BY <1>5, <1>6

(* A new entry in front pushes the entry at the cursor behind it.          *)
LEMMA InsertedReads ==
    ASSUME NEW r \in Seq(Records), NEW e \in Records, NEW q, Inserted(r, q, e),
           e.id \notin ToSet(IdsOf(r)),
           NEW accounts, Head(accounts) \in Accounts, NEW offset \in Nat
    PROVE  /\ NothingSlips(r, q, accounts, offset, {})
           /\ \E x : NothingReturns(r, q, accounts, offset, {x})
<1> DEFINE first == Head(accounts)
<1>1. /\ q \in Seq(Records) /\ Len(q) = Len(r) + 1 /\ q[1] = e
      /\ \A i \in 1..Len(r) : q[i + 1] = r[i]
      /\ \A i \in 1..Len(r) :
            UpTo(q, first, i + 1)
               = IF e.account = first THEN UpTo(r, first, i) + 1 ELSE UpTo(r, first, i)
  BY DEF Inserted, CountsFurther
<1>2. e \notin ToSet(r)
  BY DEF ToSet, IdsOf
<1>3. DOMAIN q = 1..(Len(r) + 1) /\ DOMAIN r = 1..Len(r)
  BY <1>1
<1>4. \A i \in 1..Len(r) : UpTo(r, first, i) \in Nat
  BY UpToType
<1>. HIDE DEF first
<1>5. NothingSlips(r, q, accounts, offset, {})
  <2>1. SUFFICES ASSUME NEW j \in 1..(Len(r) + 1), IsRead(q, accounts, offset, j)
                 PROVE  \/ q[j] \notin ToSet(r)
                        \/ \E i \in DOMAIN r : r[i] = q[j] /\ IsRead(r, accounts, offset, i)
    BY <1>3 DEF NothingSlips
  <2>2. CASE j = 1
    BY <1>1, <1>2, <2>2
  <2>3. CASE j # 1
    <3>1. PICK i \in 1..Len(r) : j = i + 1
      <4>1. j - 1 \in 1..Len(r) /\ j = (j - 1) + 1
        BY <2>3
      <4>2. QED
        BY <4>1
    <3>2. q[j] = r[i] /\ UpTo(r, first, i) <= UpTo(q, first, j)
      BY <1>1, <1>4, <3>1
    <3>3. UpTo(q, first, j) \in Nat
      BY UpToType
    <3>4. IsRead(r, accounts, offset, i)
      BY <1>4, <2>1, <3>2, <3>3 DEF IsRead, first
    <3>5. QED
      BY <1>3, <3>2, <3>4
  <2>4. QED
    BY <2>2, <2>3
<1>6. \E x : NothingReturns(r, q, accounts, offset, {x})
  <2>1. PICK x : \A i \in 1..Len(r) :
                    r[i].account = first /\ UpTo(r, first, i) = offset => x = KeyOf(r[i])
    <3>1. CASE \E i \in 1..Len(r) : r[i].account = first /\ UpTo(r, first, i) = offset
      <4>1. PICK i \in 1..Len(r) : r[i].account = first /\ UpTo(r, first, i) = offset
        BY <3>1
      <4>2. ASSUME NEW n \in 1..Len(r), r[n].account = first, UpTo(r, first, n) = offset
            PROVE  n = i
        BY <4>1, <4>2, UpToInjective
      <4>3. QED
        BY <4>2
    <3>2. CASE ~\E i \in 1..Len(r) : r[i].account = first /\ UpTo(r, first, i) = offset
      BY <3>2
    <3>3. QED
      BY <3>1, <3>2
  <2>2. SUFFICES ASSUME NEW i \in 1..Len(r), IsRead(r, accounts, offset, i), KeyOf(r[i]) # x
                 PROVE  \E j \in DOMAIN q :
                           KeyOf(q[j]) = KeyOf(r[i]) /\ IsRead(q, accounts, offset, j)
    BY <1>3 DEF NothingReturns
  <2>3. PICK j : j = i + 1
    OBVIOUS
  <2>4. j \in DOMAIN q /\ q[j] = r[i] /\ UpTo(q, first, j) <= UpTo(r, first, i) + 1
    BY <1>1, <1>3, <1>4, <2>3
  <2>5. UpTo(q, first, j) \in Nat /\ UpTo(r, first, i) \in Nat
    BY <1>4, <2>3, UpToType
  <2>6. r[i].account = first => UpTo(r, first, i) # offset
    BY <2>1, <2>2
  <2>7. IsRead(q, accounts, offset, j)
    BY <2>2, <2>4, <2>5, <2>6 DEF IsRead, first
  <2>8. QED
    BY <2>4, <2>7
<1>7. QED
  BY <1>5, <1>6

(* A removal lets the entry behind the cursor slip in front of it.         *)
LEMMA GoneReads ==
    ASSUME NEW r \in Seq(Records), NEW k \in 1..Len(r), NEW q, Gone(r, q, k),
           NEW accounts, Head(accounts) \in Accounts, NEW offset \in Nat
    PROVE  /\ \E x : NothingSlips(r, q, accounts, offset, {x})
           /\ \E x : NothingReturns(r, q, accounts, offset, {x})
<1> DEFINE first == Head(accounts)
<1>1. /\ q \in Seq(Records) /\ Len(q) = Len(r) - 1
      /\ \A i \in 1..(k - 1) : q[i] = r[i]
      /\ \A i \in k..Len(q) : q[i] = r[i + 1]
      /\ \A i \in 1..(k - 1) : UpTo(q, first, i) = UpTo(r, first, i)
      /\ \A i \in k..Len(q) :
            UpTo(r, first, i + 1)
               = IF r[k].account = first THEN UpTo(q, first, i) + 1 ELSE UpTo(q, first, i)
  BY DEF Gone
<1>2. DOMAIN q = 1..(Len(r) - 1) /\ DOMAIN r = 1..Len(r)
  BY <1>1
<1>3. /\ \A i \in 1..Len(r) : UpTo(r, first, i) \in Nat
      /\ \A i \in 1..Len(q) : UpTo(q, first, i) \in Nat
  BY UpToType
<1>. HIDE DEF first
<1>4. ASSUME NEW j \in DOMAIN q
      PROVE  \E i \in 1..Len(r) :
                /\ i # k /\ q[j] = r[i]
                /\ UpTo(q, first, j) <= UpTo(r, first, i)
                /\ UpTo(r, first, i) <= UpTo(q, first, j) + 1
  <2>1. CASE j \in 1..(k - 1)
    <3>1. j \in 1..Len(r) /\ j # k /\ q[j] = r[j] /\ UpTo(q, first, j) = UpTo(r, first, j)
      BY <1>1, <2>1
    <3>2. UpTo(r, first, j) \in Nat
      BY <1>3, <3>1
    <3>3. QED
      BY <3>1, <3>2
  <2>2. CASE j \in k..Len(q)
    <3>1. PICK i : i = j + 1
      OBVIOUS
    <3>2. i \in 1..Len(r) /\ i # k /\ q[j] = r[i]
      BY <1>1, <2>2, <3>1
    <3>3. UpTo(r, first, i)
             = IF r[k].account = first THEN UpTo(q, first, j) + 1 ELSE UpTo(q, first, j)
      BY <1>1, <2>2, <3>1
    <3>4. UpTo(q, first, j) \in Nat
      BY <1>1, <1>3, <2>2
    <3>5. QED
      BY <3>2, <3>3, <3>4
  <2>3. QED
    BY <1>1, <1>2, <2>1, <2>2
<1>5. ASSUME NEW i \in 1..Len(r), i # k
      PROVE  \E j \in DOMAIN q : q[j] = r[i] /\ UpTo(q, first, j) <= UpTo(r, first, i)
  <2>1. CASE i < k
    <3>1. i \in 1..(k - 1) /\ i \in DOMAIN q
      BY <1>2, <2>1
    <3>2. q[i] = r[i] /\ UpTo(q, first, i) = UpTo(r, first, i)
      BY <1>1, <3>1
    <3>3. UpTo(r, first, i) \in Nat
      BY <1>3
    <3>4. QED
      BY <3>1, <3>2, <3>3
  <2>2. CASE i > k
    <3>1. PICK j : j = i - 1
      OBVIOUS
    <3>2. j \in k..Len(q) /\ i = j + 1 /\ j \in DOMAIN q
      BY <1>1, <1>2, <2>2, <3>1
    <3>3. q[j] = r[i]
      BY <1>1, <3>2
    <3>4. UpTo(r, first, i)
             = IF r[k].account = first THEN UpTo(q, first, j) + 1 ELSE UpTo(q, first, j)
      BY <1>1, <3>2
    <3>5. UpTo(q, first, j) \in Nat
      BY <1>2, <1>3, <3>2, <1>1
    <3>6. QED
      BY <3>2, <3>3, <3>4, <3>5
  <2>3. QED
    BY <1>5, <2>1, <2>2
<1>6. \E x : NothingSlips(r, q, accounts, offset, {x})
  <2>1. PICK x : \A i \in 1..Len(r) :
                    r[i].account = first /\ UpTo(r, first, i) = offset + 1 => x = r[i]
    <3>1. CASE \E i \in 1..Len(r) : r[i].account = first /\ UpTo(r, first, i) = offset + 1
      <4>1. PICK i \in 1..Len(r) : r[i].account = first /\ UpTo(r, first, i) = offset + 1
        BY <3>1
      <4>2. ASSUME NEW n \in 1..Len(r), r[n].account = first, UpTo(r, first, n) = offset + 1
            PROVE  n = i
        BY <4>1, <4>2, UpToInjective
      <4>3. QED
        BY <4>2
    <3>2. CASE ~\E i \in 1..Len(r) : r[i].account = first /\ UpTo(r, first, i) = offset + 1
      BY <3>2
    <3>3. QED
      BY <3>1, <3>2
  <2>2. SUFFICES ASSUME NEW j \in DOMAIN q, IsRead(q, accounts, offset, j), q[j] # x
                 PROVE  \E i \in DOMAIN r : r[i] = q[j] /\ IsRead(r, accounts, offset, i)
    BY DEF NothingSlips
  <2>3. PICK i \in 1..Len(r) : /\ i # k /\ q[j] = r[i]
                               /\ UpTo(q, first, j) <= UpTo(r, first, i)
                               /\ UpTo(r, first, i) <= UpTo(q, first, j) + 1
    BY <1>4
  <2>4. UpTo(q, first, j) \in Nat /\ UpTo(r, first, i) \in Nat
    BY <1>1, <1>2, <1>3
  <2>5. r[i].account = first => UpTo(r, first, i) # offset + 1
    BY <2>1, <2>2, <2>3
  <2>6. IsRead(r, accounts, offset, i)
    BY <2>2, <2>3, <2>4, <2>5 DEF IsRead, first
  <2>7. QED
    BY <1>2, <2>3, <2>6
<1>7. NothingReturns(r, q, accounts, offset, {KeyOf(r[k])})
  <2>1. SUFFICES ASSUME NEW i \in 1..Len(r), IsRead(r, accounts, offset, i), i # k
                 PROVE  \E j \in DOMAIN q :
                           KeyOf(q[j]) = KeyOf(r[i]) /\ IsRead(q, accounts, offset, j)
    BY <1>2 DEF NothingReturns
  <2>2. PICK j \in DOMAIN q : q[j] = r[i] /\ UpTo(q, first, j) <= UpTo(r, first, i)
    BY <1>5, <2>1
  <2>3. UpTo(q, first, j) \in Nat /\ UpTo(r, first, i) \in Nat
    BY <1>1, <1>2, <1>3
  <2>4. IsRead(q, accounts, offset, j)
    BY <2>1, <2>2, <2>3 DEF IsRead, first
  <2>5. QED
    BY <2>2, <2>4
<1>8. QED
  BY <1>6, <1>7
-----------------------------------------------------------------------------
(* How many there are *)

LEMMA ImageOfSequence ==
    ASSUME NEW f, NEW n \in Nat, DOMAIN f = 1..n, f = [i \in 1..n |-> f[i]]
    PROVE  LET S == {f[i] : i \in 1..n}
           IN  /\ IsFiniteSet(S)
               /\ Cardinality(S) \in 0..n
               /\ IsInjective(f) => Cardinality(S) = n
<1> DEFINE S == {f[i] : i \in 1..n}
<1>1. IsFiniteSet(1..n) /\ Cardinality(1..n) = n
  BY FS_Interval
<1>2. f \in [1..n -> S]
  OBVIOUS
<1>3. f \in Surjection(1..n, S)
  BY <1>2 DEF Surjection
<1>4. IsInjective(f) => f \in Injection(1..n, S)
  BY <1>2 DEF Injection
<1>5. IsFiniteSet(S) /\ Cardinality(S) <= n /\ (Cardinality(S) = n <=> f \in Injection(1..n, S))
  <2>. HIDE DEF S
  <2>1. QED
    BY <1>1, <1>3, FS_Surjection
<1>6. Cardinality(S) \in Nat
  BY <1>5, FS_CardinalityType
<1>7. QED
  BY <1>4, <1>5, <1>6

LEMMA EntriesAreFinite ==
    ASSUME NEW r \in Seq(Records)
    PROVE  IsFiniteSet(ToSet(r))
<1>1. PICK n \in Nat : n = Len(r)
  OBVIOUS
<1>2. DOMAIN r = 1..n /\ r = [i \in 1..n |-> r[i]]
  BY <1>1
<1>3. ToSet(r) = {r[i] : i \in 1..n}
  BY <1>2 DEF ToSet
<1>4. QED
  BY <1>2, <1>3, ImageOfSequence

HasDistinctKeys(r) == \A i, j \in DOMAIN r : KeyOf(r[i]) = KeyOf(r[j]) => i = j

LEMMA KeysAreFinite ==
    ASSUME NEW r \in Seq(Records)
    PROVE  /\ IsFiniteSet(KeysOf(r))
           /\ Cardinality(KeysOf(r)) \in 0..Len(r)
           /\ HasDistinctKeys(r) => Cardinality(KeysOf(r)) = Len(r)
<1>1. PICK n \in Nat : n = Len(r)
  OBVIOUS
<1>2. PICK f : f = [i \in 1..n |-> KeyOf(r[i])]
  OBVIOUS
<1>3. DOMAIN f = 1..n /\ (\A i \in 1..n : f[i] = KeyOf(r[i])) /\ DOMAIN r = 1..n
  BY <1>1, <1>2
<1>4. f = [i \in 1..n |-> f[i]]
  BY <1>2, <1>3
<1>5. KeysOf(r) = {f[i] : i \in 1..n}
  BY <1>3 DEF KeysOf
<1>6. HasDistinctKeys(r) => IsInjective(f)
  BY <1>3 DEF HasDistinctKeys, IsInjective
<1>7. QED
  BY <1>1, <1>3, <1>4, <1>5, <1>6, ImageOfSequence

LEMMA OneMore ==
    ASSUME NEW S, IsFiniteSet(S), NEW T, NEW x, T \subseteq S \cup {x}
    PROVE  IsFiniteSet(T) /\ Cardinality(T) \in Nat /\ Cardinality(S) \in Nat
           /\ Cardinality(T) <= Cardinality(S) + 1
<1>1. IsFiniteSet(S \cup {x}) /\ Cardinality(S \cup {x}) <= Cardinality(S) + 1
  <2>1. /\ IsFiniteSet(S \cup {x})
        /\ Cardinality(S \cup {x}) = IF x \in S THEN Cardinality(S) ELSE Cardinality(S) + 1
    BY FS_AddElement
  <2>2. Cardinality(S) \in Nat
    BY FS_CardinalityType
  <2>3. QED
    BY <2>1, <2>2
<1>2. IsFiniteSet(T) /\ Cardinality(T) <= Cardinality(S \cup {x})
  BY <1>1, FS_Subset
<1>3. Cardinality(T) \in Nat /\ Cardinality(S) \in Nat /\ Cardinality(S \cup {x}) \in Nat
  BY <1>1, <1>2, FS_CardinalityType
<1>4. QED
  BY <1>1, <1>2, <1>3

LEMMA NoMore ==
    ASSUME NEW S, IsFiniteSet(S), NEW T, T \subseteq S
    PROVE  IsFiniteSet(T) /\ Cardinality(T) \in Nat /\ Cardinality(S) \in Nat
           /\ Cardinality(T) <= Cardinality(S)
  BY FS_Subset, FS_CardinalityType

(* As many as come to both sets at once leave the second.                  *)
LEMMA Exchange ==
    ASSUME NEW S, IsFiniteSet(S), NEW K, IsFiniteSet(K), NEW W, IsFiniteSet(W), W \subseteq S,
           S \cap K \subseteq W, NEW V, V \subseteq W \ K
    PROVE  Cardinality(V) - Cardinality(S \cup K) <= Cardinality(W) - Cardinality(S) - Cardinality(K)
<1>1. /\ IsFiniteSet(S \cup K)
      /\ Cardinality(S \cup K) = Cardinality(S) + Cardinality(K) - Cardinality(S \cap K)
  BY FS_Union
<1>2. IsFiniteSet(W \ K) /\ Cardinality(W \ K) = Cardinality(W) - Cardinality(W \cap K)
  BY FS_Difference
<1>3. W \cap K = S \cap K
  OBVIOUS
<1>4. IsFiniteSet(V) /\ Cardinality(V) <= Cardinality(W \ K)
  BY <1>2, FS_Subset
<1>5. IsFiniteSet(S \cap K)
  BY FS_Subset
<1>6. /\ Cardinality(V) \in Nat /\ Cardinality(S \cup K) \in Nat /\ Cardinality(W) \in Nat
      /\ Cardinality(S) \in Nat /\ Cardinality(K) \in Nat /\ Cardinality(S \cap K) \in Nat
      /\ Cardinality(W \ K) \in Nat
  BY <1>1, <1>2, <1>4, <1>5, FS_CardinalityType
<1>7. Cardinality(W \cap K) = Cardinality(S \cap K)
  BY <1>3
<1>8. PICK v, u, w, n, k, c, d :
         /\ v = Cardinality(V) /\ u = Cardinality(S \cup K) /\ w = Cardinality(W)
         /\ n = Cardinality(S) /\ k = Cardinality(K) /\ c = Cardinality(S \cap K)
         /\ d = Cardinality(W \ K)
  OBVIOUS
<1>9. /\ v \in Nat /\ u \in Nat /\ w \in Nat /\ n \in Nat /\ k \in Nat /\ c \in Nat /\ d \in Nat
      /\ u = n + k - c /\ d = w - c /\ v <= d
  BY <1>1, <1>2, <1>4, <1>6, <1>7, <1>8
<1>10. v - u <= w - n - k
  BY <1>9
<1>11. QED
  BY <1>8, <1>10

LEMMA MissedIsFinite ==
    ASSUME NEW r \in Seq(Records), NEW accounts, NEW offset, NEW taken, NEW always,
           always \subseteq ToSet(r)
    PROVE  IsFiniteSet(MissedIn(r, accounts, offset, taken, always))
<1>1. MissedIn(r, accounts, offset, taken, always) \in SUBSET ToSet(r)
  BY DEF MissedIn
<1>2. QED
  BY <1>1, EntriesAreFinite, FS_Subset

LEMMA MayRepeatIsFinite ==
    ASSUME NEW r, NEW accounts, NEW offset, NEW taken \in Seq(Records)
    PROVE  /\ MayRepeatIn(r, accounts, offset, taken) \subseteq KeysOf(taken)
           /\ IsFiniteSet(MayRepeatIn(r, accounts, offset, taken))
<1>1. MayRepeatIn(r, accounts, offset, taken) \in SUBSET KeysOf(taken)
  BY DEF MayRepeatIn
<1>2. QED
  BY <1>1, KeysAreFinite, FS_Subset

(* What slips by, or may be met again, after a change of the report *)
LEMMA ChangeMisses ==
    ASSUME NEW r, NEW q, NEW accounts, NEW offset, NEW some, NEW taken, NEW always, NEW still,
           NothingSlips(r, q, accounts, offset, some),
           always \subseteq ToSet(r), still \subseteq always
    PROVE  MissedIn(q, accounts, offset, taken, still)
              \subseteq MissedIn(r, accounts, offset, taken, always) \cup some
<1> SUFFICES ASSUME NEW e \in MissedIn(q, accounts, offset, taken, still), e \notin some
             PROVE  e \in MissedIn(r, accounts, offset, taken, always)
  OBVIOUS
<1>1. e \in still /\ e \notin ToSet(taken) /\ e \in always
  BY DEF MissedIn
<1>2. PICK j \in DOMAIN q : q[j] = e /\ IsRead(q, accounts, offset, j)
  BY DEF MissedIn
<1>3. \E i \in DOMAIN r : r[i] = e /\ IsRead(r, accounts, offset, i)
  BY <1>1, <1>2 DEF NothingSlips
<1>4. QED
  BY <1>1, <1>3 DEF MissedIn

LEMMA ChangeRepeats ==
    ASSUME NEW r, NEW q, NEW accounts, NEW offset, NEW some, NEW taken,
           NothingReturns(r, q, accounts, offset, some)
    PROVE  MayRepeatIn(q, accounts, offset, taken)
              \subseteq MayRepeatIn(r, accounts, offset, taken) \cup some
<1> SUFFICES ASSUME NEW x \in MayRepeatIn(q, accounts, offset, taken), x \notin some,
                    NEW i \in DOMAIN r, KeyOf(r[i]) = x, IsRead(r, accounts, offset, i)
             PROVE  FALSE
  BY DEF MayRepeatIn
<1>1. PICK j \in DOMAIN q : KeyOf(q[j]) = x /\ IsRead(q, accounts, offset, j)
  BY DEF NothingReturns
<1>2. QED
  BY <1>1 DEF MayRepeatIn
-----------------------------------------------------------------------------
(* The bank keeps the invariant. *)

LEMMA CursorIsNatural == Pages => cursor \in Nat
<1> SUFFICES ASSUME NEW n \in Nat, cursor = n * PageSize
             PROVE  cursor \in Nat
  BY DEF Pages
<1>1. QED
  BY PageSizeAssumption

LEMMA IdsStayDistinct ==
    ASSUME NEW r \in Seq(Records), IsInjective(IdsOf(r)), NEW q
    PROVE  /\ \A e \in Records :
                 (Appended(r, q, e) \/ Inserted(r, q, e)) /\ e.id \notin ToSet(IdsOf(r))
                    => IsInjective(IdsOf(q))
           /\ \A k \in 1..Len(r) : Gone(r, q, k) => IsInjective(IdsOf(q))
           /\ \A k \in 1..Len(r), status \in Statuses :
                 Amended(r, q, k, status) => IsInjective(IdsOf(q))
<1>1. \A i, j \in 1..Len(r) : r[i].id = r[j].id => i = j
  BY DEF IsInjective, IdsOf
<1>2. \A e \in Records : e.id \notin ToSet(IdsOf(r)) => \A i \in 1..Len(r) : r[i].id # e.id
  BY DEF IdsOf, ToSet
<1>3. ASSUME NEW e \in Records, Appended(r, q, e), e.id \notin ToSet(IdsOf(r))
      PROVE  IsInjective(IdsOf(q))
  <2>1. SUFFICES ASSUME NEW i \in 1..(Len(r) + 1), NEW j \in 1..(Len(r) + 1), q[i].id = q[j].id
                 PROVE  i = j
    BY <1>3 DEF IsInjective, IdsOf, Appended
  <2>2. \A n \in 1..(Len(r) + 1) : IF n \in 1..Len(r) THEN q[n] = r[n] ELSE n = Len(r) + 1 /\ q[n] = e
    BY <1>3 DEF Appended
  <2>3. QED
    BY <1>1, <1>2, <1>3, <2>1, <2>2
<1>4. ASSUME NEW e \in Records, Inserted(r, q, e), e.id \notin ToSet(IdsOf(r))
      PROVE  IsInjective(IdsOf(q))
  <2>1. SUFFICES ASSUME NEW i \in 1..(Len(r) + 1), NEW j \in 1..(Len(r) + 1), q[i].id = q[j].id
                 PROVE  i = j
    BY <1>4 DEF IsInjective, IdsOf, Inserted
  <2>2. ASSUME NEW n \in 1..(Len(r) + 1), n # 1
        PROVE  \E h \in 1..Len(r) : n = h + 1 /\ q[n] = r[h]
    <3>1. n - 1 \in 1..Len(r) /\ n = (n - 1) + 1
      BY <2>2
    <3>2. q[(n - 1) + 1] = r[n - 1]
      BY <1>4, <3>1 DEF Inserted
    <3>3. QED
      BY <3>1, <3>2
  <2>3. q[1] = e
    BY <1>4 DEF Inserted
  <2>4. QED
    BY <1>1, <1>2, <1>4, <2>1, <2>2, <2>3
<1>5. ASSUME NEW k \in 1..Len(r), Gone(r, q, k)
      PROVE  IsInjective(IdsOf(q))
  <2>1. SUFFICES ASSUME NEW i \in 1..(Len(r) - 1), NEW j \in 1..(Len(r) - 1), q[i].id = q[j].id
                 PROVE  i = j
    BY <1>5 DEF IsInjective, IdsOf, Gone
  <2>2. ASSUME NEW n \in 1..(Len(r) - 1)
        PROVE  \E h \in 1..Len(r) : h = (IF n < k THEN n ELSE n + 1) /\ q[n] = r[h]
    BY <1>5 DEF Gone
  <2>3. PICK g \in 1..Len(r) : g = (IF i < k THEN i ELSE i + 1) /\ q[i] = r[g]
    BY <2>2
  <2>4. PICK h \in 1..Len(r) : h = (IF j < k THEN j ELSE j + 1) /\ q[j] = r[h]
    BY <2>2
  <2>5. g = h
    BY <1>1, <2>1, <2>3, <2>4
  <2>6. QED
    BY <2>3, <2>4, <2>5
<1>6. ASSUME NEW k \in 1..Len(r), NEW status \in Statuses, Amended(r, q, k, status)
      PROVE  IsInjective(IdsOf(q))
  BY <1>1, <1>6 DEF IsInjective, IdsOf, Amended
<1>7. QED
  BY <1>3, <1>4, <1>5, <1>6

LEMMA ChangeKeepsTypes ==
    ASSUME IInv, NEW accounts \in Seq(Accounts), IsInjective(accounts),
           NEW q \in Seq(Records), IsInjective(IdsOf(q)), Change(accounts, q),
           inserted' \in Nat, removed' \in Nat
    PROVE  /\ Types' /\ Pages' /\ Histories'
           /\ open' = accounts /\ report' = q
           /\ UNCHANGED <<phase, todo, cursor, extracted>>
<1>1. UNCHANGED <<phase, todo, cursor, extracted>> /\ open' = accounts /\ report' = q
  BY DEF Change, adapterVars
<1>2. Types'
  BY <1>1 DEF IInv, Types
<1>3. Pages'
  BY <1>1 DEF IInv, Pages
<1>4. Reported(accounts, q) \subseteq Records
  BY DEF Reported, ToSet
<1>5. Histories'
  <2>1. steady' = steady \cap Reported(accounts, q) /\ seen' = seen \cup Reported(accounts, q)
    BY DEF Change
  <2>2. Reported(open, report)' = Reported(accounts, q)
    BY <1>1 DEF Reported, ToSet
  <2>3. ToSet(extracted)' = ToSet(extracted)
    BY <1>1 DEF ToSet
  <2>4. QED
    BY <1>4, <2>1, <2>2, <2>3 DEF IInv, Histories
<1>6. QED
  BY <1>1, <1>2, <1>3, <1>5

LEMMA ChangeMayMiss ==
    ASSUME IInv, NEW accounts, NEW q \in Seq(Records), Change(accounts, q),
           NEW some, NothingSlips(report, q, todo, cursor, some)
    PROVE  /\ some = {} => Cardinality(Missed') <= Cardinality(Missed)
           /\ (\E x : some = {x}) => Cardinality(Missed') <= Cardinality(Missed) + 1
           /\ Cardinality(Missed) \in Nat /\ Cardinality(Missed') \in Nat
<1>1. steady \subseteq ToSet(report) /\ steady' \subseteq steady
  BY DEF IInv, Histories, Reported, Change
<1>2. Missed' = MissedIn(q, todo, cursor, extracted, steady')
  BY DEF Change, adapterVars, Missed, MissedIn, IsRead, ToSet, UpTo
<1>3. Missed' \subseteq Missed \cup some
  BY <1>1, <1>2, ChangeMisses DEF Missed
<1>4. IsFiniteSet(Missed)
  BY <1>1, MissedIsFinite DEF Missed, IInv, Types
<1>5. PICK before, after : before = Missed /\ after = Missed'
  OBVIOUS
<1>6. IsFiniteSet(before) /\ after \subseteq before \cup some
  BY <1>3, <1>4, <1>5
<1>7. some = {} => Cardinality(after) <= Cardinality(before)
  BY <1>6, NoMore
<1>8. (\E x : some = {x}) => Cardinality(after) <= Cardinality(before) + 1
  BY <1>6, OneMore
<1>9. Cardinality(before) \in Nat /\ Cardinality(after) \in Nat
  <2>1. after \in SUBSET ToSet(report) /\ IsFiniteSet(ToSet(report))
    BY <1>1, <1>2, <1>5, EntriesAreFinite DEF MissedIn, IInv, Types
  <2>2. IsFiniteSet(after)
    BY <2>1, FS_Subset
  <2>3. QED
    BY <1>6, <2>2, FS_CardinalityType
<1>10. QED
  BY <1>5, <1>7, <1>8, <1>9

LEMMA ChangeMayRepeat ==
    ASSUME IInv, NEW accounts, NEW q \in Seq(Records), Change(accounts, q),
           NEW some, NothingReturns(report, q, todo, cursor, some)
    PROVE  /\ some = {} => Cardinality(MayRepeat') <= Cardinality(MayRepeat)
           /\ (\E x : some = {x}) => Cardinality(MayRepeat') <= Cardinality(MayRepeat) + 1
           /\ Cardinality(MayRepeat) \in Nat /\ Cardinality(MayRepeat') \in Nat
<1>1. extracted \in Seq(Records)
  BY DEF IInv, Types
<1>2. MayRepeat' = MayRepeatIn(q, todo, cursor, extracted)
  BY DEF Change, adapterVars, MayRepeat, MayRepeatIn, IsRead, ToSet, UpTo, KeysOf, KeyOf
<1>3. MayRepeat' \subseteq MayRepeat \cup some
  BY <1>2, ChangeRepeats DEF MayRepeat
<1>4. IsFiniteSet(MayRepeat) /\ IsFiniteSet(MayRepeat')
  BY <1>1, <1>2, MayRepeatIsFinite DEF MayRepeat
<1>5. PICK before, after : before = MayRepeat /\ after = MayRepeat'
  OBVIOUS
<1>6. IsFiniteSet(before) /\ IsFiniteSet(after) /\ after \subseteq before \cup some
  BY <1>3, <1>4, <1>5
<1>7. some = {} => Cardinality(after) <= Cardinality(before)
  BY <1>6, NoMore
<1>8. (\E x : some = {x}) => Cardinality(after) <= Cardinality(before) + 1
  BY <1>6, OneMore
<1>9. Cardinality(before) \in Nat /\ Cardinality(after) \in Nat
  BY <1>6, FS_CardinalityType
<1>10. QED
  BY <1>5, <1>7, <1>8, <1>9

AtMost(some, n) == some = {} \/ (n = 1 /\ \E x : some = {x})

MovesLittle(q, slipped, returned) == phase = "pages" =>
    /\ \E some : NothingSlips(report, q, todo, cursor, some) /\ AtMost(some, slipped)
    /\ \E some : NothingReturns(report, q, todo, cursor, some) /\ AtMost(some, returned)
    /\ slipped = 0 => UpTo(report, Head(todo), Len(report)) <= UpTo(q, Head(todo), Len(q))

Counted(slipped, returned) ==
    /\ slipped \in {0, 1} /\ returned \in {0, 1}
    /\ removed' = removed + slipped
    /\ inserted' \in Nat
    /\ inserted' + removed' = inserted + removed + returned

(* A change that hides one entry and bares one at most, and is counted. *)
LEMMA ChangeKeepsInv ==
    ASSUME IInv, NEW accounts \in Seq(Accounts), IsInjective(accounts),
           NEW q \in Seq(Records), IsInjective(IdsOf(q)), Change(accounts, q),
           NEW slipped, NEW returned, Counted(slipped, returned),
           MovesLittle(q, slipped, returned)
    PROVE  IInv'
<1>0. /\ removed \in Nat /\ inserted \in Nat
      /\ extracted \in Seq(Records)
      /\ report \in Seq(Records)
  BY DEF IInv, Types
<1>a. /\ slipped = 0 \/ slipped = 1
      /\ returned = 0 \/ returned = 1
      /\ removed' = removed + slipped
      /\ inserted' \in Nat
      /\ inserted' + removed' = inserted + removed + returned
  BY DEF Counted
<1>b. removed' \in Nat
  BY <1>0, <1>a
<1>1. /\ Types' /\ Pages' /\ Histories'
      /\ open' = accounts /\ report' = q
      /\ UNCHANGED <<phase, todo, cursor, extracted>>
  BY <1>a, <1>b, ChangeKeepsTypes
<1>2. Misses'
  <2>1. SUFFICES ASSUME phase = "pages" PROVE Cardinality(Missed') <= removed'
    BY <1>1 DEF Misses
  <2>2. PICK some : NothingSlips(report, q, todo, cursor, some) /\ AtMost(some, slipped)
    BY <2>1 DEF MovesLittle
  <2>3. /\ some = {} => Cardinality(Missed') <= Cardinality(Missed)
        /\ (\E x : some = {x}) => Cardinality(Missed') <= Cardinality(Missed) + 1
        /\ Cardinality(Missed) \in Nat /\ Cardinality(Missed') \in Nat
    BY <2>2, ChangeMayMiss
  <2>4. Cardinality(Missed) <= removed
    BY <2>1 DEF IInv, Misses
  <2>5. PICK m, n : m = Cardinality(Missed) /\ n = Cardinality(Missed')
    OBVIOUS
  <2>6. m \in Nat /\ n \in Nat /\ m <= removed /\ (n <= m \/ (n <= m + 1 /\ slipped = 1))
    BY <2>2, <2>3, <2>4, <2>5 DEF AtMost
  <2>7. n <= removed'
    BY <1>0, <1>a, <2>6
  <2>8. QED
    BY <2>5, <2>7
<1>3. Repeats'
  <2>1. PICK d : d = Len(extracted) - Cardinality(KeysOf(extracted))
    OBVIOUS
  <2>2. d \in Nat
    <3>1. Len(extracted) \in Nat /\ Cardinality(KeysOf(extracted)) \in 0..Len(extracted)
      BY <1>0, KeysAreFinite
    <3>2. QED
      BY <2>1, <3>1
  <2>3. (Len(extracted) - Cardinality(KeysOf(extracted)))' = d
    BY <1>1, <2>1 DEF KeysOf, KeyOf
  <2>4. d <= inserted' + removed'
    <3>1. d <= inserted + removed
      BY <2>1 DEF IInv, Repeats
    <3>2. QED
      BY <1>0, <1>a, <1>b, <2>2, <3>1
  <2>5. ASSUME phase = "pages" PROVE d + Cardinality(MayRepeat') <= inserted' + removed'
    <3>1. PICK some : NothingReturns(report, q, todo, cursor, some) /\ AtMost(some, returned)
      BY <2>5 DEF MovesLittle
    <3>2. /\ some = {} => Cardinality(MayRepeat') <= Cardinality(MayRepeat)
          /\ (\E x : some = {x}) => Cardinality(MayRepeat') <= Cardinality(MayRepeat) + 1
          /\ Cardinality(MayRepeat) \in Nat /\ Cardinality(MayRepeat') \in Nat
      BY <3>1, ChangeMayRepeat
    <3>3. d + Cardinality(MayRepeat) <= inserted + removed
      BY <2>1, <2>5 DEF IInv, Repeats
    <3>4. PICK m, n : m = Cardinality(MayRepeat) /\ n = Cardinality(MayRepeat')
      OBVIOUS
    <3>5. m \in Nat /\ n \in Nat /\ d + m <= inserted + removed
          /\ (n <= m \/ (n <= m + 1 /\ returned = 1))
      BY <3>1, <3>2, <3>3, <3>4 DEF AtMost
    <3>6. d + n <= inserted' + removed'
      BY <1>0, <1>a, <1>b, <2>2, <3>5
    <3>7. QED
      BY <3>4, <3>6
  <2>6. QED
    BY <1>1, <2>3, <2>4, <2>5 DEF Repeats
<1>4. CursorIsWithin'
  <2>1. phase = "past the end" => removed' > 0
    <3>1. phase = "past the end" => removed > 0
      BY DEF IInv, CursorIsWithin
    <3>2. removed' >= removed
      BY <1>0, <1>a, <1>b
    <3>3. removed > 0 => removed' > 0
      BY <1>0, <1>b, <3>2
    <3>4. QED
      BY <3>1, <3>3
  <2>2. ASSUME phase = "pages", removed' = 0, cursor > 0
        PROVE  cursor < UpTo(q, Head(todo), Len(q))
    <3>1. removed = 0 /\ slipped = 0
      BY <1>0, <1>a, <2>2
    <3>2. cursor < UpTo(report, Head(todo), Len(report))
      BY <2>2, <3>1 DEF IInv, CursorIsWithin, Total
    <3>3. UpTo(report, Head(todo), Len(report)) <= UpTo(q, Head(todo), Len(q))
      BY <2>2, <3>1 DEF MovesLittle
    <3>4. cursor \in Nat /\ Len(report) \in Nat /\ Len(q) \in Nat
      BY <1>0, CursorIsNatural DEF IInv
    <3>5. UpTo(report, Head(todo), Len(report)) \in Nat /\ UpTo(q, Head(todo), Len(q)) \in Nat
      BY <3>4, UpToType
    <3>6. QED
      BY <3>2, <3>3, <3>4, <3>5
  <2>3. Total(Head(todo))' = UpTo(q, Head(todo), Len(q))
    BY <1>1 DEF Total, UpTo
  <2>4. QED
    BY <1>1, <2>1, <2>2, <2>3 DEF CursorIsWithin
<1>5. QED
  BY <1>1, <1>2, <1>3, <1>4 DEF IInv

LEMMA FacesPages ==
    ASSUME IInv
    PROVE  /\ open \in Seq(Accounts) /\ IsInjective(open)
           /\ report \in Seq(Records) /\ IsInjective(IdsOf(report))
           /\ removed \in Nat /\ inserted \in Nat /\ cursor \in Nat
           /\ phase = "pages" => Head(todo) \in Accounts
<1>1. /\ open \in Seq(Accounts) /\ IsInjective(open)
      /\ report \in Seq(Records) /\ IsInjective(IdsOf(report))
      /\ removed \in Nat /\ inserted \in Nat
      /\ todo \in Seq(Accounts) /\ (phase = "pages" => todo # <<>>)
  BY DEF IInv, Types
<1>2. cursor \in Nat
  BY CursorIsNatural DEF IInv
<1>3. phase = "pages" => Head(todo) \in Accounts
  BY <1>1
<1>4. QED
  BY <1>1, <1>2, <1>3

LEMMA AppendKeepsInv ==
    ASSUME IInv, NEW e \in Records, AppendEntry(e)
    PROVE  IInv'
<1>1. /\ open \in Seq(Accounts) /\ IsInjective(open)
      /\ report \in Seq(Records) /\ IsInjective(IdsOf(report))
      /\ removed \in Nat /\ inserted \in Nat /\ cursor \in Nat
      /\ phase = "pages" => Head(todo) \in Accounts
  BY FacesPages
<1>2. PICK q : q = Append(report, e)
  OBVIOUS
<1>3. Change(open, q) /\ e.id \notin ToSet(IdsOf(report)) /\ UNCHANGED <<inserted, removed>>
  BY <1>2 DEF AppendEntry, New
<1>4. Appended(report, q, e)
  BY <1>1, <1>2, AppendedPlaces
<1>5. q \in Seq(Records) /\ IsInjective(IdsOf(q))
  BY <1>1, <1>3, <1>4, IdsStayDistinct DEF Appended
<1>6. Counted(0, 0)
  BY <1>1, <1>3 DEF Counted
<1>7. MovesLittle(q, 0, 0)
  <2> SUFFICES ASSUME phase = "pages"
               PROVE  /\ NothingSlips(report, q, todo, cursor, {})
                      /\ NothingReturns(report, q, todo, cursor, {})
                      /\ UpTo(report, Head(todo), Len(report)) <= UpTo(q, Head(todo), Len(q))
    BY DEF MovesLittle, AtMost
  <2>1. NothingSlips(report, q, todo, cursor, {}) /\ NothingReturns(report, q, todo, cursor, {})
    BY <1>1, <1>3, <1>4, AppendedReads
  <2>2. Len(report) \in Nat /\ Len(q) = Len(report) + 1
    BY <1>1, <1>4 DEF Appended
  <2>3. UpTo(q, Head(todo), Len(report)) = UpTo(report, Head(todo), Len(report))
    BY <1>1, <1>4, <2>2 DEF Appended
  <2>4. UpTo(q, Head(todo), Len(report)) <= UpTo(q, Head(todo), Len(q))
    BY <2>2, UpToGrows
  <2>5. QED
    BY <2>1, <2>3, <2>4
<1>8. QED
  BY <1>1, <1>3, <1>5, <1>6, <1>7, ChangeKeepsInv

LEMMA InsertKeepsInv ==
    ASSUME IInv, NEW e \in Records, InsertInFront(e)
    PROVE  IInv'
<1>1. /\ open \in Seq(Accounts) /\ IsInjective(open)
      /\ report \in Seq(Records) /\ IsInjective(IdsOf(report))
      /\ removed \in Nat /\ inserted \in Nat /\ cursor \in Nat
      /\ phase = "pages" => Head(todo) \in Accounts
  BY FacesPages
<1>2. \E q : /\ Change(open, q) /\ Inserted(report, q, e) /\ e.id \notin ToSet(IdsOf(report))
             /\ inserted' = inserted + 1 /\ removed' = removed
  <2>1. Change(open, <<e>> \o report) /\ e.id \notin ToSet(IdsOf(report))
        /\ inserted' = inserted + 1 /\ removed' = removed
    BY DEF InsertInFront, New
  <2>2. Inserted(report, <<e>> \o report, e)
    BY <1>1, InsertedPlaces
  <2>3. QED
    BY <2>1, <2>2
<1>3. PICK q : /\ Change(open, q) /\ Inserted(report, q, e) /\ e.id \notin ToSet(IdsOf(report))
               /\ inserted' = inserted + 1 /\ removed' = removed
  BY <1>2
<1>5. q \in Seq(Records) /\ IsInjective(IdsOf(q))
  BY <1>1, <1>3, IdsStayDistinct DEF Inserted
<1>6. Counted(0, 1)
  BY <1>1, <1>3 DEF Counted
<1>7. MovesLittle(q, 0, 1)
  <2> SUFFICES ASSUME phase = "pages"
               PROVE  /\ NothingSlips(report, q, todo, cursor, {})
                      /\ \E x : NothingReturns(report, q, todo, cursor, {x})
                      /\ UpTo(report, Head(todo), Len(report)) <= UpTo(q, Head(todo), Len(q))
    BY DEF MovesLittle, AtMost
  <2>1. NothingSlips(report, q, todo, cursor, {})
        /\ \E x : NothingReturns(report, q, todo, cursor, {x})
    BY <1>1, <1>3, InsertedReads
  <2>2. Len(report) \in Nat /\ Len(q) = Len(report) + 1
    BY <1>1, <1>3 DEF Inserted
  <2>3. UpTo(q, Head(todo), Len(report) + 1)
           = IF e.account = Head(todo) THEN UpTo(report, Head(todo), Len(report)) + 1
             ELSE UpTo(report, Head(todo), Len(report))
    BY <1>1, <1>3, <2>2 DEF Inserted, CountsFurther
  <2>4. UpTo(report, Head(todo), Len(report)) \in Nat
    BY <2>2, UpToType
  <2>5. UpTo(report, Head(todo), Len(report)) <= UpTo(q, Head(todo), Len(q))
    BY <2>2, <2>3, <2>4
  <2>6. QED
    BY <2>1, <2>5
<1>8. QED
  BY <1>1, <1>3, <1>5, <1>6, <1>7, ChangeKeepsInv

LEMMA AmendKeepsInv ==
    ASSUME IInv, NEW k \in DOMAIN report, NEW status \in Statuses, Amend(k, status)
    PROVE  IInv'
<1>1. /\ open \in Seq(Accounts) /\ IsInjective(open)
      /\ report \in Seq(Records) /\ IsInjective(IdsOf(report))
      /\ removed \in Nat /\ inserted \in Nat /\ cursor \in Nat
      /\ phase = "pages" => Head(todo) \in Accounts
  BY FacesPages
<1>2. k \in 1..Len(report)
  BY <1>1
<1>3. \E q : /\ Change(open, q) /\ Amended(report, q, k, status) /\ report[k].status # status
             /\ inserted' = inserted /\ removed' = removed
  <2>1. /\ Change(open, [report EXCEPT ![k].status = status]) /\ report[k].status # status
        /\ inserted' = inserted /\ removed' = removed
    BY DEF Amend
  <2>2. Amended(report, [report EXCEPT ![k].status = status], k, status)
    BY <1>1, <1>2, AmendedPlaces
  <2>3. QED
    BY <2>1, <2>2
<1>4. PICK q : /\ Change(open, q) /\ Amended(report, q, k, status) /\ report[k].status # status
               /\ inserted' = inserted /\ removed' = removed
  BY <1>3
<1>5. q \in Seq(Records) /\ IsInjective(IdsOf(q))
  BY <1>1, <1>2, <1>4, IdsStayDistinct DEF Amended
<1>6. Counted(0, 0)
  BY <1>1, <1>4 DEF Counted
<1>7. MovesLittle(q, 0, 0)
  <2> SUFFICES ASSUME phase = "pages"
               PROVE  /\ NothingSlips(report, q, todo, cursor, {})
                      /\ NothingReturns(report, q, todo, cursor, {})
                      /\ UpTo(report, Head(todo), Len(report)) <= UpTo(q, Head(todo), Len(q))
    BY DEF MovesLittle, AtMost
  <2>1. NothingSlips(report, q, todo, cursor, {}) /\ NothingReturns(report, q, todo, cursor, {})
    BY <1>1, <1>2, <1>4, AmendedReads
  <2>2. Len(report) \in Nat /\ Len(q) = Len(report)
    BY <1>1, <1>4 DEF Amended
  <2>3. UpTo(q, Head(todo), Len(report)) = UpTo(report, Head(todo), Len(report))
    BY <1>1, <1>4, <2>2 DEF Amended
  <2>4. UpTo(report, Head(todo), Len(report)) \in Nat
    BY <2>2, UpToType
  <2>5. QED
    BY <2>1, <2>2, <2>3, <2>4
<1>8. QED
  BY <1>1, <1>4, <1>5, <1>6, <1>7, ChangeKeepsInv

LEMMA RemoveKeepsInv ==
    ASSUME IInv, NEW k \in DOMAIN report, RemoveEntry(k)
    PROVE  IInv'
<1>1. /\ open \in Seq(Accounts) /\ IsInjective(open)
      /\ report \in Seq(Records) /\ IsInjective(IdsOf(report))
      /\ removed \in Nat /\ inserted \in Nat /\ cursor \in Nat
      /\ phase = "pages" => Head(todo) \in Accounts
  BY FacesPages
<1>2. k \in 1..Len(report)
  BY <1>1
<1>3. \E q : /\ Change(open, q) /\ Gone(report, q, k)
             /\ inserted' = inserted /\ removed' = removed + 1
  <2>1. /\ Change(open, RemoveAt(report, k))
        /\ inserted' = inserted /\ removed' = removed + 1
    BY DEF RemoveEntry
  <2>2. Gone(report, RemoveAt(report, k), k)
    BY <1>1, <1>2, GonePlaces
  <2>3. QED
    BY <2>1, <2>2
<1>4. PICK q : /\ Change(open, q) /\ Gone(report, q, k)
               /\ inserted' = inserted /\ removed' = removed + 1
  BY <1>3
<1>5. q \in Seq(Records) /\ IsInjective(IdsOf(q))
  BY <1>1, <1>2, <1>4, IdsStayDistinct DEF Gone
<1>6. Counted(1, 1)
  BY <1>1, <1>4 DEF Counted
<1>7. MovesLittle(q, 1, 1)
  <2>1. SUFFICES ASSUME phase = "pages"
                 PROVE  /\ \E some : NothingSlips(report, q, todo, cursor, some) /\ AtMost(some, 1)
                        /\ \E some : NothingReturns(report, q, todo, cursor, some) /\ AtMost(some, 1)
    BY DEF MovesLittle
  <2>2. /\ \E x : NothingSlips(report, q, todo, cursor, {x})
        /\ \E x : NothingReturns(report, q, todo, cursor, {x})
    BY <1>1, <1>2, <1>4, <2>1, GoneReads
  <2>3. \A x : AtMost({x}, 1)
    BY DEF AtMost
  <2>4. QED
    BY <2>2, <2>3
<1>8. QED
  BY <1>1, <1>4, <1>5, <1>6, <1>7, ChangeKeepsInv

LEMMA AccountsAreListed ==
    ASSUME NEW some \in SUBSET Accounts
    PROVE  /\ SetToSeq(some) \in Seq(Accounts)
           /\ IsInjective(SetToSeq(some))
           /\ ToSet(SetToSeq(some)) = some
<1>1. IsFiniteSet(some)
  BY AccountsAssumption, FS_Subset
<1>2. PICK n : n = Cardinality(some)
  OBVIOUS
<1>3. n \in Nat /\ ExistsBijection(1..n, some)
  BY <1>1, <1>2, FS_CardinalityType
<1>4. PICK g : g \in Bijection(1..n, some)
  BY <1>3 DEF ExistsBijection
<1>5. g \in [1..n -> some] /\ IsInjective(g)
  BY <1>4 DEF Bijection, Injection, IsInjective
<1>6. \E f \in [1..Cardinality(some) -> some] : IsInjective(f)
  BY <1>2, <1>5
<1>7. SetToSeq(some) \in [1..n -> some] /\ IsInjective(SetToSeq(some))
  BY <1>2, <1>6 DEF SetToSeq
<1>8. PICK f : f = SetToSeq(some)
  OBVIOUS
<1>9. f \in [1..n -> some] /\ IsInjective(f)
  BY <1>7, <1>8
<1>10. ToSet(f) = some
  <2>1. f \in Injection(1..n, some)
    BY <1>9 DEF Injection, IsInjective
  <2>2. IsFiniteSet(1..n) /\ Cardinality(1..n) = n
    BY <1>3, FS_Interval
  <2>3. f \in Surjection(1..n, some)
    BY <1>1, <1>2, <2>1, <2>2, FS_Injection
  <2>4. QED
    BY <1>9, <2>3 DEF Surjection, ToSet
<1>11. f \in Seq(Accounts)
  BY <1>3, <1>9
<1>12. QED
  BY <1>8, <1>9, <1>10, <1>11

LEMMA ListOthersKeepsInv ==
    ASSUME IInv, NEW some \in SUBSET Accounts, ListOtherAccounts(SetToSeq(some))
    PROVE  IInv'
<1>1. /\ report \in Seq(Records) /\ IsInjective(IdsOf(report))
      /\ removed \in Nat /\ inserted \in Nat
  BY FacesPages
<1>2. SetToSeq(some) \in Seq(Accounts) /\ IsInjective(SetToSeq(some))
  BY AccountsAreListed
<1>3. Change(SetToSeq(some), report) /\ UNCHANGED <<inserted, removed>>
  BY DEF ListOtherAccounts
<1>4. Counted(0, 0)
  BY <1>1, <1>3 DEF Counted
<1>5. NothingSlips(report, report, todo, cursor, {})
  BY DEF NothingSlips
<1>6. NothingReturns(report, report, todo, cursor, {})
  BY DEF NothingReturns
<1>7. UpTo(report, Head(todo), Len(report)) \in Nat
  BY <1>1, UpToType
<1>8. MovesLittle(report, 0, 0)
  BY <1>5, <1>6, <1>7 DEF MovesLittle, AtMost
<1>9. QED
  BY <1>1, <1>2, <1>3, <1>4, <1>8, ChangeKeepsInv
-----------------------------------------------------------------------------
(* The adapter keeps the invariant. *)

(* Does the place of an entry come with the page that is read next? *)
IsInPage(i) ==
    /\ report[i].account = Head(todo)
    /\ cursor < UpTo(report, Head(todo), i)
    /\ UpTo(report, Head(todo), i) <= cursor + PageSize

(* With a page, its places are read, and no other ones. *)
Advances(accounts, offset) ==
    \A i \in DOMAIN report :
       IsRead(report, accounts, offset, i) <=> IsRead(report, todo, cursor, i) \/ IsInPage(i)

LEMMA HeadAndTail ==
    ASSUME NEW s \in Seq(Accounts), IsInjective(s), s # <<>>
    PROVE  /\ Head(s) \in Accounts
           /\ Tail(s) \in Seq(Accounts) /\ IsInjective(Tail(s))
           /\ ToSet(s) = {Head(s)} \cup ToSet(Tail(s))
           /\ Head(s) \notin ToSet(Tail(s))
           /\ Len(s) # 1 => Tail(s) # <<>>
<1>1. Len(s) \in Nat \ {0} /\ DOMAIN s = 1..Len(s) /\ Head(s) = s[1] /\ Head(s) \in Accounts
  OBVIOUS
<1>2. PICK t : t = Tail(s)
  OBVIOUS
<1>3. /\ t \in Seq(Accounts) /\ Len(t) = Len(s) - 1
      /\ \A i \in 1..Len(t) : t[i] = s[i + 1]
  BY <1>2
<1>4. DOMAIN t = 1..(Len(s) - 1)
  BY <1>1, <1>3
<1>5. \A i, j \in 1..Len(s) : s[i] = s[j] => i = j
  BY <1>1 DEF IsInjective
<1>6. IsInjective(t)
  BY <1>1, <1>3, <1>4, <1>5 DEF IsInjective
<1>7. \A i \in 1..(Len(s) - 1) : i + 1 \in 1..Len(s) /\ i + 1 # 1
  BY <1>1
<1>8. s[1] \notin ToSet(t)
  BY <1>1, <1>3, <1>4, <1>5, <1>7 DEF ToSet
<1>9. ToSet(s) = {s[1]} \cup ToSet(t)
  <2>1. ASSUME NEW x \in ToSet(s), x # s[1] PROVE x \in ToSet(t)
    <3>1. PICK i \in 1..Len(s) : x = s[i]
      BY <1>1, <2>1 DEF ToSet
    <3>2. i - 1 \in 1..(Len(s) - 1) /\ i = (i - 1) + 1
      BY <1>1, <2>1, <3>1
    <3>3. t[i - 1] = x
      BY <1>3, <3>1, <3>2
    <3>4. QED
      BY <1>4, <3>2, <3>3 DEF ToSet
  <2>2. ToSet(t) \subseteq ToSet(s)
    BY <1>1, <1>3, <1>4, <1>7 DEF ToSet
  <2>3. s[1] \in ToSet(s)
    BY <1>1 DEF ToSet
  <2>4. QED
    BY <2>1, <2>2, <2>3
<1>10. Len(s) # 1 => t # <<>>
  BY <1>1, <1>3
<1>11. QED
  BY <1>1, <1>2, <1>3, <1>6, <1>8, <1>9, <1>10

LEMMA NextPageAdvances ==
    ASSUME IInv, phase = "pages"
    PROVE  Advances(todo, cursor + PageSize)
<1>1. /\ cursor \in Nat /\ report \in Seq(Records) /\ Head(todo) \in Accounts
      /\ todo \in Seq(Accounts) /\ IsInjective(todo) /\ todo # <<>>
  BY FacesPages DEF IInv, Types
<1>2. Head(todo) \in ToSet(todo)
  BY <1>1, HeadAndTail
<1>3. SUFFICES ASSUME NEW i \in DOMAIN report
               PROVE  IsRead(report, todo, cursor + PageSize, i)
                         <=> IsRead(report, todo, cursor, i) \/ IsInPage(i)
  BY DEF Advances
<1>4. i \in Nat
  BY <1>1
<1>5. UpTo(report, Head(todo), i) \in Nat
  BY <1>4, UpToType
<1>6. PICK u, c : u = UpTo(report, Head(todo), i) /\ c = cursor
  OBVIOUS
<1>7. u \in Nat /\ c \in Nat /\ PageSize \in Nat
  BY <1>1, <1>5, <1>6, PageSizeAssumption
<1>8. u <= c + PageSize <=> u <= c \/ (c < u /\ u <= c + PageSize)
  BY <1>7
<1>9. QED
  BY <1>2, <1>6, <1>8 DEF IsRead, IsInPage

LEMMA LastPageAdvances ==
    ASSUME IInv, phase = "pages", ~HasNext(Head(todo))
    PROVE  Advances(Tail(todo), 0)
<1>1. /\ cursor \in Nat /\ report \in Seq(Records) /\ Head(todo) \in Accounts
      /\ todo \in Seq(Accounts) /\ IsInjective(todo) /\ todo # <<>>
  BY FacesPages DEF IInv, Types
<1>2. ToSet(todo) = {Head(todo)} \cup ToSet(Tail(todo)) /\ Head(todo) \notin ToSet(Tail(todo))
  BY <1>1, HeadAndTail
<1>3. SUFFICES ASSUME NEW i \in DOMAIN report
               PROVE  IsRead(report, Tail(todo), 0, i)
                         <=> IsRead(report, todo, cursor, i) \/ IsInPage(i)
  BY DEF Advances
<1>4. i \in 1..Len(report) /\ i \in Nat \ {0} /\ Len(report) \in Nat /\ i <= Len(report)
  BY <1>1
<1>5. UpTo(report, Head(todo), i) \in Nat /\ Total(Head(todo)) \in Nat
      /\ UpTo(report, Head(todo), i) <= Total(Head(todo))
  BY <1>4, UpToType, UpToGrows DEF Total
<1>6. Total(Head(todo)) <= cursor + PageSize
  <2>1. Len(AccountEntries(Head(todo))) = Total(Head(todo))
    BY <1>1, AccountEntriesAre
  <2>2. ~(cursor + PageSize < Total(Head(todo)))
    BY <2>1 DEF HasNext
  <2>3. QED
    BY <1>1, <1>5, <2>2, PageSizeAssumption
<1>7. report[i].account = Head(Tail(todo)) => ~(UpTo(report, Head(Tail(todo)), i) <= 0)
  <2>1. SUFFICES ASSUME NEW a, a = Head(Tail(todo)), report[i].account = a
                 PROVE  ~(UpTo(report, a, i) <= 0)
    OBVIOUS
  <2>2. UpTo(report, a, i) \in Nat \ {0}
    BY <1>4, <2>1, UpToPlace
  <2>3. QED
    BY <2>2
<1>8. IsRead(report, Tail(todo), 0, i) <=> report[i].account \notin ToSet(Tail(todo))
  BY <1>7 DEF IsRead
<1>9. PICK u, c, t : u = UpTo(report, Head(todo), i) /\ c = cursor /\ t = Total(Head(todo))
  OBVIOUS
<1>10. u \in Nat /\ c \in Nat /\ PageSize \in Nat /\ t \in Nat /\ u <= t /\ t <= c + PageSize
  BY <1>1, <1>5, <1>6, <1>9, PageSizeAssumption
<1>11. u <= c \/ (c < u /\ u <= c + PageSize)
  BY <1>10
<1>12. QED
  BY <1>2, <1>8, <1>9, <1>11 DEF IsRead, IsInPage

(* A page has each of its entries once, and none of a place that was read. *)
LEMMA PageKeys ==
    ASSUME IInv, phase = "pages", NEW page, page = Page(Head(todo))
    PROVE  /\ page \in Seq(Records)
           /\ HasDistinctKeys(page)
           /\ \A k \in DOMAIN page : \E i \in DOMAIN report :
                 page[k] = report[i] /\ IsInPage(i) /\ ~IsRead(report, todo, cursor, i)
<1>1. /\ cursor \in Nat /\ report \in Seq(Records) /\ IsInjective(IdsOf(report))
      /\ todo \in Seq(Accounts) /\ IsInjective(todo) /\ todo # <<>>
  BY FacesPages DEF IInv, Types
<1>2. page \in Seq(Records)
  BY <1>1, PageIs
<1>3. Head(todo) \in ToSet(todo)
  BY <1>1, HeadAndTail
<1>4. ASSUME NEW k \in DOMAIN page
      PROVE  \E i \in DOMAIN report :
                /\ page[k] = report[i] /\ IsInPage(i) /\ ~IsRead(report, todo, cursor, i)
                /\ UpTo(report, Head(todo), i) = cursor + k
  <2>1. PICK i \in DOMAIN report :
              /\ Page(Head(todo))[k] = report[i]
              /\ report[i].account = Head(todo)
              /\ UpTo(report, Head(todo), i) = cursor + k
              /\ cursor < UpTo(report, Head(todo), i)
              /\ UpTo(report, Head(todo), i) <= cursor + PageSize
    BY <1>1, PageEntry
  <2>2. UpTo(report, Head(todo), i) \in Nat
    BY <1>1, UpToType
  <2>3. IsInPage(i)
    BY <2>1 DEF IsInPage
  <2>4. ~(UpTo(report, Head(todo), i) <= cursor)
    BY <1>1, <2>1, <2>2
  <2>5. ~IsRead(report, todo, cursor, i)
    BY <1>3, <2>1, <2>4 DEF IsRead
  <2>6. QED
    BY <2>1, <2>3, <2>5
<1>5. HasDistinctKeys(page)
  <2>1. SUFFICES ASSUME NEW k \in DOMAIN page, NEW h \in DOMAIN page, KeyOf(page[k]) = KeyOf(page[h])
                 PROVE  k = h
    BY DEF HasDistinctKeys
  <2>2. PICK i \in DOMAIN report : page[k] = report[i] /\ UpTo(report, Head(todo), i) = cursor + k
    BY <1>4
  <2>3. PICK j \in DOMAIN report : page[h] = report[j] /\ UpTo(report, Head(todo), j) = cursor + h
    BY <1>4
  <2>4. report[i].id = report[j].id
    BY <2>1, <2>2, <2>3 DEF KeyOf
  <2>5. i = j
    BY <1>1, <2>4 DEF IsInjective, IdsOf
  <2>6. cursor + k = cursor + h /\ k \in Nat /\ h \in Nat
    BY <1>2, <2>2, <2>3, <2>5
  <2>7. QED
    BY <1>1, <2>6
<1>6. QED
  BY <1>2, <1>4, <1>5

LEMMA AdvancedMisses ==
    ASSUME IInv, phase = "pages", NEW accounts, NEW offset, Advances(accounts, offset),
           NEW taken, ToSet(extracted) \subseteq ToSet(taken),
           ToSet(Page(Head(todo))) \subseteq ToSet(taken)
    PROVE  MissedIn(report, accounts, offset, taken, steady) \subseteq Missed
<1>1. cursor \in Nat /\ report \in Seq(Records)
  BY FacesPages
<1>2. SUFFICES ASSUME NEW e \in MissedIn(report, accounts, offset, taken, steady)
               PROVE  e \in Missed
  OBVIOUS
<1>3. e \in steady /\ e \notin ToSet(taken)
  BY <1>2 DEF MissedIn
<1>4. PICK i \in DOMAIN report : report[i] = e /\ IsRead(report, accounts, offset, i)
  BY <1>2 DEF MissedIn
<1>5. ~IsInPage(i)
  <2>1. SUFFICES ASSUME IsInPage(i) PROVE FALSE
    OBVIOUS
  <2>2. \E k \in DOMAIN Page(Head(todo)) : Page(Head(todo))[k] = report[i]
    BY <1>1, <2>1, PageCovers DEF IsInPage
  <2>3. e \in ToSet(Page(Head(todo)))
    BY <1>4, <2>2 DEF ToSet
  <2>4. QED
    BY <1>3, <2>3
<1>6. IsRead(report, todo, cursor, i)
  BY <1>4, <1>5 DEF Advances
<1>7. QED
  BY <1>3, <1>4, <1>6 DEF Missed, MissedIn

LEMMA KeysOfConcatenation ==
    ASSUME NEW s \in Seq(Records), NEW t \in Seq(Records), NEW u, u = s \o t
    PROVE  /\ u \in Seq(Records) /\ Len(u) = Len(s) + Len(t)
           /\ KeysOf(u) = KeysOf(s) \cup KeysOf(t)
           /\ ToSet(u) = ToSet(s) \cup ToSet(t)
<1>1. /\ s \o t \in Seq(Records) /\ Len(s \o t) = Len(s) + Len(t)
      /\ \A i \in 1..Len(s) + Len(t) : (s \o t)[i] = IF i <= Len(s) THEN s[i] ELSE t[i - Len(s)]
  BY ConcatProperties
<1>2. /\ u \in Seq(Records) /\ Len(u) = Len(s) + Len(t)
      /\ \A i \in 1..Len(s) + Len(t) : u[i] = IF i <= Len(s) THEN s[i] ELSE t[i - Len(s)]
  BY <1>1
<1>3. /\ Len(s) \in Nat /\ Len(t) \in Nat
      /\ DOMAIN s = 1..Len(s) /\ DOMAIN t = 1..Len(t) /\ DOMAIN u = 1..(Len(s) + Len(t))
  BY <1>2
<1>4. \A i \in 1..Len(s) : i \in DOMAIN u /\ u[i] = s[i]
  BY <1>2, <1>3
<1>5. ASSUME NEW i \in 1..Len(t)
      PROVE  \E j \in DOMAIN u : u[j] = t[i]
  <2>1. Len(s) + i \in 1..(Len(s) + Len(t)) /\ ~(Len(s) + i <= Len(s)) /\ (Len(s) + i) - Len(s) = i
    BY <1>3
  <2>2. u[Len(s) + i] = t[i]
    BY <1>2, <2>1
  <2>3. QED
    BY <1>3, <2>1, <2>2
<1>6. ASSUME NEW i \in DOMAIN u
      PROVE  (\E j \in 1..Len(s) : u[i] = s[j]) \/ (\E j \in 1..Len(t) : u[i] = t[j])
  <2>1. CASE i <= Len(s)
    <3>1. i \in 1..Len(s) /\ u[i] = s[i]
      BY <1>2, <1>3, <1>6, <2>1
    <3>2. QED
      BY <3>1
  <2>2. CASE ~(i <= Len(s))
    <3>1. i - Len(s) \in 1..Len(t) /\ u[i] = t[i - Len(s)]
      BY <1>2, <1>3, <1>6, <2>2
    <3>2. QED
      BY <3>1
  <2>3. QED
    BY <2>1, <2>2
<1>7. ToSet(u) = ToSet(s) \cup ToSet(t)
  <2>1. ASSUME NEW x \in ToSet(u) PROVE x \in ToSet(s) \cup ToSet(t)
    <3>1. PICK i \in DOMAIN u : x = u[i]
      BY <2>1 DEF ToSet
    <3>2. QED
      BY <1>3, <1>6, <3>1 DEF ToSet
  <2>2. ASSUME NEW x \in ToSet(s) PROVE x \in ToSet(u)
    <3>1. PICK i \in 1..Len(s) : x = s[i]
      BY <1>3, <2>2 DEF ToSet
    <3>2. QED
      BY <1>4, <3>1 DEF ToSet
  <2>3. ASSUME NEW x \in ToSet(t) PROVE x \in ToSet(u)
    <3>1. PICK i \in 1..Len(t) : x = t[i]
      BY <1>3, <2>3 DEF ToSet
    <3>2. PICK j \in DOMAIN u : u[j] = t[i]
      BY <1>5
    <3>3. QED
      BY <3>1, <3>2 DEF ToSet
  <2>4. QED
    BY <2>1, <2>2, <2>3
<1>8. /\ KeysOf(u) = {KeyOf(e) : e \in ToSet(u)}
      /\ KeysOf(s) = {KeyOf(e) : e \in ToSet(s)}
      /\ KeysOf(t) = {KeyOf(e) : e \in ToSet(t)}
  BY DEF KeysOf, ToSet
<1>9. KeysOf(u) = KeysOf(s) \cup KeysOf(t)
  BY <1>7, <1>8
<1>10. QED
  BY <1>2, <1>7, <1>9

LEMMA AdvancedRepeats ==
    ASSUME IInv, phase = "pages", NEW accounts, NEW offset, Advances(accounts, offset),
           NEW taken, taken = extracted \o Page(Head(todo))
    PROVE  Len(taken) - Cardinality(KeysOf(taken))
              + Cardinality(MayRepeatIn(report, accounts, offset, taken))
              <= inserted + removed
           /\ Len(taken) \in Nat /\ Cardinality(KeysOf(taken)) \in Nat
           /\ Cardinality(MayRepeatIn(report, accounts, offset, taken)) \in Nat
<1>1. PICK page : page = Page(Head(todo))
  OBVIOUS
<1>2. /\ page \in Seq(Records)
      /\ HasDistinctKeys(page)
      /\ \A k \in DOMAIN page : \E i \in DOMAIN report :
            page[k] = report[i] /\ IsInPage(i) /\ ~IsRead(report, todo, cursor, i)
  BY <1>1, PageKeys
<1>3. extracted \in Seq(Records)
  BY DEF IInv, Types
<1>4. taken = extracted \o page
  BY <1>1
<1>5. /\ taken \in Seq(Records)
      /\ Len(taken) = Len(extracted) + Len(page)
      /\ KeysOf(taken) = KeysOf(extracted) \cup KeysOf(page)
  BY <1>2, <1>3, <1>4, KeysOfConcatenation
<1>6. PICK S, K, W, V :
         /\ S = KeysOf(extracted) /\ K = KeysOf(page) /\ W = MayRepeat
         /\ V = MayRepeatIn(report, accounts, offset, taken)
  OBVIOUS
<1>7. /\ IsFiniteSet(S) /\ IsFiniteSet(K) /\ IsFiniteSet(W) /\ IsFiniteSet(V)
      /\ IsFiniteSet(KeysOf(taken))
      /\ W \subseteq S /\ Cardinality(K) = Len(page)
      /\ V \subseteq S \cup K
  BY <1>2, <1>3, <1>5, <1>6, KeysAreFinite, MayRepeatIsFinite DEF MayRepeat
<1>8. S \cap K \subseteq W
  <2>1. SUFFICES ASSUME NEW x, x \in S, x \in K PROVE x \in W
    OBVIOUS
  <2>2. PICK k \in DOMAIN page : x = KeyOf(page[k])
    BY <1>6, <2>1 DEF KeysOf
  <2>3. PICK i \in DOMAIN report : page[k] = report[i] /\ ~IsRead(report, todo, cursor, i)
    BY <1>2
  <2>4. \A j \in DOMAIN report : KeyOf(report[j]) = x => j = i
    <3>1. IsInjective(IdsOf(report))
      BY FacesPages
    <3>2. QED
      BY <2>2, <2>3, <3>1 DEF KeyOf, IsInjective, IdsOf
  <2>5. QED
    BY <1>6, <2>1, <2>3, <2>4 DEF MayRepeat, MayRepeatIn
<1>9. V \subseteq W \ K
  <2>1. SUFFICES ASSUME NEW x \in V PROVE x \in W /\ x \notin K
    OBVIOUS
  <2>2. \A i \in DOMAIN report : KeyOf(report[i]) = x => ~IsRead(report, accounts, offset, i)
    BY <1>6, <2>1 DEF MayRepeatIn
  <2>3. \A i \in DOMAIN report :
           KeyOf(report[i]) = x => ~IsRead(report, todo, cursor, i) /\ ~IsInPage(i)
    BY <2>2 DEF Advances
  <2>4. x \notin K
    <3>1. SUFFICES ASSUME NEW k \in DOMAIN page, x = KeyOf(page[k]) PROVE FALSE
      BY <1>6 DEF KeysOf
    <3>2. PICK i \in DOMAIN report : page[k] = report[i] /\ IsInPage(i)
      BY <1>2
    <3>3. QED
      BY <2>3, <3>1, <3>2
  <2>5. x \in S
    BY <1>7, <2>1, <2>4
  <2>6. QED
    BY <1>6, <2>3, <2>4, <2>5 DEF MayRepeat, MayRepeatIn
<1>10. Cardinality(V) - Cardinality(S \cup K)
          <= Cardinality(W) - Cardinality(S) - Cardinality(K)
  BY <1>7, <1>8, <1>9, Exchange
<1>11. Len(extracted) - Cardinality(S) + Cardinality(W) <= inserted + removed
  BY <1>6 DEF IInv, Repeats
<1>12. PICK v, u, w, n, k, p, t :
         /\ v = Cardinality(V) /\ u = Cardinality(KeysOf(taken)) /\ w = Cardinality(W)
         /\ n = Cardinality(S) /\ k = Cardinality(K)
         /\ p = Len(extracted) /\ t = Len(taken)
  OBVIOUS
<1>13. /\ v \in Nat /\ u \in Nat /\ w \in Nat /\ n \in Nat /\ k \in Nat
  BY <1>7, <1>12, FS_CardinalityType
<1>14. p \in Nat /\ t \in Nat
  BY <1>3, <1>5, <1>12
<1>15. t = p + k
  BY <1>5, <1>7, <1>12
<1>16. v - u <= w - n - k
  BY <1>5, <1>6, <1>10, <1>12
<1>17. PICK budget : budget = inserted + removed
  OBVIOUS
<1>18. budget \in Nat /\ p - n + w <= budget
  <2>1. removed \in Nat /\ inserted \in Nat
    BY FacesPages
  <2>2. budget \in Nat
    BY <1>17, <2>1
  <2>3. QED
    BY <1>11, <1>12, <1>17, <2>2
<1>19. t - u + v <= budget
  BY <1>13, <1>14, <1>15, <1>16, <1>18
<1>20. QED
  BY <1>6, <1>12, <1>13, <1>14, <1>17, <1>19

LEMMA NextCursor == ASSUME NEW n \in Nat PROVE n * PageSize + PageSize = (n + 1) * PageSize
  BY PageSizeAssumption

LEMMA ReadKeepsInv ==
    ASSUME IInv, ReadPage
    PROVE  IInv'
<1> DEFINE a == Head(todo)
<1>1. /\ phase = "pages" /\ a \in ToSet(open) /\ Mappable(Page(a))
      /\ extracted' = extracted \o Page(a)
      /\ report' = report /\ open' = open /\ steady' = steady /\ seen' = seen
      /\ inserted' = inserted /\ removed' = removed
  BY DEF ReadPage, bankVars, historyVars
<1>2. /\ cursor \in Nat /\ report \in Seq(Records) /\ IsInjective(IdsOf(report))
      /\ removed \in Nat /\ inserted \in Nat
      /\ todo \in Seq(Accounts) /\ IsInjective(todo) /\ todo # <<>>
      /\ extracted \in Seq(Records)
  BY <1>1, FacesPages DEF IInv, Types
<1>3. PICK page : page = Page(a)
  OBVIOUS
<1>4. /\ page \in Seq(Records)
      /\ \A k \in DOMAIN page : \E i \in DOMAIN report : page[k] = report[i] /\ IsInPage(i)
  BY <1>1, <1>3, PageKeys
<1>5. PICK taken : taken = extracted \o page
  OBVIOUS
<1>6. /\ extracted' = taken /\ taken \in Seq(Records)
      /\ ToSet(taken) = ToSet(extracted) \cup ToSet(page)
  BY <1>1, <1>2, <1>3, <1>4, <1>5, KeysOfConcatenation
<1>7. \/ /\ HasNext(a) /\ cursor' = cursor + PageSize /\ todo' = todo /\ phase' = phase
      \/ /\ ~HasNext(a) /\ cursor' = 0 /\ todo' = Tail(todo)
         /\ phase' = IF Len(todo) = 1 THEN "done" ELSE "pages"
  BY DEF ReadPage
<1>8. Advances(todo', cursor')
  <2>1. PICK accounts, offset : accounts = todo' /\ offset = cursor'
    OBVIOUS
  <2>2. Advances(accounts, offset)
    BY <1>1, <1>7, <2>1, NextPageAdvances, LastPageAdvances
  <2>3. QED
    BY <2>1, <2>2
<1>. HIDE DEF a
<1>9. Types'
  <2>1. \A i \in DOMAIN taken : taken[i].status # "OTHER"
    <3>1. ASSUME NEW e \in ToSet(taken) PROVE e.status # "OTHER"
      BY <1>1, <1>3, <1>6, <3>1 DEF IInv, Types, Mappable, ToSet
    <3>2. QED
      BY <3>1 DEF ToSet
  <2>2. todo' \in Seq(Accounts) /\ IsInjective(todo') /\ (phase' = "pages" => todo' # <<>>)
    <3>1. /\ Tail(todo) \in Seq(Accounts) /\ IsInjective(Tail(todo))
          /\ Len(todo) # 1 => Tail(todo) # <<>>
      BY <1>2, HeadAndTail
    <3>2. CASE todo' = todo
      BY <1>2, <3>2
    <3>3. CASE todo' = Tail(todo) /\ phase' = (IF Len(todo) = 1 THEN "done" ELSE "pages")
      BY <3>1, <3>3
    <3>4. QED
      BY <1>7, <3>2, <3>3
  <2>3. phase' \in {"pages", "done"}
    BY <1>1, <1>7
  <2>4. QED
    BY <1>1, <1>2, <1>6, <2>1, <2>2, <2>3 DEF IInv, Types
<1>10. Pages'
  <2>1. PICK n \in Nat : cursor = n * PageSize
    BY DEF IInv, Pages
  <2>2. 0 \in Nat /\ 0 = 0 * PageSize
    BY PageSizeAssumption
  <2>3. n + 1 \in Nat /\ cursor + PageSize = (n + 1) * PageSize
    BY <2>1, NextCursor
  <2>4. \E m \in Nat : cursor' = m * PageSize
    BY <1>7, <2>2, <2>3
  <2>5. QED
    BY <2>4 DEF Pages
<1>11. Histories'
  <2>1. ToSet(page) \subseteq seen
    <3>1. SUFFICES ASSUME NEW k \in DOMAIN page PROVE page[k] \in seen
      BY DEF ToSet
    <3>2. PICK i \in DOMAIN report : page[k] = report[i] /\ IsInPage(i)
      BY <1>4
    <3>3. report[i] \in Reported(open, report)
      BY <1>1, <3>2 DEF IsInPage, Reported, ToSet, a
    <3>4. QED
      BY <3>2, <3>3 DEF IInv, Histories
  <2>2. ToSet(taken) \subseteq seen
    BY <1>6, <2>1 DEF IInv, Histories
  <2>3. Reported(open, report)' = Reported(open, report)
    BY <1>1
  <2>4. ToSet(extracted)' = ToSet(taken)
    BY <1>6
  <2>5. QED
    BY <1>1, <2>2, <2>3, <2>4 DEF IInv, Histories
<1>12. Misses'
  <2>1. Missed' = MissedIn(report, todo', cursor', taken, steady)
    BY <1>1, <1>6 DEF Missed
  <2>2. PICK accounts, offset : accounts = todo' /\ offset = cursor'
    OBVIOUS
  <2>3. PICK before, after : before = Missed /\ after = Missed'
    OBVIOUS
  <2>4. after \subseteq before
    BY <1>1, <1>3, <1>6, <1>8, <2>1, <2>2, <2>3, AdvancedMisses DEF a
  <2>5. IsFiniteSet(before)
    <3>1. steady \subseteq ToSet(report)
      BY DEF IInv, Histories, Reported
    <3>2. QED
      BY <1>2, <2>3, <3>1, MissedIsFinite DEF Missed
  <2>6. /\ Cardinality(after) <= Cardinality(before)
        /\ Cardinality(after) \in Nat /\ Cardinality(before) \in Nat
    BY <2>4, <2>5, NoMore
  <2>7. Cardinality(before) <= removed
    BY <1>1, <2>3 DEF IInv, Misses
  <2>8. Cardinality(after) <= removed
    BY <1>2, <2>6, <2>7
  <2>9. QED
    BY <1>1, <2>3, <2>8 DEF Misses
<1>13. Repeats'
  <2>1. PICK accounts, offset : accounts = todo' /\ offset = cursor'
    OBVIOUS
  <2>2. /\ Len(taken) - Cardinality(KeysOf(taken))
              + Cardinality(MayRepeatIn(report, accounts, offset, taken))
              <= inserted + removed
        /\ Len(taken) \in Nat /\ Cardinality(KeysOf(taken)) \in Nat
        /\ Cardinality(MayRepeatIn(report, accounts, offset, taken)) \in Nat
    BY <1>1, <1>3, <1>5, <1>8, <2>1, AdvancedRepeats DEF a
  <2>3. MayRepeat' = MayRepeatIn(report, accounts, offset, taken)
    BY <1>1, <1>6, <2>1 DEF MayRepeat
  <2>4. (Len(extracted) - Cardinality(KeysOf(extracted)))' = Len(taken) - Cardinality(KeysOf(taken))
    BY <1>6
  <2>5. Len(taken) - Cardinality(KeysOf(taken)) <= inserted + removed
    <3>1. PICK t, u, v, budget :
             /\ t = Len(taken) /\ u = Cardinality(KeysOf(taken))
             /\ v = Cardinality(MayRepeatIn(report, accounts, offset, taken))
             /\ budget = inserted + removed
      OBVIOUS
    <3>2. t \in Nat /\ u \in Nat /\ v \in Nat /\ budget \in Nat /\ t - u + v <= budget
      BY <1>2, <2>2, <3>1
    <3>3. t - u <= budget
      BY <3>2
    <3>4. QED
      BY <3>1, <3>3
  <2>6. QED
    BY <1>1, <2>2, <2>3, <2>4, <2>5 DEF Repeats
<1>14. CursorIsWithin'
  <2>1. phase' # "past the end"
    BY <1>1, <1>7
  <2>2. ASSUME HasNext(a), cursor' = cursor + PageSize, todo' = todo
        PROVE  cursor' < Total(Head(todo))'
    <3>1. cursor + PageSize < Total(a)
      BY <1>2, <2>2, AccountEntriesAre DEF HasNext
    <3>2. Total(Head(todo))' = Total(a)
      BY <1>1, <2>2 DEF Total, UpTo, a
    <3>3. QED
      BY <2>2, <3>1, <3>2
  <2>3. cursor' > 0 => cursor' < Total(Head(todo))'
    BY <1>7, <2>2
  <2>4. QED
    BY <2>1, <2>3 DEF CursorIsWithin
<1>15. QED
  BY <1>9, <1>10, <1>11, <1>12, <1>13, <1>14 DEF IInv

LEMMA ListAccountsKeepsInv ==
    ASSUME IInv, ListAccounts
    PROVE  IInv'
<1>1. /\ phase = "accounts" /\ todo' = open /\ phase' \in {"pages", "done"}
      /\ phase' = "pages" => open # <<>>
      /\ cursor' = cursor /\ extracted' = extracted
      /\ report' = report /\ open' = open /\ steady' = steady /\ seen' = seen
      /\ inserted' = inserted /\ removed' = removed
  BY DEF ListAccounts, bankVars, historyVars
<1>2. /\ report \in Seq(Records) /\ open \in Seq(Accounts) /\ IsInjective(open)
      /\ removed \in Nat /\ inserted \in Nat /\ cursor = 0 /\ extracted = <<>>
  BY <1>1, FacesPages DEF IInv, Types
<1>3. Types'
  BY <1>1, <1>2 DEF IInv, Types
<1>4. Pages'
  BY <1>1 DEF IInv, Pages
<1>5. Histories'
  <2>1. Reported(open, report)' = Reported(open, report) /\ ToSet(extracted)' = ToSet(extracted)
    BY <1>1 DEF Reported, ToSet
  <2>2. QED
    BY <1>1, <2>1 DEF IInv, Histories
<1>6. Misses'
  <2>1. Missed' = MissedIn(report, open, 0, <<>>, steady)
    BY <1>1, <1>2 DEF Missed, MissedIn, IsRead, ToSet, UpTo
  <2>2. ASSUME NEW e \in MissedIn(report, open, 0, <<>>, steady) PROVE FALSE
    <3>1. e \in steady
      BY <2>2 DEF MissedIn
    <3>2. e.account \in ToSet(open)
      BY <3>1 DEF IInv, Histories, Reported
    <3>3. PICK i \in DOMAIN report : report[i] = e /\ IsRead(report, open, 0, i)
      BY <2>2 DEF MissedIn
    <3>4. PICK a : a = Head(open)
      OBVIOUS
    <3>5. report[i].account = a /\ UpTo(report, a, i) <= 0
      BY <3>2, <3>3, <3>4 DEF IsRead
    <3>6. UpTo(report, a, i) \in Nat \ {0}
      <4>1. i \in Nat \ {0}
        BY <1>2
      <4>2. QED
        BY <3>5, <4>1, UpToPlace
    <3>7. QED
      BY <3>5, <3>6
  <2>3. Missed' = {}
    BY <2>1, <2>2
  <2>4. Cardinality(Missed') = 0
    BY <2>3, FS_EmptySet
  <2>5. QED
    BY <1>1, <1>2, <2>4 DEF Misses
<1>7. Repeats'
  <2>1. KeysOf(extracted) = {} /\ Len(extracted) = 0
    BY <1>2 DEF KeysOf
  <2>2. MayRepeat' = {}
    BY <1>1, <1>2, <2>1 DEF MayRepeat, MayRepeatIn, KeysOf
  <2>3. Cardinality({}) = 0
    BY FS_EmptySet
  <2>4. KeysOf(extracted)' = {} /\ Len(extracted)' = 0
    BY <1>1, <2>1 DEF KeysOf, KeyOf
  <2>5. Len(extracted)' - Cardinality(KeysOf(extracted)') = 0 /\ Cardinality(MayRepeat') = 0
    BY <2>2, <2>3, <2>4
  <2>6. 0 <= inserted + removed /\ 0 + 0 <= inserted + removed
    BY <1>2
  <2>7. QED
    BY <1>1, <2>5, <2>6 DEF Repeats
<1>8. CursorIsWithin'
  <2>1. phase' # "past the end"
    BY <1>1
  <2>2. cursor' = 0
    BY <1>1, <1>2
  <2>3. \A offset \in Nat : offset = 0 => ~(offset > 0)
    OBVIOUS
  <2>4. ~(cursor' > 0)
    BY <2>2, <2>3
  <2>5. QED
    BY <2>1, <2>4 DEF CursorIsWithin
<1>9. QED
  BY <1>3, <1>4, <1>5, <1>6, <1>7, <1>8 DEF IInv

(* A start of a run: nothing is taken yet, and the histories begin. *)
LEMMA BeginningHasInv ==
    ASSUME /\ phase = "accounts" /\ todo = <<>> /\ cursor = 0 /\ extracted = <<>>
           /\ inserted = 0 /\ removed = 0
           /\ steady = Reported(open, report) /\ seen = Reported(open, report),
           open \in Seq(Accounts) /\ IsInjective(open),
           report \in Seq(Records) /\ IsInjective(IdsOf(report))
    PROVE  IInv
<1>1. IsInjective(todo) /\ ToSet(extracted) = {} /\ KeysOf(extracted) = {} /\ Len(extracted) = 0
  BY DEF IsInjective, ToSet, KeysOf
<1>2. Types
  BY <1>1 DEF Types
<1>3. Pages
  BY PageSizeAssumption DEF Pages
<1>4. Histories
  <2>1. Reported(open, report) \subseteq Records
    BY DEF Reported, ToSet
  <2>2. QED
    BY <1>1, <2>1 DEF Histories
<1>5. Repeats
  <2>1. Cardinality(KeysOf(extracted)) = 0
    BY <1>1, FS_EmptySet
  <2>2. QED
    BY <1>1, <2>1 DEF Repeats
<1>6. Misses /\ CursorIsWithin
  BY DEF Misses, CursorIsWithin
<1>7. QED
  BY <1>2, <1>3, <1>4, <1>5, <1>6 DEF IInv

LEMMA InitHasInv == Init => IInv
<1> SUFFICES ASSUME Init PROVE IInv
  OBVIOUS
<1>1. PICK some \in SUBSET Accounts : open = SetToSeq(some)
  BY DEF Init
<1>2. open \in Seq(Accounts) /\ IsInjective(open)
  BY <1>1, AccountsAreListed
<1>3. report \in Seq(Records) /\ IsInjective(IdsOf(report))
  BY ReportsAssumption DEF Init
<1>4. QED
  BY <1>2, <1>3, BeginningHasInv DEF Init

LEMMA RerunKeepsInv ==
    ASSUME IInv, Rerun
    PROVE  IInv'
<1>1. /\ phase' = "accounts" /\ todo' = <<>> /\ cursor' = 0 /\ extracted' = <<>>
      /\ inserted' = 0 /\ removed' = 0
      /\ open' = open /\ report' = report
      /\ steady' = Reported(open, report) /\ seen' = Reported(open, report)
  BY DEF Rerun, bankVars
<1>2. /\ open \in Seq(Accounts) /\ IsInjective(open)
      /\ report \in Seq(Records) /\ IsInjective(IdsOf(report))
  BY FacesPages
<1>3. Types'
  <2>1. IsInjective(<<>>)
    BY DEF IsInjective
  <2>2. QED
    BY <1>1, <1>2, <2>1 DEF Types
<1>4. Pages'
  <2>1. 0 \in Nat /\ 0 = 0 * PageSize
    BY PageSizeAssumption
  <2>2. \E n \in Nat : cursor' = n * PageSize
    BY <1>1, <2>1
  <2>3. QED
    BY <2>2 DEF Pages
<1>5. Histories'
  <2>1. Reported(open, report) \subseteq Records
    BY <1>2 DEF Reported, ToSet
  <2>2. Reported(open, report)' = Reported(open, report) /\ ToSet(extracted)' = {}
    BY <1>1 DEF Reported, ToSet
  <2>3. QED
    BY <1>1, <2>1, <2>2 DEF Histories
<1>6. Repeats'
  <2>1. KeysOf(extracted)' = {} /\ Len(extracted)' = 0
    BY <1>1 DEF KeysOf
  <2>2. Cardinality({}) = 0
    BY FS_EmptySet
  <2>3. QED
    BY <1>1, <2>1, <2>2 DEF Repeats
<1>7. Misses' /\ CursorIsWithin'
  BY <1>1 DEF Misses, CursorIsWithin
<1>8. QED
  BY <1>3, <1>4, <1>5, <1>6, <1>7 DEF IInv

LEMMA PastEndAfterRemovals ==
    ASSUME IInv, RaisePastEnd
    PROVE  removed > 0
<1>1. phase = "pages" /\ cursor > 0 /\ cursor >= Len(AccountEntries(Head(todo)))
  BY DEF RaisePastEnd, PastEnd
<1>2. cursor \in Nat /\ removed \in Nat /\ report \in Seq(Records)
  BY FacesPages
<1>3. Total(Head(todo)) \in Nat /\ cursor >= Total(Head(todo))
  BY <1>1, <1>2, AccountEntriesAre
<1>4. removed = 0 => cursor < Total(Head(todo))
  BY <1>1 DEF IInv, CursorIsWithin
<1>5. QED
  BY <1>2, <1>3, <1>4

LEMMA RaiseKeepsInv ==
    ASSUME IInv, NEW reason, Raise(reason),
           reason \in {"unknown account", "past the end", "unknown status"},
           reason = "past the end" => removed > 0
    PROVE  IInv'
<1>1. /\ phase' = reason /\ todo' = todo /\ cursor' = cursor /\ extracted' = extracted
      /\ report' = report /\ open' = open /\ steady' = steady /\ seen' = seen
      /\ inserted' = inserted /\ removed' = removed
  BY DEF Raise, bankVars, historyVars
<1>2. Types'
  BY <1>1 DEF IInv, Types
<1>3. Pages'
  BY <1>1 DEF IInv, Pages
<1>4. Histories'
  <2>1. Reported(open, report)' = Reported(open, report) /\ ToSet(extracted)' = ToSet(extracted)
    BY <1>1 DEF Reported, ToSet
  <2>2. QED
    BY <1>1, <2>1 DEF IInv, Histories
<1>5. Repeats'
  <2>1. (Len(extracted) - Cardinality(KeysOf(extracted)))' = Len(extracted) - Cardinality(KeysOf(extracted))
    BY <1>1 DEF KeysOf, KeyOf
  <2>2. phase' # "pages"
    BY <1>1
  <2>3. QED
    BY <1>1, <2>1, <2>2 DEF IInv, Repeats
<1>6. Misses' /\ CursorIsWithin'
  BY <1>1 DEF Misses, CursorIsWithin
<1>7. QED
  BY <1>2, <1>3, <1>4, <1>5, <1>6 DEF IInv

LEMMA StutterKeepsInv ==
    ASSUME IInv, UNCHANGED vars
    PROVE  IInv'
<1>1. /\ phase' = phase /\ todo' = todo /\ cursor' = cursor /\ extracted' = extracted
      /\ report' = report /\ open' = open /\ steady' = steady /\ seen' = seen
      /\ inserted' = inserted /\ removed' = removed
  BY DEF vars, bankVars, adapterVars, historyVars
<1>2. Types'
  BY <1>1 DEF IInv, Types
<1>3. Pages'
  BY <1>1 DEF IInv, Pages
<1>4. Histories'
  <2>1. Reported(open, report)' = Reported(open, report) /\ ToSet(extracted)' = ToSet(extracted)
    BY <1>1 DEF Reported, ToSet
  <2>2. QED
    BY <1>1, <2>1 DEF IInv, Histories
<1>5. Repeats'
  <2>1. KeysOf(extracted)' = KeysOf(extracted) /\ MayRepeat' = MayRepeat
    BY <1>1 DEF MayRepeat, MayRepeatIn, IsRead, UpTo, ToSet, KeysOf, KeyOf
  <2>2. QED
    BY <1>1, <2>1 DEF IInv, Repeats
<1>6. Misses'
  <2>1. Missed' = Missed
    BY <1>1 DEF Missed, MissedIn, IsRead, UpTo, ToSet
  <2>2. QED
    BY <1>1, <2>1 DEF IInv, Misses
<1>7. CursorIsWithin'
  <2>1. Total(Head(todo))' = Total(Head(todo))
    BY <1>1 DEF Total, UpTo
  <2>2. QED
    BY <1>1, <2>1 DEF IInv, CursorIsWithin
<1>8. QED
  BY <1>2, <1>3, <1>4, <1>5, <1>6, <1>7 DEF IInv

LEMMA StepKeepsInv == IInv /\ [Next]_vars => IInv'
<1> SUFFICES ASSUME IInv, [Next]_vars PROVE IInv'
  OBVIOUS
<1>1. CASE ListAccounts
  BY <1>1, ListAccountsKeepsInv
<1>2. CASE ReadPage
  BY <1>2, ReadKeepsInv
<1>3. CASE RaiseUnknownAccount
  BY <1>3, RaiseKeepsInv DEF RaiseUnknownAccount
<1>4. CASE RaisePastEnd
  BY <1>4, RaiseKeepsInv, PastEndAfterRemovals DEF RaisePastEnd
<1>5. CASE RaiseUnknownStatus
  BY <1>5, RaiseKeepsInv DEF RaiseUnknownStatus
<1>6. CASE Rerun
  BY <1>6, RerunKeepsInv
<1>7. CASE \E entry \in Records : AppendEntry(entry) \/ InsertInFront(entry)
  BY <1>7, AppendKeepsInv, InsertKeepsInv
<1>8. CASE \E i \in DOMAIN report : (\E status \in Statuses : Amend(i, status)) \/ RemoveEntry(i)
  BY <1>8, AmendKeepsInv, RemoveKeepsInv
<1>9. CASE \E some \in SUBSET Accounts : ListOtherAccounts(SetToSeq(some))
  BY <1>9, ListOthersKeepsInv
<1>10. CASE UNCHANGED vars
  BY <1>10, StutterKeepsInv
<1>11. QED
  BY <1>1, <1>2, <1>3, <1>4, <1>5, <1>6, <1>7, <1>8, <1>9, <1>10 DEF Next

LEMMA InvIsInvariant == Spec => []IInv
  BY InitHasInv, StepKeepsInv, PTL DEF Spec
-----------------------------------------------------------------------------
(* What the invariant is for *)

LEMMA CursorIsMultiple == Pages => cursor % PageSize = 0
<1> SUFFICES ASSUME NEW n \in Nat, cursor = n * PageSize
             PROVE  cursor % PageSize = 0
  BY DEF Pages
<1>1. QED
  BY PageSizeAssumption

LEMMA EntriesAreOf == ASSUME NEW S, NEW s \in Seq(S) PROVE ToSet(s) \subseteq S
  BY DEF ToSet

(* A run stands in a legal place: a cursor is the end of a full page, an   *)
(* account is being read while pages are, and only known statuses are      *)
(* taken over (adapters/marlstone.py, mock_banks/marlstone.py).            *)
THEOREM RunTypes == Spec => []TypeOK
<1>1. IInv => TypeOK
  <2> SUFFICES ASSUME IInv PROVE TypeOK
    OBVIOUS
  <2>1. ToSet(open) \subseteq Accounts /\ ToSet(todo) \subseteq Accounts /\ ToSet(report) \subseteq Records
    BY EntriesAreOf DEF IInv, Types
  <2>2. cursor % PageSize = 0
    BY CursorIsMultiple DEF IInv
  <2>3. steady \subseteq seen /\ seen \subseteq Records
    BY DEF IInv, Histories
  <2>4. QED
    BY <2>1, <2>2, <2>3 DEF IInv, Types, TypeOK
<1>2. QED
  BY <1>1, InvIsInvariant, PTL

(* Only an insertion or a removal makes an entry come twice, and each of   *)
(* them one entry at most; amending and appending between two pages repeat *)
(* nothing (the offsets of mock_banks/marlstone.py).                       *)
THEOREM RepeatsAreCounted == Spec => []RepeatsComeFromInsertions
<1>1. IInv => RepeatsComeFromInsertions
  <2>1. KeysOf(extracted) = {<<extracted[i].account, extracted[i].id>> : i \in DOMAIN extracted}
    BY DEF KeysOf, KeyOf
  <2>2. QED
    BY <2>1 DEF IInv, Repeats, RepeatsComeFromInsertions
<1>2. QED
  BY <1>1, InvIsInvariant, PTL

(* The bank's "cursor past the end" is never met before an entry has been  *)
(* removed: no cursor the bank has handed out is past the end already.     *)
THEOREM CursorsStayWithin == Spec => []PastEndNeedsRemovals
<1>1. IInv => PastEndNeedsRemovals
  BY DEF IInv, CursorIsWithin, PastEndNeedsRemovals
<1>2. QED
  BY <1>1, InvIsInvariant, PTL
-----------------------------------------------------------------------------
(* The extract is what Extraction promises. *)

Outcome == CASE phase \in {"accounts", "pages"} -> "running"
             [] phase = "done" -> "done"
             [] OTHER -> "raised"

Returned == IF phase = "done" THEN ToSet(extracted) ELSE {}

(* Extraction counts as this module does. *)
LEMMA SameCardinality == \A S : Extract!Cardinality(S) = Cardinality(S)
  BY DEF Extract!Cardinality, Cardinality

LEMMA ReadImplements ==
    ASSUME IInv, IInv', ReadPage
    PROVE  [Extract!Next]_(Extract!vars)
<1>1. /\ phase = "pages"
      /\ report' = report /\ open' = open /\ steady' = steady /\ seen' = seen
      /\ removed' = removed
  BY DEF ReadPage, bankVars, historyVars
<1>2. Reported(open, report)' = Reported(open, report)
  BY <1>1
<1>3. phase' = "pages" \/ phase' = "done"
  BY DEF ReadPage
<1>4. CASE phase' = "pages"
  BY <1>1, <1>2, <1>4 DEF Extract!vars
<1>5. CASE phase' = "done"
  <2>1. PICK page, taken : page = Page(Head(todo)) /\ taken = extracted \o page
    OBVIOUS
  <2>2. extracted' = taken
    BY <2>1 DEF ReadPage
  <2>3. ~HasNext(Head(todo)) /\ Len(todo) = 1
    BY <1>1, <1>5 DEF ReadPage
  <2>4. Advances(Tail(todo), 0)
    BY <1>1, <2>3, LastPageAdvances
  <2>5. ToSet(taken) = ToSet(extracted) \cup ToSet(page)
    <3>1. extracted \in Seq(Records) /\ page \in Seq(Records)
      BY <1>1, <2>1, PageKeys DEF IInv, Types
    <3>2. PICK before : before = extracted
      OBVIOUS
    <3>3. before \in Seq(Records) /\ page \in Seq(Records) /\ taken = before \o page
      BY <2>1, <3>1, <3>2
    <3>4. ToSet(taken) = ToSet(before) \cup ToSet(page)
      BY <3>3, KeysOfConcatenation
    <3>5. QED
      BY <3>2, <3>4
  <2>6. PICK rest : rest = Tail(todo)
    OBVIOUS
  <2>7. rest = <<>>
    <3>1. PICK list : list = todo
      OBVIOUS
    <3>2. list \in Seq(Accounts) /\ list # <<>> /\ Len(list) = 1 /\ rest = Tail(list)
      BY <1>1, <2>3, <2>6, <3>1 DEF IInv, Types
    <3>3. rest \in Seq(Accounts) /\ Len(rest) = 0
      BY <3>2
    <3>4. QED
      BY <3>3
  <2>8. MissedIn(report, rest, 0, taken, steady) \subseteq Missed
    BY <1>1, <2>1, <2>4, <2>5, <2>6, AdvancedMisses
  <2>9. steady \ ToSet(taken) \subseteq MissedIn(report, rest, 0, taken, steady)
    <3>1. ToSet(rest) = {}
      BY <2>7 DEF ToSet
    <3>2. \A e \in steady : \E i \in DOMAIN report : report[i] = e
      BY DEF IInv, Histories, Reported, ToSet
    <3>3. QED
      BY <3>1, <3>2 DEF MissedIn, IsRead
  <2>10. IsFiniteSet(Missed)
    <3>1. report \in Seq(Records) /\ steady \subseteq ToSet(report)
      BY DEF IInv, Types, Histories, Reported
    <3>2. QED
      BY <3>1, MissedIsFinite DEF Missed
  <2>11. /\ Cardinality(steady \ ToSet(taken)) <= Cardinality(Missed)
         /\ Cardinality(steady \ ToSet(taken)) \in Nat /\ Cardinality(Missed) \in Nat
    BY <2>8, <2>9, <2>10, NoMore
  <2>12. Cardinality(Missed) <= removed /\ removed \in Nat
    BY <1>1, FacesPages DEF IInv, Misses
  <2>13. Cardinality(steady \ ToSet(taken)) <= removed
    BY <2>11, <2>12
  <2>14. ToSet(taken) \subseteq seen
    BY <1>1, <2>2 DEF IInv, Histories
  <2>15. Returned' = ToSet(taken)
    BY <1>5, <2>2 DEF Returned
  <2>16. Extract!Return
    BY <1>1, <1>2, <1>5, <2>13, <2>14, <2>15, SameCardinality DEF Extract!Return, Returned
  <2>17. QED
    BY <2>16 DEF Extract!Next
<1>6. QED
  BY <1>3, <1>4, <1>5

LEMMA ListImplements ==
    ASSUME IInv, IInv', ListAccounts
    PROVE  [Extract!Next]_(Extract!vars)
<1>1. /\ phase = "accounts" /\ todo' = open /\ extracted' = extracted
      /\ phase' = IF open = <<>> THEN "done" ELSE "pages"
      /\ report' = report /\ open' = open /\ steady' = steady /\ seen' = seen
      /\ removed' = removed
  BY DEF ListAccounts, bankVars, historyVars
<1>2. Reported(open, report)' = Reported(open, report)
  BY <1>1
<1>3. CASE open # <<>>
  BY <1>1, <1>2, <1>3 DEF Extract!vars
<1>4. CASE open = <<>>
  <2>1. ToSet(open) = {} /\ ToSet(extracted) = {}
    BY <1>1, <1>4 DEF IInv, Types, ToSet
  <2>2. steady = {}
    BY <2>1 DEF IInv, Histories, Reported
  <2>3. Cardinality(steady \ {}) = 0
    BY <2>2, FS_EmptySet
  <2>4. removed \in Nat
    BY FacesPages
  <2>5. Returned' = {}
    BY <1>1, <2>1 DEF Returned, ToSet
  <2>6. Cardinality(steady \ Returned') <= removed
    BY <2>3, <2>4, <2>5
  <2>7. Extract!Return
    BY <1>1, <1>2, <1>4, <2>5, <2>6, SameCardinality DEF Extract!Return, Returned
  <2>8. QED
    BY <2>7 DEF Extract!Next
<1>5. QED
  BY <1>3, <1>4

LEMMA ChangeImplements ==
    ASSUME IInv', NEW accounts, NEW entries, Change(accounts, entries),
           removed' = removed \/ removed' = removed + 1
    PROVE  Extract!Next
<1>1. /\ phase' = phase /\ extracted' = extracted
      /\ open' = accounts /\ report' = entries
      /\ steady' = steady \cap Reported(accounts, entries)
      /\ seen' = seen \cup Reported(accounts, entries)
  BY DEF Change, adapterVars
<1>2. Reported(open, report)' = Reported(accounts, entries)
  BY <1>1
<1>3. Reported(open, report)' \subseteq Records
  BY DEF IInv, Histories
<1>4. Outcome' = Outcome /\ Returned' = Returned
  BY <1>1 DEF Outcome, Returned, ToSet
<1>5. Extract!Report
  BY <1>1, <1>2, <1>3, <1>4 DEF Extract!Report, Outcome, Returned
<1>6. QED
  BY <1>5 DEF Extract!Next

LEMMA RaiseImplements ==
    ASSUME phase = "pages", NEW reason, Raise(reason),
           reason \in {"unknown account", "past the end", "unknown status"}
    PROVE  Extract!Next
<1>1. /\ phase' = reason
      /\ report' = report /\ open' = open /\ steady' = steady /\ seen' = seen
      /\ removed' = removed
  BY DEF Raise, bankVars, historyVars
<1>2. Reported(open, report)' = Reported(open, report)
  BY <1>1
<1>3. Extract!Except
  BY <1>1, <1>2 DEF Extract!Except
<1>4. QED
  BY <1>3 DEF Extract!Next

LEMMA RerunImplements ==
    ASSUME Rerun
    PROVE  Extract!Next
<1>1. /\ phase \notin {"accounts", "pages"} /\ phase' = "accounts"
      /\ removed' = 0
      /\ open' = open /\ report' = report
      /\ steady' = Reported(open, report) /\ seen' = Reported(open, report)
  BY DEF Rerun, bankVars
<1>2. Reported(open, report)' = Reported(open, report)
  BY <1>1
<1>3. Extract!Begin
  BY <1>1, <1>2 DEF Extract!Begin
<1>4. QED
  BY <1>3 DEF Extract!Next

LEMMA StepImplements == IInv /\ IInv' /\ [Next]_vars => [Extract!Next]_(Extract!vars)
<1> SUFFICES ASSUME IInv, IInv', [Next]_vars PROVE [Extract!Next]_(Extract!vars)
  OBVIOUS
<1>0. removed \in Nat
  BY FacesPages
<1>1. CASE ListAccounts
  BY <1>1, ListImplements
<1>2. CASE ReadPage
  BY <1>2, ReadImplements
<1>3. CASE RaiseUnknownAccount
  BY <1>3, RaiseImplements DEF RaiseUnknownAccount
<1>4. CASE RaisePastEnd
  BY <1>4, RaiseImplements DEF RaisePastEnd
<1>5. CASE RaiseUnknownStatus
  BY <1>5, RaiseImplements DEF RaiseUnknownStatus
<1>6. CASE Rerun
  BY <1>6, RerunImplements
<1>7. ASSUME NEW entry \in Records, AppendEntry(entry) \/ InsertInFront(entry)
      PROVE  Extract!Next
  BY <1>7, ChangeImplements DEF AppendEntry, InsertInFront
<1>8. ASSUME NEW i \in DOMAIN report, NEW status \in Statuses, Amend(i, status)
      PROVE  Extract!Next
  BY <1>8, ChangeImplements DEF Amend
<1>9. ASSUME NEW i \in DOMAIN report, RemoveEntry(i)
      PROVE  Extract!Next
  BY <1>9, ChangeImplements DEF RemoveEntry
<1>10. ASSUME NEW some \in SUBSET Accounts, ListOtherAccounts(SetToSeq(some))
       PROVE  Extract!Next
  BY <1>10, ChangeImplements DEF ListOtherAccounts
<1>11. CASE UNCHANGED vars
  <2>1. /\ phase' = phase /\ extracted' = extracted /\ open' = open /\ report' = report
        /\ steady' = steady /\ seen' = seen /\ removed' = removed
    BY <1>11 DEF vars, bankVars, adapterVars, historyVars
  <2>2. Reported(open, report)' = Reported(open, report)
    BY <2>1
  <2>3. Outcome' = Outcome /\ Returned' = Returned
    BY <2>1 DEF Outcome, Returned, ToSet
  <2>4. QED
    BY <2>1, <2>2, <2>3 DEF Extract!vars, Outcome, Returned
<1>12. QED
  BY <1>1, <1>2, <1>3, <1>4, <1>5, <1>6, <1>7, <1>8, <1>9, <1>10, <1>11 DEF Next

LEMMA InitImplements == Init => Extract!Init
<1> SUFFICES ASSUME Init PROVE Extract!Init
  OBVIOUS
<1>1. report \in Seq(Records)
  BY ReportsAssumption DEF Init
<1>2. Reported(open, report) \subseteq Records
  BY <1>1 DEF Reported, ToSet
<1>3. QED
  BY <1>2 DEF Init, Extract!Init

(* A run over a bank that changes between the requests returns what        *)
(* Extraction promises: nothing that was never reported, and everything    *)
(* that was there all the time, but for one entry at most for each removal *)
(* (the loop over the cursors in adapters/marlstone.py).                   *)
THEOREM RunsKeepThePromise == Spec => ImplementsExtraction
<1>1. Spec => Extract!Spec
  BY InitImplements, StepImplements, InvIsInvariant, PTL DEF Spec, Extract!Spec
<1>2. QED
  BY <1>1 DEF ImplementsExtraction
=============================================================================
