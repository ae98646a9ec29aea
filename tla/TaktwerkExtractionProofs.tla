----------------------- MODULE TaktwerkExtractionProofs -----------------------
(***************************************************************************)
(* Proofs about taktwerk's extraction, for any exports, rows of any width, *)
(* plans of cuts and numbers of attempts: a lost connection is never taken *)
(* for a defect of the adapter, no export contradicts what has landed, and *)
(* a row has landed as often as the fullest export that was taken in held  *)
(* it.                                                                     *)
(***************************************************************************)
EXTENDS TaktwerkExtraction, FiniteSetTheorems, WellFoundedInduction, TLAPS

-----------------------------------------------------------------------------
(* The inductive invariant *)

PhaseTypes ==
    /\ header \in BOOLEAN
    /\ phase \in {"accounts", "export", "parsed", "inserting"} \/ Over
    /\ known \subseteq accounts /\ accounts \subseteq FirstAccounts \cup LateAccounts

(* Every attempt is one download; a run that raises over the accounts has none. *)
Downloads ==
    /\ attempt \in 1..MaxAttempts
    /\ downloadIndex \in IF phase \in {"accounts", "export"}
                         THEN {attempt - 1}
                         ELSE {attempt - 1, attempt}

ExportTypes == export \in Exports

Parsed(rows) == rows \in Seq(Rows) /\ Len(rows) <= MaxRows /\ batch = Transactions(rows)

(* What is offered to the store was made of whole rows.                    *)
Offered ==
    /\ phase \in {"parsed", "inserting"} => \E rows \in Seq(Rows) : Parsed(rows)
    /\ pending = IF phase = "inserting"
                 THEN [table |-> "transactions", batch |-> batch]
                 ELSE Store!NoCall

(* Under the identifiers of a row its first copies have landed, up to the best. *)
StoreIsTheBest ==
    /\ best \in [Rows -> 0..MaxRows]
    /\ landed \in [Store!Tables -> [Identifiers -> Rows \cup {Absent}]]
    /\ \A row \in Rows, n \in 0..(MaxRows - 1) :
          landed["transactions"][<<row, n>>] = IF n < best[row] THEN row ELSE Absent

IInv == PhaseTypes /\ Downloads /\ ExportTypes /\ Offered /\ StoreIsTheBest /\ phase # "conflict"

-----------------------------------------------------------------------------
(* Counting the copies of a row *)

(* Induction, for a property given as the set of the numbers that have it. *)
LEMMA NatSetInduction ==
    ASSUME NEW T, 0 \in T, \A n \in Nat : n \in T => n + 1 \in T
    PROVE  \A n \in Nat : n \in T
<1> DEFINE R == OpToRel(<, Nat)
           Bad == {n \in Nat : n \notin T}
<1>1. SUFFICES ASSUME Bad # {} PROVE FALSE
  OBVIOUS
<1>2. \E m \in Bad : \A n \in Bad : <<n, m>> \notin R
  <2>1. IsWellFoundedOn(R, Nat) /\ Bad \subseteq Nat
    BY NatLessThanWellFounded
  <2>. HIDE DEF R, Bad
  <2>2. QED
    BY <1>1, <2>1, WFMin
<1>3. PICK m \in Bad : \A n \in Bad : <<n, m>> \notin R
  BY <1>2
<1>4. m \in Nat /\ m \notin T /\ m # 0
  OBVIOUS
<1>5. m - 1 \in Bad
  BY <1>4
<1>6. <<m - 1, m>> \in R
  <2>1. <<m - 1, m>> \in Nat \X Nat /\ m - 1 < m
    BY <1>4
  <2>2. QED
    BY <2>1 DEF OpToRel
<1>7. QED
  BY <1>3, <1>5, <1>6


LEMMA MaxOfTwo ==
    ASSUME NEW a \in Nat, NEW b \in Nat
    PROVE  Max({a, b}) = IF a < b THEN b ELSE a
<1>1. PICK m \in {a, b} : \A y \in {a, b} : m >= y
  BY DEF Max
<1>2. Max({a, b}) \in {a, b} /\ \A y \in {a, b} : Max({a, b}) >= y
  BY <1>1 DEF Max
<1>3. QED
  BY <1>2

LEMMA MaxIsIn ==
    ASSUME NEW n \in Nat, NEW s \in SUBSET (0..n), s # {}
    PROVE  Max(s) \in s
<1> DEFINE T == {m \in Nat : \A some \in SUBSET (0..m) :
                    some # {} => \E x \in some : \A y \in some : x >= y}
<1>1. 0 \in T
  <2>1. 0..0 = {0}
    OBVIOUS
  <2>2. ASSUME NEW some \in SUBSET {0}, some # {} PROVE some = {0}
    BY <2>2
  <2>3. QED
    BY <2>1, <2>2
<1>2. ASSUME NEW m \in Nat, m \in T PROVE m + 1 \in T
  <2>1. SUFFICES ASSUME NEW some \in SUBSET (0..(m + 1)), some # {}
                 PROVE  \E x \in some : \A y \in some : x >= y
    OBVIOUS
  <2>2. CASE m + 1 \in some
    BY <2>2
  <2>3. CASE m + 1 \notin some
    <3>1. some \in SUBSET (0..m)
      BY <2>3
    <3>2. QED
      BY <1>2, <2>1, <3>1
  <2>4. QED
    BY <2>2, <2>3
<1>3. n \in T
  <2>. HIDE DEF T
  <2>1. QED
    BY <1>1, <1>2, NatSetInduction
<1>4. PICK x \in s : \A y \in s : x >= y
  BY <1>3
<1>5. QED
  BY <1>4 DEF Max

Stands(rows, row, m) == {j \in 1..m : rows[j] = row}
Count(rows, row, m) == Cardinality(Stands(rows, row, m))

LEMMA CountType ==
    ASSUME NEW rows, NEW row, NEW m \in Nat
    PROVE  IsFiniteSet(Stands(rows, row, m)) /\ Count(rows, row, m) \in 0..m
<1>1. IsFiniteSet(1..m) /\ Cardinality(1..m) = m
  BY FS_Interval
<1>2. Stands(rows, row, m) \in SUBSET (1..m)
  BY DEF Stands
<1>3. IsFiniteSet(Stands(rows, row, m)) /\ Cardinality(Stands(rows, row, m)) <= m
  BY <1>1, <1>2, FS_Subset
<1>4. Cardinality(Stands(rows, row, m)) \in Nat
  BY <1>3, FS_CardinalityType
<1>5. QED
  BY <1>3, <1>4 DEF Count

LEMMA CountNone == ASSUME NEW rows, NEW row PROVE Count(rows, row, 0) = 0
  BY CountType

LEMMA CountOneMore ==
    ASSUME NEW rows, NEW row, NEW m \in Nat
    PROVE  Count(rows, row, m + 1) =
              IF rows[m + 1] = row THEN Count(rows, row, m) + 1 ELSE Count(rows, row, m)
<1>1. CASE rows[m + 1] = row
  <2>1. Stands(rows, row, m + 1) = Stands(rows, row, m) \cup {m + 1}
    BY <1>1 DEF Stands
  <2>2. m + 1 \notin Stands(rows, row, m)
    BY DEF Stands
  <2>3. IsFiniteSet(Stands(rows, row, m))
    BY CountType
  <2>4. Cardinality(Stands(rows, row, m) \cup {m + 1}) = Cardinality(Stands(rows, row, m)) + 1
    BY <2>2, <2>3, FS_AddElement
  <2>5. QED
    BY <1>1, <2>1, <2>4 DEF Count
<1>2. CASE rows[m + 1] # row
  <2>1. Stands(rows, row, m + 1) = Stands(rows, row, m)
    BY <1>2 DEF Stands
  <2>2. QED
    BY <1>2, <2>1 DEF Count
<1>3. QED
  BY <1>1, <1>2

(* The indexes of the copies of a row are the numbers below their count.   *)
LEMMA IndexesRunUp ==
    ASSUME NEW rows, NEW row, NEW m \in Nat, NEW k \in Nat
    PROVE  (\E i \in 1..m : rows[i] = row /\ Count(rows, row, i - 1) = k)
              <=> k < Count(rows, row, m)
<1> DEFINE Met(n) == \E i \in 1..n : rows[i] = row /\ Count(rows, row, i - 1) = k
           T == {n \in Nat : Met(n) <=> k < Count(rows, row, n)}
<1>1. 0 \in T
  BY CountNone
<1>2. ASSUME NEW n \in Nat, n \in T PROVE n + 1 \in T
  <2>1. Met(n + 1) <=> Met(n) \/ (rows[n + 1] = row /\ Count(rows, row, n) = k)
    <3>1. 1..(n + 1) = 1..n \cup {n + 1} /\ (n + 1) - 1 = n
      OBVIOUS
    <3>2. QED
      BY <3>1
  <2>2. Met(n) <=> k < Count(rows, row, n)
    BY <1>2
  <2>3. Count(rows, row, n + 1) =
           IF rows[n + 1] = row THEN Count(rows, row, n) + 1 ELSE Count(rows, row, n)
    BY CountOneMore
  <2>4. Count(rows, row, n) \in Nat
    BY CountType
  <2>. HIDE DEF Met
  <2>5. Met(n + 1) <=> k < Count(rows, row, n + 1)
    BY <2>1, <2>2, <2>3, <2>4
  <2>6. QED
    BY <2>5
<1>3. m \in T
  <2>. HIDE DEF T
  <2>1. QED
    BY <1>1, <1>2, NatSetInduction
<1>4. QED
  BY <1>3

LEMMA TransactionAt ==
    ASSUME NEW rows \in Seq(Rows), NEW i \in 1..Len(rows)
    PROVE  /\ Transactions(rows)[i].id = <<rows[i], Count(rows, rows[i], i - 1)>>
           /\ Transactions(rows)[i].content = rows[i]
<1>1. OccurrenceIndex(rows, i) = Count(rows, rows[i], i - 1)
  BY DEF OccurrenceIndex, Count, Stands
<1>2. QED
  BY <1>1 DEF Transactions, Identifier

LEMMA TransactionsDomain ==
    ASSUME NEW rows \in Seq(Rows)
    PROVE  DOMAIN Transactions(rows) = 1..Len(rows)
  BY DEF Transactions

LEMMA CopiesAreCounted ==
    ASSUME NEW rows \in Seq(Rows), NEW row
    PROVE  Copies(Transactions(rows), row) = Count(rows, row, Len(rows))
<1>1. {i \in DOMAIN Transactions(rows) : Transactions(rows)[i].content = row}
         = Stands(rows, row, Len(rows))
  BY TransactionAt, TransactionsDomain DEF Stands
<1>2. QED
  BY <1>1 DEF Copies, Count

(* The identifiers a batch brings for a row are the first ones, as many as *)
(* it has copies.                                                          *)
LEMMA FirstIdentifiers ==
    ASSUME NEW rows \in Seq(Rows), NEW row, NEW n \in Nat
    PROVE  (\E i \in DOMAIN Transactions(rows) : Transactions(rows)[i].id = <<row, n>>)
              <=> n < Copies(Transactions(rows), row)
<1>1. (\E i \in DOMAIN Transactions(rows) : Transactions(rows)[i].id = <<row, n>>)
         <=> \E i \in 1..Len(rows) : rows[i] = row /\ Count(rows, row, i - 1) = n
  BY TransactionAt, TransactionsDomain
<1>2. Len(rows) \in Nat
  OBVIOUS
<1>3. QED
  BY <1>1, <1>2, IndexesRunUp, CopiesAreCounted
-----------------------------------------------------------------------------
(* What is downloaded *)

(* A cut that leaves a newline at the end leaves whole rows only.          *)
LEMMA CutsKeepRows ==
    ASSUME NEW rows \in Seq(Rows), CutShort(rows).newline
    PROVE  \E k \in 0..Len(rows) : CutShort(rows).rows = SubSeq(rows, 1, k)
<1> DEFINE length == (EndOf(rows, Len(rows)) * 6) \div 10
           ends == {n \in 1..Len(rows) : EndOf(rows, n) <= length}
           kept == Max({0} \cup ends)
           rest == length - EndOf(rows, kept)
           last == IF rest > 0 THEN <<Fragment(rows[kept + 1], rest)>> ELSE <<>>
<1>1. CutShort(rows) = [rows |-> SubSeq(rows, 1, kept) \o last, newline |-> rest = 0]
  BY DEF CutShort
<1>2. kept \in 0..Len(rows)
  <2>1. Len(rows) \in Nat /\ ({0} \cup ends) \in SUBSET (0..Len(rows))
    OBVIOUS
  <2>. HIDE DEF ends
  <2>2. Max({0} \cup ends) \in {0} \cup ends
    BY <2>1, MaxIsIn
  <2>3. QED
    BY <2>1, <2>2
<1>3. PICK left, ended : left = SubSeq(rows, 1, kept) \o last /\ ended = (rest = 0)
  OBVIOUS
<1>4. CutShort(rows) = [rows |-> left, newline |-> ended]
  <2>. HIDE DEF rest, last, kept
  <2>1. QED
    BY <1>3, <1>1
<1>5. CutShort(rows).rows = left /\ CutShort(rows).newline = ended
  BY <1>4
<1>6. rest = 0
  <2>. HIDE DEF rest, last
  <2>1. QED
    BY <1>3, <1>5
<1>7. last = <<>>
  <2>. HIDE DEF rest
  <2>1. QED
    BY <1>6
<1>8. CutShort(rows).rows = SubSeq(rows, 1, kept) \o <<>>
  <2>. HIDE DEF rest, last, kept
  <2>1. QED
    BY <1>3, <1>7, <1>5
<1>9. SubSeq(rows, 1, kept) \in Seq(Rows)
  <2>. HIDE DEF kept
  <2>1. QED
    BY <1>2
<1>10. SubSeq(rows, 1, kept) \o <<>> = SubSeq(rows, 1, kept)
  <2>. HIDE DEF kept
  <2>1. QED
    BY <1>9
<1>11. QED
  BY <1>2, <1>8, <1>10

LEMMA PrefixOfRows ==
    ASSUME NEW rows \in Seq(Rows), NEW k \in 0..Len(rows)
    PROVE  /\ SubSeq(rows, 1, k) \in Seq(Rows)
           /\ Len(SubSeq(rows, 1, k)) <= Len(rows)
           /\ \A i \in DOMAIN SubSeq(rows, 1, k) :
                 i \in DOMAIN rows /\ SubSeq(rows, 1, k)[i] = rows[i]
  OBVIOUS

(* A download that is not known to be cut holds whole rows of the export.  *)
LEMMA UncutRows ==
    ASSUME ExportTypes, ~Truncated(Downloaded)
    PROVE  /\ Downloaded.rows \in Seq(Rows)
           /\ Len(Downloaded.rows) <= MaxRows
           /\ \A i \in DOMAIN Downloaded.rows : \E j \in DOMAIN export : Downloaded.rows[i] = export[j]
<1>1. export \in Seq(Rows) /\ Len(export) <= MaxRows
  BY ExportsAssumption DEF ExportTypes
<1>2. Downloaded.newline
  BY DEF Truncated
<1>3. CASE downloadIndex \in planned
  <2>1. PICK k \in 0..Len(export) : Downloaded.rows = SubSeq(export, 1, k)
    BY <1>1, <1>2, <1>3, CutsKeepRows DEF Downloaded
  <2>2. /\ SubSeq(export, 1, k) \in Seq(Rows)
        /\ Len(SubSeq(export, 1, k)) <= Len(export)
        /\ \A i \in DOMAIN SubSeq(export, 1, k) :
              i \in DOMAIN export /\ SubSeq(export, 1, k)[i] = export[i]
    BY <1>1, PrefixOfRows
  <2>3. QED
    <3>1. PICK prefix : prefix = SubSeq(export, 1, k)
      OBVIOUS
    <3>2. prefix \in Seq(Rows) /\ Len(prefix) <= MaxRows
      BY <1>1, <2>2, <3>1, ExportsAssumption
    <3>3. \A i \in DOMAIN prefix : \E j \in DOMAIN export : prefix[i] = export[j]
      BY <2>2, <3>1
    <3>4. QED
      BY <2>1, <3>1, <3>2, <3>3
<1>4. CASE downloadIndex \notin planned
  BY <1>1, <1>4 DEF Downloaded, Whole, ExportTypes
<1>5. QED
  BY <1>3, <1>4

-----------------------------------------------------------------------------
(* What lands *)

LEMMA BatchIsTyped ==
    ASSUME NEW rows \in Seq(Rows), Len(rows) <= MaxRows
    PROVE  Transactions(rows) \in Store!Batches
<1> DEFINE n == Len(rows)
           made == Transactions(rows)
<1>1. n \in 0..MaxRows
  BY ExportsAssumption
<1>2. ASSUME NEW i \in 1..n
      PROVE  made[i] \in [id : Identifiers, content : Rows]
  <2>1. made[i] = [id |-> <<rows[i], OccurrenceIndex(rows, i)>>, content |-> rows[i]]
    BY DEF Transactions, Identifier
  <2>2. OccurrenceIndex(rows, i) = Count(rows, rows[i], i - 1)
    BY DEF OccurrenceIndex, Count, Stands
  <2>3. Count(rows, rows[i], i - 1) \in 0..(i - 1)
    BY CountType
  <2>4. OccurrenceIndex(rows, i) \in 0..(MaxRows - 1)
    BY <1>1, <2>2, <2>3, ExportsAssumption
  <2>5. rows[i] \in Rows
    OBVIOUS
  <2>6. <<rows[i], OccurrenceIndex(rows, i)>> \in Identifiers
    BY <2>4, <2>5 DEF Identifiers
  <2>7. QED
    BY <2>1, <2>5, <2>6
<1>3. made \in [1..n -> [id : Identifiers, content : Rows]]
  <2>1. made = [i \in 1..n |-> made[i]]
    BY DEF Transactions
  <2>. HIDE DEF made, n
  <2>2. QED
    BY <1>2, <2>1
<1>4. QED
  BY <1>1, <1>3 DEF Store!Batches, Store!Records

LEMMA CopiesAreBounded ==
    ASSUME NEW rows \in Seq(Rows), Len(rows) <= MaxRows, NEW row
    PROVE  Copies(Transactions(rows), row) \in 0..MaxRows
<1>1. Count(rows, row, Len(rows)) \in 0..Len(rows) /\ Len(rows) \in Nat
  BY CountType
<1>2. QED
  BY <1>1, CopiesAreCounted, ExportsAssumption

(* What has landed under an identifier is the row it is derived from.      *)
LEMMA NothingContradicts ==
    ASSUME StoreIsTheBest, NEW rows \in Seq(Rows), Parsed(rows)
    PROVE  Store!Consistent(landed["transactions"], batch)
<1>1. Len(rows) <= MaxRows /\ batch = Transactions(rows)
  BY DEF Parsed
<1>2. ASSUME NEW i \in DOMAIN batch
      PROVE  landed["transactions"][batch[i].id] \in {Absent, batch[i].content}
  <2>1. i \in 1..Len(rows)
    BY <1>1, TransactionsDomain
  <2>2. PICK n : n = Count(rows, rows[i], i - 1)
    OBVIOUS
  <2>3. batch[i].id = <<rows[i], n>> /\ batch[i].content = rows[i]
    BY <1>1, <2>1, <2>2, TransactionAt
  <2>4. n \in 0..(i - 1)
    BY <2>1, <2>2, CountType
  <2>5. n \in 0..(MaxRows - 1) /\ rows[i] \in Rows
    BY <1>1, <2>1, <2>4, ExportsAssumption
  <2>6. QED
    BY <2>3, <2>5 DEF StoreIsTheBest
<1>3. ASSUME NEW i \in DOMAIN batch, NEW j \in DOMAIN batch, batch[i].id = batch[j].id
      PROVE  batch[i].content = batch[j].content
  BY <1>1, <1>3, TransactionsDomain, TransactionAt
<1>4. QED
  BY <1>2, <1>3 DEF Store!Consistent

Better(row) == Max({best[row], Copies(batch, row)})

(* A batch adds the copies of a row that have not landed yet.              *)
LEMMA MergedRows ==
    ASSUME StoreIsTheBest, NEW rows \in Seq(Rows), Parsed(rows),
           NEW row \in Rows, NEW n \in 0..(MaxRows - 1)
    PROVE  Store!Merge(landed["transactions"], batch)[<<row, n>>]
              = IF n < Better(row) THEN row ELSE Absent
<1> DEFINE k == <<row, n>>
           table == landed["transactions"]
           There == \E i \in DOMAIN batch : batch[i].id = k
<1>1. Len(rows) <= MaxRows /\ batch = Transactions(rows)
  BY DEF Parsed
<1>2. There <=> n < Copies(batch, row)
  BY <1>1, FirstIdentifiers
<1>3. best[row] \in 0..MaxRows /\ Copies(batch, row) \in 0..MaxRows
  BY <1>1, CopiesAreBounded DEF StoreIsTheBest
<1>4. Better(row) = IF best[row] < Copies(batch, row) THEN Copies(batch, row) ELSE best[row]
  BY <1>3, MaxOfTwo, ExportsAssumption DEF Better
<1>5. k \in Identifiers
  BY DEF Identifiers
<1>6. table[k] = IF n < best[row] THEN row ELSE Absent
  BY DEF StoreIsTheBest
<1>7. k \in Store!NewIds(table, batch) <=> table[k] = Absent /\ There
  BY <1>5 DEF Store!NewIds
<1>8. There => batch[CHOOSE i \in DOMAIN batch : batch[i].id = k].content = row
  <2>1. SUFFICES ASSUME There
                 PROVE  batch[CHOOSE i \in DOMAIN batch : batch[i].id = k].content = row
    OBVIOUS
  <2>2. PICK i : i = CHOOSE j \in DOMAIN batch : batch[j].id = k
    OBVIOUS
  <2>3. i \in DOMAIN batch /\ batch[i].id = <<row, n>>
    BY <2>1, <2>2
  <2>4. batch[i].content = row
    BY <1>1, <2>3, TransactionAt, TransactionsDomain
  <2>5. QED
    BY <2>2, <2>4
<1>9. Store!Merge(table, batch)[k] =
         IF k \in Store!NewIds(table, batch)
         THEN batch[CHOOSE i \in DOMAIN batch : batch[i].id = k].content
         ELSE table[k]
  BY <1>5 DEF Store!Merge
<1>10. row # Absent
  BY RowsAssumption
<1>11. QED
  <2>. HIDE DEF There, table, k
  <2>1. Store!Merge(table, batch)[k] = IF table[k] = Absent /\ There THEN row ELSE table[k]
    BY <1>7, <1>8, <1>9
  <2>2. n \in Nat /\ best[row] \in Nat /\ Copies(batch, row) \in Nat
    BY <1>3, ExportsAssumption
  <2>3. n < Better(row) <=> n < best[row] \/ There
    BY <1>2, <1>4, <2>2
  <2>4. Store!Merge(table, batch)[k] = IF n < Better(row) THEN row ELSE Absent
    BY <1>6, <1>10, <2>1, <2>3
  <2>5. QED
    BY <2>4 DEF table, k
-----------------------------------------------------------------------------
(* Every step keeps the invariant. *)

RunInv == PhaseTypes /\ Downloads /\ ExportTypes

LEMMA InitInv == Init => IInv
<1> SUFFICES ASSUME Init PROVE IInv
  OBVIOUS
<1>1. PhaseTypes /\ Downloads /\ ExportTypes /\ phase # "conflict"
  BY AttemptsAssumption DEF Init, PhaseTypes, Downloads, ExportTypes
<1>2. Offered
  BY DEF Init, Offered, Store!Init
<1>3. best \in [Rows -> 0..MaxRows]
  BY ExportsAssumption DEF Init
<1>4. landed = [t \in Store!Tables |-> [k \in Identifiers |-> Absent]]
  BY DEF Init, Store!Init, Store!EmptyTables
<1>5. landed \in [Store!Tables -> [Identifiers -> Rows \cup {Absent}]]
  BY <1>4
<1>6. ASSUME NEW row \in Rows, NEW n \in 0..(MaxRows - 1)
      PROVE  landed["transactions"][<<row, n>>] = IF n < best[row] THEN row ELSE Absent
  <2>1. <<row, n>> \in Identifiers /\ "transactions" \in Store!Tables
    BY DEF Identifiers, Store!Tables
  <2>2. best[row] = 0 /\ ~(n < 0)
    BY ExportsAssumption DEF Init
  <2>3. QED
    BY <1>4, <2>1, <2>2
<1>7. QED
  BY <1>1, <1>2, <1>3, <1>5, <1>6 DEF IInv, StoreIsTheBest

(* A step that leaves the store, the history and what has been made of the *)
(* export alone keeps what is said of them.                                *)
LEMMA StoreStands ==
    ASSUME IInv, UNCHANGED <<storeVars, best>>,
           \/ UNCHANGED <<phase, batch>>
           \/ phase \notin {"parsed", "inserting"} /\ phase' \notin {"parsed", "inserting"}
    PROVE  Offered' /\ StoreIsTheBest'
<1>1. StoreIsTheBest'
  BY DEF IInv, StoreIsTheBest, storeVars, Store!Tables, Identifiers
<1>2. CASE UNCHANGED <<phase, batch>>
  BY <1>1, <1>2 DEF IInv, Offered, storeVars, Parsed, Transactions, Store!NoCall
<1>3. CASE phase \notin {"parsed", "inserting"} /\ phase' \notin {"parsed", "inserting"}
  BY <1>1, <1>3 DEF IInv, Offered, storeVars, Store!NoCall
<1>4. QED
  BY <1>1, <1>2, <1>3

LEMMA BankKeepsInv ==
    ASSUME IInv,
           \/ \E rows \in Exports : Publish(rows)
           \/ \E account \in LateAccounts : OpenAccount(account)
           \/ ChangeHeader
    PROVE  IInv'
<1>1. RunInv' /\ phase' # "conflict" /\ UNCHANGED <<storeVars, best, phase, batch>>
  <2>1. CASE \E rows \in Exports : Publish(rows)
    BY <2>1 DEF IInv, RunInv, PhaseTypes, Downloads, ExportTypes, Publish, runVars, Over
  <2>2. CASE \E account \in LateAccounts : OpenAccount(account)
    BY <2>2 DEF IInv, RunInv, PhaseTypes, Downloads, ExportTypes, OpenAccount, runVars, Over
  <2>3. CASE ChangeHeader
    BY <2>3 DEF IInv, RunInv, PhaseTypes, Downloads, ExportTypes, ChangeHeader, runVars, Over
  <2>4. QED
    BY <2>1, <2>2, <2>3
<1>2. QED
  BY <1>1, StoreStands DEF IInv, RunInv

LEMMA ReadingKeepsInv ==
    ASSUME IInv, RaiseAccounts \/ ReadAccounts \/ Retry \/ GiveUp \/ Raise \/ \E plan \in Plans : Rerun(plan)
    PROVE  IInv'
<1>1. /\ RunInv' /\ phase' # "conflict" /\ UNCHANGED <<storeVars, best>>
      /\ phase \notin {"parsed", "inserting"} /\ phase' \notin {"parsed", "inserting"}
  <2>1. CASE ReadAccounts
    BY <2>1 DEF IInv, RunInv, PhaseTypes, Downloads, ExportTypes, ReadAccounts, bankVars, Over
  <2>2. CASE Retry
    BY <2>2, AttemptsAssumption
       DEF IInv, RunInv, PhaseTypes, Downloads, ExportTypes, Retry, Download, bankVars, Over
  <2>3. CASE GiveUp
    BY <2>3, AttemptsAssumption
       DEF IInv, RunInv, PhaseTypes, Downloads, ExportTypes, GiveUp, Download, bankVars, Over
  <2>4. CASE Raise
    BY <2>4, AttemptsAssumption
       DEF IInv, RunInv, PhaseTypes, Downloads, ExportTypes, Raise, Download, bankVars, Over
  <2>5. CASE \E plan \in Plans : Rerun(plan)
    BY <2>5, AttemptsAssumption
       DEF IInv, RunInv, PhaseTypes, Downloads, ExportTypes, Rerun, bankVars, Over
  <2>6. CASE RaiseAccounts
    BY <2>6 DEF IInv, RunInv, PhaseTypes, Downloads, ExportTypes, RaiseAccounts, bankVars, Over
  <2>7. QED
    BY <2>1, <2>2, <2>3, <2>4, <2>5, <2>6
<1>2. QED
  BY <1>1, StoreStands DEF IInv, RunInv

LEMMA ParseKeepsInv == ASSUME IInv, Parse PROVE IInv'
<1>1. RunInv' /\ phase' = "parsed" /\ UNCHANGED <<storeVars, best>>
  BY AttemptsAssumption
     DEF IInv, RunInv, PhaseTypes, Downloads, ExportTypes, Parse, Download, bankVars, Over
<1>2. PICK rows \in Seq(Rows) : Len(rows) <= MaxRows /\ batch' = Transactions(rows)
  BY UncutRows DEF IInv, Parse
<1>3. Parsed(rows)'
  BY <1>2 DEF Parsed, Transactions
<1>4. phase = "export"
  BY DEF Parse, Download
<1>5. Offered'
  BY <1>1, <1>3, <1>4 DEF IInv, Offered, storeVars, Store!NoCall
<1>6. StoreIsTheBest'
  BY <1>1 DEF IInv, StoreIsTheBest, storeVars, Store!Tables, Identifiers
<1>7. QED
  BY <1>1, <1>5, <1>6 DEF IInv, RunInv

LEMMA InsertKeepsInv == ASSUME IInv, Insert PROVE IInv'
<1>1. RunInv' /\ phase' = "inserting"
  BY DEF IInv, RunInv, PhaseTypes, Downloads, ExportTypes, Insert, bankVars, Over
<1>2. StoreIsTheBest'
  BY DEF IInv, StoreIsTheBest, Insert, Store!Submit, Store!Tables, Identifiers
<1>3. Offered'
  <2>1. phase = "parsed" /\ UNCHANGED batch
    BY DEF Insert
  <2>2. PICK rows \in Seq(Rows) : Parsed(rows)
    BY <2>1 DEF IInv, Offered
  <2>3. Parsed(rows)'
    BY <2>1, <2>2 DEF Parsed, Transactions
  <2>4. pending' = [table |-> "transactions", batch |-> batch']
    BY DEF Insert, Store!Submit
  <2>5. QED
    BY <1>1, <2>3, <2>4 DEF Offered
<1>4. QED
  BY <1>1, <1>2, <1>3 DEF IInv, RunInv
(* What lands is always accepted, and raises the best to the batch's copies. *)
LEMMA LandAccepts ==
    ASSUME IInv, Land
    PROVE  /\ \E rows \in Seq(Rows) : Parsed(rows)
           /\ pending = [table |-> "transactions", batch |-> batch]
           /\ Store!Accept
           /\ phase' = "done"
           /\ best' = [row \in Rows |-> Better(row)]
<1>1. phase = "inserting"
  BY DEF Land
<1>2. PICK rows \in Seq(Rows) : Parsed(rows)
  BY <1>1 DEF IInv, Offered
<1>3. Store!Consistent(landed["transactions"], batch)
  BY <1>2, NothingContradicts DEF IInv
<1>4. QED
  BY <1>1, <1>2, <1>3 DEF Land, Better, IInv, Offered

LEMMA LandKeepsInv == ASSUME IInv, Land PROVE IInv'
<1>1. RunInv' /\ phase' = "done"
  BY LandAccepts DEF IInv, RunInv, PhaseTypes, Downloads, ExportTypes, Land, bankVars, Over
<1>2. Offered'
  BY <1>1, LandAccepts DEF Offered, Store!Accept, Store!NoCall
<1>3. PICK rows \in Seq(Rows) : Parsed(rows)
  BY LandAccepts
<1>4. PICK table : table = Store!Merge(landed["transactions"], batch)
  OBVIOUS
<1>5. landed' = [landed EXCEPT !["transactions"] = table]
  <2>1. pending.table = "transactions" /\ pending.batch = batch
    BY LandAccepts
  <2>2. QED
    BY <1>4, <2>1, LandAccepts DEF Store!Accept
<1>6. landed \in [Store!Tables -> [Identifiers -> Rows \cup {Absent}]]
  BY DEF IInv, StoreIsTheBest
<1>7. \A row \in Rows, n \in 0..(MaxRows - 1) :
         table[<<row, n>>] = IF n < Better(row) THEN row ELSE Absent
  BY <1>3, <1>4, MergedRows DEF IInv
<1>8. table \in [Identifiers -> Rows \cup {Absent}]
  <2>1. table = [k \in Identifiers |-> table[k]]
    BY <1>4 DEF Store!Merge
  <2>2. \A k \in Identifiers : table[k] \in Rows \cup {Absent}
    BY <1>7 DEF Identifiers
  <2>3. QED
    BY <2>1, <2>2
<1>9. landed'["transactions"] = table
  BY <1>5, <1>6 DEF Store!Tables
<1>10. landed' \in [Store!Tables -> [Identifiers -> Rows \cup {Absent}]]
  BY <1>5, <1>6, <1>8 DEF Store!Tables
<1>11. \A row \in Rows : Better(row) \in 0..MaxRows
  <2>1. ASSUME NEW row \in Rows PROVE Better(row) \in 0..MaxRows
    <3>1. best[row] \in 0..MaxRows
      BY DEF IInv, StoreIsTheBest
    <3>2. Copies(batch, row) \in 0..MaxRows
      BY <1>3, CopiesAreBounded DEF Parsed
    <3>3. QED
      BY <3>1, <3>2, MaxOfTwo, ExportsAssumption DEF Better
  <2>2. QED
    BY <2>1
<1>12. best' = [row \in Rows |-> Better(row)]
  BY LandAccepts
<1>13. best' \in [Rows -> 0..MaxRows]
  BY <1>11, <1>12
<1>14. \A row \in Rows, n \in 0..(MaxRows - 1) :
          landed'["transactions"][<<row, n>>] = IF n < best'[row] THEN row ELSE Absent
  BY <1>7, <1>9, <1>12
<1>15. StoreIsTheBest'
  BY <1>10, <1>13, <1>14 DEF StoreIsTheBest, Store!Tables, Identifiers
<1>16. QED
  BY <1>1, <1>2, <1>15 DEF IInv, RunInv

LEMMA StepInv == ASSUME IInv, Next PROVE IInv'
  BY BankKeepsInv, ReadingKeepsInv, ParseKeepsInv, InsertKeepsInv, LandKeepsInv
     DEF Next, RunStep

LEMMA StutterInv == ASSUME IInv, UNCHANGED vars PROVE IInv'
<1>1. UNCHANGED <<bankVars, planned, downloadIndex, phase, known, attempt, batch, storeVars, best>>
  BY DEF vars, runVars
<1>2. RunInv' /\ phase' # "conflict"
  BY <1>1 DEF IInv, RunInv, PhaseTypes, Downloads, ExportTypes, bankVars, Over
<1>3. QED
  BY <1>1, <1>2, StoreStands DEF IInv, RunInv

LEMMA Inv == Spec => []IInv
<1>1. IInv /\ [Next]_vars => IInv'
  BY StepInv, StutterInv
<1>2. QED
  BY <1>1, InitInv, PTL DEF Spec

-----------------------------------------------------------------------------

(* Every variable has its type, a run downloads the export at most         *)
(* MaxAttempts times, and the store has a call exactly while one is served. *)
THEOREM RunTypes == Spec => []TypeOK
<1>1. IInv => TypeOK
  <2> SUFFICES ASSUME IInv PROVE TypeOK
    OBVIOUS
  <2>1. downloadIndex \in 0..MaxAttempts /\ attempt \in 1..MaxAttempts
    BY AttemptsAssumption DEF IInv, Downloads
  <2>2. pending # Store!NoCall <=> phase = "inserting"
    BY DEF IInv, Offered, Store!NoCall
  <2>3. \A k \in Identifiers : landed["transactions"][k] \in Rows \cup {Absent}
    BY DEF IInv, StoreIsTheBest, Store!Tables
  <2>4. QED
    BY <2>1, <2>2, <2>3 DEF TypeOK, IInv, PhaseTypes, ExportTypes
<1>2. QED
  BY <1>1, Inv, PTL

(* Derived identifiers do their work: each row has landed exactly as many  *)
(* times as the fullest export that was taken in held it, and no export    *)
(* contradicts what has landed (adapters/taktwerk.py, ADR-0001).           *)
THEOREM NothingDoubledNothingLost == Spec => []LandedIsTheMostEverSeen
<1>1. IInv => LandedIsTheMostEverSeen
  <2> SUFFICES ASSUME IInv, NEW row \in Rows
               PROVE  {k \in Identifiers : landed["transactions"][k] = row}
                         = {row} \X (0..best[row] - 1)
    BY DEF LandedIsTheMostEverSeen, IInv
  <2>1. best[row] \in 0..MaxRows /\ Absent # row /\ MaxRows \in Nat
    BY RowsAssumption, ExportsAssumption DEF IInv, StoreIsTheBest
  <2>2. ASSUME NEW k \in Identifiers
        PROVE  landed["transactions"][k] = row <=> k \in {row} \X (0..best[row] - 1)
    <3>1. PICK some \in Rows, n \in 0..(MaxRows - 1) : k = <<some, n>>
      BY DEF Identifiers
    <3>2. landed["transactions"][k] = IF n < best[some] THEN some ELSE Absent
      BY <3>1 DEF IInv, StoreIsTheBest
    <3>3. landed["transactions"][k] = row <=> some = row /\ n < best[row]
      BY <2>1, <3>2
    <3>4. QED
      BY <2>1, <3>1, <3>3
  <2>3. {row} \X (0..best[row] - 1) \subseteq Identifiers
    BY <2>1 DEF Identifiers
  <2>4. QED
    BY <2>2, <2>3
<1>2. QED
  BY <1>1, Inv, PTL

(* A lost connection is never taken for a defect: what is left of a cut    *)
(* file is refused, or holds whole rows of the bank's own, so that what a  *)
(* run raises over stands in what the bank has published                   *)
(* (_read_csv_rows, _map_transaction_row).                                 *)
THEOREM CutsAreNoDefects == Spec => CutsNeverRaise
<1> DEFINE Published ==
              IF phase = "accounts"
              THEN ~MapsAccounts
              ELSE ~header \/ \E i \in DOMAIN export : Rejected(export[i])
           Excused == phase' = "raised" /\ phase # "raised" => Published
<1>1. IInv /\ [Next]_vars => [Excused]_vars
  <2> SUFFICES ASSUME IInv, Next, phase' = "raised", phase # "raised"
               PROVE  Published
    OBVIOUS
  <2>1. Raise \/ RaiseAccounts
    BY DEF Next, RunStep, ReadAccounts, Retry, GiveUp, Parse, Insert, Land, Rerun, Publish,
           OpenAccount, ChangeHeader, runVars, Download
  <2>2. CASE RaiseAccounts
    BY <2>2 DEF RaiseAccounts
  <2>3. CASE Raise
    <3>1. phase = "export" /\ ~Truncated(Downloaded)
      BY <2>3 DEF Raise, Download, Unreadable
    <3>2. ~header \/ \E i \in DOMAIN Downloaded.rows : Rejected(Downloaded.rows[i])
      BY <2>3 DEF Raise, Unreadable
    <3>3. \A i \in DOMAIN Downloaded.rows : \E j \in DOMAIN export : Downloaded.rows[i] = export[j]
      BY <3>1, UncutRows DEF IInv
    <3>4. QED
      BY <3>1, <3>2, <3>3
  <2>4. QED
    BY <2>1, <2>2, <2>3
<1>2. QED
  BY <1>1, Inv, PTL DEF Spec, CutsNeverRaise

(* The run uses the landing store as AtomicLanding allows: only the batch  *)
(* of a whole file is submitted, once, and is always accepted.  With       *)
(* StoreImplementsPromise the row by row code may take the store's place.  *)
THEOREM RunsKeepThePromise == Spec => Store!Spec
<1>1. Init => Store!Init
  BY DEF Init
<1>2. IInv /\ [Next]_vars => [Store!Next]_(Store!vars)
  <2> SUFFICES ASSUME IInv, [Next]_vars
               PROVE  Store!Next \/ UNCHANGED storeVars
    BY DEF Store!vars, storeVars
  <2>1. CASE Insert
    <3>1. PICK rows \in Seq(Rows) : Parsed(rows)
      BY <2>1 DEF IInv, Offered, Insert
    <3>2. batch \in Store!Batches
      BY <3>1, BatchIsTyped DEF Parsed
    <3>3. Store!Submit("transactions", batch) /\ "transactions" \in Store!Tables
      BY <2>1 DEF Insert, Store!Tables
    <3>4. QED
      BY <3>2, <3>3 DEF Store!Next
  <2>2. CASE Land
    BY <2>2, LandAccepts DEF Store!Next
  <2>3. CASE RaiseAccounts \/ ReadAccounts \/ Retry \/ GiveUp \/ Raise \/ Parse
    BY <2>3 DEF RaiseAccounts, ReadAccounts, Retry, GiveUp, Raise, Parse, Download, storeVars
  <2>4. CASE \E plan \in Plans : Rerun(plan)
    BY <2>4 DEF Rerun, storeVars
  <2>5. CASE \/ \E rows \in Exports : Publish(rows)
             \/ \E account \in LateAccounts : OpenAccount(account)
             \/ ChangeHeader
    BY <2>5 DEF Publish, OpenAccount, ChangeHeader, storeVars
  <2>6. CASE UNCHANGED vars
    BY <2>6 DEF vars, storeVars
  <2>7. QED
    BY <2>1, <2>2, <2>3, <2>4, <2>5, <2>6 DEF Next, RunStep
<1>3. QED
  BY <1>1, <1>2, Inv, PTL DEF Spec, Store!Spec
=============================================================================
