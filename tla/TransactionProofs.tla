--------------------------- MODULE TransactionProofs ---------------------------
(***************************************************************************)
(* Proofs about transactions.  Their identifiers (CanonicalModels), for    *)
(* strings of any length over any characters: because control characters   *)
(* are refused, what is joined by a separator can be taken apart again, so *)
(* that keys are keys.  The rules, the rows they have categorized and the  *)
(* mart over them (SpendMart), for any rules, texts, transactions and      *)
(* numbers of releases: a category that has landed is the one the deployed *)
(* rules give, and the mart adds up just what runs that succeeded were     *)
(* offered.                                                                *)
(***************************************************************************)
EXTENDS SpendMart, CanonicalModels, FiniteSetTheorems, SequenceTheorems, WellFoundedInduction, TLAPS

(* Induction, for a property given as the set of the numbers that have it. *)
LEMMA NatSetInduction ==
    ASSUME NEW T, 0 \in T, \A n \in Nat : n \in T => n + 1 \in T
    PROVE  \A n \in Nat : n \in T
<1> DEFINE R == OpToRel(<, Nat)
           Bad == {n \in Nat : n \notin T}
<1>1. SUFFICES ASSUME Bad # {} PROVE FALSE
  OBVIOUS
<1>2. \E m \in Bad : \A n \in Bad : <<n, m>> \notin R
  <2>1. IsWellFoundedOn(R, Nat) /\ Bad \subseteq Nat
    BY NatLessThanWellFounded
  <2>. HIDE DEF R, Bad
  <2>2. QED
    BY <1>1, <2>1, WFMin
<1>3. PICK m \in Bad : \A n \in Bad : <<n, m>> \notin R
  BY <1>2
<1>4. m \in Nat /\ m \notin T /\ m # 0
  OBVIOUS
<1>5. m - 1 \in Bad
  BY <1>4
<1>6. <<m - 1, m>> \in R
  <2>1. <<m - 1, m>> \in Nat \X Nat /\ m - 1 < m
    BY <1>4
  <2>2. QED
    BY <2>1 DEF OpToRel
<1>7. QED
  BY <1>3, <1>5, <1>6

LEMMA OneLess ==
    ASSUME NEW s, IsFiniteSet(s), NEW x \in s, NEW n \in Nat, Cardinality(s) = n + 1
    PROVE  IsFiniteSet(s \ {x}) /\ Cardinality(s \ {x}) = n
<1>1. Cardinality(s \ {x}) = Cardinality(s) - 1 /\ IsFiniteSet(s \ {x})
  BY FS_RemoveElement
<1>2. QED
  BY <1>1

LEMMA SetInduction ==
    ASSUME NEW S, IsFiniteSet(S), NEW T, {} \in T,
           \A s \in SUBSET S : \A x \in S \ s : s \in T => s \cup {x} \in T
    PROVE  S \in T
<1> DEFINE N == {n \in Nat : \A s \in SUBSET S : Cardinality(s) = n => s \in T}
<1>0. \A s \in SUBSET S : IsFiniteSet(s) /\ Cardinality(s) \in Nat
  BY FS_Subset, FS_CardinalityType
<1>1. 0 \in N
  BY <1>0, FS_EmptySet
<1>2. ASSUME NEW n \in Nat, n \in N PROVE n + 1 \in N
  <2>1. SUFFICES ASSUME NEW s \in SUBSET S, Cardinality(s) = n + 1 PROVE s \in T
    OBVIOUS
  <2>2. PICK x \in s : TRUE
    BY <2>1, <1>0, FS_EmptySet
  <2>3. Cardinality(s \ {x}) = n
    BY <1>0, <2>1, <2>2, OneLess
  <2>4. s \ {x} \in SUBSET S /\ s \ {x} \in T
    BY <1>2, <2>3
  <2>5. (s \ {x}) \cup {x} = s
    BY <2>2
  <2>6. (s \ {x}) \cup {x} \in T
    BY <2>2, <2>4
  <2>7. QED
    BY <2>5, <2>6
<1>3. Cardinality(S) \in N
  <2>. HIDE DEF N
  <2>1. QED
    BY <1>0, <1>1, <1>2, NatSetInduction
<1>4. QED
  BY <1>3

-----------------------------------------------------------------------------
(* Identifiers *)

(* What stands before the first separator, and what stands after it, can   *)
(* be read off the join.                                                   *)
LEMMA JoinComesApart ==
    ASSUME NEW S, Separator \in S,
           NEW x \in Seq(S), NEW y \in Seq(S), NEW rest \in Seq(S), NEW more \in Seq(S),
           Clean(x), Clean(y),
           x \o <<Separator>> \o rest = y \o <<Separator>> \o more
    PROVE  x = y /\ rest = more
<1> DEFINE text == x \o <<Separator>> \o rest
           same == y \o <<Separator>> \o more
<1>1. /\ Len(text) = Len(x) + 1 + Len(rest)
      /\ \A i \in 1..Len(x) : text[i] = x[i]
      /\ text[Len(x) + 1] = Separator
      /\ \A i \in 1..Len(rest) : text[Len(x) + 1 + i] = rest[i]
  OBVIOUS
<1>2. /\ Len(same) = Len(y) + 1 + Len(more)
      /\ \A i \in 1..Len(y) : same[i] = y[i]
      /\ same[Len(y) + 1] = Separator
      /\ \A i \in 1..Len(more) : same[Len(y) + 1 + i] = more[i]
  OBVIOUS
<1>3. text = same
  OBVIOUS
<1>. HIDE DEF text, same
<1>4. Len(x) \in Nat /\ Len(y) \in Nat /\ Len(rest) \in Nat /\ Len(more) \in Nat
  OBVIOUS
<1>5. \A i \in 1..Len(x) : x[i] # Separator
  BY SeparatorAssumption DEF Clean
<1>6. \A i \in 1..Len(y) : y[i] # Separator
  BY SeparatorAssumption DEF Clean
<1>7. Len(x) = Len(y)
  <2>1. ~(Len(x) < Len(y))
    <3>1. SUFFICES ASSUME Len(x) < Len(y) PROVE FALSE
      OBVIOUS
    <3>2. Len(x) + 1 \in 1..Len(y)
      BY <1>4, <3>1
    <3>3. QED
      BY <1>1, <1>2, <1>3, <1>6, <3>2
  <2>2. ~(Len(y) < Len(x))
    <3>1. SUFFICES ASSUME Len(y) < Len(x) PROVE FALSE
      OBVIOUS
    <3>2. Len(y) + 1 \in 1..Len(x)
      BY <1>4, <3>1
    <3>3. QED
      BY <1>1, <1>2, <1>3, <1>5, <3>2
  <2>3. QED
    BY <1>4, <2>1, <2>2
<1>8. x = y
  <2>1. \A i \in 1..Len(x) : x[i] = y[i]
    BY <1>1, <1>2, <1>3, <1>7
  <2>2. QED
    BY <1>7, <2>1, SeqEqual
<1>9. rest = more
  <2>1. Len(rest) = Len(more)
    BY <1>1, <1>2, <1>3, <1>4, <1>7
  <2>2. \A i \in 1..Len(rest) : rest[i] = more[i]
    BY <1>1, <1>2, <1>3, <1>7, <2>1
  <2>3. QED
    BY <2>1, <2>2, SeqEqual
<1>10. QED
  BY <1>8, <1>9

(* ... and so can what stands before the last, and after it. *)
LEMMA LastComesApart ==
    ASSUME NEW S, Separator \in S,
           NEW x \in Seq(S), NEW y \in Seq(S), NEW front \in Seq(S), NEW most \in Seq(S),
           Clean(x), Clean(y),
           front \o <<Separator>> \o x = most \o <<Separator>> \o y
    PROVE  x = y /\ front = most
<1> DEFINE text == front \o <<Separator>> \o x
           same == most \o <<Separator>> \o y
<1>1. /\ Len(text) = Len(front) + 1 + Len(x)
      /\ \A i \in 1..Len(front) : text[i] = front[i]
      /\ text[Len(front) + 1] = Separator
      /\ \A i \in 1..Len(x) : text[Len(front) + 1 + i] = x[i]
  OBVIOUS
<1>2. /\ Len(same) = Len(most) + 1 + Len(y)
      /\ \A i \in 1..Len(most) : same[i] = most[i]
      /\ same[Len(most) + 1] = Separator
      /\ \A i \in 1..Len(y) : same[Len(most) + 1 + i] = y[i]
  OBVIOUS
<1>3. text = same
  OBVIOUS
<1>. HIDE DEF text, same
<1>4. Len(x) \in Nat /\ Len(y) \in Nat /\ Len(front) \in Nat /\ Len(most) \in Nat
  OBVIOUS
<1>5. (\A i \in 1..Len(x) : x[i] # Separator) /\ (\A i \in 1..Len(y) : y[i] # Separator)
  BY SeparatorAssumption DEF Clean
<1>6. Len(front) = Len(most)
  <2>1. ~(Len(front) < Len(most))
    <3>1. SUFFICES ASSUME Len(front) < Len(most) PROVE FALSE
      OBVIOUS
    <3>2. PICK i : i = Len(most) - Len(front)
      OBVIOUS
    <3>3. i \in 1..Len(x) /\ Len(most) + 1 = Len(front) + 1 + i
      BY <1>1, <1>2, <1>3, <1>4, <3>1, <3>2
    <3>4. QED
      BY <1>1, <1>2, <1>3, <1>5, <3>3
  <2>2. ~(Len(most) < Len(front))
    <3>1. SUFFICES ASSUME Len(most) < Len(front) PROVE FALSE
      OBVIOUS
    <3>2. PICK i : i = Len(front) - Len(most)
      OBVIOUS
    <3>3. i \in 1..Len(y) /\ Len(front) + 1 = Len(most) + 1 + i
      BY <1>1, <1>2, <1>3, <1>4, <3>1, <3>2
    <3>4. same[Len(front) + 1] = y[i]
      BY <1>2, <3>3
    <3>5. QED
      BY <1>1, <1>3, <1>5, <3>3, <3>4
  <2>3. QED
    BY <1>4, <2>1, <2>2
<1>7. Len(x) = Len(y)
  BY <1>1, <1>2, <1>3, <1>4, <1>6
<1>8. \A i \in 1..Len(x) : x[i] = y[i]
  BY <1>1, <1>2, <1>3, <1>6, <1>7
<1>9. \A i \in 1..Len(front) : front[i] = most[i]
  BY <1>1, <1>2, <1>3, <1>6
<1>10. QED
  BY <1>6, <1>7, <1>8, <1>9, SeqEqual

(* A join that holds a separator is of more than one column. *)
LEMMA SeparatedIsNotClean ==
    ASSUME NEW S, Separator \in S, NEW front \in Seq(S), NEW x \in Seq(S)
    PROVE  ~Clean(front \o <<Separator>> \o x)
<1> DEFINE text == front \o <<Separator>> \o x
<1>1. Len(front) + 1 \in DOMAIN text /\ text[Len(front) + 1] = Separator
  OBVIOUS
<1>. HIDE DEF text
<1>2. QED
  BY <1>1, SeparatorAssumption DEF Clean, text

(* What identifiers are made of, those derived from content included *)
Symbols ==
    Characters \cup {Separator, Content, Colon}
    \cup {Digest(Joined(columns)) : columns \in Rows}
    \cup {[decimal |-> index] : index \in 0..MaxIndex}

IsJoin(join, columns, n) ==
    join = [k \in 1..n |-> IF k = 1 THEN columns[1] ELSE Beside(join[k - 1], columns[k])]

LEMMA JoinExists ==
    ASSUME NEW columns \in Seq(Seq(Characters))
    PROVE  IsJoin(Join(columns), columns, Len(columns))
<1> DEFINE T == {n \in Nat : \E join : IsJoin(join, columns, n)}
<1>1. 0 \in T
  <2>1. IsJoin([k \in 1..0 |-> 0], columns, 0)
    BY DEF IsJoin
  <2>2. QED
    BY <2>1
<1>2. ASSUME NEW n \in Nat, n \in T PROVE n + 1 \in T
  <2>1. PICK join : IsJoin(join, columns, n)
    BY <1>2
  <2> DEFINE Step(k) == IF k = 1 THEN columns[1] ELSE Beside(join[k - 1], columns[k])
             more == [k \in 1..(n + 1) |-> Step(k)]
  <2>2. \A k \in 1..n : more[k] = join[k]
    BY <2>1 DEF IsJoin
  <2>3. \A k \in 1..(n + 1) : k # 1 => more[k - 1] = join[k - 1]
    <3>1. \A k \in 1..(n + 1) : k # 1 => k - 1 \in 1..n
      OBVIOUS
    <3>. HIDE DEF more
    <3>2. QED
      BY <2>2, <3>1
  <2>4. \A k \in 1..(n + 1) : more[k] = IF k = 1 THEN columns[1] ELSE Beside(more[k - 1], columns[k])
    <3>1. TAKE k \in 1..(n + 1)
    <3>2. more[k] = Step(k)
      OBVIOUS
    <3>. HIDE DEF more
    <3>3. QED
      BY <2>3, <3>2
  <2>5. more = [k \in 1..(n + 1) |-> more[k]]
    OBVIOUS
  <2>. HIDE DEF more
  <2>6. IsJoin(more, columns, n + 1)
    BY <2>4, <2>5 DEF IsJoin
  <2>7. QED
    BY <2>6
<1>3. \A n \in Nat : n \in T
  <2>. HIDE DEF T
  <2>1. QED
    BY <1>1, <1>2, NatSetInduction
<1>4. \E join : IsJoin(join, columns, Len(columns))
  BY <1>3
<1>5. Join(columns) = CHOOSE join : IsJoin(join, columns, Len(columns))
  BY DEF Join, IsJoin
<1>6. QED
  BY <1>4, <1>5

LEMMA BesideType ==
    ASSUME NEW text \in Seq(Symbols), NEW column \in Seq(Symbols)
    PROVE  Beside(text, column) \in Seq(Symbols) /\ ~Clean(Beside(text, column))
<1>1. Separator \in Symbols
  BY DEF Symbols
<1>2. QED
  BY <1>1, SeparatedIsNotClean DEF Beside

LEMMA JoinStep ==
    ASSUME NEW columns \in Seq(Seq(Characters)), columns # <<>>
    PROVE  /\ Join(columns)[1] = columns[1]
           /\ \A k \in 1..Len(columns) : k # 1 =>
                 /\ Join(columns)[k] = Beside(Join(columns)[k - 1], columns[k])
                 /\ Join(columns)[k - 1] \in Seq(Symbols)
<1> DEFINE join == Join(columns)
           T == {n \in Nat : n \in 1..Len(columns) => join[n] \in Seq(Symbols)}
<1>0. Len(columns) \in Nat \ {0} /\ \A k \in 1..Len(columns) : columns[k] \in Seq(Symbols)
  BY DEF Symbols
<1>1. \A k \in 1..Len(columns) : join[k] = IF k = 1 THEN columns[1] ELSE Beside(join[k - 1], columns[k])
  BY JoinExists DEF IsJoin
<1>. HIDE DEF join
<1>2. join[1] = columns[1]
  BY <1>0, <1>1
<1>3. \A k \in 1..Len(columns) : k # 1 => join[k] = Beside(join[k - 1], columns[k])
  BY <1>1
<1>4. 0 \in T
  OBVIOUS
<1>5. ASSUME NEW n \in Nat, n \in T PROVE n + 1 \in T
  <2>1. SUFFICES ASSUME NEW k \in 1..Len(columns), k = n + 1 PROVE join[k] \in Seq(Symbols)
    OBVIOUS
  <2>2. CASE k = 1
    BY <1>0, <1>2, <2>2
  <2>3. CASE k # 1
    <3>1. k - 1 = n /\ n \in 1..Len(columns)
      BY <2>1, <2>3
    <3>2. join[k - 1] \in Seq(Symbols)
      BY <1>5, <3>1
    <3>3. QED
      BY <1>0, <1>3, <2>3, <3>2, BesideType
  <2>4. QED
    BY <2>2, <2>3
<1>6. \A n \in Nat : n \in T
  <2>. HIDE DEF T
  <2>1. QED
    BY <1>4, <1>5, NatSetInduction
<1>7. ASSUME NEW k \in 1..Len(columns), k # 1 PROVE join[k - 1] \in Seq(Symbols)
  <2>1. k - 1 \in Nat /\ k - 1 \in 1..Len(columns)
    BY <1>7
  <2>2. QED
    BY <1>6, <2>1
<1>8. QED
  BY <1>2, <1>3, <1>7 DEF join

(* Rows of any number of columns are told apart by their joins. *)
LEMMA JoinsTellRowsApart ==
    ASSUME NEW columns \in Seq(Seq(Characters)), NEW others \in Seq(Seq(Characters)),
           Derivable(columns), Derivable(others), Joined(columns) = Joined(others)
    PROVE  columns = others
<1> DEFINE c == Join(columns)
           d == Join(others)
           Same(n, m) == n = m /\ \A k \in 1..n : columns[k] = others[k]
           T == {n \in Nat : \A k \in 1..Len(columns), m \in 1..Len(others) :
                    k = n + 1 /\ c[k] = d[m] => Same(k, m)}
<1>0. /\ Len(columns) \in Nat \ {0} /\ Len(others) \in Nat \ {0}
      /\ \A k \in 1..Len(columns) : Clean(columns[k]) /\ columns[k] \in Seq(Symbols)
      /\ \A k \in 1..Len(others) : Clean(others[k]) /\ others[k] \in Seq(Symbols)
  BY DEF Derivable, Allowed, Symbols
<1>1. /\ c[1] = columns[1]
      /\ \A k \in 1..Len(columns) :
            k # 1 => c[k] = Beside(c[k - 1], columns[k]) /\ c[k - 1] \in Seq(Symbols)
  BY JoinStep DEF Derivable
<1>2. /\ d[1] = others[1]
      /\ \A k \in 1..Len(others) :
            k # 1 => d[k] = Beside(d[k - 1], others[k]) /\ d[k - 1] \in Seq(Symbols)
  BY JoinStep DEF Derivable
<1>. HIDE DEF c, d, Same
<1>3. 0 \in T
  <2>1. SUFFICES ASSUME NEW m \in 1..Len(others), c[1] = d[m] PROVE Same(1, m)
    OBVIOUS
  <2>2. ASSUME m # 1 PROVE FALSE
    <3>1. d[m] = Beside(d[m - 1], others[m]) /\ d[m - 1] \in Seq(Symbols)
      BY <1>2, <2>2
    <3>2. ~Clean(d[m])
      BY <1>0, <3>1, BesideType
    <3>3. Clean(c[1])
      BY <1>0, <1>1
    <3>4. QED
      BY <2>1, <3>2, <3>3
  <2>3. columns[1] = others[1]
    BY <1>1, <1>2, <2>1, <2>2
  <2>4. QED
    BY <2>2, <2>3 DEF Same
<1>4. ASSUME NEW n \in Nat, n \in T PROVE n + 1 \in T
  <2>1. SUFFICES ASSUME NEW k \in 1..Len(columns), NEW m \in 1..Len(others), k = n + 2, c[k] = d[m]
                 PROVE  Same(k, m)
    OBVIOUS
  <2>2. k # 1 /\ k - 1 = n + 1 /\ k - 1 \in 1..Len(columns)
    BY <2>1
  <2>3. c[k] = Beside(c[k - 1], columns[k]) /\ c[k - 1] \in Seq(Symbols)
    BY <1>1, <2>2
  <2>4. ASSUME m = 1 PROVE FALSE
    <3>1. ~Clean(c[k])
      BY <1>0, <2>3, BesideType
    <3>2. Clean(d[1])
      BY <1>0, <1>2
    <3>3. QED
      BY <2>1, <2>4, <3>1, <3>2
  <2>5. d[m] = Beside(d[m - 1], others[m]) /\ d[m - 1] \in Seq(Symbols)
    BY <1>2, <2>4
  <2>6. columns[k] = others[m] /\ c[k - 1] = d[m - 1]
    <3>1. PICK front, most, x, y :
             front = c[k - 1] /\ most = d[m - 1] /\ x = columns[k] /\ y = others[m]
      OBVIOUS
    <3>2. /\ front \in Seq(Symbols) /\ most \in Seq(Symbols)
          /\ x \in Seq(Symbols) /\ y \in Seq(Symbols) /\ Clean(x) /\ Clean(y)
      BY <1>0, <2>3, <2>5, <3>1
    <3>3. Beside(front, x) = Beside(most, y)
      BY <2>1, <2>3, <2>5, <3>1
    <3>4. front \o <<Separator>> \o x = most \o <<Separator>> \o y
      BY <3>3 DEF Beside
    <3>5. Separator \in Symbols
      BY DEF Symbols
    <3>6. x = y /\ front = most
      BY <3>2, <3>4, <3>5, LastComesApart
    <3>7. QED
      BY <3>1, <3>6
  <2>7. m - 1 \in 1..Len(others)
    BY <2>4
  <2>8. Same(k - 1, m - 1)
    BY <1>4, <2>2, <2>6, <2>7
  <2>9. m = k /\ \A i \in 1..(k - 1) : columns[i] = others[i]
    BY <2>2, <2>8 DEF Same
  <2>10. \A i \in 1..k : i \in 1..(k - 1) \/ i = k
    OBVIOUS
  <2>11. QED
    BY <2>6, <2>9, <2>10 DEF Same
<1>5. \A n \in Nat : n \in T
  <2>. HIDE DEF T
  <2>1. QED
    BY <1>3, <1>4, NatSetInduction
<1>6. Len(columns) = Len(others) /\ \A k \in 1..Len(columns) : columns[k] = others[k]
  <2>1. c[Len(columns)] = d[Len(others)]
    BY DEF Joined, c, d
  <2>2. PICK k, m : k = Len(columns) /\ m = Len(others)
    OBVIOUS
  <2>3. k \in 1..Len(columns) /\ m \in 1..Len(others) /\ k - 1 \in T /\ k = (k - 1) + 1
    <3>. HIDE DEF T
    <3>1. QED
      BY <1>0, <1>5, <2>2
  <2>4. Same(k, m)
    BY <2>1, <2>2, <2>3
  <2>5. QED
    BY <2>2, <2>4 DEF Same
<1>7. QED
  BY <1>6, SeqEqual

LEMMA TransactionIdInjective ==
    ASSUME NEW bank \in Seq(Symbols), NEW account \in Seq(Symbols), NEW id \in Seq(Symbols),
           NEW bank2 \in Seq(Symbols), NEW account2 \in Seq(Symbols), NEW id2 \in Seq(Symbols),
           Clean(bank), Clean(bank2), Clean(account), Clean(account2),
           TransactionId(bank, account, id) = TransactionId(bank2, account2, id2)
    PROVE  bank = bank2 /\ account = account2 /\ id = id2
<1>1. Separator \in Symbols
  BY DEF Symbols
<1> DEFINE rest == account \o <<Separator>> \o id
           rest2 == account2 \o <<Separator>> \o id2
<1>2. rest \in Seq(Symbols) /\ rest2 \in Seq(Symbols)
  BY <1>1
<1>3. bank \o <<Separator>> \o rest = bank2 \o <<Separator>> \o rest2
  BY DEF TransactionId, Digest, KeyMaterial
<1>. HIDE DEF rest, rest2
<1>4. bank = bank2 /\ rest = rest2
  BY <1>1, <1>2, <1>3, JoinComesApart, ZenonT(60)
<1>5. account = account2 /\ id = id2
  BY <1>1, <1>4, JoinComesApart DEF rest, rest2
<1>6. QED
  BY <1>4, <1>5

-----------------------------------------------------------------------------

Sourced(t) ==
    /\ t.source_bank \in Banks
    /\ t.source_account_id \in Accounts
    /\ t.source_transaction_id \in Seq(Symbols)

(* Where an identifier comes from: the bank, or a row. *)
Traced(t) ==
    \/ \E id \in SourceIds : t.source_transaction_id = id /\ t.origin = Origin(<<id>>, -1)
    \/ \E columns \in Rows, index \in 0..MaxIndex :
          /\ Derivable(columns)
          /\ t.source_transaction_id = ContentId(columns, index)
          /\ t.origin = Origin(columns, index)

Identities == \A t \in accepted : Sourced(t) /\ Traced(t) /\ ValidIdentifiers(t)

LEMMA KeysAreApart == Identities => IdsAreKeys
<1>. SUFFICES ASSUME Identities, NEW s \in accepted, NEW t \in accepted,
                     s.transaction_id = t.transaction_id
              PROVE  /\ s.source_bank = t.source_bank
                     /\ s.source_account_id = t.source_account_id
                     /\ s.source_transaction_id = t.source_transaction_id
                     /\ s.account_id = t.account_id
  BY DEF IdsAreKeys
<1>1. Sourced(s) /\ Sourced(t) /\ ValidIdentifiers(s) /\ ValidIdentifiers(t)
  BY DEF Identities
<1>2. Seq(Characters) \subseteq Seq(Symbols)
  BY DEF Symbols
<1>3. /\ s.source_bank \in Seq(Symbols) /\ t.source_bank \in Seq(Symbols)
      /\ s.source_account_id \in Seq(Symbols) /\ t.source_account_id \in Seq(Symbols)
  BY <1>1, <1>2, StringsAssumption DEF Sourced
<1>4. /\ Clean(s.source_bank) /\ Clean(t.source_bank)
      /\ Clean(s.source_account_id) /\ Clean(t.source_account_id)
  BY <1>1, BanksAssumption DEF Sourced, ValidIdentifiers, Allowed, Clean
<1>5. s.source_transaction_id \in Seq(Symbols) /\ t.source_transaction_id \in Seq(Symbols)
  BY <1>1 DEF Sourced
<1>6. /\ s.source_bank = t.source_bank
      /\ s.source_account_id = t.source_account_id
      /\ s.source_transaction_id = t.source_transaction_id
  <2> DEFINE bank == s.source_bank
             account == s.source_account_id
             id == s.source_transaction_id
             bank2 == t.source_bank
             account2 == t.source_account_id
             id2 == t.source_transaction_id
  <2>1. TransactionId(bank, account, id) = TransactionId(bank2, account2, id2)
    BY <1>1 DEF ValidIdentifiers
  <2>2. /\ bank \in Seq(Symbols) /\ account \in Seq(Symbols) /\ id \in Seq(Symbols)
        /\ bank2 \in Seq(Symbols) /\ account2 \in Seq(Symbols) /\ id2 \in Seq(Symbols)
        /\ Clean(bank) /\ Clean(bank2) /\ Clean(account) /\ Clean(account2)
    BY <1>3, <1>4, <1>5
  <2>. HIDE DEF bank, account, id, bank2, account2, id2
  <2>3. bank = bank2 /\ account = account2 /\ id = id2
    BY <2>1, <2>2, TransactionIdInjective
  <2>4. QED
    BY <2>3 DEF bank, account, id, bank2, account2, id2
<1>7. QED
  BY <1>1, <1>6 DEF ValidIdentifiers

(* No two rows have the same identifier, and none has a bank's. *)
LEMMA ContentIdsAreKeys ==
    ASSUME NEW columns \in Rows, NEW index \in 0..MaxIndex, Derivable(columns)
    PROVE  /\ ContentId(columns, index) \notin SourceIds
           /\ \A others \in Rows, other \in 0..MaxIndex :
                 Derivable(others) /\ ContentId(columns, index) = ContentId(others, other) =>
                     columns = others /\ index = other
<1>1. ContentId(columns, index) \notin SourceIds
  <2>1. SUFFICES ASSUME NEW id \in Seq(Characters), id = ContentId(columns, index) PROVE FALSE
    BY StringsAssumption
  <2>2. PICK digest : digest = Digest(Joined(columns))
    OBVIOUS
  <2>3. id = <<Content, Colon, digest, Colon, [decimal |-> index]>>
    BY <2>1, <2>2 DEF ContentId
  <2>4. digest \in Characters
    <3>1. Len(id) = 5 /\ id[3] = digest
      BY <2>3
    <3>2. QED
      BY <3>1
  <2>5. QED
    BY <2>2, <2>4, DigestsAssumption DEF Derivable
<1>2. ASSUME NEW others \in Rows, NEW other \in 0..MaxIndex, Derivable(others),
             ContentId(columns, index) = ContentId(others, other)
      PROVE  columns = others /\ index = other
  <2>1. Digest(Joined(columns)) = Digest(Joined(others)) /\ [decimal |-> index] = [decimal |-> other]
    <3>1. PICK a, b, i, j : /\ a = Digest(Joined(columns)) /\ b = Digest(Joined(others))
                           /\ i = [decimal |-> index] /\ j = [decimal |-> other]
      OBVIOUS
    <3>2. <<Content, Colon, a, Colon, i>> = <<Content, Colon, b, Colon, j>>
      BY <1>2, <3>1 DEF ContentId
    <3>3. a = b /\ i = j
      BY <3>2
    <3>4. QED
      BY <3>1, <3>3
  <2>2. Joined(columns) = Joined(others)
    <3>1. PICK a, b : a = Joined(columns) /\ b = Joined(others)
      OBVIOUS
    <3>2. [sha256 |-> a] = [sha256 |-> b]
      BY <2>1, <3>1 DEF Digest
    <3>3. a = b
      BY <3>2
    <3>4. QED
      BY <3>1, <3>3
  <2>3. columns = others
    BY <1>2, <2>2, StringsAssumption, JoinsTellRowsApart
  <2>4. index = other
    BY <2>1
  <2>5. QED
    BY <2>3, <2>4
<1>3. QED
  BY <1>1, <1>2

LEMMA IdentifiedParts ==
    ASSUME NEW u \in Identified
    PROVE  \E bank \in Banks, account \in Accounts, id \in SourceIds :
               u = CanonicalTransaction(bank, account, id, Origin(<<id>>, -1))
  BY DEF Identified, CanonicalTransaction, Origin

LEMMA OfferedAreSourced ==
    ASSUME NEW t \in Offered
    PROVE  Sourced(t) /\ Traced(t)
<1>1. ASSUME NEW bank \in Banks, NEW account \in Accounts, NEW id \in Seq(Symbols), NEW origin
      PROVE  LET u == CanonicalTransaction(bank, account, id, origin)
             IN  Sourced(u) /\ u.source_transaction_id = id /\ u.origin = origin
  BY DEF Sourced, CanonicalTransaction
<1>2. SourceIds \subseteq Seq(Symbols)
  BY StringsAssumption DEF Symbols
<1>3. ASSUME NEW u \in Identified
      PROVE  Sourced(u) /\ Traced(u)
  <2>1. PICK bank \in Banks, account \in Accounts, id \in SourceIds :
            u = CanonicalTransaction(bank, account, id, Origin(<<id>>, -1))
    BY IdentifiedParts
  <2>2. Sourced(u) /\ u.source_transaction_id = id /\ u.origin = Origin(<<id>>, -1)
    BY <1>1, <1>2, <2>1
  <2>3. QED
    BY <2>2 DEF Traced
<1>4. CASE t \in Identified
  BY <1>3, <1>4
<1>5. CASE t \in FromContent
  <2>1. PICK bank \in Banks, account \in Accounts, columns \in {row \in Rows : Derivable(row)}, index \in 0..MaxIndex :
            t = CanonicalTransaction(bank, account, ContentId(columns, index), Origin(columns, index))
    BY <1>5 DEF FromContent
  <2>2. ContentId(columns, index) \in Seq(Symbols)
    BY DEF ContentId, Symbols
  <2>3. /\ Sourced(t) /\ t.source_transaction_id = ContentId(columns, index)
        /\ t.origin = Origin(columns, index)
    BY <1>1, <2>1, <2>2
  <2>4. columns \in Rows /\ Derivable(columns)
    OBVIOUS
  <2>5. QED
    BY <2>3, <2>4 DEF Traced
<1>6. CASE t \in Mistaken
  <2>1. PICK u \in Identified, other \in Accounts :
            \/ t = [u EXCEPT !.account_id = AccountId(u.source_bank, other)]
            \/ t = [u EXCEPT !.transaction_id =
                        TransactionId(u.source_bank, other, u.source_transaction_id)]
    BY <1>6 DEF Mistaken
  <2>2. /\ t.source_bank = u.source_bank
        /\ t.source_account_id = u.source_account_id
        /\ t.source_transaction_id = u.source_transaction_id
        /\ t.origin = u.origin
    <3>1. PICK bank \in Banks, account \in Accounts, id \in SourceIds :
              u = CanonicalTransaction(bank, account, id, Origin(<<id>>, -1))
      BY IdentifiedParts
    <3>2. QED
      BY <2>1, <3>1 DEF CanonicalTransaction
  <2>3. QED
    BY <1>3, <2>2 DEF Sourced, Traced
<1>7. QED
  BY <1>4, <1>5, <1>6 DEF Offered

LEMMA AcceptingKeepsIdentities == Identities /\ [CanonicalNext]_accepted => Identities'
<1>. SUFFICES ASSUME Identities, [CanonicalNext]_accepted PROVE Identities'
  OBVIOUS
<1>1. ASSUME NEW t \in Passing, Accept(t)
      PROVE  Identities'
  BY <1>1, OfferedAreSourced DEF Identities, Accept, Passing
<1>2. CASE Refuse
  BY <1>2 DEF Identities, Refuse
<1>3. CASE UNCHANGED accepted
  BY <1>3 DEF Identities
<1>4. QED
  BY <1>1, <1>2, <1>3 DEF CanonicalNext

LEMMA CanonicalSpecIdentities == CanonicalSpec => []Identities
<1>1. CanonicalInit => Identities
  BY DEF CanonicalInit, Identities
<1>2. Identities /\ [CanonicalNext]_accepted => Identities'
  BY AcceptingKeepsIdentities
<1>3. QED
  BY <1>1, <1>2, PTL DEF CanonicalSpec

(* A key belongs to one transaction of one account of one bank             *)
(* (derive_transaction_id and the validators of CanonicalTransaction).     *)
THEOREM KeysAreKeys == CanonicalSpec => []IdsAreKeys
<1>1. Identities => IdsAreKeys
  BY KeysAreApart
<1>2. QED
  BY <1>1, CanonicalSpecIdentities, PTL

(* Rows of any number of columns, divided anywhere, have keys of their own *)
(* (derive_content_source_transaction_id).                                 *)
THEOREM RowsHaveTheirOwnKeys == CanonicalSpec => []RowsKeepApart
<1>1. Identities => RowsKeepApart
  <2>. SUFFICES ASSUME Identities, NEW s \in accepted, NEW t \in accepted,
                       s.transaction_id = t.transaction_id
                PROVE  s.origin = t.origin
    BY DEF RowsKeepApart
  <2>1. s.source_transaction_id = t.source_transaction_id
    BY KeysAreApart DEF IdsAreKeys
  <2>2. Traced(s) /\ Traced(t)
    BY DEF Identities
  <2>3. CASE s.source_transaction_id \in SourceIds
    <3>1. ASSUME NEW u \in {s, t}
          PROVE  u.origin = Origin(<<s.source_transaction_id>>, -1)
      <4>1. Traced(u) /\ u.source_transaction_id \in SourceIds
        BY <2>1, <2>2, <2>3
      <4>2. PICK id \in SourceIds : u.source_transaction_id = id /\ u.origin = Origin(<<id>>, -1)
        <5>1. ASSUME NEW columns \in Rows, NEW index \in 0..MaxIndex, Derivable(columns),
                     u.source_transaction_id = ContentId(columns, index)
              PROVE  FALSE
          BY <4>1, <5>1, ContentIdsAreKeys
        <5>2. QED
          BY <4>1, <5>1 DEF Traced
      <4>3. QED
        BY <2>1, <4>2
    <3>2. QED
      BY <3>1
  <2>4. CASE s.source_transaction_id \notin SourceIds
    <3>1. PICK columns \in Rows, index \in 0..MaxIndex :
              /\ Derivable(columns)
              /\ s.source_transaction_id = ContentId(columns, index)
              /\ s.origin = Origin(columns, index)
      BY <2>2, <2>4 DEF Traced
    <3>2. PICK others \in Rows, other \in 0..MaxIndex :
              /\ Derivable(others)
              /\ t.source_transaction_id = ContentId(others, other)
              /\ t.origin = Origin(others, other)
      BY <2>1, <2>2, <2>4 DEF Traced
    <3>3. columns = others /\ index = other
      BY <2>1, <3>1, <3>2, ContentIdsAreKeys
    <3>4. QED
      BY <3>1, <3>2, <3>3
  <2>5. QED
    BY <2>3, <2>4
<1>2. QED
  BY <1>1, CanonicalSpecIdentities, PTL

-----------------------------------------------------------------------------
(* Rules *)

(* The first of the matching rules exists, and is one of them. *)
LEMMA FirstExists ==
    ASSUME NEW matching \in SUBSET Nat, matching # {}
    PROVE  First(matching) # {}
<1> DEFINE R == OpToRel(<, Nat)
<1>1. \E i \in matching : \A j \in matching : ~(<<j, i>> \in R)
  <2>1. IsWellFoundedOn(R, Nat)
    BY NatLessThanWellFounded
  <2>. HIDE DEF R
  <2>2. QED
    BY <2>1, WFMin
<1>2. PICK i \in matching : \A j \in matching : ~(<<j, i>> \in R)
  BY <1>1
<1>3. \A j \in matching : i <= j
  <2>1. TAKE j \in matching
  <2>2. <<j, i>> \notin R /\ <<j, i>> \in Nat \X Nat
    BY <1>2
  <2>3. ~(j < i)
    BY <2>2 DEF OpToRel
  <2>4. QED
    BY <2>3
<1>4. QED
  BY <1>2, <1>3 DEF First

(* A rule behind the others changes nothing for a text that one of them    *)
(* matches.                                                                *)
LEMMA AppendedKeyword ==
    ASSUME NEW keywords \in Seq(KeywordRules), NEW rule \in KeywordRules, NEW text,
           text # <<>>, Matching(keywords, text) # {}
    PROVE  ApplyKeywordRules(Append(keywords, rule), text) = ApplyKeywordRules(keywords, text)
<1> DEFINE more == Append(keywords, rule)
           M == Matching(keywords, text)
           M2 == Matching(more, text)
           n == Len(keywords)
<1>1. /\ n \in Nat
      /\ DOMAIN keywords = 1..n
      /\ DOMAIN more = 1..(n + 1)
      /\ \A i \in 1..n : more[i] = keywords[i]
  OBVIOUS
<1>. HIDE DEF more
<1>2. M \subseteq 1..n /\ M \subseteq M2 /\ M2 \subseteq M \cup {n + 1}
  BY <1>1 DEF Matching
<1>3. First(M2) = First(M)
  <2>1. PICK m \in M : TRUE
    OBVIOUS
  <2>2. m \in M2 /\ m \in 1..n
    BY <1>2, <2>1
  <2>. HIDE DEF M, M2
  <2>3. ASSUME NEW i \in First(M2) PROVE i \in First(M)
    <3>1. i \in M2 /\ i <= m
      BY <2>2, <2>3 DEF First
    <3>2. i \in M
      BY <3>1, <2>2, <1>1, <1>2
    <3>3. \A j \in M : i <= j
      BY <2>3, <1>2 DEF First
    <3>4. QED
      BY <3>2, <3>3 DEF First
  <2>4. ASSUME NEW i \in First(M) PROVE i \in First(M2)
    <3>1. i \in M /\ i \in 1..n
      BY <2>4, <1>2 DEF First
    <3>2. \A j \in M2 : i <= j
      BY <3>1, <2>4, <1>1, <1>2 DEF First
    <3>3. QED
      BY <3>1, <3>2, <1>2 DEF First
  <2>5. QED
    BY <2>3, <2>4
<1>4. PICK i : i = CHOOSE k \in First(M) : TRUE
  OBVIOUS
<1>5. i \in 1..n
  <2>1. First(M) # {}
    BY <1>1, <1>2, FirstExists
  <2>2. i \in First(M)
    BY <1>4, <2>1
  <2>3. QED
    BY <2>2, <1>2 DEF First
<1>6. ApplyKeywordRules(keywords, text) = keywords[i].category
  BY <1>4 DEF ApplyKeywordRules
<1>7. ApplyKeywordRules(more, text) = more[i].category
  <2>1. M2 # {}
    BY <1>2
  <2>2. QED
    BY <1>3, <1>4, <2>1 DEF ApplyKeywordRules
<1>8. QED
  BY <1>1, <1>5, <1>6, <1>7 DEF more

(* What has a category keeps it when a rule is appended. *)
LEMMA AppendedRule ==
    ASSUME NEW some, some.keywords \in Seq(KeywordRules), NEW more,
           NEW rule \in KeywordRules,
           more.labels = some.labels, more.keywords = Append(some.keywords, rule),
           NEW transaction, Categorize(some, transaction) # Uncategorized
    PROVE  Categorize(more, transaction) = Categorize(some, transaction)
<1> DEFINE text == SearchText(transaction.description, transaction.counterparty)
<1>1. ApplyRawCategory(more, transaction.label) = ApplyRawCategory(some, transaction.label)
  BY DEF ApplyRawCategory
<1>2. CASE ApplyRawCategory(some, transaction.label) # None
           \/ ApplySalaryHeuristic(transaction.amount) # None
  BY <1>1, <1>2 DEF Categorize
<1>3. CASE /\ ApplyRawCategory(some, transaction.label) = None
           /\ ApplySalaryHeuristic(transaction.amount) = None
  <2>1. text # <<>> /\ Matching(some.keywords, text) # {}
    BY <1>3 DEF Categorize, ApplyKeywordRules
  <2>2. ApplyKeywordRules(more.keywords, text) = ApplyKeywordRules(some.keywords, text)
    BY <2>1, AppendedKeyword
  <2>3. QED
    BY <1>1, <1>3, <2>2 DEF Categorize
<1>4. QED
  BY <1>2, <1>3

-----------------------------------------------------------------------------
(* Sums of a function over a finite set *)

IsSum(g, fun, sets) ==
    g = [s \in sets |-> IF s = {} THEN 0
                        ELSE fun[CHOOSE x \in s : TRUE] + g[s \ {CHOOSE x \in s : TRUE}]]

SumsUp(g, fun, S) == IsSum(g, fun, SUBSET S)

LEMMA SumIsChosen ==
    ASSUME NEW fun, NEW S
    PROVE  SumFunctionOnSet(fun, S) = (CHOOSE g : SumsUp(g, fun, S))[S]
  BY DEF SumFunctionOnSet, FoldFunctionOnSet, MapThenFoldSet, SumsUp, IsSum

LEMMA ChosenMember ==
    ASSUME NEW s, s # {}, IsFiniteSet(s)
    PROVE  /\ (CHOOSE x \in s : TRUE) \in s
           /\ IsFiniteSet(s \ {CHOOSE x \in s : TRUE})
           /\ Cardinality(s) \in Nat
           /\ Cardinality(s \ {CHOOSE x \in s : TRUE}) = Cardinality(s) - 1
  BY FS_RemoveElement, FS_CardinalityType

(* The recursion that defines a sum has a solution ... *)
LEMMA SumExists ==
    ASSUME NEW fun, NEW S, IsFiniteSet(S)
    PROVE  \E g : SumsUp(g, fun, S)
<1> DEFINE Small(n) == {s \in SUBSET S : Cardinality(s) <= n}
           T == {n \in Nat : \E g : IsSum(g, fun, Small(n))}
<1>0. \A s \in SUBSET S : IsFiniteSet(s) /\ Cardinality(s) \in Nat /\ Cardinality(s) <= Cardinality(S)
  BY FS_Subset, FS_CardinalityType
<1>1. 0 \in T
  <2>1. \A s \in Small(0) : s = {}
    <3>1. SUFFICES ASSUME NEW s \in Small(0) PROVE s = {}
      OBVIOUS
    <3>2. Cardinality(s) = 0
      BY <1>0
    <3>3. QED
      BY <1>0, <3>2, FS_EmptySet
  <2>2. IsSum([s \in Small(0) |-> 0], fun, Small(0))
    BY <2>1 DEF IsSum
  <2>3. QED
    BY <2>2
<1>2. ASSUME NEW n \in Nat, n \in T PROVE n + 1 \in T
  <2>1. PICK g : IsSum(g, fun, Small(n))
    BY <1>2
  <2> DEFINE h == [s \in Small(n + 1) |->
                      IF s = {} THEN 0
                      ELSE fun[CHOOSE x \in s : TRUE] + g[s \ {CHOOSE x \in s : TRUE}]]
  <2>2. ASSUME NEW s \in Small(n + 1), s # {}
        PROVE  s \ {CHOOSE x \in s : TRUE} \in Small(n)
    <3>1. IsFiniteSet(s) /\ Cardinality(s) <= n + 1
      BY <1>0
    <3>2. QED
      BY <2>2, <3>1, ChosenMember
  <2>3. ASSUME NEW s \in Small(n) PROVE h[s] = g[s]
    <3>1. s \in Small(n + 1)
      BY <1>0
    <3>. HIDE DEF Small
    <3>2. QED
      BY <2>1, <3>1 DEF IsSum
  <2>4. IsSum(h, fun, Small(n + 1))
    <3>. HIDE DEF Small
    <3>1. \A s \in Small(n + 1) : s # {} => h[s \ {CHOOSE x \in s : TRUE}] = g[s \ {CHOOSE x \in s : TRUE}]
      <4>1. TAKE s \in Small(n + 1)
      <4>2. HAVE s # {}
      <4> DEFINE rest == s \ {CHOOSE x \in s : TRUE}
      <4>3. rest \in Small(n)
        BY <2>2, <4>2
      <4>. HIDE DEF h, rest
      <4>4. h[rest] = g[rest]
        BY <2>3, <4>3
      <4>5. QED
        BY <4>4 DEF rest
    <3>2. h = [s \in Small(n + 1) |->
                  IF s = {} THEN 0
                  ELSE fun[CHOOSE x \in s : TRUE] + h[s \ {CHOOSE x \in s : TRUE}]]
      <4>1. \A s \in Small(n + 1) :
               h[s] = IF s = {} THEN 0
                      ELSE fun[CHOOSE x \in s : TRUE] + g[s \ {CHOOSE x \in s : TRUE}]
        OBVIOUS
      <4>2. h = [s \in Small(n + 1) |-> h[s]]
        OBVIOUS
      <4>. HIDE DEF h
      <4>3. \A s \in Small(n + 1) :
               h[s] = IF s = {} THEN 0
                      ELSE fun[CHOOSE x \in s : TRUE] + h[s \ {CHOOSE x \in s : TRUE}]
        BY <3>1, <4>1
      <4>4. QED
        BY <4>2, <4>3
    <3>3. QED
      BY <3>2 DEF IsSum
  <2>5. QED
    BY <2>4
<1>3. Cardinality(S) \in T
  <2>. HIDE DEF T
  <2>1. QED
    BY <1>0, <1>1, <1>2, NatSetInduction
<1>4. Small(Cardinality(S)) = SUBSET S
  BY <1>0
<1>5. QED
  BY <1>3, <1>4 DEF SumsUp

(* ... and only one, as far as the sets go. *)
LEMMA SumUnique ==
    ASSUME NEW fun, NEW S, IsFiniteSet(S), NEW other, NEW R \in SUBSET S,
           NEW g, NEW h, SumsUp(g, fun, S), SumsUp(h, other, R),
           \A x \in R : fun[x] = other[x]
    PROVE  g[R] = h[R]
<1> DEFINE T == {n \in Nat : \A s \in SUBSET R : Cardinality(s) = n => g[s] = h[s]}
<1>0. \A s \in SUBSET R : IsFiniteSet(s) /\ Cardinality(s) \in Nat
  BY FS_Subset, FS_CardinalityType
<1>1. 0 \in T
  <2>1. \A s \in SUBSET R : Cardinality(s) = 0 => s = {}
    BY <1>0, FS_EmptySet
  <2>2. g[{}] = 0 /\ h[{}] = 0
    BY DEF SumsUp, IsSum
  <2>3. QED
    BY <2>1, <2>2
<1>2. ASSUME NEW n \in Nat, n \in T PROVE n + 1 \in T
  <2>1. SUFFICES ASSUME NEW s \in SUBSET R, Cardinality(s) = n + 1 PROVE g[s] = h[s]
    OBVIOUS
  <2>2. s # {} /\ IsFiniteSet(s)
    BY <1>0, <2>1, FS_EmptySet
  <2> DEFINE c == CHOOSE x \in s : TRUE
  <2>3. c \in s /\ s \ {c} \in SUBSET R /\ Cardinality(s \ {c}) = n
    BY <2>1, <2>2, ChosenMember
  <2>4. g[s \ {c}] = h[s \ {c}]
    BY <1>2, <2>3
  <2>5. g[s] = fun[c] + g[s \ {c}] /\ h[s] = other[c] + h[s \ {c}]
    BY <2>2 DEF SumsUp, IsSum
  <2>6. QED
    BY <2>3, <2>4, <2>5
<1>3. Cardinality(R) \in T
  <2>. HIDE DEF T
  <2>1. QED
    BY <1>0, <1>1, <1>2, NatSetInduction
<1>4. QED
  BY <1>3

LEMMA SumPart ==
    ASSUME NEW fun, NEW S, IsFiniteSet(S), NEW R \in SUBSET S,
           NEW g, NEW h, SumsUp(g, fun, S), SumsUp(h, fun, R)
    PROVE  g[R] = h[R]
  BY SumUnique

LEMMA SumEmpty == ASSUME NEW fun PROVE SumFunctionOnSet(fun, {}) = 0
<1>1. \E g : SumsUp(g, fun, {})
  BY FS_EmptySet, SumExists
<1>2. SumsUp(CHOOSE g : SumsUp(g, fun, {}), fun, {})
  BY <1>1
<1>3. \A g : SumsUp(g, fun, {}) => g[{}] = 0
  BY DEF SumsUp, IsSum
<1>4. QED
  BY <1>2, <1>3, SumIsChosen

LEMMA SumSolved ==
    ASSUME NEW fun, NEW S, IsFiniteSet(S)
    PROVE  \E g : SumsUp(g, fun, S) /\ SumFunctionOnSet(fun, S) = g[S]
  BY SumExists, SumIsChosen

(* A sum depends on nothing but the values that are summed. *)
LEMMA SumEqual ==
    ASSUME NEW fun, NEW other, NEW S, IsFiniteSet(S), \A x \in S : fun[x] = other[x]
    PROVE  SumFunctionOnSet(fun, S) = SumFunctionOnSet(other, S)
<1>1. PICK g : SumsUp(g, fun, S) /\ SumFunctionOnSet(fun, S) = g[S]
  BY SumSolved
<1>2. PICK h : SumsUp(h, other, S) /\ SumFunctionOnSet(other, S) = h[S]
  BY SumSolved
<1>3. g[S] = h[S]
  BY <1>1, <1>2, SumUnique
<1>4. QED
  BY <1>1, <1>2, <1>3

LEMMA SumStep ==
    ASSUME NEW fun, NEW S, IsFiniteSet(S), S # {}
    PROVE  LET c == CHOOSE x \in S : TRUE
           IN  SumFunctionOnSet(fun, S) = fun[c] + SumFunctionOnSet(fun, S \ {c})
<1> DEFINE c == CHOOSE x \in S : TRUE
           rest == S \ {c}
<1>1. PICK g : SumsUp(g, fun, S) /\ SumFunctionOnSet(fun, S) = g[S]
  BY SumSolved
<1>2. IsFiniteSet(rest) /\ rest \in SUBSET S
  BY ChosenMember
<1>3. PICK h : SumsUp(h, fun, rest) /\ SumFunctionOnSet(fun, rest) = h[rest]
  BY <1>2, SumSolved
<1>4. g[rest] = h[rest]
  <2>. HIDE DEF rest
  <2>1. QED
    BY <1>1, <1>2, <1>3, SumPart
<1>5. g[S] = fun[c] + g[rest]
  BY <1>1 DEF SumsUp, IsSum
<1>6. QED
  BY <1>1, <1>3, <1>4, <1>5

(* Any member may be taken out first. *)
LEMMA SumOut ==
    ASSUME NEW S, IsFiniteSet(S), NEW fun, \A y \in S : fun[y] \in Int
    PROVE  /\ SumFunctionOnSet(fun, S) \in Int
           /\ \A x \in S : SumFunctionOnSet(fun, S) = fun[x] + SumFunctionOnSet(fun, S \ {x})
<1> DEFINE Sum(s) == SumFunctionOnSet(fun, s)
           Good(s) ==
               /\ Sum(s) \in Int
               /\ \A x \in s : Sum(s \ {x}) \in Int /\ Sum(s) = fun[x] + Sum(s \ {x})
           N == {n \in Nat : \A s \in SUBSET S : Cardinality(s) = n => Good(s)}
<1>0. \A s \in SUBSET S : IsFiniteSet(s) /\ Cardinality(s) \in Nat
  BY FS_Subset, FS_CardinalityType
<1>1. 0 \in N
  <2>1. Sum({}) = 0
    BY SumEmpty
  <2>2. \A s \in SUBSET S : Cardinality(s) = 0 => s = {}
    BY <1>0, FS_EmptySet
  <2>3. Good({})
    BY <2>1
  <2>. HIDE DEF Good
  <2>4. QED
    BY <2>2, <2>3
<1>2. ASSUME NEW n \in Nat, n \in N PROVE n + 1 \in N
  <2>1. SUFFICES ASSUME NEW s \in SUBSET S, Cardinality(s) = n + 1 PROVE Good(s)
    OBVIOUS
  <2>2. IsFiniteSet(s) /\ s # {}
    BY <1>0, <2>1, FS_EmptySet
  <2>3. \A x \in s : Cardinality(s \ {x}) = n
    BY <2>1, <2>2, OneLess
  <2>4. \A x \in s : Good(s \ {x})
    BY <1>2, <2>3
  <2>5. PICK c \in s : Sum(s) = fun[c] + Sum(s \ {c})
    BY <2>2, SumStep, ChosenMember
  <2>. HIDE DEF Sum
  <2>6. Sum(s) \in Int
    BY <2>4, <2>5
  <2>7. ASSUME NEW x \in s, x # c PROVE Sum(s) = fun[x] + Sum(s \ {x})
    <3>1. x \in s \ {c} /\ c \in s \ {x} /\ (s \ {c}) \ {x} = (s \ {x}) \ {c}
      BY <2>7
    <3>2. PICK r : r = (s \ {c}) \ {x}
      OBVIOUS
    <3>3. Sum(s \ {c}) = fun[x] + Sum(r) /\ Sum(s \ {x}) = fun[c] + Sum(r)
      BY <2>4, <3>1, <3>2
    <3>4. Cardinality(s \ {c}) = n /\ IsFiniteSet(s \ {c})
      BY <1>0, <2>3
    <3>5. Sum(r) \in Int
      BY <2>4, <3>1, <3>2
    <3>6. fun[x] \in Int /\ fun[c] \in Int
      OBVIOUS
    <3>7. QED
      BY <2>5, <3>3, <3>5, <3>6
  <2>8. QED
    BY <2>4, <2>5, <2>6, <2>7
<1>3. Cardinality(S) \in N
  <2>. HIDE DEF N
  <2>1. QED
    BY <1>0, <1>1, <1>2, NatSetInduction
<1>4. QED
  BY <1>3

LEMMA SumIn ==
    ASSUME NEW S, IsFiniteSet(S), NEW x, x \notin S,
           NEW fun, \A y \in S \cup {x} : fun[y] \in Int
    PROVE  SumFunctionOnSet(fun, S \cup {x}) = fun[x] + SumFunctionOnSet(fun, S)
<1>1. PICK more : more = S \cup {x}
  OBVIOUS
<1>2. IsFiniteSet(more) /\ x \in more /\ more \ {x} = S /\ \A y \in more : fun[y] \in Int
  BY <1>1, FS_AddElement
<1>3. SumFunctionOnSet(fun, more) = fun[x] + SumFunctionOnSet(fun, more \ {x})
  BY <1>2, SumOut
<1>4. QED
  BY <1>1, <1>2, <1>3

(* More of what is not negative is no less. *)
LEMMA SumGrows ==
    ASSUME NEW S, NEW more, IsFiniteSet(more), S \subseteq more,
           NEW fun, NEW other, \A y \in S : fun[y] = other[y],
           \A y \in more : other[y] \in Nat
    PROVE  SumFunctionOnSet(fun, S) <= SumFunctionOnSet(other, more)
<1> DEFINE extra == more \ S
           T == {s \in SUBSET extra : SumFunctionOnSet(other, S) <= SumFunctionOnSet(other, S \cup s)}
<1>0. IsFiniteSet(S) /\ IsFiniteSet(extra) /\ \A s \in SUBSET extra : IsFiniteSet(S \cup s)
  <2>1. \A s \in SUBSET extra : (S \cup s) \subseteq more
    OBVIOUS
  <2>2. extra \subseteq more
    OBVIOUS
  <2>3. QED
    BY <2>1, <2>2, FS_Subset
<1>1. \A s \in SUBSET extra : SumFunctionOnSet(other, S \cup s) \in Int
  <2>1. TAKE s \in SUBSET extra
  <2>2. \A y \in S \cup s : other[y] \in Int
    OBVIOUS
  <2>3. QED
    BY <1>0, <2>2, SumOut
<1>2. {} \in T
  <2>1. S \cup {} = S
    OBVIOUS
  <2>2. SumFunctionOnSet(other, S) \in Int
    BY <1>1, <2>1
  <2>3. QED
    BY <2>1, <2>2
<1>3. ASSUME NEW s \in SUBSET extra, NEW x \in extra \ s, s \in T PROVE s \cup {x} \in T
  <2>1. SumFunctionOnSet(other, (S \cup s) \cup {x}) = other[x] + SumFunctionOnSet(other, S \cup s)
    <3>1. x \notin S \cup s /\ IsFiniteSet(S \cup s) /\ \A y \in (S \cup s) \cup {x} : other[y] \in Int
      BY <1>0
    <3>2. QED
      BY <3>1, SumIn
  <2>2. (S \cup s) \cup {x} = S \cup (s \cup {x})
    OBVIOUS
  <2>3. other[x] \in Nat
    OBVIOUS
  <2>4. PICK a, b, c : /\ a = SumFunctionOnSet(other, S)
                      /\ b = SumFunctionOnSet(other, S \cup s)
                      /\ c = SumFunctionOnSet(other, S \cup (s \cup {x}))
    OBVIOUS
  <2>5. c = other[x] + b /\ a <= b
    BY <1>3, <2>1, <2>2, <2>4
  <2>6. a \in Int /\ b \in Int
    <3>1. {} \in SUBSET extra /\ S \cup {} = S
      OBVIOUS
    <3>2. QED
      BY <1>1, <2>4, <3>1
  <2>7. a <= c
    BY <2>3, <2>5, <2>6
  <2>8. QED
    BY <2>4, <2>7
<1>4. extra \in T
  <2>. HIDE DEF T, extra
  <2>1. QED
    BY <1>0, <1>2, <1>3, SetInduction
<1>5. S \cup extra = more
  OBVIOUS
<1>6. SumFunctionOnSet(other, S) <= SumFunctionOnSet(other, more)
  BY <1>4, <1>5
<1>7. SumFunctionOnSet(fun, S) = SumFunctionOnSet(other, S)
  BY <1>0, SumEqual
<1>8. QED
  BY <1>6, <1>7

LEMMA SumNegated ==
    ASSUME NEW S, IsFiniteSet(S), NEW fun, NEW other,
           \A y \in S : fun[y] \in Int /\ other[y] = -fun[y]
    PROVE  SumFunctionOnSet(other, S) = -SumFunctionOnSet(fun, S)
<1> DEFINE T == {s \in SUBSET S : SumFunctionOnSet(other, s) = -SumFunctionOnSet(fun, s)}
<1>1. {} \in T
  BY SumEmpty
<1>2. ASSUME NEW s \in SUBSET S, NEW x \in S \ s, s \in T PROVE s \cup {x} \in T
  <2>1. /\ IsFiniteSet(s) /\ x \notin s
        /\ \A y \in s \cup {x} : fun[y] \in Int /\ other[y] \in Int
    BY FS_Subset
  <2>2. SumFunctionOnSet(other, s \cup {x}) = other[x] + SumFunctionOnSet(other, s)
    BY <2>1, SumIn
  <2>3. SumFunctionOnSet(fun, s \cup {x}) = fun[x] + SumFunctionOnSet(fun, s)
    BY <2>1, SumIn
  <2>4. SumFunctionOnSet(fun, s) \in Int
    BY <2>1, SumOut
  <2>5. QED
    BY <1>2, <2>2, <2>3, <2>4
<1>3. S \in T
  <2>. HIDE DEF T
  <2>1. QED
    BY <1>1, <1>2, SetInduction
<1>4. QED
  BY <1>3

(* What is counted by bucket is counted. *)
Members(C, bucket, b) == {k \in C : bucket[k] = b}

LEMMA SumOfCounts ==
    ASSUME NEW C, IsFiniteSet(C), NEW B, NEW bucket \in [C -> B],
           \A b \in B : \E k \in C : bucket[k] = b,
           NEW counts, DOMAIN counts = B,
           \A b \in B : counts[b] = Cardinality(Members(C, bucket, b))
    PROVE  SumFunction(counts) = Cardinality(C)
<1> DEFINE In(s) == {k \in C : bucket[k] \in s}
           T == {s \in SUBSET B : SumFunctionOnSet(counts, s) = Cardinality(In(s))}
<1>0. /\ IsFiniteSet(B)
      /\ \A s \in SUBSET B : IsFiniteSet(s) /\ IsFiniteSet(In(s)) /\ Cardinality(In(s)) \in Nat
  <2>1. IsFiniteSet(B)
    <3>1. bucket \in Surjection(C, B)
      BY DEF Surjection
    <3>2. QED
      BY <3>1, FS_Surjection
  <2>2. \A s : In(s) \subseteq C
    OBVIOUS
  <2>. HIDE DEF In
  <2>3. QED
    BY <2>1, <2>2, FS_Subset, FS_CardinalityType
<1>1. \A b \in B : counts[b] \in Nat
  <2>1. TAKE b \in B
  <2>2. counts[b] = Cardinality(Members(C, bucket, b))
    OBVIOUS
  <2>3. Members(C, bucket, b) \subseteq C
    BY DEF Members
  <2>4. QED
    BY <2>2, <2>3, FS_Subset, FS_CardinalityType
<1>2. {} \in T
  <2>1. In({}) = {}
    OBVIOUS
  <2>2. QED
    BY <2>1, SumEmpty, FS_EmptySet
<1>3. ASSUME NEW s \in SUBSET B, NEW x \in B \ s, s \in T PROVE s \cup {x} \in T
  <2>1. IsFiniteSet(s) /\ x \notin s /\ \A y \in s \cup {x} : counts[y] \in Int
    <3>1. x \in B
      OBVIOUS
    <3>2. \A y \in s \cup {x} : y \in B
      BY <3>1
    <3>3. IsFiniteSet(s)
      BY <1>0
    <3>. HIDE DEF In
    <3>4. \A y \in s \cup {x} : counts[y] \in Int
      BY <1>1, <3>2
    <3>5. QED
      BY <3>3, <3>4
  <2>2. SumFunctionOnSet(counts, s \cup {x}) = counts[x] + SumFunctionOnSet(counts, s)
    BY <2>1, SumIn
  <2>3. counts[x] = Cardinality(In({x}))
    <3>1. In({x}) = Members(C, bucket, x)
      BY DEF Members
    <3>2. QED
      BY <3>1
  <2>4. In(s) \cap In({x}) = {} /\ In(s \cup {x}) = In(s) \cup In({x})
    OBVIOUS
  <2>5. IsFiniteSet(In(s)) /\ IsFiniteSet(In({x})) /\ {x} \in SUBSET B
    BY <1>0
  <2>6. SumFunctionOnSet(counts, s) = Cardinality(In(s))
    BY <1>3
  <2>. HIDE DEF In
  <2>7. Cardinality(In(s)) \in Nat /\ Cardinality(In({x})) \in Nat
    BY <1>0, <2>5
  <2>8. Cardinality(In(s \cup {x})) = Cardinality(In(s)) + Cardinality(In({x}))
    <3>1. Cardinality(In(s) \cup In({x}))
            = Cardinality(In(s)) + Cardinality(In({x})) - Cardinality(In(s) \cap In({x}))
      BY <2>5, FS_Union
    <3>2. Cardinality(In(s) \cap In({x})) = 0
      BY <2>4, FS_EmptySet
    <3>3. In(s \cup {x}) = In(s) \cup In({x})
      BY <2>4
    <3>4. PICK a, b : a = Cardinality(In(s)) /\ b = Cardinality(In({x}))
      OBVIOUS
    <3>5. Cardinality(In(s) \cup In({x})) = a + b
      BY <2>7, <3>1, <3>2, <3>4
    <3>6. QED
      BY <3>3, <3>4, <3>5
  <2>9. QED
    BY <2>2, <2>3, <2>6, <2>7, <2>8
<1>4. B \in T
  <2>. HIDE DEF T
  <2>1. QED
    BY <1>0, <1>2, <1>3, SetInduction
<1>5. In(B) = C
  OBVIOUS
<1>6. SumFunction(counts) = SumFunctionOnSet(counts, B)
  BY DEF SumFunction, SumFunctionOnSet, FoldFunction, FoldFunctionOnSet
<1>7. QED
  BY <1>4, <1>5, <1>6
-----------------------------------------------------------------------------
(* The category of anything is one of the categories. *)
LEMMA CategoryType ==
    ASSUME NEW some \in Rules, NEW transaction
    PROVE  Categorize(some, transaction) \in Categories
<1> DEFINE text == SearchText(transaction.description, transaction.counterparty)
<1>0. Uncategorized \in Categories /\ Salary \in Categories
  BY CategoriesAssumption
<1>1. ApplyRawCategory(some, transaction.label) \in Categories \cup {None}
  <2>1. PICK known \in SUBSET Labels : some.labels \in [known -> Categories]
    BY DEF Rules
  <2>2. QED
    BY <2>1 DEF ApplyRawCategory
<1>2. ApplySalaryHeuristic(transaction.amount) \in Categories \cup {None}
  BY <1>0 DEF ApplySalaryHeuristic
<1>3. ApplyKeywordRules(some.keywords, text) \in Categories \cup {None}
  <2>1. some.keywords \in Seq(KeywordRules)
    BY DEF Rules
  <2>2. Matching(some.keywords, text) \subseteq DOMAIN some.keywords
    BY DEF Matching
  <2>3. DOMAIN some.keywords \subseteq Nat
    BY <2>1
  <2>4. CASE Matching(some.keywords, text) # {}
    <3>1. First(Matching(some.keywords, text)) # {}
      BY <2>2, <2>3, <2>4, FirstExists
    <3>2. PICK i : i = CHOOSE j \in First(Matching(some.keywords, text)) : TRUE
      OBVIOUS
    <3>3. i \in DOMAIN some.keywords
      BY <2>2, <3>1, <3>2 DEF First
    <3>4. some.keywords[i].category \in Categories
      <4>1. some.keywords[i] \in KeywordRules
        BY <2>1, <3>3
      <4>2. QED
        BY <4>1 DEF KeywordRules
    <3>. HIDE DEF text
    <3>5. QED
      BY <3>2, <3>4 DEF ApplyKeywordRules
  <2>5. CASE Matching(some.keywords, text) = {}
    BY <2>5 DEF ApplyKeywordRules
  <2>6. QED
    BY <2>4, <2>5
<1>4. QED
  BY <1>0, <1>1, <1>2, <1>3 DEF Categorize

-----------------------------------------------------------------------------
(* The invariant *)

Reports == [Ids -> Transactions \cup {Absent}]
LandedRows == [Ids -> Contents \cup {Absent}]

Typed ==
    /\ report \in Reports
    /\ rules \in Rules
    /\ offered \in [report : Reports, rules : Rules]
    /\ landed \in [Store!Tables -> LandedRows]

(* Until it is answered, a batch is what the last run offered, under the   *)
(* rules that are still deployed: no release comes in between.             *)
BatchIsTheOffer ==
    pending # Store!NoCall =>
        /\ response = Store!NoAnswer
        /\ pending.table = "transactions"
        /\ offered.rules = rules
        /\ \A i \in DOMAIN pending.batch :
              \E k \in Ids : /\ offered.report[k] # Absent
                             /\ pending.batch[i] = [id |-> k, content |-> Offer(k)]
        /\ \A k \in Ids : offered.report[k] # Absent =>
              \E i \in DOMAIN pending.batch : pending.batch[i].id = k

(* First write wins, and yet no run that succeeded was offered anything    *)
(* else since: what is landed is what was offered last.                    *)
TakenIsLanded == \A k \in Ids : landed["transactions"][k] = taken[k]

IInv ==
    /\ Typed
    /\ BatchIsTheOffer
    /\ TakenIsLanded
    /\ OldCategoriesStand

LEMMA OfferParts ==
    ASSUME NEW k
    PROVE  /\ Offer(k).source = offered.report[k]
           /\ Offer(k).category = Categorize(offered.rules, offered.report[k])
<1>1. PICK source, category : /\ source = offered.report[k]
                             /\ category = Categorize(offered.rules, offered.report[k])
  OBVIOUS
<1>2. Offer(k) = [source |-> source, category |-> category]
  BY <1>1 DEF Offer
<1>3. QED
  BY <1>1, <1>2

LEMMA OfferType ==
    ASSUME Typed, NEW k \in Ids, offered.report[k] # Absent
    PROVE  Offer(k) \in Contents /\ Offer(k) # Absent
<1>1. offered.report[k] \in Transactions /\ offered.rules \in Rules
  BY DEF Typed, Reports
<1>2. Categorize(offered.rules, offered.report[k]) \in Categories
  BY <1>1, CategoryType
<1>3. QED
  BY <1>1, <1>2, AbsentAssumption DEF Offer, Contents

LEMMA InitIInv == Init => IInv
<1>. SUFFICES ASSUME Init PROVE IInv
  OBVIOUS
<1>1. /\ pending = Store!NoCall
      /\ response.kind # "loaded"
      /\ landed = [t \in Store!Tables |-> [k \in Ids |-> Absent]]
  BY DEF Init, Store!Init, Store!NoAnswer, Store!Answer, Store!EmptyTables
<1>2. \A k \in Ids : landed["transactions"][k] = Absent
  BY <1>1 DEF Store!Tables
<1>3. Typed
  BY <1>1, RulesAssumption DEF Init, Typed, Reports, LandedRows
<1>4. \A k \in Ids : taken[k] = Absent
  BY DEF Init
<1>5. QED
  BY <1>1, <1>2, <1>3, <1>4 DEF IInv, BatchIsTheOffer, TakenIsLanded, OldCategoriesStand

(* A run's batch holds everything that is reported, once. *)
LEMMA Reported ==
    ASSUME NEW S \in SUBSET Ids
    PROVE  /\ DOMAIN SetToSeq(S) = 1..Cardinality(S)
           /\ \A i \in DOMAIN SetToSeq(S) : SetToSeq(S)[i] \in S
           /\ \A k \in S : \E i \in DOMAIN SetToSeq(S) : SetToSeq(S)[i] = k
<1> DEFINE n == Cardinality(S)
<1>1. IsFiniteSet(S) /\ n \in Nat
  BY IdsAssumption, FS_Subset, FS_CardinalityType
<1>2. ExistsBijection(1..n, S) /\ IsFiniteSet(1..n) /\ Cardinality(1..n) = n
  BY <1>1, FS_CardinalityType, FS_Interval
<1>3. \E f \in [1..n -> S] : IsInjective(f)
  BY <1>2 DEF ExistsBijection, Bijection, Injection
<1>4. PICK f : f = SetToSeq(S)
  OBVIOUS
<1>5. f \in [1..n -> S] /\ IsInjective(f)
  BY <1>3, <1>4 DEF SetToSeq
<1>6. f \in Injection(1..n, S)
  BY <1>5 DEF Injection
<1>7. f \in Surjection(1..n, S)
  <2>. HIDE DEF n
  <2>1. QED
    BY <1>1, <1>2, <1>6, FS_Injection DEF n
<1>8. QED
  BY <1>4, <1>5, <1>7 DEF Surjection

LEMMA RunKeepsIInv == IInv /\ Run => IInv'
<1>. SUFFICES ASSUME IInv, Run PROVE IInv'
  OBVIOUS
<1>1. /\ rules' = rules /\ landed' = landed /\ report' = report /\ taken' = taken
      /\ offered' = [report |-> report, rules |-> rules]
      /\ response' = Store!NoAnswer
  BY DEF Run, Store!Submit
<1>2. Typed'
  BY <1>1 DEF IInv, Typed
<1>3. PICK reported : reported = SetToSeq({k \in Ids : report[k] # Absent})
  OBVIOUS
<1>4. pending' = [table |-> "transactions",
                  batch |-> [i \in DOMAIN reported |->
                               [id |-> reported[i], content |-> ApplyCategory(reported[i])]]]
  BY <1>3 DEF Run, Store!Submit
<1>5. \A k : ApplyCategory(k) = Offer(k)'
  BY <1>1 DEF ApplyCategory, Offer
<1>6. /\ \A i \in DOMAIN reported : reported[i] \in Ids /\ report[reported[i]] # Absent
      /\ \A k \in Ids : report[k] # Absent => \E i \in DOMAIN reported : reported[i] = k
  BY <1>3, Reported
<1>7. BatchIsTheOffer'
  <2>1. DOMAIN pending'.batch = DOMAIN reported /\ pending'.table = "transactions"
    BY <1>4
  <2>2. \A i \in DOMAIN reported :
           pending'.batch[i] = [id |-> reported[i], content |-> Offer(reported[i])']
    BY <1>4, <1>5
  <2>3. offered'.report = report /\ offered'.rules = rules
    BY <1>1
  <2>4. ASSUME NEW i \in DOMAIN pending'.batch
        PROVE  \E k \in Ids : /\ offered'.report[k] # Absent
                              /\ pending'.batch[i] = [id |-> k, content |-> Offer(k)']
    <3>1. i \in DOMAIN reported
      BY <2>1
    <3>2. reported[i] \in Ids /\ report[reported[i]] # Absent
      BY <1>6, <3>1
    <3>3. QED
      BY <2>2, <2>3, <3>1, <3>2
  <2>5. ASSUME NEW k \in Ids, offered'.report[k] # Absent
        PROVE  \E i \in DOMAIN pending'.batch : pending'.batch[i].id = k
    <3>1. PICK i \in DOMAIN reported : reported[i] = k
      BY <1>6, <2>3, <2>5
    <3>2. PICK content : pending'.batch[i] = [id |-> reported[i], content |-> content]
      BY <2>2, <3>1
    <3>3. QED
      BY <2>1, <3>1, <3>2
  <2>6. QED
    BY <1>1, <2>1, <2>3, <2>4, <2>5 DEF BatchIsTheOffer
<1>8. QED
  BY <1>1, <1>2, <1>7 DEF IInv, TakenIsLanded, OldCategoriesStand

(* What landing a batch leaves in the table: the row that was there, or    *)
(* what was offered for it.                                                *)
LEMMA Landing ==
    ASSUME IInv, Land
    PROVE  /\ landed' \in [Store!Tables -> LandedRows]
           /\ \A k \in Ids :
                 /\ landed["transactions"][k] # Absent =>
                       landed'["transactions"][k] = landed["transactions"][k]
                 /\ landed["transactions"][k] = Absent /\ offered.report[k] = Absent =>
                       landed'["transactions"][k] = Absent
                 /\ offered.report[k] # Absent => landed'["transactions"][k] = Offer(k)
<1> DEFINE rows == landed["transactions"]
           batch == pending.batch
           merged == Store!Merge(rows, batch)
<1>1. /\ pending # Store!NoCall
      /\ pending.table = "transactions"
      /\ Store!Consistent(rows, batch)
      /\ landed' = [landed EXCEPT !["transactions"] = merged]
  BY DEF IInv, BatchIsTheOffer, Land, Store!Accept
<1>2. /\ \A i \in DOMAIN batch :
            \E k \in Ids : /\ offered.report[k] # Absent
                           /\ batch[i] = [id |-> k, content |-> Offer(k)]
      /\ \A k \in Ids : offered.report[k] # Absent => \E i \in DOMAIN batch : batch[i].id = k
  BY <1>1 DEF IInv, BatchIsTheOffer
<1>3. rows \in LandedRows
  BY DEF IInv, Typed, Store!Tables
<1>4. \A i \in DOMAIN batch :
         /\ batch[i].id \in Ids /\ offered.report[batch[i].id] # Absent
         /\ batch[i].content = Offer(batch[i].id)
  <2>1. TAKE i \in DOMAIN batch
  <2>2. PICK k \in Ids : /\ offered.report[k] # Absent
                         /\ batch[i] = [id |-> k, content |-> Offer(k)]
    BY <1>2
  <2>3. batch[i].id = k /\ batch[i].content = Offer(k)
    BY <2>2
  <2>4. QED
    BY <2>2, <2>3
<1>5. \A k \in Ids : offered.report[k] # Absent => rows[k] \in {Absent, Offer(k)}
  BY <1>1, <1>2, <1>4 DEF Store!Consistent
<1>6. ASSUME NEW k \in Ids
      PROVE  merged[k] = IF offered.report[k] # Absent THEN Offer(k) ELSE rows[k]
  <2>1. CASE k \in Store!NewIds(rows, batch)
    <3>1. \E i \in DOMAIN batch : batch[i].id = k
      BY <2>1 DEF Store!NewIds
    <3>2. PICK i : i = CHOOSE j \in DOMAIN batch : batch[j].id = k
      OBVIOUS
    <3>3. i \in DOMAIN batch /\ batch[i].id = k
      BY <3>1, <3>2
    <3>4. merged[k] = batch[i].content
      BY <2>1, <3>2 DEF Store!Merge
    <3>5. QED
      BY <1>4, <3>3, <3>4
  <2>2. CASE k \notin Store!NewIds(rows, batch)
    <3>1. merged[k] = rows[k]
      BY <2>2 DEF Store!Merge
    <3>2. offered.report[k] # Absent => rows[k] # Absent
      BY <1>2, <2>2 DEF Store!NewIds
    <3>3. QED
      BY <1>5, <3>1, <3>2
  <2>3. QED
    BY <2>1, <2>2
<1>7. merged \in LandedRows
  <2>1. \A k \in Ids : merged[k] \in Contents \cup {Absent}
    BY <1>3, <1>6, OfferType DEF IInv, LandedRows
  <2>2. merged = [k \in Ids |-> merged[k]]
    BY DEF Store!Merge
  <2>. HIDE DEF merged
  <2>3. QED
    BY <2>1, <2>2 DEF LandedRows
<1>. HIDE DEF merged
<1>8. landed' \in [Store!Tables -> LandedRows] /\ landed'["transactions"] = merged
  BY <1>1, <1>7 DEF IInv, Typed, Store!Tables
<1>9. QED
  BY <1>5, <1>6, <1>8

LEMMA LandKeepsIInv == IInv /\ Land => IInv'
<1>. SUFFICES ASSUME IInv, Land PROVE IInv'
  OBVIOUS
<1>1. /\ rules' = rules /\ report' = report /\ offered' = offered
      /\ pending # Store!NoCall
      /\ pending' = Store!NoCall
  BY DEF Land, Store!Accept
<1>2. Typed'
  BY <1>1, Landing DEF IInv, Typed
<1>3. BatchIsTheOffer'
  BY <1>1 DEF BatchIsTheOffer
<1>4. TakenIsLanded'
  <2>1. SUFFICES ASSUME NEW k \in Ids PROVE landed'["transactions"][k] = taken'[k]
    BY DEF TakenIsLanded
  <2>2. taken'[k] = IF offered.report[k] = Absent THEN taken[k] ELSE Offer(k)
    BY DEF Land
  <2>3. landed["transactions"][k] = taken[k]
    BY DEF IInv, TakenIsLanded
  <2>4. QED
    BY <2>2, <2>3, Landing
<1>5. OldCategoriesStand'
  <2>1. SUFFICES ASSUME NEW k \in Ids,
                        landed'["transactions"][k] # Absent,
                        landed'["transactions"][k].category # Uncategorized
                 PROVE  landed'["transactions"][k].category
                          = Categorize(rules, landed'["transactions"][k].source)
    BY <1>1 DEF OldCategoriesStand
  <2>2. CASE landed["transactions"][k] # Absent
    BY <2>1, <2>2, Landing DEF IInv, OldCategoriesStand
  <2>3. CASE landed["transactions"][k] = Absent
    <3>1. landed'["transactions"][k] = Offer(k)
      BY <2>1, <2>3, Landing
    <3>2. offered.rules = rules
      BY <1>1 DEF IInv, BatchIsTheOffer
    <3>3. QED
      BY <3>1, <3>2 DEF Offer
  <2>4. QED
    BY <2>2, <2>3
<1>6. QED
  BY <1>2, <1>3, <1>4, <1>5 DEF IInv

LEMMA ReportKeepsIInv ==
    ASSUME NEW k \in Ids, NEW transaction \in Transactions \cup {Absent}, IInv, Report(k, transaction)
    PROVE  IInv'
<1>1. /\ rules' = rules /\ landed' = landed /\ offered' = offered /\ taken' = taken
      /\ pending' = pending /\ response' = response
      /\ report' = [report EXCEPT ![k] = transaction]
  BY DEF Report, storeVars
<1>2. report' \in Reports
  BY <1>1 DEF IInv, Typed, Reports
<1>3. \A j : Offer(j)' = Offer(j)
  BY <1>1 DEF Offer
<1>4. QED
  BY <1>1, <1>2, <1>3 DEF IInv, Typed, BatchIsTheOffer, TakenIsLanded, OldCategoriesStand

LEMMA AppendKeepsIInv ==
    ASSUME NEW rule \in LateRules, IInv, AppendRule(rule)
    PROVE  IInv'
<1>1. rule \in KeywordRules /\ rules \in Rules
  BY RulesAssumption DEF IInv, Typed
<1>2. PICK labels : rules = [labels |-> labels, keywords |-> rules.keywords]
  BY <1>1 DEF Rules
<1>3. rules.keywords \in Seq(KeywordRules)
  BY <1>1 DEF Rules
<1>4. rules' = [labels |-> labels, keywords |-> Append(rules.keywords, rule)]
  BY <1>2 DEF AppendRule
<1>5. rules'.labels = rules.labels /\ rules'.keywords = Append(rules.keywords, rule)
  BY <1>2, <1>4
<1>6. rules' \in Rules
  <2>1. Append(rules.keywords, rule) \in Seq(KeywordRules)
    BY <1>1, <1>3
  <2>2. \E known \in SUBSET Labels : labels \in [known -> Categories]
    BY <1>1, <1>2 DEF Rules
  <2>3. QED
    BY <1>4, <2>1, <2>2 DEF Rules
<1>7. /\ landed' = landed /\ report' = report /\ offered' = offered /\ taken' = taken
      /\ response' = response /\ pending' = pending /\ pending = Store!NoCall
  BY DEF AppendRule, storeVars
<1>8. \A transaction : Categorize(rules, transaction) # Uncategorized =>
          Categorize(rules', transaction) = Categorize(rules, transaction)
  BY <1>1, <1>3, <1>5, AppendedRule
<1>9. OldCategoriesStand'
  BY <1>7, <1>8 DEF OldCategoriesStand, IInv
<1>10. \A k : Offer(k)' = Offer(k)
  BY <1>7 DEF Offer
<1>11. QED
  BY <1>6, <1>7, <1>9, <1>10 DEF IInv, Typed, BatchIsTheOffer, TakenIsLanded

LEMMA NextKeepsIInv == IInv /\ [Next]_vars => IInv'
<1>. SUFFICES ASSUME IInv, [Next]_vars PROVE IInv'
  OBVIOUS
<1>1. CASE Run
  BY <1>1, RunKeepsIInv
<1>2. CASE Land
  BY <1>2, LandKeepsIInv
<1>3. CASE Conflict \/ Die
  <2>1. /\ rules' = rules /\ landed' = landed /\ report' = report /\ offered' = offered
        /\ taken' = taken /\ pending' = Store!NoCall
    BY <1>3 DEF Conflict, Die, Store!Reject, Store!Fail
  <2>2. QED
    BY <2>1 DEF IInv, Typed, BatchIsTheOffer, TakenIsLanded, OldCategoriesStand
<1>4. CASE \E k \in Ids, transaction \in Transactions \cup {Absent} : Report(k, transaction)
  BY <1>4, ReportKeepsIInv
<1>5. CASE \E rule \in LateRules : AppendRule(rule)
  BY <1>5, AppendKeepsIInv
<1>6. CASE UNCHANGED vars
  <2>1. \A k : Offer(k)' = Offer(k)
    BY <1>6 DEF vars, Offer
  <2>2. QED
    BY <1>6, <2>1 DEF vars, IInv, Typed, BatchIsTheOffer, TakenIsLanded, OldCategoriesStand
<1>7. QED
  BY <1>1, <1>2, <1>3, <1>4, <1>5, <1>6 DEF Next

LEMMA SpecIInv == Spec => []IInv
<1>1. Init => IInv
  BY InitIInv
<1>2. IInv /\ [Next]_vars => IInv'
  BY NextKeepsIInv
<1>3. QED
  BY <1>1, <1>2, PTL DEF Spec

(* Rules that are only ever appended to never turn against what they have  *)
(* categorized: a landed row has the category the deployed rules give it,  *)
(* or none (categorize, LandingStore.insert_new_transactions).             *)
THEOREM CategoriesStand == Spec => []OldCategoriesStand
<1>1. IInv => OldCategoriesStand
  BY DEF IInv
<1>2. QED
  BY <1>1, SpecIInv, PTL

(* No run fails for a rule that was appended, over a row that has a        *)
(* category: the batch that is rejected holds an amended transaction, or   *)
(* one that had landed uncategorized (LandingStore.insert_new_transactions,*)
(* apply_category).                                                        *)
THEOREM ConflictsNeedAmendments == Spec => OnlyUncategorizedRowsConflict
<1> DEFINE Blame ==
              \E i \in DOMAIN pending.batch :
                  LET row == landed["transactions"][pending.batch[i].id]
                  IN  /\ row # Absent
                      /\ \/ row.source # pending.batch[i].content.source
                         \/ row.category = Uncategorized
           Blamed == response'.kind = "conflict" /\ pending # Store!NoCall => Blame
<1>1. IInv /\ [Next]_vars => [Blamed]_vars
  <2>. SUFFICES ASSUME IInv, [Next]_vars, response'.kind = "conflict", pending # Store!NoCall
                PROVE  Blame
    OBVIOUS
  <2>1. response.kind = "none" /\ pending.table = "transactions" /\ offered.rules = rules
    BY DEF IInv, BatchIsTheOffer, Store!NoAnswer, Store!Answer
  <2>2. Conflict
    BY <2>1
    DEF Next, Run, Land, Die, Report, AppendRule, vars, storeVars,
        Store!Submit, Store!Accept, Store!Fail, Store!NoAnswer, Store!Answer
  <2>3. ~Store!Consistent(landed["transactions"], pending.batch)
    BY <2>1, <2>2 DEF Conflict, Store!Reject
  <2>4. ASSUME NEW i \in DOMAIN pending.batch
        PROVE  /\ pending.batch[i].id \in Ids
               /\ offered.report[pending.batch[i].id] # Absent
               /\ pending.batch[i].content = Offer(pending.batch[i].id)
    <3>1. PICK k \in Ids : /\ offered.report[k] # Absent
                           /\ pending.batch[i] = [id |-> k, content |-> Offer(k)]
      BY DEF IInv, BatchIsTheOffer
    <3>2. pending.batch[i].id = k /\ pending.batch[i].content = Offer(k)
      BY <3>1
    <3>3. QED
      BY <3>1, <3>2
  <2>5. \A i, j \in DOMAIN pending.batch :
           pending.batch[i].id = pending.batch[j].id => pending.batch[i].content = pending.batch[j].content
    BY <2>4
  <2>6. PICK i \in DOMAIN pending.batch :
           landed["transactions"][pending.batch[i].id] \notin {Absent, pending.batch[i].content}
    BY <2>3, <2>5 DEF Store!Consistent
  <2>7. PICK k \in Ids : k = pending.batch[i].id
    BY <2>4
  <2>8. landed["transactions"][k] # Absent /\ landed["transactions"][k] # Offer(k)
    BY <2>4, <2>6, <2>7
  <2>9. landed["transactions"][k] \in Contents
    BY <2>8 DEF IInv, Typed, LandedRows, Store!Tables
  <2>10. CASE landed["transactions"][k].category # Uncategorized
    <3>1. landed["transactions"][k].category = Categorize(rules, landed["transactions"][k].source)
      BY <2>8, <2>10 DEF IInv, OldCategoriesStand
    <3>2. landed["transactions"][k].source # offered.report[k]
      BY <2>1, <2>8, <2>9, <3>1 DEF Offer, Contents
    <3>3. pending.batch[i].content.source = offered.report[k]
      BY <2>4, <2>7, OfferParts
    <3>4. QED
      BY <2>7, <2>8, <3>2, <3>3
  <2>11. QED
    BY <2>7, <2>8, <2>10
<1>2. QED
  BY <1>1, SpecIInv, PTL DEF Spec, OnlyUncategorizedRowsConflict

-----------------------------------------------------------------------------
(* The mart *)

LEMMA RowType ==
    ASSUME NEW row \in Contents
    PROVE  /\ row # Absent
           /\ row.source.amount \in Int
           /\ row.source \in Transactions
  BY TransactionsAssumption, AbsentAssumption DEF Contents, Valid, Transaction

(* LandedRows that are added to a table take nothing from any bucket. *)
LEMMA MartGrows ==
    ASSUME NEW rows \in LandedRows, NEW more \in LandedRows,
           \A k \in Ids : rows[k] # Absent => more[k] = rows[k],
           NEW bucket \in DOMAIN BuildSpendMart(rows)
    PROVE  /\ bucket \in DOMAIN BuildSpendMart(more)
           /\ BuildSpendMart(rows)[bucket].total_spend <= BuildSpendMart(more)[bucket].total_spend
           /\ BuildSpendMart(rows)[bucket].transaction_count
                <= BuildSpendMart(more)[bucket].transaction_count
<1> DEFINE C(r) == {k \in Ids : Counted(r[k])}
           In(r) == {k \in C(r) : Bucket(r[k]) = bucket}
           Spent(r) == [k \in C(r) |-> -r[k].source.amount]
<1>1. \A k \in C(rows) : k \in C(more) /\ more[k] = rows[k]
  BY DEF Counted
<1>2. In(rows) \subseteq In(more)
  BY <1>1
<1>3. \A r : IsFiniteSet(C(r)) /\ IsFiniteSet(In(r))
  <2>1. TAKE r
  <2>2. C(r) \subseteq Ids /\ In(r) \subseteq Ids
    OBVIOUS
  <2>3. QED
    BY <2>2, IdsAssumption, FS_Subset
<1>4. \A k \in In(more) : Spent(more)[k] \in Nat
  <2>1. TAKE k \in In(more)
  <2>2. more[k] \in Contents /\ more[k].source.amount < 0
    BY DEF Counted, LandedRows
  <2>3. more[k].source.amount \in Int
    BY <2>2, RowType
  <2>4. QED
    BY <2>2, <2>3
<1>5. \A k \in In(rows) : Spent(rows)[k] = Spent(more)[k]
  BY <1>1
<1>6. SumFunctionOnSet(Spent(rows), In(rows)) <= SumFunctionOnSet(Spent(more), In(more))
  <2>. HIDE DEF Spent, In
  <2>1. QED
    BY <1>2, <1>3, <1>4, <1>5, SumGrows
<1>7. Cardinality(In(rows)) <= Cardinality(In(more))
  <2>. HIDE DEF In
  <2>1. QED
    BY <1>2, <1>3, FS_Subset
<1>8. \A r : /\ DOMAIN BuildSpendMart(r) = {Bucket(r[k]) : k \in C(r)}
             /\ bucket \in DOMAIN BuildSpendMart(r) =>
                   BuildSpendMart(r)[bucket]
                     = [total_spend |-> SumFunctionOnSet(Spent(r), In(r)),
                        transaction_count |-> Cardinality(In(r))]
  BY DEF BuildSpendMart
<1>9. bucket \in DOMAIN BuildSpendMart(more)
  <2>1. PICK k \in C(rows) : bucket = Bucket(rows[k])
    BY <1>8
  <2>2. k \in C(more) /\ bucket = Bucket(more[k])
    BY <1>1, <2>1
  <2>. HIDE DEF C
  <2>3. QED
    BY <1>8, <2>2
<1>. HIDE DEF C, In, Spent
<1>10. QED
  BY <1>6, <1>7, <1>8, <1>9

(* What the mart has shown it never takes back: what has landed stays as   *)
(* it landed, and only outflows are added up (build_spend_mart).           *)
THEOREM ShownSpendStays == Spec => SpendNeverShrinks
<1> DEFINE Shown ==
              \A bucket \in DOMAIN Mart :
                  /\ bucket \in DOMAIN Mart'
                  /\ Mart[bucket].total_spend <= Mart'[bucket].total_spend
                  /\ Mart[bucket].transaction_count <= Mart'[bucket].transaction_count
<1>1. IInv /\ IInv' /\ [Next]_vars => [Shown]_vars
  <2>. SUFFICES ASSUME IInv, IInv', [Next]_vars PROVE Shown
    OBVIOUS
  <2>1. landed["transactions"] \in LandedRows /\ landed'["transactions"] \in LandedRows
    BY DEF IInv, Typed, Store!Tables
  <2>2. \A k \in Ids : landed["transactions"][k] # Absent =>
            landed'["transactions"][k] = landed["transactions"][k]
    <3>1. CASE Land
      BY <3>1, Landing
    <3>2. CASE landed' = landed
      BY <3>2
    <3>3. Land \/ landed' = landed
      BY DEF Next, Run, Conflict, Die, Report, AppendRule, vars, storeVars,
             Store!Submit, Store!Reject, Store!Fail
    <3>4. QED
      BY <3>1, <3>2, <3>3
  <2>3. Mart' = BuildSpendMart(landed'["transactions"])
    BY DEF Mart
  <2>4. QED
    BY <2>1, <2>2, <2>3, MartGrows DEF Mart
<1>2. QED
  BY <1>1, SpecIInv, PTL DEF Spec, SpendNeverShrinks

(* However runs fail, are replayed, or no longer find what was reported,   *)
(* the mart holds just the dated outflows that runs that succeeded were    *)
(* ever offered, each once, as last offered, by month and by the category  *)
(* of that run's rules (build_spend_mart, run_ingestion).                  *)
THEOREM MartIsExact == Spec => []MartIsWhatTheRunsSaw
<1>1. IInv => MartIsWhatTheRunsSaw
  <2> DEFINE spent == {k \in Ids : taken[k] # Absent /\ taken[k].source.amount < 0
                                   /\ taken[k].source.date # None}
             rows == landed["transactions"]
             bucketOf == [k \in spent |-> Bucket(rows[k])]
             Alike(k) == {j \in spent : /\ taken[j].source.date = taken[k].source.date
                                        /\ taken[j].category = taken[k].category}
             In(bucket) == {j \in spent : Bucket(rows[j]) = bucket}
             amounts == [j \in spent |-> taken[j].source.amount]
             costs == [j \in spent |-> -rows[j].source.amount]
  <2>. SUFFICES ASSUME IInv
                PROVE  /\ Cardinality(spent) = SumFunction([bucket \in DOMAIN Mart |-> Mart[bucket].transaction_count])
                       /\ \A k \in spent :
                             LET bucket == [month |-> taken[k].source.date, category |-> taken[k].category]
                             IN  /\ bucket \in DOMAIN Mart
                                 /\ Mart[bucket].total_spend = -SumFunctionOnSet(amounts, Alike(k))
    BY DEF MartIsWhatTheRunsSaw
  <2>1. \A k \in Ids : rows[k] = taken[k]
    BY DEF IInv, TakenIsLanded
  <2>2. rows \in LandedRows
    BY DEF IInv, Typed, Store!Tables
  <2>3. {k \in Ids : Counted(rows[k])} = spent
    BY <2>1 DEF Counted
  <2>4. /\ DOMAIN Mart = {bucketOf[k] : k \in spent}
        /\ \A bucket \in DOMAIN Mart :
              /\ Mart[bucket].total_spend = SumFunctionOnSet(costs, In(bucket))
              /\ Mart[bucket].transaction_count = Cardinality(Members(spent, bucketOf, bucket))
    <3>. HIDE DEF rows, spent
    <3>1. Mart = [bucket \in {Bucket(rows[k]) : k \in spent} |->
                     [total_spend |-> SumFunctionOnSet(costs, In(bucket)),
                      transaction_count |-> Cardinality(In(bucket))]]
      BY <2>3 DEF Mart, BuildSpendMart, rows
    <3>2. {Bucket(rows[k]) : k \in spent} = {bucketOf[k] : k \in spent}
      OBVIOUS
    <3>3. \A bucket : In(bucket) = Members(spent, bucketOf, bucket)
      BY DEF Members
    <3>. HIDE DEF bucketOf, costs, In
    <3>4. QED
      BY <3>1, <3>2, <3>3
  <2>5. IsFiniteSet(spent) /\ \A k \in spent : IsFiniteSet(Alike(k))
    <3>1. spent \subseteq Ids /\ \A k \in spent : Alike(k) \subseteq Ids
      OBVIOUS
    <3>. HIDE DEF spent, Alike
    <3>2. QED
      BY <3>1, IdsAssumption, FS_Subset
  <2>6. Cardinality(spent) = SumFunction([bucket \in DOMAIN Mart |-> Mart[bucket].transaction_count])
    <3>1. PICK counts : counts = [bucket \in DOMAIN Mart |-> Mart[bucket].transaction_count]
      OBVIOUS
    <3>2. bucketOf \in [spent -> DOMAIN Mart] /\ \A b \in DOMAIN Mart : \E k \in spent : bucketOf[k] = b
      BY <2>4
    <3>. HIDE DEF spent, bucketOf
    <3>3. SumFunction(counts) = Cardinality(spent)
      <4>1. PICK B, C, f :
               /\ B = DOMAIN Mart /\ C = spent /\ f = bucketOf
        OBVIOUS
      <4>2. DOMAIN counts = B
        BY <3>1, <4>1
      <4>3. \A b \in B : counts[b] = Cardinality(Members(C, f, b))
        BY <2>4, <3>1, <4>1
      <4>4. IsFiniteSet(C) /\ f \in [C -> B] /\ \A b \in B : \E k \in C : f[k] = b
        BY <2>5, <3>2, <4>1
      <4>5. SumFunction(counts) = Cardinality(C)
        BY <4>2, <4>3, <4>4, SumOfCounts
      <4>6. QED
        BY <4>1, <4>5
    <3>4. QED
      BY <3>1, <3>3
  <2>7. ASSUME NEW k \in spent
        PROVE  LET bucket == [month |-> taken[k].source.date, category |-> taken[k].category]
               IN  /\ bucket \in DOMAIN Mart
                   /\ Mart[bucket].total_spend = -SumFunctionOnSet(amounts, Alike(k))
    <3> DEFINE bucket == [month |-> taken[k].source.date, category |-> taken[k].category]
    <3>1. \A j \in spent : Bucket(rows[j]) = [month |-> taken[j].source.date, category |-> taken[j].category]
      BY <2>1 DEF Bucket
    <3>2. bucket \in DOMAIN Mart
      BY <2>4, <3>1
    <3>3. In(bucket) = Alike(k)
      <4>1. \A j \in spent :
               [month |-> taken[j].source.date, category |-> taken[j].category] = bucket
                 <=> /\ taken[j].source.date = taken[k].source.date
                     /\ taken[j].category = taken[k].category
        OBVIOUS
      <4>. HIDE DEF bucket, spent, rows
      <4>2. QED
        BY <3>1, <4>1
    <3>4. \A j \in Alike(k) : amounts[j] \in Int /\ costs[j] = -amounts[j]
      <4>1. TAKE j \in Alike(k)
      <4>2. j \in Ids /\ j \in spent /\ rows[j] = taken[j] /\ taken[j] # Absent
        BY <2>1
      <4>3. rows[j] \in Contents
        BY <2>2, <4>2 DEF LandedRows
      <4>4. taken[j].source.amount \in Int
        BY <4>2, <4>3, RowType
      <4>5. QED
        BY <4>2, <4>4
    <3>5. SumFunctionOnSet(costs, Alike(k)) = -SumFunctionOnSet(amounts, Alike(k))
      <4>. HIDE DEF costs, amounts, Alike
      <4>1. QED
        BY <2>5, <3>4, SumNegated
    <3>6. QED
      BY <2>4, <3>2, <3>3, <3>5
  <2>8. QED
    BY <2>6, <2>7
<1>2. QED
  BY <1>1, SpecIInv, PTL
=============================================================================
