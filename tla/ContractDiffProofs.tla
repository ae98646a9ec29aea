-------------------------- MODULE ContractDiffProofs --------------------------
(***************************************************************************)
(* What the comparison of contracts obeys, for contracts of any size: the  *)
(* demanded bump obeys a triangle inequality, and so does the order of     *)
(* versions; and what counts as a reordering is where the lists of names   *)
(* differ that the code compares.                                          *)
(***************************************************************************)
EXTENDS ContractDiff, SequenceTheorems, WellFoundedInduction, TLAPS

-----------------------------------------------------------------------------
(* When the demanded bump is at least of a level. *)

LEMMA BumpLevels ==
    ASSUME NEW changes
    PROVE  /\ RequiredBump(changes) \in {NONE, PATCH, MINOR, MAJOR}
           /\ RequiredBump(changes) >= MAJOR <=> \E c \in changes : c.type \in Breaking
           /\ RequiredBump(changes) >= MINOR <=>
                 \E c \in changes : c.type \in Breaking \cup NonBreaking
           /\ RequiredBump(changes) >= PATCH <=> changes # {}
<1>1. CASE \E c \in changes : c.type \in Breaking
  BY <1>1 DEF RequiredBump, NONE, PATCH, MINOR, MAJOR
<1>2. CASE ~(\E c \in changes : c.type \in Breaking) /\ \E c \in changes : c.type \in NonBreaking
  BY <1>2 DEF RequiredBump, NONE, PATCH, MINOR, MAJOR
<1>3. CASE ~(\E c \in changes : c.type \in Breaking) /\ ~(\E c \in changes : c.type \in NonBreaking)
  BY <1>3 DEF RequiredBump, NONE, PATCH, MINOR, MAJOR
<1>4. QED
  BY <1>1, <1>2, <1>3

-----------------------------------------------------------------------------
(* The changes of one field, as conditions on its two forms. *)

BothEnums(f, g) == f.enum_values # NoEnum /\ g.enum_values # NoEnum

Breaks(f, g) ==
    \/ f.type # g.type
    \/ f.nullable # g.nullable
    \/ ~f.required /\ g.required
    \/ ~f.primary_key /\ g.primary_key
    \/ f.primary_key /\ ~g.primary_key
    \/ f.enum_values = NoEnum /\ g.enum_values # NoEnum
    \/ f.enum_values # NoEnum /\ g.enum_values = NoEnum
    \/ BothEnums(f, g) /\ \E v \in Values(f.enum_values) : v \notin Values(g.enum_values)

Extends(f, g) ==
    \/ f.required /\ ~g.required
    \/ BothEnums(f, g) /\ \E v \in Values(g.enum_values) : v \notin Values(f.enum_values)

LEMMA EnumMembers ==
    ASSUME NEW f, NEW g, NEW c
    PROVE  c \in DiffEnum(f, g) <=>
              \/ f.enum_values = NoEnum /\ g.enum_values # NoEnum
                 /\ c = Change("enum_constraint_added", f.name)
              \/ f.enum_values # NoEnum /\ g.enum_values = NoEnum
                 /\ c = Change("enum_constraint_removed", f.name)
              \/ BothEnums(f, g)
                 /\ (\E v \in Values(f.enum_values) : v \notin Values(g.enum_values))
                 /\ c = Change("enum_value_removed", f.name)
              \/ BothEnums(f, g)
                 /\ (\E v \in Values(g.enum_values) : v \notin Values(f.enum_values))
                 /\ c = Change("enum_value_added", f.name)
  BY DEF DiffEnum, When, BothEnums

LEMMA FieldMembers ==
    ASSUME NEW f, NEW g, NEW c
    PROVE  c \in DiffField(f, g) <=>
              \/ f.type # g.type /\ c = Change("type_changed", f.name)
              \/ f.nullable # g.nullable /\ c = Change("nullability_changed", f.name)
              \/ ~f.required /\ g.required /\ c = Change("field_became_required", f.name)
              \/ f.required /\ ~g.required /\ c = Change("field_became_optional", f.name)
              \/ ~f.primary_key /\ g.primary_key /\ c = Change("primary_key_added", f.name)
              \/ f.primary_key /\ ~g.primary_key /\ c = Change("primary_key_removed", f.name)
              \/ c \in DiffEnum(f, g)
              \/ f.doc # g.doc /\ c = Change("doc_changed", f.name)
  BY DEF DiffField, When

LEMMA FieldBreaking ==
    ASSUME NEW f, NEW g
    PROVE  (\E c \in DiffField(f, g) : c.type \in Breaking) <=> Breaks(f, g)
<1>1. ASSUME NEW c \in DiffField(f, g), c.type \in Breaking
      PROVE  Breaks(f, g)
  BY <1>1, FieldMembers, EnumMembers DEF Breaks, Change, Breaking
<1>2. ASSUME Breaks(f, g)
      PROVE  \E c \in DiffField(f, g) : c.type \in Breaking
  <2>1. \A t : Change(t, f.name).type = t
    BY DEF Change
  <2>2. \E t \in Breaking : Change(t, f.name) \in DiffField(f, g)
    BY <1>2, FieldMembers, EnumMembers DEF Breaks, Breaking
  <2>3. QED
    BY <2>1, <2>2
<1>3. QED
  BY <1>1, <1>2

LEMMA FieldExtending ==
    ASSUME NEW f, NEW g
    PROVE  (\E c \in DiffField(f, g) : c.type \in NonBreaking) <=> Extends(f, g)
<1>1. ASSUME NEW c \in DiffField(f, g), c.type \in NonBreaking
      PROVE  Extends(f, g)
  BY <1>1, FieldMembers, EnumMembers DEF Extends, Change, NonBreaking
<1>2. ASSUME Extends(f, g)
      PROVE  \E c \in DiffField(f, g) : c.type \in NonBreaking
  <2>1. \A t : Change(t, f.name).type = t
    BY DEF Change
  <2>2. \E t \in NonBreaking : Change(t, f.name) \in DiffField(f, g)
    BY <1>2, FieldMembers, EnumMembers DEF Extends, NonBreaking
  <2>3. QED
    BY <2>1, <2>2
<1>3. QED
  BY <1>1, <1>2

LEMMA FieldUnchanged ==
    ASSUME NEW f, NEW g
    PROVE  DiffField(f, g) # {} <=> Breaks(f, g) \/ Extends(f, g) \/ f.doc # g.doc
<1>1. ASSUME NEW c \in DiffField(f, g)
      PROVE  Breaks(f, g) \/ Extends(f, g) \/ f.doc # g.doc
  BY <1>1, FieldMembers, EnumMembers DEF Breaks, Extends
<1>2. f.doc # g.doc => Change("doc_changed", f.name) \in DiffField(f, g)
  BY FieldMembers
<1>3. QED
  BY <1>1, <1>2, FieldBreaking, FieldExtending

LEMMA FieldTriangle ==
    ASSUME NEW f, NEW g, NEW h,
           f.nullable \in BOOLEAN, g.nullable \in BOOLEAN, h.nullable \in BOOLEAN,
           f.required \in BOOLEAN, g.required \in BOOLEAN, h.required \in BOOLEAN,
           f.primary_key \in BOOLEAN, g.primary_key \in BOOLEAN, h.primary_key \in BOOLEAN
    PROVE  /\ Breaks(f, h) => Breaks(f, g) \/ Breaks(g, h)
           /\ Extends(f, h) =>
                 Breaks(f, g) \/ Breaks(g, h) \/ Extends(f, g) \/ Extends(g, h)
  BY DEF Breaks, Extends, BothEnums

-----------------------------------------------------------------------------
(* The changes of a contract, likewise. *)

Common(a, b) == Names(a) \cap Names(b)

BreaksContract(a, b) ==
    \/ Names(a) \ Names(b) # {}
    \/ \E n \in Names(b) \ Names(a) : FieldNamed(b, n).required
    \/ \E n \in Common(a, b) : Breaks(FieldNamed(a, n), FieldNamed(b, n))

ExtendsContract(a, b) ==
    \/ Names(b) \ Names(a) # {}
    \/ Reordered(a, b)
    \/ \E n \in Common(a, b) : Extends(FieldNamed(a, n), FieldNamed(b, n))

RewordsContract(a, b) ==
    \E n \in Common(a, b) : FieldNamed(a, n).doc # FieldNamed(b, n).doc

LEMMA DiffMembers ==
    ASSUME NEW a, NEW b, NEW c
    PROVE  c \in Diff(a, b) <=>
              \/ \E n \in Names(a) \ Names(b) : c = Change("field_removed", n)
              \/ \E n \in Common(a, b) : c \in DiffField(FieldNamed(a, n), FieldNamed(b, n))
              \/ \E n \in Names(b) \ Names(a) : c = FieldAdded(FieldNamed(b, n))
              \/ Reordered(a, b) /\ c = Change("fields_reordered", "the order")
<1>1. c \in RemovedFields(a, b)
         <=> \E n \in Names(a) \ Names(b) : c = Change("field_removed", n)
  BY DEF RemovedFields
<1>2. c \in ChangedFields(a, b)
         <=> \E n \in Common(a, b) : c \in DiffField(FieldNamed(a, n), FieldNamed(b, n))
  BY DEF ChangedFields, Common
<1>3. c \in AddedFields(a, b)
         <=> \E n \in Names(b) \ Names(a) : c = FieldAdded(FieldNamed(b, n))
  BY DEF AddedFields
<1>4. c \in MovedFields(a, b)
         <=> Reordered(a, b) /\ c = Change("fields_reordered", "the order")
  BY DEF MovedFields, When
<1>5. QED
  BY <1>1, <1>2, <1>3, <1>4 DEF Diff

LEMMA ChangeType == \A t, n : Change(t, n).type = t
  BY DEF Change

LEMMA DiffBreaking ==
    ASSUME NEW a, NEW b
    PROVE  (\E c \in Diff(a, b) : c.type \in Breaking) <=> BreaksContract(a, b)
<1>1. ASSUME NEW c \in Diff(a, b), c.type \in Breaking
      PROVE  BreaksContract(a, b)
  <2>1. CASE \E n \in Names(a) \ Names(b) : c = Change("field_removed", n)
    BY <2>1 DEF BreaksContract
  <2>2. CASE \E n \in Common(a, b) : c \in DiffField(FieldNamed(a, n), FieldNamed(b, n))
    <3>1. PICK n \in Common(a, b) : c \in DiffField(FieldNamed(a, n), FieldNamed(b, n))
      BY <2>2
    <3>2. Breaks(FieldNamed(a, n), FieldNamed(b, n))
      BY <1>1, <3>1, FieldBreaking
    <3>3. QED
      BY <3>2 DEF BreaksContract
  <2>3. CASE \E n \in Names(b) \ Names(a) : c = FieldAdded(FieldNamed(b, n))
    <3>1. PICK n \in Names(b) \ Names(a) : c = FieldAdded(FieldNamed(b, n))
      BY <2>3
    <3>2. ~FieldNamed(b, n).required => c.type = "optional_field_added"
      BY <3>1, ChangeType DEF FieldAdded
    <3>3. FieldNamed(b, n).required
      BY <1>1, <3>2 DEF Breaking
    <3>4. QED
      BY <3>3 DEF BreaksContract
  <2>4. CASE c = Change("fields_reordered", "the order")
    <3>1. c.type = "fields_reordered"
      BY <2>4, ChangeType
    <3>2. QED
      BY <1>1, <3>1 DEF Breaking
  <2>5. \/ \E n \in Names(a) \ Names(b) : c = Change("field_removed", n)
        \/ \E n \in Common(a, b) : c \in DiffField(FieldNamed(a, n), FieldNamed(b, n))
        \/ \E n \in Names(b) \ Names(a) : c = FieldAdded(FieldNamed(b, n))
        \/ c = Change("fields_reordered", "the order")
    BY <1>1, DiffMembers
  <2>6. QED
    BY <2>1, <2>2, <2>3, <2>4, <2>5, Zenon
<1>2. ASSUME BreaksContract(a, b)
      PROVE  \E c \in Diff(a, b) : c.type \in Breaking
  <2>1. ASSUME NEW n \in Names(a) \ Names(b)
        PROVE  \E c \in Diff(a, b) : c.type \in Breaking
    <3>1. Change("field_removed", n) \in Diff(a, b)
      BY DiffMembers
    <3>2. QED
      BY <3>1, ChangeType DEF Breaking
  <2>2. ASSUME NEW n \in Names(b) \ Names(a), FieldNamed(b, n).required
        PROVE  \E c \in Diff(a, b) : c.type \in Breaking
    <3>1. FieldAdded(FieldNamed(b, n)) \in Diff(a, b)
      BY DiffMembers
    <3>2. FieldAdded(FieldNamed(b, n)).type = "required_field_added"
      BY <2>2, ChangeType DEF FieldAdded
    <3>3. QED
      BY <3>1, <3>2 DEF Breaking
  <2>3. ASSUME NEW n \in Common(a, b), Breaks(FieldNamed(a, n), FieldNamed(b, n))
        PROVE  \E c \in Diff(a, b) : c.type \in Breaking
    BY <2>3, FieldBreaking, DiffMembers
  <2>4. QED
    BY <1>2, <2>1, <2>2, <2>3 DEF BreaksContract
<1>3. QED
  BY <1>1, <1>2

LEMMA DiffExtending ==
    ASSUME NEW a, NEW b
    PROVE  (\E c \in Diff(a, b) : c.type \in Breaking \cup NonBreaking)
              <=> BreaksContract(a, b) \/ ExtendsContract(a, b)
<1>1. ASSUME NEW c \in Diff(a, b), c.type \in NonBreaking
      PROVE  ExtendsContract(a, b)
  <2>1. CASE \E n \in Names(a) \ Names(b) : c = Change("field_removed", n)
    BY <1>1, <2>1, ChangeType DEF NonBreaking
  <2>2. CASE \E n \in Common(a, b) : c \in DiffField(FieldNamed(a, n), FieldNamed(b, n))
    BY <1>1, <2>2, FieldExtending DEF ExtendsContract
  <2>3. CASE \E n \in Names(b) \ Names(a) : c = FieldAdded(FieldNamed(b, n))
    BY <2>3 DEF ExtendsContract
  <2>4. CASE Reordered(a, b)
    BY <2>4 DEF ExtendsContract
  <2>5. QED
    BY <2>1, <2>2, <2>3, <2>4, DiffMembers
<1>2. ASSUME ExtendsContract(a, b)
      PROVE  \E c \in Diff(a, b) : c.type \in Breaking \cup NonBreaking
  <2>1. ASSUME NEW n \in Names(b) \ Names(a)
        PROVE  \E c \in Diff(a, b) : c.type \in Breaking \cup NonBreaking
    <3>1. FieldAdded(FieldNamed(b, n)) \in Diff(a, b)
      BY DiffMembers
    <3>2. FieldAdded(FieldNamed(b, n)).type \in {"required_field_added", "optional_field_added"}
      BY ChangeType DEF FieldAdded
    <3>3. QED
      BY <3>1, <3>2 DEF Breaking, NonBreaking
  <2>2. ASSUME Reordered(a, b)
        PROVE  \E c \in Diff(a, b) : c.type \in Breaking \cup NonBreaking
    <3>1. Change("fields_reordered", "the order") \in Diff(a, b)
      BY <2>2, DiffMembers
    <3>2. QED
      BY <3>1, ChangeType DEF NonBreaking
  <2>3. ASSUME NEW n \in Common(a, b), Extends(FieldNamed(a, n), FieldNamed(b, n))
        PROVE  \E c \in Diff(a, b) : c.type \in Breaking \cup NonBreaking
    BY <2>3, FieldExtending, DiffMembers
  <2>4. QED
    BY <1>2, <2>1, <2>2, <2>3 DEF ExtendsContract
<1>3. QED
  BY <1>1, <1>2, DiffBreaking

LEMMA DiffNonEmpty ==
    ASSUME NEW a, NEW b
    PROVE  Diff(a, b) # {} <=>
              BreaksContract(a, b) \/ ExtendsContract(a, b) \/ RewordsContract(a, b)
<1>1. ASSUME NEW c \in Diff(a, b)
      PROVE  BreaksContract(a, b) \/ ExtendsContract(a, b) \/ RewordsContract(a, b)
  <2>1. CASE \E n \in Common(a, b) : c \in DiffField(FieldNamed(a, n), FieldNamed(b, n))
    BY <2>1, FieldUnchanged DEF BreaksContract, ExtendsContract, RewordsContract
  <2>2. CASE ~(\E n \in Common(a, b) : c \in DiffField(FieldNamed(a, n), FieldNamed(b, n)))
    BY <2>2, DiffMembers DEF BreaksContract, ExtendsContract
  <2>3. QED
    BY <2>1, <2>2
<1>2. ASSUME NEW n \in Common(a, b), FieldNamed(a, n).doc # FieldNamed(b, n).doc
      PROVE  Diff(a, b) # {}
  <2>1. PICK c : c \in DiffField(FieldNamed(a, n), FieldNamed(b, n))
    BY <1>2, FieldUnchanged
  <2>2. c \in Diff(a, b)
    BY <2>1, DiffMembers
  <2>3. QED
    BY <2>2
<1>3. QED
  BY <1>1, <1>2, DiffExtending DEF RewordsContract

-----------------------------------------------------------------------------
(* The triangle inequality. *)

LEMMA FieldTypes ==
    ASSUME NEW a, WellFormed(a), NEW n \in Names(a)
    PROVE  /\ FieldNamed(a, n).nullable \in BOOLEAN
           /\ FieldNamed(a, n).required \in BOOLEAN
           /\ FieldNamed(a, n).primary_key \in BOOLEAN
<1>1. \E i \in DOMAIN a.fields : a.fields[i].name = n
  BY DEF Names
<1>2. QED
  BY <1>1 DEF WellFormed, FieldNamed

LEMMA BreakingTriangle ==
    ASSUME NEW a, NEW b, NEW c, WellFormed(a), WellFormed(b), WellFormed(c),
           BreaksContract(a, c)
    PROVE  BreaksContract(a, b) \/ BreaksContract(b, c)
<1>1. CASE Names(a) \ Names(c) # {}
  BY <1>1 DEF BreaksContract
<1>2. ASSUME NEW n \in Names(c) \ Names(a), FieldNamed(c, n).required
      PROVE  BreaksContract(a, b) \/ BreaksContract(b, c)
  <2>1. CASE n \notin Names(b)
    BY <1>2, <2>1 DEF BreaksContract
  <2>2. CASE n \in Names(b) /\ FieldNamed(b, n).required
    BY <2>2 DEF BreaksContract
  <2>3. CASE n \in Names(b) /\ ~FieldNamed(b, n).required
    BY <1>2, <2>3 DEF BreaksContract, Breaks, Common
  <2>4. QED
    BY <2>1, <2>2, <2>3
<1>3. ASSUME NEW n \in Common(a, c), Breaks(FieldNamed(a, n), FieldNamed(c, n))
      PROVE  BreaksContract(a, b) \/ BreaksContract(b, c)
  <2>1. CASE n \notin Names(b)
    BY <2>1 DEF BreaksContract, Common
  <2>2. CASE n \in Names(b)
    BY <1>3, <2>2, FieldTypes, FieldTriangle DEF BreaksContract, Common
  <2>3. QED
    BY <2>1, <2>2
<1>4. QED
  BY <1>1, <1>2, <1>3 DEF BreaksContract

(* A pair of names that changes places does so in one of the two steps. *)
LEMMA Positions ==
    ASSUME NEW a, WellFormed(a)
    PROVE  DOMAIN a.fields \subseteq Nat
<1>1. \A n \in Nat : 1..n \subseteq Nat
  OBVIOUS
<1>2. QED
  BY <1>1 DEF WellFormed, IsList

(* The fields of one contract stand in one order. *)
LEMMA OneOrder ==
    ASSUME NEW a, WellFormed(a), NEW m, NEW n, Precedes(a, m, n)
    PROVE  m # n /\ ~Precedes(a, n, m)
<1>1. DOMAIN a.fields \subseteq Nat
  BY Positions
<1>2. \A i, j \in DOMAIN a.fields : a.fields[i].name = a.fields[j].name => i = j
  BY DEF WellFormed
<1>3. QED
  BY <1>1, <1>2 DEF Precedes

LEMMA ReorderedTriangle ==
    ASSUME NEW a, NEW b, NEW c, WellFormed(a), WellFormed(b), WellFormed(c),
           Reordered(a, c), Names(a) \subseteq Names(b)
    PROVE  Reordered(a, b) \/ Reordered(b, c)
<1>1. PICK m \in Common(a, c), n \in Common(a, c) : Precedes(a, m, n) /\ Precedes(c, n, m)
  BY DEF Reordered, Common
<1>2. m # n
  BY <1>1, OneOrder
<1>3. m \in Names(b) /\ n \in Names(b)
  BY DEF Common
<1>4. PICK i \in DOMAIN b.fields, j \in DOMAIN b.fields :
           b.fields[i].name = m /\ b.fields[j].name = n
  BY <1>3 DEF Names
<1>5. i < j \/ j < i
  <2>1. i \in Nat /\ j \in Nat
    BY Positions
  <2>2. QED
    BY <1>2, <1>4, <2>1
<1>6. Precedes(b, m, n) \/ Precedes(b, n, m)
  BY <1>4, <1>5 DEF Precedes
<1>7. QED
  BY <1>1, <1>3, <1>6 DEF Reordered, Common

LEMMA ExtendingTriangle ==
    ASSUME NEW a, NEW b, NEW c, WellFormed(a), WellFormed(b), WellFormed(c),
           ExtendsContract(a, c)
    PROVE  \/ BreaksContract(a, b) \/ BreaksContract(b, c)
           \/ ExtendsContract(a, b) \/ ExtendsContract(b, c)
<1> SUFFICES ASSUME Names(a) \subseteq Names(b)
             PROVE  \/ BreaksContract(a, b) \/ BreaksContract(b, c)
                    \/ ExtendsContract(a, b) \/ ExtendsContract(b, c)
  BY DEF BreaksContract
<1>1. CASE Names(c) \ Names(a) # {}
  BY <1>1 DEF ExtendsContract
<1>2. CASE Reordered(a, c)
  BY <1>2, ReorderedTriangle DEF ExtendsContract
<1>3. ASSUME NEW n \in Common(a, c), Extends(FieldNamed(a, n), FieldNamed(c, n))
      PROVE  \/ BreaksContract(a, b) \/ BreaksContract(b, c)
             \/ ExtendsContract(a, b) \/ ExtendsContract(b, c)
  BY <1>3, FieldTypes, FieldTriangle DEF BreaksContract, ExtendsContract, Common
<1>4. QED
  BY <1>1, <1>2, <1>3 DEF ExtendsContract

LEMMA RewordingTriangle ==
    ASSUME NEW a, NEW b, NEW c, RewordsContract(a, c)
    PROVE  BreaksContract(a, b) \/ RewordsContract(a, b) \/ RewordsContract(b, c)
  BY DEF BreaksContract, RewordsContract, Common

Bump(a, b) == RequiredBump(Diff(a, b))

(* What the two ends of a chain demand is demanded by one of its links. *)
THEOREM BumpTriangle ==
    ASSUME NEW a, NEW b, NEW c, WellFormed(a), WellFormed(b), WellFormed(c)
    PROVE  Bump(a, c) <= Bump(a, b) \/ Bump(a, c) <= Bump(b, c)
<1> DEFINE Triangle(level) ==
        Bump(a, c) >= level => Bump(a, b) >= level \/ Bump(b, c) >= level
<1>1. Triangle(MAJOR)
  BY BumpLevels, DiffBreaking, BreakingTriangle DEF Bump
<1>2. Triangle(MINOR)
  BY BumpLevels, DiffExtending, BreakingTriangle, ExtendingTriangle DEF Bump
<1>3. Triangle(PATCH)
  BY BumpLevels, DiffNonEmpty, BreakingTriangle, ExtendingTriangle, RewordingTriangle
     DEF Bump
<1>4. \A x, y \in {a, b, c} : Bump(x, y) \in 0..3
  BY BumpLevels DEF Bump, NONE, PATCH, MINOR, MAJOR
<1>5. QED
  BY <1>1, <1>2, <1>3, <1>4 DEF PATCH, MINOR, MAJOR

-----------------------------------------------------------------------------
(* Versions *)

LEMMA CoversTriangle ==
    ASSUME NEW u \in Version, NEW v \in Version, NEW w \in Version,
           NEW r \in 0..3, NEW s \in 0..3, NEW t \in 0..3,
           Covers(u, v, r), Covers(v, w, s), t <= r \/ t <= s
    PROVE  Covers(u, w, t)
  BY DEF Covers, Older, Version, PATCH, MINOR, MAJOR

LEMMA AcceptedIsCovered ==
    ASSUME NEW v \in Version, NEW w \in Version, NEW r \in 0..3, VersionChangeOK(v, w, r)
    PROVE  Covers(v, w, r)
  BY DEF VersionChangeOK, Covers, Older, Version, NONE, PATCH, MINOR, MAJOR

LEMMA NoDifference ==
    ASSUME NEW a, WellFormed(a)
    PROVE  Diff(a, a) = {}
<1>1. ~BreaksContract(a, a) /\ ~RewordsContract(a, a)
  BY FieldTypes DEF BreaksContract, RewordsContract, Breaks, BothEnums, Common
<1>2. ~Reordered(a, a)
  BY OneOrder DEF Reordered
<1>3. ~ExtendsContract(a, a)
  BY <1>2, FieldTypes DEF ExtendsContract, Extends, BothEnums, Common
<1>4. QED
  BY <1>1, <1>3, DiffNonEmpty

LEMMA SameContract ==
    ASSUME NEW a, WellFormed(a)
    PROVE  Discipline(a, a) /\ Compatible(a, a)
<1>1. a.version \in Version
  BY DEF WellFormed
<1>2. RequiredBump(Diff(a, a)) = NONE
  BY NoDifference DEF RequiredBump
<1>3. QED
  BY <1>1, <1>2
     DEF Discipline, Compatible, VersionChangeOK, Covers, Older, Version,
         NONE, PATCH, MINOR, MAJOR

(* One accepted step more keeps what has been kept so far. *)
LEMMA DisciplineStep ==
    ASSUME NEW a, NEW b, NEW c, WellFormed(a), WellFormed(b), WellFormed(c),
           Discipline(a, b), Compatible(b, c)
    PROVE  Discipline(a, c)
<1>1. a.version \in Version /\ b.version \in Version /\ c.version \in Version
  BY DEF WellFormed
<1>2. Bump(a, b) \in 0..3 /\ Bump(b, c) \in 0..3 /\ Bump(a, c) \in 0..3
  BY BumpLevels DEF Bump, NONE, PATCH, MINOR, MAJOR
<1>3. Covers(a.version, b.version, Bump(a, b))
  BY DEF Discipline, Bump
<1>4. Covers(b.version, c.version, Bump(b, c))
  BY <1>1, <1>2, AcceptedIsCovered DEF Compatible, Bump
<1>5. Covers(a.version, c.version, Bump(a, c))
  BY <1>1, <1>2, <1>3, <1>4, BumpTriangle, CoversTriangle
<1>6. QED
  BY <1>5 DEF Discipline, Bump

-----------------------------------------------------------------------------
(* Breaking changes of one field *)

BreaksAt(a, b, n) == \E change \in BreakingChanges(Diff(a, b)) : change.field = n

BreaksField(a, b, n) ==
    \/ n \in Names(a) \ Names(b)
    \/ n \in Names(b) \ Names(a) /\ FieldNamed(b, n).required
    \/ n \in Common(a, b) /\ Breaks(FieldNamed(a, n), FieldNamed(b, n))

LEMMA FieldNamedName ==
    ASSUME NEW a, NEW n \in Names(a)
    PROVE  FieldNamed(a, n).name = n
  BY DEF FieldNamed, Names

LEMMA ChangeField == \A t, n : Change(t, n).field = n
  BY DEF Change

LEMMA DiffFieldField ==
    ASSUME NEW f, NEW g, NEW c \in DiffField(f, g)
    PROVE  c.field = f.name
  BY FieldMembers, EnumMembers, ChangeField

LEMMA BreaksAtAsField ==
    ASSUME NEW a, NEW b, NEW n
    PROVE  BreaksAt(a, b, n) <=> BreaksField(a, b, n)
<1>1. ASSUME NEW c \in Diff(a, b), c.type \in Breaking, c.field = n
      PROVE  BreaksField(a, b, n)
  <2>1. CASE \E m \in Names(a) \ Names(b) : c = Change("field_removed", m)
    BY <1>1, <2>1, ChangeField DEF BreaksField
  <2>2. CASE \E m \in Common(a, b) : c \in DiffField(FieldNamed(a, m), FieldNamed(b, m))
    <3>1. PICK m \in Common(a, b) : c \in DiffField(FieldNamed(a, m), FieldNamed(b, m))
      BY <2>2
    <3>2. m = n
      BY <1>1, <3>1, DiffFieldField, FieldNamedName DEF Common
    <3>3. QED
      BY <1>1, <3>1, <3>2, FieldBreaking DEF BreaksField
  <2>3. CASE \E m \in Names(b) \ Names(a) : c = FieldAdded(FieldNamed(b, m))
    <3>1. PICK m \in Names(b) \ Names(a) : c = FieldAdded(FieldNamed(b, m))
      BY <2>3
    <3>2. c.field = m
      BY <3>1, ChangeField, FieldNamedName DEF FieldAdded
    <3>3. ~FieldNamed(b, m).required => c.type = "optional_field_added"
      BY <3>1, ChangeType DEF FieldAdded
    <3>4. FieldNamed(b, m).required
      BY <1>1, <3>3 DEF Breaking
    <3>5. QED
      BY <1>1, <3>1, <3>2, <3>4 DEF BreaksField
  <2>4. CASE c = Change("fields_reordered", "the order")
    <3>1. c.type = "fields_reordered"
      BY <2>4, ChangeType
    <3>2. QED
      BY <1>1, <3>1 DEF Breaking
  <2>5. QED
    BY <1>1, <2>1, <2>2, <2>3, <2>4, DiffMembers
<1>2. ASSUME BreaksField(a, b, n)
      PROVE  \E c \in Diff(a, b) : c.type \in Breaking /\ c.field = n
  <2>1. CASE n \in Names(a) \ Names(b)
    <3>1. Change("field_removed", n) \in Diff(a, b)
      BY <2>1, DiffMembers
    <3>2. QED
      BY <3>1, ChangeType, ChangeField DEF Breaking
  <2>2. CASE n \in Names(b) \ Names(a) /\ FieldNamed(b, n).required
    <3>1. FieldAdded(FieldNamed(b, n)) \in Diff(a, b)
      BY <2>2, DiffMembers
    <3>2. /\ FieldAdded(FieldNamed(b, n)).type = "required_field_added"
          /\ FieldAdded(FieldNamed(b, n)).field = n
      BY <2>2, ChangeType, ChangeField, FieldNamedName DEF FieldAdded
    <3>3. QED
      BY <3>1, <3>2 DEF Breaking
  <2>3. CASE n \in Common(a, b) /\ Breaks(FieldNamed(a, n), FieldNamed(b, n))
    <3>1. PICK c \in DiffField(FieldNamed(a, n), FieldNamed(b, n)) : c.type \in Breaking
      BY <2>3, FieldBreaking
    <3>2. c.field = n
      BY <2>3, <3>1, DiffFieldField, FieldNamedName DEF Common
    <3>3. c \in Diff(a, b)
      BY <2>3, <3>1, DiffMembers
    <3>4. QED
      BY <3>1, <3>2, <3>3
  <2>4. QED
    BY <1>2, <2>1, <2>2, <2>3 DEF BreaksField
<1>3. QED
  BY <1>1, <1>2 DEF BreaksAt, BreakingChanges

(* A field that is broken between two ends is broken in one of the steps. *)
LEMMA BreaksAtTriangle ==
    ASSUME NEW a, NEW b, NEW c, NEW n, WellFormed(a), WellFormed(b), WellFormed(c),
           BreaksAt(a, c, n)
    PROVE  BreaksAt(a, b, n) \/ BreaksAt(b, c, n)
<1>1. BreaksField(a, c, n)
  BY BreaksAtAsField
<1>2. CASE n \in Names(a) \ Names(c)
  BY <1>2, BreaksAtAsField DEF BreaksField
<1>3. CASE n \in Names(c) \ Names(a) /\ FieldNamed(c, n).required
  BY <1>3, BreaksAtAsField DEF BreaksField, Breaks, Common
<1>4. CASE n \in Common(a, c) /\ Breaks(FieldNamed(a, n), FieldNamed(c, n))
  <2>1. CASE n \notin Names(b)
    BY <1>4, <2>1, BreaksAtAsField DEF BreaksField, Common
  <2>2. CASE n \in Names(b)
    BY <1>4, <2>2, FieldTypes, FieldTriangle, BreaksAtAsField DEF BreaksField, Common
  <2>3. QED
    BY <2>1, <2>2
<1>5. QED
  BY <1>1, <1>2, <1>3, <1>4 DEF BreaksField

-----------------------------------------------------------------------------
(* Reordering, by pairs of fields and by lists of names *)

(* Induction, for a property given as the set of the numbers that have it. *)
LEMMA NatSetInduction ==
    ASSUME NEW T, 0 \in T, \A n \in Nat : n \in T => n + 1 \in T
    PROVE  \A n \in Nat : n \in T
<1> DEFINE R == OpToRel(<, Nat)
           Bad == {n \in Nat : n \notin T}
<1>1. SUFFICES ASSUME Bad # {} PROVE FALSE
  OBVIOUS
<1>2. \E m \in Bad : \A n \in Bad : <<n, m>> \notin R
  <2>1. IsWellFoundedOn(R, Nat) /\ Bad \subseteq Nat
    BY NatLessThanWellFounded
  <2>. HIDE DEF R, Bad
  <2>2. QED
    BY <1>1, <2>1, WFMin
<1>3. PICK m \in Bad : \A n \in Bad : <<n, m>> \notin R
  BY <1>2
<1>4. m \in Nat /\ m # 0
  BY <1>3
<1>5. m - 1 \in Nat /\ m - 1 < m
  BY <1>4
<1>6. <<m - 1, m>> \in R
  BY <1>4, <1>5 DEF OpToRel
<1>7. m - 1 \in T
  BY <1>3, <1>5, <1>6
<1>8. m \in T
  BY <1>4, <1>5, <1>7
<1>9. QED
  BY <1>3, <1>8

(* One turn of the comprehension that lists the common names *)
Turn(list, field, other) ==
    IF field.name \in Names(other) THEN Append(list, field.name) ELSE list

IsCommonNames(common, fields, other, size) ==
    common = [n \in 0..size |-> IF n = 0 THEN <<>> ELSE Turn(common[n - 1], fields[n], other)]

LEMMA CommonNamesExist ==
    ASSUME NEW contract, NEW other, Len(contract.fields) \in Nat
    PROVE  IsCommonNames(CommonNames(contract, other), contract.fields, other, Len(contract.fields))
<1> DEFINE fields == contract.fields
           T == {size \in Nat : \E common : IsCommonNames(common, fields, other, size)}
<1>1. 0 \in T
  <2>1. PICK common : common = [n \in 0..0 |-> <<>>]
    OBVIOUS
  <2>2. \A n \in 0..0 : n = 0
    OBVIOUS
  <2>3. IsCommonNames(common, fields, other, 0)
    BY <2>1, <2>2 DEF IsCommonNames
  <2>4. QED
    BY <2>3
<1>2. ASSUME NEW size \in Nat, size \in T PROVE size + 1 \in T
  <2>1. PICK common : IsCommonNames(common, fields, other, size)
    BY <1>2
  <2> DEFINE Step(n) == IF n = 0 THEN <<>> ELSE Turn(common[n - 1], fields[n], other)
             more == [n \in 0..(size + 1) |-> Step(n)]
  <2>2. \A n \in 0..size : more[n] = common[n]
    BY <2>1 DEF IsCommonNames
  <2>3. \A n \in 0..(size + 1) : n # 0 => more[n - 1] = common[n - 1]
    <3>1. \A n \in 0..(size + 1) : n # 0 => n - 1 \in 0..size
      OBVIOUS
    <3>. HIDE DEF more
    <3>2. QED
      BY <2>2, <3>1
  <2>4. \A n \in 0..(size + 1) :
           more[n] = IF n = 0 THEN <<>> ELSE Turn(more[n - 1], fields[n], other)
    <3>1. TAKE n \in 0..(size + 1)
    <3>2. more[n] = Step(n)
      OBVIOUS
    <3>. HIDE DEF more
    <3>3. QED
      BY <2>3, <3>2
  <2>5. more = [n \in 0..(size + 1) |-> more[n]]
    OBVIOUS
  <2>. HIDE DEF more
  <2>6. IsCommonNames(more, fields, other, size + 1)
    BY <2>4, <2>5 DEF IsCommonNames
  <2>7. QED
    BY <2>6
<1>3. \A size \in Nat : size \in T
  <2>. HIDE DEF T
  <2>1. QED
    BY <1>1, <1>2, NatSetInduction
<1>4. \E common : IsCommonNames(common, fields, other, Len(fields))
  BY <1>3
<1>5. CommonNames(contract, other) = CHOOSE common : IsCommonNames(common, fields, other, Len(fields))
  BY DEF CommonNames, IsCommonNames, Turn
<1>6. QED
  BY <1>4, <1>5

(* A list holds the common ones of the first size names, in their order. *)
ListsThem(list, fields, other, size) ==
    /\ list \in Seq(Names(other))
    /\ \A i \in 1..Len(list) : \E p \in 1..size : list[i] = fields[p].name
    /\ \A i, j \in 1..Len(list) : i < j =>
          \E p, q \in 1..size : p < q /\ list[i] = fields[p].name /\ list[j] = fields[q].name
    /\ \A p \in 1..size : fields[p].name \in Names(other) =>
          \E i \in 1..Len(list) : list[i] = fields[p].name

LEMMA TurnListsOneMore ==
    ASSUME NEW list, NEW fields, NEW other, NEW size \in Nat, ListsThem(list, fields, other, size)
    PROVE  ListsThem(Turn(list, fields[size + 1], other), fields, other, size + 1)
<1> DEFINE name == fields[size + 1].name
<1>0. /\ \A p \in 1..size : p \in 1..(size + 1) /\ p < size + 1
      /\ size + 1 \in 1..(size + 1)
      /\ \A p \in 1..(size + 1) : p \in 1..size \/ p = size + 1
  OBVIOUS
<1>1. CASE name \in Names(other)
  <2>1. PICK n \in Nat : n = Len(list)
    BY DEF ListsThem
  <2>2. PICK more : more = Append(list, name)
    OBVIOUS
  <2>3. /\ more \in Seq(Names(other)) /\ Len(more) = n + 1
        /\ \A i \in 1..n : more[i] = list[i]
        /\ more[n + 1] = name
    BY <1>1, <2>1, <2>2 DEF ListsThem
  <2>4. /\ \A i \in 1..(n + 1) : i \in 1..n \/ i = n + 1
        /\ \A i \in 1..n : i \in 1..(n + 1)
        /\ n + 1 \in 1..(n + 1)
        /\ \A i, j \in 1..(n + 1) : i < j => i \in 1..n
    OBVIOUS
  <2>5. \A i \in 1..n : \E p \in 1..size : more[i] = fields[p].name
    BY <2>1, <2>3 DEF ListsThem
  <2>6. \A i \in 1..(n + 1) : \E p \in 1..(size + 1) : more[i] = fields[p].name
    BY <1>0, <2>3, <2>4, <2>5
  <2>7. ASSUME NEW i \in 1..(n + 1), NEW j \in 1..(n + 1), i < j
        PROVE  \E p, q \in 1..(size + 1) : p < q /\ more[i] = fields[p].name /\ more[j] = fields[q].name
    <3>1. i \in 1..n
      BY <2>4, <2>7
    <3>2. CASE j \in 1..n
      <4>1. \E p, q \in 1..size : p < q /\ list[i] = fields[p].name /\ list[j] = fields[q].name
        BY <2>1, <2>7, <3>1, <3>2 DEF ListsThem
      <4>2. QED
        BY <1>0, <2>3, <3>1, <3>2, <4>1
    <3>3. CASE j = n + 1
      <4>1. PICK p \in 1..size : more[i] = fields[p].name
        BY <2>5, <3>1
      <4>2. QED
        BY <1>0, <2>3, <3>3, <4>1
    <3>4. QED
      BY <2>4, <3>2, <3>3
  <2>8. ASSUME NEW p \in 1..(size + 1), fields[p].name \in Names(other)
        PROVE  \E i \in 1..(n + 1) : more[i] = fields[p].name
    <3>1. CASE p \in 1..size
      <4>1. PICK i \in 1..n : list[i] = fields[p].name
        BY <2>1, <2>8, <3>1 DEF ListsThem
      <4>2. QED
        BY <2>3, <2>4, <4>1
    <3>2. CASE p = size + 1
      BY <2>3, <2>4, <3>2
    <3>3. QED
      BY <1>0, <3>1, <3>2
  <2>9. Turn(list, fields[size + 1], other) = more
    BY <1>1, <2>2 DEF Turn
  <2>10. ListsThem(more, fields, other, size + 1)
    BY <2>3, <2>6, <2>7, <2>8 DEF ListsThem
  <2>11. QED
    BY <2>9, <2>10
<1>2. CASE name \notin Names(other)
  <2>1. Turn(list, fields[size + 1], other) = list
    BY <1>2 DEF Turn
  <2>2. /\ list \in Seq(Names(other))
        /\ \A i \in 1..Len(list) : \E p \in 1..(size + 1) : list[i] = fields[p].name
    BY <1>0 DEF ListsThem
  <2>3. \A i, j \in 1..Len(list) : i < j =>
           \E p, q \in 1..(size + 1) : p < q /\ list[i] = fields[p].name /\ list[j] = fields[q].name
    <3>1. TAKE i, j \in 1..Len(list)
    <3>2. HAVE i < j
    <3>3. PICK p \in 1..size, q \in 1..size :
             p < q /\ list[i] = fields[p].name /\ list[j] = fields[q].name
      BY <3>2 DEF ListsThem
    <3>4. p \in 1..(size + 1) /\ q \in 1..(size + 1)
      BY <1>0
    <3>5. QED
      BY <3>3, <3>4
  <2>4. \A p \in 1..(size + 1) : fields[p].name \in Names(other) =>
           \E i \in 1..Len(list) : list[i] = fields[p].name
    BY <1>0, <1>2 DEF ListsThem
  <2>5. ListsThem(list, fields, other, size + 1)
    BY <2>2, <2>3, <2>4 DEF ListsThem
  <2>6. QED
    BY <2>1, <2>5
<1>3. QED
  BY <1>1, <1>2

(* The list has just the common names, in the order of the fields. *)
LEMMA CommonOrderLists ==
    ASSUME NEW contract, WellFormed(contract), NEW other
    PROVE  LET list == CommonOrder(contract, other)
           IN  /\ list \in Seq(Names(contract) \cap Names(other))
               /\ \A i, j \in 1..Len(list) : i < j => Precedes(contract, list[i], list[j])
               /\ \A m \in Names(contract) \cap Names(other) : \E i \in 1..Len(list) : list[i] = m
<1>1. PICK fields : fields = contract.fields
  OBVIOUS
<1>2. PICK size \in Nat : size = Len(fields) /\ DOMAIN fields = 1..size
  BY <1>1 DEF WellFormed, IsList
<1>3. PICK common : common = CommonNames(contract, other)
  OBVIOUS
<1>4. IsCommonNames(common, fields, other, size)
  BY <1>1, <1>2, <1>3, CommonNamesExist
<1>5. \A n \in 0..size : common[n] = IF n = 0 THEN <<>> ELSE Turn(common[n - 1], fields[n], other)
  BY <1>4 DEF IsCommonNames
<1> DEFINE T == {n \in Nat : n <= size => ListsThem(common[n], fields, other, n)}
<1>6. 0 \in T
  <2>1. 0 \in 0..size
    OBVIOUS
  <2>2. common[0] = <<>>
    BY <1>5, <2>1
  <2>3. <<>> \in Seq(Names(other)) /\ Len(<<>>) = 0
    OBVIOUS
  <2>4. 1..0 = {}
    OBVIOUS
  <2>5. ListsThem(<<>>, fields, other, 0)
    BY <2>3, <2>4 DEF ListsThem
  <2>6. QED
    BY <2>2, <2>5
<1>7. ASSUME NEW n \in Nat, n \in T PROVE n + 1 \in T
  <2>1. SUFFICES ASSUME n + 1 <= size
                 PROVE  ListsThem(common[n + 1], fields, other, n + 1)
    OBVIOUS
  <2>2. ListsThem(common[n], fields, other, n)
    BY <1>7, <2>1
  <2>3. n + 1 \in 0..size /\ n + 1 # 0 /\ (n + 1) - 1 = n
    BY <2>1
  <2>4. common[n + 1] = Turn(common[n], fields[n + 1], other)
    BY <1>5, <2>3
  <2>5. QED
    BY <2>2, <2>4, TurnListsOneMore
<1>8. \A n \in Nat : n \in T
  <2>. HIDE DEF T
  <2>1. QED
    BY <1>6, <1>7, NatSetInduction
<1>9. PICK list : list = common[size]
  OBVIOUS
<1>10. ListsThem(list, fields, other, size)
  BY <1>8, <1>9
<1>11. CommonOrder(contract, other) = list
  BY <1>1, <1>2, <1>3, <1>9 DEF CommonOrder
<1>12. list \in Seq(Names(other))
  BY <1>10 DEF ListsThem
<1>13. PICK n \in Nat : n = Len(list)
  BY <1>12
<1>14. Names(contract) = {fields[p].name : p \in 1..size}
  BY <1>1, <1>2 DEF Names
<1>15. list \in Seq(Names(contract) \cap Names(other))
  <2>1. ASSUME NEW i \in 1..n
        PROVE  list[i] \in Names(contract) \cap Names(other)
    <3>1. PICK p \in 1..size : list[i] = fields[p].name
      BY <1>10, <1>13 DEF ListsThem
    <3>2. list[i] \in Names(other)
      BY <1>12, <1>13
    <3>3. QED
      BY <1>14, <3>1, <3>2
  <2>2. QED
    BY <1>12, <1>13, <2>1
<1>16. ASSUME NEW i \in 1..n, NEW j \in 1..n, i < j
       PROVE  Precedes(contract, list[i], list[j])
  <2>1. PICK p \in 1..size, q \in 1..size :
           p < q /\ list[i] = fields[p].name /\ list[j] = fields[q].name
    BY <1>10, <1>13, <1>16 DEF ListsThem
  <2>2. QED
    BY <1>1, <1>2, <2>1 DEF Precedes
<1>17. ASSUME NEW m \in Names(contract) \cap Names(other)
       PROVE  \E i \in 1..n : list[i] = m
  <2>1. PICK p \in 1..size : m = fields[p].name
    BY <1>14
  <2>2. QED
    BY <1>10, <1>13, <2>1 DEF ListsThem
<1>18. QED
  BY <1>11, <1>13, <1>15, <1>16, <1>17

(* Two fields have changed places exactly when the lists differ. *)
LEMMA ReorderingIsInTheLists ==
    ASSUME NEW old, NEW new, WellFormed(old), WellFormed(new)
    PROVE  Reordered(old, new) <=> CommonOrder(old, new) # CommonOrder(new, old)
<1>1. PICK both : both = Names(old) \cap Names(new) /\ both = Names(new) \cap Names(old)
  OBVIOUS
<1>2. PICK a, b : a = CommonOrder(old, new) /\ b = CommonOrder(new, old)
  OBVIOUS
<1>3. /\ a \in Seq(both)
      /\ \A i, j \in 1..Len(a) : i < j => Precedes(old, a[i], a[j])
      /\ \A m \in both : \E i \in 1..Len(a) : a[i] = m
  BY <1>1, <1>2, CommonOrderLists
<1>4. /\ b \in Seq(both)
      /\ \A i, j \in 1..Len(b) : i < j => Precedes(new, b[i], b[j])
      /\ \A m \in both : \E i \in 1..Len(b) : b[i] = m
  BY <1>1, <1>2, CommonOrderLists
<1>sizes. PICK k \in Nat, l \in Nat : k = Len(a) /\ l = Len(b)
  BY <1>3, <1>4
<1>5. /\ \A i \in 1..k : a[i] \in both
      /\ \A i, j \in 1..k : i < j => Precedes(old, a[i], a[j])
      /\ \A m \in both : \E i \in 1..k : a[i] = m
  BY <1>sizes, <1>3
<1>6. /\ \A i \in 1..l : b[i] \in both
      /\ \A i, j \in 1..l : i < j => Precedes(new, b[i], b[j])
      /\ \A m \in both : \E i \in 1..l : b[i] = m
  BY <1>sizes, <1>4
<1>7. /\ \A m, n : Precedes(old, m, n) => m # n /\ ~Precedes(old, n, m)
      /\ \A m, n : Precedes(new, m, n) => m # n /\ ~Precedes(new, n, m)
  BY OneOrder
<1>8. \A i, j \in 1..k : a[i] = a[j] => i = j
  BY <1>5, <1>7
<1>9. \A i, j \in 1..l : b[i] = b[j] => i = j
  BY <1>6, <1>7
<1>10. ASSUME Reordered(old, new), a = b
       PROVE  FALSE
  <2>1. PICK m \in both, n \in both : Precedes(old, m, n) /\ Precedes(new, n, m)
    BY <1>1, <1>10 DEF Reordered
  <2>2. PICK i \in 1..k, j \in 1..k : a[i] = m /\ a[j] = n
    BY <1>5, <2>1
  <2>3. k = l
    BY <1>sizes, <1>10
  <2>4. i < j \/ i = j \/ j < i
    OBVIOUS
  <2>5. CASE i < j
    <3>1. Precedes(new, m, n)
      BY <1>6, <1>10, <2>2, <2>3, <2>5
    <3>2. QED
      BY <1>7, <2>1, <3>1
  <2>6. CASE i = j
    BY <1>7, <2>1, <2>2, <2>6
  <2>7. CASE j < i
    <3>1. Precedes(old, n, m)
      BY <1>5, <2>2, <2>7
    <3>2. QED
      BY <1>7, <2>1, <3>1
  <2>8. QED
    BY <2>4, <2>5, <2>6, <2>7
<1>11. ASSUME ~Reordered(old, new)
       PROVE  a = b
  <2> DEFINE Same(i) == (i <= k <=> i <= l) /\ (i <= k => a[i] = b[i])
             T == {n \in Nat : \A i \in 1..n : Same(i)}
  <2>1. 0 \in T
    OBVIOUS
  <2>2. ASSUME NEW n \in Nat, n \in T PROVE n + 1 \in T
    <3>1. \A i \in 1..n : (i <= k <=> i <= l) /\ (i <= k => a[i] = b[i])
      BY <2>2
    <3>2. ASSUME n + 1 <= k
          PROVE  n + 1 <= l /\ a[n + 1] = b[n + 1]
      <4>1. n + 1 \in 1..k
        BY <3>2
      <4>2. PICK x \in both : x = a[n + 1]
        BY <1>5, <4>1
      <4>3. PICK j \in 1..l : b[j] = x
        BY <1>6, <4>2
      <4>4. j > n
        <5>1. SUFFICES ASSUME j <= n PROVE FALSE
          OBVIOUS
        <5>2. j \in 1..n /\ j \in 1..k
          BY <3>2, <5>1
        <5>3. a[j] = a[n + 1]
          BY <3>1, <4>2, <4>3, <5>2
        <5>4. j = n + 1
          BY <1>8, <4>1, <5>2, <5>3
        <5>5. QED
          BY <5>1, <5>4
      <4>5. n + 1 \in 1..l /\ n + 1 <= j
        BY <4>4
      <4>6. SUFFICES ASSUME j # n + 1 PROVE FALSE
        BY <4>2, <4>3, <4>5
      <4>7. PICK y \in both : y = b[n + 1]
        BY <1>6, <4>5
      <4>8. Precedes(new, y, x)
        <5>1. n + 1 < j
          BY <4>5, <4>6
        <5>2. QED
          BY <1>6, <4>3, <4>5, <4>7, <5>1
      <4>9. PICK i \in 1..k : a[i] = y
        BY <1>5, <4>7
      <4>10. i > n
        <5>1. SUFFICES ASSUME i <= n PROVE FALSE
          OBVIOUS
        <5>2. i \in 1..n /\ i \in 1..l
          BY <3>1, <5>1
        <5>3. b[i] = b[n + 1]
          BY <3>1, <4>7, <4>9, <5>2
        <5>4. i = n + 1
          BY <1>9, <4>5, <5>2, <5>3
        <5>5. QED
          BY <5>1, <5>4
      <4>11. i # n + 1
        BY <1>7, <4>2, <4>8, <4>9
      <4>12. n + 1 < i
        BY <4>10, <4>11
      <4>13. Precedes(old, x, y)
        BY <1>5, <4>1, <4>2, <4>9, <4>12
      <4>14. QED
        BY <1>1, <1>11, <4>8, <4>13 DEF Reordered
    <3>3. ASSUME n + 1 <= l
          PROVE  n + 1 <= k
      <4>1. n + 1 \in 1..l
        BY <3>3
      <4>2. PICK i \in 1..k : a[i] = b[n + 1]
        BY <1>5, <1>6, <4>1
      <4>3. SUFFICES ASSUME i <= n PROVE FALSE
        OBVIOUS
      <4>4. i \in 1..n /\ i \in 1..l
        BY <3>1, <4>3
      <4>5. b[i] = b[n + 1]
        BY <3>1, <4>2, <4>4
      <4>6. i = n + 1
        BY <1>9, <4>1, <4>4, <4>5
      <4>7. QED
        BY <4>3, <4>6
    <3>4. Same(n + 1)
      BY <3>2, <3>3
    <3>5. \A i \in 1..(n + 1) : i \in 1..n \/ i = n + 1
      OBVIOUS
    <3>6. \A i \in 1..n : Same(i)
      BY <3>1
    <3>. HIDE DEF Same
    <3>7. QED
      BY <3>4, <3>5, <3>6
  <2>3. \A n \in Nat : n \in T
    <3>. HIDE DEF T
    <3>1. QED
      BY <2>1, <2>2, NatSetInduction
  <2>4. \A i \in Nat \ {0} : Same(i)
    <3>1. \A i \in Nat \ {0} : i \in 1..i /\ i \in T
      BY <2>3
    <3>. HIDE DEF Same
    <3>2. QED
      BY <3>1
  <2>5. k = l
    <3>1. k # 0 => k <= l
      BY <2>4
    <3>2. l # 0 => l <= k
      BY <2>4
    <3>3. QED
      BY <3>1, <3>2
  <2>6. \A i \in 1..k : a[i] = b[i]
    BY <2>4
  <2>7. QED
    BY <1>sizes, <1>3, <1>4, <2>5, <2>6, SeqEqual
<1>12. QED
  BY <1>2, <1>10, <1>11
=============================================================================
