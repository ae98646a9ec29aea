---------------------------- MODULE ContractProofs ----------------------------
(***************************************************************************)
(* What the versions of contracts and the gate around them guarantee, for  *)
(* any subjects, contracts and consumers.                                  *)
(*                                                                         *)
(* Of one artifact (ContractEvolution): no series of accepted releases     *)
(* hides a change from its versions, readers and writers keep working      *)
(* under one major version, and landing tables survive its releases.       *)
(*                                                                         *)
(* Of the gate (ContractGate): the type invariant; that a killed           *)
(* `generate` can be run again and a released subject stays; and, of a     *)
(* subject whose artifact is only restored from main, that versions never  *)
(* hide a change from those who skip releases, and that the consumers'     *)
(* veto holds.                                                             *)
(***************************************************************************)
EXTENDS ContractEvolution, ContractGate, ContractDiffProofs

-----------------------------------------------------------------------------
(* One artifact *)

(* What code derives is well-formed. *)
LEMMA ModelsDeriveWellFormed ==
    ASSUME NEW model \in Models, NEW version \in Versions
    PROVE  WellFormed(ContractFromModel(model, version))
<1>1. IsModel(model) /\ version \in Version
  BY ModelsAssumption, VersionsAssumption
<1>2. PICK fields : fields = ContractFromModel(model, version).fields
  OBVIOUS
<1>3. PICK n \in Nat : n = Len(model) /\ DOMAIN model = 1..n
  BY <1>1 DEF IsModel, IsList
<1>4. fields = [i \in 1..n |-> FieldContract(model[i])]
  BY <1>2, <1>3 DEF ContractFromModel
<1>5. IsList(fields)
  BY <1>4 DEF IsList
<1>6. QED
  BY <1>1, <1>2, <1>5 DEF IsModel, WellFormed, ContractFromModel, FieldContract

LEMMA TablesDeriveWellFormed ==
    ASSUME NEW columns \in Tables, NEW version \in Versions
    PROVE  WellFormed(ContractFromLandingColumns(columns, version))
<1>1. IsTable(columns) /\ version \in Version
  BY TablesAssumption, VersionsAssumption
<1>2. PICK fields : fields = ContractFromLandingColumns(columns, version).fields
  OBVIOUS
<1>3. PICK n \in Nat : n = Len(columns) /\ DOMAIN columns = 1..n
  BY <1>1 DEF IsTable, IsList
<1>4. fields = [i \in 1..n |-> ColumnContract(columns[i])]
  BY <1>2, <1>3 DEF ContractFromLandingColumns
<1>5. IsList(fields)
  BY <1>4 DEF IsList
<1>6. QED
  BY <1>1, <1>2, <1>5 DEF IsTable, WellFormed, ContractFromLandingColumns, ColumnContract

(* What generate derives, from a model or from a table, is a contract with *)
(* distinct field names and Boolean flags.                                 *)
THEOREM DerivedAreWellFormed == \A contract \in Contracts : WellFormed(contract)
  BY ModelsDeriveWellFormed, TablesDeriveWellFormed DEF Contracts

-----------------------------------------------------------------------------

EvolutionInv == origin \in Contracts /\ committed \in Contracts /\ NoLaundering

LEMMA ReleaseKeepsInv == EvolutionInv /\ [EvolutionNext]_<<origin, committed>> => EvolutionInv'
<1> SUFFICES ASSUME EvolutionInv, NEW derived \in Contracts, Generate(derived)
             PROVE  EvolutionInv'
  BY DEF EvolutionNext, EvolutionInv, NoLaundering
<1>1. WellFormed(origin) /\ WellFormed(committed) /\ WellFormed(derived)
  BY DerivedAreWellFormed DEF EvolutionInv
<1>2. Discipline(origin, derived)
  BY <1>1, DisciplineStep DEF EvolutionInv, NoLaundering, Generate
<1>3. QED
  BY <1>2 DEF EvolutionInv, NoLaundering, Generate

LEMMA EvolutionInvariant == EvolutionSpec => []EvolutionInv
<1>1. EvolutionInit => EvolutionInv
  BY DerivedAreWellFormed, SameContract DEF EvolutionInit, EvolutionInv, NoLaundering
<1>2. QED
  BY <1>1, ReleaseKeepsInv, PTL DEF EvolutionSpec

(* No series of accepted releases hides a change from the versions. *)
THEOREM ReleasesNeverLaunder == EvolutionSpec => []NoLaundering
<1>1. EvolutionInv => NoLaundering
  BY DEF EvolutionInv
<1>2. QED
  BY <1>1, EvolutionInvariant, PTL

-----------------------------------------------------------------------------
(* Writers and readers *)

LEMMA SmallMoves ==
    ASSUME NEW a, NEW b, a.version \in Version, b.version \in Version,
           Discipline(a, b), b.version[1] = a.version[1]
    PROVE  /\ ~BreaksContract(a, b)
           /\ b.version[2] = a.version[2] => ~ExtendsContract(a, b)
<1> DEFINE r == RequiredBump(Diff(a, b))
<1>1. r \in {NONE, PATCH, MINOR, MAJOR}
  BY BumpLevels
<1>2. ~(r >= MAJOR)
  BY <1>1 DEF Discipline, Covers, Version, NONE, PATCH, MINOR, MAJOR
<1>3. ~BreaksContract(a, b)
  BY <1>2, BumpLevels, DiffBreaking
<1>4. b.version[2] = a.version[2] => ~(r >= MINOR)
  BY <1>1 DEF Discipline, Covers, Version, NONE, PATCH, MINOR, MAJOR
<1>5. QED
  BY <1>3, <1>4, BumpLevels, DiffExtending

LEMMA UnbrokenFields ==
    ASSUME NEW a, NEW b, WellFormed(a), WellFormed(b), ~BreaksContract(a, b)
    PROVE  /\ Names(a) \subseteq Names(b)
           /\ \A n \in Names(a) : ~Breaks(FieldNamed(a, n), FieldNamed(b, n))
           /\ \A n \in Names(b) \ Names(a) : ~FieldNamed(b, n).required
  BY DEF BreaksContract, Common

(* What a record may hold under a contract, it may hold under one that     *)
(* breaks nothing of it.                                                   *)
LEMMA StillAccepted ==
    ASSUME NEW a, NEW b, WellFormed(a), WellFormed(b), ~BreaksContract(a, b),
           NEW record, Accepts(a, record)
    PROVE  Accepts(b, record)
<1>1. DOMAIN record \subseteq Names(b)
  BY UnbrokenFields DEF Accepts
<1>2. SUFFICES ASSUME NEW n \in Names(b)
               PROVE  LET field == FieldNamed(b, n)
                      IN  IF n \notin DOMAIN record
                          THEN ~field.required
                          ELSE IF record[n] = Null
                          THEN field.nullable
                          ELSE /\ record[n][1] = field.type
                               /\ field.enum_values # NoEnum =>
                                     record[n][2] \in Values(field.enum_values)
  BY <1>1 DEF Accepts
<1>3. CASE n \notin Names(a)
  BY <1>3, UnbrokenFields DEF Accepts
<1>4. CASE n \in Names(a)
  <2> DEFINE f == FieldNamed(a, n)
             g == FieldNamed(b, n)
  <2>1. /\ f.nullable \in BOOLEAN /\ f.required \in BOOLEAN
        /\ g.nullable \in BOOLEAN /\ g.required \in BOOLEAN
    BY <1>4, FieldTypes
  <2>2. ~Breaks(f, g)
    BY <1>4, UnbrokenFields
  <2>3. IF n \notin DOMAIN record
        THEN ~f.required
        ELSE IF record[n] = Null
        THEN f.nullable
        ELSE /\ record[n][1] = f.type
             /\ f.enum_values # NoEnum => record[n][2] \in Values(f.enum_values)
    BY <1>4 DEF Accepts
  <2>. HIDE DEF f, g
  <2>4. CASE n \notin DOMAIN record
    BY <2>1, <2>2, <2>3, <2>4 DEF Breaks, g
  <2>5. CASE n \in DOMAIN record /\ record[n] = Null
    BY <2>1, <2>2, <2>3, <2>5 DEF Breaks, g
  <2>6. CASE n \in DOMAIN record /\ record[n] # Null
    <3>1. record[n][1] = g.type
      BY <2>2, <2>3, <2>6 DEF Breaks
    <3>2. ASSUME g.enum_values # NoEnum
          PROVE  record[n][2] \in Values(g.enum_values)
      BY <2>2, <2>3, <2>6, <3>2 DEF Breaks, BothEnums
    <3>3. QED
      BY <2>6, <3>1, <3>2 DEF g
  <2>7. QED
    BY <2>4, <2>5, <2>6
<1>5. QED
  BY <1>3, <1>4

LEMMA InvariantUnbroken ==
    EvolutionInv /\ committed.version[1] = origin.version[1] =>
        WellFormed(origin) /\ WellFormed(committed) /\ ~BreaksContract(origin, committed)
<1> SUFFICES ASSUME EvolutionInv, committed.version[1] = origin.version[1]
             PROVE  WellFormed(origin) /\ WellFormed(committed) /\ ~BreaksContract(origin, committed)
  OBVIOUS
<1>1. WellFormed(origin) /\ WellFormed(committed)
  BY DerivedAreWellFormed DEF EvolutionInv
<1>2. QED
  BY <1>1, SmallMoves DEF EvolutionInv, NoLaundering, WellFormed

(* However many releases are accepted, no producer is broken within a      *)
(* major version: every record the first of them accepted still is         *)
(* (version_change_problems, diff_contracts).                              *)
THEOREM WritersAreSafe == EvolutionSpec => []WritersKeepWorking
<1>1. EvolutionInv => WritersKeepWorking
  BY InvariantUnbroken, StillAccepted DEF WritersKeepWorking
<1>2. QED
  BY <1>1, EvolutionInvariant, PTL

(* Nor is a reader: within a major version the fields it knew are there,   *)
(* of the type, the nullability, the kind and the key it knew.             *)
THEOREM ReadersAreSafe == EvolutionSpec => []ReadersKeepWorking
<1>1. EvolutionInv => ReadersKeepWorking
  <2> SUFFICES ASSUME EvolutionInv, committed.version[1] = origin.version[1], NEW n \in Names(origin)
               PROVE  /\ n \in Names(committed)
                      /\ LET before == FieldNamed(origin, n)
                             after == FieldNamed(committed, n)
                         IN  /\ after.type = before.type
                             /\ after.nullable => before.nullable
                             /\ before.enum_values # NoEnum => after.enum_values # NoEnum
                             /\ before.primary_key => after.primary_key
    BY DEF ReadersKeepWorking
  <2>1. n \in Names(committed) /\ ~Breaks(FieldNamed(origin, n), FieldNamed(committed, n))
    BY InvariantUnbroken, UnbrokenFields
  <2>2. /\ FieldNamed(origin, n).nullable \in BOOLEAN
        /\ FieldNamed(committed, n).nullable \in BOOLEAN
    BY <2>1, InvariantUnbroken, FieldTypes
  <2>3. QED
    BY <2>1, <2>2 DEF Breaks
<1>2. QED
  BY <1>1, EvolutionInvariant, PTL

-----------------------------------------------------------------------------
(* Landing tables *)

LEMMA ColumnOf ==
    ASSUME NEW columns, IsTable(columns), NEW version, NEW i \in DOMAIN columns
    PROVE  LET contract == ContractFromLandingColumns(columns, version)
           IN  /\ columns[i].name \in Names(contract)
               /\ FieldNamed(contract, columns[i].name) = ColumnContract(columns[i])
  BY DEF IsTable, Names, FieldNamed, ContractFromLandingColumns, ColumnContract

LEMMA NamesOfColumns ==
    ASSUME NEW columns, NEW version
    PROVE  Names(ContractFromLandingColumns(columns, version))
               = {columns[i].name : i \in DOMAIN columns}
  BY DEF Names, ContractFromLandingColumns, ColumnContract

LEMMA SameKeys ==
    ASSUME NEW then, NEW now, IsTable(then), IsTable(now), NEW v, NEW w,
           ~BreaksContract(ContractFromLandingColumns(then, v), ContractFromLandingColumns(now, w)),
           NEW i \in DOMAIN then
    PROVE  \E j \in DOMAIN now :
              /\ now[j].name = then[i].name /\ now[j].sql_type = then[i].sql_type
              /\ now[j].is_primary_key = then[i].is_primary_key
              /\ now[j].is_nullable = then[i].is_nullable
<1> DEFINE a == ContractFromLandingColumns(then, v)
           b == ContractFromLandingColumns(now, w)
           n == then[i].name
<1>1. n \in Names(a) /\ FieldNamed(a, n) = ColumnContract(then[i])
  BY ColumnOf
<1>2. n \in Names(b)
  BY <1>1 DEF BreaksContract
<1>3. PICK j \in DOMAIN now : now[j].name = n
  BY <1>2, NamesOfColumns
<1>4. FieldNamed(b, n) = ColumnContract(now[j])
  BY <1>3, ColumnOf
<1>5. ~Breaks(ColumnContract(then[i]), ColumnContract(now[j]))
  BY <1>1, <1>2, <1>4 DEF BreaksContract, Common
<1>6. /\ then[i].is_primary_key \in BOOLEAN /\ now[j].is_primary_key \in BOOLEAN
  BY DEF IsTable
<1>7. QED
  BY <1>3, <1>5, <1>6 DEF Breaks, ColumnContract

LEMMA OlderCodeIsServed ==
    ASSUME NEW then, NEW now, IsTable(then), IsTable(now), NEW v, NEW w,
           ~BreaksContract(ContractFromLandingColumns(then, v), ContractFromLandingColumns(now, w))
    PROVE  TableServes(now, then)
<1> DEFINE a == ContractFromLandingColumns(then, v)
           b == ContractFromLandingColumns(now, w)
<1>1. ASSUME NEW j \in DOMAIN now, NotNull(now[j]), now[j].name \notin Names(a)
      PROVE  FALSE
  <2>1. now[j].name \in Names(b) /\ FieldNamed(b, now[j].name) = ColumnContract(now[j])
    BY ColumnOf
  <2>2. now[j].is_nullable
    BY <1>1, <2>1 DEF BreaksContract, ColumnContract, IsTable
  <2>3. now[j].is_primary_key
    BY <1>1, <2>2 DEF NotNull
  <2>4. PICK i \in DOMAIN then : then[i].is_primary_key
    BY DEF IsTable
  <2>5. PICK k \in DOMAIN now : now[k].name = then[i].name /\ now[k].is_primary_key
    BY <2>4, SameKeys
  <2>6. k = j
    BY <2>3, <2>5 DEF IsTable
  <2>7. QED
    BY <1>1, <2>5, <2>6, NamesOfColumns
<1>2. ASSUME NEW j \in DOMAIN now, NotNull(now[j])
      PROVE  \E i \in DOMAIN then : then[i].name = now[j].name
  BY <1>1, <1>2, NamesOfColumns
<1>3. QED
  BY <1>2, SameKeys DEF TableServes, NotNull

LEMMA NewerCodeIsServed ==
    ASSUME NEW then, NEW now, IsTable(then), IsTable(now), NEW v, NEW w,
           ~BreaksContract(ContractFromLandingColumns(then, v), ContractFromLandingColumns(now, w)),
           ~ExtendsContract(ContractFromLandingColumns(then, v), ContractFromLandingColumns(now, w))
    PROVE  TableServes(then, now)
<1> DEFINE a == ContractFromLandingColumns(then, v)
           b == ContractFromLandingColumns(now, w)
<1>1. Names(b) \subseteq Names(a)
  BY DEF ExtendsContract
<1>2. ASSUME NEW i \in DOMAIN now
      PROVE  \E j \in DOMAIN then :
                /\ then[j].name = now[i].name /\ then[j].sql_type = now[i].sql_type
                /\ then[j].is_primary_key = now[i].is_primary_key
                /\ then[j].is_nullable = now[i].is_nullable
  <2>1. PICK j \in DOMAIN then : then[j].name = now[i].name
    <3>1. now[i].name \in Names(a)
      BY <1>1, ColumnOf
    <3>2. QED
      BY <3>1, NamesOfColumns
  <2>2. PICK k \in DOMAIN now :
              /\ now[k].name = then[j].name /\ now[k].sql_type = then[j].sql_type
              /\ now[k].is_primary_key = then[j].is_primary_key
              /\ now[k].is_nullable = then[j].is_nullable
    BY SameKeys
  <2>3. k = i
    BY <2>1, <2>2 DEF IsTable
  <2>4. QED
    BY <2>2, <2>3
<1>3. \A j \in DOMAIN then : \E i \in DOMAIN now : now[i].name = then[j].name
  BY SameKeys
<1>4. QED
  BY <1>2, <1>3 DEF TableServes, NotNull

(* Between the first contract and any later one, fields have changed       *)
(* places exactly when the lists of common names differ that the code      *)
(* compares.                                                               *)
THEOREM ReorderingsAreAsCoded == EvolutionSpec => []ReorderedAsCoded
<1>1. EvolutionInv => ReorderedAsCoded
  BY DerivedAreWellFormed, ReorderingIsInTheLists DEF EvolutionInv, ReorderedAsCoded
<1>2. QED
  BY <1>1, EvolutionInvariant, PTL

(* Whatever releases were accepted in between, a landing table serves the  *)
(* older releases of its major version, and the newer ones of its minor    *)
(* version.                                                                *)
THEOREM TablesOutliveReleases == EvolutionSpec => []TablesSurviveReleases
<1>1. ASSUME EvolutionInv PROVE TablesSurviveReleases
  <2> SUFFICES ASSUME NEW then \in Tables, NEW now \in Tables,
                      origin = ContractFromLandingColumns(then, origin.version),
                      committed = ContractFromLandingColumns(now, committed.version),
                      committed.version[1] = origin.version[1]
               PROVE  /\ TableServes(now, then)
                      /\ committed.version[2] = origin.version[2] => TableServes(then, now)
    BY DEF TablesSurviveReleases
  <2>1. IsTable(then) /\ IsTable(now)
    BY TablesAssumption
  <2>2. origin.version \in Version /\ committed.version \in Version
    BY <1>1, DerivedAreWellFormed DEF EvolutionInv, WellFormed
  <2>3. /\ ~BreaksContract(origin, committed)
        /\ committed.version[2] = origin.version[2] => ~ExtendsContract(origin, committed)
    BY <1>1, <2>2, SmallMoves DEF EvolutionInv, NoLaundering
  <2>4. QED
    BY <2>1, <2>3, OlderCodeIsServed, NewerCodeIsServed
<1>2. QED
  BY <1>1, EvolutionInvariant, PTL

-----------------------------------------------------------------------------
(* Types *)

LEMMA SortedLength == Len(Sorted) \in Nat /\ DOMAIN Sorted = 1..Len(Sorted)
  BY SubjectsAssumption

LEMMA WritingIsASubject ==
    ASSUME position \in DOMAIN Sorted
    PROVE  /\ Writing \in Subjects
           /\ position \in 1..Len(Sorted)
  BY SubjectsAssumption DEF Writing

LEMMA MergedLedgerType ==
    ASSUME TypeOK, ledger # Torn
    PROVE  MergedLedger \in [Subjects -> {Unrecorded} \cup
                                {contract.version : contract \in AllContracts}]
<1> SUFFICES ASSUME NEW s \in Subjects
             PROVE  MergedLedger[s] \in
                        {Unrecorded} \cup {contract.version : contract \in AllContracts}
  BY DEF MergedLedger
<1>1. Derived(s) => code[s] \in AllContracts
  BY DEF Derived, TypeOK
<1>2. Recorded(s) => ledger[s] \in
                        {Unrecorded} \cup {contract.version : contract \in AllContracts}
  BY DEF Recorded, TypeOK, LedgerType
<1>3. QED
  BY <1>1, <1>2 DEF MergedLedger

(* `generate` only runs from a ledger it could read. *)
Loaded == position > 0 => ledger # Torn

LEMMA InitTypes == Init => TypeOK /\ Loaded
<1> SUFFICES ASSUME Init PROVE TypeOK /\ Loaded
  OBVIOUS
<1>1. main \in [artifacts : [Subjects -> AllContracts \cup {Missing}],
                ledger : LedgerType \ {Torn},
                manifests : [Consumers -> [Subjects -> Entries]]]
  BY PinsAssumption, SentinelsAssumption DEF Init, LedgerType, Entries
<1>2. manifests \in [Consumers -> [Subjects -> Entries]]
  BY PinsAssumption DEF Init, Entries
<1>3. position \in 0..(Len(Sorted) + 1) /\ Loaded
  BY SortedLength DEF Init, Loaded
<1>4. QED
  BY <1>1, <1>2, <1>3 DEF Init, TypeOK, LedgerType

LEMMA NextTypes == TypeOK /\ Loaded /\ [Next]_vars => TypeOK' /\ Loaded'
<1> SUFFICES ASSUME TypeOK, Loaded, [Next]_vars
             PROVE  TypeOK' /\ Loaded'
  OBVIOUS
<1> USE DEF TypeOK, Loaded
<1>1. CASE BeginGenerate
  <2>1. position' \in 0..(Len(Sorted) + 1) /\ ledger # Torn
    BY <1>1, SortedLength DEF BeginGenerate, GenerateAccepted, Readable
  <2>2. QED
    BY <1>1, <2>1 DEF BeginGenerate, files
<1>2. CASE WriteArtifact
  <2>1. Writing \in Subjects /\ position \in 1..Len(Sorted)
    BY <1>2, WritingIsASubject DEF WriteArtifact
  <2>2. artifacts' \in [Subjects -> AllContracts \cup {Missing, Torn}]
    BY <1>2, <2>1 DEF WriteArtifact, Derived
  <2>3. position' \in 0..(Len(Sorted) + 1)
    BY <1>2, <2>1, SubjectsAssumption DEF WriteArtifact
  <2>4. QED
    BY <1>2, <2>1, <2>2, <2>3 DEF WriteArtifact
<1>3. CASE WriteLedger
  <2>1. ledger # Torn
    BY <1>3, SubjectsAssumption DEF WriteLedger
  <2>2. ledger' \in LedgerType
    BY <1>3, <2>1, MergedLedgerType DEF WriteLedger, LedgerType
  <2>3. QED
    BY <1>3, <2>2, SubjectsAssumption DEF WriteLedger
<1>4. CASE Killed
  BY <1>4, SubjectsAssumption DEF Killed, files
<1>5. CASE KilledWriting
  <2>1. artifacts' \in [Subjects -> AllContracts \cup {Missing, Torn}]
    BY <1>5, WritingIsASubject DEF KilledWriting
  <2>2. ledger' \in LedgerType
    BY <1>5 DEF KilledWriting, LedgerType
  <2>3. QED
    BY <1>5, <2>1, <2>2, SubjectsAssumption DEF KilledWriting
<1>6. ASSUME NEW s \in Subjects, NEW contract \in ContractsOf[s] \cup {Gone}, EditCode(s, contract)
      PROVE  TypeOK' /\ Loaded'
  BY <1>6 DEF EditCode, Idle, files, AllContracts
<1>7. ASSUME NEW s \in Subjects, NEW consumer \in Consumers, NEW entry \in Pins[s],
             EditManifest(consumer, s, entry)
      PROVE  TypeOK' /\ Loaded'
  <2>1. entry \in Entries
    BY DEF Entries
  <2>2. QED
    BY <1>7, <2>1 DEF EditManifest, Idle
<1>8. ASSUME NEW s \in Subjects, DeleteArtifact(s) \/ Restore(s) \/ Rewind(s)
      PROVE  TypeOK' /\ Loaded'
  <2>1. artifacts' \in [Subjects -> AllContracts \cup {Missing, Torn}]
    <3>1. CASE DeleteArtifact(s)
      BY <3>1 DEF DeleteArtifact
    <3>2. CASE Restore(s)
      BY <3>2 DEF Restore
    <3>3. CASE Rewind(s)
      BY <3>3 DEF Rewind
    <3>4. QED
      BY <1>8, <3>1, <3>2, <3>3
  <2>2. QED
    BY <1>8, <2>1 DEF DeleteArtifact, Restore, Rewind, Idle
<1>9. CASE RestoreLedger
  BY <1>9 DEF RestoreLedger, Idle
<1>10. CASE Merge
  <2>1. artifacts \in [Subjects -> AllContracts \cup {Missing}]
    BY <1>10 DEF Merge, CheckPasses, Readable
  <2>2. main' \in [artifacts : [Subjects -> AllContracts \cup {Missing}],
                   ledger : LedgerType \ {Torn},
                   manifests : [Consumers -> [Subjects -> Entries]]]
    BY <1>10, <2>1 DEF Merge, CheckPasses, Readable
  <2>3. released' \in [Subjects -> SUBSET AllContracts]
    BY <1>10, <2>1 DEF Merge, Present
  <2>4. QED
    BY <1>10, <2>2, <2>3 DEF Merge, Idle, files
<1>11. CASE UNCHANGED vars
  BY <1>11 DEF vars, files
<1>12. QED
  BY <1>1, <1>2, <1>3, <1>4, <1>5, <1>6, <1>7, <1>8, <1>9, <1>10, <1>11 DEF Next

(* The type invariant holds of every contracts directory. *)
THEOREM GateTypes == Spec => []TypeOK
  BY InitTypes, NextTypes, PTL DEF Spec

-----------------------------------------------------------------------------
(* A subject that was released is in main, and the ledger knows it, in main *)
(* and in the working tree unless it is torn there.                        *)

Known(s) ==
    /\ main.ledger # Missing /\ main.ledger[s] # Unrecorded
    /\ main.artifacts[s] # Missing
    /\ ledger # Torn => Recorded(s)

KnownInv == \A s \in Subjects : released[s] # {} => Known(s)

LEMMA MergedLedgerRemembers ==
    ASSUME TypeOK, ledger # Torn, NEW s \in Subjects, Recorded(s)
    PROVE  MergedLedger # Missing /\ MergedLedger[s] # Unrecorded
<1>1. MergedLedger # Missing
  <2>1. {contract.version : contract \in AllContracts} \subseteq Version
    BY ContractsAssumption DEF WellFormed
  <2>2. MergedLedger \in [Subjects -> Version \cup {Unrecorded}]
    BY <2>1, MergedLedgerType
  <2>3. QED
    BY <2>2, SentinelsAssumption
<1>2. Derived(s) => code[s].version # Unrecorded
  BY ContractsAssumption, SentinelsAssumption DEF Derived, TypeOK, WellFormed
<1>3. QED
  BY <1>1, <1>2 DEF MergedLedger, Recorded

LEMMA InitKnown == Init => KnownInv
  BY DEF Init, KnownInv

LEMMA NextKnown == TypeOK /\ Loaded /\ KnownInv /\ [Next]_vars => KnownInv'
<1> SUFFICES ASSUME TypeOK, Loaded, KnownInv, [Next]_vars,
                    NEW s \in Subjects, released'[s] # {}
             PROVE  Known(s)'
  BY DEF KnownInv
<1>1. CASE UNCHANGED <<ledger, main, released>>
  BY <1>1 DEF KnownInv, Known, Recorded
<1>2. CASE WriteLedger
  <2>1. Known(s) /\ ledger # Torn
    BY <1>2, SortedLength DEF WriteLedger, KnownInv, Loaded
  <2>2. QED
    BY <1>2, <2>1, MergedLedgerRemembers DEF WriteLedger, Known, Recorded
<1>3. CASE KilledWriting
  <2>1. Known(s)
    BY <1>3 DEF KilledWriting, KnownInv
  <2>2. QED
    BY <1>3, <2>1 DEF KilledWriting, Known, Recorded
<1>4. CASE RestoreLedger
  <2>1. Known(s)
    BY <1>4 DEF RestoreLedger, KnownInv
  <2>2. QED
    BY <1>4, <2>1 DEF RestoreLedger, Known, Recorded
<1>5. CASE Merge
  <2>1. ledger # Torn
    BY <1>5 DEF Merge, CheckPasses, Readable
  <2>2. Recorded(s) /\ Present(s)
    <3>1. Present(s) => Recorded(s)
      BY <1>5 DEF Merge, CheckPasses, LedgerAgrees, Recorded
    <3>2. Recorded(s) => Present(s)
      BY <1>5 DEF Merge, CheckPasses, LedgerAgrees, NothingVanished, Recorded
    <3>3. ~Present(s) => Recorded(s)
      BY <1>5, <2>1 DEF Merge, KnownInv, Known, TypeOK
    <3>4. QED
      BY <3>1, <3>2, <3>3
  <2>3. QED
    BY <1>5, <2>1, <2>2 DEF Merge, Known, Recorded, Present, files
<1>6. QED
  BY <1>1, <1>2, <1>3, <1>4, <1>5
     DEF Next, vars, files, BeginGenerate, WriteArtifact, Killed, EditCode, EditManifest,
         DeleteArtifact, Restore, Rewind

(* A subject that was merged once is in main for ever. *)
THEOREM ReleasedSubjectsStay == Spec => []RecordedForever
<1>1. KnownInv => RecordedForever
  BY DEF KnownInv, Known, RecordedForever
<1>2. QED
  BY <1>1, InitTypes, NextTypes, InitKnown, NextKnown, PTL DEF Spec

-----------------------------------------------------------------------------
(* While `generate` runs, and when it was killed between two writes, what  *)
(* it accepted at first is still acceptable.                               *)

AcceptedInv ==
    /\ position > 0 => GenerateAccepted /\ ~interrupted
    /\ interrupted /\ Readable => GenerateAccepted

LEMMA DerivedIsWellFormed ==
    ASSUME TypeOK, NEW s \in Subjects, Derived(s)
    PROVE  /\ code[s] \in AllContracts /\ WellFormed(code[s])
           /\ code[s] \notin {Missing, Torn}
  BY ContractsAssumption, SentinelsAssumption DEF TypeOK, Derived

(* Taking the derived contract for the committed one changes no verdict of *)
(* those that let `generate` begin.                                        *)
LEMMA WrittenIsAccepted == TypeOK /\ GenerateAccepted /\ WriteArtifact => GenerateAccepted'
<1> SUFFICES ASSUME TypeOK, GenerateAccepted, WriteArtifact
             PROVE  GenerateAccepted'
  OBVIOUS
<1> DEFINE w == Writing
<1>1. w \in Subjects
  BY WritingIsASubject DEF WriteArtifact
<1>2. \A s \in Subjects : artifacts'[s] = IF s = w /\ Derived(s) THEN code[s] ELSE artifacts[s]
  BY <1>1 DEF WriteArtifact, TypeOK
<1>3. UNCHANGED <<code, ledger, manifests>>
  BY DEF WriteArtifact
<1> HIDE DEF w
<1>4. Readable'
  BY <1>2, <1>3, DerivedIsWellFormed DEF GenerateAccepted, Readable
<1>5. NothingRemoved'
  BY <1>2, <1>3, DerivedIsWellFormed
     DEF GenerateAccepted, CompatibilityOK, NothingRemoved, Present, Derived
<1>6. VersionsFit'
  BY <1>2, <1>3, DerivedIsWellFormed, SameContract
     DEF GenerateAccepted, CompatibilityOK, VersionsFit, Present, Derived
<1>7. ConsumersAgree'
  <2> SUFFICES ASSUME NEW consumer \in Consumers, NEW s \in Subjects,
                      manifests[consumer][s] # NotConsumed
               PROVE  LET entry == manifests[consumer][s]
                      IN  /\ ManifestFits(entry, s)
                          /\ Present(s)' => Acknowledged(entry, s)'
    BY <1>3 DEF ConsumersAgree, ManifestFits, Derived
  <2>1. /\ ManifestFits(manifests[consumer][s], s)
        /\ Present(s) => Acknowledged(manifests[consumer][s], s)
    BY DEF GenerateAccepted, CompatibilityOK, ConsumersAgree
  <2>2. CASE artifacts'[s] = artifacts[s]
    BY <1>3, <2>1, <2>2 DEF Present, Acknowledged
  <2>3. CASE artifacts'[s] = code[s] /\ Derived(s)
    <3>1. Diff(artifacts'[s], code'[s]) = {}
      BY <1>3, <2>3, DerivedIsWellFormed, NoDifference
    <3>2. QED
      BY <2>1, <3>1 DEF Acknowledged, BreakingChanges
  <2>4. QED
    BY <1>2, <2>2, <2>3
<1>8. NothingVanished'
  BY <1>2, <1>3, DerivedIsWellFormed DEF GenerateAccepted, NothingVanished, Recorded, Present
<1>9. QED
  BY <1>4, <1>5, <1>6, <1>7, <1>8 DEF GenerateAccepted, CompatibilityOK

LEMMA SameFilesSameVerdict ==
    ASSUME UNCHANGED <<code, artifacts, ledger, manifests>>
    PROVE  Readable' = Readable /\ GenerateAccepted' = GenerateAccepted
  BY DEF GenerateAccepted, Readable, CompatibilityOK, NothingRemoved, VersionsFit,
         ConsumersAgree, ManifestFits, Acknowledged, NothingVanished, Present, Derived, Recorded

LEMMA InitAccepted == Init => AcceptedInv
  BY DEF Init, AcceptedInv

LEMMA NextAccepted == TypeOK /\ AcceptedInv /\ [Next]_vars => AcceptedInv'
<1> SUFFICES ASSUME TypeOK, AcceptedInv, [Next]_vars
             PROVE  AcceptedInv'
  OBVIOUS
<1>1. CASE BeginGenerate
  BY <1>1, SameFilesSameVerdict DEF BeginGenerate, AcceptedInv, files
<1>2. CASE WriteArtifact
  <2>1. position > 0
    BY <1>2, WritingIsASubject DEF WriteArtifact
  <2>2. QED
    BY <1>2, <2>1, WrittenIsAccepted DEF WriteArtifact, AcceptedInv
<1>3. CASE WriteLedger
  BY <1>3, SortedLength DEF WriteLedger, AcceptedInv
<1>4. CASE Killed
  BY <1>4, SameFilesSameVerdict DEF Killed, AcceptedInv, files
<1>5. CASE KilledWriting
  <2>1. ~Readable'
    BY <1>5, WritingIsASubject DEF KilledWriting, Readable, TypeOK
  <2>2. QED
    BY <1>5, <2>1 DEF KilledWriting, AcceptedInv
<1>6. CASE Idle
  BY <1>6 DEF Idle, AcceptedInv
<1>7. CASE UNCHANGED vars
  BY <1>7, SameFilesSameVerdict DEF vars, files, AcceptedInv
<1>8. QED
  BY <1>1, <1>2, <1>3, <1>4, <1>5, <1>6, <1>7
     DEF Next, EditCode, EditManifest, DeleteArtifact, Restore, Rewind, RestoreLedger, Merge

(* A generate that was killed between two writes can be run again. *)
THEOREM KilledGenerateRepeats == Spec => []KilledGenerateCanBeRepeated
<1>1. AcceptedInv => KilledGenerateCanBeRepeated
  BY DEF AcceptedInv, KilledGenerateCanBeRepeated
<1>2. QED
  BY <1>1, InitTypes, NextTypes, InitAccepted, NextAccepted, PTL DEF Spec

-----------------------------------------------------------------------------
(* Of a subject that is not rewound, main, the working tree, and what a    *)
(* running `generate` is about to write are all far enough from every      *)
(* release.                                                                *)

Sound(s, contract) ==
    contract \notin {Missing, Torn} => \A old \in released[s] : Discipline(old, contract)

SoundInv ==
    \A s \in Subjects \ Rewinds :
        /\ Sound(s, main.artifacts[s])
        /\ Sound(s, artifacts[s])
        /\ position > 0 /\ Derived(s) => Sound(s, code[s])

GateInv == TypeOK /\ Loaded /\ KnownInv /\ SoundInv

LEMMA ReleasedAreWellFormed ==
    ASSUME TypeOK, NEW s \in Subjects, NEW old \in released[s]
    PROVE  WellFormed(old)
  BY ContractsAssumption DEF TypeOK

LEMMA CommittedIsWellFormed ==
    ASSUME TypeOK, NEW s \in Subjects, artifacts[s] \notin {Missing, Torn}
    PROVE  WellFormed(artifacts[s])
  BY ContractsAssumption DEF TypeOK

LEMMA AcceptedIsSound ==
    ASSUME GateInv, GenerateAccepted, NEW s \in Subjects \ Rewinds, Derived(s)
    PROVE  Sound(s, code[s])
<1> SUFFICES ASSUME NEW old \in released[s]
             PROVE  Discipline(old, code[s])
  BY DEF Sound
<1>1. Recorded(s)
  BY DEF GateInv, KnownInv, Known, GenerateAccepted, Readable
<1>2. artifacts[s] \notin {Missing, Torn}
  BY <1>1 DEF GenerateAccepted, NothingVanished, Present, Readable
<1>3. Compatible(artifacts[s], code[s])
  BY <1>2 DEF GenerateAccepted, CompatibilityOK, VersionsFit, Present
<1>4. Discipline(old, artifacts[s])
  BY <1>2 DEF GateInv, SoundInv, Sound
<1>5. QED
  BY <1>2, <1>3, <1>4, DisciplineStep, ReleasedAreWellFormed, CommittedIsWellFormed,
     DerivedIsWellFormed DEF GateInv

LEMMA InitSound == Init => SoundInv
  BY DEF Init, SoundInv, Sound

LEMMA NextSound == GateInv /\ [Next]_vars => SoundInv'
<1> SUFFICES ASSUME GateInv, [Next]_vars, NEW s \in Subjects \ Rewinds
             PROVE  /\ Sound(s, main.artifacts[s])'
                    /\ Sound(s, artifacts[s])'
                    /\ (position > 0 /\ Derived(s) => Sound(s, code[s]))'
  BY DEF SoundInv
<1>1. /\ Sound(s, main.artifacts[s])
      /\ Sound(s, artifacts[s])
      /\ position > 0 /\ Derived(s) => Sound(s, code[s])
  BY DEF GateInv, SoundInv
<1>2. TypeOK /\ 0 \in Nat /\ ~(0 > 0)
  BY DEF GateInv
<1>3. CASE BeginGenerate
  BY <1>1, <1>3, AcceptedIsSound DEF BeginGenerate, files, Sound, Derived
<1>4. CASE WriteArtifact
  <2>1. position > 0
    BY <1>4, WritingIsASubject DEF WriteArtifact
  <2>2. artifacts'[s] \in {artifacts[s]} \cup (IF Derived(s) THEN {code[s]} ELSE {})
    BY <1>2, <1>4 DEF WriteArtifact, TypeOK
  <2>3. QED
    BY <1>1, <1>4, <2>1, <2>2 DEF WriteArtifact, Sound, Derived
<1>5. CASE WriteLedger \/ Killed \/ KilledWriting
  <2>1. artifacts'[s] \in {artifacts[s], Torn}
    BY <1>2, <1>5 DEF WriteLedger, Killed, KilledWriting, TypeOK, files
  <2>2. QED
    BY <1>1, <1>2, <1>5, <2>1 DEF WriteLedger, Killed, KilledWriting, Sound, files
<1>6. ASSUME NEW t \in Subjects, DeleteArtifact(t) \/ Restore(t) \/ Rewind(t)
      PROVE  /\ Sound(s, main.artifacts[s])'
             /\ Sound(s, artifacts[s])'
             /\ (position > 0 /\ Derived(s) => Sound(s, code[s]))'
  <2>1. artifacts'[s] \in {artifacts[s], Missing, main.artifacts[s]}
    BY <1>2, <1>6 DEF DeleteArtifact, Restore, Rewind, TypeOK
  <2>2. QED
    BY <1>1, <1>2, <1>6, <2>1 DEF DeleteArtifact, Restore, Rewind, Idle, Sound
<1>7. CASE Merge
  <2>1. /\ main'.artifacts[s] = artifacts[s] /\ artifacts' = artifacts /\ position' = 0
        /\ released'[s] = IF Present(s) THEN released[s] \cup {artifacts[s]} ELSE released[s]
    BY <1>7 DEF Merge, Idle, files
  <2>2. artifacts[s] \notin {Missing, Torn} => Discipline(artifacts[s], artifacts[s])
    BY <1>2, CommittedIsWellFormed, SameContract
  <2>3. QED
    BY <1>1, <1>2, <2>1, <2>2 DEF Sound
<1>8. CASE UNCHANGED <<artifacts, main, released>> /\ Idle
  BY <1>1, <1>2, <1>8 DEF Sound, Idle
<1>9. CASE UNCHANGED vars
  BY <1>1, <1>9 DEF vars, files, Sound, Derived
<1>10. QED
  BY <1>3, <1>4, <1>5, <1>6, <1>7, <1>8, <1>9
     DEF Next, EditCode, EditManifest, RestoreLedger, files

LEMMA GateInvariant == Spec => []GateInv
<1>1. Init => GateInv
  BY InitTypes, InitKnown, InitSound DEF GateInv
<1>2. GateInv /\ [Next]_vars => GateInv'
  BY NextTypes, NextKnown, NextSound DEF GateInv
<1>3. QED
  BY <1>1, <1>2, PTL DEF Spec

(* Of a subject whose artifact is only restored from main, no series of    *)
(* edits, kills, deletions and merges hides a change from the versions,    *)
(* whatever becomes of the other subjects.                                 *)
THEOREM MergesNeverLaunder == Spec => []NothingLaundered
<1>1. GateInv => NothingLaundered
  <2> SUFFICES ASSUME GateInv, NEW s \in Subjects \ Rewinds, main.artifacts[s] # Missing,
                      NEW contract \in released[s]
               PROVE  Discipline(contract, main.artifacts[s])
    BY DEF NothingLaundered
  <2>1. main.artifacts[s] \in AllContracts
    BY DEF GateInv, TypeOK
  <2>2. QED
    BY <2>1, SentinelsAssumption DEF GateInv, SoundInv, Sound
<1>2. QED
  BY <1>1, GateInvariant, PTL

-----------------------------------------------------------------------------
(* Of a subject whose pins are not taken back after the fact either: a     *)
(* break of a pinned field, between main and the working tree or what      *)
(* `generate` is about to write, has been acknowledged.                    *)

Orderly == Subjects \ (Rewinds \cup LateManifests)

Respected(consumer, s, contract) ==
    LET old == main.artifacts[s]
        before == main.manifests[consumer][s]
        now == manifests[consumer][s]
    IN  (/\ old # Missing /\ contract \notin {Missing, Torn}
         /\ NotConsumed \notin {before, now}
         /\ \E n \in before.fields \cap now.fields : BreaksAt(old, contract, n))
        => Older(old.version, now.acknowledged)

VetoInv ==
    \A s \in Orderly :
        /\ main.artifacts[s] # Missing => main.artifacts[s] \in released[s]
        /\ \A consumer \in Consumers :
              /\ Respected(consumer, s, artifacts[s])
              /\ position > 0 /\ Derived(s) => Respected(consumer, s, code[s])

LEMMA OlderChain ==
    ASSUME NEW u \in Version, NEW v \in Version, NEW w \in Version,
           Older(u, v), ~Older(w, v)
    PROVE  Older(u, w)
  BY DEF Older, Version

LEMMA BreakMovesTheVersion ==
    ASSUME NEW a, NEW b, NEW n, Discipline(a, b), BreaksAt(a, b, n)
    PROVE  Older(a.version, b.version)
<1>1. RequiredBump(Diff(a, b)) >= MAJOR
  BY BumpLevels DEF BreaksAt, BreakingChanges
<1>2. RequiredBump(Diff(a, b)) = MAJOR
  BY <1>1, BumpLevels DEF NONE, PATCH, MINOR, MAJOR
<1>3. b.version[1] > a.version[1]
  BY <1>2 DEF Discipline, Covers, MAJOR
<1>4. QED
  BY <1>3 DEF Older

LEMMA NoBreakOfItself ==
    ASSUME NEW a, WellFormed(a), NEW n
    PROVE  ~BreaksAt(a, a, n)
  BY NoDifference DEF BreaksAt, BreakingChanges

LEMMA ManifestTypes ==
    ASSUME TypeOK, NEW s \in Subjects, NEW consumer \in Consumers,
           manifests[consumer][s] # NotConsumed
    PROVE  manifests[consumer][s].acknowledged \in Version
  BY PinsAssumption DEF TypeOK

LEMMA AcceptedIsRespected ==
    ASSUME GateInv, VetoInv, GenerateAccepted,
           NEW s \in Orderly, NEW consumer \in Consumers, Derived(s)
    PROVE  Respected(consumer, s, code[s])
<1> DEFINE old == main.artifacts[s]
           before == main.manifests[consumer][s]
           now == manifests[consumer][s]
<1> SUFFICES ASSUME old # Missing, NotConsumed \notin {before, now},
                    NEW n \in before.fields \cap now.fields, BreaksAt(old, code[s], n)
             PROVE  Older(old.version, now.acknowledged)
  BY DEF Respected
<1> s \in Subjects \ Rewinds
  BY DEF Orderly
<1>1. old \in released[s]
  BY DEF VetoInv
<1>2. Recorded(s)
  BY <1>1 DEF GateInv, KnownInv, Known, GenerateAccepted, Readable
<1>3. artifacts[s] \notin {Missing, Torn}
  BY <1>2 DEF GenerateAccepted, NothingVanished, Present, Readable
<1>4. WellFormed(old) /\ WellFormed(artifacts[s]) /\ WellFormed(code[s]) /\ TypeOK
  BY <1>1, <1>3, ReleasedAreWellFormed, CommittedIsWellFormed, DerivedIsWellFormed DEF GateInv
<1>5. CASE BreaksAt(old, artifacts[s], n)
  BY <1>3, <1>5 DEF VetoInv, Respected
<1>6. CASE BreaksAt(artifacts[s], code[s], n)
  <2>1. Acknowledged(now, s)
    BY <1>3 DEF GenerateAccepted, CompatibilityOK, ConsumersAgree, Present
  <2>2. ~Older(now.acknowledged, code[s].version)
    BY <1>6, <2>1 DEF Acknowledged, BreaksAt
  <2>3. Older(old.version, code[s].version)
    BY <1>1, <1>4, AcceptedIsSound, DerivedIsWellFormed, BreakMovesTheVersion DEF Sound
  <2>4. old.version \in Version /\ code[s].version \in Version /\ now.acknowledged \in Version
    BY <1>4, ManifestTypes DEF WellFormed
  <2>5. QED
    BY <2>2, <2>3, <2>4, OlderChain
<1>7. QED
  BY <1>4, <1>5, <1>6, BreaksAtTriangle

LEMMA EditsAreRespected ==
    ASSUME GateInv, VetoInv,
           NEW s \in Orderly, NEW consumer \in Consumers,
           NEW t \in Subjects, NEW editor \in Consumers, NEW entry \in Pins[t],
           EditManifest(editor, t, entry)
    PROVE  Respected(consumer, s, artifacts[s])'
<1> s \in Subjects \ LateManifests
  BY DEF Orderly
<1>1. Respected(consumer, s, artifacts[s]) /\ TypeOK
  BY DEF VetoInv, GateInv
<1>2. UNCHANGED <<artifacts, main>>
  BY DEF EditManifest
<1>3. CASE editor = consumer /\ t = s
  <2>1. manifests'[consumer][s] = entry
    BY <1>1, <1>3 DEF EditManifest, TypeOK
  <2>2. CASE artifacts[s] = main.artifacts[s]
    <3>1. artifacts[s] \notin {Missing, Torn} => \A n : ~BreaksAt(main.artifacts[s], artifacts[s], n)
      BY <1>1, <2>2, CommittedIsWellFormed, NoBreakOfItself
    <3>2. QED
      BY <1>2, <3>1 DEF Respected
  <2>3. CASE MovesOn(manifests[consumer][s], entry)
    <3> DEFINE old == main.artifacts[s]
               before == main.manifests[consumer][s]
               now == manifests[consumer][s]
    <3> SUFFICES ASSUME old # Missing, artifacts[s] \notin {Missing, Torn},
                        NotConsumed \notin {before, entry},
                        NEW n \in before.fields \cap entry.fields,
                        BreaksAt(old, artifacts[s], n)
                 PROVE  Older(old.version, entry.acknowledged)
      BY <1>2, <2>1 DEF Respected
    <3>1. now # NotConsumed /\ n \in now.fields /\ ~Older(entry.acknowledged, now.acknowledged)
      BY <2>3 DEF MovesOn
    <3>2. Older(old.version, now.acknowledged)
      BY <1>1, <3>1 DEF Respected
    <3>3. old.version \in Version
      BY <1>1, ContractsAssumption DEF TypeOK, WellFormed
    <3>4. entry.acknowledged \in Version /\ now.acknowledged \in Version
      BY <1>1, <3>1, ManifestTypes, PinsAssumption DEF Entries
    <3>5. QED
      BY <3>1, <3>2, <3>3, <3>4, OlderChain
  <2>4. QED
    BY <1>3, <2>2, <2>3 DEF EditManifest
<1>4. CASE ~(editor = consumer /\ t = s)
  <2>1. manifests'[consumer][s] = manifests[consumer][s]
    BY <1>1, <1>4 DEF EditManifest, TypeOK
  <2>2. QED
    BY <1>1, <1>2, <2>1 DEF Respected
<1>5. QED
  BY <1>3, <1>4

LEMMA InitVeto == Init => VetoInv
  BY DEF Init, VetoInv, Respected, Orderly

LEMMA NextVeto ==
    ASSUME GateInv, VetoInv, [Next]_vars
    PROVE  VetoInv'
<1> SUFFICES ASSUME NEW s \in Orderly
             PROVE  /\ (main.artifacts[s] # Missing => main.artifacts[s] \in released[s])'
                    /\ \A consumer \in Consumers :
                          /\ Respected(consumer, s, artifacts[s])'
                          /\ (position > 0 /\ Derived(s) => Respected(consumer, s, code[s]))'
  BY DEF VetoInv
<1> DEFINE Goal == /\ (main.artifacts[s] # Missing => main.artifacts[s] \in released[s])'
                   /\ \A consumer \in Consumers :
                         /\ Respected(consumer, s, artifacts[s])'
                         /\ (position > 0 /\ Derived(s) => Respected(consumer, s, code[s]))'
<1> s \in Subjects \ Rewinds
  BY DEF Orderly
<1>1. /\ main.artifacts[s] # Missing => main.artifacts[s] \in released[s]
      /\ \A consumer \in Consumers :
            /\ Respected(consumer, s, artifacts[s])
            /\ position > 0 /\ Derived(s) => Respected(consumer, s, code[s])
  BY DEF VetoInv
<1>2. TypeOK /\ ~(0 > 0)
  BY DEF GateInv
<1>3. CASE BeginGenerate
  BY <1>1, <1>3, AcceptedIsRespected DEF BeginGenerate, files, Respected, Derived
<1>4. CASE WriteArtifact
  <2>1. position > 0
    BY <1>4, WritingIsASubject DEF WriteArtifact
  <2>2. artifacts'[s] \in {artifacts[s]} \cup (IF Derived(s) THEN {code[s]} ELSE {})
    BY <1>2, <1>4 DEF WriteArtifact, TypeOK
  <2>3. QED
    BY <1>1, <1>4, <2>1, <2>2 DEF WriteArtifact, Respected, Derived
<1>5. CASE WriteLedger \/ Killed \/ KilledWriting
  <2>1. artifacts'[s] \in {artifacts[s], Torn}
    BY <1>2, <1>5 DEF WriteLedger, Killed, KilledWriting, TypeOK, files
  <2>2. QED
    BY <1>1, <1>2, <1>5, <2>1 DEF WriteLedger, Killed, KilledWriting, Respected, files
<1>6. ASSUME NEW t \in Subjects, DeleteArtifact(t) \/ Restore(t) \/ Rewind(t)
      PROVE  Goal
  <2>1. artifacts'[s] \in {artifacts[s], Missing, main.artifacts[s]}
    BY <1>2, <1>6 DEF DeleteArtifact, Restore, Rewind, TypeOK
  <2>2. main.artifacts[s] # Missing => \A n : ~BreaksAt(main.artifacts[s], main.artifacts[s], n)
    BY <1>2, ContractsAssumption, NoBreakOfItself DEF TypeOK
  <2>3. QED
    BY <1>1, <1>2, <1>6, <2>1, <2>2 DEF DeleteArtifact, Restore, Rewind, Idle, Respected
<1>7. ASSUME NEW t \in Subjects, NEW editor \in Consumers, NEW entry \in Pins[t],
             EditManifest(editor, t, entry)
      PROVE  Goal
  BY <1>1, <1>2, <1>7, EditsAreRespected DEF EditManifest, Idle
<1>8. CASE Merge
  <2>1. /\ main'.artifacts[s] = artifacts[s] /\ artifacts' = artifacts /\ position' = 0
        /\ released'[s] = IF Present(s) THEN released[s] \cup {artifacts[s]} ELSE released[s]
    BY <1>8 DEF Merge, Idle, files
  <2>2. artifacts[s] \notin {Missing, Torn} => \A n : ~BreaksAt(artifacts[s], artifacts[s], n)
    BY <1>2, CommittedIsWellFormed, NoBreakOfItself
  <2>3. QED
    BY <1>2, <2>1, <2>2 DEF Respected, Present
<1>9. CASE UNCHANGED <<artifacts, manifests, main, released>> /\ Idle
  BY <1>1, <1>2, <1>9 DEF Respected, Idle
<1>10. CASE UNCHANGED vars
  BY <1>1, <1>10 DEF vars, files, Respected, Derived
<1>11. QED
  BY <1>3, <1>4, <1>5, <1>6, <1>7, <1>8, <1>9, <1>10
     DEF Next, EditCode, RestoreLedger, files

LEMMA MergeIsAcknowledged ==
    ASSUME VetoInv, [Next]_vars, NEW s \in Orderly, NEW consumer \in Consumers
    PROVE  BreakIsAcknowledged(consumer, s)
<1> SUFFICES ASSUME main' # main,
                    {main.artifacts[s], main'.artifacts[s]} \cap {Missing} = {},
                    NotConsumed \notin {main.manifests[consumer][s], main'.manifests[consumer][s]},
                    NEW change \in BreakingChanges(Diff(main.artifacts[s], main'.artifacts[s])),
                    change.field \in main.manifests[consumer][s].fields
                                        \cap main'.manifests[consumer][s].fields
             PROVE  Older(main.artifacts[s].version, main'.manifests[consumer][s].acknowledged)
  BY DEF BreakIsAcknowledged
<1>1. Merge
  BY DEF Next, vars, files, BeginGenerate, WriteArtifact, WriteLedger, Killed, KilledWriting,
         EditCode, EditManifest, DeleteArtifact, Restore, Rewind, RestoreLedger
<1>2. main'.artifacts = artifacts /\ main'.manifests = manifests /\ artifacts[s] # Torn
  BY <1>1 DEF Merge, CheckPasses, Readable, Orderly
<1>3. BreaksAt(main.artifacts[s], artifacts[s], change.field)
  BY <1>2 DEF BreaksAt
<1>4. Respected(consumer, s, artifacts[s])
  BY DEF VetoInv
<1>5. QED
  BY <1>2, <1>3, <1>4 DEF Respected

(* No merge breaks a field that a consumer pins before and after it unless *)
(* the consumer has acknowledged more than the version it knew, as long as *)
(* the subject is not rewound and its pins are not taken back.             *)
THEOREM MergesRespectTheVeto == Spec => BreaksAreAcknowledged
<1>1. Init => VetoInv
  BY InitVeto
<1>2. GateInv /\ VetoInv /\ [Next]_vars => VetoInv'
  BY NextVeto
<1>3. VetoInv /\ [Next]_vars =>
        [\A consumer \in Consumers, s \in Subjects \ (Rewinds \cup LateManifests) :
            BreakIsAcknowledged(consumer, s)]_vars
  BY MergeIsAcknowledged DEF Orderly
<1>4. QED
  BY <1>1, <1>2, <1>3, GateInvariant, PTL DEF Spec, BreaksAreAcknowledged
=============================================================================
