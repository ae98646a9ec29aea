---------------------------- MODULE ContractDiff ----------------------------
(***************************************************************************)
(* How two contracts of one subject are compared (contracts/diff.py): the  *)
(* classified changes between them, the version bump these demand, and     *)
(* whether a change of version satisfies the demand.  Pure definitions.    *)
(*                                                                         *)
(* A contract is a version and a sequence of fields with distinct names.   *)
(* Abstracted: the order of the list of changes and their wording.         *)
(***************************************************************************)
EXTENDS Integers, Sequences

CONSTANT NoEnum  \* enum_values of a field whose domain is free

-----------------------------------------------------------------------------
(* Versions: <<major, minor, patch>>, compared as tuples. *)

Version == Nat \X Nat \X Nat

Older(v, w) ==
    \/ v[1] < w[1]
    \/ v[1] = w[1] /\ v[2] < w[2]
    \/ v[1] = w[1] /\ v[2] = w[2] /\ v[3] < w[3]

NONE == 0
PATCH == 1
MINOR == 2
MAJOR == 3

(* Slip: a version that went backwards is let through. *)
VersionChangeForgetful(old, new, required) ==
    /\ required = NONE => new = old
    /\ required = PATCH => new # old
    /\ required = MINOR => new[1] > old[1] \/ new[2] > old[2]
    /\ required = MAJOR => new[1] > old[1]

(* version_change_problems finds nothing to complain about. *)
VersionChangeOK(old, new, required) ==
    /\ ~Older(new, old)
    /\ required = NONE => new = old
    /\ required = PATCH => new # old
    /\ required = MINOR => new[1] > old[1] \/ new[2] > old[2]
    /\ required = MAJOR => new[1] > old[1]

-----------------------------------------------------------------------------
(* Changes *)

Breaking ==
    {"field_removed", "type_changed", "nullability_changed", "field_became_required",
     "primary_key_added", "primary_key_removed", "enum_value_removed",
     "enum_constraint_added", "enum_constraint_removed", "required_field_added"}

NonBreaking ==
    {"optional_field_added", "enum_value_added", "field_became_optional", "fields_reordered"}

Documentation == {"doc_changed"}

Change(type, field) == [type |-> type, field |-> field]

When(condition, change) == IF condition THEN {change} ELSE {}

Names(contract) == {contract.fields[i].name : i \in DOMAIN contract.fields}

FieldNamed(contract, name) ==
    contract.fields[CHOOSE i \in DOMAIN contract.fields : contract.fields[i].name = name]

IsList(s) == Len(s) \in Nat /\ DOMAIN s = 1..Len(s)

(* The names of the fields of a model or of a table are distinct. *)
WellFormed(contract) ==
    /\ contract.version \in Version
    /\ \A i \in DOMAIN contract.fields :
          /\ contract.fields[i].nullable \in BOOLEAN
          /\ contract.fields[i].required \in BOOLEAN
          /\ contract.fields[i].primary_key \in BOOLEAN
    /\ \A i, j \in DOMAIN contract.fields :
          contract.fields[i].name = contract.fields[j].name => i = j
    /\ IsList(contract.fields)

Values(enum) == {enum[i] : i \in DOMAIN enum}

(* Slip: an enum that is given up is taken for one that was extended. *)
DiffEnumLoosely(old, new) ==
    IF old.enum_values = NoEnum \/ new.enum_values = NoEnum
    THEN When(old.enum_values = NoEnum /\ new.enum_values # NoEnum,
              Change("enum_constraint_added", old.name))
    ELSE When(\E v \in Values(old.enum_values) : v \notin Values(new.enum_values),
              Change("enum_value_removed", old.name))
         \cup When(\E v \in Values(new.enum_values) : v \notin Values(old.enum_values),
                   Change("enum_value_added", old.name))

(* _diff_enum_values: one change per kind stands for one per value. *)
DiffEnum(old, new) ==
    IF old.enum_values = NoEnum \/ new.enum_values = NoEnum
    THEN When(old.enum_values = NoEnum /\ new.enum_values # NoEnum,
              Change("enum_constraint_added", old.name))
         \cup When(old.enum_values # NoEnum /\ new.enum_values = NoEnum,
                   Change("enum_constraint_removed", old.name))
    ELSE When(\E v \in Values(old.enum_values) : v \notin Values(new.enum_values),
              Change("enum_value_removed", old.name))
         \cup When(\E v \in Values(new.enum_values) : v \notin Values(old.enum_values),
                   Change("enum_value_added", old.name))

(* _diff_field and _primary_key_change *)
DiffField(old, new) ==
    When(old.type # new.type, Change("type_changed", old.name))
    \cup When(old.nullable # new.nullable, Change("nullability_changed", old.name))
    \cup When(~old.required /\ new.required, Change("field_became_required", old.name))
    \cup When(old.required /\ ~new.required, Change("field_became_optional", old.name))
    \cup When(~old.primary_key /\ new.primary_key, Change("primary_key_added", old.name))
    \cup When(old.primary_key /\ ~new.primary_key, Change("primary_key_removed", old.name))
    \cup DiffEnum(old, new)
    \cup When(old.doc # new.doc, Change("doc_changed", old.name))

(* Slip: whatever is new is optional. *)
AnyFieldAdded(new) == Change("optional_field_added", new.name)

(* _field_added_change *)
FieldAdded(new) ==
    Change(IF new.required THEN "required_field_added" ELSE "optional_field_added", new.name)

(* Two fields stand in the contract in this order. *)
Precedes(contract, m, n) ==
    \E i, j \in DOMAIN contract.fields :
        i < j /\ contract.fields[i].name = m /\ contract.fields[j].name = n

(* Slip: a field that is not where it was has been moved. *)
Displaced(old, new) ==
    \E i \in DOMAIN old.fields, j \in DOMAIN new.fields :
        i # j /\ old.fields[i].name = new.fields[j].name

(* _reordering_changes compares the two orders of the common names, which  *)
(* differ exactly when some pair of them has changed places.               *)
Reordered(old, new) ==
    \E m, n \in Names(old) \cap Names(new) : Precedes(old, m, n) /\ Precedes(new, n, m)

(* old_order, new_order: the names another contract has too, in the order  *)
(* of this one's fields                                                    *)
CommonNames(contract, other) ==
    LET fields == contract.fields
        common[n \in 0..Len(fields)] ==
            IF n = 0 THEN <<>>
            ELSE IF fields[n].name \in Names(other) THEN Append(common[n - 1], fields[n].name)
            ELSE common[n - 1]
    IN  common

CommonOrder(contract, other) == CommonNames(contract, other)[Len(contract.fields)]

RemovedFields(old, new) ==
    {Change("field_removed", n) : n \in Names(old) \ Names(new)}

ChangedFields(old, new) ==
    UNION {DiffField(FieldNamed(old, n), FieldNamed(new, n)) : n \in Names(old) \cap Names(new)}

AddedFields(old, new) == {FieldAdded(FieldNamed(new, n)) : n \in Names(new) \ Names(old)}

MovedFields(old, new) == When(Reordered(old, new), Change("fields_reordered", "the order"))

(* diff_contracts *)
Diff(old, new) ==
    RemovedFields(old, new) \cup ChangedFields(old, new)
    \cup AddedFields(old, new) \cup MovedFields(old, new)

BreakingChanges(changes) == {c \in changes : c.type \in Breaking}

(* required_bump: the highest level among CATEGORY_BUMP_LEVELS. *)
RequiredBump(changes) ==
    IF \E c \in changes : c.type \in Breaking THEN MAJOR
    ELSE IF \E c \in changes : c.type \in NonBreaking THEN MINOR
    ELSE IF changes # {} THEN PATCH
    ELSE NONE

(* The assessment of a committed contract against the one derived from code. *)
Compatible(old, new) ==
    VersionChangeOK(old.version, new.version, RequiredBump(Diff(old, new)))

-----------------------------------------------------------------------------
(* What a version tells a reader who has skipped the releases in between.  *)

Covers(v, w, required) ==
    /\ ~Older(w, v)
    /\ required >= PATCH => w # v
    /\ required >= MINOR => w[1] > v[1] \/ w[2] > v[2]
    /\ required >= MAJOR => w[1] > v[1]

Discipline(old, new) ==
    Covers(old.version, new.version, RequiredBump(Diff(old, new)))
=============================================================================
