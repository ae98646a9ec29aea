-------------------------- MODULE ContractGeneration --------------------------
(***************************************************************************)
(* How contracts are derived from code (contracts/generate.py): from the   *)
(* fields of a pydantic model, or from the columns that the tables of the  *)
(* landing store are declared with (ingestion/landing.py); and what the    *)
(* store's statements need of a table that is there already, because an    *)
(* older or a newer release has created it.  Pure definitions.             *)
(*                                                                         *)
(* Abstracted: the subject and the source of a contract, which are not     *)
(* compared; SQL types are taken without their case.                       *)
(***************************************************************************)
EXTENDS ContractDiff

CONSTANTS
    ScalarTypeNames, \* SCALAR_TYPE_NAMES, by type
    EnumValues,      \* the values of each enum class
    NoDoc            \* a field without a description

-----------------------------------------------------------------------------
(* Models: fields [name, annotation, has_default, description], where an   *)
(* annotation is a union of types, with None or without.                   *)

(* _unwrap_optional and _field_contract_from_pydantic do not raise.        *)
Contractable(field) ==
    \E type \in DOMAIN ScalarTypeNames \cup DOMAIN EnumValues : field.annotation.types = {type}

BaseType(field) == CHOOSE type \in field.annotation.types : TRUE

(* _field_contract_from_pydantic *)
FieldContract(field) ==
    LET isEnum == BaseType(field) \in DOMAIN EnumValues
    IN  [name |-> field.name,
         type |-> IF isEnum THEN "string" ELSE ScalarTypeNames[BaseType(field)],
         nullable |-> field.annotation.none,
         required |-> ~field.has_default,
         primary_key |-> FALSE,
         enum_values |-> IF isEnum THEN EnumValues[BaseType(field)] ELSE NoEnum,
         doc |-> field.description]

(* _contract_from_model *)
ContractFromModel(model, version) ==
    [version |-> version, fields |-> [i \in DOMAIN model |-> FieldContract(model[i])]]

(* A model that is imported without an error, and derives a contract. *)
IsModel(model) ==
    /\ IsList(model)
    /\ \A i, j \in DOMAIN model : model[i].name = model[j].name => i = j
    /\ \A i \in DOMAIN model :
          /\ Contractable(model[i])
          /\ model[i].annotation.none \in BOOLEAN /\ model[i].has_default \in BOOLEAN

-----------------------------------------------------------------------------
(* Tables: columns [name, sql_type, is_nullable, is_primary_key]. *)

(* Slip: like a model's fields, columns have defaults. *)
OptionalColumn(column) ==
    [name |-> column.name,
     type |-> column.sql_type,
     nullable |-> column.is_nullable,
     required |-> FALSE,
     primary_key |-> column.is_primary_key,
     enum_values |-> NoEnum,
     doc |-> NoDoc]

ColumnContract(column) ==
    [name |-> column.name,
     type |-> column.sql_type,
     nullable |-> column.is_nullable,
     required |-> ~column.is_nullable,
     primary_key |-> column.is_primary_key,
     enum_values |-> NoEnum,
     doc |-> NoDoc]

(* _contract_from_landing_columns *)
ContractFromLandingColumns(columns, version) ==
    [version |-> version, fields |-> [i \in DOMAIN columns |-> ColumnContract(columns[i])]]

(* A table the database can create: its rows have one key. *)
IsTable(columns) ==
    /\ IsList(columns)
    /\ \A i, j \in DOMAIN columns : columns[i].name = columns[j].name => i = j
    /\ \A i \in DOMAIN columns :
          columns[i].is_nullable \in BOOLEAN /\ columns[i].is_primary_key \in BOOLEAN
    /\ \E key \in DOMAIN columns : \A i \in DOMAIN columns : columns[i].is_primary_key <=> i = key

(* _column_clause: PRIMARY KEY, or NOT NULL *)
NotNull(column) == column.is_primary_key \/ ~column.is_nullable

(* CREATE TABLE IF NOT EXISTS leaves a table as it is.  _fetch_row and     *)
(* _insert_row name all columns of the running code: the table must have   *)
(* them as declared, and demand no value of any other column.              *)
TableServes(table, columns) ==
    /\ \A i \in DOMAIN columns : \E j \in DOMAIN table :
          /\ table[j].name = columns[i].name
          /\ table[j].sql_type = columns[i].sql_type
          /\ table[j].is_primary_key = columns[i].is_primary_key
          /\ NotNull(table[j]) => NotNull(columns[i])
    /\ \A j \in DOMAIN table :
          NotNull(table[j]) => \E i \in DOMAIN columns : columns[i].name = table[j].name
=============================================================================
