------------------------ MODULE MCContractEvolution ------------------------
(* Models with a field x in a form that each single edit changes in one    *)
(* attribute, and two more fields that come and go, in every order; tables *)
(* with a column c in every form, a key that may be another, and a column  *)
(* that is added in every form.                                            *)
EXTENDS ContractEvolution, TLC

CONSTANTS str, int, Status, Color, a, b

MCScalarTypeNames == str :> "string" @@ int :> "integer"

MCEnumValues == Status :> <<a>> @@ Color :> <<a, b>>

Plain(type) == [types |-> {type}, none |-> FALSE]

Field(name, type, none, hasDefault) ==
    [name |-> name, annotation |-> [types |-> {type}, none |-> none],
     has_default |-> hasDefault, description |-> NoDoc]

X == Field("x", str, FALSE, FALSE)

XForms ==
    {X, [X EXCEPT !.annotation = Plain(int)], [X EXCEPT !.annotation.none = TRUE],
     [X EXCEPT !.has_default = TRUE], [X EXCEPT !.annotation = Plain(Status)],
     [X EXCEPT !.annotation = Plain(Color)], [X EXCEPT !.description = "note"]}

Y == Field("y", str, TRUE, TRUE)
Z == Field("z", int, FALSE, FALSE)
RequiredY == [Y EXCEPT !.has_default = FALSE]

MCModels ==
    {<<x>> : x \in XForms} \cup {<<x, Y>> : x \in XForms}
    \cup {<<Y, X>>, <<X, RequiredY>>, <<RequiredY, X>>}
    \cup {<<X, Y, Z>>, <<X, Z, Y>>, <<Y, X, Z>>, <<Y, Z, X>>, <<Z, X, Y>>, <<Z, Y, X>>}

Column(name, type, isNullable, isKey) ==
    [name |-> name, sql_type |-> type, is_nullable |-> isNullable, is_primary_key |-> isKey]

Key == Column("key", "varchar", FALSE, TRUE)

MCTables ==
    {<<Key>>, <<[Key EXCEPT !.is_nullable = TRUE]>>}
    \cup {<<Key, Column("c", type, isNullable, FALSE)>> :
            type \in {"varchar", "date"}, isNullable \in BOOLEAN}
    \cup {<<Column("c", "varchar", TRUE, FALSE), Key>>,
          <<[Key EXCEPT !.is_primary_key = FALSE], Column("c", "varchar", TRUE, TRUE)>>}

MCVersions == (1..2) \X (0..1) \X (0..1)

============================================================================
