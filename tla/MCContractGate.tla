--------------------------- MODULE MCContractGate ---------------------------
(* Two subjects: one with a field that may change its type and another     *)
(* that may be added, at three versions, read by a consumer; and one that  *)
(* is only there or not.                                                   *)
EXTENDS ContractGate, TLC

CONSTANTS account, transaction, engine

MCSorted == <<account, transaction>>

FieldOf(name, type, required) ==
    [name |-> name, type |-> type, nullable |-> FALSE, required |-> required,
     primary_key |-> FALSE, enum_values |-> NoEnum, doc |-> "doc"]

Amount == FieldOf("amount", "decimal", TRUE)
Retyped == FieldOf("amount", "string", TRUE)
Note == FieldOf("note", "string", FALSE)

(* At 1.0.0 and at 2.0.0 there are two contracts to be told apart. *)
Releases ==
    [version : {<<1, 0, 0>>}, fields : {<<Amount>>, <<Retyped>>}]
    \cup [version : {<<1, 1, 0>>}, fields : {<<Amount, Note>>}]
    \cup [version : {<<2, 0, 0>>}, fields : {<<Retyped>>, <<Amount, Note>>}]

MCContractsOf ==
    transaction :> Releases
    @@ account :> [version : {<<1, 0, 0>>}, fields : {<<FieldOf("owner", "string", TRUE)>>}]

MCPins ==
    transaction :> ([fields : {{"amount"}}, acknowledged : {<<1, 0, 0>>, <<2, 0, 0>>}] \cup {NotConsumed})
    @@ account :> ([fields : {{"owner"}}, acknowledged : {<<1, 0, 0>>}] \cup {NotConsumed})
=============================================================================
