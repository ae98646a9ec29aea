-------------------------- MODULE ContractEvolution --------------------------
(***************************************************************************)
(* One committed artifact over any number of `generate` runs: each takes   *)
(* the contract derived from code in place of the committed one, provided  *)
(* the assessment of the two finds no problem (cli.py, _assess_subject and *)
(* _generate).  The developer may edit the code and its version at will.   *)
(* ContractGate.tla adds what this leaves out: the ledger, the consumers,  *)
(* several subjects, lost and restored artifacts, and the merges.          *)
(***************************************************************************)
EXTENDS ContractGeneration

CONSTANTS
    Models,   \* the models code may be made to declare, as sequences of fields
    Tables,   \* the landing tables code may be made to declare, as sequences of columns
    Versions  \* the versions it may be given

ASSUME ModelsAssumption == \A model \in Models : IsModel(model)
ASSUME TablesAssumption == \A columns \in Tables : IsTable(columns)
ASSUME VersionsAssumption == Versions \subseteq Version

(* What code may be made to derive; the subject's artifact is compared     *)
(* with it whatever it was derived from before.                            *)
Contracts ==
    {ContractFromModel(model, version) : model \in Models, version \in Versions}
    \cup {ContractFromLandingColumns(columns, version) : columns \in Tables, version \in Versions}

VARIABLES
    origin,    \* history: the contract committed first
    committed  \* the artifact

EvolutionInit ==
    /\ committed \in Contracts
    /\ origin = committed

Generate(derived) ==
    /\ Compatible(committed, derived)
    /\ committed' = derived
    /\ UNCHANGED origin

EvolutionNext == \E derived \in Contracts : Generate(derived)

EvolutionSpec == EvolutionInit /\ [][EvolutionNext]_<<origin, committed>>

-----------------------------------------------------------------------------
(* Properties *)

(* No series of accepted releases adds up to a change its versions hide:   *)
(* between any release and any later one the version has moved as far as   *)
(* the difference of the two contracts demands, although each step was     *)
(* only compared with the one before.                                      *)
NoLaundering == Discipline(origin, committed)

-----------------------------------------------------------------------------
(* What a contract means to those who write records and those who read     *)
(* them.  A record maps the names it provides to a typed value or to null. *)

CONSTANTS
    Types, Literals,  \* the types of fields and the values of their domains
    Null              \* a provided value that is null

RecordsOver(names) ==
    UNION {[provided -> (Types \X Literals) \cup {Null}] : provided \in SUBSET names}

(* extra="forbid" models: nothing but the fields, and all required ones. *)
Accepts(contract, record) ==
    /\ DOMAIN record \subseteq Names(contract)
    /\ \A n \in Names(contract) :
          LET field == FieldNamed(contract, n)
          IN  IF n \notin DOMAIN record
              THEN ~field.required
              ELSE IF record[n] = Null
              THEN field.nullable
              ELSE /\ record[n][1] = field.type
                   /\ field.enum_values # NoEnum =>
                         record[n][2] \in Values(field.enum_values)

(* Under one major version a producer is never broken: every record that   *)
(* the contract accepted at some release is accepted at all later ones.    *)
WritersKeepWorking ==
    committed.version[1] = origin.version[1] =>
        \A record \in RecordsOver(Names(origin)) :
            Accepts(origin, record) => Accepts(committed, record)

(* Under one major version a reader finds every field it knew, of the same *)
(* type, null only where it could be null before, an enum still an enum    *)
(* (with new values it is obliged to tolerate), and the same primary key.  *)
ReadersKeepWorking ==
    committed.version[1] = origin.version[1] =>
        \A n \in Names(origin) :
            /\ n \in Names(committed)
            /\ LET before == FieldNamed(origin, n)
                   after == FieldNamed(committed, n)
               IN  /\ after.type = before.type
                   /\ after.nullable => before.nullable
                   /\ before.enum_values # NoEnum => after.enum_values # NoEnum
                   /\ before.primary_key => after.primary_key

(* A table outlives the release that created it, and is never altered.     *)
(* Releases of one major version can go back: an older one still finds and *)
(* writes its rows in the table of a newer one.  They can go forward as    *)
(* well as long as the minor version stays; a minor release may have added *)
(* a column that the older table lacks.                                    *)
TablesSurviveReleases ==
    \A then, now \in Tables :
        (/\ origin = ContractFromLandingColumns(then, origin.version)
         /\ committed = ContractFromLandingColumns(now, committed.version)
         /\ committed.version[1] = origin.version[1])
        => /\ TableServes(now, then)
           /\ committed.version[2] = origin.version[2] => TableServes(then, now)

(* What counts as a reordering, two fields that have changed places, is    *)
(* where the two lists of common names differ that _reordering_changes     *)
(* compares, whatever fields have come and gone between and around them.   *)
ReorderedAsCoded ==
    Reordered(origin, committed) <=>
        CommonOrder(origin, committed) # CommonOrder(committed, origin)
=============================================================================
