----------------------------- MODULE ContractGate -----------------------------
(***************************************************************************)
(* The contract gate (contracts/cli.py, ledger.py, consumers.py): a        *)
(* developer's working tree, with the contracts code derives, the          *)
(* committed artifacts, the subjects ledger and the consumer manifests;    *)
(* `generate`, which writes one file after the other and may be killed     *)
(* between and within the writes; and the merge into main, which CI guards *)
(* with `check --require-fresh`.                                           *)
(*                                                                         *)
(* Abstracted: file names (one artifact per subject, so no duplicate       *)
(* subjects), the serialization (a file is whole or torn, hence no format  *)
(* drift), and a second branch open at the same time.                      *)
(***************************************************************************)
EXTENDS ContractDiff, FiniteSets

CONSTANTS
    Subjects,
    Sorted,        \* the subjects in the order `generate` writes them
    ContractsOf,   \* for each subject, the contracts code may be made to derive
    Consumers,
    Pins,          \* for each subject, what a manifest may say of it
    NotConsumed,   \* a manifest that does not mention the subject
    Gone,          \* the subject is not in code
    Missing,       \* there is no such file
    Torn,          \* the file does not parse
    Unrecorded,    \* the ledger does not mention the subject
    LateManifests, \* subjects whose pins may be changed back at any time
    Rewinds        \* subjects whose artifact may be restored from before main

ASSUME SubjectsAssumption ==
    /\ IsFiniteSet(Subjects)
    /\ Sorted \in Seq(Subjects)
    /\ Len(Sorted) = Cardinality(Subjects)
    /\ Subjects = {Sorted[i] : i \in DOMAIN Sorted}

AllContracts == UNION {ContractsOf[s] : s \in Subjects}

(* Code that imports derives well-formed contracts. *)
ASSUME ContractsAssumption == \A contract \in AllContracts : WellFormed(contract)

Entries == UNION {Pins[s] : s \in Subjects}

(* _manifest_from_payload, and parse_version of the acknowledgement *)
ASSUME PinsAssumption ==
    /\ \A s \in Subjects : NotConsumed \in Pins[s]
    /\ \A entry \in Entries \ {NotConsumed} : entry.acknowledged \in Version

(* What stands for the absence of something is not that thing. *)
ASSUME SentinelsAssumption ==
    /\ Missing # Torn
    /\ {Gone, Missing, Torn} \cap AllContracts = {}
    /\ Unrecorded \notin Version
    /\ {Missing, Torn} \cap [Subjects -> Version \cup {Unrecorded}] = {}

ASSUME LibertiesAssumption == LateManifests \cup Rewinds \subseteq Subjects

VARIABLES
    code,         \* the contract each subject derives from code
    artifacts,    \* contracts/<subject>.json
    ledger,       \* contracts/_subjects_ledger.json
    manifests,    \* contracts/consumers/<consumer>.json
    position,     \* the file `generate` is about to write, 0 when none runs
    main,         \* the merged contracts directory
    released,     \* history: the artifacts of every subject that were merged
    interrupted   \* history: the last thing done to the tree was a killed generate

files == <<artifacts, ledger, manifests>>
vars == <<code, artifacts, ledger, manifests, position, main, released, interrupted>>

Present(s) == artifacts[s] # Missing

Derived(s) == code[s] # Gone

Recorded(s) == ledger # Missing /\ ledger[s] # Unrecorded

-----------------------------------------------------------------------------
(* assess_contracts *)

(* Neither parse_contract nor load_ledger raises. *)
Readable == (\A s \in Subjects : artifacts[s] # Torn) /\ ledger # Torn

(* _removed_subject_problems *)
NothingRemoved == \A s \in Subjects : Present(s) => Derived(s)

(* _assess_subject, for the subjects with both forms *)
VersionsFit ==
    \A s \in Subjects : Present(s) /\ Derived(s) => Compatible(artifacts[s], code[s])

(* manifest_problems *)
ManifestFits(entry, s) ==
    /\ Derived(s)
    /\ entry.fields \subseteq Names(code[s])
    /\ ~Older(code[s].version, entry.acknowledged)

(* Slip: the acknowledgement is compared with the committed version. *)
AcknowledgedBefore(entry, s) ==
    \A change \in BreakingChanges(Diff(artifacts[s], code[s])) :
        change.field \in entry.fields =>
            ~Older(entry.acknowledged, artifacts[s].version)

(* consumer_veto_problems *)
Acknowledged(entry, s) ==
    \A change \in BreakingChanges(Diff(artifacts[s], code[s])) :
        change.field \in entry.fields =>
            ~Older(entry.acknowledged, code[s].version)

(* _consumer_problems *)
ConsumersAgree ==
    \A consumer \in Consumers, s \in Subjects :
        LET entry == manifests[consumer][s]
        IN  entry # NotConsumed =>
                /\ ManifestFits(entry, s)
                /\ Present(s) => Acknowledged(entry, s)

(* compatibility_problems is empty. *)
CompatibilityOK == NothingRemoved /\ VersionsFit /\ ConsumersAgree

(* vanished_recorded_subjects is empty. *)
NothingVanished == \A s \in Subjects : Recorded(s) => Present(s)

(* Slip: only artifacts that exist are compared with the ledger. *)
LedgerAgreesWithPresent ==
    IF ledger = Missing
    THEN \A s \in Subjects : ~Present(s)
    ELSE \A s \in Subjects :
            Present(s) => Recorded(s) /\ ~Older(artifacts[s].version, ledger[s])

(* ledger_problems is empty. *)
LedgerAgrees ==
    IF ledger = Missing
    THEN \A s \in Subjects : ~Present(s)
    ELSE /\ NothingVanished
         /\ \A s \in Subjects :
               Present(s) => Recorded(s) /\ ~Older(artifacts[s].version, ledger[s])

(* Neither stale_subjects nor missing_subjects. *)
Fresh == \A s \in Subjects : Derived(s) => artifacts[s] = code[s]

(* _check with --require-fresh, as `make contracts-check` runs it in CI. *)
CheckPasses == Readable /\ CompatibilityOK /\ LedgerAgrees /\ Fresh

(* Slip: an artifact that is missing is a new one. *)
AcceptedUnlessIncompatible == Readable /\ CompatibilityOK

(* Slip: whatever check complains of, generate refuses to touch. *)
AcceptedWhenLedgerAgrees == Readable /\ CompatibilityOK /\ LedgerAgrees

(* _generate does not refuse. *)
GenerateAccepted == Readable /\ CompatibilityOK /\ NothingVanished

-----------------------------------------------------------------------------
Init ==
    /\ code \in [Subjects -> AllContracts \cup {Gone}]
    /\ \A s \in Subjects : code[s] \in ContractsOf[s] \cup {Gone}
    /\ artifacts = [s \in Subjects |-> Missing]
    /\ ledger = Missing
    /\ manifests = [consumer \in Consumers |-> [s \in Subjects |-> NotConsumed]]
    /\ position = 0
    /\ main = [artifacts |-> artifacts, ledger |-> ledger, manifests |-> manifests]
    /\ released = [s \in Subjects |-> {}]
    /\ interrupted = FALSE

(* `generate` reads and assesses everything before it writes anything. *)
BeginGenerate ==
    /\ position = 0
    /\ GenerateAccepted
    /\ position' = 1
    /\ interrupted' = FALSE
    /\ UNCHANGED <<code, files, main, released>>

Writing == IF position \in DOMAIN Sorted THEN Sorted[position] ELSE Missing

(* artifact_path.write_text(...), for the subjects that are in code *)
WriteArtifact ==
    /\ position \in DOMAIN Sorted
    /\ artifacts' = [artifacts EXCEPT ![Writing] = IF Derived(Writing) THEN code[Writing] ELSE @]
    /\ position' = position + 1
    /\ UNCHANGED <<code, ledger, manifests, main, released, interrupted>>

(* merged_ledger only moves recorded versions forward. *)
MergedLedger ==
    [s \in Subjects |->
        IF Derived(s) /\ (~Recorded(s) \/ Older(ledger[s], code[s].version))
        THEN code[s].version
        ELSE IF Recorded(s) THEN ledger[s] ELSE Unrecorded]

(* Slip: the command does not end with the ledger. *)
WriteLedgerAndGoOn ==
    /\ position = Len(Sorted) + 1
    /\ ledger' = MergedLedger
    /\ position' = position + 1
    /\ UNCHANGED <<code, artifacts, manifests, main, released, interrupted>>

WriteLedger ==
    /\ position = Len(Sorted) + 1
    /\ ledger' = MergedLedger
    /\ position' = 0
    /\ UNCHANGED <<code, artifacts, manifests, main, released, interrupted>>

(* Killed between two writes. *)
Killed ==
    /\ position > 0
    /\ position' = 0
    /\ interrupted' = TRUE
    /\ UNCHANGED <<code, files, main, released>>

(* Killed within a write: write_text truncates the file first. *)
KilledWriting ==
    /\ position > 0
    /\ position' = 0
    /\ interrupted' = TRUE
    /\ \/ /\ position \in DOMAIN Sorted
          /\ Derived(Writing)
          /\ artifacts' = [artifacts EXCEPT ![Writing] = Torn]
          /\ UNCHANGED ledger
       \/ /\ position = Len(Sorted) + 1
          /\ ledger' = Torn
          /\ UNCHANGED artifacts
    /\ UNCHANGED <<code, manifests, main, released>>

-----------------------------------------------------------------------------
(* The developer, between two commands. *)

Idle == position = 0 /\ interrupted' = FALSE /\ UNCHANGED position

(* A model, the DDL or versions.py is edited. *)
EditCode(s, contract) ==
    /\ Idle
    /\ contract # code[s]
    /\ code' = [code EXCEPT ![s] = contract]
    /\ UNCHANGED <<files, main, released>>

(* From one manifest entry to another, a consumer only moves forward.  *)
MovesOn(old, new) ==
    \/ new = NotConsumed
    \/ /\ old # NotConsumed /\ new # NotConsumed
       /\ new.fields \subseteq old.fields
       /\ ~Older(new.acknowledged, old.acknowledged)

(* A consumer's manifest is edited.  Outside LateManifests, once the       *)
(* subject has been regenerated it may only give up pins or acknowledge    *)
(* more.                                                                   *)
EditManifest(consumer, s, entry) ==
    /\ Idle
    /\ entry # manifests[consumer][s]
    /\ \/ s \in LateManifests
       \/ artifacts[s] = main.artifacts[s]
       \/ MovesOn(manifests[consumer][s], entry)
    /\ manifests' = [manifests EXCEPT ![consumer][s] = entry]
    /\ UNCHANGED <<code, artifacts, ledger, main, released>>

DeleteArtifact(s) ==
    /\ Idle
    /\ Present(s)
    /\ artifacts' = [artifacts EXCEPT ![s] = Missing]
    /\ UNCHANGED <<code, ledger, manifests, main, released>>

(* git restore, of an artifact or of the ledger *)
Restore(s) ==
    /\ Idle
    /\ main.artifacts[s] \notin {Missing, artifacts[s]}
    /\ artifacts' = [artifacts EXCEPT ![s] = main.artifacts[s]]
    /\ UNCHANGED <<code, ledger, manifests, main, released>>

RestoreLedger ==
    /\ Idle
    /\ ledger # main.ledger
    /\ ledger' = main.ledger
    /\ UNCHANGED <<code, artifacts, manifests, main, released>>

(* git restore, from a commit that is older than main *)
Rewind(s) ==
    /\ s \in Rewinds
    /\ Idle
    /\ \E contract \in released[s] \ {artifacts[s]} :
          artifacts' = [artifacts EXCEPT ![s] = contract]
    /\ UNCHANGED <<code, ledger, manifests, main, released>>

(* CI is green and the change set is merged. *)
Merge ==
    /\ Idle
    /\ CheckPasses
    /\ main' = [artifacts |-> artifacts, ledger |-> ledger, manifests |-> manifests]
    /\ released' = [s \in Subjects |->
                       IF Present(s) THEN released[s] \cup {artifacts[s]} ELSE released[s]]
    /\ UNCHANGED <<code, files>>

Next ==
    \/ BeginGenerate \/ WriteArtifact \/ WriteLedger \/ Killed \/ KilledWriting
    \/ \E s \in Subjects :
          \/ \E contract \in ContractsOf[s] \cup {Gone} : EditCode(s, contract)
          \/ \E consumer \in Consumers, entry \in Pins[s] : EditManifest(consumer, s, entry)
          \/ DeleteArtifact(s) \/ Restore(s) \/ Rewind(s)
    \/ RestoreLedger
    \/ Merge

Spec == Init /\ [][Next]_vars

-----------------------------------------------------------------------------
(* Properties *)

LedgerType ==
    {Missing, Torn} \cup
        [Subjects -> {Unrecorded} \cup {contract.version : contract \in AllContracts}]

(* Every file is missing, torn, or something `generate` or a consumer may  *)
(* have written, `generate` writes no more than the artifacts and the      *)
(* ledger, and no torn file is merged.                                     *)
TypeOK ==
    /\ code \in [Subjects -> AllContracts \cup {Gone}]
    /\ artifacts \in [Subjects -> AllContracts \cup {Missing, Torn}]
    /\ ledger \in LedgerType
    /\ manifests \in [Consumers -> [Subjects -> Entries]]
    /\ position \in 0..(Len(Sorted) + 1)
    /\ main \in [artifacts : [Subjects -> AllContracts \cup {Missing}],
                 ledger : LedgerType \ {Torn},
                 manifests : [Consumers -> [Subjects -> Entries]]]
    /\ released \in [Subjects -> SUBSET AllContracts]
    /\ interrupted \in BOOLEAN

(* What has been released under a version stays what that version means:   *)
(* main has moved as far from every contract it ever held as their         *)
(* difference demands, over any series of edits, generates that are        *)
(* refused, killed or repeated, deletions, restorations and merges.  In    *)
(* particular released contracts that share a version are equal, but for   *)
(* what diff_contracts does not look at: the source and the order of enum  *)
(* values (ADR-0004).  Only a subject whose artifact is restored from      *)
(* before main escapes this.                                               *)
NothingLaundered ==
    \A s \in Subjects \ Rewinds : main.artifacts[s] # Missing =>
        \A contract \in released[s] : Discipline(contract, main.artifacts[s])

(* The newest release is what the ledger has recorded. *)
LedgerIsCurrent(s) ==
    /\ main.ledger # Missing /\ main.ledger[s] # Unrecorded
    /\ \A contract \in released[s] : ~Older(main.ledger[s], contract.version)

(* "Forging continuity now requires editing the ledger itself" (ADR-0004): *)
(* as long as the ledger has kept up with the releases, what a version     *)
(* means has not changed.                                                  *)
ForgeryShowsInTheLedger ==
    \A s \in Subjects : main.artifacts[s] # Missing /\ LedgerIsCurrent(s) =>
        \A contract \in released[s] : Discipline(contract, main.artifacts[s])

(* A subject that was merged once is in main for ever, although both its   *)
(* code and its artifact may be deleted in one change set.                 *)
RecordedForever == \A s \in Subjects : released[s] # {} => main.artifacts[s] # Missing

(* A merge that breaks a field a consumer pins, before and after it, finds *)
(* that consumer to have acknowledged more than the version it knew.       *)
BreakIsAcknowledged(consumer, s) ==
    LET old == main.artifacts[s]
        new == main'.artifacts[s]
        before == main.manifests[consumer][s]
        after == main'.manifests[consumer][s]
    IN  (/\ main' # main
         /\ {old, new} \cap {Missing} = {}
         /\ NotConsumed \notin {before, after}
         /\ \E change \in BreakingChanges(Diff(old, new)) :
               change.field \in before.fields \cap after.fields)
        => Older(old.version, after.acknowledged)

(* The veto works, where pins are not taken back after the fact: no break  *)
(* of a pinned field is merged that its consumer has not acknowledged.     *)
BreaksAreAcknowledged ==
    [][\A consumer \in Consumers, s \in Subjects \ (Rewinds \cup LateManifests) :
          BreakIsAcknowledged(consumer, s)]_vars

(* "A breaking change to a pinned field is a hard failure even when the    *)
(* producer bumped the contract's major version" (contracts/consumers.py), *)
(* wherever artifacts are not restored from before main.                   *)
VetoIsHard ==
    [][\A consumer \in Consumers, s \in Subjects \ Rewinds : BreakIsAcknowledged(consumer, s)]_vars

(* A generate that was killed between two writes can be run again: what it *)
(* left behind, artifacts the ledger does not record included, is accepted *)
(* as the baseline of the second run.                                      *)
KilledGenerateCanBeRepeated == interrupted /\ Readable => GenerateAccepted
=============================================================================
