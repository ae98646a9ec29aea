--------------------------- MODULE CanonicalModels ---------------------------
(***************************************************************************)
(* The identifiers of canonical records (canonical.py): how they are       *)
(* derived, what is refused on the way, and what the validators of a       *)
(* record let pass.  Adapters build records, some of them with a wrong     *)
(* identifier; those that pass are what the landing store keys its tables  *)
(* by.                                                                     *)
(*                                                                         *)
(* A string is a sequence of characters.  SHA-256 is taken to be free of   *)
(* collisions: a digest, written in hexadecimal digits, is one character   *)
(* that only its text has.                                                 *)
(***************************************************************************)
EXTENDS Integers, FiniteSets, SequencesExt

CONSTANTS
    Characters, \* of the banks' identifiers and columns
    Control,    \* control characters
    Separator,  \* KEY_SEPARATOR
    Colon,
    Content,    \* CONTENT_ID_PREFIX
    Banks,      \* the values of SourceBank
    Accounts,   \* source_account_ids that may be met
    SourceIds,  \* source_transaction_ids that may be met
    Rows,       \* rows of an export without identifiers
    MaxIndex,   \* bound on the occurrence index
    MaxAccepted \* bound on the records

ASSUME SeparatorAssumption == Separator \in Control
ASSUME StringsAssumption ==
    /\ Banks \cup Accounts \cup SourceIds \subseteq Seq(Characters)
    /\ Rows \subseteq Seq(Seq(Characters))

(* "The join is injective because" of this, and of reject_control_characters. *)
ASSUME BanksAssumption ==
    \A bank \in Banks : \A i \in DOMAIN bank : bank[i] \notin Control

VARIABLE accepted \* the transactions whose validators passed

Clean(string) == \A i \in DOMAIN string : string[i] \notin Control

(* Slip: every string is good enough. *)
AnyString(string) == TRUE

(* reject_control_characters *)
Allowed(string) == Clean(string)

Digest(text) == [sha256 |-> text]

(* derive_account_id *)
AccountId(bank, account) == bank \o <<Colon>> \o account

KeyMaterial(bank, account, id) == bank \o <<Separator>> \o (account \o <<Separator>> \o id)

(* derive_transaction_id *)
TransactionId(bank, account, id) == Digest(KeyMaterial(bank, account, id))

(* Slip: the columns are joined by nothing. *)
Concatenated(columns) == FlattenSeq(columns)

Beside(text, column) == text \o <<Separator>> \o column

(* KEY_SEPARATOR.join, of the columns up to each of them *)
Join(columns) ==
    LET join[n \in 1..Len(columns)] ==
            IF n = 1 THEN columns[1] ELSE Beside(join[n - 1], columns[n])
    IN  join

Joined(columns) == Join(columns)[Len(columns)]

(* A digest of a row is no character of an identifier. *)
ASSUME DigestsAssumption ==
    \A columns \in Rows \ {<<>>} : Digest(Joined(columns)) \notin Characters

(* derive_content_source_transaction_id: content:digest:index *)
ContentId(columns, index) ==
    <<Content, Colon, Digest(Joined(columns)), Colon, [decimal |-> index]>>

Derivable(columns) == columns # <<>> /\ \A i \in DOMAIN columns : Allowed(columns[i])

Origin(columns, index) == [columns |-> columns, index |-> index]

(* A canonical transaction; the origin is history, the row it was made of. *)
CanonicalTransaction(bank, account, id, origin) ==
    [transaction_id |-> TransactionId(bank, account, id), account_id |-> AccountId(bank, account),
     source_bank |-> bank, source_account_id |-> account, source_transaction_id |-> id,
     origin |-> origin]

(* The validators of CanonicalTransaction, as far as identifiers go *)
ValidIdentifiers(t) ==
    /\ t.source_account_id # <<>> /\ t.source_transaction_id # <<>>
    /\ Allowed(t.source_account_id) /\ Allowed(t.source_transaction_id)
    /\ t.account_id = AccountId(t.source_bank, t.source_account_id)
    /\ t.transaction_id = TransactionId(t.source_bank, t.source_account_id, t.source_transaction_id)

-----------------------------------------------------------------------------

(* An adapter reads a bank's own identifier ... *)
Identified ==
    {CanonicalTransaction(bank, account, id, Origin(<<id>>, -1)) :
        bank \in Banks, account \in Accounts, id \in SourceIds}

(* ... or a row without one ... *)
FromContent ==
    {CanonicalTransaction(bank, account, ContentId(columns, index), Origin(columns, index)) :
        bank \in Banks, account \in Accounts,
        columns \in {row \in Rows : Derivable(row)}, index \in 0..MaxIndex}

(* ... or takes the account, or the key, of something else. *)
Mistaken ==
    {[t EXCEPT !.account_id = AccountId(t.source_bank, other)] :
        t \in Identified, other \in Accounts}
    \cup {[t EXCEPT !.transaction_id = TransactionId(t.source_bank, other, t.source_transaction_id)] :
        t \in Identified, other \in Accounts}

Offered == Identified \cup FromContent \cup Mistaken

Passing == {t \in Offered : ValidIdentifiers(t)}

-----------------------------------------------------------------------------

CanonicalInit == accepted = {}

Accept(t) ==
    /\ Cardinality(accepted) < MaxAccepted
    /\ accepted' = accepted \cup {t}

(* A ValueError leaves nothing behind. *)
Refuse == Passing # Offered /\ UNCHANGED accepted

CanonicalNext == Refuse \/ \E t \in Passing : Accept(t)

CanonicalSpec == CanonicalInit /\ [][CanonicalNext]_accepted

-----------------------------------------------------------------------------
(* Properties *)

(* Records with one key are of one transaction of one account of one bank: *)
(* first write wins can only ever meet a replay or a new state of the same *)
(* transaction, whatever separators or colons the banks' identifiers hold  *)
(* and whatever identifiers adapters get wrong.                            *)
IdsAreKeys ==
    \A s, t \in accepted : s.transaction_id = t.transaction_id =>
        /\ s.source_bank = t.source_bank
        /\ s.source_account_id = t.source_account_id
        /\ s.source_transaction_id = t.source_transaction_id
        /\ s.account_id = t.account_id

(* Rows that differ in a column or in their index, wherever the columns    *)
(* are divided, have different keys.                                       *)
RowsKeepApart ==
    \A s, t \in accepted : s.transaction_id = t.transaction_id => s.origin = t.origin
=============================================================================
