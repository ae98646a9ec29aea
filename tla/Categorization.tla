---------------------------- MODULE Categorization ----------------------------
(***************************************************************************)
(* The categorizer (categorization.py): the bank's own label, then the     *)
(* size of an inflow, then the first keyword that occurs in the texts.     *)
(* The rules are a value, since they change from release to release.  A    *)
(* text is a sequence of fragments, a keyword occurs in it wherever its    *)
(* fragments stand in a row; words have no bounds, as in the code.         *)
(***************************************************************************)
EXTENDS Integers, Sequences

CONSTANTS
    Labels,          \* labels of the banks
    Normal,          \* Normal[label]: stripped and in lower case
    Fragments,       \* what texts are made of
    Space,           \* the fragment that joins description and counterparty
    Categories,      \* TransactionCategory
    SalaryThreshold, \* SALARY_INFLOW_THRESHOLD
    None             \* no label, no text, no date, no rule matches

Uncategorized == "uncategorized"
Salary == "salary"

ASSUME LabelsAssumption == Normal \in [Labels -> Labels] /\ None \notin Labels
ASSUME CategoriesAssumption == {Uncategorized, Salary} \subseteq Categories /\ None \notin Categories
ASSUME ThresholdAssumption == SalaryThreshold \in Nat

Texts == Seq(Fragments) \cup {None}

KeywordRules == [keyword : Seq(Fragments), category : Categories]

(* _RAW_CATEGORY_MAP and _KEYWORD_RULES *)
Rules == [labels : UNION {[known -> Categories] : known \in SUBSET Labels}, keywords : Seq(KeywordRules)]

ApplyRawCategory(rules, label) ==
    IF label # None /\ Normal[label] \in DOMAIN rules.labels
    THEN rules.labels[Normal[label]]
    ELSE None

ApplySalaryHeuristic(amount) == IF amount >= SalaryThreshold THEN Salary ELSE None

(* search_text *)
SearchText(description, counterparty) ==
    CASE description = None /\ counterparty = None -> <<>>
      [] description # None /\ counterparty = None -> description
      [] description = None /\ counterparty # None -> counterparty
      [] OTHER -> description \o <<Space>> \o counterparty

Occurs(keyword, text) ==
    \E start \in 0..(Len(text) - Len(keyword)) :
        \A i \in 1..Len(keyword) : text[start + i] = keyword[i]

Matching(keywords, text) == {i \in DOMAIN keywords : Occurs(keywords[i].keyword, text)}

(* Slip: the last rule that matches wins. *)
LastOf(matching) == {i \in matching : \A j \in matching : j <= i}

First(matching) == {i \in matching : \A j \in matching : i <= j}

ApplyKeywordRules(keywords, text) ==
    IF text = <<>> \/ Matching(keywords, text) = {}
    THEN None
    ELSE keywords[CHOOSE i \in First(Matching(keywords, text)) : TRUE].category

(* The first answer of the three groups. *)
Categorize(rules, transaction) ==
    LET raw == ApplyRawCategory(rules, transaction.label)
        salary == ApplySalaryHeuristic(transaction.amount)
        keyword == ApplyKeywordRules(
            rules.keywords, SearchText(transaction.description, transaction.counterparty))
    IN  CASE raw # None -> raw
          [] raw = None /\ salary # None -> salary
          [] raw = None /\ salary = None /\ keyword # None -> keyword
          [] OTHER -> Uncategorized
=============================================================================
