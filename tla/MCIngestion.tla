----------------------------- MODULE MCIngestion -----------------------------
(* Two banks.  The first has identifiers of its own and may amend what it  *)
(* reported (v1, then v2, or vx which is out of scale); the second derives *)
(* them from the row's content, so a transaction of it has one version.    *)
EXTENDS Ingestion, TLC

CONSTANTS fjellvik, taktwerk, fa, ta, f1, f2, t1, n1, n2, v1, v2, vx, dining, travel

MCBankOrder == <<fjellvik, taktwerk>>

MCAccountsOf == fjellvik :> <<fa>> @@ taktwerk :> <<ta>>

MCTransactionsOf == fjellvik :> {f1, f2} @@ taktwerk :> {t1}

MCAccountOf == f1 :> fa @@ f2 :> fa @@ t1 :> ta

MCReportable == f1 :> {v1, v2} @@ f2 :> {v1, vx} @@ t1 :> {v1}

MCRounded == v1 :> v1 @@ v2 :> v2 @@ vx :> v1

(* The second release of the rules moves t1 to another category. *)
MCCategory ==
    <<f1 :> dining @@ f2 :> dining @@ t1 :> dining,
      f1 :> dining @@ f2 :> dining @@ t1 :> travel>>

MCFirstReport == f1 :> v1 @@ f2 :> Unreported @@ t1 :> v1
=============================================================================
