----------------------------- MODULE MCSpendMart -----------------------------
(* Outflows in the same month of two years and with two signals at once,   *)
(* an inflow at the threshold, pending outflows with and without a date,   *)
(* and a keyword that only occurs across the two texts.                    *)
EXTENDS SpendMart

CONSTANTS food, Food, cash, rent, shop

MCNormal == [l \in {food, Food} |-> food]

Booked(amount, year, label, description, counterparty) ==
    [amount |-> amount, status |-> "booked",
     date |-> [year |-> year, month |-> 5],
     label |-> label, description |-> description, counterparty |-> counterparty]

Rent == Booked(-7, 2025, None, <<rent>>, <<shop>>)
RentNextYear == [Rent EXCEPT !.date.year = 2026]
Lunch == Booked(-2, 2026, Food, <<rent>>, None)
Cash == Booked(-3, 2026, None, <<cash>>, <<shop>>)
Income == Booked(10, 2026, None, None, None)
PendingLunch == [Lunch EXCEPT !.status = "pending", !.date = None]
DatedPending == [Lunch EXCEPT !.status = "pending"]

MCTransactions == {Rent, RentNextYear, Lunch, Cash, Income, PendingLunch, DatedPending}

MCFirstRules ==
    [labels |-> [l \in {food} |-> "groceries"],
     keywords |-> <<[keyword |-> <<rent>>, category |-> "rent"]>>]

MCLateRules ==
    {[keyword |-> <<cash, Space, shop>>, category |-> "cash"],
     [keyword |-> <<shop>>, category |-> "shopping"]}
=============================================================================
