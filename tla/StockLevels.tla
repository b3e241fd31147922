----------------------------- MODULE StockLevels -----------------------------
(***************************************************************************)
(* What the stock pages promise: every stock has a level that opens, is    *)
(* taken from, counted and closed one whole change at a time, and is       *)
(* marked low exactly while it is at or below its minimum.                 *)
(***************************************************************************)
EXTENDS Integers

CONSTANTS Stock, Closed, Quantities, Amounts, Minima

VARIABLE shelf

Shown(q, m) == [quantity |-> q, min |-> m, low |-> q <= m]

Becomes(s, level) == shelf' = [shelf EXCEPT ![s] = level]

Open(s) ==
    /\ shelf[s] = Closed
    /\ \E q \in Quantities, m \in Minima : Becomes(s, Shown(q, m))

\* Nothing is taken that is not there
Take(s) ==
    \E n \in Quantities \cup Amounts :
        /\ n <= shelf[s].quantity
        /\ Becomes(s, Shown(shelf[s].quantity - n, shelf[s].min))

Count(s) ==
    \E q \in Quantities \cup Amounts \cup {shelf[s].quantity}, m \in Minima \cup {shelf[s].min} :
        Becomes(s, Shown(q, m))

Close(s) == Becomes(s, Closed)

Init == shelf = [s \in Stock |-> Closed]

Next ==
    \E s \in Stock :
        \/ Open(s)
        \/ shelf[s] # Closed /\ (Take(s) \/ Count(s) \/ Close(s))

Spec == Init /\ [][Next]_shelf
=============================================================================
