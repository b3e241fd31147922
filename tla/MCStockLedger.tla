---------------------------- MODULE MCStockLedger ----------------------------
(***************************************************************************)
(* Instances of StockLedger for TLC.                                       *)
(***************************************************************************)
EXTENDS StockLedger, TLC

\* Every request slot works on every stock, or each stock has its own slot
CONSTANTS s1, s2, w1, w2
SharedDesk  == [w \in Worker |-> Stock]
PrivateDesk == [w \in Worker |-> IF w = w1 THEN {s1} ELSE {s2}]

\* Staff adjust by a positive and a negative quantity
BothSigns == {-100, 100}
Negative  == {-100}

\* Edits of the minimum or of the quantity
EitherField == {<<Keep, 100>>, <<200, Keep>>}

\* Request slots that share everything are interchangeable
Symmetry == Permutations(Worker)
=============================================================================
