---------------------------- MODULE MCOrderFlow ----------------------------
(***************************************************************************)
(* Instances of OrderFlow for TLC.                                         *)
(***************************************************************************)
EXTENDS OrderFlow, TLC

CONSTANTS o1, o2, w1, w2

\* Every request slot may be used for every order
SharedDesk == [w \in Worker |-> Order]

\* Line ids are interchangeable; so are the request slots, and the orders
SharedSymmetry == Permutations(Item) \cup Permutations(Worker)
SerialSymmetry == Permutations(Item) \cup Permutations(Order)
=============================================================================
