------------------------------- MODULE MCCombo -------------------------------
(* An instance of Combo for TLC: one entry whose provider has two accounts. *)
EXTENDS Combo

CONSTANTS root, x, a, b

OneEntry == [c \in {root} |-> <<x>>]
NoFallback == [c \in {root} |-> <<>>]
TwoAccounts == [e \in {x} |-> {a, b}]
==============================================================================
