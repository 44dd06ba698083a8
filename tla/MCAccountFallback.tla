-------------------------- MODULE MCAccountFallback --------------------------
(***************************************************************************)
(* Instances of AccountFallback for TLC: two accounts in priority order,  *)
(* one or two concurrent turns.                                            *)
(***************************************************************************)
EXTENDS AccountFallback

CONSTANTS a, b, p, q, m1, m2, s1, px, py

TwoAccounts == <<a, b>>

Plain == [model |-> m1, key |-> None, pin |-> None, probe |-> FALSE]
InSession == [Plain EXCEPT !.key = s1]
OtherModel == [Plain EXCEPT !.model = m2]
Probe == [Plain EXCEPT !.probe = TRUE]

AllPlain == [t \in Turns |-> {Plain}]
\* p carries the requests of one session, q requests without one.
PInSession == [t \in Turns |-> IF t = p THEN {InSession} ELSE {Plain}]
\* One turn after the other: ordinary ones, probes, pinned ones, two models.
EveryKind == {Plain, OtherModel, Probe, [Plain EXCEPT !.pin = b], [Probe EXCEPT !.pin = b]}

NoOwnPool == [c \in Accounts |-> None]
AOwnPool == [c \in Accounts |-> IF c = a THEN py ELSE None]
==============================================================================
