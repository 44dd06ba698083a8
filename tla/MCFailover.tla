------------------------------ MODULE MCFailover ------------------------------
(***************************************************************************)
(* Two instances of AccountFallback, in one run: part says which of them   *)
(* is explored.                                                            *)
(*   "turns"  two concurrent turns, one of them in a session               *)
(*   "kinds"  one turn after the other of every kind, with two models, an  *)
(*            OAuth account, two proxy pools, the free-tier gate and an    *)
(*            operator who disables an account                             *)
(***************************************************************************)
EXTENDS MCAccountFallback

VARIABLES part, kenabled, krate, kpark, klock, kbound, kturn, kunfit

Kinds == INSTANCE AccountFallback WITH
    OAuthAccounts <- {a}, Models <- {m1, m2}, Keys <- {}, Turns <- {p},
    Requests <- [t \in {p} |-> EveryKind], Strategy <- "random", ForceFallback <- FALSE,
    Pools <- {px, py}, OwnPool <- AOwnPool, ProviderPool <- px, PoolRotation <- TRUE,
    Toggled <- {b}, FreeTier <- TRUE,
    enabled <- kenabled, rate <- krate, park <- kpark, lock <- klock, bound <- kbound,
    turn <- kturn, unfit <- kunfit

kinds == <<kenabled, krate, kpark, klock, kbound, kturn, kunfit>>

FailoverInit == part \in {"turns", "kinds"} /\ Init /\ Kinds!Init

FailoverNext ==
    /\ UNCHANGED part
    /\ \/ part = "turns" /\ Next /\ UNCHANGED kinds
       \/ part = "kinds" /\ Kinds!Next /\ UNCHANGED vars

FailoverSpec == FailoverInit /\ [][FailoverNext]_<<part, vars, kinds>>

------------------------------------------------------------------------------
\* Probes leave no trace on the rows and the bindings, whatever turns come between.
NoTraceOfProbes == Kinds!ProbesLeaveNoTrace
==============================================================================
