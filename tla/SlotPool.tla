------------------------------ MODULE SlotPool ------------------------------
(***************************************************************************)
(* What a concurrency limiter promises, whatever its queues, timers and    *)
(* locks: each pool has a ceiling, an owner takes a slot of a pool that    *)
(* has one left and gives back a slot it holds, one owner per step.        *)
(*                                                                         *)
(* RateLimiter implements it with one pool per key, AccountSemaphore with  *)
(* one pool per gate.                                                      *)
(***************************************************************************)
EXTENDS Integers, FiniteSets

CONSTANTS Pools, Owners,
          Ceiling    \* per pool

VARIABLE held        \* per pool, the owners of its slots

Init == held = [p \in Pools |-> {}]

Take(p, o) ==
    /\ o \notin held[p]
    /\ Cardinality(held[p]) < Ceiling[p]
    /\ held' = [held EXCEPT ![p] = @ \cup {o}]

GiveBack(p, o) ==
    /\ o \in held[p]
    /\ held' = [held EXCEPT ![p] = @ \ {o}]

Next ==
    /\ held' # held
    /\ \E p \in Pools, o \in Owners : Take(p, o) \/ GiveBack(p, o)

Spec == Init /\ [][Next]_held
==============================================================================
