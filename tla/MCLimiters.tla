----------------------------- MODULE MCLimiters -----------------------------
(***************************************************************************)
(* The two limiters, in one run: part says which small instance is         *)
(* explored.                                                               *)
(*   "keys"    RateLimiter: r1 .. r3 share k1, which has both limits, and  *)
(*             r4 has k2 to itself, which has only an RPM limit            *)
(*   "evicts"  the same limiter with as many keys as its maps may hold, so *)
(*             that admissions evict the idle ones, and with k1's          *)
(*             concurrency limit raised while requests wait                *)
(*   "gates"   AccountSemaphore: three requests of one account             *)
(*   "blocks"  two of them, and a 429 that blocks the account and sets its *)
(*             limit to Block's default                                    *)
(***************************************************************************)
EXTENDS MCRateLimiter, AccountSemaphore

VARIABLES
    part,
    emu, ewindows, epresent, eactive, equeues, etimers, epc, edone, egranted, erecent

CONSTANTS b1, g1, g2, g3, g4

Evicting == INSTANCE RateLimiter WITH
    Requests <- {r1, r2, r4}, KeyOf <- [r \in {r1, r2, r4} |-> MCKeyOf[r]],
    Rpm <- [r \in {r1, r2, r4} |-> MCRpm[r]],
    Conc <- [r \in {r1, r2, r4} |-> RaisedConc[r]], CanWait <- {r1, r2, r4},
    ConcCeiling <- RaisedConcCeiling, MaxKeys <- 2, MaxQueueDepth <- 2,
    mu <- emu, windows <- ewindows, present <- epresent, active <- eactive,
    queues <- equeues, timers <- etimers, pc <- epc, done <- edone,
    granted <- egranted, recent <- erecent

evicting == <<emu, ewindows, epresent, eactive, equeues, etimers, epc, edone, egranted, erecent>>

LimitersInit ==
    /\ part \in {"keys", "evicts", "gates", "blocks"}
    /\ Init /\ Evicting!Init /\ SemaphoreInit

LimitersNext ==
    /\ UNCHANGED part
    /\ \/ part = "keys" /\ Next /\ UNCHANGED <<evicting, semaphoreVars>>
       \/ part = "evicts" /\ Evicting!Next /\ UNCHANGED <<vars, semaphoreVars>>
       \/ part = "gates" /\ SemaphoreNext /\ step'[b1] = "idle" /\ UNCHANGED <<vars, evicting>>
       \/ part = "blocks" /\ SemaphoreNext /\ step'[r3] = "idle" /\ UNCHANGED <<vars, evicting>>

LimitersSpec == LimitersInit /\ [][LimitersNext]_<<part, vars, evicting, semaphoreVars>>

------------------------------------------------------------------------------
\* Eviction never drops a key that has a holder or a waiter.
EvictionSparesBusyKeys == Evicting!SlotAccounting /\ Evicting!NoLostWakeup
==============================================================================
