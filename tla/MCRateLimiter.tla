---------------------------- MODULE MCRateLimiter ----------------------------
(* Instances of RateLimiter for TLC. *)
EXTENDS RateLimiter, TLC

CONSTANTS r1, r2, r3, r4, k1, k2

\* r1 .. r3 share k1 and r4 has k2 to itself.
MCKeyOf == [r \in Requests |-> IF r = r4 THEN k2 ELSE k1]
\* k1 has both limits, k2 only an RPM limit: k2 is what eviction can drop.
MCRpm == [r \in Requests |-> IF r = r4 THEN 1 ELSE 2]
MCConc == [r \in Requests |-> IF r = r4 THEN 0 ELSE 1]
MCRpmCeiling == (k1 :> 2) @@ (k2 :> 1)
MCConcCeiling == (k1 :> 1) @@ (k2 :> 0)

\* k1 has only a concurrency limit.
ConcOnlyRpm == [r \in Requests |-> 0]
ConcOnlyConc == [r \in Requests |-> 2]
ConcOnlyKeyOf == [r \in Requests |-> k1]
ConcOnlyRpmCeiling == [k \in Keys |-> 0]
ConcOnlyConcCeiling == [k \in Keys |-> 2]

\* Without an RPM limit no stamp is ever taken, and time changes nothing.
ConcOnlyNext == Next /\ UNCHANGED <<windows, timers, recent>>
ConcOnlySpec == Init /\ [][ConcOnlyNext]_vars /\ Fairness

\* k1's concurrency limit is raised from 1 to 2 while requests wait: r2 and r3 were
\* parked, or are served, under the old limit.
RaisedConc == [r \in Requests |-> IF r = r4 THEN 0 ELSE IF r = r1 THEN 2 ELSE 1]
RaisedConcCeiling == (k1 :> 2) @@ (k2 :> 0)
===============================================================================
