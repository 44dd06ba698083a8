----------------------------- MODULE ComboBudget -----------------------------
(***************************************************************************)
(* The call ceilings of combos: a request asks comboBudgetExhausted        *)
(* whether the combo's window is spent, and charges the window with        *)
(* recordComboBudgetCall before it is dispatched, whether through the      *)
(* combo or, when the combo is withheld, to its first member.  Each of the *)
(* two is one section under comboBudgetMu; the counters of all combos      *)
(* share one map, and every charge prunes the expired ones.                *)
(***************************************************************************)
EXTENDS Integers, FiniteSets

CONSTANTS
    Callers,       \* goroutines of client requests
    Capped,        \* the combos with a ceiling
    BudgetCalls,   \* per combo, its ceiling
    BudgetWindow,  \* per combo, its window in ticks
    Uncounted      \* there is no counter for the combo

ASSUME BudgetAssumption ==
    /\ BudgetCalls \in [Capped -> Nat \ {0}]
    /\ BudgetWindow \in [Capped -> Nat \ {0}]
    /\ Uncounted \notin Nat /\ Uncounted \notin Capped
    /\ IsFiniteSet(Callers) /\ Callers # {}

VARIABLES
    comboBudget,  \* per combo, the calls of its window, or Uncounted
    windowAge,    \* per combo, ticks since WindowStart (saturates at the window)
    asks,         \* per request, the combo it asked for, or Uncounted
    withheld,     \* the requests whose combo is withheld
    dispatched    \* history: calls the combo has served in its window

budget == <<comboBudget, windowAge, asks, withheld, dispatched>>

BudgetInit ==
    /\ comboBudget = [c \in Capped |-> Uncounted]
    /\ windowAge = [c \in Capped |-> 0]
    /\ asks = [q \in Callers |-> Uncounted] /\ withheld = {}
    /\ dispatched = [c \in Capped |-> 0]

Expired(c) == windowAge[c] >= BudgetWindow[c]
Fresh(c) == comboBudget[c] = Uncounted \/ Expired(c)

SpentLate(c) == comboBudget[c] > BudgetCalls[c]                   \* mutant

Spent(c) == comboBudget[c] >= BudgetCalls[c]

\* comboBudgetExhausted: a window that is new or has expired is begun, and admits.
AskFresh(q, c) ==
    /\ asks[q] = Uncounted /\ Fresh(c)
    /\ comboBudget' = [comboBudget EXCEPT ![c] = 0]
    /\ windowAge' = [windowAge EXCEPT ![c] = 0]
    /\ dispatched' = [dispatched EXCEPT ![c] = 0]
    /\ asks' = [asks EXCEPT ![q] = c]
    /\ UNCHANGED withheld

AskWithin(q, c) ==
    /\ asks[q] = Uncounted /\ ~Fresh(c)
    /\ comboBudget[c] < BudgetCalls[c] + Cardinality(Callers)      \* bound
    /\ withheld' = IF Spent(c) THEN withheld \cup {q} ELSE withheld
    /\ asks' = [asks EXCEPT ![q] = c]
    /\ UNCHANGED <<comboBudget, windowAge, dispatched>>

ByAnyWindow(c, d) == d # c /\ windowAge[d] >= BudgetWindow[c]      \* mutant

\* An entry expires by the window it was created under, not by the charged one's.
Prunable(c, d) == d # c /\ Expired(d)

\* recordComboBudgetCall, before the dispatch: the window may have expired since the
\* request asked.  A withheld request is charged too, and served by one model.
Charge(q) ==
    LET c == asks[q]
        served == IF q \in withheld THEN 0 ELSE 1
    IN /\ c # Uncounted
       /\ comboBudget' = [d \in Capped |->
                            IF d = c THEN (IF Fresh(c) THEN 0 ELSE comboBudget[c]) + 1
                            ELSE IF Prunable(c, d) THEN Uncounted ELSE comboBudget[d]]
       /\ windowAge' = IF Fresh(c) THEN [windowAge EXCEPT ![c] = 0] ELSE windowAge
       /\ dispatched' = [dispatched EXCEPT ![c] = IF Fresh(c) THEN served ELSE @ + served]
       /\ asks' = [asks EXCEPT ![q] = Uncounted]
       /\ withheld' = withheld \ {q}

BudgetTick ==
    /\ windowAge' = [c \in Capped |-> IF Expired(c) THEN windowAge[c] ELSE windowAge[c] + 1]
    /\ UNCHANGED <<comboBudget, asks, withheld, dispatched>>

BudgetNext ==
    \/ \E q \in Callers, c \in Capped : AskFresh(q, c) \/ AskWithin(q, c)
    \/ \E q \in Callers : Charge(q)
    \/ BudgetTick

BudgetSpec == BudgetInit /\ [][BudgetNext]_budget

------------------------------------------------------------------------------
BudgetTypeOK ==
    /\ comboBudget \in [Capped -> Nat \cup {Uncounted}]
    /\ windowAge \in [Capped -> Nat]
    /\ asks \in [Callers -> Capped \cup {Uncounted}]
    /\ withheld \subseteq Callers
    /\ dispatched \in [Capped -> Nat]

\* A ceiling is overshot by the requests that asked before the others were charged,
\* and by no more: the check and the charge are two sections, so that every goroutine
\* but one may pass on the last call of the window.
OvershootBounded ==
    \A c \in Capped : dispatched[c] <= BudgetCalls[c] + Cardinality(Callers) - 1

\* What a combo has spent is not forgotten before its own window ends, whatever other
\* combos charge and prune meanwhile (the comment at the pruning: "deleted a
\* neighbour's live counter [...] so the operator's cap quietly reopened").
SpendKept ==
    [][\A c \in Capped : ~Fresh(c) =>
          comboBudget'[c] # Uncounted /\ comboBudget'[c] >= comboBudget[c]]_budget
==============================================================================
