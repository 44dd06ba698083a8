----------------------------- MODULE ModelHealth -----------------------------
(***************************************************************************)
(* The model-health loop of one provider against the operator's panel.     *)
(* The loop probes one candidate after another, counts its consecutive     *)
(* failures, switches a model off at the threshold and, with auto-enable,  *)
(* on again; the panel writes the whole list of disabled models and tells  *)
(* the loop which models the operator switched on.  Both work on rows of   *)
(* the key-value table, one statement per step: the list of disabled       *)
(* models and, per model, the counter row.  A probe takes seconds, and the *)
(* counter row is written from the copy that was read before it.           *)
(***************************************************************************)
EXTENDS Integers, Sequences, SequencesExt

CONSTANTS
    Candidates,   \* the sequence of models a pass considers
    Threshold,    \* consecutive failures that switch a model off
    OnlyFailed,   \* the scope "failed" instead of "history"
    MaxRestarts   \* bound on the restarts of the process

ASSUME HealthAssumption ==
    /\ Threshold \in Nat \ {0, 1} /\ MaxRestarts \in Nat
    /\ Candidates \in Seq(ToSet(Candidates)) /\ Candidates # <<>>

Watched == ToSet(Candidates)

VARIABLES
    disabled,     \* the disabledModels row
    row,          \* per model, its counter row
    autoEnable,   \* the setting, which the operator switches on
    loop,         \* the loop's goroutine: its stage, position and copies
    put,          \* the panel's request: its stage, lists and copy
    healthy,      \* the models answer every probe from here on
    restarts,
    byHand,       \* history: models that are off by the operator's decision
    raced,        \* history: a request of the panel and an evaluation overlapped,
                  \* or a crash cut one of them in two
    streak        \* history: per model, the failing probes since the last that passed,
                  \* counted as far as the threshold

panel == <<put, byHand>>
health == <<disabled, row, autoEnable, loop, panel, healthy, restarts, raced, streak>>

FreshRow == [count |-> 0, mark |-> FALSE, probed |-> FALSE]
LoopRests == [stage |-> "next", pos |-> 1, prior |-> FreshRow, ids |-> {}, to |-> "none"]
NoRequest == [stage |-> "none", prev |-> {}, next |-> {}, copy |-> FreshRow, model |-> Candidates[1]]

HealthInit ==
    /\ disabled = {} /\ row = [m \in Watched |-> FreshRow]
    /\ autoEnable = FALSE
    /\ loop = LoopRests /\ put = NoRequest
    /\ healthy = FALSE /\ restarts = 0 /\ byHand = {} /\ raced = FALSE
    /\ streak = [m \in Watched |-> 0]

Model == Candidates[loop.pos]

Done == [LoopRests EXCEPT !.pos = 1 + (loop.pos % Len(Candidates))]

------------------------------------------------------------------------------
(* The loop.                                                               *)

SkipsPassing(r) == OnlyFailed /\ r.count = 0 /\ r.probed          \* mutant

\* The scope "failed" leaves out a model whose last verdict was a pass.
Skips(r) == OnlyFailed /\ r.count = 0 /\ ~r.mark /\ r.probed

Evaluate ==
    /\ loop.stage = "next"
    /\ loop' = IF Skips(row[Model]) THEN Done
               ELSE [loop EXCEPT !.stage = "probing", !.prior = row[Model]]
    /\ raced' = (raced \/ put.stage # "none")
    /\ UNCHANGED <<disabled, row, autoEnable, panel, healthy, restarts, streak>>

PassedUncounted(r) == [r EXCEPT !.probed = TRUE]                   \* mutant

\* RecordSuccess and RecordFailure, on the copy from before the probe.
Passed(r) == [r EXCEPT !.count = 0, !.probed = TRUE]
Counted(r) == [r EXCEPT !.count = IF @ < Threshold THEN @ + 1 ELSE @, !.probed = TRUE]

onSuccess ==
    /\ loop.stage = "probing"
    /\ row' = [row EXCEPT ![Model] = Passed(loop.prior)]
    /\ streak' = [streak EXCEPT ![Model] = 0]
    /\ loop' = IF loop.prior.mark /\ autoEnable
               THEN [loop EXCEPT !.stage = "list", !.to = "on"]
               ELSE Done
    /\ UNCHANGED <<disabled, autoEnable, panel, healthy, restarts, raced>>

onFailure ==
    /\ loop.stage = "probing" /\ ~healthy
    /\ row' = [row EXCEPT ![Model] = Counted(loop.prior)]
    /\ streak' = [streak EXCEPT ![Model] = IF @ < Threshold THEN @ + 1 ELSE @]
    /\ loop' = IF Counted(loop.prior).count >= Threshold /\ ~loop.prior.mark
               THEN [loop EXCEPT !.stage = "list", !.to = "off"]
               ELSE Done
    /\ UNCHANGED <<disabled, autoEnable, panel, healthy, restarts, raced>>

\* disable and enable: read the list, save it if the model's membership has to change ...
ReadList ==
    /\ loop.stage = "list"
    /\ loop' = [loop EXCEPT !.stage = "save", !.ids = disabled]
    /\ UNCHANGED <<disabled, row, autoEnable, panel, healthy, restarts, raced, streak>>

SaveList ==
    LET off == Model \in loop.ids
    IN /\ loop.stage = "save"
       /\ disabled' = IF off = (loop.to = "off") THEN disabled
                      ELSE IF off THEN loop.ids \ {Model} ELSE loop.ids \cup {Model}
       /\ loop' = [loop EXCEPT !.stage = "reread"]
       /\ UNCHANGED <<row, autoEnable, panel, healthy, restarts, raced, streak>>

\* ... and then set or clear the mark in the counter row.
ReadRow ==
    /\ loop.stage = "reread"
    /\ loop' = [loop EXCEPT !.stage = "mark", !.prior = row[Model]]
    /\ UNCHANGED <<disabled, row, autoEnable, panel, healthy, restarts, raced, streak>>

Unmarked(r) == r                                                   \* mutant

Marked(r) == [r EXCEPT !.mark = TRUE]
ClearSchedulerMark(r) == [r EXCEPT !.mark = FALSE, !.count = 0]

WriteMark ==
    /\ loop.stage = "mark"
    /\ row' = [row EXCEPT ![Model] = IF loop.to = "off" THEN Marked(loop.prior)
                                     ELSE ClearSchedulerMark(loop.prior)]
    /\ loop' = Done
    /\ UNCHANGED <<disabled, autoEnable, panel, healthy, restarts, raced, streak>>

------------------------------------------------------------------------------
(* The panel's request.                                                    *)

\* The stored list is read for the difference ...
ReadPrevious(next) ==
    /\ put.stage = "none"
    /\ put' = [put EXCEPT !.stage = "saving", !.prev = disabled, !.next = next]
    /\ raced' = (raced \/ loop.stage # "next")
    /\ UNCHANGED <<disabled, row, autoEnable, loop, healthy, restarts, byHand, streak>>

\* The check of all models adds the dead ones to the list that it read.
MergeRequest(dead) == dead \ disabled # {} /\ ReadPrevious(disabled \cup dead)

\* ... and overwritten.  What the operator decided is that difference.
SaveRequest ==
    /\ put.stage = "saving"
    /\ disabled' = put.next
    /\ byHand' = (byHand \cap put.next) \cup (put.next \ put.prev)
    /\ put' = [put EXCEPT !.stage = "reporting", !.prev = @ \ put.next]
    /\ UNCHANGED <<row, autoEnable, loop, healthy, restarts, raced, streak>>

\* RecordOperatorAction of a model switched on: read the counter row, clear its mark.
\* For a model switched off it writes the audit log alone.
ReadReported(m) ==
    /\ put.stage = "reporting" /\ m \in put.prev
    /\ put' = [put EXCEPT !.stage = "clearing", !.prev = @ \ {m}, !.copy = row[m], !.model = m]
    /\ UNCHANGED <<disabled, row, autoEnable, loop, healthy, restarts, byHand, raced, streak>>

ClearReported ==
    /\ put.stage = "clearing"
    /\ row' = [row EXCEPT ![put.model] = ClearSchedulerMark(put.copy)]
    /\ put' = [put EXCEPT !.stage = "reporting"]
    /\ UNCHANGED <<disabled, autoEnable, loop, healthy, restarts, byHand, raced, streak>>

RequestEnds ==
    /\ put.stage = "reporting" /\ put.prev = {}
    /\ put' = NoRequest
    /\ UNCHANGED <<disabled, row, autoEnable, loop, healthy, restarts, byHand, raced, streak>>

------------------------------------------------------------------------------
SwitchAutoEnable ==
    /\ ~autoEnable
    /\ autoEnable' = TRUE
    /\ UNCHANGED <<disabled, row, loop, panel, healthy, restarts, raced, streak>>

Heal ==
    /\ ~healthy
    /\ healthy' = TRUE
    /\ UNCHANGED <<disabled, row, autoEnable, loop, panel, restarts, raced, streak>>

\* The process stops anywhere, and starts again with the rows it had written.
Restart ==
    /\ restarts < MaxRestarts /\ restarts' = restarts + 1
    /\ loop' = LoopRests /\ put' = NoRequest
    /\ raced' = (raced \/ put.stage # "none" \/ loop.stage \in {"reread", "mark"})
    /\ UNCHANGED <<disabled, row, autoEnable, healthy, byHand, streak>>

Pass == Evaluate \/ onSuccess \/ onFailure \/ ReadList \/ SaveList \/ ReadRow \/ WriteMark

Request ==
    \/ \E next \in SUBSET Watched : ReadPrevious(next) \/ MergeRequest(next)
    \/ SaveRequest \/ ClearReported \/ RequestEnds
    \/ \E m \in Watched : ReadReported(m)

HealthNext == Pass \/ Request \/ SwitchAutoEnable \/ Heal \/ Restart

HealthSpec == HealthInit /\ [][HealthNext]_health

\* The loop's goroutine keeps running: a probe ends, by its timeout if need be.
FairHealthSpec == HealthSpec /\ WF_health(Pass)

------------------------------------------------------------------------------
Row == [count : 0 .. Threshold, mark : BOOLEAN, probed : BOOLEAN]

LoopType ==
    [stage : {"next", "probing", "list", "save", "reread", "mark"}, pos : DOMAIN Candidates,
     prior : Row, ids : SUBSET Watched, to : {"none", "on", "off"}]

RequestType ==
    [stage : {"none", "saving", "reporting", "clearing"}, prev : SUBSET Watched,
     next : SUBSET Watched, copy : Row, model : Watched]

HealthTypeOK ==
    /\ disabled \subseteq Watched /\ byHand \subseteq Watched
    /\ row \in [Watched -> Row]
    /\ loop \in LoopType /\ put \in RequestType
    /\ streak \in [Watched -> 0 .. Threshold]
    /\ {autoEnable, healthy, raced} \subseteq BOOLEAN /\ restarts \in 0 .. MaxRestarts

\* A model that is off is somebody's to switch on again: the operator's, or the loop's,
\* which has marked it as its own or is about to (disable's comment: it "marks the
\* counter row so auto-enable knows the loop is the one that has to undo it").  The
\* list and the marks are rows of their own, written one after the other.
DisabledHasOwner ==
    ~raced => \A m \in disabled :
        m \in byHand \/ row[m].mark \/ (m = Model /\ loop.stage \in {"reread", "mark"})

\* What the loop changes in the list it has a reason for, of now and not of a row that
\* was read before a probe: it switches a model off after Threshold failing probes in a
\* row (Failures.Count: "what makes the threshold consecutive rather than total"), and
\* on only with auto-enable and after a probe that passed.  This holds whatever requests
\* and restarts overlap.  Another model than the one it evaluates changes only where a
\* request overlapped, which the whole list, written from a copy, then undoes.
ChangesEarned ==
    [][loop' # loop => \A m \in Watched : (m \in disabled) # (m \in disabled') =>
          IF m # Model THEN raced
          ELSE IF m \in disabled' THEN streak[m] = Threshold
          ELSE streak[m] = 0 /\ autoEnable]_health

\* The loop gives back what it has taken: a model that it switched off itself is on
\* again once it answers and auto-enable is on, whatever the scope and however often
\* the process restarted between two evaluations.  Where a request of the panel
\* overlaps an evaluation, or a crash falls between the list and the mark, a model can
\* stay off and belong to nobody.
SchedulerUndoesItsOwn ==
    \A m \in Watched :
        <>[](healthy /\ autoEnable /\ ~raced) => []<>(m \notin disabled \/ m \in byHand)

\* An operator's decision outranks the scheduler's (the package's comment: it
\* "re-enables only what it disabled itself, never what an operator switched off by
\* hand"): the loop never switches on a model that the operator switched off, at
\* least where no request of the panel overlapped an evaluation.
OperatorOutranks ==
    [][\A m \in byHand :
          (loop' # loop /\ m \in disabled /\ ~raced) => m \in disabled']_health
==============================================================================
