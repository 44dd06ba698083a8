----------------------------- MODULE ComboFusion -----------------------------
(***************************************************************************)
(* A fusion turn: handleFusion sends the prompt to every model of the      *)
(* panel at once, collectPanel gathers the answers until all have settled, *)
(* a grace period after the quorum has passed, the hard timeout fires, the *)
(* client leaves or the process shuts down, and the turn goes on with the  *)
(* answers that are worth something: none ends it, one degrades it to a    *)
(* fallback chain of that model, more are handed to the judge.             *)
(***************************************************************************)
EXTENDS Integers, FiniteSets

CONSTANTS
    Panel,      \* the models of the panel, two at least
    MinPanel    \* the quorum that starts the grace period

ASSUME PanelAssumption == IsFiniteSet(Panel) /\ Cardinality(Panel) > 1 /\ MinPanel \in Nat \ {0}

VARIABLES
    call,       \* per model, its goroutine: "running", "text", "blank" or "failed"
                \* once the call has returned, "ended" when the goroutine has
    channel,    \* results sent and not yet received: <<model, result>>
    results,    \* per model, what collectPanel has received, or "none"
    graceArmed, \* graceTimeout is set
    stopped,    \* "no", or what ends the turn early: the "client" or a "shutdown"
    cancelled,  \* collectPanel has returned and cancelled the calls
    closedBy,   \* history: why collectPanel returned
    outcome     \* what the turn went on with

fusion == <<call, channel, results, graceArmed, stopped, cancelled, closedBy, outcome>>

FusionInit ==
    /\ call = [m \in Panel |-> "running"] /\ channel = {}
    /\ results = [m \in Panel |-> "none"]
    /\ graceArmed = FALSE /\ stopped = "no" /\ cancelled = FALSE
    /\ closedBy = "open" /\ outcome = "none"

Results == {"text", "blank", "failed"}

\* The call returns: an answer with text, one without (the model only reasoned, or
\* answered with a tool call), or an error.
CallReturns(m, r) ==
    /\ call[m] = "running"
    /\ call' = [call EXCEPT ![m] = r]
    /\ UNCHANGED <<channel, results, graceArmed, stopped, cancelled, closedBy, outcome>>

\* The context of the calls.
ContextDone == cancelled \/ stopped = "client"

\* The cancelled context aborts the upstream request.
CallAborts(m) ==
    /\ call[m] = "running" /\ ContextDone
    /\ call' = [call EXCEPT ![m] = "failed"]
    /\ UNCHANGED <<channel, results, graceArmed, stopped, cancelled, closedBy, outcome>>

\* The select of the goroutine: the buffered send, or the cancelled context.
SendResult(m) ==
    /\ call[m] \in Results
    /\ channel' = channel \cup {<<m, call[m]>>}
    /\ call' = [call EXCEPT ![m] = "ended"]
    /\ UNCHANGED <<results, graceArmed, stopped, cancelled, closedBy, outcome>>

DropAnyway(m) ==                                                  \* mutant
    /\ call[m] \in Results
    /\ call' = [call EXCEPT ![m] = "ended"]
    /\ UNCHANGED <<channel, results, graceArmed, stopped, cancelled, closedBy, outcome>>

DropResult(m) ==
    /\ call[m] \in Results /\ ContextDone
    /\ call' = [call EXCEPT ![m] = "ended"]
    /\ UNCHANGED <<channel, results, graceArmed, stopped, cancelled, closedBy, outcome>>

Replied(res) == {m \in Panel : res[m] \in {"text", "blank"}}
Settled(res) == {m \in Panel : res[m] # "none"}

\* okCount >= ft.MinPanel: an answer without text counts.
Quorum(res) == Cardinality(Replied(res)) >= MinPanel

Collecting == closedBy = "open" /\ Settled(results) # Panel

ReceiveResult(m, r) ==
    /\ Collecting /\ <<m, r>> \in channel
    /\ channel' = channel \ {<<m, r>>}
    /\ results' = [results EXCEPT ![m] = r]
    /\ graceArmed' = (graceArmed \/ Quorum(results'))
    /\ UNCHANGED <<call, stopped, cancelled, closedBy, outcome>>

\* defer cancel().
Close(why) ==
    /\ closedBy' = why /\ cancelled' = TRUE
    /\ UNCHANGED <<call, channel, results, graceArmed, stopped, outcome>>

AllSettled == closedBy = "open" /\ ~Collecting /\ Close("settled")
GracePasses == Collecting /\ graceArmed /\ Close("grace")
NoHardTimeout == FALSE                                            \* mutant

HardTimeout == Collecting /\ Close("timeout")
StopCollecting == Collecting /\ stopped # "no" /\ Close("stopped")

Stop(who) ==
    /\ stopped = "no" /\ outcome = "none"
    /\ stopped' = who
    /\ UNCHANGED <<call, channel, results, graceArmed, cancelled, closedBy, outcome>>

Texts == {m \in Panel : results[m] = "text"}

GoOn ==
    /\ closedBy # "open" /\ outcome = "none"
    /\ outcome' = CASE Texts = {} -> "error"
                    [] Cardinality(Texts) = 1 -> "single"
                    [] OTHER -> "judge"
    /\ UNCHANGED <<call, channel, results, graceArmed, stopped, cancelled, closedBy>>

Fused == outcome # "none" /\ (\A m \in Panel : call[m] = "ended") /\ UNCHANGED fusion

PanelRuns(m) == CallAborts(m) \/ SendResult(m) \/ DropResult(m)

Collect ==
    \/ \E m \in Panel, r \in Results : ReceiveResult(m, r)
    \/ AllSettled \/ GracePasses \/ HardTimeout \/ StopCollecting \/ GoOn

FusionNext ==
    \/ \E m \in Panel : PanelRuns(m) \/ \E r \in Results : CallReturns(m, r)
    \/ \E who \in {"client", "shutdown"} : Stop(who)
    \/ Collect \/ Fused

FusionSpec == FusionInit /\ [][FusionNext]_fusion

\* The collecting goroutine runs and its hard timeout fires; a cancelled request is
\* aborted, and the panel's goroutines run.  No upstream is made to answer.
FusionFairness == WF_fusion(Collect) /\ \A m \in Panel : WF_fusion(PanelRuns(m))

FairFusionSpec == FusionSpec /\ FusionFairness

------------------------------------------------------------------------------
FusionTypeOK ==
    /\ call \in [Panel -> {"running", "ended"} \cup Results]
    /\ channel \subseteq Panel \X Results
    /\ results \in [Panel -> {"none"} \cup Results]
    /\ {graceArmed, cancelled} \subseteq BOOLEAN
    /\ stopped \in {"no", "client", "shutdown"}
    /\ closedBy \in {"open", "settled", "grace", "timeout", "stopped"}
    /\ outcome \in {"none", "error", "single", "judge"}

\* Every answer is accounted for, once (collectPanel counts what settles by counting
\* receives): what has been received has left the channel and its goroutine is over, and
\* a goroutine that is over has its result received or in the channel, unless the turn
\* had moved on without it or the client was gone.
PanelAccounted ==
    \A m \in Panel :
        /\ results[m] # "none" => call[m] = "ended" /\ \A r \in Results : <<m, r>> \notin channel
        /\ (call[m] = "ended" /\ results[m] = "none" /\ ~ContextDone)
              => \E r \in Results : <<m, r>> \in channel

\* The turn goes on, whatever the upstreams do, and no straggler outlives it
\* (collectPanel's comment: "Stragglers that lose the race are abandoned via ctx
\* cancel; without this they run uncancelable [...] leaking goroutines").
FusionEnds == <>(outcome # "none" /\ \A m \in Panel : call[m] = "ended")
==============================================================================
