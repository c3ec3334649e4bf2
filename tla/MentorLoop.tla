----------------------------- MODULE MentorLoop -----------------------------
(***************************************************************************)
(* The mentor's self-improvement loop (src/core/loop): a chain of          *)
(* behaviors in one single-threaded runtime.  Each behavior consumes the   *)
(* one pending event, updates the LoopContext and the transform pipeline,  *)
(* and emits the next event.  The runner seeds loop.start, drains the      *)
(* runtime and backs the run up with a synthetic loop.stopped.             *)
(*                                                                         *)
(* An evaluation of the instances is a function from question ids to the   *)
(* label "correct" or the name of the failure regime of the outcome.       *)
(***************************************************************************)
EXTENDS Naturals, Sequences, FiniteSets, TransformPipeline

CONSTANTS
    Regimes,          \* names in the target's failure taxonomy
    Reachable,        \* the regimes that are optimizable and seam-reachable
    Before(_, _),     \* alphabetical order of regime names (sort tie-break)
    Qids,             \* questions of the OPTIMIZE split
    ConfirmQids,      \* questions of the CONFIRM split ({}: none supplied)
    FloorGroups,      \* the question sets of the types with a promotion floor
    DraftsOf(_),      \* what the author may draft for a regime
    Possible(_, _),   \* Possible(pipeline, r): the backend can return r
    MaxDiscards,      \* LoopContext.max_consecutive_discards
    MaxIterations,    \* LoopContext.max_iterations
    Faults            \* which calls out of the loop may raise

Correct == "correct"
Labels  == Regimes \cup {Correct}

ASSUME LoopAssumption ==
    /\ Correct \notin Regimes
    /\ Reachable \subseteq Regimes
    /\ MaxDiscards \in Nat \ {0}
    /\ MaxIterations \in Nat
    /\ Faults \subseteq {"author", "compile", "eval", "confirm"}

None == [none |-> TRUE]

Evaluations(pipeline, questions) ==
    {r \in [questions -> Labels] : Possible(pipeline, r)}

Count(r, label) == Cardinality({q \in DOMAIN r : r[q] = label})

VARIABLES
    pauseAfter,   \* lctx.pause_after: "histogram" or "none"
    pending,      \* the event waiting in the runtime's queue, or "none"
    baseline,     \* lctx.baseline
    lastResult,   \* lctx.last_result
    origin,       \* the first baseline.recorded payload (report.baseline)
    consec,       \* lctx.consecutive_discards
    exhausted,    \* lctx.exhausted_regimes
    iterations,   \* lctx.iterations
    current,      \* lctx.current_*: the drafted transform, its regime, its round
    diff,         \* payload of transform.eval_diff: the run with the candidate
    pipeline,     \* the transforms installed on the target's seam
    log,          \* lctx.transform_log
    attribution,  \* payload of the last attribution.recorded
    stops,        \* reasons of the loop.stopped events, in order
    crashed,      \* a behavior raised (behavior.failed)
    returned      \* run_loop has returned its report

evalVars == <<baseline, lastResult, origin>>
ctlVars  == <<consec, exhausted, iterations>>
repVars  == <<log, attribution, stops>>
vars == <<pending, evalVars, ctlVars, current, diff, pipeline, repVars,
          crashed, returned, pauseAfter>>

Init ==
    /\ pauseAfter \in {"histogram", "none"}
    /\ pending = "loop.start"
    /\ baseline = None /\ lastResult = None /\ origin = None
    /\ consec = 0 /\ exhausted = {} /\ iterations = 0
    /\ current = None /\ diff = None
    /\ pipeline = {}
    /\ log = <<>> /\ attribution = None /\ stops = <<>>
    /\ crashed = FALSE /\ returned = FALSE
-----------------------------------------------------------------------------
(* _choose_target: the regimes with failures that may still be attempted,  *)
(* and the one with most failures, ties broken by name.                    *)
Candidates(r) == {g \in Reachable \ exhausted : Count(r, g) > 0}

IsTarget(g, r) ==
    /\ g \in Candidates(r)
    /\ \A h \in Candidates(r) \ {g} :
          \/ Count(r, h) < Count(r, g)
          \/ Count(r, h) = Count(r, g) /\ Before(g, h)

Emit(event) == pending' = event

Stop(reason) ==
    /\ Emit("none")
    /\ stops' = Append(stops, reason)

LogAttempt(regime, status) ==
    log' = Append(log, [name |-> current.name, fn |-> current.fn,
                        regime |-> regime, status |-> status,
                        round |-> current.round])

(* A behavior that raises is recorded by the runtime as behavior.failed;   *)
(* it emits nothing, so the chain ends there.                              *)
Raise(kind) ==
    /\ kind \in Faults
    /\ Emit("none")
    /\ crashed' = TRUE
    /\ UNCHANGED <<evalVars, ctlVars, current, diff, repVars, returned>>

-----------------------------------------------------------------------------
RunBaseline ==
    /\ pending = "loop.start"
    /\ \/ /\ \E r \in Evaluations(pipeline, Qids) :
                /\ baseline' = r /\ lastResult' = r /\ origin' = r
          /\ Emit("baseline.recorded")
          /\ UNCHANGED <<ctlVars, current, diff, pipeline, repVars, crashed,
                         returned>>
       \/ Raise("eval") /\ UNCHANGED pipeline

Diagnose ==
    /\ pending = "baseline.recorded"
    /\ Emit("regime.histogram")
    /\ UNCHANGED <<evalVars, ctlVars, current, diff, pipeline, repVars,
                   crashed, returned>>

Paused == pauseAfter = "histogram"

StopForPause ==
    /\ Paused
    /\ Stop("pause_after_histogram")
    /\ UNCHANGED <<evalVars, ctlVars, current, diff, pipeline, log,
                   attribution, crashed, returned>>

StopAtWall ==
    /\ ~Paused /\ Candidates(baseline) = {}
    /\ Stop("no_optimizable_regime_remaining")
    /\ UNCHANGED <<evalVars, ctlVars, current, diff, pipeline, log,
                   attribution, crashed, returned>>

DraftFor(g) ==
    /\ ~Paused /\ IsTarget(g, baseline)
    /\ \E draft \in DraftsOf(g) :
          current' = [name |-> draft.name, fn |-> draft.fn,
                      seam |-> draft.seam, claims |-> draft.regime,
                      target |-> g, round |-> iterations]
    /\ Emit("transform.drafted")
    /\ UNCHANGED <<evalVars, ctlVars, diff, pipeline, repVars, crashed,
                   returned>>

AuthorRaises ==
    /\ ~Paused /\ Candidates(baseline) # {}
    /\ Raise("author")
    /\ UNCHANGED pipeline

Hypothesize ==
    /\ pending = "regime.histogram"
    /\ \/ StopForPause \/ StopAtWall \/ AuthorRaises
       \/ \E g \in Reachable : DraftFor(g)

(* A rejected draft is logged under the regime its author CLAIMS, which    *)
(* is the regime it was asked for unless the author fell back.  A draft    *)
(* that passed is compiled here, which may raise.                          *)
PassStatic ==
    /\ Emit("transform.static_passed")
    /\ UNCHANGED <<evalVars, ctlVars, current, diff, repVars, crashed, returned>>

RejectStatic ==
    /\ LogAttempt(current.claims, "static_rejected")
    /\ Emit("transform.static_rejected")
    /\ UNCHANGED <<evalVars, ctlVars, current, diff, attribution, stops,
                   crashed, returned>>

StaticGate ==
    /\ pending = "transform.drafted"
    /\ PassStatic \/ RejectStatic \/ Raise("compile")
    /\ UNCHANGED pipeline

SandboxGate ==
    /\ pending = "transform.static_passed"
    /\ \/ Emit("transform.sandbox_passed") /\ UNCHANGED log
       \/ /\ LogAttempt(current.target, "sandbox_rejected")
          /\ Emit("transform.sandbox_rejected")
    /\ UNCHANGED <<evalVars, ctlVars, current, diff, pipeline, attribution,
                   stops, crashed, returned>>

Candidate == [name |-> current.name, fn |-> current.fn,
              seam |-> current.seam, round |-> current.round]

(* Mutant: the candidate is not reverted after its trial run.              *)
KeptAfterTrial(measured) == measured

LeftAfterTrial(measured) == Revert(measured, current.name)

(* gates.eval_diff: install, run, and revert in a finally clause.          *)
EvalDiffGate ==
    /\ pending = "transform.sandbox_passed"
    /\ LET measured == Install(pipeline, Candidate)
       IN  /\ pipeline' = LeftAfterTrial(measured)
           /\ \/ /\ \E after \in Evaluations(measured, Qids) :
                       diff' = [after |-> after, measured |-> measured]
                 /\ Emit("transform.eval_diff")
                 /\ UNCHANGED <<evalVars, ctlVars, current, repVars, crashed,
                                returned>>
              \/ Raise("eval")
-----------------------------------------------------------------------------
(* gates.promotion_decision with the default floors (0.0): the accuracies  *)
(* are over the same questions, so they compare as numbers of wins.        *)
Wins(r, questions) == Cardinality({q \in questions : r[q] = Correct})

(* Mutant: the overall floor and the type floors are not applied.          *)
EligibleIfShrunk ==
    Count(diff.after, current.target) < Count(baseline, current.target)

Eligible ==
    /\ Count(diff.after, current.target) < Count(baseline, current.target)
    /\ \A group \in FloorGroups : Wins(diff.after, group) >= Wins(baseline, group)
    /\ Wins(diff.after, Qids) >= Wins(baseline, Qids)

Discard ==
    /\ LogAttempt(current.target, "discarded")
    /\ Emit("transform.discarded")
    /\ UNCHANGED consec

Accept ==
    /\ consec' = 0
    /\ LogAttempt(current.target, "promoted")
    /\ Emit("transform.promoted")

(* Mutant: the second installation of the confirm gate is forgotten.       *)
LeftOut(without) == without

Reinstalled(without) == Install(without, Candidate)

NotEligible ==
    /\ ~Eligible
    /\ Discard
    /\ UNCHANGED <<pipeline, crashed>>

PromoteUnconfirmed ==
    /\ Eligible /\ ConfirmQids = {}
    /\ Accept
    /\ pipeline' = Install(pipeline, Candidate)
    /\ UNCHANGED crashed

(* With a CONFIRM set the split is run with the candidate installed, then  *)
(* with it reverted; it is installed again, and reverted once more if the  *)
(* held-out delta is negative.                                             *)
RunConfirm(with, without) ==
    /\ Eligible /\ ConfirmQids # {}
    /\ \E after \in Evaluations(with, ConfirmQids),
          before \in Evaluations(without, ConfirmQids) :
          IF Wins(after, ConfirmQids) < Wins(before, ConfirmQids)
          THEN /\ Discard
               /\ pipeline' = Revert(Reinstalled(without), current.name)
          ELSE /\ Accept
               /\ pipeline' = Reinstalled(without)
    /\ UNCHANGED crashed

(* No finally clause protects the two CONFIRM runs.                        *)
ConfirmRaises(with, without) ==
    /\ Eligible /\ ConfirmQids # {} /\ "confirm" \in Faults
    /\ pipeline' \in {with, without}
    /\ crashed' = TRUE
    /\ Emit("none")
    /\ UNCHANGED <<consec, log>>

Promote ==
    /\ pending = "transform.eval_diff"
    /\ LET with    == Install(pipeline, Candidate)
           without == Revert(with, current.name)
       IN  \/ NotEligible
           \/ PromoteUnconfirmed
           \/ RunConfirm(with, without)
           \/ ConfirmRaises(with, without)
    /\ UNCHANGED <<evalVars, exhausted, iterations, current, diff,
                   attribution, stops, returned>>

Record(after) == lastResult' = after

Attribute ==
    /\ pending = "transform.promoted"
    /\ \/ /\ \E after \in Evaluations(pipeline, Qids) :
                /\ Record(after)
                /\ attribution' = [before |-> baseline, after |-> after]
          /\ Emit("attribution.recorded")
          /\ UNCHANGED <<baseline, origin, ctlVars, current, diff, pipeline,
                         log, stops, crashed, returned>>
       \/ Raise("eval") /\ UNCHANGED pipeline
-----------------------------------------------------------------------------
GuardTrips == iterations >= MaxIterations

(* _emit_next_step over the exhausted set x.                               *)
EmitNextStep(x) ==
    LET left == {g \in Reachable \ x : Count(lastResult, g) > 0}
    IN  \/ /\ left = {}
           /\ Stop("no_optimizable_regime_remaining")
           /\ UNCHANGED iterations
        \/ /\ left # {} /\ GuardTrips
           /\ Stop("max_iterations")
           /\ UNCHANGED iterations
        \/ /\ left # {} /\ ~GuardTrips
           /\ iterations' = iterations + 1
           /\ Emit("loop.iterate")
           /\ UNCHANGED stops

IterateAfterPromote ==
    /\ pending = "attribution.recorded"
    /\ EmitNextStep(exhausted)
    /\ UNCHANGED <<evalVars, consec, exhausted, current, diff, pipeline, log,
                   attribution, crashed, returned>>

(* Mutant: a rejected draft has no listener, so the chain dies there.      *)
FailuresHeard == {"transform.sandbox_rejected", "transform.discarded"}

Failures == {"transform.static_rejected", "transform.sandbox_rejected",
             "transform.discarded"}

(* Mutant: retiring a regime leaves the counter where it was.              *)
CountOn(retire) == IF retire THEN consec ELSE consec + 1

CountFailure(retire) == IF retire THEN 0 ELSE consec + 1

(* Mutant: the ceiling is reached one failure too late.                    *)
RetiresLate == consec + 1 > MaxDiscards

Retires == consec + 1 >= MaxDiscards

(* _handle_failed_attempt, behind the three listeners of Failures.         *)
IterateAfterFailure ==
    /\ pending \in Failures
    /\ exhausted' = IF Retires THEN exhausted \cup {current.target}
                               ELSE exhausted
    /\ consec' = CountFailure(Retires)
    /\ EmitNextStep(exhausted')
    /\ UNCHANGED <<evalVars, current, diff, pipeline, log, attribution,
                   crashed, returned>>

Rebaseline ==
    /\ pending = "loop.iterate"
    /\ baseline' = lastResult
    /\ Emit("baseline.recorded")
    /\ UNCHANGED <<lastResult, origin, ctlVars, current, diff, pipeline,
                   repVars, crashed, returned>>

Backstop == IF stops = <<>> THEN <<"loop_drained_without_stop">> ELSE stops

(* run_loop after run_until_idle: the backstop, then the report.           *)
Return ==
    /\ pending = "none" /\ ~returned
    /\ returned' = TRUE
    /\ stops' = Backstop
    /\ UNCHANGED <<pending, evalVars, ctlVars, current, diff, pipeline, log,
                   attribution, crashed>>

Step ==
    \/ RunBaseline \/ Diagnose \/ Hypothesize \/ StaticGate \/ SandboxGate
    \/ EvalDiffGate \/ Promote \/ Attribute \/ IterateAfterPromote
    \/ IterateAfterFailure \/ Rebaseline

Next == (Step \/ Return) /\ UNCHANGED pauseAfter

(* The runtime drains its queue (run_until_idle) and the runner returns.   *)
Spec == Init /\ [][Next]_vars /\ WF_vars(Next)
-----------------------------------------------------------------------------
Events == {"none", "loop.start", "baseline.recorded", "regime.histogram",
           "transform.drafted", "transform.static_passed",
           "transform.sandbox_passed", "transform.eval_diff",
           "transform.promoted", "attribution.recorded", "loop.iterate"}
          \cup Failures

Verdicts == {"static_rejected", "sandbox_rejected", "discarded", "promoted"}
StopReasons == {"pause_after_histogram", "no_optimizable_regime_remaining",
                "max_iterations", "loop_drained_without_stop"}

(* Everything an author may ever draft, by field.                          *)
Drafts == UNION {DraftsOf(g) : g \in Reachable}
DraftNames == {d.name : d \in Drafts}
DraftFns   == {d.fn : d \in Drafts}
DraftSeams == {d.seam : d \in Drafts}
DraftClaims == {d.regime : d \in Drafts}
Rounds == 0..MaxIterations

DraftRecords == [name : DraftNames, fn : DraftFns, seam : DraftSeams,
                 claims : DraftClaims, target : Reachable, round : Rounds]
LogRecords == [name : DraftNames, fn : DraftFns,
               regime : DraftClaims \cup Reachable,
               status : Verdicts, round : Rounds]
EntryRecords == [name : DraftNames, fn : DraftFns, seam : DraftSeams,
                 round : Rounds]

(* Type invariant: what each slot of the LoopContext may hold.             *)
TypeOK ==
    /\ pending \in Events
    /\ {baseline, lastResult, origin} \subseteq [Qids -> Labels] \cup {None}
    /\ consec \in 0..(MaxDiscards - 1)
    /\ exhausted \subseteq Reachable
    /\ iterations \in Rounds
    /\ current \in DraftRecords \cup {None}
    /\ pipeline \subseteq EntryRecords
    /\ log \in Seq(LogRecords)
    /\ stops \in Seq(StopReasons)
    /\ crashed \in BOOLEAN /\ returned \in BOOLEAN

Promotions == {i \in DOMAIN log : log[i].status = "promoted"}

(* A promoted name is being tried, or has been tried, a second time.       *)
Superseded(i) ==
    \/ \E j \in DOMAIN log : /\ log[j].round > log[i].round
                             /\ log[j].name = log[i].name
    \/ current.name = log[i].name /\ current.round > log[i].round

Reused == \E i \in Promotions : Superseded(i)

(* Nothing the gates did not let through stays installed: at every event   *)
(* boundary each installed transform is one the log records as promoted    *)
(* (eval_diff's finally, and the revert of a confirm regression).          *)
InstalledWerePromoted ==
    \A e \in pipeline :
        \E i \in Promotions : log[i].name = e.name /\ log[i].fn = e.fn

(* A promoted transform stays installed for the rest of the run, unless a  *)
(* later draft takes its name: installing, trying and reverting the other  *)
(* candidates touches nothing else.                                        *)
PromotedStayInstalled ==
    \A i \in Promotions : ~Superseded(i) =>
        \E e \in pipeline : e.name = log[i].name /\ e.fn = log[i].fn

(* The result the loop diagnoses, and the result it stops on, is one the   *)
(* pipeline installed NOW can produce, and what is promoted is what was    *)
(* measured: neither trying and discarding candidates nor the confirm      *)
(* gate's revert and reinstall leaves a trace in what the loop believes.   *)
ResultsAreCurrent ==
    ~Reused =>
        /\ ~crashed /\ lastResult # None /\ pending # "transform.promoted"
              => Possible(pipeline, lastResult)
        /\ pending = "transform.promoted" => pipeline = diff.measured

(* A regime is retired only after MaxDiscards failed attempts in a row at  *)
(* THAT regime: the one shared counter never mixes two regimes' failures.  *)
RetiredOnOwnFailures ==
    \A g \in exhausted :
        \E i \in DOMAIN log :
            /\ i + MaxDiscards - 1 \in DOMAIN log
            /\ \A j \in i..(i + MaxDiscards - 1) :
                  log[j].regime = g /\ log[j].status # "promoted"

(* Liveness: every run returns, whatever the author drafts and the backend *)
(* answers, with one loop.stopped: the runner's backstop just when a       *)
(* behavior raised. A run that pauses after the histogram has then drafted *)
(* and installed nothing.                                                  *)
EndsOnce ==
    /\ returned /\ Len(stops) = 1
    /\ (stops[1] = "loop_drained_without_stop") = crashed
    /\ pauseAfter = "histogram" =>
           /\ pipeline = {} /\ log = <<>> /\ current = None
           /\ crashed \/ stops[1] = "pause_after_histogram"
Termination == <>[]EndsOnce
-----------------------------------------------------------------------------
(* Nothing was measured yet, or a transform was promoted in this round and *)
(* its attribution run has not come back: it is still to run, or raised.   *)
Unmeasured ==
    \/ baseline = None
    \/ pending = "transform.promoted"
    \/ crashed /\ \E i \in Promotions : log[i].round = iterations

(* The loop keeps the promise it makes its caller: the pipeline is what is *)
(* deployed, the wins of last_result are the score, a behavior that raised *)
(* is a breakdown, and the runner's backstop is what the caller is told.   *)
Promise == INSTANCE MentorPromise WITH
    deployed   <- pipeline,
    score      <- IF lastResult = None THEN 0 ELSE Wins(lastResult, Qids),
    unmeasured <- Unmeasured,
    failed     <- crashed,
    done       <- returned,
    told       <- \E i \in DOMAIN stops : stops[i] = "loop_drained_without_stop"

(* The loop implements MentorPromise when a promoted transform fixes its   *)
(* whole regime, whichever of the author, the compiler and the evaluations *)
(* raises: a baseline or attribution run that raised counts as none        *)
(* (behavior_baseline, behavior_promote, behavior_attribute, run_loop).    *)
KeepsPromise == Promise!PromiseSpec
=============================================================================
