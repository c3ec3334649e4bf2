------------------------- MODULE MeasuredLoopProofs -------------------------
(***************************************************************************)
(* The improvement loop and the measurement inside it, for every author,   *)
(* backend and bound.                                                      *)
(*                                                                         *)
(* The loop's inductive invariant IInv says what the type invariant leaves *)
(* out (which events carry a draft, how the log's rounds relate to the     *)
(* current one), and the pipeline invariants follow from it.  Then what    *)
(* holds across rounds: a regime is retired for its own failures, and a    *)
(* round starts from a result of what is installed.  From both, the loop   *)
(* implements MentorPromise, step by step.                                 *)
(*                                                                         *)
(* The second half is what a measurement hands over, for any split,        *)
(* corpus, transforms and taxonomy: a verdict counts for the question it   *)
(* was given on, every failure is diagnosed once and none is called        *)
(* reachable that was never retrieved, an input the embedder rejects costs *)
(* no other turn its score, and a context is packed to its budget.  The    *)
(* packing is a walk over the turns in order of score.  Its fold is shown  *)
(* to be a sequence of states, one per turn (SeedingWalks), and each state *)
(* to leave what it has passed either in the context or too dear for what  *)
(* room is left (SeededTo); room only shrinks, so that stays.              *)
(* Last, what the sandbox accepted is what the seam applies.               *)
(***************************************************************************)
EXTENDS MeasuredLoop, FiniteSetTheorems, WellFoundedInduction, TLAPS

InGates == {"transform.drafted", "transform.static_passed",
            "transform.sandbox_passed", "transform.eval_diff"}
BeforeDraft == {"loop.start", "loop.iterate", "baseline.recorded",
                "regime.histogram"}

(* The events that carry a draft, or the verdict on one.                   *)
HasDraft == pending \in InGates \cup Failures => current \in DraftRecords

(* A round's number is in the log only once its verdict is known.          *)
RoundsOK ==
    /\ \A j \in DOMAIN log : log[j].round <= iterations
    /\ pending \in BeforeDraft \cup InGates =>
          \A j \in DOMAIN log : log[j].round < iterations
    /\ pending \in InGates => current.round = iterations

(* An attempt that is over has been logged.                                *)
CurrentLogged ==
    pending \notin InGates /\ ~crashed /\ current # None =>
        \E j \in DOMAIN log : /\ log[j].name = current.name
                              /\ log[j].round = current.round

CrashedEnds == crashed => pending = "none"

IInv == TypeOK /\ HasDraft /\ RoundsOK /\ CurrentLogged /\ CrashedEnds

-----------------------------------------------------------------------------
(* Reverting a candidate removes it, and nothing that has another name.    *)
LEMMA RevertInstall ==
    ASSUME NEW P \in SUBSET EntryRecords, NEW c \in EntryRecords
    PROVE  /\ Install(P, c) \subseteq EntryRecords
           /\ Revert(Install(P, c), c.name) \subseteq P
           /\ \A e \in P : e.name # c.name =>
                  e \in Revert(Install(P, c), c.name)
           /\ \A e \in Revert(Install(P, c), c.name) : e.name # c.name
  <1>1. \A old \in P : /\ [old EXCEPT !.fn = c.fn] \in EntryRecords
                       /\ [old EXCEPT !.fn = c.fn].name = old.name
    BY DEF EntryRecords
  <1>2. \A e \in Install(P, c) : e \in P \/ (e \in EntryRecords /\ e.name = c.name)
    BY <1>1 DEF Install, Overwritten
  <1>3. \A e \in P : e.name # c.name => e \in Install(P, c)
    BY DEF Install, Overwritten
  <1> QED BY <1>2, <1>3 DEF Revert

(* An installed candidate is in the pipeline with its name and function,   *)
(* and the other entries are the ones that were there.                     *)
LEMMA InstallEntries ==
    ASSUME NEW P \in SUBSET EntryRecords, NEW c \in EntryRecords
    PROVE  /\ \E e \in Install(P, c) : e.name = c.name /\ e.fn = c.fn
           /\ \A e \in Install(P, c) :
                 e \in P \/ (e.name = c.name /\ e.fn = c.fn)
           /\ \A e \in P : e.name # c.name => e \in Install(P, c)
  <1>1. \A old \in P : /\ [old EXCEPT !.fn = c.fn].name = old.name
                       /\ [old EXCEPT !.fn = c.fn].fn = c.fn
    BY DEF EntryRecords
  <1> QED BY <1>1 DEF Install, Overwritten

LEMMA InitIInv == Init => IInv
  <1> SUFFICES ASSUME Init PROVE IInv
    OBVIOUS
  <1>1. log = <<>> /\ stops = <<>> /\ DOMAIN log = {}
    BY DEF Init
  <1>2. log \in Seq(LogRecords) /\ stops \in Seq(StopReasons)
    BY <1>1
  <1>3. consec \in 0..(MaxDiscards - 1) /\ iterations \in Rounds
    BY LoopAssumption DEF Init, LoopAssumption, Rounds
  <1>4. TypeOK
    BY <1>2, <1>3 DEF Init, TypeOK, Events
  <1> QED BY <1>1, <1>4 DEF Init, IInv, HasDraft, RoundsOK, CurrentLogged,
                            CrashedEnds, InGates, BeforeDraft, Failures
-----------------------------------------------------------------------------
(* What logging an attempt adds.                                           *)
LEMMA LogAttemptAppends ==
    ASSUME TypeOK, current \in DraftRecords, NEW st \in Verdicts,
           NEW g \in DraftClaims \cup Reachable, LogAttempt(g, st)
    PROVE  /\ log' \in Seq(LogRecords)
           /\ DOMAIN log' = DOMAIN log \cup {Len(log) + 1}
           /\ \A j \in DOMAIN log : log'[j] = log[j]
           /\ log'[Len(log) + 1].name = current.name
           /\ log'[Len(log) + 1].fn = current.fn
           /\ log'[Len(log) + 1].status = st
           /\ log'[Len(log) + 1].round = current.round
           /\ Len(log) + 1 \notin DOMAIN log
  <1> DEFINE rec == [name |-> current.name, fn |-> current.fn, regime |-> g,
                     status |-> st, round |-> current.round]
  <1>1. rec \in LogRecords
    BY DEF DraftRecords, LogRecords
  <1>2. log \in Seq(LogRecords) /\ log' = Append(log, rec)
    BY DEF TypeOK, LogAttempt
  <1> QED BY <1>1, <1>2

LEMMA StopAppends ==
    ASSUME stops \in Seq(StopReasons), NEW reason \in StopReasons, Stop(reason)
    PROVE  stops' \in Seq(StopReasons) /\ pending' = "none"
  BY DEF Stop, Emit

(* Each action of the loop keeps the inductive invariant.                  *)
LEMMA RunBaselineIInv == IInv /\ RunBaseline => IInv'
  <1> SUFFICES ASSUME IInv, RunBaseline PROVE IInv'
    OBVIOUS
  <1> USE DEF IInv, HasDraft, RoundsOK, CurrentLogged, CrashedEnds, InGates, BeforeDraft,
              Failures, Raise, Emit, evalVars, ctlVars, repVars
  <1>1. TypeOK'
    BY DEF RunBaseline, TypeOK, Evaluations, Events
  <1> QED BY <1>1 DEF RunBaseline

LEMMA HypothesizeIInv == IInv /\ Hypothesize => IInv'
  <1> SUFFICES ASSUME IInv, Hypothesize PROVE IInv'
    OBVIOUS
  <1> USE DEF IInv, HasDraft, RoundsOK, CurrentLogged, CrashedEnds, InGates, BeforeDraft,
              Failures, Raise, Emit, evalVars, ctlVars, repVars
  <1>1. CASE StopForPause \/ StopAtWall
    <2>1. PICK reason \in StopReasons : Stop(reason)
      BY <1>1 DEF StopForPause, StopAtWall, StopReasons
    <2>2. stops' \in Seq(StopReasons) /\ pending' = "none"
      BY <2>1, StopAppends DEF TypeOK
    <2>3. UNCHANGED <<evalVars, ctlVars, current, pipeline, log, crashed, returned>>
      BY <1>1 DEF StopForPause, StopAtWall
    <2>4. TypeOK'
      BY <2>2, <2>3 DEF TypeOK, Events
    <2> QED BY <2>2, <2>3, <2>4 DEF Hypothesize
  <1>2. CASE AuthorRaises
    <2>1. TypeOK'
      BY <1>2 DEF AuthorRaises, TypeOK, Events
    <2> QED BY <1>2, <2>1 DEF AuthorRaises, Hypothesize
  <1>3. ASSUME NEW g \in Reachable, DraftFor(g) PROVE IInv'
    <2>1. current' \in DraftRecords /\ current'.round = iterations
      BY <1>3 DEF DraftFor, DraftRecords, Drafts, DraftNames, DraftFns,
                  DraftSeams, DraftClaims, TypeOK
    <2>2. TypeOK'
      BY <1>3, <2>1 DEF DraftFor, TypeOK, Events
    <2> QED BY <1>3, <2>1, <2>2 DEF DraftFor, Hypothesize
  <1> QED BY <1>1, <1>2, <1>3 DEF Hypothesize

LEMMA GateIInv == IInv /\ (StaticGate \/ SandboxGate) => IInv'
  <1> SUFFICES ASSUME IInv, StaticGate \/ SandboxGate PROVE IInv'
    OBVIOUS
  <1> USE DEF IInv, HasDraft, RoundsOK, CurrentLogged, CrashedEnds, InGates, BeforeDraft,
              Failures, Emit, evalVars, ctlVars
  <1>1. current \in DraftRecords
    BY DEF StaticGate, SandboxGate
  <1>5. UNCHANGED <<evalVars, ctlVars, current, pipeline, stops, returned>>
    BY DEF StaticGate, SandboxGate, PassStatic, RejectStatic, Raise, repVars
  <1>6. \/ /\ UNCHANGED <<log, crashed>>
           /\ \/ pending' = "transform.static_passed" /\ pending = "transform.drafted"
              \/ pending' = "transform.sandbox_passed" /\ pending = "transform.static_passed"
        \/ UNCHANGED log /\ pending' = "none" /\ crashed' = TRUE
        \/ UNCHANGED crashed /\ pending' \in Failures
    BY DEF StaticGate, SandboxGate, PassStatic, RejectStatic, Raise, repVars
  <1>2. CASE pending' \notin Failures
    <2>1. TypeOK'
      BY <1>2, <1>5, <1>6 DEF TypeOK, Events
    <2> QED BY <1>1, <1>2, <1>5, <1>6, <2>1 DEF StaticGate, SandboxGate
  <1>3. ASSUME NEW st \in Verdicts, NEW g \in DraftClaims \cup Reachable,
               LogAttempt(g, st), pending' \in Failures
        PROVE  IInv'
    <2>1. UNCHANGED <<evalVars, ctlVars, current, pipeline, stops, crashed, returned>>
      BY <1>3, <1>5, <1>6
    <2>2. TypeOK'
      BY <1>1, <1>3, <2>1, LogAttemptAppends DEF TypeOK, Events
    <2>3. RoundsOK'
      BY <1>1, <1>3, <2>1, LogAttemptAppends DEF StaticGate, SandboxGate, TypeOK, Rounds
    <2>4. CurrentLogged'
      BY <1>1, <1>3, <2>1, LogAttemptAppends
    <2> QED BY <1>1, <1>3, <2>1, <2>2, <2>3, <2>4 DEF StaticGate, SandboxGate
  <1>4. current.claims \in DraftClaims /\ current.target \in Reachable
    BY <1>1 DEF DraftRecords
  <1> QED BY <1>2, <1>3, <1>4
          DEF StaticGate, SandboxGate, PassStatic, RejectStatic, Raise, repVars, Verdicts

(* The candidate installed by a trial or a promotion is an entry.          *)
LEMMA CandidateEntry ==
    ASSUME current \in DraftRecords
    PROVE  /\ Candidate \in EntryRecords
           /\ Candidate.name = current.name
           /\ Candidate.fn = current.fn
  BY DEF DraftRecords, EntryRecords, Candidate

LEMMA EvalDiffGateIInv == IInv /\ EvalDiffGate => IInv'
  <1> SUFFICES ASSUME IInv, EvalDiffGate PROVE IInv'
    OBVIOUS
  <1> USE DEF IInv, HasDraft, RoundsOK, CurrentLogged, CrashedEnds, InGates, BeforeDraft,
              Failures, Raise, Emit, evalVars, ctlVars, repVars
  <1>1. current \in DraftRecords /\ pipeline \in SUBSET EntryRecords
    BY DEF EvalDiffGate, TypeOK
  <1>2. pipeline' \subseteq EntryRecords
    <2>1. pipeline' = Revert(Install(pipeline, Candidate), Candidate.name)
      BY <1>1, CandidateEntry DEF EvalDiffGate, LeftAfterTrial
    <2> QED BY <1>1, <2>1, CandidateEntry, RevertInstall
  <1>3. /\ UNCHANGED <<evalVars, ctlVars, current, repVars, returned>>
        /\ \/ pending' = "transform.eval_diff" /\ UNCHANGED crashed
           \/ pending' = "none" /\ crashed' = TRUE
    <2>1. CASE Raise("eval")
      BY <2>1
    <2>2. CASE ~Raise("eval")
      <3>1. /\ UNCHANGED <<evalVars, ctlVars, current, repVars, crashed, returned>>
            /\ Emit("transform.eval_diff")
        <4> USE <2>2
        <4> HIDE DEF Raise, Emit, evalVars, ctlVars, repVars
        <4> QED BY DEF EvalDiffGate
      <3> QED BY <3>1
    <2> QED BY <2>1, <2>2
  <1>4. TypeOK'
    BY <1>2, <1>3 DEF TypeOK, Events
  <1> QED BY <1>1, <1>3, <1>4 DEF EvalDiffGate

LEMMA PromoteIInv == IInv /\ Promote => IInv'
  <1> SUFFICES ASSUME IInv, Promote PROVE IInv'
    OBVIOUS
  <1> DEFINE with == Install(pipeline, Candidate)
             without == Revert(with, current.name)
             again == Reinstalled(without)
  <1> HIDE DEF with, without, again
  <1> USE DEF IInv, HasDraft, RoundsOK, CurrentLogged, CrashedEnds, InGates, BeforeDraft,
              Failures, Emit, evalVars, ctlVars
  <1>1. /\ current \in DraftRecords /\ current.target \in Reachable
        /\ pipeline \in SUBSET EntryRecords
    BY DEF Promote, TypeOK, DraftRecords
  <1>2. {pipeline, with, without, again, Revert(again, current.name)}
            \subseteq SUBSET EntryRecords
    <2>1. Candidate \in EntryRecords /\ Candidate.name = current.name
      BY <1>1, CandidateEntry
    <2>2. with \subseteq EntryRecords /\ without \in SUBSET EntryRecords
      BY <1>1, <2>1, RevertInstall DEF with, without
    <2>3. again \subseteq EntryRecords /\ Revert(again, current.name) \subseteq EntryRecords
      BY <2>1, <2>2, RevertInstall DEF again, Reinstalled
    <2> QED BY <1>1, <2>2, <2>3
  <1>3. pipeline' \in {pipeline, with, without, again, Revert(again, current.name)}
    BY DEF Promote, NotEligible, PromoteUnconfirmed, RunConfirm, ConfirmRaises,
           with, without, again
  <1>4. /\ UNCHANGED <<evalVars, exhausted, iterations, current, stops, returned>>
        /\ consec' \in 0..(MaxDiscards - 1)
    BY LoopAssumption DEF LoopAssumption, TypeOK, Promote, NotEligible, PromoteUnconfirmed, RunConfirm, ConfirmRaises,
           Discard, Accept
  <1>5. CASE UNCHANGED log /\ pending' = "none" /\ crashed' = TRUE
    <2>1. TypeOK'
      BY <1>2, <1>3, <1>4, <1>5 DEF TypeOK, Events
    <2> QED BY <1>4, <1>5, <2>1 DEF Promote
  <1>6. ASSUME NEW st \in Verdicts, LogAttempt(current.target, st),
               pending' \in {"transform.discarded", "transform.promoted"},
               UNCHANGED crashed
        PROVE  IInv'
    <2>1. TypeOK'
      <3>1. log' \in Seq(LogRecords)
        BY <1>1, <1>6, LogAttemptAppends
      <3> QED BY <1>2, <1>3, <1>4, <1>6, <3>1 DEF TypeOK, Events
    <2>2. RoundsOK'
      BY <1>1, <1>4, <1>6, LogAttemptAppends DEF Promote, TypeOK, Rounds
    <2>3. CurrentLogged'
      BY <1>1, <1>4, <1>6, LogAttemptAppends
    <2> QED BY <1>1, <1>4, <1>6, <2>1, <2>2, <2>3 DEF Promote
  <1> QED BY <1>5, <1>6 DEF Promote, NotEligible, PromoteUnconfirmed, RunConfirm,
                            ConfirmRaises, Discard, Accept, Verdicts

LEMMA AttributeIInv == IInv /\ Attribute => IInv'
  <1> SUFFICES ASSUME IInv, Attribute PROVE IInv'
    OBVIOUS
  <1> USE DEF IInv, HasDraft, RoundsOK, CurrentLogged, CrashedEnds, InGates, BeforeDraft,
              Failures, Raise, Emit, evalVars, ctlVars, repVars
  <1>1. TypeOK'
    BY DEF Attribute, Record, Evaluations, TypeOK, Events
  <1> QED BY <1>1 DEF Attribute

(* The next step keeps the invariant whichever set is exhausted.           *)
LEMMA EmitNextStepIInv ==
    ASSUME IInv, NEW x, EmitNextStep(x),
           pending \in Failures \cup {"attribution.recorded"},
           consec' \in 0..(MaxDiscards - 1), exhausted' \subseteq Reachable,
           UNCHANGED <<evalVars, current, pipeline, log, crashed, returned>>
    PROVE  IInv'
  <1> USE DEF IInv, HasDraft, RoundsOK, CurrentLogged, CrashedEnds, InGates, BeforeDraft,
              Failures, Emit, evalVars
  <1>1. CASE UNCHANGED iterations
    <2>1. PICK reason \in StopReasons : Stop(reason)
      BY <1>1 DEF EmitNextStep, StopReasons, TypeOK, Rounds
    <2>2. stops' \in Seq(StopReasons) /\ pending' = "none"
      BY <2>1, StopAppends DEF TypeOK
    <2>3. TypeOK'
      BY <1>1, <2>2 DEF TypeOK, Events
    <2> QED BY <1>1, <2>2, <2>3
  <1>2. CASE ~UNCHANGED iterations
    <2>1. /\ iterations' = iterations + 1 /\ iterations' \in Rounds
          /\ pending' = "loop.iterate" /\ UNCHANGED stops
      BY <1>2, LoopAssumption DEF EmitNextStep, GuardTrips, TypeOK, Rounds, LoopAssumption
    <2>2. TypeOK'
      BY <2>1 DEF TypeOK, Events
    <2>3. RoundsOK'
      <3>1. \A j \in DOMAIN log : log[j].round \in Nat /\ log[j].round < iterations + 1
        <4>1. \A j \in DOMAIN log : log[j] \in LogRecords
          BY DEF TypeOK
        <4> QED BY <4>1, LoopAssumption DEF TypeOK, LogRecords, Rounds, LoopAssumption
      <3> QED BY <2>1, <3>1 DEF TypeOK, Rounds
    <2> QED BY <2>1, <2>2, <2>3
  <1> QED BY <1>1, <1>2

LEMMA IterateIInv ==
    IInv /\ (IterateAfterPromote \/ IterateAfterFailure) => IInv'
  <1> SUFFICES ASSUME IInv, IterateAfterPromote \/ IterateAfterFailure
               PROVE  IInv'
    OBVIOUS
  <1>1. CASE IterateAfterPromote
    <2>1. consec' \in 0..(MaxDiscards - 1) /\ exhausted' \subseteq Reachable
      BY <1>1 DEF IterateAfterPromote, IInv, TypeOK
    <2> QED BY <1>1, <2>1, EmitNextStepIInv DEF IterateAfterPromote
  <1>2. CASE IterateAfterFailure
    <2>1. consec' \in 0..(MaxDiscards - 1)
      BY <1>2, LoopAssumption
      DEF IterateAfterFailure, CountFailure, Retires, LoopAssumption, IInv, TypeOK
    <2>2. current.target \in Reachable
      BY <1>2 DEF IterateAfterFailure, IInv, HasDraft, DraftRecords
    <2>3. exhausted' \subseteq Reachable
      BY <1>2, <2>2 DEF IterateAfterFailure, IInv, TypeOK
    <2> QED BY <1>2, <2>1, <2>3, EmitNextStepIInv DEF IterateAfterFailure
  <1> QED BY <1>1, <1>2

LEMMA OtherIInv == IInv /\ (Diagnose \/ Rebaseline \/ Return) => IInv'
  <1> SUFFICES ASSUME IInv, Diagnose \/ Rebaseline \/ Return PROVE IInv'
    OBVIOUS
  <1> USE DEF IInv, HasDraft, RoundsOK, CurrentLogged, CrashedEnds, InGates, BeforeDraft,
              Failures, Emit, evalVars, ctlVars, repVars
  <1>1. stops' \in Seq(StopReasons)
    <2>1. <<"loop_drained_without_stop">> \in Seq(StopReasons)
      BY DEF StopReasons
    <2> QED BY <2>1 DEF Diagnose, Rebaseline, Return, Backstop, TypeOK
  <1>2. TypeOK'
    BY <1>1 DEF Diagnose, Rebaseline, Return, TypeOK, Events
  <1> QED BY <1>2 DEF Diagnose, Rebaseline, Return

LEMMA NextIInv == IInv /\ [Next]_vars => IInv'
  <1> SUFFICES ASSUME IInv, [Next]_vars PROVE IInv'
    OBVIOUS
  <1>1. CASE UNCHANGED vars
    BY <1>1 DEF IInv, TypeOK, HasDraft, RoundsOK, CurrentLogged, CrashedEnds,
                vars, evalVars, ctlVars, repVars
  <1> QED BY <1>1, RunBaselineIInv, HypothesizeIInv, GateIInv, EvalDiffGateIInv,
             PromoteIInv, AttributeIInv, IterateIInv, OtherIInv DEF Next, Step

(* The LoopContext, the pipeline, the log and the pending event keep their *)
(* types for every author, backend and bound.                              *)
THEOREM TypeCorrect == Spec => []TypeOK
  <1>1. Spec => []IInv
    BY InitIInv, NextIInv, PTL DEF Spec
  <1>2. IInv => TypeOK
    BY DEF IInv
  <1> QED BY <1>1, <1>2, PTL
-----------------------------------------------------------------------------
(* What a pipeline may look like once a candidate was installed: `with' or *)
(* reinstalled after a revert (`again'); and once it was taken out.        *)
WithCandidate(P) ==
    /\ \E e \in P : e.name = current.name /\ e.fn = current.fn
    /\ \A e \in P : \/ e \in pipeline
                    \/ e.name = current.name /\ e.fn = current.fn
    /\ \A e \in pipeline : e.name # current.name => e \in P

WithoutCandidate(P) ==
    /\ P \subseteq pipeline
    /\ \A e \in pipeline : e.name # current.name => e \in P

LEMMA PipelineForms ==
    ASSUME current \in DraftRecords, pipeline \subseteq EntryRecords,
           NEW with, with = Install(pipeline, Candidate),
           NEW without, without = Revert(with, current.name),
           NEW again, again = Reinstalled(without)
    PROVE  /\ WithCandidate(with) /\ WithCandidate(again)
           /\ WithoutCandidate(pipeline) /\ WithoutCandidate(without)
           /\ WithoutCandidate(Revert(again, current.name))
  <1>1. /\ Candidate \in EntryRecords
        /\ Candidate.name = current.name /\ Candidate.fn = current.fn
    BY CandidateEntry
  <1>2. WithCandidate(with)
    BY <1>1, InstallEntries DEF WithCandidate
  <1>3. WithoutCandidate(without) /\ without \in SUBSET EntryRecords
    BY <1>1, RevertInstall DEF WithoutCandidate
  <1>4. /\ \E e \in again : e.name = current.name /\ e.fn = current.fn
        /\ \A e \in again : \/ e \in without
                            \/ e.name = current.name /\ e.fn = current.fn
        /\ \A e \in without : e.name # current.name => e \in again
    BY <1>1, <1>3, InstallEntries DEF Reinstalled
  <1>5. WithCandidate(again)
    BY <1>3, <1>4 DEF WithCandidate, WithoutCandidate
  <1>6. /\ Revert(again, current.name) \subseteq without
        /\ \A e \in without : e.name # current.name => e \in Revert(again, current.name)
    BY <1>1, <1>3, RevertInstall DEF Reinstalled
  <1>7. WithoutCandidate(Revert(again, current.name))
    BY <1>3, <1>6 DEF WithoutCandidate
  <1> QED BY <1>2, <1>3, <1>5, <1>7 DEF WithoutCandidate

(* The five kinds of step, by what they do to the log, the pipeline and    *)
(* the current draft.                                                      *)
Quiet == UNCHANGED <<log, pipeline, current>>

Drafting ==
    /\ pending = "regime.histogram"
    /\ current' \in DraftRecords /\ current'.round = iterations
    /\ UNCHANGED <<log, pipeline>>

Failing ==
    /\ pending \in InGates /\ UNCHANGED current
    /\ \E st \in Verdicts \ {"promoted"}, g \in DraftClaims \cup Reachable :
          LogAttempt(g, st)
    /\ WithoutCandidate(pipeline')

Trying ==
    /\ pending \in InGates /\ UNCHANGED <<log, current>>
    /\ \/ WithoutCandidate(pipeline')
       \/ crashed' /\ WithCandidate(pipeline') /\ "confirm" \in Faults

Promoting ==
    /\ pending \in InGates /\ UNCHANGED current
    /\ LogAttempt(current.target, "promoted") /\ current.target \in Reachable
    /\ WithCandidate(pipeline')

LEMMA PromoteKinds == IInv /\ Promote => Failing \/ Trying \/ Promoting
  <1> SUFFICES ASSUME IInv, Promote PROVE Failing \/ Trying \/ Promoting
    OBVIOUS
  <1> DEFINE with == Install(pipeline, Candidate)
             without == Revert(with, current.name)
             again == Reinstalled(without)
  <1>1. /\ current \in DraftRecords /\ current.target \in Reachable
        /\ pending \in InGates /\ UNCHANGED current
    BY DEF Promote, IInv, HasDraft, InGates, DraftRecords
  <1>2. /\ WithCandidate(with) /\ WithCandidate(again)
        /\ WithoutCandidate(pipeline) /\ WithoutCandidate(without)
        /\ WithoutCandidate(Revert(again, current.name))
    BY <1>1, PipelineForms DEF IInv, TypeOK
  <1> HIDE DEF with, without, again
  <1>3. \/ Discard /\ pipeline' \in {pipeline, Revert(again, current.name)}
        \/ Accept /\ pipeline' \in {with, again}
        \/ /\ UNCHANGED log /\ crashed' /\ "confirm" \in Faults
           /\ pipeline' \in {with, without}
    BY DEF Promote, NotEligible, PromoteUnconfirmed, RunConfirm, ConfirmRaises,
           with, without, again
  <1> QED BY <1>1, <1>2, <1>3
          DEF Failing, Trying, Promoting, Discard, Accept, Verdicts

LEMMA StepKinds ==
    IInv /\ [Next]_vars => Quiet \/ Drafting \/ Failing \/ Trying \/ Promoting
  <1> SUFFICES ASSUME IInv, [Next]_vars
               PROVE  Quiet \/ Drafting \/ Failing \/ Trying \/ Promoting
    OBVIOUS
  <1>1. CASE UNCHANGED vars
    BY <1>1 DEF vars, repVars, Quiet
  <1>2. CASE RunBaseline \/ Diagnose \/ Attribute \/ IterateAfterPromote
               \/ IterateAfterFailure \/ Rebaseline \/ Return
    BY <1>2 DEF RunBaseline, Diagnose, Attribute, IterateAfterPromote,
                IterateAfterFailure, Rebaseline, Return, Raise, repVars, Quiet
  <1>3. CASE Hypothesize
    <2>1. CASE StopForPause \/ StopAtWall \/ AuthorRaises
      BY <2>1 DEF StopForPause, StopAtWall, AuthorRaises, Raise, repVars, Quiet
    <2>2. ASSUME NEW g \in Reachable, DraftFor(g) PROVE Drafting
      BY <1>3, <2>2 DEF Hypothesize, DraftFor, DraftRecords, Drafts, DraftNames,
                        DraftFns, DraftSeams, DraftClaims, IInv, TypeOK, repVars,
                        Drafting
    <2> QED BY <1>3, <2>1, <2>2 DEF Hypothesize
  <1>4. CASE StaticGate \/ SandboxGate
    <2>1. current \in DraftRecords /\ pending \in InGates
      BY <1>4 DEF StaticGate, SandboxGate, IInv, HasDraft, InGates
    <2>2. WithoutCandidate(pipeline)
      BY DEF WithoutCandidate
    <2>3. current.claims \in DraftClaims /\ current.target \in Reachable
      BY <2>1 DEF DraftRecords
    <2> QED BY <1>4, <2>1, <2>2, <2>3
            DEF StaticGate, PassStatic, RejectStatic, SandboxGate, Raise, repVars,
                Failing, Quiet, Verdicts
  <1>5. CASE EvalDiffGate
    <2>1. current \in DraftRecords /\ pending \in InGates
      BY <1>5 DEF EvalDiffGate, IInv, HasDraft, InGates
    <2>2. WithoutCandidate(pipeline')
      BY <1>5, <2>1, PipelineForms
      DEF EvalDiffGate, LeftAfterTrial, IInv, TypeOK, Reinstalled
    <2>3. UNCHANGED <<log, current>>
      BY <1>5 DEF EvalDiffGate, Raise, repVars
    <2> QED BY <2>1, <2>2, <2>3 DEF Trying
  <1>6. CASE Promote
    BY <1>6, PromoteKinds
  <1> QED BY <1>1, <1>2, <1>3, <1>4, <1>5, <1>6 DEF Next, Step
-----------------------------------------------------------------------------
(* A step that logs a verdict leaves the older entries of the log alone.   *)
LEMMA VerdictLogged ==
    ASSUME IInv, Failing \/ Promoting
    PROVE  \E n \in DOMAIN log' :
              /\ DOMAIN log' = DOMAIN log \cup {n} /\ n \notin DOMAIN log
              /\ \A j \in DOMAIN log : log'[j] = log[j]
              /\ log'[n].name = current.name /\ log'[n].fn = current.fn
              /\ Promoting => log'[n].status = "promoted"
              /\ ~Promoting => log'[n].status # "promoted"
  <1>1. current \in DraftRecords /\ TypeOK
    BY DEF Failing, Promoting, IInv, HasDraft
  <1>2. CASE Promoting
    BY <1>1, <1>2, LogAttemptAppends DEF Promoting, Verdicts
  <1>3. CASE Failing /\ ~Promoting
    <2>1. PICK st \in Verdicts \ {"promoted"}, g \in DraftClaims \cup Reachable :
               LogAttempt(g, st)
      BY <1>3 DEF Failing
    <2> QED BY <1>1, <1>3, <2>1, LogAttemptAppends
  <1> QED BY <1>2, <1>3

(* The first installed-pipeline invariant moves with each kind of step,    *)
(* except a confirm run that raises with the candidate installed.          *)
LEMMA InstalledStep ==
    ASSUME "confirm" \notin Faults \/ ~crashed', IInv, InstalledWerePromoted, [Next]_vars
    PROVE  InstalledWerePromoted'
  <1>1. CASE Quiet \/ Drafting
    BY <1>1 DEF Quiet, Drafting, InstalledWerePromoted, Promotions
  <1>2. CASE Trying
    BY <1>2 DEF Trying, WithoutCandidate, InstalledWerePromoted, Promotions
  <1>3. CASE Failing \/ Promoting
    <2>1. PICK n \in DOMAIN log' :
              /\ DOMAIN log' = DOMAIN log \cup {n} /\ n \notin DOMAIN log
              /\ \A j \in DOMAIN log : log'[j] = log[j]
              /\ log'[n].name = current.name /\ log'[n].fn = current.fn
              /\ Promoting => log'[n].status = "promoted"
      BY <1>3, VerdictLogged
    <2>2. SUFFICES ASSUME NEW e \in pipeline'
                   PROVE  \E i \in Promotions' :
                              log'[i].name = e.name /\ log'[i].fn = e.fn
      BY DEF InstalledWerePromoted
    <2>3. CASE e \in pipeline
      <3>1. PICK i \in Promotions : log[i].name = e.name /\ log[i].fn = e.fn
        BY <2>3 DEF InstalledWerePromoted
      <3>2. i \in Promotions'
        BY <2>1, <3>1 DEF Promotions
      <3> QED BY <2>1, <3>1, <3>2 DEF Promotions
    <2>4. CASE e \notin pipeline
      <3>1. Promoting /\ e.name = current.name /\ e.fn = current.fn
        BY <1>3, <2>2, <2>4 DEF Failing, Promoting, WithCandidate, WithoutCandidate
      <3>2. n \in Promotions'
        BY <2>1, <3>1 DEF Promotions
      <3> QED BY <2>1, <3>1, <3>2
    <2> QED BY <2>3, <2>4
  <1> QED BY <1>1, <1>2, <1>3, StepKinds

(* When the confirm runs do not raise, only what the log records as        *)
(* promoted is installed, for every author, backend and bound.             *)
THEOREM NothingUnpromoted ==
    ASSUME "confirm" \notin Faults
    PROVE  Spec => []InstalledWerePromoted
  <1>1. Spec => []IInv
    BY InitIInv, NextIInv, PTL DEF Spec
  <1>2. Init => InstalledWerePromoted
    BY DEF Init, InstalledWerePromoted
  <1>3. IInv /\ InstalledWerePromoted /\ [Next]_vars => InstalledWerePromoted'
    BY InstalledStep
  <1> QED BY <1>1, <1>2, <1>3, PTL DEF Spec
-----------------------------------------------------------------------------
(* Whatever is logged was drafted.                                         *)
LoggedDraft == log # <<>> => current \in DraftRecords

LEMMA LoggedDraftStep == IInv /\ LoggedDraft /\ [Next]_vars => LoggedDraft'
  <1> SUFFICES ASSUME IInv, LoggedDraft, [Next]_vars PROVE LoggedDraft'
    OBVIOUS
  <1>1. CASE Quiet \/ Drafting
    BY <1>1 DEF Quiet, Drafting, LoggedDraft
  <1>2. CASE Trying \/ Failing \/ Promoting
    BY <1>2 DEF Trying, Failing, Promoting, LoggedDraft, IInv, HasDraft
  <1> QED BY <1>1, <1>2, StepKinds

(* Once a promotion's name is drafted again it stays superseded: the log   *)
(* keeps the second attempt when the draft is gone.                        *)
LEMMA SupersededStays ==
    ASSUME IInv, LoggedDraft, [Next]_vars, NEW i \in DOMAIN log, Superseded(i)
    PROVE  i \in DOMAIN log' /\ log'[i] = log[i] /\ Superseded(i)'
  <1>1. /\ \A j \in DOMAIN log : j \in DOMAIN log' /\ log'[j] = log[j]
    BY StepKinds, VerdictLogged DEF Quiet, Drafting, Trying
  <1>2. CASE \E j \in DOMAIN log : log[j].round > log[i].round /\ log[j].name = log[i].name
    BY <1>1, <1>2 DEF Superseded
  <1>3. CASE current.name = log[i].name /\ current.round > log[i].round
    <2>1. CASE UNCHANGED current
      BY <1>1, <1>3, <2>1 DEF Superseded
    <2>2. CASE ~UNCHANGED current
      <3>1. pending = "regime.histogram"
        BY <2>2, StepKinds DEF Quiet, Failing, Trying, Promoting, Drafting
      <3>2. current # None
        <4>1. current \in DraftRecords
          <5>1. log # <<>>
            OBVIOUS
          <5> QED BY <5>1 DEF LoggedDraft
        <4> QED BY <4>1 DEF DraftRecords, None
      <3>3. PICK j \in DOMAIN log : log[j].name = current.name /\ log[j].round = current.round
        BY <3>1, <3>2 DEF IInv, CurrentLogged, CrashedEnds, InGates
      <3> QED BY <1>2, <1>3, <3>3
    <2> QED BY <2>1, <2>2
  <1> QED BY <1>1, <1>2, <1>3 DEF Superseded

LEMMA PromotedStep ==
    ASSUME IInv, LoggedDraft, PromotedStayInstalled, [Next]_vars
    PROVE  PromotedStayInstalled'
  <1> SUFFICES ASSUME NEW i \in Promotions', ~Superseded(i)'
               PROVE  \E e \in pipeline' : e.name = log'[i].name /\ e.fn = log'[i].fn
    BY DEF PromotedStayInstalled
  <1>1. CASE i \in DOMAIN log /\ log'[i] = log[i]
    <2>1. i \in Promotions /\ ~Superseded(i)
      BY <1>1, SupersededStays DEF Promotions
    <2>2. PICK e \in pipeline : e.name = log[i].name /\ e.fn = log[i].fn
      BY <2>1 DEF PromotedStayInstalled
    <2>3. pending \in InGates => log[i].name # current.name
      BY <1>1, <2>1 DEF IInv, RoundsOK, TypeOK, Superseded, BeforeDraft
    <2>4. e \in pipeline'
      BY <2>2, <2>3, StepKinds
      DEF Quiet, Drafting, Failing, Trying, Promoting, WithCandidate, WithoutCandidate
    <2> QED BY <1>1, <2>2, <2>4
  <1>2. CASE ~(i \in DOMAIN log /\ log'[i] = log[i])
    <2>1. i \in DOMAIN log' /\ log'[i].status = "promoted"
      BY DEF Promotions
    <2>2. Failing \/ Promoting
      BY <1>2, <2>1, StepKinds DEF Quiet, Drafting, Trying
    <2>3. Promoting /\ log'[i].name = current.name /\ log'[i].fn = current.fn
      BY <1>2, <2>1, <2>2, VerdictLogged
    <2> QED BY <2>3 DEF Promoting, WithCandidate
  <1> QED BY <1>1, <1>2

(* What was promoted stays installed until its name is drafted again, for  *)
(* every author, backend, fault and bound.                                 *)
THEOREM PromotionsKept == Spec => []PromotedStayInstalled
  <1>1. Spec => []IInv
    BY InitIInv, NextIInv, PTL DEF Spec
  <1>2. Init => LoggedDraft /\ PromotedStayInstalled
    BY DEF Init, LoggedDraft, PromotedStayInstalled, Promotions
  <1>3. IInv /\ LoggedDraft /\ [Next]_vars => LoggedDraft'
    BY LoggedDraftStep
  <1>4. IInv /\ LoggedDraft /\ PromotedStayInstalled /\ [Next]_vars
            => PromotedStayInstalled'
    BY PromotedStep
  <1> QED BY <1>1, <1>2, <1>3, <1>4, PTL DEF Spec
-----------------------------------------------------------------------------
(***************************************************************************)
(* Rounds.  The counter of failures counts at one regime, because the      *)
(* target is chosen from what changes only when the counter restarts.      *)
(***************************************************************************)
BeforeTarget == {"loop.iterate", "baseline.recorded", "regime.histogram"}

(* The drafts in progress are for the regime the loop would choose again.  *)
OnTarget ==
    /\ current \in DraftRecords
    /\ baseline = lastResult
    /\ IsTarget(current.target, baseline)

(* The last n attempts failed at the regime of the current draft.          *)
Streak(n) ==
    /\ n <= Len(log)
    /\ \A j \in (Len(log) - n + 1) .. Len(log) :
          log[j].regime = current.target /\ log[j].status # "promoted"

(* The counter counts failures at one regime: it restarts whenever the     *)
(* result, or the set of retired regimes, that the target is chosen from   *)
(* changes.                                                                *)
CountsOneRegime ==
    /\ pending \in {"loop.start", "transform.promoted", "attribution.recorded"}
          => consec = 0
    /\ pending \notin {"loop.start", "none"} => lastResult \in [Qids -> Labels]
    /\ pending \in {"baseline.recorded", "regime.histogram"} => baseline = lastResult
    /\ pending \in BeforeTarget /\ consec > 0 => OnTarget /\ Streak(consec)
    /\ pending \in InGates
          => OnTarget /\ Streak(consec) /\ current.claims = current.target
    /\ pending \in Failures => OnTarget /\ Streak(consec + 1)

RInv == IInv /\ CountsOneRegime /\ RetiredOnOwnFailures

(* What the choice of a target needs of its regimes and authors.           *)
Orderly ==
    /\ IsFiniteSet(Qids)
    /\ \A g, h \in Reachable : Before(g, h) /\ Before(h, g) => g = h
    /\ \A g \in Reachable : \A d \in DraftsOf(g) : d.regime = g

-----------------------------------------------------------------------------
(* A result has one target at most.                                        *)
LEMMA OneTarget ==
    ASSUME Orderly, NEW r \in [Qids -> Labels], NEW g, NEW h,
           IsTarget(g, r), IsTarget(h, r)
    PROVE  g = h
  <1>1. \A x : Count(r, x) \in Nat
    <2> SUFFICES ASSUME NEW x PROVE Count(r, x) \in Nat
      OBVIOUS
    <2>1. {q \in DOMAIN r : r[q] = x} \subseteq Qids
      OBVIOUS
    <2> QED BY <2>1, FS_Subset, FS_CardinalityType DEF Count, Orderly
  <1>2. Count(r, g) \in Nat /\ Count(r, h) \in Nat
    BY <1>1
  <1>3. {g, h} \subseteq Reachable /\ g \in Candidates(r) /\ h \in Candidates(r)
    BY DEF IsTarget, Candidates
  <1> QED BY <1>2, <1>3 DEF IsTarget, Orderly

(* A failed attempt that is logged makes the streak longer by one.         *)
LEMMA StreakGrows ==
    ASSUME IInv, current \in DraftRecords, UNCHANGED current,
           NEW n \in Nat, Streak(n),
           NEW st \in Verdicts \ {"promoted"}, LogAttempt(current.target, st)
    PROVE  Streak(n + 1)'
  <1>1. current.target \in Reachable
    BY DEF DraftRecords
  <1>2. /\ log \in Seq(LogRecords) /\ Len(log) \in Nat
        /\ DOMAIN log = 1 .. Len(log)
    BY DEF IInv, TypeOK
  <1>3. /\ Len(log') = Len(log) + 1
        /\ \A j \in 1 .. Len(log) : log'[j] = log[j]
        /\ log'[Len(log) + 1].regime = current.target
        /\ log'[Len(log) + 1].status = st
    BY <1>2 DEF LogAttempt
  <1>4. ASSUME NEW j \in (Len(log') - (n + 1) + 1) .. Len(log')
        PROVE  log'[j].regime = current.target /\ log'[j].status # "promoted"
    <2>1. CASE j = Len(log) + 1
      BY <1>3, <2>1
    <2>2. CASE j # Len(log) + 1
      <3>1. j \in (Len(log) - n + 1) .. Len(log) /\ j \in 1 .. Len(log)
        BY <1>2, <1>3, <2>2 DEF Streak
      <3> QED BY <3>1, <1>3 DEF Streak
    <2> QED BY <2>1, <2>2
  <1>5. n + 1 <= Len(log')
    BY <1>2, <1>3 DEF Streak
  <1> QED BY <1>4, <1>5 DEF Streak

(* Retired regimes keep the failures they were retired for.                *)
LEMMA RetiredKeeps ==
    ASSUME IInv, RetiredOnOwnFailures, [Next]_vars, UNCHANGED exhausted
    PROVE  RetiredOnOwnFailures'
  <1>1. \A j \in DOMAIN log : j \in DOMAIN log' /\ log'[j] = log[j]
    BY StepKinds, VerdictLogged DEF Quiet, Drafting, Trying
  <1>2. \A i \in DOMAIN log : i + MaxDiscards - 1 \in DOMAIN log
            => \A j \in i .. (i + MaxDiscards - 1) : j \in DOMAIN log
    BY LoopAssumption DEF LoopAssumption, IInv, TypeOK
  <1> QED BY <1>1, <1>2 DEF RetiredOnOwnFailures

-----------------------------------------------------------------------------
LEMMA InitRInv == Init => RInv
  BY InitIInv DEF Init, RInv, CountsOneRegime, RetiredOnOwnFailures, InGates,
                  BeforeTarget, Failures

(* Steps on which nothing is drafted, tried or counted.                    *)
LEMMA CalmCounts ==
    ASSUME Orderly, RInv,
           RunBaseline \/ Diagnose \/ Attribute \/ Rebaseline \/ Return \/ UNCHANGED vars
    PROVE  CountsOneRegime'
  <1> USE DEF RInv, CountsOneRegime, InGates, BeforeTarget, Failures, Emit
  <1>2. CASE UNCHANGED vars
    BY <1>2 DEF vars, evalVars, ctlVars, repVars, OnTarget, Streak, IsTarget, Candidates
  <1>3. CASE Diagnose \/ Rebaseline \/ Return
    <2>1. UNCHANGED <<log, current, exhausted, consec, lastResult>>
      BY <1>3 DEF Diagnose, Rebaseline, Return, evalVars, ctlVars, repVars
    <2>2. lastResult = baseline /\ OnTarget => (baseline' = lastResult => OnTarget')
      BY <2>1 DEF OnTarget, IsTarget, Candidates
    <2>3. Streak(consec)' = Streak(consec)
      BY <2>1 DEF Streak
    <2>4. CASE Diagnose
      BY <2>1, <2>2, <2>3, <2>4 DEF Diagnose, evalVars, ctlVars, repVars
    <2>5. CASE Rebaseline
      BY <2>1, <2>2, <2>3, <2>5 DEF Rebaseline, OnTarget
    <2>6. CASE Return
      BY <2>6 DEF Return
    <2> QED BY <1>3, <2>4, <2>5, <2>6
  <1>4. CASE RunBaseline
    BY <1>4 DEF RunBaseline, Raise, ctlVars, Evaluations
  <1>5. CASE Attribute
    BY <1>5 DEF Attribute, Raise, ctlVars, Record, Evaluations, evalVars, repVars
  <1> QED BY <1>2, <1>3, <1>4, <1>5

LEMMA HypothesizeCounts ==
    ASSUME Orderly, RInv, Hypothesize
    PROVE  CountsOneRegime'
  <1> USE DEF RInv, CountsOneRegime, InGates, BeforeTarget, Failures, Emit
  <1>1. /\ baseline = lastResult /\ baseline \in [Qids -> Labels]
        /\ consec > 0 => OnTarget /\ Streak(consec)
    BY DEF Hypothesize
  <1>2. CASE StopForPause \/ StopAtWall \/ AuthorRaises
    BY <1>2 DEF StopForPause, StopAtWall, AuthorRaises, Stop, Raise
  <1>3. ASSUME NEW g \in Reachable, DraftFor(g) PROVE CountsOneRegime'
    <2>1. /\ UNCHANGED <<baseline, lastResult, exhausted, consec, log>>
          /\ current'.target = g /\ IsTarget(g, baseline)
          /\ pending' = "transform.drafted"
      BY <1>3 DEF DraftFor, evalVars, ctlVars, repVars
    <2>2. current' \in DraftRecords /\ current'.claims = g
      BY <1>3 DEF DraftFor, DraftRecords, Drafts, DraftNames, DraftFns, DraftSeams,
                  DraftClaims, IInv, TypeOK, Orderly
    <2>3. OnTarget'
      BY <1>1, <2>1, <2>2 DEF OnTarget, IsTarget, Candidates
    <2>4. Streak(consec)'
      <3>1. CASE consec > 0
        <4>1. current.target = g
          BY <1>1, <2>1, <3>1, OneTarget DEF OnTarget
        <4> QED BY <1>1, <2>1, <3>1, <4>1 DEF Streak
      <3>2. CASE consec = 0
        <4>1. log \in Seq(LogRecords)
          BY DEF IInv, TypeOK
        <4> QED BY <2>1, <3>2, <4>1 DEF Streak
      <3> QED BY <3>1, <3>2, LoopAssumption DEF LoopAssumption, IInv, TypeOK
    <2> QED BY <1>1, <2>1, <2>2, <2>3, <2>4
  <1> QED BY <1>2, <1>3 DEF Hypothesize

(* The gates keep the streak, and a verdict against the draft adds to it.  *)
LEMMA GatesCount ==
    ASSUME Orderly, RInv, StaticGate \/ SandboxGate \/ EvalDiffGate \/ Promote
    PROVE  CountsOneRegime'
  <1> USE DEF RInv, CountsOneRegime, InGates, BeforeTarget, Failures, Emit
  <1>1. /\ OnTarget /\ Streak(consec) /\ current.claims = current.target
        /\ lastResult \in [Qids -> Labels]
        /\ UNCHANGED <<baseline, lastResult, exhausted, current>>
    BY DEF StaticGate, PassStatic, RejectStatic, SandboxGate, EvalDiffGate, Promote, Raise,
           evalVars, ctlVars
  <1>2. OnTarget' /\ consec \in Nat
    BY <1>1, LoopAssumption DEF OnTarget, IsTarget, Candidates, IInv, TypeOK, LoopAssumption
  <1>3. \/ pending' = "none"
        \/ pending' = "transform.promoted" /\ consec' = 0
        \/ pending' \in InGates /\ UNCHANGED <<log, consec>>
        \/ /\ pending' \in Failures /\ UNCHANGED consec
           /\ \E st \in Verdicts \ {"promoted"} : LogAttempt(current.target, st)
    <2>1. CASE StaticGate \/ SandboxGate
      BY <1>1, <2>1 DEF StaticGate, PassStatic, RejectStatic, SandboxGate, Raise, ctlVars,
                        repVars, Verdicts
    <2>2. CASE EvalDiffGate
      BY <2>2 DEF EvalDiffGate, Raise, ctlVars, repVars
    <2>3. CASE Promote
      BY <2>3 DEF Promote, NotEligible, PromoteUnconfirmed, RunConfirm, ConfirmRaises,
                  Discard, Accept, Verdicts
    <2> QED BY <2>1, <2>2, <2>3
  <1>4. CASE pending' \in InGates /\ UNCHANGED <<log, consec>>
    <2>1. Streak(consec)'
      BY <1>1, <1>4 DEF Streak
    <2> QED BY <1>1, <1>2, <1>4, <2>1
  <1>5. CASE /\ pending' \in Failures /\ UNCHANGED consec
             /\ \E st \in Verdicts \ {"promoted"} : LogAttempt(current.target, st)
    <2>1. Streak(consec + 1)'
      BY <1>1, <1>2, <1>5, StreakGrows DEF OnTarget
    <2> QED BY <1>1, <1>2, <1>5, <2>1
  <1>6. CASE pending' = "none" \/ (pending' = "transform.promoted" /\ consec' = 0)
    BY <1>1, <1>6
  <1> QED BY <1>3, <1>4, <1>5, <1>6

(* Counting a failure: the streak is long enough when the regime retires.  *)
LEMMA IterateCounts ==
    ASSUME Orderly, RInv, IterateAfterPromote \/ IterateAfterFailure
    PROVE  CountsOneRegime' /\ RetiredOnOwnFailures'
  <1> USE DEF RInv
  <1>1. /\ UNCHANGED <<baseline, lastResult, current, log>>
        /\ pending' \in {"none", "loop.iterate"}
        /\ lastResult \in [Qids -> Labels]
    BY DEF IterateAfterPromote, IterateAfterFailure, EmitNextStep, Stop, Emit, evalVars,
           CountsOneRegime, Failures
  <1>2. /\ consec \in 0 .. (MaxDiscards - 1) /\ MaxDiscards \in Nat \ {0}
        /\ log \in Seq(LogRecords)
    BY LoopAssumption DEF LoopAssumption, IInv, TypeOK
  <1>3. CASE IterateAfterPromote
    <2>1. consec = 0 /\ UNCHANGED <<consec, exhausted>>
      BY <1>3 DEF IterateAfterPromote, CountsOneRegime
    <2>2. CountsOneRegime'
      BY <1>1, <2>1 DEF CountsOneRegime, BeforeTarget, InGates, Failures
    <2> QED BY <1>1, <2>1, <2>2 DEF RetiredOnOwnFailures
  <1>4. CASE IterateAfterFailure
    <2>1. OnTarget /\ Streak(consec + 1)
      BY <1>4 DEF IterateAfterFailure, CountsOneRegime
    <2>2. CASE Retires
      <3>1. /\ consec + 1 = MaxDiscards /\ consec' = 0
            /\ exhausted' = exhausted \cup {current.target}
        BY <1>2, <1>4, <2>2 DEF IterateAfterFailure, CountFailure, Retires
      <3> DEFINE first == Len(log) - MaxDiscards + 1
      <3>2. /\ first \in DOMAIN log /\ first + MaxDiscards - 1 = Len(log)
            /\ Len(log) \in DOMAIN log
        BY <1>2, <2>1, <3>1 DEF Streak
      <3>3. \A j \in first .. Len(log) :
               log[j].regime = current.target /\ log[j].status # "promoted"
        BY <1>2, <2>1, <3>1 DEF Streak
      <3>4. RetiredOnOwnFailures'
        <4> SUFFICES ASSUME NEW g \in exhausted'
                     PROVE  \E i \in DOMAIN log :
                               /\ i + MaxDiscards - 1 \in DOMAIN log
                               /\ \A j \in i .. (i + MaxDiscards - 1) :
                                     log[j].regime = g /\ log[j].status # "promoted"
          BY <1>1 DEF RetiredOnOwnFailures
        <4>1. CASE g \in exhausted
          BY <4>1 DEF RetiredOnOwnFailures
        <4>2. CASE g = current.target
          <5> HIDE DEF first
          <5> QED BY <3>2, <3>3, <4>2
        <4> QED BY <3>1, <4>1, <4>2
      <3>5. CountsOneRegime'
        BY <1>1, <3>1 DEF CountsOneRegime, BeforeTarget, InGates, Failures
      <3> QED BY <3>4, <3>5
    <2>3. CASE ~Retires
      <3>1. consec' = consec + 1 /\ UNCHANGED exhausted
        BY <1>4, <2>3 DEF IterateAfterFailure, CountFailure
      <3>2. OnTarget' /\ Streak(consec)'
        BY <1>1, <2>1, <3>1 DEF OnTarget, IsTarget, Candidates, Streak
      <3>3. CountsOneRegime'
        BY <1>1, <3>2 DEF CountsOneRegime, BeforeTarget, InGates, Failures
      <3> QED BY <1>1, <3>1, <3>3 DEF RetiredOnOwnFailures
    <2> QED BY <2>2, <2>3
  <1> QED BY <1>3, <1>4

LEMMA NextRInv == ASSUME Orderly, RInv, [Next]_vars PROVE RInv'
  <1>1. IInv'
    BY NextIInv DEF RInv
  <1>2. CASE IterateAfterPromote \/ IterateAfterFailure
    BY <1>1, <1>2, IterateCounts DEF RInv
  <1>3. CASE ~(IterateAfterPromote \/ IterateAfterFailure)
    <2>1. CountsOneRegime'
      BY <1>3, CalmCounts, HypothesizeCounts, GatesCount DEF Next, Step
    <2>2. UNCHANGED exhausted
      BY <1>3 DEF Next, Step, RunBaseline, Diagnose, Hypothesize, StopForPause, StopAtWall,
                  AuthorRaises, DraftFor, StaticGate, PassStatic, RejectStatic, SandboxGate,
                  EvalDiffGate, Promote, Attribute, Rebaseline, Return, Raise, ctlVars, vars
    <2>3. RetiredOnOwnFailures'
      BY <2>2, RetiredKeeps DEF RInv
    <2> QED BY <1>1, <2>1, <2>3 DEF RInv
  <1> QED BY <1>2, <1>3

(* A regime is retired only after MaxDiscards failures in a row at that    *)
(* regime, for every backend and bound, whatever raises, if authors draft  *)
(* for the regime they are asked for.                                      *)
THEOREM RetirementsAreOwn ==
    ASSUME Orderly
    PROVE  Spec => []RetiredOnOwnFailures
  <1>1. RInv /\ [Next]_vars => RInv'
    BY NextRInv
  <1>2. RInv => RetiredOnOwnFailures
    BY DEF RInv
  <1> QED BY <1>1, <1>2, InitRInv, PTL DEF Spec
-----------------------------------------------------------------------------
(* What the gates measured is the pipeline with the candidate, and, unless *)
(* a confirm run raised, what is installed was promoted.                   *)
TrialsAreExact ==
    ~Reused /\ pending = "transform.eval_diff" => diff.measured = Install(pipeline, Candidate)

InstalledUnlessCrashed == ~crashed => InstalledWerePromoted

CurInv == /\ IInv /\ LoggedDraft /\ InstalledUnlessCrashed
          /\ TrialsAreExact /\ ResultsAreCurrent

(* A name that is drafted again has been reused for good.                  *)
LEMMA ReusedStays ==
    ASSUME IInv, LoggedDraft, [Next]_vars, Reused
    PROVE  Reused'
  <1>1. PICK i \in Promotions : Superseded(i)
    BY DEF Reused
  <1>2. i \in DOMAIN log' /\ log'[i] = log[i] /\ Superseded(i)'
    BY <1>1, SupersededStays DEF Promotions
  <1> QED BY <1>1, <1>2 DEF Reused, Promotions

(* A draft whose name was never promoted meets no entry of that name, so   *)
(* a trial leaves the pipeline as it was, and installing the draft again   *)
(* makes the pipeline that was measured.                                   *)
LEMMA TrialLeavesNoTrace ==
    ASSUME IInv, InstalledWerePromoted, ~Reused, pending \in InGates
    PROVE  /\ Revert(Install(pipeline, Candidate), current.name) = pipeline
           /\ Reinstalled(pipeline) = Install(pipeline, Candidate)
  <1>1. current \in DraftRecords /\ Candidate.name = current.name
    BY CandidateEntry DEF IInv, HasDraft
  <1>2. \A e \in pipeline : e.name # current.name
    <2> SUFFICES ASSUME NEW e \in pipeline, e.name = current.name PROVE FALSE
      OBVIOUS
    <2>1. PICK i \in Promotions : log[i].name = e.name
      BY DEF InstalledWerePromoted
    <2>2. log[i].round < iterations /\ current.round = iterations
      BY <2>1 DEF IInv, RoundsOK, Promotions
    <2>3. log[i].round \in Nat /\ iterations \in Nat
      <3>1. log[i] \in LogRecords /\ iterations \in Rounds
        BY <2>1 DEF IInv, TypeOK, Promotions
      <3> QED BY <3>1, LoopAssumption DEF LogRecords, Rounds, LoopAssumption
    <2>4. Superseded(i)
      BY <2>1, <2>2, <2>3 DEF Superseded
    <2> QED BY <2>1, <2>4 DEF Reused
  <1>3. Install(pipeline, Candidate) = pipeline \cup {Candidate}
    BY <1>1, <1>2 DEF Install, Overwritten
  <1> QED BY <1>1, <1>2, <1>3 DEF Revert, Reinstalled

LEMMA InstalledUnlessCrashedStep ==
    ASSUME IInv, InstalledUnlessCrashed, [Next]_vars
    PROVE  InstalledUnlessCrashed'
  <1> SUFFICES ASSUME ~crashed' PROVE InstalledWerePromoted'
    BY DEF InstalledUnlessCrashed
  <1>1. ~crashed
    BY DEF Next, Step, RunBaseline, Diagnose, Hypothesize, StopForPause, StopAtWall,
           AuthorRaises, DraftFor, StaticGate, PassStatic, RejectStatic, SandboxGate,
           EvalDiffGate, Promote, NotEligible, PromoteUnconfirmed, RunConfirm, ConfirmRaises, Attribute,
           IterateAfterPromote, IterateAfterFailure, Rebaseline, Return, Raise, vars
  <1>2. InstalledWerePromoted
    BY <1>1 DEF InstalledUnlessCrashed
  <1> QED BY <1>2, InstalledStep

(* Steps that neither measure nor install anything.                        *)
LEMMA CalmKeepsResults ==
    ASSUME CurInv, ~Reused,
           \/ Diagnose \/ Hypothesize \/ StaticGate \/ SandboxGate
           \/ IterateAfterPromote \/ IterateAfterFailure \/ Rebaseline \/ Return
    PROVE  /\ ~crashed' /\ lastResult' # None => Possible(pipeline', lastResult')
           /\ pending' \notin {"transform.promoted", "transform.eval_diff"}
  <1>1. /\ UNCHANGED <<pipeline, lastResult>> /\ (crashed => crashed')
        /\ pending # "transform.promoted"
        /\ pending' \notin {"transform.promoted", "transform.eval_diff"}
    <2>1. CASE Hypothesize
      BY <2>1 DEF Hypothesize, StopForPause, StopAtWall, AuthorRaises, DraftFor, Raise, Stop,
                  Emit, evalVars
    <2>2. CASE IterateAfterPromote \/ IterateAfterFailure
      BY <2>2 DEF IterateAfterPromote, IterateAfterFailure, EmitNextStep, Stop, Emit, evalVars,
                  Failures
    <2>3. CASE Diagnose \/ StaticGate \/ SandboxGate \/ Rebaseline \/ Return
      BY <2>3 DEF Diagnose, StaticGate, PassStatic, RejectStatic, Raise, SandboxGate,
                  Rebaseline, Return, Emit, evalVars
    <2> QED BY <2>1, <2>2, <2>3
  <1> QED BY <1>1 DEF CurInv, ResultsAreCurrent

LEMMA ResultsStep ==
    ASSUME CurInv, [Next]_vars
    PROVE  TrialsAreExact' /\ ResultsAreCurrent'
  <1> SUFFICES ASSUME ~Reused'
               PROVE  /\ pending' = "transform.eval_diff"
                            => diff'.measured = Install(pipeline', Candidate')
                      /\ ~crashed' /\ lastResult' # None /\ pending' # "transform.promoted"
                            => Possible(pipeline', lastResult')
                      /\ pending' = "transform.promoted" => pipeline' = diff'.measured
    BY DEF TrialsAreExact, ResultsAreCurrent
  <1>1. ~Reused
    BY ReusedStays DEF CurInv
  <1>2. pending \in InGates =>
           /\ Revert(Install(pipeline, Candidate), current.name) = pipeline
           /\ Reinstalled(pipeline) = Install(pipeline, Candidate)
    <2> SUFFICES ASSUME pending \in InGates
                 PROVE  /\ Revert(Install(pipeline, Candidate), current.name) = pipeline
                        /\ Reinstalled(pipeline) = Install(pipeline, Candidate)
      OBVIOUS
    <2>1. InstalledWerePromoted
      BY DEF CurInv, IInv, CrashedEnds, InGates, InstalledUnlessCrashed
    <2> QED BY <1>1, <2>1, TrialLeavesNoTrace DEF CurInv
  <1>3. CASE \/ Diagnose \/ Hypothesize \/ StaticGate \/ SandboxGate
             \/ IterateAfterPromote \/ IterateAfterFailure \/ Rebaseline \/ Return
    BY <1>1, <1>3, CalmKeepsResults
  <1>4. CASE RunBaseline
    <2>1. /\ pending' \notin {"transform.promoted", "transform.eval_diff"}
          /\ UNCHANGED pipeline
          /\ crashed' \/ Possible(pipeline, lastResult')
      BY <1>4 DEF RunBaseline, Raise, Emit, Evaluations
    <2> QED BY <2>1
  <1>5. CASE Attribute
    <2>1. /\ pending' \notin {"transform.promoted", "transform.eval_diff"}
          /\ UNCHANGED pipeline
          /\ crashed' \/ Possible(pipeline, lastResult')
      BY <1>5 DEF Attribute, Record, Raise, Emit, Evaluations
    <2> QED BY <2>1
  <1>6. CASE EvalDiffGate
    <2>1. /\ pending = "transform.sandbox_passed"
          /\ UNCHANGED <<lastResult, current>>
          /\ pipeline' = Revert(Install(pipeline, Candidate), current.name)
          /\ \/ crashed' /\ pending' = "none"
             \/ /\ UNCHANGED crashed /\ pending' = "transform.eval_diff"
                /\ diff'.measured = Install(pipeline, Candidate)
      BY <1>6 DEF EvalDiffGate, LeftAfterTrial, Raise, Emit, evalVars
    <2>2. UNCHANGED pipeline /\ Candidate' = Candidate
      BY <1>2, <2>1 DEF InGates, Candidate
    <2> QED BY <1>1, <2>1, <2>2 DEF CurInv, ResultsAreCurrent
  <1>7. CASE Promote
    <2> DEFINE with == Install(pipeline, Candidate)
               without == Revert(with, current.name)
    <2>1. pending = "transform.eval_diff" /\ UNCHANGED <<lastResult, current, diff>>
      BY <1>7 DEF Promote, evalVars
    <2>2. without = pipeline /\ Reinstalled(without) = with
      BY <1>2, <2>1 DEF InGates
    <2>3. diff.measured = with
      BY <1>1, <2>1 DEF CurInv, TrialsAreExact
    <2> HIDE DEF with, without
    <2>4. \/ pending' = "transform.discarded" /\ UNCHANGED crashed
             /\ pipeline' \in {pipeline, Revert(Reinstalled(without), current.name)}
          \/ pending' = "transform.promoted" /\ pipeline' \in {with, Reinstalled(without)}
          \/ pending' = "none" /\ crashed'
      BY <1>7 DEF Promote, NotEligible, PromoteUnconfirmed, RunConfirm, ConfirmRaises,
                  Discard, Accept, Emit, with, without
    <2>5. Revert(with, current.name) = pipeline
      BY <2>2 DEF without
    <2> QED BY <1>1, <2>1, <2>2, <2>3, <2>4, <2>5 DEF CurInv, ResultsAreCurrent
  <1>8. CASE UNCHANGED vars
    BY <1>1, <1>8 DEF vars, evalVars, CurInv, TrialsAreExact, ResultsAreCurrent, Candidate
  <1> QED BY <1>3, <1>4, <1>5, <1>6, <1>7, <1>8 DEF Next, Step

LEMMA InitCurInv == Init => CurInv
  <1> SUFFICES ASSUME Init PROVE CurInv
    OBVIOUS
  <1>1. lastResult = None /\ pipeline = {} /\ log = <<>> /\ pending = "loop.start"
    BY DEF Init
  <1> QED BY <1>1, InitIInv
          DEF CurInv, LoggedDraft, InstalledUnlessCrashed, InstalledWerePromoted,
              TrialsAreExact, ResultsAreCurrent

LEMMA NextCurInv == CurInv /\ [Next]_vars => CurInv'
  BY NextIInv, LoggedDraftStep, InstalledUnlessCrashedStep, ResultsStep DEF CurInv

(* Unless a promoted name is drafted again, every round starts from, and   *)
(* the run stops on, a result of the pipeline that is installed, and what  *)
(* is promoted is what was measured: for every author, backend, fault and  *)
(* bound.                                                                  *)
THEOREM ResultsStayCurrent == Spec => []ResultsAreCurrent
  <1>1. CurInv => ResultsAreCurrent
    BY DEF CurInv
  <1> QED BY <1>1, InitCurInv, NextCurInv, PTL DEF Spec
-----------------------------------------------------------------------------
(***************************************************************************)
(* The promise.  Of the hypotheses, Steady rules out a backend that        *)
(* changes its answers, so that the measurement after a promotion is the   *)
(* one it was promoted on; a confirm run that raises leaves what it had    *)
(* installed; and a name that is drafted again replaces or reverts what    *)
(* was promoted under it.                                                  *)
(***************************************************************************)
(* The backend answers the same questions over the same pipeline alike.    *)
Steady ==
    /\ \A P \in SUBSET EntryRecords : \A r, s \in Evaluations(P, Qids) : r = s
    /\ IsFiniteSet(Qids) /\ None \notin [Qids -> Labels]

(* What is tried is tried against the last result, and what is promoted    *)
(* was measured to be no worse.                                            *)
Compared ==
    /\ returned => pending = "none"
    /\ pending = "loop.start" => lastResult = None
    /\ pending \notin {"loop.start", "none"} => lastResult \in [Qids -> Labels]
    /\ pending \in {"baseline.recorded", "regime.histogram"} \cup InGates
          => baseline = lastResult
    /\ pending = "transform.eval_diff" => diff.after \in Evaluations(diff.measured, Qids)
    /\ pending = "transform.promoted"
          => /\ diff.after \in Evaluations(diff.measured, Qids)
             /\ Wins(diff.after, Qids) >= Wins(lastResult, Qids)

LEMMA InitCompared == Init => Compared
  BY DEF Init, Compared, InGates

LEMMA NextCompared ==
    ASSUME Compared, [Next]_vars
    PROVE  Compared'
  <1> USE DEF Compared, InGates, Failures, Emit
  <1>1. CASE UNCHANGED vars
    BY <1>1 DEF vars, evalVars, Evaluations
  <1>2. CASE RunBaseline
    BY <1>2 DEF RunBaseline, Raise, Evaluations
  <1>3. CASE Diagnose \/ Rebaseline \/ Return
    BY <1>3 DEF Diagnose, Rebaseline, Return, evalVars
  <1>4. CASE Hypothesize
    BY <1>4 DEF Hypothesize, StopForPause, StopAtWall, AuthorRaises, DraftFor, Raise, Stop,
                evalVars
  <1>5. CASE StaticGate \/ SandboxGate
    BY <1>5 DEF StaticGate, PassStatic, RejectStatic, Raise, SandboxGate, evalVars
  <1>6. CASE EvalDiffGate
    BY <1>6 DEF EvalDiffGate, Raise, evalVars
  <1>7. CASE Promote
    <2>1. /\ UNCHANGED <<baseline, lastResult, diff, returned>> /\ baseline = lastResult
          /\ pending = "transform.eval_diff"
      BY <1>7 DEF Promote, evalVars
    <2>2. \/ pending' \in {"transform.discarded", "none"}
          \/ pending' = "transform.promoted" /\ Eligible
      BY <1>7 DEF Promote, NotEligible, PromoteUnconfirmed, RunConfirm, ConfirmRaises,
                  Discard, Accept
    <2>3. Eligible => Wins(diff.after, Qids) >= Wins(baseline, Qids)
      BY DEF Eligible
    <2> QED BY <2>1, <2>2, <2>3 DEF Evaluations
  <1>8. CASE Attribute
    BY <1>8 DEF Attribute, Raise, Record, Evaluations
  <1>9. CASE IterateAfterPromote \/ IterateAfterFailure
    BY <1>9 DEF IterateAfterPromote, IterateAfterFailure, EmitNextStep, Stop, evalVars
  <1> QED BY <1>1, <1>2, <1>3, <1>4, <1>5, <1>6, <1>7, <1>8, <1>9 DEF Next, Step

(* Wins are counted.                                                       *)
LEMMA WinsCount ==
    ASSUME Steady, NEW r
    PROVE  Wins(r, Qids) \in Nat
  <1>1. {q \in Qids : r[q] = Correct} \subseteq Qids
    OBVIOUS
  <1> QED BY <1>1, FS_Subset, FS_CardinalityType DEF Wins, Steady

(* A draft under a new name is new to the pipeline.                        *)
LEMMA NoEntryOfDraft ==
    ASSUME IInv, InstalledWerePromoted, ~Reused, pending \in InGates
    PROVE  /\ Candidate \notin pipeline
           /\ Install(pipeline, Candidate) = pipeline \cup {Candidate}
  <1>1. current \in DraftRecords /\ Candidate.name = current.name
    BY CandidateEntry DEF IInv, HasDraft
  <1>2. \A e \in pipeline : e.name # current.name
    <2>1. pipeline = Revert(Install(pipeline, Candidate), current.name)
      BY TrialLeavesNoTrace
    <2> QED BY <2>1 DEF Revert
  <1> QED BY <1>1, <1>2 DEF Install, Overwritten

Kept == CurInv /\ Compared

(* A verdict leaves the pipeline alone or makes it grow.                   *)
LEMMA PromotesOrNot ==
    ASSUME Kept, ~Reused, "confirm" \notin Faults, Promote
    PROVE  /\ pending = "transform.eval_diff" /\ UNCHANGED <<lastResult, returned>> /\ ~returned
           /\ \/ pending' = "transform.discarded" /\ UNCHANGED pipeline
              \/ /\ pending' = "transform.promoted"
                 /\ pipeline \subseteq pipeline' /\ pipeline # pipeline'
  <1> DEFINE with == Install(pipeline, Candidate)
             without == Revert(with, current.name)
  <1>1. /\ pending = "transform.eval_diff" /\ UNCHANGED <<lastResult, returned>> /\ ~returned
    BY DEF Promote, evalVars, Kept, Compared
  <1>2. InstalledWerePromoted /\ IInv
    BY <1>1 DEF Kept, CurInv, IInv, CrashedEnds, InstalledUnlessCrashed
  <1>3. without = pipeline /\ Reinstalled(without) = with
    BY <1>1, <1>2, TrialLeavesNoTrace DEF InGates
  <1>4. Candidate \notin pipeline /\ with = pipeline \cup {Candidate}
    BY <1>1, <1>2, NoEntryOfDraft DEF InGates
  <1>5. Revert(with, current.name) = pipeline
    BY <1>3
  <1> HIDE DEF with, without
  <1>6. \/ pending' = "transform.discarded"
             /\ pipeline' \in {pipeline, Revert(Reinstalled(without), current.name)}
        \/ pending' = "transform.promoted" /\ pipeline' \in {with, Reinstalled(without)}
    BY DEF Promote, NotEligible, PromoteUnconfirmed, RunConfirm, ConfirmRaises,
           Discard, Accept, Emit, with, without
  <1> QED BY <1>1, <1>3, <1>4, <1>5, <1>6

(* What the end of a run says of it: nothing has stopped before the chain  *)
(* ends, and a chain that ends by itself has stopped unless it crashed.    *)
EndsAsTold ==
    /\ pending = "loop.start" => baseline = None
    /\ baseline = None => pending = "loop.start" \/ crashed
    /\ pending = "transform.promoted" => \E i \in Promotions : log[i].round = iterations
    /\ ~returned => \A i \in DOMAIN stops : stops[i] # "loop_drained_without_stop"
    /\ pending # "none" => stops = <<>>
    /\ pending = "none" /\ ~returned => (stops = <<>> <=> crashed)

LEMMA InitEndsAsTold == Init => EndsAsTold
  BY DEF Init, EndsAsTold

(* A stop is the first.                                                    *)
LEMMA StopsOnce ==
    ASSUME stops = <<>>, NEW reason \in StopReasons \ {"loop_drained_without_stop"},
           Stop(reason)
    PROVE  /\ pending' = "none" /\ stops' # <<>>
           /\ \A i \in DOMAIN stops' : stops'[i] # "loop_drained_without_stop"
  <1>1. stops' = <<reason>>
    BY DEF Stop
  <1> QED BY <1>1 DEF Stop, Emit

LEMMA NextEndsAsTold ==
    ASSUME Steady, Kept, EndsAsTold, [Next]_vars
    PROVE  EndsAsTold'
  <1> USE DEF EndsAsTold, Emit
  <1>0. /\ returned => pending = "none"
        /\ crashed => pending = "none"
        /\ crashed \in BOOLEAN
        /\ \A r \in Evaluations(pipeline, Qids) : r # None
        /\ pending \notin {"loop.start", "none"} => lastResult # None
    BY DEF Kept, Compared, CurInv, IInv, TypeOK, CrashedEnds, Steady, Evaluations
  <1>1. CASE UNCHANGED vars
    BY <1>1 DEF vars, evalVars, ctlVars, repVars, Promotions
  <1>2. CASE RunBaseline
    BY <1>0, <1>2 DEF RunBaseline, Raise, evalVars, repVars
  <1>3. CASE Diagnose \/ Rebaseline
    BY <1>0, <1>3 DEF Diagnose, Rebaseline, evalVars, repVars
  <1>4. CASE Hypothesize
    <2>1. CASE StopForPause \/ StopAtWall
      <3>1. PICK reason \in StopReasons \ {"loop_drained_without_stop"} : Stop(reason)
        BY <2>1 DEF StopForPause, StopAtWall, StopReasons
      <3>2. /\ stops = <<>> /\ UNCHANGED <<baseline, crashed>> /\ pending = "regime.histogram"
        BY <1>4, <2>1 DEF Hypothesize, StopForPause, StopAtWall, evalVars
      <3> QED BY <1>0, <3>1, <3>2, StopsOnce
    <2>2. CASE AuthorRaises
      BY <1>0, <1>4, <2>2 DEF Hypothesize, AuthorRaises, Raise, evalVars, repVars
    <2>3. ASSUME NEW g \in Reachable, DraftFor(g) PROVE EndsAsTold'
      BY <1>0, <1>4, <2>3 DEF Hypothesize, DraftFor, evalVars, repVars
    <2> QED BY <1>4, <2>1, <2>2, <2>3 DEF Hypothesize
  <1>5. CASE StaticGate \/ SandboxGate
    BY <1>0, <1>5 DEF StaticGate, PassStatic, RejectStatic, Raise, SandboxGate, evalVars,
                      repVars
  <1>6. CASE EvalDiffGate
    BY <1>0, <1>6 DEF EvalDiffGate, Raise, evalVars, repVars
  <1>7. CASE Promote
    <2>1. /\ UNCHANGED <<baseline, stops, returned, iterations, current>>
          /\ pending = "transform.eval_diff"
      BY <1>7 DEF Promote, evalVars
    <2>2. \/ pending' = "transform.discarded" /\ UNCHANGED crashed
          \/ pending' = "none" /\ crashed' = TRUE
          \/ Accept /\ UNCHANGED crashed
      BY <1>7 DEF Promote, NotEligible, PromoteUnconfirmed, RunConfirm, ConfirmRaises,
                  Discard
    <2>3. ASSUME Accept PROVE \E i \in Promotions' : log'[i].round = iterations'
      <3>1. /\ current \in DraftRecords /\ current.target \in Reachable /\ TypeOK
            /\ current.round = iterations
        BY <2>1 DEF Kept, CurInv, IInv, HasDraft, RoundsOK, InGates, DraftRecords
      <3>2. /\ Len(log) + 1 \in DOMAIN log'
            /\ log'[Len(log) + 1].status = "promoted"
            /\ log'[Len(log) + 1].round = current.round
        BY <2>3, <3>1, LogAttemptAppends DEF Accept, Verdicts
      <3> QED BY <2>1, <3>1, <3>2 DEF Promotions
    <2> QED BY <1>0, <2>1, <2>2, <2>3 DEF Accept
  <1>8. CASE Attribute
    BY <1>0, <1>8 DEF Attribute, Raise, Record, evalVars, repVars
  <1>9. CASE IterateAfterPromote \/ IterateAfterFailure
    <2>1. /\ UNCHANGED <<baseline, crashed, returned>> /\ stops = <<>>
          /\ pending \notin {"none", "loop.start"}
          /\ EmitNextStep(exhausted) \/ EmitNextStep(exhausted')
      BY <1>9 DEF IterateAfterPromote, IterateAfterFailure, evalVars, Failures
    <2>2. \/ \E reason \in StopReasons \ {"loop_drained_without_stop"} : Stop(reason)
          \/ pending' = "loop.iterate" /\ UNCHANGED stops
      BY <2>1 DEF EmitNextStep, StopReasons
    <2> QED BY <1>0, <2>1, <2>2, StopsOnce
  <1>10. CASE Return
    BY <1>10 DEF Return, evalVars
  <1> QED BY <1>1, <1>2, <1>3, <1>4, <1>5, <1>6, <1>7, <1>8, <1>9, <1>10 DEF Next, Step

(* A run that breaks down before a verdict of its round had everything     *)
(* measured; so had one that goes on and has no promotion to attribute.    *)
LEMMA MeasuredBefore ==
    ASSUME IInv, EndsAsTold, pending \in BeforeDraft \cup InGates \cup Failures
                                          \cup {"attribution.recorded"},
           pending # "loop.start"
    PROVE  /\ ~Unmeasured
           /\ pending \in BeforeDraft \cup InGates =>
                 \A i \in Promotions : log[i].round # iterations
  <1>1. ~crashed /\ baseline # None /\ pending # "transform.promoted"
    BY DEF IInv, CrashedEnds, EndsAsTold, BeforeDraft, InGates, Failures
  <1>2. pending \in BeforeDraft \cup InGates => \A i \in Promotions : log[i].round # iterations
    <2> SUFFICES ASSUME pending \in BeforeDraft \cup InGates, NEW i \in Promotions
                 PROVE  log[i].round # iterations
      OBVIOUS
    <2>1. log[i].round < iterations /\ log[i] \in LogRecords /\ iterations \in Rounds
      BY DEF IInv, RoundsOK, TypeOK, Promotions
    <2>2. log[i].round \in Nat /\ iterations \in Nat
      BY <2>1, LoopAssumption DEF LogRecords, Rounds, LoopAssumption
    <2> QED BY <2>1, <2>2
  <1> QED BY <1>1, <1>2 DEF Unmeasured

Told == \E i \in DOMAIN stops : stops[i] = "loop_drained_without_stop"

(* Every step of the loop is one of the promise's, or none of its matter.  *)
LEMMA PromiseStep ==
    ASSUME Steady, "confirm" \notin Faults, Kept, EndsAsTold, EndsAsTold', ~Reused,
           [Next]_vars
    PROVE  [Promise!PromiseNext]_(Promise!promiseVars)
  <1> USE DEF Promise!PromiseNext, Promise!promiseVars, Promise!Deploy, Promise!Measure,
              Promise!Fail, Promise!Finish
  <1>0. /\ returned => pending = "none"
        /\ crashed => pending = "none"
        /\ IInv
        /\ ~returned => ~Told
        /\ ~returned' => ~Told'
    BY DEF Kept, Compared, CurInv, IInv, CrashedEnds, EndsAsTold, Told
  <1>B. {Unmeasured, Unmeasured', Told, Told'} \subseteq BOOLEAN
    BY DEF Unmeasured, Told
  <1>1. CASE UNCHANGED vars
    BY <1>1 DEF vars, evalVars, ctlVars, repVars, Unmeasured, Promotions
  <1>2. CASE RunBaseline
    <2>1. /\ ~returned /\ ~crashed /\ UNCHANGED <<pipeline, returned>>
          /\ pending = "loop.start" /\ lastResult = None /\ Unmeasured
          /\ pending' # "transform.promoted"
      BY <1>0, <1>2 DEF RunBaseline, Raise, Emit, Kept, Compared, EndsAsTold, Unmeasured
    <2>2. CASE Raise("eval")
      <3>1. UNCHANGED <<baseline, lastResult>> /\ crashed' = TRUE /\ baseline = None
        BY <1>2, <2>2 DEF RunBaseline, Raise, evalVars, EndsAsTold
      <3>2. Unmeasured'
        BY <3>1 DEF Unmeasured
      <3> QED BY <1>0, <1>B, <2>1, <3>1, <3>2 DEF Told
    <2>3. CASE ~Raise("eval")
      <3>1. /\ UNCHANGED crashed /\ baseline' \in Evaluations(pipeline, Qids)
        BY <1>2, <2>3 DEF RunBaseline
      <3>2. baseline' # None
        BY <3>1 DEF Steady, Evaluations
      <3>3. ~Unmeasured'
        BY <2>1, <3>1, <3>2 DEF Unmeasured
      <3>4. /\ (IF lastResult = None THEN 0 ELSE Wins(lastResult, Qids)) = 0
            /\ (IF lastResult' = None THEN 0 ELSE Wins(lastResult', Qids)) \in Nat
        BY <2>1, WinsCount
      <3>5. (IF lastResult' = None THEN 0 ELSE Wins(lastResult', Qids))
               >= (IF lastResult = None THEN 0 ELSE Wins(lastResult, Qids))
        BY <3>4
      <3> QED BY <1>0, <1>B, <2>1, <3>1, <3>3, <3>5 DEF Told
    <2> QED BY <2>2, <2>3
  <1>3. CASE Return
    <2>1. /\ pending = "none" /\ ~returned /\ returned' = TRUE
          /\ UNCHANGED <<pipeline, lastResult, crashed, baseline, pending, log, iterations>>
          /\ stops' = IF stops = <<>> THEN <<"loop_drained_without_stop">> ELSE stops
      BY <1>3 DEF Return, Backstop, evalVars, ctlVars
    <2>2. Unmeasured => crashed
      BY <2>1 DEF Unmeasured, EndsAsTold
    <2>3. Unmeasured' = Unmeasured
      BY <2>1 DEF Unmeasured, Promotions
    <2>4. Told' <=> crashed
      <3>1. CASE stops = <<>>
        <4>1. stops' = <<"loop_drained_without_stop">> /\ 1 \in DOMAIN stops'
          BY <2>1, <3>1
        <4> QED BY <2>1, <3>1, <4>1 DEF Told, EndsAsTold
      <3>2. CASE stops # <<>>
        BY <1>0, <2>1, <3>2 DEF Told, EndsAsTold
      <3> QED BY <3>1, <3>2
    <2>5. crashed \in BOOLEAN
      BY <1>0 DEF IInv, TypeOK
    <2> QED BY <1>B, <2>1, <2>2, <2>3, <2>4, <2>5 DEF Told
  <1>4. CASE \/ Diagnose \/ Rebaseline \/ Hypothesize \/ StaticGate \/ SandboxGate
             \/ IterateAfterPromote \/ IterateAfterFailure
    <2>1. /\ UNCHANGED <<pipeline, lastResult, returned>>
          /\ pending \notin {"none", "loop.start", "transform.promoted"}
          /\ pending' \notin {"loop.start", "transform.promoted"}
          /\ pending \in BeforeDraft \cup InGates \cup Failures \cup {"attribution.recorded"}
          /\ \/ UNCHANGED crashed
             \/ /\ crashed' = TRUE /\ UNCHANGED <<log, iterations, baseline>>
                /\ pending \in BeforeDraft \cup InGates
      <3> USE DEF BeforeDraft, InGates
      <3>1. CASE Diagnose \/ Rebaseline
        BY <3>1 DEF Diagnose, Rebaseline, Emit, evalVars
      <3>2. CASE Hypothesize
        BY <3>2 DEF Hypothesize, StopForPause, StopAtWall, AuthorRaises, DraftFor, Raise,
                    Stop, Emit, evalVars, ctlVars, repVars
      <3>3. CASE StaticGate \/ SandboxGate
        BY <3>3 DEF StaticGate, PassStatic, RejectStatic, Raise, SandboxGate, Emit, evalVars,
                    ctlVars, repVars
      <3>4. CASE IterateAfterPromote \/ IterateAfterFailure
        BY <3>4 DEF IterateAfterPromote, IterateAfterFailure, EmitNextStep, Stop, Emit,
                    evalVars, Failures
      <3> QED BY <1>4, <3>1, <3>2, <3>3, <3>4
    <2>2. /\ ~Unmeasured /\ ~returned /\ ~crashed
          /\ pending \in BeforeDraft \cup InGates =>
                \A i \in Promotions : log[i].round # iterations
      BY <1>0, <2>1, MeasuredBefore
    <2>3. CASE UNCHANGED crashed
      <3>1. ~Unmeasured'
        BY <2>1, <2>2, <2>3 DEF EndsAsTold, Unmeasured
      <3> QED BY <1>0, <1>B, <2>1, <2>2, <2>3, <3>1 DEF Told
    <2>4. CASE ~UNCHANGED crashed
      <3>1. ~Unmeasured'
        BY <2>1, <2>2, <2>4 DEF Unmeasured, Promotions
      <3> QED BY <1>0, <1>B, <2>1, <2>2, <2>4, <3>1 DEF Told
    <2> QED BY <2>3, <2>4
  <1>5. CASE EvalDiffGate
    <2>1. /\ pending = "transform.sandbox_passed" /\ UNCHANGED <<lastResult, returned>>
          /\ pipeline' = Revert(Install(pipeline, Candidate), current.name)
          /\ pending' \notin {"loop.start", "transform.promoted"}
          /\ UNCHANGED <<log, iterations, baseline>>
          /\ UNCHANGED crashed \/ crashed' = TRUE
      BY <1>5 DEF EvalDiffGate, LeftAfterTrial, Raise, Emit, evalVars, ctlVars, repVars
    <2>2. UNCHANGED pipeline
      BY <2>1, TrialLeavesNoTrace
         DEF Kept, CurInv, IInv, CrashedEnds, InstalledUnlessCrashed, InGates
    <2>3. /\ ~Unmeasured /\ ~returned /\ ~crashed
          /\ \A i \in Promotions : log[i].round # iterations
      BY <1>0, <2>1, MeasuredBefore DEF InGates
    <2>4. ~Unmeasured'
      BY <2>1, <2>3 DEF Unmeasured, Promotions
    <2> QED BY <1>0, <1>B, <2>1, <2>2, <2>3, <2>4 DEF Told
  <1>6. CASE Promote
    <2>1. /\ pending = "transform.eval_diff" /\ UNCHANGED <<lastResult, returned>> /\ ~returned
          /\ \/ pending' = "transform.discarded" /\ UNCHANGED pipeline
             \/ /\ pending' = "transform.promoted"
                /\ pipeline \subseteq pipeline' /\ pipeline # pipeline'
      BY <1>6, PromotesOrNot
    <2>2. ~Unmeasured /\ ~crashed
      BY <1>0, <2>1, MeasuredBefore DEF InGates
    <2>3. UNCHANGED <<baseline, crashed>>
      BY <1>6, <2>1 DEF Promote, NotEligible, PromoteUnconfirmed, RunConfirm, ConfirmRaises,
                        evalVars, Emit
    <2>4. Unmeasured' <=> pending' = "transform.promoted"
      BY <2>2, <2>3 DEF Unmeasured
    <2> QED BY <1>0, <1>B, <2>1, <2>2, <2>3, <2>4 DEF Told
  <1>7. CASE Attribute
    <2>1. /\ pending = "transform.promoted" /\ UNCHANGED <<pipeline, returned>> /\ ~returned
          /\ pending' \notin {"loop.start", "transform.promoted"} /\ ~crashed
          /\ UNCHANGED <<baseline, log, iterations>> /\ Unmeasured
          /\ \/ lastResult' = lastResult /\ crashed' = TRUE
             \/ lastResult' \in Evaluations(pipeline, Qids) /\ UNCHANGED crashed
      BY <1>0, <1>7
         DEF Attribute, Raise, Record, Emit, evalVars, ctlVars, repVars, Unmeasured
    <2>2. /\ pipeline = diff.measured /\ pipeline \in SUBSET EntryRecords
          /\ lastResult \in [Qids -> Labels]
          /\ diff.after \in Evaluations(diff.measured, Qids)
          /\ Wins(diff.after, Qids) >= Wins(lastResult, Qids)
      BY <2>1 DEF Kept, CurInv, ResultsAreCurrent, Compared, IInv, TypeOK
    <2>3. Wins(lastResult, Qids) \in Nat /\ lastResult # None
      BY <2>2, WinsCount DEF Steady
    <2>4. CASE lastResult' = lastResult /\ crashed' = TRUE
      <3>1. Unmeasured'
        BY <2>1, <2>4 DEF Unmeasured, Promotions, EndsAsTold
      <3> QED BY <1>0, <1>B, <2>1, <2>4, <3>1 DEF Told
    <2>5. CASE lastResult' \in Evaluations(pipeline, Qids) /\ UNCHANGED crashed
      <3>1. lastResult' = diff.after
        BY <2>2, <2>5 DEF Steady
      <3>2. lastResult' # None
        BY <2>2, <3>1 DEF Steady, Evaluations
      <3>3. ~Unmeasured'
        BY <2>1, <2>5 DEF Unmeasured, EndsAsTold
      <3> QED BY <1>0, <1>B, <2>1, <2>2, <2>3, <2>5, <3>1, <3>2, <3>3 DEF Told
    <2> QED BY <2>1, <2>4, <2>5
  <1> QED BY <1>1, <1>2, <1>3, <1>4, <1>5, <1>6, <1>7 DEF Next, Step

(* Over a steady backend whose confirm runs do not raise, and unless a     *)
(* promoted name is drafted again, the loop keeps its promise: what is     *)
(* deployed only grows, each deployment is measured before the next one,   *)
(* the score never drops, and the run ends with everything measured or     *)
(* tells its caller that a behavior broke down, whichever of the other     *)
(* calls raises (run_loop).                                                *)
THEOREM PromiseKept ==
    ASSUME Steady, "confirm" \notin Faults
    PROVE  Spec /\ []~Reused => KeepsPromise
  <1>1. Init => Kept /\ EndsAsTold
    BY InitCurInv, InitCompared, InitEndsAsTold DEF Kept
  <1>2. Kept /\ EndsAsTold /\ [Next]_vars => (Kept /\ EndsAsTold)'
    BY NextCurInv, NextCompared, NextEndsAsTold DEF Kept
  <1>3. Init => Promise!PromiseInit
    BY DEF Init, Promise!PromiseInit, Unmeasured
  <1>4. Kept /\ EndsAsTold /\ (Kept /\ EndsAsTold)' /\ ~Reused /\ [Next]_vars
            => [Promise!PromiseNext]_(Promise!promiseVars)
    BY PromiseStep
  <1> QED BY <1>1, <1>2, <1>3, <1>4, PTL DEF Spec, KeepsPromise, Promise!PromiseSpec

-----------------------------------------------------------------------------
Below == {p \in Nat \X Nat : p[1] < p[2]}

\* A set of positions has a first.
LEMMA FirstPosition ==
  ASSUME NEW S, S \subseteq Nat, S # {}
  PROVE  \E i \in S : \A j \in S : i <= j
<1>1. OpToRel(<, Nat) = Below
  BY DEF OpToRel, Below
<1>2. IsWellFoundedOn(Below, Nat)
  BY <1>1, NatLessThanWellFounded
<1>3. PICK i \in S : \A j \in S : <<j, i>> \notin Below
  BY <1>2, WFMin
<1>4. \A j \in S : <<j, i>> \in Nat \X Nat
  BY <1>3
<1>5. \A j \in S : ~ (j < i)
  BY <1>3, <1>4 DEF Below
<1>6. \A j \in S : i <= j
  BY <1>3, <1>5
<1> QED
  BY <1>3, <1>6

-----------------------------------------------------------------------------
(* The judge's report *)

\* n numbers between 1 and n that grow are 1 to n.
LEMMA GrowingIsIdentity ==
  ASSUME NEW n \in Nat, NEW f, \A i \in 1 .. n : f[i] \in 1 .. n,
         \A i, j \in 1 .. n : i < j => f[i] < f[j]
  PROVE  \A i \in 1 .. n : f[i] = i
<1>1. \A i \in 1 .. n : f[i] >= i
  <2> DEFINE low == {i \in 1 .. n : f[i] < i}
  <2> SUFFICES ASSUME low # {}  PROVE FALSE
    OBVIOUS
  <2>0. low \subseteq Nat
    OBVIOUS
  <2>1. PICK i \in low : \A j \in low : i <= j
    BY <2>0, FirstPosition
  <2>2. i \in 1 .. n /\ f[i] < i /\ f[i] \in 1 .. n
    BY <2>1
  <2>3. i - 1 \in 1 .. n /\ i - 1 < i
    BY <2>2
  <2>4. f[i - 1] < f[i] /\ f[i - 1] \in 1 .. n
    BY <2>2, <2>3
  <2>5. i - 1 \in low
    BY <2>2, <2>3, <2>4
  <2> QED
    BY <2>1, <2>2, <2>5
<1>2. \A i \in 1 .. n : f[i] <= i
  <2> DEFINE high == {m \in 0 .. n : m < n /\ f[n - m] > n - m}
  <2> SUFFICES ASSUME NEW k \in 1 .. n, f[k] > k  PROVE FALSE
    OBVIOUS
  <2>1. n - (n - k) = k /\ n - k \in 0 .. n /\ n - k < n
    OBVIOUS
  <2>2. n - k \in high
    BY <2>1
  <2>3. high \subseteq Nat
    OBVIOUS
  <2>4. PICK m \in high : \A j \in high : m <= j
    BY <2>2, <2>3, FirstPosition
  <2>5. m \in 0 .. n /\ m < n /\ n - m \in 1 .. n /\ f[n - m] > n - m /\ f[n - m] \in 1 .. n
    BY <2>4
  <2>6. m # 0
    BY <2>5
  <2>7. n - (m - 1) \in 1 .. n /\ n - m < n - (m - 1) /\ m - 1 \in 0 .. n /\ m - 1 < n
    BY <2>5, <2>6
  <2>8. f[n - m] < f[n - (m - 1)] /\ f[n - (m - 1)] \in 1 .. n
    BY <2>5, <2>7
  <2>9. m - 1 \in high
    BY <2>5, <2>7, <2>8
  <2>10. m <= m - 1
    BY <2>4, <2>9
  <2> QED
    BY <2>5, <2>10
<1>3. \A i \in 1 .. n : f[i] \in Int
  OBVIOUS
<1> QED
  BY <1>1, <1>2, <1>3

\* A report about n questions: a line each at most, and in their order if
\* some line does not name its question.
Legible(file, n) ==
  /\ n \in Nat /\ Len(file) \in 0 .. n /\ DOMAIN file = 1 .. Len(file)
  /\ \A i \in DOMAIN file : file[i].about \in 1 .. n
  /\ \A i, j \in DOMAIN file : file[i].about = file[j].about => i = j
  /\ (\E i \in DOMAIN file : ~file[i].named)
       => \A i, j \in DOMAIN file : i < j => file[i].about < file[j].about

LEMMA EmptyIsLegible ==
  ASSUME NEW n \in Nat
  PROVE  Legible(<<>>, n)
BY DEF Legible

LEMMA ReportsAreLegible ==
  ASSUME NEW n \in Nat, NEW file \in Reports(n)
  PROVE  Legible(file, n)
<1> DEFINE line == [about : 1 .. n, named : BOOLEAN, label : RawLabel]
<1>1. PICK m \in 0 .. n : file \in [1 .. m -> line]
  BY DEF Reports
<1>2. m \in Nat /\ DOMAIN file = 1 .. m /\ Len(file) = m
  BY <1>1
<1>3. \A i \in DOMAIN file : file[i].about \in 1 .. n
  BY <1>1
<1>4. LET about == [i \in DOMAIN file |-> file[i].about]
      IN  /\ IsInjective(about)
          /\ (\E i \in DOMAIN file : ~file[i].named)
                => \A i, j \in DOMAIN file : i < j => about[i] < about[j]
  BY DEF Reports
<1>5. \A i, j \in DOMAIN file : file[i].about = file[j].about => i = j
  BY <1>4 DEF IsInjective
<1>6. (\E i \in DOMAIN file : ~file[i].named)
        => \A i, j \in DOMAIN file : i < j => file[i].about < file[j].about
  BY <1>4
<1> QED
  BY <1>2, <1>3, <1>5, <1>6 DEF Legible

\* A line is taken for a verdict on the question it is one on.
LEMMA LinesFindTheirQuestion ==
  ASSUME NEW n, Legible(report, n),
         Len(report) = n \/ \A i \in DOMAIN report : report[i].named
  PROVE  \A i \in DOMAIN report : QuestionOf(i) = report[i].about
<1>1. CASE \A i \in DOMAIN report : report[i].named
  BY <1>1 DEF QuestionOf
<1>2. CASE Len(report) = n /\ \E i \in DOMAIN report : ~report[i].named
  <2> DEFINE f == [i \in 1 .. n |-> report[i].about]
  <2>1. n \in Nat /\ DOMAIN report = 1 .. n
    BY <1>2 DEF Legible
  <2>2. \A i \in 1 .. n : f[i] \in 1 .. n
    BY <2>1 DEF Legible
  <2>3. \A i, j \in 1 .. n : i < j => f[i] < f[j]
    BY <1>2, <2>1 DEF Legible
  <2> HIDE DEF f
  <2>4. \A i \in 1 .. n : f[i] = i
    BY <2>1, <2>2, <2>3, GrowingIsIdentity
  <2>5. \A i \in 1 .. n : report[i].about = i
    BY <2>4 DEF f
  <2> QED
    BY <2>1, <2>5 DEF QuestionOf
<1> QED
  BY <1>1, <1>2

LEMMA VerdictIsOwn ==
  ASSUME NEW n, Legible(report, n),
         Len(report) = n \/ \A i \in DOMAIN report : report[i].named,
         NEW k
  PROVE  Verdict(k) <=> \E i \in DOMAIN report : report[i].about = k /\ report[i].label \in Truthy
<1> DEFINE lines == {i \in DOMAIN report : QuestionOf(i) = k}
<1>1. lines = {i \in DOMAIN report : report[i].about = k}
  BY LinesFindTheirQuestion
<1>2. \A i, j \in lines : i = j
  BY <1>1 DEF Legible
<1>3. CASE lines = {}
  BY <1>1, <1>3 DEF Verdict
<1>4. ASSUME NEW i \in lines
      PROVE  Verdict(k) <=> \E l \in DOMAIN report : report[l].about = k /\ report[l].label \in Truthy
  <2>1. i \in Nat
    <3>1. i \in DOMAIN report
      BY <1>4
    <3>2. DOMAIN report = 1 .. Len(report)
      BY DEF Legible
    <3> QED
      BY <3>1, <3>2
  <2>2. \A j \in lines : j <= i
    BY <1>2, <2>1
  <2>3. (CHOOSE l \in lines : \A j \in lines : j <= l) = i
    BY <1>2, <1>4, <2>2
  <2>4. Verdict(k) <=> report[i].label \in Truthy
    BY <1>4, <2>3 DEF Verdict
  <2> QED
    BY <1>1, <1>2, <1>4, <2>4
<1> QED
  BY <1>3, <1>4

-----------------------------------------------------------------------------
(* The taxonomy *)

\* A registry: names in an order, each once, with one that takes everything.
Registry(names) ==
  /\ Len(names) \in Nat /\ DOMAIN names = 1 .. Len(names)
  /\ \A i, j \in DOMAIN names : names[i] = names[j] => i = j
  /\ \E i \in DOMAIN names : names[i] = "unclassified"

LEMMA BuiltInIsRegistry ==
  Registry(PRIORITY)
BY DEF Registry, PRIORITY

LEMMA Joined ==
  ASSUME NEW S, NEW a \in Seq(S), NEW b \in Seq(S)
  PROVE  /\ a \o b \in Seq(S) /\ Len(a \o b) = Len(a) + Len(b)
         /\ DOMAIN (a \o b) = 1 .. Len(a) + Len(b)
         /\ \A i \in 1 .. Len(a) + Len(b) : (a \o b)[i] = IF i <= Len(a) THEN a[i] ELSE b[i - Len(a)]
OBVIOUS

LEMMA InsertedAt ==
  ASSUME NEW S, NEW s \in Seq(S), NEW at \in 1 .. Len(s) + 1, NEW e \in S,
         NEW t, t = InsertAt(s, at, e)
  PROVE  /\ t \in Seq(S) /\ Len(t) = Len(s) + 1 /\ DOMAIN t = 1 .. Len(s) + 1
         /\ \A i \in 1 .. Len(s) + 1 : t[i] = IF i < at THEN s[i] ELSE IF i = at THEN e ELSE s[i - 1]
<1> DEFINE front == SubSeq(s, 1, at - 1)
<1> DEFINE back == SubSeq(s, at, Len(s))
<1>1. Len(s) \in Nat /\ at \in Nat /\ at >= 1 /\ at <= Len(s) + 1
  OBVIOUS
<1>2. /\ front \in Seq(S) /\ Len(front) = at - 1
      /\ \A i \in 1 .. at - 1 : front[i] = s[i]
  BY <1>1
<1>3. /\ back \in Seq(S) /\ Len(back) = Len(s) - at + 1
      /\ \A i \in 1 .. Len(s) - at + 1 : back[i] = s[at + i - 1]
  BY <1>1
<1> HIDE DEF front, back
<1> DEFINE head == front \o <<e>>
<1>4. /\ head \in Seq(S) /\ Len(head) = at
      /\ \A i \in 1 .. at : head[i] = IF i < at THEN s[i] ELSE e
  <2>1. /\ head \in Seq(S) /\ Len(head) = Len(front) + 1
        /\ \A i \in 1 .. Len(front) + 1 : head[i] = IF i <= Len(front) THEN front[i] ELSE e
    BY <1>2
  <2> QED
    BY <1>1, <1>2, <2>1
<1> HIDE DEF head
<1>0. t = head \o back
  BY DEF InsertAt, head, front, back
<1>5. /\ t \in Seq(S) /\ Len(t) = Len(head) + Len(back) /\ DOMAIN t = 1 .. Len(head) + Len(back)
      /\ \A i \in 1 .. Len(head) + Len(back) : t[i] = IF i <= Len(head) THEN head[i] ELSE back[i - Len(head)]
  <2>1. head \in Seq(S) /\ back \in Seq(S)
    BY <1>3, <1>4
  <2> DEFINE both == head \o back
  <2>2. /\ both \in Seq(S) /\ Len(both) = Len(head) + Len(back) /\ DOMAIN both = 1 .. Len(head) + Len(back)
        /\ \A i \in 1 .. Len(head) + Len(back) : both[i] = IF i <= Len(head) THEN head[i] ELSE back[i - Len(head)]
    BY <2>1, Joined
  <2> HIDE DEF both
  <2>3. t = both
    BY <1>0 DEF both
  <2> QED
    BY <2>2, <2>3
<1>6. Len(head) + Len(back) = Len(s) + 1
  BY <1>1, <1>3, <1>4
<1>8. ASSUME NEW i \in 1 .. Len(s) + 1
      PROVE  t[i] = IF i < at THEN s[i] ELSE IF i = at THEN e ELSE s[i - 1]
  <2>1. CASE i <= at
    BY <1>1, <1>4, <1>5, <1>6, <2>1
  <2>2. CASE i > at
    <3>1. i - at \in 1 .. Len(s) - at + 1 /\ at + (i - at) - 1 = i - 1
      BY <1>1, <2>2
    <3>2. back[i - at] = s[i - 1]
      BY <1>3, <3>1
    <3> QED
      BY <1>1, <1>4, <1>5, <1>6, <2>2, <3>2
  <2> QED
    BY <1>1, <2>1, <2>2
<1> QED
  BY <1>5, <1>6, <1>8

\* A name that is not registered yet can be.
LEMMA RegisteredIsRegistry ==
  ASSUME NEW names, Registry(names), names \in Seq(ToSet(names)),
         NEW name, NEW after, name \notin ToSet(names)
  PROVE  /\ Registry(Registered(names, name, after))
         /\ Registered(names, name, after) \in Seq(ToSet(Registered(names, name, after)))
<1> DEFINE at == IF after \in ToSet(names)
                 THEN CHOOSE i \in DOMAIN names : names[i] = after
                 ELSE Len(names)
<1> DEFINE S == ToSet(names) \cup {name}
<1>1. Len(names) \in Nat /\ DOMAIN names = 1 .. Len(names)
  BY DEF Registry
<1>2. at \in Nat /\ at + 1 \in 1 .. Len(names) + 1
  <2>1. CASE after \in ToSet(names)
    <3>1. \E i \in DOMAIN names : names[i] = after
      BY <2>1 DEF ToSet
    <3>2. at \in DOMAIN names
      BY <2>1, <3>1
    <3> QED
      BY <1>1, <3>2
  <2>2. CASE after \notin ToSet(names)
    BY <1>1, <2>2
  <2> QED
    BY <2>1, <2>2
<1>3. Registered(names, name, after) = InsertAt(names, at + 1, name)
  BY DEF Registered
<1> HIDE DEF at
<1>4. names \in Seq(S) /\ name \in S
  OBVIOUS
<1> HIDE DEF S
<1> DEFINE new == InsertAt(names, at + 1, name)
<1>5. /\ new \in Seq(S) /\ Len(new) = Len(names) + 1 /\ DOMAIN new = 1 .. Len(names) + 1
      /\ \A i \in 1 .. Len(names) + 1 :
           new[i] = IF i < at + 1 THEN names[i] ELSE IF i = at + 1 THEN name ELSE names[i - 1]
  <2>1. \A place \in 1 .. Len(names) + 1 : \A t : t = InsertAt(names, place, name) =>
          /\ t \in Seq(S) /\ Len(t) = Len(names) + 1 /\ DOMAIN t = 1 .. Len(names) + 1
          /\ \A i \in 1 .. Len(names) + 1 :
               t[i] = IF i < place THEN names[i] ELSE IF i = place THEN name ELSE names[i - 1]
    BY <1>4, InsertedAt
  <2> QED
    BY <1>2, <2>1
<1> HIDE DEF new
<1>6. \A i \in DOMAIN names : names[i] # name
  BY DEF ToSet
<1>7. \A i \in DOMAIN new :
        \/ i = at + 1 /\ new[i] = name
        \/ i < at + 1 /\ i \in DOMAIN names /\ new[i] = names[i]
        \/ i > at + 1 /\ i - 1 \in DOMAIN names /\ new[i] = names[i - 1]
  BY <1>1, <1>2, <1>5
<1>8. \A i, j \in DOMAIN new : new[i] = new[j] => i = j
  <2> SUFFICES ASSUME NEW i \in DOMAIN new, NEW j \in DOMAIN new, new[i] = new[j]
               PROVE  i = j
    OBVIOUS
  <2>1. i \in Nat /\ j \in Nat
    BY <1>1, <1>5
  <2>2. \A k, l \in DOMAIN names : names[k] = names[l] => k = l
    BY DEF Registry
  <2> QED
    BY <1>2, <1>6, <1>7, <2>1, <2>2
<1>9. \E i \in DOMAIN new : new[i] = "unclassified"
  <2>1. PICK i \in DOMAIN names : names[i] = "unclassified"
    BY DEF Registry
  <2>2. CASE i < at + 1
    <3>1. i \in DOMAIN new /\ new[i] = names[i]
      BY <1>1, <1>2, <1>5, <2>2
    <3> QED
      BY <2>1, <3>1
  <2>3. CASE ~ (i < at + 1)
    <3>1. i + 1 \in DOMAIN new /\ new[i + 1] = names[i]
      BY <1>1, <1>2, <1>5, <2>3
    <3> QED
      BY <2>1, <3>1
  <2> QED
    BY <2>2, <2>3
<1>10. Len(new) \in Nat /\ DOMAIN new = 1 .. Len(new)
  BY <1>1, <1>5
<1>11. new \in Seq(ToSet(new))
  BY <1>5 DEF ToSet
<1> QED
  BY <1>3, <1>8, <1>9, <1>10, <1>11 DEF Registry, new

\* A failure is of the first regime whose detector has it.
LEMMA ClassifiedFirst ==
  ASSUME NEW names, Registry(names), NEW o
  PROVE  \E i \in DOMAIN names : Classify(names, o) = names[i] /\ Detects(names[i], o)
<1> DEFINE hits == {i \in DOMAIN names : Detects(names[i], o)}
<1>1. DOMAIN names \subseteq Nat
  BY DEF Registry
<1>2. PICK u \in DOMAIN names : names[u] = "unclassified"
  BY DEF Registry
<1>3. Detects("unclassified", o)
  BY DEF Detects
<1>4. u \in hits
  BY <1>2, <1>3
<1>5. PICK i \in hits : \A j \in hits : i <= j
  BY <1>1, <1>4, FirstPosition
<1>6. \A j \in 1 .. (i - 1) : ~Detects(names[j], o)
  <2> SUFFICES ASSUME NEW j \in 1 .. (i - 1), Detects(names[j], o)  PROVE FALSE
    OBVIOUS
  <2>1. i \in 1 .. Len(names) /\ Len(names) \in Nat /\ DOMAIN names = 1 .. Len(names)
    BY DEF Registry
  <2>2. j \in hits /\ ~ (i <= j)
    BY <2>1
  <2> QED
    BY <1>5, <2>2
<1> DEFINE First(l) == Detects(names[l], o) /\ \A j \in 1 .. (l - 1) : ~Detects(names[j], o)
<1>7. \E l \in DOMAIN names : First(l)
  BY <1>5, <1>6
<1>8. (CHOOSE l \in DOMAIN names : First(l)) \in DOMAIN names /\ First(CHOOSE l \in DOMAIN names : First(l))
  BY <1>7
<1>9. Classify(names, o) = names[CHOOSE l \in DOMAIN names : First(l)]
  BY DEF Classify
<1> QED
  BY <1>8, <1>9

\* What was never retrieved is not recoverable, wherever regimes are
\* registered.
LEMMA WallsStay ==
  ASSUME NEW names, Registry(names), NEW o, o.marked # {},
         \A i \in DOMAIN o.ranked : o.ranked[i] \in o.marked => i > WellRankedK
  PROVE  Classify(names, o) \notin ReachableRegimes
<1>1. WellRanked(o) = {}
  <2>1. \A i \in DOMAIN o.ranked \cap (1 .. WellRankedK) : ~ (i > WellRankedK)
    BY TaxonomyAssumption
  <2> QED
    BY <2>1 DEF WellRanked, GoldTurns
<1>2. /\ ~detect_budget_truncation(o) /\ ~detect_assembly_crowding(o) /\ ~detect_assemble_internal(o)
  BY <1>1 DEF detect_budget_truncation, detect_assembly_crowding, detect_assemble_internal
<1>3. \A g \in ReachableRegimes : ~Detects(g, o)
  BY <1>2 DEF ReachableRegimes, Detects
<1> QED
  BY <1>3, ClassifiedFirst

\* A failure is in one row, a success in none.
LEMMA CountedOnce ==
  ASSUME NEW names, Registry(names), NEW results, NEW k \in DOMAIN results
  PROVE  LET rows == Histogram(names, results) IN
         Cardinality({i \in DOMAIN rows : k \in rows[i]}) = IF results[k].correct THEN 0 ELSE 1
<1> DEFINE rows == Histogram(names, results)
<1> DEFINE mine == {i \in DOMAIN rows : k \in rows[i]}
<1>1. /\ DOMAIN rows = DOMAIN names
      /\ \A i \in DOMAIN names :
           k \in rows[i] <=> ~results[k].correct /\ Classify(names, results[k]) = names[i]
  BY DEF Histogram, InRow
<1> HIDE DEF rows
<1>2. CASE results[k].correct
  <2>1. mine = {}
    BY <1>1, <1>2
  <2>2. Cardinality(mine) = 0
    BY <2>1, FS_EmptySet
  <2> QED
    BY <1>2, <2>2 DEF rows
<1>3. CASE ~results[k].correct
  <2>1. PICK i \in DOMAIN names : Classify(names, results[k]) = names[i]
    BY ClassifiedFirst
  <2>2. \A j \in DOMAIN names : names[j] = names[i] => j = i
    BY DEF Registry
  <2>3. mine = {i}
    BY <1>1, <1>3, <2>1, <2>2
  <2>4. Cardinality(mine) = 1
    BY <2>3, FS_Singleton
  <2> QED
    BY <1>3, <2>4 DEF rows
<1> QED
  BY <1>2, <1>3

-----------------------------------------------------------------------------
(* Folds *)

\* it is a fold of F over the subsets of D, from base, picking by pick.
Folds(it, D, base, pick, F) ==
  \A s \in SUBSET D :
    it[s] = IF s = {} THEN base ELSE F[<<it[s \ {pick[s]}], pick[s]>>]

\* Up to n elements.
FoldsUpTo(it, n, D, base, pick, F) ==
  \A s \in SUBSET D : Cardinality(s) <= n =>
    it[s] = IF s = {} THEN base ELSE F[<<it[s \ {pick[s]}], pick[s]>>]

\* There is one: what is defined on small sets extends to the larger ones.
LEMMA FoldExists ==
  ASSUME NEW D, IsFiniteSet(D), NEW X, NEW base \in X, NEW pick, NEW F \in [X \X D -> X],
         \A s \in SUBSET D : s # {} => pick[s] \in s
  PROVE  \E it \in [SUBSET D -> X] : Folds(it, D, base, pick, F)
<1> DEFINE P(n) == \E it \in [SUBSET D -> X] : FoldsUpTo(it, n, D, base, pick, F)
<1>1. \A s \in SUBSET D :
        /\ IsFiniteSet(s) /\ Cardinality(s) \in Nat /\ Cardinality(s) <= Cardinality(D)
        /\ Cardinality(s) = 0 <=> s = {}
        /\ s # {} => /\ s \ {pick[s]} \in SUBSET D /\ pick[s] \in D
                     /\ Cardinality(s \ {pick[s]}) = Cardinality(s) - 1
  <2> SUFFICES ASSUME NEW s \in SUBSET D
               PROVE  /\ IsFiniteSet(s) /\ Cardinality(s) \in Nat /\ Cardinality(s) <= Cardinality(D)
                      /\ Cardinality(s) = 0 <=> s = {}
                      /\ s # {} => /\ s \ {pick[s]} \in SUBSET D /\ pick[s] \in D
                                   /\ Cardinality(s \ {pick[s]}) = Cardinality(s) - 1
    OBVIOUS
  <2>1. IsFiniteSet(s) /\ Cardinality(s) <= Cardinality(D)
    BY FS_Subset
  <2>2. Cardinality(s) \in Nat /\ (Cardinality(s) = 0 <=> s = {})
    BY <2>1, FS_CardinalityType, FS_EmptySet
  <2>3. s # {} => /\ s \ {pick[s]} \in SUBSET D /\ pick[s] \in D
                  /\ Cardinality(s \ {pick[s]}) = Cardinality(s) - 1
    BY <2>1, FS_RemoveElement
  <2> QED
    BY <2>1, <2>2, <2>3
<1>2. P(0)
  <2>1. [s \in SUBSET D |-> base] \in [SUBSET D -> X]
    OBVIOUS
  <2>2. FoldsUpTo([s \in SUBSET D |-> base], 0, D, base, pick, F)
    <3> SUFFICES ASSUME NEW s \in SUBSET D, Cardinality(s) <= 0  PROVE s = {}
      BY DEF FoldsUpTo
    <3>1. Cardinality(s) \in Nat /\ (Cardinality(s) = 0 <=> s = {})
      BY <1>1
    <3> QED
      BY <3>1
  <2> QED
    BY <2>1, <2>2
<1>3. ASSUME NEW n \in Nat, P(n)  PROVE P(n + 1)
  <2>1. PICK it \in [SUBSET D -> X] : FoldsUpTo(it, n, D, base, pick, F)
    BY <1>3
  <2> DEFINE next == [s \in SUBSET D |-> IF s = {} THEN base
                                         ELSE F[<<it[s \ {pick[s]}], pick[s]>>]]
  <2>2. next \in [SUBSET D -> X]
    <3> SUFFICES ASSUME NEW s \in SUBSET D, s # {}
                 PROVE  F[<<it[s \ {pick[s]}], pick[s]>>] \in X
      OBVIOUS
    <3>1. <<it[s \ {pick[s]}], pick[s]>> \in X \X D
      BY <1>1
    <3> QED
      BY <3>1
  <2>3. \A s \in SUBSET D : Cardinality(s) <= n => next[s] = it[s]
    BY <2>1 DEF FoldsUpTo
  <2>4. FoldsUpTo(next, n + 1, D, base, pick, F)
    <3> SUFFICES ASSUME NEW s \in SUBSET D, Cardinality(s) <= n + 1, s # {}
                 PROVE  next[s] = F[<<next[s \ {pick[s]}], pick[s]>>]
      BY DEF FoldsUpTo
    <3> DEFINE u == s \ {pick[s]}
    <3>1. u \in SUBSET D /\ Cardinality(u) = Cardinality(s) - 1 /\ Cardinality(s) \in Nat
      BY <1>1
    <3> HIDE DEF u
    <3>2. u \in SUBSET D /\ Cardinality(u) <= n
      BY <3>1
    <3>3. next[u] = it[u]
      BY <2>3, <3>2
    <3> QED
      BY <3>3 DEF u
  <2> HIDE DEF next
  <2> QED
    BY <2>2, <2>4
<1>4. P(Cardinality(D))
  <2> DEFINE bad == {n \in Nat : ~ P(n)}
  <2> HIDE DEF P
  <2> SUFFICES ASSUME bad # {}  PROVE FALSE
    BY <1>1
  <2>1. PICK n \in bad : \A m \in bad : n <= m
    BY FirstPosition
  <2>2. n \in Nat /\ ~ P(n) /\ n # 0
    BY <1>2, <2>1
  <2>3. n - 1 \in Nat /\ n - 1 \notin bad /\ (n - 1) + 1 = n
    BY <2>1, <2>2
  <2> QED
    BY <1>3, <2>2, <2>3
<1>5. PICK it \in [SUBSET D -> X] : FoldsUpTo(it, Cardinality(D), D, base, pick, F)
  BY <1>4
<1>6. Folds(it, D, base, pick, F)
  BY <1>1, <1>5 DEF Folds, FoldsUpTo
<1> QED
  BY <1>5, <1>6

\* The first i of n positions, and without the last of them.
LEMMA FirstPositions ==
  ASSUME NEW n \in Nat, NEW i \in 1 .. n
  PROVE  /\ i - 1 \in 0 .. n /\ 1 .. i \in SUBSET (1 .. n) /\ 1 .. i # {}
         /\ Max(1 .. i) = i /\ (1 .. i) \ {Max(1 .. i)} = 1 .. (i - 1)
<1>1. i \in Nat \ {0} /\ i <= n /\ i \in 1 .. i /\ i - 1 \in 0 .. n
  OBVIOUS
<1>2. \A j \in 1 .. i : j \in 1 .. n /\ i >= j
  BY <1>1
<1>3. Max(1 .. i) = i
  <2>1. \A x \in 1 .. i : (\A y \in 1 .. i : x >= y) => x = i
    BY <1>1
  <2> QED
    BY <1>1, <1>2, <2>1 DEF Max
<1>4. (1 .. i) \ {i} = 1 .. (i - 1)
  BY <1>1
<1> QED
  BY <1>1, <1>2, <1>3, <1>4

\* A set of positions has a last.
LEMMA MaxOfSome ==
  ASSUME NEW n \in Nat, NEW s \in SUBSET (1 .. n), s # {}
  PROVE  Max(s) \in s
<1> DEFINE back == {n - i : i \in s}
<1>1. back \subseteq Nat /\ back # {}
  <2>1. \A i \in s : n - i \in Nat
    OBVIOUS
  <2> QED
    BY <2>1
<1>2. PICK m \in back : \A j \in back : m <= j
  BY <1>1, FirstPosition
<1>3. PICK i \in s : m = n - i
  BY <1>2
<1>4. \A j \in s : i >= j
  <2> SUFFICES ASSUME NEW j \in s  PROVE i >= j
    OBVIOUS
  <2>1. n - i <= n - j
    BY <1>2, <1>3
  <2> QED
    BY <2>1
<1> QED
  BY <1>4 DEF Max

\* it is a fold of F over n positions, from the first to the last.
FoldsPositions(it, n, base, F) ==
  \A s \in SUBSET (1 .. n) :
    it[s] = IF s = {} THEN base ELSE F[<<it[s \ {Max(s)}], Max(s)>>]

\* There is one over any number of positions.
LEMMA FoldOverPositions ==
  ASSUME NEW n \in Nat, NEW X, NEW base \in X, NEW F \in [X \X (1 .. n) -> X]
  PROVE  \E it \in [SUBSET (1 .. n) -> X] : FoldsPositions(it, n, base, F)
<1> DEFINE pick == [s \in SUBSET (1 .. n) |-> Max(s)]
<1>1. \A s \in SUBSET (1 .. n) : s # {} => pick[s] \in s
  BY MaxOfSome
<1>2. IsFiniteSet(1 .. n)
  BY FS_Interval
<1>3. PICK it \in [SUBSET (1 .. n) -> X] : Folds(it, 1 .. n, base, pick, F)
  <2> HIDE DEF pick
  <2> QED
    BY <1>1, <1>2, FoldExists
<1> QED
  BY <1>3 DEF Folds, FoldsPositions

-----------------------------------------------------------------------------
(* Sorting *)

\* R orders S strictly and totally.
Orders(R, S) ==
  /\ \A t \in S : <<t, t>> \notin R
  /\ \A t, u \in S : t # u => <<t, u>> \in R \/ <<u, t>> \in R
  /\ \A t, u, v \in S : <<t, u>> \in R /\ <<u, v>> \in R => <<t, v>> \in R

\* A sorted sequence has each element once, in order: where an element stands
\* is the number of those before it, and no two have the same.
LEMMA SortedIs ==
  ASSUME NEW S, IsFiniteSet(S), NEW R, Orders(R, S)
  PROVE  /\ Cardinality(S) \in Nat /\ Sorted(S, R) \in [1 .. Cardinality(S) -> S]
         /\ \A t \in S : \E k \in 1 .. Cardinality(S) : Sorted(S, R)[k] = t
         /\ \A i, j \in 1 .. Cardinality(S) :
               i < j => <<Sorted(S, R)[i], Sorted(S, R)[j]>> \in R
<1> DEFINE n == Cardinality(S)
           before(t) == {u \in S : <<u, t>> \in R}
           place == [t \in S |-> Cardinality(before(t))]
<1>1. n \in Nat
  BY FS_CardinalityType
<1>2. ASSUME NEW t \in S  PROVE IsFiniteSet(before(t)) /\ place[t] \in 0 .. (n - 1)
  <2>1. before(t) \in SUBSET S /\ before(t) # S
    BY DEF Orders
  <2>2. IsFiniteSet(before(t)) /\ Cardinality(before(t)) <= n /\ Cardinality(before(t)) # n
    BY <2>1, FS_Subset
  <2>3. Cardinality(before(t)) \in Nat
    BY <2>2, FS_CardinalityType
  <2>4. place[t] = Cardinality(before(t))
    OBVIOUS
  <2> HIDE DEF place, before
  <2> QED
    BY <1>1, <2>2, <2>3, <2>4
<1>3. ASSUME NEW t \in S, NEW u \in S, <<u, t>> \in R  PROVE place[u] < place[t]
  <2>1. before(u) \in SUBSET before(t) /\ u \in before(t) /\ u \notin before(u)
    BY <1>3 DEF Orders
  <2>2. Cardinality(before(u)) <= Cardinality(before(t))
        /\ (Cardinality(before(u)) = Cardinality(before(t)) => before(u) = before(t))
    BY <1>2, <2>1, FS_Subset
  <2>3. place[t] = Cardinality(before(t)) /\ place[u] = Cardinality(before(u))
    OBVIOUS
  <2>4. place[t] \in 0 .. (n - 1) /\ place[u] \in 0 .. (n - 1)
    BY <1>2
  <2> HIDE DEF place, before
  <2> QED
    BY <1>1, <2>1, <2>2, <2>3, <2>4
<1> DEFINE f == Sorted(S, R)
<1>4. \A k \in 1 .. n : (\E t \in S : place[t] = k - 1) => f[k] \in S /\ place[f[k]] = k - 1
  <2> SUFFICES ASSUME NEW k \in 1 .. n, NEW t \in S, place[t] = k - 1
               PROVE  f[k] \in S /\ place[f[k]] = k - 1
    OBVIOUS
  <2>1. f[k] = CHOOSE u \in S : Cardinality(before(u)) = k - 1
    BY DEF Sorted
  <2>2. f[k] \in S /\ Cardinality(before(f[k])) = k - 1
    BY <2>1
  <2> QED
    BY <2>2
<1> DEFINE g(k) == CHOOSE t \in S : Cardinality({u \in S : <<u, t>> \in R}) = k - 1
<1>5. f = [k \in 1 .. n |-> g(k)]
  BY DEF Sorted
<1>6. \A t \in S : place[t] \in 0 .. (n - 1)
  BY <1>2
<1>7. \A t, u \in S : <<u, t>> \in R => place[u] < place[t]
  BY <1>3
<1>8. place \in [S -> 0 .. (n - 1)]
  BY <1>6
<1> HIDE DEF place, before, f, g
<1>9. \A t, u \in S : place[t] = place[u] => t = u
  <2> SUFFICES ASSUME NEW t \in S, NEW u \in S, place[t] = place[u]  PROVE t = u
    OBVIOUS
  <2>1. ~ (place[t] < place[u]) /\ ~ (place[u] < place[t])
    BY <1>1, <1>6
  <2> QED
    BY <1>7, <2>1 DEF Orders
<1>10. place \in Surjection(S, 0 .. (n - 1))
  <2>1. IsFiniteSet(0 .. (n - 1)) /\ Cardinality(0 .. (n - 1)) = n
    BY <1>1, FS_Interval
  <2>2. place \in Injection(S, 0 .. (n - 1))
    BY <1>8, <1>9 DEF Injection, IsInjective
  <2> QED
    BY <2>1, <2>2, FS_Injection
<1>11. \A k \in 1 .. n : f[k] \in S /\ place[f[k]] = k - 1
  <2> SUFFICES ASSUME NEW k \in 1 .. n  PROVE f[k] \in S /\ place[f[k]] = k - 1
    OBVIOUS
  <2>1. k - 1 \in 0 .. (n - 1)
    BY <1>1
  <2>2. \E t \in S : place[t] = k - 1
    BY <1>10, <2>1 DEF Surjection
  <2> QED
    BY <1>4, <2>2
<1>12. \A t \in S : \E k \in 1 .. n : f[k] = t
  <2> SUFFICES ASSUME NEW t \in S  PROVE \E k \in 1 .. n : f[k] = t
    OBVIOUS
  <2>1. place[t] + 1 \in 1 .. n /\ (place[t] + 1) - 1 = place[t]
    BY <1>1, <1>6
  <2>2. f[place[t] + 1] = t
    BY <1>9, <1>11, <2>1
  <2> QED
    BY <2>1, <2>2
<1>13. \A i, j \in 1 .. n : i < j => <<f[i], f[j]>> \in R
  <2> SUFFICES ASSUME NEW i \in 1 .. n, NEW j \in 1 .. n, i < j  PROVE <<f[i], f[j]>> \in R
    OBVIOUS
  <2>1. f[i] \in S /\ f[j] \in S /\ place[f[i]] = i - 1 /\ place[f[j]] = j - 1
    BY <1>11
  <2>2. f[i] # f[j] /\ ~ (place[f[j]] < place[f[i]])
    BY <2>1
  <2> QED
    BY <1>7, <2>1, <2>2 DEF Orders
<1>14. f \in [1 .. n -> S]
  BY <1>5, <1>11
<1> QED
  BY <1>1, <1>12, <1>13, <1>14 DEF f

\* What holds at the start and passes from each position to the next holds at all.
Passes(J, n) == 0 \in J /\ \A i \in 1 .. n : i - 1 \in J => i \in J

LEMMA StepByStep ==
  ASSUME NEW n \in Nat, NEW J, Passes(J, n)
  PROVE  \A i \in 0 .. n : i \in J
<1> DEFINE out == {i \in 0 .. n : i \notin J}
<1> SUFFICES ASSUME out # {}  PROVE FALSE
  OBVIOUS
<1>1. out \subseteq Nat
  OBVIOUS
<1>2. PICK i \in out : \A j \in out : i <= j
  BY <1>1, FirstPosition
<1>3. i \in 1 .. n /\ i \notin J
  BY <1>2 DEF Passes
<1>4. i - 1 \in 0 .. n /\ ~ (i <= i - 1)
  BY <1>3
<1> QED
  BY <1>2, <1>3, <1>4 DEF Passes

\* The seeding, turn by turn.
SeedsBy(walk, n, q, scores) ==
  /\ walk[0] = NothingYet
  /\ \A i \in 1 .. n : walk[i] = Seed(q, scores, walk[i - 1], Ranked(scores)[i])
  /\ Seeding(q, scores) = walk[n]

LEMMA SeedingWalks ==
  ASSUME NEW q, NEW scores, NEW n \in Nat, Ranked(scores) \in [1 .. n -> Turn],
         NEW X, NothingYet \in X,
         \A w \in X : \A t \in Turn : Seed(q, scores, w, t) \in X
  PROVE  \E walk : SeedsBy(walk, n, q, scores)
<1> DEFINE r == Ranked(scores)
<1> DEFINE step(w, t) == Using(w, LAMBDA v : Seed(q, scores, v, t))
<1> DEFINE F == [p \in X \X (1 .. n) |-> Seed(q, scores, p[1], r[p[2]])]
<1> DEFINE table(iter) == [s \in SUBSET (1 .. n) |-> IF s = {} THEN NothingYet
                                                     ELSE step(iter[s \ {Max(s)}], r[Max(s)])]
<1>1. \A w, t : step(w, t) = Seed(q, scores, w, t)
  BY DEF Using
<1>2. F \in [X \X (1 .. n) -> X]
  OBVIOUS
<1>3. \A w \in X : \A i \in 1 .. n : F[<<w, i>>] = step(w, r[i])
  BY <1>1
<1>4. Seeding(q, scores) = (CHOOSE iter : iter = table(iter))[1 .. n]
  <2>1. DOMAIN r = 1 .. n
    OBVIOUS
  <2> QED
    BY <2>1 DEF FoldLeft, MapThenFoldSet, Seeding
<1>5. r \in [1 .. n -> Turn]
  OBVIOUS
<1> HIDE DEF step, F, r
<1>6. PICK it \in [SUBSET (1 .. n) -> X] : FoldsPositions(it, n, NothingYet, F)
  BY <1>2, FoldOverPositions
<1>7. it = table(it)
  <2>1. ASSUME NEW s \in SUBSET (1 .. n), s # {}  PROVE it[s] = step(it[s \ {Max(s)}], r[Max(s)])
    <3>1. Max(s) \in 1 .. n /\ s \ {Max(s)} \in SUBSET (1 .. n)
      BY <2>1, MaxOfSome
    <3>2. it[s \ {Max(s)}] \in X
      BY <3>1
    <3> QED
      BY <1>3, <1>6, <2>1, <3>1, <3>2 DEF FoldsPositions
  <2>2. \A s \in SUBSET (1 .. n) : it[s] = table(it)[s]
    BY <1>6, <2>1 DEF FoldsPositions
  <2> QED
    BY <2>2
<1> DEFINE iter == CHOOSE x : x = table(x)
<1>8. iter = table(iter)
  BY <1>7
<1> HIDE DEF iter
<1>9. iter[{}] = NothingYet /\ \A s \in SUBSET (1 .. n) : s # {} =>
        iter[s] = step(iter[s \ {Max(s)}], r[Max(s)])
  BY <1>8
<1> HIDE DEF table
<1> DEFINE walk == [i \in 0 .. n |-> iter[1 .. i]]
<1>10. walk[0] = NothingYet
  BY <1>9
<1>11. ASSUME NEW i \in 1 .. n  PROVE walk[i] = Seed(q, scores, walk[i - 1], r[i])
  <2>1. /\ i - 1 \in 0 .. n /\ 1 .. i \in SUBSET (1 .. n) /\ 1 .. i # {}
        /\ Max(1 .. i) = i /\ (1 .. i) \ {Max(1 .. i)} = 1 .. (i - 1)
    BY FirstPositions
  <2>2. iter[1 .. i] = Seed(q, scores, iter[1 .. (i - 1)], r[i])
    BY <1>1, <1>9, <2>1
  <2> QED
    BY <2>1, <2>2
<1>12. walk[n] = iter[1 .. n]
  OBVIOUS
<1> HIDE DEF walk
<1> QED
  BY <1>4, <1>10, <1>11, <1>12 DEF iter, table, r, SeedsBy

\* The expansion, neighbour by neighbour.
ExpandsBy(walk, n, q, scores, seeded) ==
  /\ walk[0] = seeded
  /\ \A i \in 1 .. n :
       walk[i] = TryAdd(q, walk[i - 1], Chronological(Targets(scores, seeded))[i], "expand")
  /\ Expand(q, scores, seeded) = walk[n]

LEMMA ExpansionWalks ==
  ASSUME NEW q, NEW scores, NEW seeded, NEW n \in Nat,
         Chronological(Targets(scores, seeded)) \in [1 .. n -> Turn], NEW X, seeded \in X,
         \A w \in X : \A t \in Turn : TryAdd(q, w, t, "expand") \in X
  PROVE  \E walk : ExpandsBy(walk, n, q, scores, seeded)
<1> DEFINE r == Chronological(Targets(scores, seeded))
<1> DEFINE step(w, t) == Using(w, LAMBDA v : TryAdd(q, v, t, "expand"))
<1> DEFINE F == [p \in X \X (1 .. n) |-> TryAdd(q, p[1], r[p[2]], "expand")]
<1> DEFINE table(iter) == [s \in SUBSET (1 .. n) |-> IF s = {} THEN seeded
                                                     ELSE step(iter[s \ {Max(s)}], r[Max(s)])]
<1>1. \A w, t : step(w, t) = TryAdd(q, w, t, "expand")
  BY DEF Using
<1>2. F \in [X \X (1 .. n) -> X]
  OBVIOUS
<1>3. \A w \in X : \A i \in 1 .. n : F[<<w, i>>] = step(w, r[i])
  BY <1>1
<1>4. Expand(q, scores, seeded) = (CHOOSE iter : iter = table(iter))[1 .. n]
  <2>1. DOMAIN r = 1 .. n
    OBVIOUS
  <2> QED
    BY <2>1 DEF FoldLeft, MapThenFoldSet, Expand
<1>5. r \in [1 .. n -> Turn]
  OBVIOUS
<1> HIDE DEF step, F, r
<1>6. PICK it \in [SUBSET (1 .. n) -> X] : FoldsPositions(it, n, seeded, F)
  BY <1>2, FoldOverPositions
<1>7. it = table(it)
  <2>1. ASSUME NEW s \in SUBSET (1 .. n), s # {}  PROVE it[s] = step(it[s \ {Max(s)}], r[Max(s)])
    <3>1. Max(s) \in 1 .. n /\ s \ {Max(s)} \in SUBSET (1 .. n)
      BY <2>1, MaxOfSome
    <3>2. it[s \ {Max(s)}] \in X
      BY <3>1
    <3> QED
      BY <1>3, <1>6, <2>1, <3>1, <3>2 DEF FoldsPositions
  <2>2. \A s \in SUBSET (1 .. n) : it[s] = table(it)[s]
    BY <1>6, <2>1 DEF FoldsPositions
  <2> QED
    BY <2>2
<1> DEFINE iter == CHOOSE x : x = table(x)
<1>8. iter = table(iter)
  BY <1>7
<1> HIDE DEF iter
<1>9. iter[{}] = seeded /\ \A s \in SUBSET (1 .. n) : s # {} =>
        iter[s] = step(iter[s \ {Max(s)}], r[Max(s)])
  BY <1>8
<1> HIDE DEF table
<1> DEFINE walk == [i \in 0 .. n |-> iter[1 .. i]]
<1>10. walk[0] = seeded
  BY <1>9
<1>11. ASSUME NEW i \in 1 .. n  PROVE walk[i] = TryAdd(q, walk[i - 1], r[i], "expand")
  <2>1. /\ i - 1 \in 0 .. n /\ 1 .. i \in SUBSET (1 .. n) /\ 1 .. i # {}
        /\ Max(1 .. i) = i /\ (1 .. i) \ {Max(1 .. i)} = 1 .. (i - 1)
    BY FirstPositions
  <2>2. iter[1 .. i] = TryAdd(q, iter[1 .. (i - 1)], r[i], "expand")
    BY <1>1, <1>9, <2>1
  <2> QED
    BY <2>1, <2>2
<1>12. walk[n] = iter[1 .. n]
  OBVIOUS
<1> HIDE DEF walk
<1> QED
  BY <1>4, <1>10, <1>11, <1>12 DEF iter, table, r, ExpandsBy

\* The pipeline, transform by transform.
PipesBy(walk, n, scores, fs) ==
  /\ walk[0] = Untouched(scores)
  /\ \A i \in 1 .. n : walk[i] = Piped(walk[i - 1], fs[i])
  /\ ApplyPipeline(fs, scores) = walk[n]

LEMMA PipelineWalks ==
  ASSUME NEW scores, NEW S, NEW fs, fs # <<>>, NEW n \in Nat, fs \in [1 .. n -> S],
         NEW X, Untouched(scores) \in X,
         \A w \in X : \A t \in S : Piped(w, t) \in X
  PROVE  \E walk : PipesBy(walk, n, scores, fs)
<1> DEFINE r == fs
<1> DEFINE step(w, t) == Using(w, LAMBDA v : Piped(v, t))
<1> DEFINE F == [p \in X \X (1 .. n) |-> Piped(p[1], r[p[2]])]
<1> DEFINE table(iter) == [s \in SUBSET (1 .. n) |-> IF s = {} THEN Untouched(scores)
                                                     ELSE step(iter[s \ {Max(s)}], r[Max(s)])]
<1>1. \A w, t : step(w, t) = Piped(w, t)
  BY DEF Using
<1>2. F \in [X \X (1 .. n) -> X]
  OBVIOUS
<1>3. \A w \in X : \A i \in 1 .. n : F[<<w, i>>] = step(w, r[i])
  BY <1>1
<1>4. ApplyPipeline(fs, scores) = (CHOOSE iter : iter = table(iter))[1 .. n]
  <2>1. DOMAIN r = 1 .. n
    OBVIOUS
  <2> QED
    BY <2>1 DEF FoldLeft, MapThenFoldSet, ApplyPipeline
<1>5. r \in [1 .. n -> S]
  OBVIOUS
<1> HIDE DEF step, F, r
<1>6. PICK it \in [SUBSET (1 .. n) -> X] : FoldsPositions(it, n, Untouched(scores), F)
  BY <1>2, FoldOverPositions
<1>7. it = table(it)
  <2>1. ASSUME NEW s \in SUBSET (1 .. n), s # {}  PROVE it[s] = step(it[s \ {Max(s)}], r[Max(s)])
    <3>1. Max(s) \in 1 .. n /\ s \ {Max(s)} \in SUBSET (1 .. n)
      BY <2>1, MaxOfSome
    <3>2. it[s \ {Max(s)}] \in X
      BY <3>1
    <3> QED
      BY <1>3, <1>6, <2>1, <3>1, <3>2 DEF FoldsPositions
  <2>2. \A s \in SUBSET (1 .. n) : it[s] = table(it)[s]
    BY <1>6, <2>1 DEF FoldsPositions
  <2> QED
    BY <2>2
<1> DEFINE iter == CHOOSE x : x = table(x)
<1>8. iter = table(iter)
  BY <1>7
<1> HIDE DEF iter
<1>9. iter[{}] = Untouched(scores) /\ \A s \in SUBSET (1 .. n) : s # {} =>
        iter[s] = step(iter[s \ {Max(s)}], r[Max(s)])
  BY <1>8
<1> HIDE DEF table
<1> DEFINE walk == [i \in 0 .. n |-> iter[1 .. i]]
<1>10. walk[0] = Untouched(scores)
  BY <1>9
<1>11. ASSUME NEW i \in 1 .. n  PROVE walk[i] = Piped(walk[i - 1], r[i])
  <2>1. /\ i - 1 \in 0 .. n /\ 1 .. i \in SUBSET (1 .. n) /\ 1 .. i # {}
        /\ Max(1 .. i) = i /\ (1 .. i) \ {Max(1 .. i)} = 1 .. (i - 1)
    BY FirstPositions
  <2>2. iter[1 .. i] = Piped(iter[1 .. (i - 1)], r[i])
    BY <1>1, <1>9, <2>1
  <2> QED
    BY <2>1, <2>2
<1>12. walk[n] = iter[1 .. n]
  OBVIOUS
<1> HIDE DEF walk
<1> QED
  BY <1>4, <1>10, <1>11, <1>12 DEF iter, table, r, PipesBy

\* The fallback, input by input.
EmbedsBy(walk, n, q, call, inputs) ==
  /\ walk[0] = NoVectors
  /\ \A i \in 1 .. n : walk[i] = EmbedAlone(q, walk[i - 1], inputs[i])
  /\ Embed(q, call, inputs) = walk[n]

LEMMA EmbeddingWalks ==
  ASSUME NEW q, NEW call, call \in q.fault.calls, NEW S,
         NEW inputs, NEW n \in Nat, inputs \in [1 .. n -> S],
         NEW X, NoVectors \in X,
         \A w \in X : \A x \in S : EmbedAlone(q, w, x) \in X
  PROVE  \E walk : EmbedsBy(walk, n, q, call, inputs)
<1> DEFINE r == inputs
<1> DEFINE step(w, t) == Using(w, LAMBDA v : EmbedAlone(q, v, t))
<1> DEFINE F == [p \in X \X (1 .. n) |-> EmbedAlone(q, p[1], r[p[2]])]
<1> DEFINE table(iter) == [s \in SUBSET (1 .. n) |-> IF s = {} THEN NoVectors
                                                     ELSE step(iter[s \ {Max(s)}], r[Max(s)])]
<1>1. \A w, t : step(w, t) = EmbedAlone(q, w, t)
  BY DEF Using
<1>2. F \in [X \X (1 .. n) -> X]
  OBVIOUS
<1>3. \A w \in X : \A i \in 1 .. n : F[<<w, i>>] = step(w, r[i])
  BY <1>1
<1>4. Embed(q, call, inputs) = (CHOOSE iter : iter = table(iter))[1 .. n]
  <2>1. DOMAIN r = 1 .. n
    OBVIOUS
  <2> QED
    BY <2>1 DEF FoldLeft, MapThenFoldSet, Embed
<1>5. r \in [1 .. n -> S]
  OBVIOUS
<1> HIDE DEF step, F, r
<1>6. PICK it \in [SUBSET (1 .. n) -> X] : FoldsPositions(it, n, NoVectors, F)
  BY <1>2, FoldOverPositions
<1>7. it = table(it)
  <2>1. ASSUME NEW s \in SUBSET (1 .. n), s # {}  PROVE it[s] = step(it[s \ {Max(s)}], r[Max(s)])
    <3>1. Max(s) \in 1 .. n /\ s \ {Max(s)} \in SUBSET (1 .. n)
      BY <2>1, MaxOfSome
    <3>2. it[s \ {Max(s)}] \in X
      BY <3>1
    <3> QED
      BY <1>3, <1>6, <2>1, <3>1, <3>2 DEF FoldsPositions
  <2>2. \A s \in SUBSET (1 .. n) : it[s] = table(it)[s]
    BY <1>6, <2>1 DEF FoldsPositions
  <2> QED
    BY <2>2
<1> DEFINE iter == CHOOSE x : x = table(x)
<1>8. iter = table(iter)
  BY <1>7
<1> HIDE DEF iter
<1>9. iter[{}] = NoVectors /\ \A s \in SUBSET (1 .. n) : s # {} =>
        iter[s] = step(iter[s \ {Max(s)}], r[Max(s)])
  BY <1>8
<1> HIDE DEF table
<1> DEFINE walk == [i \in 0 .. n |-> iter[1 .. i]]
<1>10. walk[0] = NoVectors
  BY <1>9
<1>11. ASSUME NEW i \in 1 .. n  PROVE walk[i] = EmbedAlone(q, walk[i - 1], r[i])
  <2>1. /\ i - 1 \in 0 .. n /\ 1 .. i \in SUBSET (1 .. n) /\ 1 .. i # {}
        /\ Max(1 .. i) = i /\ (1 .. i) \ {Max(1 .. i)} = 1 .. (i - 1)
    BY FirstPositions
  <2>2. iter[1 .. i] = EmbedAlone(q, iter[1 .. (i - 1)], r[i])
    BY <1>1, <1>9, <2>1
  <2> QED
    BY <2>1, <2>2
<1>12. walk[n] = iter[1 .. n]
  OBVIOUS
<1> HIDE DEF walk
<1> QED
  BY <1>4, <1>10, <1>11, <1>12 DEF iter, table, r, EmbedsBy

-----------------------------------------------------------------------------
(* Sums *)

Total(c, T) == MapThenSumSet(LAMBDA x : c[x], T)

AnyOf(s) == CHOOSE x \in s : TRUE

\* The elements of a finite set are taken away one by one.
LEMMA TakenAway ==
  ASSUME NEW D, IsFiniteSet(D), NEW s \in SUBSET D
  PROVE  /\ IsFiniteSet(s) /\ Cardinality(s) \in Nat
         /\ \A x \in s : s \ {x} \in SUBSET D /\ Cardinality(s \ {x}) = Cardinality(s) - 1
<1>1. IsFiniteSet(s)
  BY FS_Subset
<1>2. Cardinality(s) \in Nat
  BY <1>1, FS_CardinalityType
<1>3. \A x \in s : Cardinality(s \ {x}) = Cardinality(s) - 1
  BY <1>1, FS_RemoveElement
<1> QED
  BY <1>1, <1>2, <1>3

\* Two functions on the subsets of D agree if they do on {} and wherever they
\* agree on what an element less leaves.
LEMMA AgreeingTables ==
  ASSUME NEW D, IsFiniteSet(D), NEW g, NEW h, g[{}] = h[{}],
         \A s \in SUBSET D : s # {} /\ g[s \ {AnyOf(s)}] = h[s \ {AnyOf(s)}] => g[s] = h[s]
  PROVE  \A s \in SUBSET D : g[s] = h[s]
<1> DEFINE bad == {n \in Nat : \E s \in SUBSET D : Cardinality(s) = n /\ g[s] # h[s]}
<1>1. ASSUME bad # {}  PROVE FALSE
  <2>1. bad \subseteq Nat
    OBVIOUS
  <2>2. PICK n \in bad : \A m \in bad : n <= m
    BY <1>1, <2>1, FirstPosition
  <2>3. PICK s \in SUBSET D : Cardinality(s) = n /\ g[s] # h[s]
    BY <2>2
  <2>4. s # {} /\ AnyOf(s) \in s
    BY <2>3 DEF AnyOf
  <2> DEFINE u == s \ {AnyOf(s)}
  <2>5. u \in SUBSET D /\ Cardinality(u) = n - 1 /\ Cardinality(u) \in Nat
    BY <2>3, <2>4, TakenAway
  <2>6. g[u] # h[u]
    BY <2>3, <2>4
  <2> HIDE DEF u
  <2>7. n - 1 \in bad /\ n \in Nat
    BY <2>2, <2>5, <2>6
  <2> QED
    BY <2>2, <2>7
<1> SUFFICES ASSUME NEW s \in SUBSET D, g[s] # h[s]  PROVE FALSE
  OBVIOUS
<1>2. Cardinality(s) \in Nat
  BY TakenAway
<1> QED
  BY <1>1, <1>2

\* g holds the sums of c over the subsets of D.
Totals(g, D, c) ==
  /\ g[{}] = 0
  /\ \A s \in SUBSET D : s # {} => g[s] = c[AnyOf(s)] + g[s \ {AnyOf(s)}]
  /\ \A T \in SUBSET D : Total(c, T) = g[T]

LEMMA TotalsExist ==
  ASSUME NEW D, IsFiniteSet(D), NEW c \in [D -> Int]
  PROVE  \E g \in [SUBSET D -> Int] : Totals(g, D, c)
<1> DEFINE pick == [s \in SUBSET D |-> AnyOf(s)]
<1> DEFINE F == [p \in Int \X D |-> c[p[2]] + p[1]]
<1>1. \A s \in SUBSET D : s # {} => pick[s] \in s
  BY DEF AnyOf
<1>2. F \in [Int \X D -> Int]
  OBVIOUS
<1>3. PICK g \in [SUBSET D -> Int] : Folds(g, D, 0, pick, F)
  <2> DEFINE zero == 0
  <2>1. zero \in Int
    OBVIOUS
  <2> HIDE DEF pick, F, zero
  <2>2. \E g \in [SUBSET D -> Int] : Folds(g, D, zero, pick, F)
    BY <1>1, <1>2, <2>1, FoldExists
  <2> QED
    BY <2>2 DEF zero
<1>4. g[{}] = 0 /\ \A s \in SUBSET D : s # {} => g[s] = c[AnyOf(s)] + g[s \ {AnyOf(s)}]
  <2>1. ASSUME NEW s \in SUBSET D, s # {}  PROVE g[s] = c[AnyOf(s)] + g[s \ {AnyOf(s)}]
    <3>1. AnyOf(s) \in D /\ s \ {AnyOf(s)} \in SUBSET D
      BY <1>1, <2>1
    <3>2. g[s] = F[<<g[s \ {AnyOf(s)}], AnyOf(s)>>]
      BY <1>3, <2>1 DEF Folds
    <3> QED
      BY <3>1, <3>2
  <2> QED
    BY <1>3, <2>1 DEF Folds
<1> HIDE DEF F, pick
<1>5. ASSUME NEW T \in SUBSET D  PROVE Total(c, T) = g[T]
  <2> DEFINE table(iter) == [s \in SUBSET T |-> IF s = {} THEN 0
                                                ELSE c[AnyOf(s)] + iter[s \ {AnyOf(s)}]]
  <2>1. Total(c, T) = (CHOOSE iter : iter = table(iter))[T]
    BY DEF Total, MapThenSumSet, MapThenFoldSet, AnyOf
  <2> DEFINE part == [s \in SUBSET T |-> g[s]]
  <2>2. part = table(part)
    <3>1. \A s \in SUBSET T : s \in SUBSET D /\ s \ {AnyOf(s)} \in SUBSET T
      OBVIOUS
    <3>2. \A s \in SUBSET T : part[s] = table(part)[s]
      BY <1>4, <3>1
    <3> QED
      BY <3>2
  <2> DEFINE iter == CHOOSE x : x = table(x)
  <2>3. iter = table(iter)
    BY <2>2
  <2> HIDE DEF iter, part
  <2>4. iter[{}] = 0 /\ \A s \in SUBSET T : s # {} => iter[s] = c[AnyOf(s)] + iter[s \ {AnyOf(s)}]
    BY <2>3
  <2>5. IsFiniteSet(T)
    BY FS_Subset
  <2>6. \A s \in SUBSET T : iter[s] = g[s]
    <3>1. iter[{}] = g[{}]
      BY <1>4, <2>4
    <3>2. ASSUME NEW s \in SUBSET T, s # {}, iter[s \ {AnyOf(s)}] = g[s \ {AnyOf(s)}]
          PROVE  iter[s] = g[s]
      BY <1>4, <2>4, <3>2
    <3> QED
      BY <2>5, <3>1, <3>2, AgreeingTables
  <2> QED
    BY <2>1, <2>6 DEF iter
<1> QED
  BY <1>3, <1>4, <1>5 DEF Totals

\* Where an element is left out, the sum is less by what it counts.
LEMMA TotalWithout ==
  ASSUME NEW D, IsFiniteSet(D), NEW c \in [D -> Int]
  PROVE  /\ Total(c, {}) = 0
         /\ \A T \in SUBSET D : Total(c, T) \in Int
         /\ \A T \in SUBSET D : \A x \in T : Total(c, T) = Total(c, T \ {x}) + c[x]
<1>1. PICK g \in [SUBSET D -> Int] : Totals(g, D, c)
  BY TotalsExist
<1>2. /\ g[{}] = 0
      /\ \A s \in SUBSET D : s # {} => g[s] = c[AnyOf(s)] + g[s \ {AnyOf(s)}]
      /\ \A T \in SUBSET D : Total(c, T) = g[T]
  BY <1>1 DEF Totals
<1> DEFINE bad == {n \in Nat : \E s \in SUBSET D : Cardinality(s) = n
                                 /\ \E x \in s : g[s] # g[s \ {x}] + c[x]}
<1>3. ASSUME bad # {}  PROVE FALSE
  <2>1. bad \subseteq Nat
    OBVIOUS
  <2>2. PICK n \in bad : \A m \in bad : n <= m
    BY <1>3, <2>1, FirstPosition
  <2>3. PICK s \in SUBSET D : Cardinality(s) = n /\ \E x \in s : g[s] # g[s \ {x}] + c[x]
    BY <2>2
  <2>4. PICK x \in s : g[s] # g[s \ {x}] + c[x]
    BY <2>3
  <2> DEFINE p == AnyOf(s)
             u == s \ {p}
             v == s \ {x}
             w == s \ {p, x}
  <2>5. s # {} /\ p \in s
    BY <2>4 DEF AnyOf
  <2>6. g[s] = c[p] + g[u]
    BY <1>2, <2>5
  <2> HIDE DEF p
  <2>7. p # x
    <3> SUFFICES ASSUME p = x  PROVE FALSE
      OBVIOUS
    <3>1. g[s] = c[x] + g[v]
      BY <2>6
    <3>2. g[v] \in Int /\ c[x] \in Int
      BY <2>5
    <3> QED
      BY <2>4, <3>1, <3>2
  <2>8. /\ u \in SUBSET D /\ Cardinality(u) = n - 1 /\ n - 1 \in Nat /\ x \in u /\ u \ {x} = w
        /\ v \in SUBSET D /\ Cardinality(v) = n - 1 /\ p \in v /\ v \ {p} = w /\ w \in SUBSET D
    <3>1. u \in SUBSET D /\ x \in u /\ u \ {x} = w /\ v \in SUBSET D /\ p \in v /\ v \ {p} = w
          /\ w \in SUBSET D
      BY <2>5, <2>7
    <3>2. Cardinality(u) = n - 1 /\ Cardinality(v) = n - 1
      BY <2>3, <2>5, TakenAway
    <3>3. Cardinality(u) \in Nat
      BY <3>1, TakenAway
    <3> QED
      BY <3>1, <3>2, <3>3
  <2> HIDE DEF u, v, w
  <2>9. n - 1 \notin bad
    BY <2>2
  <2>10. g[u] = g[w] + c[x] /\ g[v] = g[w] + c[p]
    BY <2>8, <2>9
  <2>11. g[u] \in Int /\ g[v] \in Int /\ g[w] \in Int /\ c[x] \in Int /\ c[p] \in Int
    BY <2>5, <2>8
  <2>12. g[s] # g[v] + c[x]
    BY <2>4 DEF v
  <2> QED
    BY <2>6, <2>10, <2>11, <2>12
<1>4. ASSUME NEW T \in SUBSET D, NEW x \in T  PROVE g[T] = g[T \ {x}] + c[x]
  <2>1. Cardinality(T) \in Nat
    BY TakenAway
  <2> QED
    BY <1>3, <2>1
<1>5. \A T \in SUBSET D : \A x \in T : Total(c, T) = Total(c, T \ {x}) + c[x]
  <2>1. \A T \in SUBSET D : \A x \in T : T \ {x} \in SUBSET D
    OBVIOUS
  <2> QED
    BY <1>2, <1>4, <2>1
<1> QED
  BY <1>2, <1>5

-----------------------------------------------------------------------------
(* Assembling the context *)

LEMMA TurnsAreFinite ==
  IsFiniteSet(Turn)
<1> DEFINE n == Len(Turns)
<1>1. n \in Nat /\ DOMAIN Turns = 1 .. n /\ IsFiniteSet(1 .. n)
  BY CorpusAssumption, FS_Interval
<1>2. Turns \in Surjection(1 .. n, Turn)
  BY <1>1, CorpusAssumption DEF Surjection, Turn, ToSet
<1> HIDE DEF n
<1> QED
  BY <1>1, <1>2, FS_Surjection

Mark == [turn : Turn, included : BOOLEAN,
         why : {"seed", "expand", "budget", "zero_score_post_seed"}]

Walked == [selected : SUBSET Turn, running : Int, truncated : BOOLEAN, decisions : Seq(Mark),
           seeds : Nat, over : BOOLEAN]

\* t is in the context, or does not fit.
Settled(q, w, t) == t \in w.selected \/ w.running + q.cost[t] > Budget

\* The count is that of the context and within the budget, and what was
\* dropped at the budget is out and does not fit.
Packed(q, w) ==
  /\ w \in Walked
  /\ w.running = Total(q.cost, w.selected) /\ w.running <= Budget
  /\ \A i \in DOMAIN w.decisions : w.decisions[i].why = "budget" =>
       w.decisions[i].turn \notin w.selected /\ w.running + q.cost[w.decisions[i].turn] > Budget

LEMMA NothingIsPacked ==
  ASSUME NEW q, q.cost \in [Turn -> Nat]
  PROVE  Packed(q, NothingYet)
<1>1. q.cost \in [Turn -> Int]
  OBVIOUS
<1>2. Total(q.cost, {}) = 0
  BY <1>1, TurnsAreFinite, TotalWithout
<1>3. NothingYet \in Walked /\ NothingYet.running = 0 /\ NothingYet.selected = {}
      /\ NothingYet.decisions = <<>>
  BY DEF NothingYet, Walked
<1> QED
  BY <1>2, <1>3, CorpusAssumption DEF Packed

\* d is w with one decision more.
Noted(d, w, mark) ==
  /\ d \in Walked
  /\ d.selected = w.selected /\ d.running = w.running
  /\ d.seeds = w.seeds /\ d.over = w.over
  /\ \A i \in DOMAIN d.decisions :
       (i \in DOMAIN w.decisions /\ d.decisions[i] = w.decisions[i]) \/ d.decisions[i] = mark

LEMMA DecisionIsNoted ==
  ASSUME NEW w \in Walked, NEW t \in Turn, NEW included \in BOOLEAN,
         NEW why \in {"seed", "expand", "budget", "zero_score_post_seed"},
         NEW d, d = Decide(w, t, included, why)
  PROVE  Noted(d, w, [turn |-> t, included |-> included, why |-> why])
<1> DEFINE mark == [turn |-> t, included |-> included, why |-> why]
<1>1. mark \in Mark /\ w.decisions \in Seq(Mark)
  BY DEF Mark, Walked
<1>2. d = [w EXCEPT !.decisions = Append(w.decisions, mark)]
  BY DEF Decide
<1> HIDE DEF mark
<1>3. Append(w.decisions, mark) \in Seq(Mark)
  BY <1>1
<1>4. d \in Walked /\ d.decisions = Append(w.decisions, mark)
      /\ d.selected = w.selected /\ d.running = w.running
      /\ d.seeds = w.seeds /\ d.over = w.over
  BY <1>2, <1>3 DEF Walked
<1>5. \A i \in DOMAIN d.decisions :
        (i \in DOMAIN w.decisions /\ d.decisions[i] = w.decisions[i]) \/ d.decisions[i] = mark
  BY <1>1, <1>4
<1> QED
  BY <1>4, <1>5 DEF Noted, mark

\* A turn that is tried is settled, and what was settled stays so.
LEMMA TryAddPacks ==
  ASSUME NEW q, q.cost \in [Turn -> Nat], NEW w, Packed(q, w), NEW t \in Turn,
         NEW why \in {"seed", "expand"}, NEW v, v = TryAdd(q, w, t, why)
  PROVE  /\ Packed(q, v) /\ Settled(q, v, t)
         /\ \A u \in Turn : Settled(q, w, u) => Settled(q, v, u)
         /\ v.seeds = w.seeds /\ v.over = w.over
<1> DEFINE n == q.cost[t]
<1>1. /\ n \in Nat /\ w \in Walked /\ w.running \in Int /\ w.selected \in SUBSET Turn
      /\ Budget \in Int
      /\ \A u \in Turn : q.cost[u] \in Nat
      /\ \A i \in DOMAIN w.decisions : w.decisions[i].turn \in Turn
  <2>1. w.decisions \in Seq(Mark)
    BY DEF Packed, Walked
  <2>2. \A i \in DOMAIN w.decisions : w.decisions[i] \in Mark
    BY <2>1
  <2> QED
    BY <2>2, CorpusAssumption DEF Packed, Walked, Mark
<1>2. CASE t \in w.selected
  BY <1>2 DEF TryAdd, Settled
<1>3. CASE t \notin w.selected /\ Fits(w, n)
  <2> DEFINE x == [w EXCEPT !.selected = w.selected \cup {t}, !.running = w.running + n]
  <2>1. v = Decide(x, t, TRUE, why)
    BY <1>3 DEF TryAdd
  <2>2. x \in Walked /\ x.selected = w.selected \cup {t} /\ x.running = w.running + n
        /\ x.decisions = w.decisions /\ x.seeds = w.seeds /\ x.over = w.over
    <3>1. w.selected \cup {t} \in SUBSET Turn /\ w.running + n \in Int
      BY <1>1
    <3> HIDE DEF n
    <3> QED
      BY <1>1, <3>1 DEF Walked
  <2> HIDE DEF x
  <2>3. Noted(v, x, [turn |-> t, included |-> TRUE, why |-> why])
    BY <2>1, <2>2, DecisionIsNoted
  <2>4. /\ v \in Walked /\ v.selected = w.selected \cup {t} /\ v.running = w.running + n
        /\ v.seeds = w.seeds /\ v.over = w.over
    BY <2>2, <2>3 DEF Noted
  <2>5. \A i \in DOMAIN v.decisions :
              \/ i \in DOMAIN w.decisions /\ v.decisions[i] = w.decisions[i]
              \/ v.decisions[i] = [turn |-> t, included |-> TRUE, why |-> why]
    BY <2>2, <2>3 DEF Noted
  <2>6. v.running = Total(q.cost, v.selected)
    <3>1. q.cost \in [Turn -> Int]
      OBVIOUS
    <3>2. v.selected \in SUBSET Turn /\ t \in v.selected /\ v.selected \ {t} = w.selected
      BY <1>1, <1>3, <2>4, <2>5
    <3>3. Total(q.cost, v.selected) = Total(q.cost, w.selected) + q.cost[t]
      BY <3>1, <3>2, TurnsAreFinite, TotalWithout
    <3> QED
      BY <2>4, <2>5, <3>3 DEF Packed
  <2>7. v.running <= Budget
    BY <1>3, <2>4, <2>5 DEF Fits
  <2>8. \A u \in Turn : w.running + q.cost[u] > Budget => u # t /\ v.running + q.cost[u] > Budget
    BY <1>1, <1>3, <2>4, <2>5 DEF Fits
  <2>9. ASSUME NEW i \in DOMAIN v.decisions, v.decisions[i].why = "budget"
        PROVE  v.decisions[i].turn \notin v.selected
               /\ v.running + q.cost[v.decisions[i].turn] > Budget
    <3>1. i \in DOMAIN w.decisions /\ v.decisions[i] = w.decisions[i]
      <4>1. [turn |-> t, included |-> TRUE, why |-> why].why # "budget"
        OBVIOUS
      <4> QED
        BY <2>4, <2>5, <2>9, <4>1
    <3>2. w.decisions[i].turn \in Turn
      BY <1>1, <3>1
    <3>3. w.decisions[i].turn \notin w.selected /\ w.running + q.cost[w.decisions[i].turn] > Budget
      BY <2>9, <3>1 DEF Packed
    <3> QED
      BY <2>4, <2>5, <2>8, <3>1, <3>2, <3>3
  <2>10. Packed(q, v)
    BY <2>4, <2>5, <2>6, <2>7, <2>9 DEF Packed
  <2> QED
    BY <2>4, <2>5, <2>8, <2>10 DEF Settled
<1>4. CASE t \notin w.selected /\ ~Fits(w, n)
  <2> DEFINE x == [w EXCEPT !.truncated = TRUE]
  <2>1. v = Decide(x, t, FALSE, "budget")
    BY <1>4 DEF TryAdd
  <2>2. x \in Walked /\ x.selected = w.selected /\ x.running = w.running
        /\ x.decisions = w.decisions /\ x.seeds = w.seeds /\ x.over = w.over
    BY <1>1 DEF Walked
  <2> HIDE DEF x
  <2>3. Noted(v, x, [turn |-> t, included |-> FALSE, why |-> "budget"])
    BY <2>1, <2>2, DecisionIsNoted
  <2>4. /\ v \in Walked /\ v.selected = w.selected /\ v.running = w.running
        /\ v.seeds = w.seeds /\ v.over = w.over
    BY <2>2, <2>3 DEF Noted
  <2>5. \A i \in DOMAIN v.decisions :
              \/ i \in DOMAIN w.decisions /\ v.decisions[i] = w.decisions[i]
              \/ v.decisions[i] = [turn |-> t, included |-> FALSE, why |-> "budget"]
    BY <2>2, <2>3 DEF Noted
  <2>6. w.running + n > Budget
    BY <1>1, <1>4 DEF Fits
  <2>7. \A i \in DOMAIN v.decisions : v.decisions[i].why = "budget" =>
          v.decisions[i].turn \notin v.selected
          /\ v.running + q.cost[v.decisions[i].turn] > Budget
    BY <1>4, <2>4, <2>5, <2>6 DEF Packed
  <2>8. Packed(q, v)
    BY <2>4, <2>5, <2>7 DEF Packed
  <2> QED
    BY <2>4, <2>5, <2>6, <2>8 DEF Settled
<1> QED
  BY <1>2, <1>3, <1>4

\* Scores as the chain hands them on: a number for some of the turns.
Dicts == UNION {[D -> Int] : D \in SUBSET Turn}
Numeric(scores) == scores \in Dicts

LEMMA ScoreIsInt ==
  ASSUME NEW scores, Numeric(scores), NEW t
  PROVE  ScoreOf(scores, t) \in Int
BY DEF Numeric, Dicts, ScoreOf

LEMMA EarlierOrders ==
  ASSUME NEW S \in SUBSET Turn
  PROVE  Orders(Earlier, S)
<1>1. \A t, u : <<t, u>> \in Earlier <=> t \in Turn /\ u \in Turn /\ Place[t] < Place[u]
  BY DEF Earlier
<1>2. \A t \in Turn : Place[t] \in Nat
  BY CorpusAssumption
<1>3. \A t, u \in Turn : t # u => Place[t] < Place[u] \/ Place[u] < Place[t]
  BY <1>2, CorpusAssumption
<1> QED
  BY <1>1, <1>2, <1>3 DEF Orders

LEMMA OutranksOrders ==
  ASSUME NEW scores, Numeric(scores)
  PROVE  /\ Orders(Outranks(scores), Turn)
         /\ \A p \in Outranks(scores) : ScoreOf(scores, p[2]) <= ScoreOf(scores, p[1])
<1> DEFINE score(t) == ScoreOf(scores, t)
<1>1. \A t : score(t) \in Int
  BY ScoreIsInt
<1>2. \A t, u : <<t, u>> \in Outranks(scores) <=>
        /\ t \in Turn /\ u \in Turn
        /\ score(t) > score(u) \/ (score(t) = score(u) /\ <<t, u>> \in Earlier)
  BY DEF Outranks
<1>3. \A p \in Outranks(scores) : score(p[1]) > score(p[2]) \/ score(p[1]) = score(p[2])
  BY DEF Outranks
<1> HIDE DEF score
<1>4. Orders(Earlier, Turn)
  BY EarlierOrders
<1>5. \A p \in Outranks(scores) : score(p[2]) <= score(p[1])
  BY <1>1, <1>3
<1>6. Orders(Outranks(scores), Turn)
  <2>1. ASSUME NEW t \in Turn  PROVE <<t, t>> \notin Outranks(scores)
    <3>1. <<t, t>> \notin Earlier
      BY <1>4 DEF Orders
    <3>2. ~ (score(t) > score(t))
      BY <1>1
    <3> QED
      BY <1>2, <3>1, <3>2
  <2>2. \A t, u \in Turn : t # u => <<t, u>> \in Outranks(scores) \/ <<u, t>> \in Outranks(scores)
    <3> SUFFICES ASSUME NEW t \in Turn, NEW u \in Turn, t # u
                 PROVE  <<t, u>> \in Outranks(scores) \/ <<u, t>> \in Outranks(scores)
      OBVIOUS
    <3>1. <<t, u>> \in Earlier \/ <<u, t>> \in Earlier
      BY <1>4 DEF Orders
    <3>2. score(t) > score(u) \/ score(u) > score(t) \/ score(t) = score(u)
      BY <1>1
    <3> QED
      BY <1>2, <3>1, <3>2
  <2>3. \A t, u, v \in Turn : <<t, u>> \in Outranks(scores) /\ <<u, v>> \in Outranks(scores)
          => <<t, v>> \in Outranks(scores)
    <3> SUFFICES ASSUME NEW t \in Turn, NEW u \in Turn, NEW v \in Turn,
                        <<t, u>> \in Outranks(scores), <<u, v>> \in Outranks(scores)
                 PROVE  <<t, v>> \in Outranks(scores)
      OBVIOUS
    <3>1. <<t, u>> \in Earlier /\ <<u, v>> \in Earlier => <<t, v>> \in Earlier
      BY <1>4 DEF Orders
    <3>2. score(t) \in Int /\ score(u) \in Int /\ score(v) \in Int
      BY <1>1
    <3> QED
      BY <1>2, <3>1, <3>2
  <2> QED
    BY <2>1, <2>2, <2>3 DEF Orders
<1> QED
  BY <1>5, <1>6 DEF score

\* Where no entry scores more than one before it.
Falling(scores, n, r) ==
  \A i, j \in 1 .. n : i < j => ScoreOf(scores, r[j]) <= ScoreOf(scores, r[i])

LEMMA RankedFalls ==
  ASSUME NEW scores, Numeric(scores), NEW n, n = Cardinality(Turn)
  PROVE  /\ n \in Nat /\ Ranked(scores) \in [1 .. n -> Turn]
         /\ \A t \in Turn : \E k \in 1 .. n : Ranked(scores)[k] = t
         /\ Falling(scores, n, Ranked(scores))
<1> DEFINE R == Outranks(scores)
<1>1. Orders(R, Turn) /\ \A p \in R : ScoreOf(scores, p[2]) <= ScoreOf(scores, p[1])
  BY OutranksOrders
<1> HIDE DEF R
<1>2. /\ n \in Nat /\ Sorted(Turn, R) \in [1 .. n -> Turn]
      /\ \A t \in Turn : \E k \in 1 .. n : Sorted(Turn, R)[k] = t
      /\ \A i, j \in 1 .. n : i < j => <<Sorted(Turn, R)[i], Sorted(Turn, R)[j]>> \in R
  BY <1>1, TurnsAreFinite, SortedIs
<1>3. Ranked(scores) = Sorted(Turn, R)
  BY DEF Ranked, R
<1>4. \A i, j \in 1 .. n : i < j =>
        ScoreOf(scores, Sorted(Turn, R)[j]) <= ScoreOf(scores, Sorted(Turn, R)[i])
  <2> SUFFICES ASSUME NEW i \in 1 .. n, NEW j \in 1 .. n, i < j
               PROVE  ScoreOf(scores, Sorted(Turn, R)[j]) <= ScoreOf(scores, Sorted(Turn, R)[i])
    OBVIOUS
  <2> DEFINE p == <<Sorted(Turn, R)[i], Sorted(Turn, R)[j]>>
  <2>1. p \in R /\ p[1] = Sorted(Turn, R)[i] /\ p[2] = Sorted(Turn, R)[j]
    BY <1>2
  <2> HIDE DEF p
  <2> QED
    BY <1>1, <2>1
<1> QED
  BY <1>2, <1>3, <1>4 DEF Falling

\* After i turns: packed, and every turn the walk is through with is settled
\* or has no score.
SeededTo(i, q, scores, n, r, w) ==
  /\ Packed(q, w)
  /\ \A j \in 1 .. n : j <= i \/ w.over => Settled(q, w, r[j]) \/ ScoreOf(scores, r[j]) <= 0

LEMMA SeedIsWalked ==
  ASSUME NEW q, q.cost \in [Turn -> Nat], NEW scores, NEW w \in Walked, NEW t \in Turn
  PROVE  Seed(q, scores, w, t) \in Walked /\ TryAdd(q, w, t, "expand") \in Walked
<1>1. w.selected \in SUBSET Turn /\ w.running \in Int /\ q.cost[t] \in Nat /\ w.seeds \in Nat
  BY DEF Walked
<1>2. ASSUME NEW why \in {"seed", "expand"}  PROVE TryAdd(q, w, t, why) \in Walked
  <2>1. CASE t \in w.selected
    BY <2>1 DEF TryAdd
  <2>2. CASE t \notin w.selected /\ Fits(w, q.cost[t])
    <3> DEFINE x == [w EXCEPT !.selected = w.selected \cup {t}, !.running = w.running + q.cost[t]]
    <3>1. w.selected \cup {t} \in SUBSET Turn /\ w.running + q.cost[t] \in Int
      BY <1>1
    <3>2. x \in Walked
      BY <3>1 DEF Walked
    <3>3. TryAdd(q, w, t, why) = Decide(x, t, TRUE, why)
      BY <2>2 DEF TryAdd
    <3> HIDE DEF x
    <3> QED
      BY <3>2, <3>3, DecisionIsNoted DEF Noted
  <2>3. CASE t \notin w.selected /\ ~Fits(w, q.cost[t])
    <3> DEFINE x == [w EXCEPT !.truncated = TRUE]
    <3>1. x \in Walked
      BY DEF Walked
    <3>2. TryAdd(q, w, t, why) = Decide(x, t, FALSE, "budget")
      BY <2>3 DEF TryAdd
    <3> HIDE DEF x
    <3> QED
      BY <3>1, <3>2, DecisionIsNoted DEF Noted
  <2> QED
    BY <2>1, <2>2, <2>3
<1>3. Seed(q, scores, w, t) \in Walked
  <2>1. CASE w.over
    BY <2>1 DEF Seed
  <2>2. CASE ~w.over /\ ScoreOf(scores, t) <= 0 /\ w.seeds > 0
    <3> DEFINE x == [w EXCEPT !.over = TRUE]
    <3>1. x \in Walked
      BY DEF Walked
    <3>2. Seed(q, scores, w, t) = Decide(x, t, FALSE, "zero_score_post_seed")
      BY <2>2 DEF Seed
    <3> HIDE DEF x
    <3> QED
      BY <3>1, <3>2, DecisionIsNoted DEF Noted
  <2>3. CASE ~w.over /\ ~ (ScoreOf(scores, t) <= 0 /\ w.seeds > 0)
    <3> DEFINE v == TryAdd(q, w, t, "seed")
    <3>1. Seed(q, scores, w, t) = [v EXCEPT !.seeds = IF t \in v.selected THEN v.seeds + 1 ELSE v.seeds]
      BY <2>3 DEF Seed
    <3>2. v \in Walked
      BY <1>2
    <3> HIDE DEF v
    <3>3. v.seeds \in Nat
      BY <3>2 DEF Walked
    <3>4. (IF t \in v.selected THEN v.seeds + 1 ELSE v.seeds) \in Nat
      BY <3>3
    <3> QED
      BY <3>1, <3>2, <3>4 DEF Walked
  <2> QED
    BY <2>1, <2>2, <2>3
<1> QED
  BY <1>2, <1>3

LEMMA SeedStep ==
  ASSUME NEW q, q.cost \in [Turn -> Nat], NEW scores, Numeric(scores),
         NEW n \in Nat, NEW r \in [1 .. n -> Turn], Falling(scores, n, r),
         NEW i \in 1 .. n, NEW w, SeededTo(i - 1, q, scores, n, r, w),
         NEW v, v = Seed(q, scores, w, r[i])
  PROVE  SeededTo(i, q, scores, n, r, v)
<1>1. r[i] \in Turn /\ w \in Walked /\ \A j \in 1 .. n : r[j] \in Turn
  BY DEF SeededTo, Packed
<1>2. CASE w.over
  BY <1>2 DEF Seed, SeededTo
<1>3. CASE ~w.over /\ ScoreOf(scores, r[i]) <= 0 /\ w.seeds > 0
  <2> DEFINE x == [w EXCEPT !.over = TRUE]
  <2>1. x \in Walked /\ x.selected = w.selected /\ x.running = w.running /\ x.decisions = w.decisions
    BY <1>1 DEF Walked
  <2>2. v = Decide(x, r[i], FALSE, "zero_score_post_seed")
    BY <1>3 DEF Seed
  <2> HIDE DEF x
  <2>3. Noted(v, x, [turn |-> r[i], included |-> FALSE, why |-> "zero_score_post_seed"])
    BY <1>1, <2>1, <2>2, DecisionIsNoted
  <2>4. /\ v \in Walked /\ v.selected = w.selected /\ v.running = w.running
        /\ \A k \in DOMAIN v.decisions : v.decisions[k].why = "budget" =>
             k \in DOMAIN w.decisions /\ v.decisions[k] = w.decisions[k]
    BY <2>1, <2>3 DEF Noted
  <2>5. Packed(q, v)
    BY <2>4 DEF Packed, SeededTo
  <2>6. \A j \in 1 .. n : Settled(q, w, r[j]) => Settled(q, v, r[j])
    BY <2>4 DEF Settled
  <2>7. ASSUME NEW j \in 1 .. n  PROVE Settled(q, v, r[j]) \/ ScoreOf(scores, r[j]) <= 0
    <3>1. CASE j <= i - 1
      BY <2>6, <3>1 DEF SeededTo
    <3>2. CASE j = i
      BY <1>3, <3>2
    <3>3. CASE i < j
      <4>1. ScoreOf(scores, r[j]) <= ScoreOf(scores, r[i])
        BY <3>3 DEF Falling
      <4>2. ScoreOf(scores, r[j]) \in Int /\ ScoreOf(scores, r[i]) \in Int
        BY ScoreIsInt
      <4> QED
        BY <1>3, <4>1, <4>2
    <3> QED
      BY <3>1, <3>2, <3>3
  <2> QED
    BY <2>5, <2>7 DEF SeededTo
<1>4. CASE ~w.over /\ ~ (ScoreOf(scores, r[i]) <= 0 /\ w.seeds > 0)
  <2> DEFINE x == TryAdd(q, w, r[i], "seed")
  <2> DEFINE seeds == IF r[i] \in x.selected THEN x.seeds + 1 ELSE x.seeds
  <2>1. v = [x EXCEPT !.seeds = seeds]
    BY <1>4 DEF Seed
  <2>2. /\ Packed(q, x) /\ Settled(q, x, r[i])
        /\ \A u \in Turn : Settled(q, w, u) => Settled(q, x, u)
        /\ x.over = w.over
    BY <1>1, TryAddPacks DEF SeededTo
  <2> HIDE DEF x
  <2>3. x \in Walked /\ seeds \in Nat
    BY <2>2 DEF Packed, Walked
  <2> HIDE DEF seeds
  <2>4. /\ v \in Walked /\ v.selected = x.selected /\ v.running = x.running
        /\ v.decisions = x.decisions /\ v.over = x.over
    BY <2>1, <2>3 DEF Walked
  <2>5. Packed(q, v) /\ \A u \in Turn : Settled(q, x, u) => Settled(q, v, u)
    BY <2>2, <2>4 DEF Packed, Settled
  <2>6. ASSUME NEW j \in 1 .. n, j <= i  PROVE Settled(q, v, r[j]) \/ ScoreOf(scores, r[j]) <= 0
    <3>1. CASE j <= i - 1
      BY <1>1, <2>2, <2>5, <3>1 DEF SeededTo
    <3>2. CASE j = i
      BY <1>1, <2>2, <2>5, <3>2
    <3> QED
      BY <2>6, <3>1, <3>2
  <2> QED
    BY <1>4, <2>2, <2>4, <2>5, <2>6 DEF SeededTo
<1> QED
  BY <1>2, <1>3, <1>4

LEMMA ChronologicalIs ==
  ASSUME NEW S \in SUBSET Turn
  PROVE  /\ Cardinality(S) \in Nat /\ Chronological(S) \in [1 .. Cardinality(S) -> S]
         /\ ToSet(Chronological(S)) = S
<1>1. IsFiniteSet(S) /\ Orders(Earlier, S)
  BY TurnsAreFinite, FS_Subset, EarlierOrders
<1> DEFINE n == Cardinality(S)
           f == Sorted(S, Earlier)
<1>2. /\ n \in Nat /\ f \in [1 .. n -> S]
      /\ \A t \in S : \E k \in 1 .. n : f[k] = t
  BY <1>1, SortedIs
<1> HIDE DEF n, f
<1>3. ToSet(f) = S
  BY <1>2 DEF ToSet
<1> QED
  BY <1>2, <1>3 DEF Chronological, n, f

\* Packed, and every turn with a score is settled.
Covered(q, scores, w) ==
  /\ Packed(q, w)
  /\ \A t \in Turn : Settled(q, w, t) \/ ScoreOf(scores, t) <= 0

LEMMA SeedingCovers ==
  ASSUME NEW q, q.cost \in [Turn -> Nat], NEW scores, Numeric(scores)
  PROVE  Covered(q, scores, Seeding(q, scores))
<1> DEFINE n == Cardinality(Turn)
           r == Ranked(scores)
           last == Seeding(q, scores)
<1>1. n \in Nat /\ r \in [1 .. n -> Turn] /\ Falling(scores, n, r)
      /\ \A t \in Turn : \E k \in 1 .. n : r[k] = t
  BY RankedFalls
<1>2. NothingYet \in Walked /\ Packed(q, NothingYet) /\ ~NothingYet.over
  BY NothingIsPacked DEF Packed, NothingYet
<1>3. \A w \in Walked : \A t \in Turn : Seed(q, scores, w, t) \in Walked
  BY SeedIsWalked
<1> HIDE DEF n
<1>4. PICK walk : SeedsBy(walk, n, q, scores)
  BY <1>1, <1>2, <1>3, SeedingWalks
<1>5. /\ walk[0] = NothingYet
      /\ \A i \in 1 .. n : walk[i] = Seed(q, scores, walk[i - 1], r[i])
      /\ last = walk[n]
  BY <1>4 DEF SeedsBy
<1> HIDE DEF last, r
<1> DEFINE J == {i \in 0 .. n : SeededTo(i, q, scores, n, r, walk[i])}
<1>6. 0 \in J
  <2>1. SeededTo(0, q, scores, n, r, walk[0])
    BY <1>1, <1>2, <1>5 DEF SeededTo
  <2> QED
    BY <1>1, <2>1
<1>7. ASSUME NEW i \in 1 .. n, i - 1 \in J  PROVE i \in J
  <2>1. SeededTo(i - 1, q, scores, n, r, walk[i - 1])
    BY <1>7
  <2>2. walk[i] = Seed(q, scores, walk[i - 1], r[i])
    BY <1>5
  <2>3. SeededTo(i, q, scores, n, r, walk[i])
    BY <1>1, <2>1, <2>2, SeedStep
  <2> QED
    BY <2>3
<1>8. SeededTo(n, q, scores, n, r, walk[n])
  <2> HIDE DEF J
  <2>1. Passes(J, n)
    BY <1>6, <1>7 DEF Passes
  <2>2. n \in Nat /\ \A i \in 0 .. n : i \in J
    BY <1>1, <2>1, StepByStep
  <2>3. n \in J
    BY <2>2
  <2> QED
    BY <2>3 DEF J
<1>9. Covered(q, scores, last)
  BY <1>1, <1>5, <1>8 DEF SeededTo, Covered
<1> QED
  BY <1>9 DEF last, r

LEMMA ExpansionCovers ==
  ASSUME NEW q, q.cost \in [Turn -> Nat], NEW scores, NEW seeded, Covered(q, scores, seeded)
  PROVE  Covered(q, scores, Expand(q, scores, seeded))
<1> DEFINE targets == Targets(scores, seeded)
           n == Cardinality(targets)
           r == Chronological(targets)
           last == Expand(q, scores, seeded)
<1>1. targets \in SUBSET Turn
  BY DEF Targets, Expansion, Adjacent
<1>2. n \in Nat /\ r \in [1 .. n -> Turn]
  BY <1>1, ChronologicalIs
<1>3. \A w \in Walked : \A t \in Turn : TryAdd(q, w, t, "expand") \in Walked
  BY SeedIsWalked
<1>4. seeded \in Walked
  BY DEF Covered, Packed
<1> HIDE DEF n
<1>5. PICK walk : ExpandsBy(walk, n, q, scores, seeded)
  BY <1>2, <1>3, <1>4, ExpansionWalks
<1>6. /\ walk[0] = seeded
      /\ \A i \in 1 .. n : walk[i] = TryAdd(q, walk[i - 1], r[i], "expand")
      /\ last = walk[n]
  BY <1>5 DEF ExpandsBy
<1> HIDE DEF last, r
<1> DEFINE J == {i \in 0 .. n : Covered(q, scores, walk[i])}
<1>7. 0 \in J
  BY <1>2, <1>6
<1>8. ASSUME NEW i \in 1 .. n, i - 1 \in J  PROVE i \in J
  <2>1. Covered(q, scores, walk[i - 1])
    BY <1>8
  <2>2. walk[i] = TryAdd(q, walk[i - 1], r[i], "expand") /\ r[i] \in Turn
    BY <1>2, <1>6
  <2>3. Covered(q, scores, walk[i])
    BY <2>1, <2>2, TryAddPacks DEF Covered
  <2> QED
    BY <2>3
<1>9. Covered(q, scores, walk[n])
  <2> HIDE DEF J
  <2>1. Passes(J, n)
    BY <1>7, <1>8 DEF Passes
  <2>2. n \in Nat /\ \A i \in 0 .. n : i \in J
    BY <1>2, <2>1, StepByStep
  <2>3. n \in J
    BY <2>2
  <2> QED
    BY <2>3 DEF J
<1> QED
  BY <1>6, <1>9 DEF last

LEMMA AssembledCovers ==
  ASSUME NEW q, q.cost \in [Turn -> Nat], NEW scores, Numeric(scores)
  PROVE  Covered(q, scores, Assemble(q, scores))
<1>1. Covered(q, scores, Seeding(q, scores))
  BY SeedingCovers
<1>2. Assemble(q, scores) = Expand(q, scores, Seeding(q, scores))
  BY DEF Assemble, Using
<1> QED
  BY <1>1, <1>2, ExpansionCovers

-----------------------------------------------------------------------------
(* Scores are numbers *)

\* Given numbers, f leaves and returns numbers.
NumericTransform(f) ==
  \A scores \in Dicts :
    /\ Writes(f, scores) \in Dicts
    /\ \A out \in Returns(f, scores) : \A t \in DOMAIN out : out[t] \in Int

\* A question as a split has it.
Question(q) == q.close \in [Turn -> Int] /\ q.cost \in [Turn -> Nat]

\* What an input is worth on its own.
Alone(q, x) == IF x \in q.fault.rejects THEN {} ELSE {x}

\* What the fallback has after n inputs.
EmbeddedTo(q, inputs, w, n) ==
  /\ w.vectors = [j \in 1 .. n |-> Alone(q, inputs[j])]
  /\ w.errors = {x \in q.fault.rejects : \E j \in 1 .. n : inputs[j] = x}

\* A batch that failed has a vector for each of its inputs, and an error for
\* each that is rejected.
LEMMA FallbackIs ==
  ASSUME NEW q, NEW call, call \in q.fault.calls, NEW S,
         NEW n \in Nat, NEW inputs \in [1 .. n -> S]
  PROVE  EmbeddedTo(q, inputs, Embed(q, call, inputs), n)
<1> DEFINE X == [vectors : Seq(SUBSET S), errors : SUBSET S]
<1>1. NoVectors \in X
  BY DEF NoVectors
<1>2. ASSUME NEW w \in X, NEW x \in S  PROVE EmbedAlone(q, w, x) \in X
  <2>1. /\ w.vectors \in Seq(SUBSET S) /\ w.errors \in SUBSET S
        /\ {x} \in SUBSET S /\ {} \in SUBSET S
    OBVIOUS
  <2>2. Append(w.vectors, {}) \in Seq(SUBSET S) /\ Append(w.vectors, {x}) \in Seq(SUBSET S)
    BY <2>1
  <2> QED
    BY <2>1, <2>2 DEF EmbedAlone
<1> HIDE DEF X
<1>3. PICK walk : EmbedsBy(walk, n, q, call, inputs)
  BY <1>1, <1>2, EmbeddingWalks
<1> DEFINE J == {i \in 0 .. n : walk[i] \in X /\ EmbeddedTo(q, inputs, walk[i], i)}
<1>4. 0 \in J
  <2>1. walk[0] = NoVectors
    BY <1>3 DEF EmbedsBy
  <2>2. EmbeddedTo(q, inputs, NoVectors, 0)
    BY DEF EmbeddedTo, NoVectors
  <2> QED
    BY <1>1, <2>1, <2>2
<1>5. ASSUME NEW i \in 1 .. n, i - 1 \in J  PROVE i \in J
  <2> DEFINE w == walk[i - 1]
             x == inputs[i]
  <2>1. /\ w \in X /\ EmbeddedTo(q, inputs, w, i - 1)
        /\ walk[i] = EmbedAlone(q, w, x) /\ x \in S /\ i \in Nat
    BY <1>3, <1>5 DEF EmbedsBy
  <2>2. walk[i] \in X
    BY <1>2, <2>1
  <2>3. w.vectors = [j \in 1 .. (i - 1) |-> Alone(q, inputs[j])]
        /\ w.errors = {y \in q.fault.rejects : \E j \in 1 .. (i - 1) : inputs[j] = y}
    BY <2>1 DEF EmbeddedTo
  <2> HIDE DEF w
  <2>5. walk[i].vectors = Append(w.vectors, Alone(q, x))
    BY <2>1 DEF EmbedAlone, Alone
  <2>6. walk[i].errors = IF x \in q.fault.rejects THEN w.errors \cup {x} ELSE w.errors
    BY <2>1 DEF EmbedAlone
  <2>7. Append(w.vectors, Alone(q, x)) = [j \in 1 .. i |-> Alone(q, inputs[j])]
    <3>1. i - 1 \in Nat /\ (i - 1) + 1 = i
      BY <2>1
    <3>2. Len(w.vectors) = i - 1
      BY <2>3, <3>1
    <3> QED
      BY <2>3, <3>1, <3>2
  <2>8. walk[i].errors = {y \in q.fault.rejects : \E j \in 1 .. i : inputs[j] = y}
    <3>1. \A j \in Int : j \in 1 .. i <=> j \in 1 .. (i - 1) \/ j = i
      BY <2>1
    <3> QED
      BY <2>3, <2>6, <3>1
  <2>9. EmbeddedTo(q, inputs, walk[i], i)
    BY <2>5, <2>7, <2>8 DEF EmbeddedTo
  <2> QED
    BY <2>2, <2>9
<1> HIDE DEF J
<1>6. n \in J
  BY <1>4, <1>5, StepByStep DEF Passes
<1> QED
  BY <1>3, <1>6 DEF EmbedsBy, J

\* What a call gives back: how many vectors, which, and whose errors.
Batched(q, call, n) == IF call \in q.fault.short \ q.fault.calls THEN n - 1 ELSE n
RefusedOf(q, call) == IF call \in q.fault.calls THEN q.fault.rejects ELSE {}
VectorsOf(q, call, inputs, n) ==
  [j \in 1 .. Batched(q, call, n) |-> IF inputs[j] \in RefusedOf(q, call) THEN {} ELSE {inputs[j]}]
ErrorsOf(q, call, inputs, n) == {x \in RefusedOf(q, call) : \E j \in 1 .. n : inputs[j] = x}

\* Either way, a vector is the input's own or a refused one's zero.
LEMMA EmbedIs ==
  ASSUME NEW q, NEW call, NEW S, NEW n \in Nat \ {0}, NEW inputs \in [1 .. n -> S]
  PROVE  /\ Embed(q, call, inputs).vectors = VectorsOf(q, call, inputs, n)
         /\ Embed(q, call, inputs).errors = ErrorsOf(q, call, inputs, n)
<1> USE DEF Batched, RefusedOf, VectorsOf, ErrorsOf
<1>1. CASE call \in q.fault.calls
  <2>1. EmbeddedTo(q, inputs, Embed(q, call, inputs), n)
    BY <1>1, FallbackIs
  <2> QED
    BY <1>1, <2>1 DEF EmbeddedTo, Alone
<1>2. CASE call \notin q.fault.calls
  <2>1. Len(inputs) = n
    OBVIOUS
  <2>2. Embed(q, call, inputs)
          = [vectors |-> [k \in 1 .. Answered(q, call, inputs) |-> {inputs[k]}], errors |-> {}]
    BY <1>2 DEF Embed, NoVectors
  <2>3. Answered(q, call, inputs) = IF call \in q.fault.short \ q.fault.calls THEN n - 1 ELSE n
    BY <1>2, <2>1 DEF Answered
  <2> QED
    BY <1>2, <2>2, <2>3
<1> QED
  BY <1>1, <1>2

\* The inputs of the two calls.
LEMMA InputsAre ==
  /\ Len(Turns) \in Nat \ {0} /\ Turns \in [1 .. Len(Turns) -> Turn]
  /\ \A i, j \in 1 .. Len(Turns) : Turns[i] = Turns[j] => i = j
  /\ Turn = {Turns[k] : k \in 1 .. Len(Turns)}
  /\ <<Query>> \in [1 .. 1 -> {Query}]
<1>1. Turns \in Seq(Turn) /\ Turns # <<>> /\ IsInjective(Turns)
  BY CorpusAssumption
<1>2. Len(Turns) \in Nat /\ Turns \in [1 .. Len(Turns) -> Turn] /\ DOMAIN Turns = 1 .. Len(Turns)
  BY <1>1
<1>3. Len(Turns) # 0
  BY <1>1
<1> QED
  BY <1>1, <1>2, <1>3 DEF IsInjective, Turn, ToSet

\* What the two calls of a scoring give back.
LEMMA CallsAre ==
  ASSUME NEW q
  PROVE  /\ OfTurns(q).vectors = VectorsOf(q, "turns", Turns, Len(Turns))
         /\ OfTurns(q).errors = ErrorsOf(q, "turns", Turns, Len(Turns))
         /\ OfQuery(q).vectors = VectorsOf(q, "query", <<Query>>, 1)
         /\ OfQuery(q).errors = ErrorsOf(q, "query", <<Query>>, 1)
<1>1. ASSUME NEW call, NEW S, NEW n \in Nat \ {0}, NEW inputs, inputs \in [1 .. n -> S]
      PROVE  /\ Embed(q, call, inputs).vectors = VectorsOf(q, call, inputs, n)
             /\ Embed(q, call, inputs).errors = ErrorsOf(q, call, inputs, n)
  BY <1>1, EmbedIs
<1> DEFINE n == Len(Turns)
           asked == <<Query>>
<1>2. n \in Nat \ {0} /\ Turns \in [1 .. n -> Turn] /\ asked \in [1 .. 1 -> {Query}] /\ 1 \in Nat \ {0}
  BY InputsAre
<1> HIDE DEF n, asked
<1>3. \A call : /\ Embed(q, call, Turns).vectors = VectorsOf(q, call, Turns, n)
                /\ Embed(q, call, Turns).errors = ErrorsOf(q, call, Turns, n)
  BY <1>1, <1>2
<1>4. \A call : /\ Embed(q, call, asked).vectors = VectorsOf(q, call, asked, 1)
                /\ Embed(q, call, asked).errors = ErrorsOf(q, call, asked, 1)
  <2> DEFINE one == 1
  <2>1. one \in Nat \ {0} /\ asked \in [1 .. one -> {Query}]
    BY <1>2
  <2> HIDE DEF one
  <2>2. \A call : /\ Embed(q, call, asked).vectors = VectorsOf(q, call, asked, one)
                  /\ Embed(q, call, asked).errors = ErrorsOf(q, call, asked, one)
    BY <1>1, <2>1
  <2> QED
    BY <2>2 DEF one
<1> QED
  BY <1>3, <1>4 DEF OfTurns, OfQuery, n, asked

\* The scores of an embedding, turn by turn.
LEMMA EmbeddingScoresAre ==
  ASSUME NEW q
  PROVE  LET scores == EmbeddingScores(q)
             refused == RefusedOf(q, "turns")
             asked == OfQuery(q).vectors[1]
         IN  /\ DOMAIN scores \in SUBSET Turn
             /\ "turns" \in q.fault.calls => DOMAIN scores = Turn
             /\ scores = [t \in DOMAIN scores |->
                            IF t \in refused \/ asked = {} THEN 0 ELSE q.close[t]]
<1> DEFINE n == Len(Turns)
           m == Batched(q, "turns", Len(Turns))
           refused == RefusedOf(q, "turns")
           asked == OfQuery(q).vectors[1]
           vectors == OfTurns(q).vectors
           at(t) == CHOOSE k \in DOMAIN Turns : Turns[k] = t
           D == {Turns[k] : k \in DOMAIN vectors}
<1>1. vectors = [j \in 1 .. m |-> IF Turns[j] \in refused THEN {} ELSE {Turns[j]}]
  <2>1. vectors = VectorsOf(q, "turns", Turns, Len(Turns))
    BY CallsAre
  <2> QED
    BY <2>1 DEF VectorsOf
<1>2. n \in Nat /\ m \in Nat /\ m <= n /\ DOMAIN vectors = 1 .. m /\ DOMAIN Turns = 1 .. n
  <2>1. n \in Nat \ {0} /\ DOMAIN Turns = 1 .. n
    BY InputsAre
  <2>2. m = n - 1 \/ m = n
    BY DEF Batched
  <2> HIDE DEF n, m
  <2> QED
    BY <1>1, <2>1, <2>2
<1>3. EmbeddingScores(q) = [t \in D |-> Likeness(q, vectors[at(t)], asked)]
  BY DEF EmbeddingScores
<1> HIDE DEF n, vectors, m
<1>4. D \in SUBSET Turn /\ ("turns" \in q.fault.calls => D = Turn)
  BY <1>2, InputsAre DEF m, n, Batched
<1>5. ASSUME NEW t \in D
      PROVE  Likeness(q, vectors[at(t)], asked) = IF t \in refused \/ asked = {} THEN 0 ELSE q.close[t]
  <2>1. PICK k \in 1 .. m : Turns[k] = t
    BY <1>2
  <2>2. k \in DOMAIN Turns
    BY <1>2, <2>1
  <2>3. at(t) \in DOMAIN Turns /\ Turns[at(t)] = t
    BY <2>1, <2>2
  <2>4. at(t) = k
    BY <1>2, <2>1, <2>2, <2>3, InputsAre DEF n
  <2>5. vectors[at(t)] = IF t \in refused THEN {} ELSE {t}
    BY <1>1, <2>1, <2>4
  <2> HIDE DEF refused, asked, at, D
  <2>6. (CHOOSE x \in {t} : TRUE) = t
    OBVIOUS
  <2> QED
    BY <2>5, <2>6 DEF Likeness
<1> HIDE DEF D, asked, refused, at
<1>6. DOMAIN EmbeddingScores(q) = D
  BY <1>3
<1>7. EmbeddingScores(q) = [t \in D |-> IF t \in refused \/ asked = {} THEN 0 ELSE q.close[t]]
  BY <1>3, <1>5
<1> QED
  BY <1>4, <1>6, <1>7 DEF asked, refused

\* The question has a vector unless scoring raises, zero if it is refused.
LEMMA QueryVectorIs ==
  ASSUME NEW q, q.signal = "embedding", ~ScoringRaises(q)
  PROVE  OfQuery(q).vectors[1] = {} <=> Query \in q.fault.rejects /\ "query" \in q.fault.calls
<1> DEFINE refused == RefusedOf(q, "query")
           m == Batched(q, "query", 1)
<1>1. OfQuery(q).vectors = [j \in 1 .. m |-> IF <<Query>>[j] \in refused THEN {} ELSE {<<Query>>[j]}]
  <2>1. OfQuery(q).vectors = VectorsOf(q, "query", <<Query>>, 1)
    BY CallsAre
  <2> QED
    BY <2>1 DEF VectorsOf
<1>2. OfQuery(q).vectors # <<>>
  BY DEF ScoringRaises
<1>3. m = 1
  <2>1. m = 0 \/ m = 1
    BY DEF Batched
  <2> HIDE DEF m, refused
  <2> QED
    BY <1>1, <1>2, <2>1
<1> HIDE DEF m, refused
<1>4. OfQuery(q).vectors[1] = IF Query \in refused THEN {} ELSE {Query}
  BY <1>1, <1>3
<1> QED
  BY <1>4 DEF refused, RefusedOf

\* The errors are what is refused of the batches that failed.
LEMMA ErrorsAre ==
  ASSUME NEW q, q.fault.rejects \subseteq Turn \cup {Query}
  PROVE  /\ EmbeddingErrors(q) \subseteq Turn \cup {Query}
         /\ ~ScoringRaises(q) => EmbeddingErrors(q) = Refused(q)
<1>1. OfTurns(q).errors = ErrorsOf(q, "turns", Turns, Len(Turns))
  BY CallsAre
<1>2. OfQuery(q).errors = ErrorsOf(q, "query", <<Query>>, 1)
  BY CallsAre
<1>3. OfTurns(q).errors = IF "turns" \in q.fault.calls THEN q.fault.rejects \cap Turn ELSE {}
  BY <1>1, InputsAre DEF ErrorsOf, RefusedOf
<1>4. OfQuery(q).errors = IF "query" \in q.fault.calls THEN q.fault.rejects \cap {Query} ELSE {}
  <2>1. \A j \in 1 .. 1 : <<Query>>[j] = Query
    OBVIOUS
  <2> QED
    BY <1>2, <2>1 DEF ErrorsOf, RefusedOf
<1>5. Query \notin Turn
  BY CorpusAssumption
<1> QED
  BY <1>3, <1>4, <1>5 DEF EmbeddingErrors, Refused

LEMMA ScoresAreNumeric ==
  ASSUME NEW q, Question(q)
  PROVE  Scores(q) \in Dicts
<1>1. LexicalScores(q) \in [Turn -> Int]
  <2> DEFINE kept == Vocabulary(q)
             weight == [k \in kept |-> Idf(Len(Turns), Cardinality(Says(q, k)))]
             shared(t) == q.tokens[t] \cap q.asks \cap kept
  <2>1. IsFiniteSet(kept)
    <3>1. kept \in SUBSET Token
      BY DEF Vocabulary
    <3> HIDE DEF kept
    <3> QED
      BY <3>1, CorpusAssumption, FS_Subset
  <2>2. weight \in [kept -> Int]
    <3>1. \A k \in kept : Cardinality(Says(q, k)) \in 1 .. MaxDf
      BY DEF Vocabulary
    <3> QED
      BY <3>1, CorpusAssumption
  <2>3. LexicalScores(q) = [t \in Turn |-> Total(weight, shared(t))]
    BY DEF LexicalScores, Total
  <2>4. \A t \in Turn : shared(t) \in SUBSET kept
    OBVIOUS
  <2> HIDE DEF kept, weight, shared
  <2>5. \A t \in Turn : Total(weight, shared(t)) \in Int
    BY <2>1, <2>2, <2>4, TotalWithout
  <2> QED
    BY <2>3, <2>5
<1>2. DOMAIN EmbeddingScores(q) \in SUBSET Turn /\ EmbeddingScores(q) \in [DOMAIN EmbeddingScores(q) -> Int]
  <2> DEFINE refused == RefusedOf(q, "turns")
             asked == OfQuery(q).vectors[1]
             D == DOMAIN EmbeddingScores(q)
  <2>1. /\ D \in SUBSET Turn
        /\ EmbeddingScores(q) = [t \in D |-> IF t \in refused \/ asked = {} THEN 0 ELSE q.close[t]]
    BY EmbeddingScoresAre
  <2> HIDE DEF refused, asked, D
  <2>2. \A t \in D : q.close[t] \in Int
    BY <2>1 DEF Question
  <2> QED
    BY <2>1, <2>2 DEF D
<1>3. LexicalScores(q) \in Dicts /\ EmbeddingScores(q) \in Dicts
  BY <1>1, <1>2 DEF Dicts
<1> QED
  BY <1>3 DEF Scores

LEMMA AppliedIsNumeric ==
  ASSUME NEW f, NumericTransform(f), NEW scores \in Dicts
  PROVE  Applied(f, scores) \in Dicts
<1> DEFINE left == Writes(f, scores)
           out == CHOOSE o \in Accepted(f, scores) : TRUE
<1>1. left \in Dicts
  BY DEF NumericTransform
<1>2. CASE Accepted(f, scores) = {}
  BY <1>1, <1>2 DEF Applied
<1>3. CASE Accepted(f, scores) # {}
  <2>1. Applied(f, scores) = [t \in DOMAIN left |-> ScoreOf(out, t)]
    BY <1>3 DEF Applied
  <2>2. out \in Returns(f, scores)
    BY <1>3 DEF Accepted
  <2>3. PICK D \in SUBSET Turn : left \in [D -> Int]
    BY <1>1 DEF Dicts
  <2> HIDE DEF left, out
  <2>4. \A t : ScoreOf(out, t) \in Int
    BY <2>2 DEF NumericTransform, ScoreOf
  <2>5. Applied(f, scores) \in [D -> Int]
    BY <2>1, <2>3, <2>4
  <2> QED
    BY <2>5 DEF Dicts
<1> QED
  BY <1>2, <1>3

LEMMA PipedIsNumeric ==
  ASSUME NEW S, NEW fs \in Seq(S), \A f \in S : NumericTransform(f), NEW scores \in Dicts
  PROVE  ApplyPipeline(fs, scores).scores \in Dicts
<1> DEFINE X == [scores : Dicts, names : Seq(S)]
           n == Len(fs)
<1>1. n \in Nat /\ fs \in [1 .. n -> S]
  OBVIOUS
<1>2. Untouched(scores) \in X
  BY DEF Untouched
<1>3. \A r \in X : \A f \in S : Piped(r, f) \in X
  <2> SUFFICES ASSUME NEW r \in X, NEW f \in S  PROVE Piped(r, f) \in X
    OBVIOUS
  <2>1. Applied(f, r.scores) \in Dicts
    BY AppliedIsNumeric
  <2>2. r.names \in Seq(S) /\ Append(r.names, f) \in Seq(S)
    OBVIOUS
  <2> QED
    BY <2>1, <2>2 DEF Piped
<1>4. CASE fs = <<>>
  BY <1>4 DEF ApplyPipeline, Untouched
<1>5. CASE fs # <<>>
  <2> HIDE DEF X, n
  <2>1. PICK walk : PipesBy(walk, n, scores, fs)
    BY <1>1, <1>2, <1>3, <1>5, PipelineWalks
  <2> DEFINE J == {i \in 0 .. n : walk[i] \in X}
  <2>2. 0 \in J /\ \A i \in 1 .. n : i - 1 \in J => i \in J
    BY <1>1, <1>2, <1>3, <2>1 DEF PipesBy
  <2> HIDE DEF J
  <2>3. Passes(J, n)
    BY <2>2 DEF Passes
  <2>4. n \in Nat /\ \A i \in 0 .. n : i \in J
    BY <1>1, <2>3, StepByStep
  <2>5. n \in J
    BY <2>4
  <2>6. ApplyPipeline(fs, scores) \in X
    BY <2>1, <2>5 DEF PipesBy, J
  <2> QED
    BY <2>6 DEF X
<1> QED
  BY <1>4, <1>5

-----------------------------------------------------------------------------
(* What a retrieval hands over *)

\* The context is packed: counted, within the budget, and with room for none of
\* the turns that scored and were left out.
PackedContext(q, r) ==
  /\ r.running = Total(q.cost, ToSet(r.context)) /\ r.running <= Budget
  /\ \A t \in DOMAIN r.scores \cap Turn :
       r.scores[t] > 0 => t \in ToSet(r.context) \/ r.running + q.cost[t] > Budget
  /\ \A i \in DOMAIN r.decisions :
       r.decisions[i].why = "budget" => r.decisions[i].turn \notin ToSet(r.context)

LEMMA NothingIsPackedContext ==
  ASSUME NEW q, Question(q), NEW r, r = Nothing \/ r = Unscored
  PROVE  PackedContext(q, r)
<1>1. r.context = <<>> /\ r.decisions = <<>> /\ r.running = 0 /\ DOMAIN r.scores = {}
  <2>1. DOMAIN NoScores = {}
    BY DEF NoScores
  <2>2. /\ Nothing.context = <<>> /\ Nothing.decisions = <<>> /\ Nothing.running = 0
        /\ Nothing.scores = NoScores
    BY DEF Nothing
  <2>3. /\ Unscored.context = <<>> /\ Unscored.decisions = <<>> /\ Unscored.running = 0
        /\ Unscored.scores = NoScores
    BY DEF Nothing, Unscored
  <2> QED
    BY <2>1, <2>2, <2>3
<1>2. ToSet(<<>>) = {} /\ DOMAIN <<>> = {}
  BY DEF ToSet
<1>3. Total(q.cost, {}) = 0
  <2>1. q.cost \in [Turn -> Int]
    BY DEF Question
  <2> QED
    BY <2>1, TurnsAreFinite, TotalWithout
<1> QED
  <2>1. r.running = Total(q.cost, ToSet(r.context)) /\ r.running <= Budget
    <3>1. ToSet(r.context) = {}
      BY <1>1, <1>2
    <3>2. r.running = Total(q.cost, {})
      BY <1>1, <1>3
    <3>3. 0 <= Budget
      BY CorpusAssumption
    <3> QED
      BY <1>1, <3>1, <3>2, <3>3
  <2> QED
    BY <1>1, <1>2, <2>1 DEF PackedContext

LEMMA RetrievedIs ==
  ASSUME NEW q, NEW fs, ~ScoringRaises(q)
  PROVE  LET piped == ApplyPipeline(fs, Scores(q))
             w == Assemble(q, piped.scores)
             r == Retrieve(q, fs)
         IN  /\ r.context = Chronological(w.selected) /\ r.decisions = w.decisions
             /\ r.running = w.running /\ r.scores = piped.scores
<1> DEFINE P == ApplyPipeline(fs, Scores(q))
           read(piped, w) ==
             [context |-> Chronological(w.selected), decisions |-> w.decisions,
              running |-> w.running, truncated |-> w.truncated, ranked |-> Ranked(piped.scores),
              scores |-> piped.scores, applied |-> piped.names, scoreError |-> FALSE]
           inner(piped) == Using(Assemble(q, piped.scores), LAMBDA w : read(piped, w))
<1>1. Retrieve(q, fs) = Using(P, LAMBDA piped : inner(piped))
  BY DEF Retrieve
<1>2. Using(P, LAMBDA piped : inner(piped)) = inner(P)
  <2> HIDE DEF inner, P
  <2> QED
    BY DEF Using
<1>3. inner(P) = read(P, Assemble(q, P.scores))
  <2> DEFINE A == Assemble(q, P.scores)
  <2>1. inner(P) = Using(A, LAMBDA w : read(P, w))
    OBVIOUS
  <2> HIDE DEF read, P, A, inner
  <2>2. Using(A, LAMBDA w : read(P, w)) = read(P, A)
    BY DEF Using
  <2> QED
    BY <2>1, <2>2 DEF A
<1>4. \A w : /\ read(P, w).scores = P.scores /\ read(P, w).context = Chronological(w.selected)
             /\ read(P, w).decisions = w.decisions /\ read(P, w).running = w.running
  <2> HIDE DEF P
  <2> QED
    OBVIOUS
<1> HIDE DEF P, read, inner
<1> QED
  BY <1>1, <1>2, <1>3, <1>4 DEF P

LEMMA RetrievedIsPacked ==
  ASSUME NEW q, Question(q), NEW S, NEW fs \in Seq(S), \A f \in S : NumericTransform(f)
  PROVE  PackedContext(q, Retrieve(q, fs))
<1>1. CASE ScoringRaises(q)
  BY <1>1, NothingIsPackedContext DEF Retrieve
<1>2. CASE ~ScoringRaises(q)
  <2> DEFINE piped == ApplyPipeline(fs, Scores(q))
             w == Assemble(q, piped.scores)
             r == Retrieve(q, fs)
  <2>1. /\ r.context = Chronological(w.selected) /\ r.decisions = w.decisions
        /\ r.running = w.running /\ r.scores = piped.scores
    BY <1>2, RetrievedIs
  <2>2. piped.scores \in Dicts
    BY ScoresAreNumeric, PipedIsNumeric
  <2> HIDE DEF piped
  <2>3. Covered(q, piped.scores, w)
    BY <2>2, AssembledCovers DEF Numeric, Question
  <2> HIDE DEF w, r
  <2>4. w.selected \in SUBSET Turn
    BY <2>3 DEF Covered, Packed, Walked
  <2>5. ToSet(r.context) = w.selected
    BY <2>1, <2>4, ChronologicalIs
  <2>6. \A t \in DOMAIN r.scores \cap Turn :
          r.scores[t] > 0 => t \in w.selected \/ w.running + q.cost[t] > Budget
    <3> SUFFICES ASSUME NEW t \in DOMAIN r.scores \cap Turn, r.scores[t] > 0
                 PROVE  Settled(q, w, t)
      BY DEF Settled
    <3>1. ScoreOf(piped.scores, t) = r.scores[t] /\ ScoreOf(piped.scores, t) \in Int
      BY <2>1, <2>2, ScoreIsInt DEF ScoreOf, Numeric
    <3> QED
      BY <2>3, <3>1 DEF Covered
  <2> QED
    BY <2>1, <2>3, <2>5, <2>6 DEF PackedContext, Covered, Packed, r
<1> QED
  BY <1>1, <1>2

-----------------------------------------------------------------------------
(* Retrieval without transforms *)

\* Nothing installed changes nothing: the fold has nothing to go over.
LEMMA RetrievedScores ==
  ASSUME NEW q, ~ScoringRaises(q)
  PROVE  Retrieve(q, <<>>).scores = Scores(q)
<1>1. ApplyPipeline(<<>>, Scores(q)).scores = Scores(q)
  BY DEF ApplyPipeline, Untouched
<1> QED
  BY <1>1, RetrievedIs

\* Unless scoring raises, what is not refused has its own score.
LEMMA OthersKeepTheirScore ==
  ASSUME NEW q, q.signal = "embedding", ~Retrieve(q, <<>>).scoreError
  PROVE  LET scores == Retrieve(q, <<>>).scores IN
         /\ "turns" \in q.fault.calls => DOMAIN scores = Turn
         /\ \A t \in DOMAIN scores :
               scores[t] = IF {t, Query} \cap Refused(q) = {} THEN q.close[t] ELSE 0
<1> DEFINE refused == RefusedOf(q, "turns")
           asked == OfQuery(q).vectors[1]
           scores == EmbeddingScores(q)
<1>1. ~ScoringRaises(q)
  BY DEF Retrieve, Unscored, Nothing
<1>2. Retrieve(q, <<>>).scores = scores
  BY <1>1, RetrievedScores DEF Scores
<1>3. /\ DOMAIN scores \in SUBSET Turn
      /\ "turns" \in q.fault.calls => DOMAIN scores = Turn
      /\ scores = [t \in DOMAIN scores |-> IF t \in refused \/ asked = {} THEN 0 ELSE q.close[t]]
  BY EmbeddingScoresAre
<1>4. asked = {} <=> Query \in Refused(q)
  BY <1>1, QueryVectorIs DEF Refused
<1>5. \A t \in Turn : t \in refused <=> t \in Refused(q)
  BY CorpusAssumption DEF Refused, RefusedOf
<1> HIDE DEF asked, scores, refused
<1>6. \A t \in DOMAIN scores :
        scores[t] = IF {t, Query} \cap Refused(q) = {} THEN q.close[t] ELSE 0
  BY <1>3, <1>4, <1>5
<1> QED
  BY <1>2, <1>3, <1>6

-----------------------------------------------------------------------------
(* The measurement *)

\* What an earlier run may have left on the seam.
Installable == UNION {ToSet(s[2]) : s \in Setups}

\* Split and seam are as they were set up, or empty again.
SplitOK ==
  /\ split \in Seq(ToSet(split))
  /\ \A q \in ToSet(split) : q.fault.rejects \subseteq Turn \cup {Query} /\ Question(q)
  /\ installed \in Seq(Installable)

\* There is a report from the judge on, and outcomes from the join on.
ReportOK ==
  /\ Legible(report, Len(split))
  /\ phase = "asking" => report = <<>>
  /\ phase \in {"asking", "judged"} => outcomes = <<>>

OutcomesOK == \A k \in DOMAIN outcomes : outcomes[k].correct <=> Verdict(k)

RegistryOK == Registry(priority) /\ priority \in Seq(ToSet(priority))

\* A trace that is not lost is what retrieval gives, a lost one is empty, and
\* what the embedder rejected where nothing was lost is in the audit.
AuditOK ==
  /\ traces \in Seq(ToSet(traces)) /\ Len(traces) <= Len(split)
  /\ \A k \in DOMAIN traces :
       traces[k].got = IF traces[k].lost THEN Nothing ELSE Retrieve(split[k], installed)
  /\ \A k, x : <<k, x>> \in audit <=> k \in DOMAIN traces /\ ~traces[k].lost /\ x \in EmbeddingErrors(split[k])

MeasuredInv == SplitOK /\ ReportOK /\ OutcomesOK /\ RegistryOK /\ AuditOK

LEMMA SplitFacts ==
  ASSUME SplitOK
  PROVE  /\ Len(split) \in Nat /\ DOMAIN split = 1 .. Len(split)
         /\ \A k \in DOMAIN split :
              split[k].fault.rejects \subseteq Turn \cup {Query} /\ Question(split[k])
<1>1. Len(split) \in Nat /\ DOMAIN split = 1 .. Len(split)
  BY DEF SplitOK
<1>2. \A k \in DOMAIN split : split[k] \in ToSet(split)
  BY DEF ToSet
<1> QED
  BY <1>1, <1>2 DEF SplitOK

LEMMA EmptyFacts ==
  /\ <<>> \in Seq(ToSet(<<>>)) /\ Len(<<>>) = 0 /\ DOMAIN <<>> = {} /\ ToSet(<<>>) = {}
BY DEF ToSet

LEMMA PriorityIsOwn ==
  PRIORITY \in Seq(ToSet(PRIORITY))
BY DEF PRIORITY, ToSet

LEMMA NothingMeasured ==
  ASSUME SplitOK, traces = <<>>, audit = {}, report = <<>>, outcomes = <<>>, priority = PRIORITY
  PROVE  MeasuredInv
<1>1. ReportOK
  BY SplitFacts, EmptyIsLegible DEF ReportOK
<1>2. OutcomesOK
  BY EmptyFacts DEF OutcomesOK
<1>3. RegistryOK
  BY BuiltInIsRegistry, PriorityIsOwn DEF RegistryOK
<1>4. AuditOK
  BY EmptyFacts, SplitFacts DEF AuditOK
<1> QED
  BY <1>1, <1>2, <1>3, <1>4 DEF MeasuredInv

LEMMA MeasurementStarts ==
  MeasureInit => MeasuredInv
<1> SUFFICES ASSUME MeasureInit  PROVE MeasuredInv
  OBVIOUS
<1>1. PICK s \in Setups : split = s[1] /\ installed = s[2]
  BY DEF MeasureInit
<1>2. installed \in Seq(Installable)
  <2>1. ToSet(s[2]) \subseteq Installable
    BY DEF Installable
  <2>2. s[2] \in Seq(ToSet(s[2]))
    BY MeasureAssumption
  <2> QED
    BY <1>1, <2>1, <2>2
<1>3. SplitOK
  BY <1>1, <1>2, MeasureAssumption DEF SplitOK, Question
<1> QED
  BY <1>3, NothingMeasured DEF MeasureInit

LEMMA ForgetStep ==
  Forget => MeasuredInv'
<1> SUFFICES ASSUME Forget  PROVE MeasuredInv'
  OBVIOUS
<1>1. SplitOK'
  BY EmptyFacts DEF SplitOK, Forget
<1>2. ReportOK'
  BY EmptyFacts, EmptyIsLegible DEF ReportOK, Forget
<1>3. OutcomesOK'
  BY EmptyFacts DEF OutcomesOK, Forget
<1>4. RegistryOK'
  BY BuiltInIsRegistry, PriorityIsOwn DEF RegistryOK, Forget
<1>5. AuditOK'
  BY EmptyFacts DEF AuditOK, Forget
<1> QED
  BY <1>1, <1>2, <1>3, <1>4, <1>5 DEF MeasuredInv

\* One trace more.
LEMMA TraceAdded ==
  ASSUME MeasuredInv, phase = "asking", Asked \in DOMAIN split, NEW trace,
         traces' = Append(traces, trace), UNCHANGED <<phase, split, installed, report, outcomes, priority>>,
         trace.got = IF trace.lost THEN Nothing ELSE Retrieve(split[Asked], installed),
         audit' = IF trace.lost THEN audit ELSE audit \cup ({Asked} \X EmbeddingErrors(split[Asked]))
  PROVE  MeasuredInv'
<1> DEFINE n == Len(traces)
<1>1. n \in Nat /\ DOMAIN traces = 1 .. n /\ traces \in Seq(ToSet(traces)) /\ Asked = n + 1
  BY DEF MeasuredInv, AuditOK, Asked
<1>2. traces' \in Seq(ToSet(traces) \cup {trace})
  BY <1>1
<1>3. Len(traces') = n + 1 /\ DOMAIN traces' = 1 .. n + 1 /\ traces'[n + 1] = trace
      /\ \A k \in 1 .. n : traces'[k] = traces[k]
  BY <1>1
<1>4. traces' \in Seq(ToSet(traces'))
  BY <1>2 DEF ToSet
<1>5. Len(traces') <= Len(split)
  BY <1>1, <1>3, SplitFacts DEF MeasuredInv
<1> HIDE DEF n
<1>6. \A k \in DOMAIN traces' : k = n + 1 \/ k \in DOMAIN traces
  BY <1>1, <1>3
<1>7. \A k \in DOMAIN traces' :
        traces'[k].got = IF traces'[k].lost THEN Nothing ELSE Retrieve(split[k], installed)
  BY <1>1, <1>3, <1>6 DEF MeasuredInv, AuditOK
<1>8. ASSUME NEW k, NEW x
      PROVE  <<k, x>> \in audit'
               <=> k \in DOMAIN traces' /\ ~traces'[k].lost /\ x \in EmbeddingErrors(split[k])
  <2>1. <<k, x>> \in audit <=> k \in DOMAIN traces /\ ~traces[k].lost /\ x \in EmbeddingErrors(split[k])
    BY DEF MeasuredInv, AuditOK
  <2>2. CASE k = n + 1
    <3>1. k \notin DOMAIN traces /\ k \in DOMAIN traces' /\ traces'[k] = trace /\ k = Asked
      BY <1>1, <1>3, <2>2
    <3>2. <<k, x>> \notin audit
      BY <2>1, <3>1
    <3>3. CASE trace.lost
      BY <3>1, <3>2, <3>3
    <3>4. CASE ~trace.lost
      <4>1. <<k, x>> \in audit' <=> <<k, x>> \in {Asked} \X EmbeddingErrors(split[Asked])
        BY <3>2, <3>4
      <4> QED
        BY <3>1, <3>4, <4>1
    <3> QED
      BY <3>3, <3>4
  <2>3. CASE k # n + 1
    <3>1. k \in DOMAIN traces' <=> k \in DOMAIN traces
      BY <1>1, <1>3, <2>3
    <3>2. k \in DOMAIN traces => traces'[k] = traces[k]
      BY <1>1, <1>3
    <3>3. <<k, x>> \in audit' <=> <<k, x>> \in audit
      BY <1>1, <2>3
    <3> QED
      BY <2>1, <3>1, <3>2, <3>3
  <2> QED
    BY <2>2, <2>3
<1>9. AuditOK'
  BY <1>4, <1>5, <1>7, <1>8 DEF AuditOK
<1>10. SplitOK' /\ RegistryOK'
  BY DEF MeasuredInv, SplitOK, RegistryOK
<1>11. outcomes = <<>> /\ ReportOK'
  BY DEF MeasuredInv, ReportOK
<1>12. OutcomesOK'
  BY <1>11, EmptyFacts DEF OutcomesOK
<1> QED
  BY <1>9, <1>10, <1>11, <1>12 DEF MeasuredInv

LEMMA AskStep ==
  MeasuredInv /\ (AskReader \/ ReaderRaises) => MeasuredInv'
<1> SUFFICES ASSUME MeasuredInv, AskReader \/ ReaderRaises  PROVE MeasuredInv'
  OBVIOUS
<1>1. CASE AskReader
  <2> DEFINE r == Retrieve(split[Asked], installed)
  <2> DEFINE trace == [got |-> r, lost |-> FALSE, error |-> r.context = <<>> /\ ~r.scoreError]
  <2>1. /\ phase = "asking" /\ Asked \in DOMAIN split
        /\ traces' = Append(traces, trace)
        /\ UNCHANGED <<phase, split, installed, report, outcomes, priority>>
        /\ audit' = audit \cup ({Asked} \X EmbeddingErrors(split[Asked]))
    BY <1>1 DEF AskReader
  <2>2. ~trace.lost /\ trace.got = Retrieve(split[Asked], installed)
    OBVIOUS
  <2> HIDE DEF trace
  <2> QED
    BY <2>1, <2>2, TraceAdded
<1>2. CASE ReaderRaises
  <2> DEFINE trace == [got |-> Nothing, lost |-> TRUE, error |-> TRUE]
  <2>1. /\ phase = "asking" /\ Asked \in DOMAIN split
        /\ traces' = Append(traces, trace)
        /\ UNCHANGED <<phase, split, installed, report, outcomes, priority>>
        /\ audit' = audit
    BY <1>2 DEF ReaderRaises
  <2>2. trace.lost /\ trace.got = Nothing
    OBVIOUS
  <2> HIDE DEF trace
  <2> QED
    BY <2>1, <2>2, TraceAdded
<1> QED
  BY <1>1, <1>2

LEMMA FakeReportIsLegible ==
  ASSUME SplitOK, FakeJudgeAnswers
  PROVE  Legible(report', Len(split))
<1>1. Len(split) \in Nat /\ DOMAIN split = 1 .. Len(split)
  BY SplitFacts
<1> DEFINE label(k) == CHOOSE l \in RawLabel : (l \in Truthy) = FakeVerdict(k)
<1>2. report' = [k \in DOMAIN split |-> [about |-> k, named |-> TRUE, label |-> label(k)]]
  BY DEF FakeJudgeAnswers
<1> HIDE DEF label
<1>3. /\ DOMAIN report' = 1 .. Len(split) /\ Len(report') = Len(split)
      /\ \A k \in 1 .. Len(split) : report'[k].about = k /\ report'[k].named
  BY <1>1, <1>2
<1> QED
  BY <1>1, <1>3 DEF Legible

LEMMA JudgeStep ==
  MeasuredInv /\ (JudgeAnswers \/ FakeJudgeAnswers \/ JudgeRaises) => MeasuredInv'
<1> SUFFICES ASSUME MeasuredInv, JudgeAnswers \/ FakeJudgeAnswers \/ JudgeRaises  PROVE MeasuredInv'
  OBVIOUS
<1>1. /\ phase = "asking" /\ phase' \in {"judged", "raised"}
      /\ UNCHANGED <<split, installed, traces, audit, outcomes, priority>>
  BY DEF JudgeAnswers, FakeJudgeAnswers, JudgeRaises, AllAsked
<1>2. Legible(report', Len(split))
  <2>1. CASE JudgeAnswers
    BY <2>1, SplitFacts, ReportsAreLegible DEF MeasuredInv, JudgeAnswers
  <2>2. CASE FakeJudgeAnswers
    BY <2>2, FakeReportIsLegible DEF MeasuredInv
  <2>3. CASE JudgeRaises
    BY <2>3 DEF MeasuredInv, ReportOK, JudgeRaises
  <2> QED
    BY <2>1, <2>2, <2>3
<1>3. outcomes' = <<>>
  BY <1>1 DEF MeasuredInv, ReportOK
<1>4. ReportOK'
  BY <1>1, <1>2, <1>3 DEF ReportOK
<1>5. OutcomesOK'
  BY <1>3, EmptyFacts DEF OutcomesOK
<1>6. SplitOK' /\ RegistryOK' /\ AuditOK'
  BY <1>1 DEF MeasuredInv, SplitOK, RegistryOK, AuditOK
<1> QED
  BY <1>4, <1>5, <1>6 DEF MeasuredInv

LEMMA JoinStep ==
  MeasuredInv /\ Join => MeasuredInv'
<1> SUFFICES ASSUME MeasuredInv, Join  PROVE MeasuredInv'
  OBVIOUS
<1>1. /\ phase' = "joined" /\ outcomes' = [k \in DOMAIN split |-> Outcome(k)]
      /\ UNCHANGED <<split, installed, traces, audit, report, priority>>
  BY DEF Join
<1>2. \A k : Outcome(k).correct = Verdict(k)
  BY DEF Outcome
<1>3. \A k : Verdict(k)' = Verdict(k)
  BY <1>1 DEF Verdict, QuestionOf
<1>4. OutcomesOK'
  BY <1>1, <1>2, <1>3 DEF OutcomesOK
<1>5. SplitOK' /\ RegistryOK' /\ AuditOK' /\ ReportOK'
  BY <1>1 DEF MeasuredInv, SplitOK, RegistryOK, AuditOK, ReportOK
<1> QED
  BY <1>4, <1>5 DEF MeasuredInv

LEMMA RegisterStep ==
  MeasuredInv /\ RegisterRegime => MeasuredInv'
<1> SUFFICES ASSUME MeasuredInv, RegisterRegime  PROVE MeasuredInv'
  OBVIOUS
<1>1. UNCHANGED <<phase, split, installed, traces, audit, report, outcomes>>
  BY DEF RegisterRegime
<1>2. RegistryOK'
  BY RegisteredIsRegistry DEF MeasuredInv, RegistryOK, RegisterRegime
<1>3. OutcomesOK'
  BY <1>1 DEF MeasuredInv, OutcomesOK, Verdict, QuestionOf
<1>4. SplitOK' /\ AuditOK' /\ ReportOK'
  BY <1>1 DEF MeasuredInv, SplitOK, AuditOK, ReportOK
<1> QED
  BY <1>2, <1>3, <1>4 DEF MeasuredInv

LEMMA MeasurementIsInductive ==
  MeasuredInv /\ [MeasuredNext]_allVars => MeasuredInv'
<1> SUFFICES ASSUME MeasuredInv, [MeasuredNext]_allVars  PROVE MeasuredInv'
  OBVIOUS
<1>1. CASE UNCHANGED measureVars
  <2>1. SplitOK' /\ ReportOK' /\ RegistryOK' /\ AuditOK'
    BY <1>1 DEF measureVars, MeasuredInv, SplitOK, ReportOK, RegistryOK, AuditOK
  <2>2. OutcomesOK'
    BY <1>1 DEF measureVars, MeasuredInv, OutcomesOK, Verdict, QuestionOf
  <2> QED
    BY <2>1, <2>2 DEF MeasuredInv
<1>2. CASE MeasureNext
  BY <1>2, AskStep, JudgeStep, JoinStep, RegisterStep DEF MeasureNext
<1>3. CASE Forget
  BY <1>3, ForgetStep
<1> QED
  BY <1>1, <1>2, <1>3 DEF MeasuredNext, BaselineMeasured, allVars

LEMMA MeasurementInvariance ==
  MeasuredSpec => []MeasuredInv
<1>1. MeasuredInit => MeasuredInv
  BY MeasurementStarts DEF MeasuredInit
<1> QED
  BY <1>1, MeasurementIsInductive, PTL DEF MeasuredSpec

-----------------------------------------------------------------------------
\* A verdict counts for the question it was given on, in whatever order the
\* judge wrote them and whether or not a line names its question, unless a
\* line is lost from a file that does not name them all
\* (_parse_per_question_results).
THEOREM VerdictsFindTheirQuestion == MeasuredSpec => []VerdictsAreOwn
<1>1. MeasuredInv => VerdictsAreOwn
  BY VerdictIsOwn DEF MeasuredInv, ReportOK, OutcomesOK, VerdictsAreOwn
<1> QED
  BY <1>1, MeasurementInvariance, PTL

\* Every failure is in one row of the histogram and every success in none,
\* and no failure is called recoverable whose marked evidence never ranked
\* well, whatever regime was registered behind which (classify, histogram).
THEOREM FailuresAreDiagnosed == MeasuredSpec => []FailuresDiagnosed
<1>1. MeasuredInv => NeverRetrievedIsAWall
  BY WallsStay DEF MeasuredInv, RegistryOK, NeverRetrievedIsAWall
<1>2. MeasuredInv => FailuresCountedOnce
  BY CountedOnce DEF MeasuredInv, RegistryOK, FailuresCountedOnce
<1>3. MeasuredInv => FailuresDiagnosed
  BY <1>1, <1>2 DEF FailuresDiagnosed
<1> QED
  BY <1>3, MeasurementInvariance, PTL

\* A batch that fails costs no score: embedded input by input, every turn keeps
\* its own, zero for those the embedder refuses, and what it refuses is in the
\* audit, for any haystack, question and fault (_embed_resilient).
THEOREM RejectionsAreLocal == MeasuredSpec => []RejectionsStayLocal
<1>1. MeasuredInv => RejectionsStayLocal
  <2> SUFFICES ASSUME MeasuredInv, NEW k \in DOMAIN traces, ~traces[k].lost,
                      ~traces[k].got.scoreError
               PROVE  /\ {x \in Turn \cup {Query} : <<k, x>> \in audit} = Refused(split[k])
                      /\ split[k].signal = "embedding" /\ installed = <<>> =>
                           /\ "turns" \in split[k].fault.calls => DOMAIN traces[k].got.scores = Turn
                           /\ \A t \in DOMAIN traces[k].got.scores :
                                 traces[k].got.scores[t] =
                                   IF {t, Query} \cap Refused(split[k]) = {} THEN split[k].close[t] ELSE 0
    BY DEF RejectionsStayLocal
  <2>1. \A x : <<k, x>> \in audit <=> x \in EmbeddingErrors(split[k])
    BY DEF MeasuredInv, AuditOK
  <2>2. k \in DOMAIN split
    BY SplitFacts DEF MeasuredInv, AuditOK
  <2>3. split[k].fault.rejects \subseteq Turn \cup {Query}
    BY <2>2, SplitFacts DEF MeasuredInv
  <2>4. traces[k].got = Retrieve(split[k], installed)
    BY DEF MeasuredInv, AuditOK
  <2>5. ~ScoringRaises(split[k])
    BY <2>4 DEF Retrieve, Unscored, Nothing
  <2>6. {x \in Turn \cup {Query} : <<k, x>> \in audit} = Refused(split[k])
    BY <2>1, <2>3, <2>5, ErrorsAre
  <2> QED
    BY <2>4, <2>6, OthersKeepTheirScore
<1> QED
  BY <1>1, MeasurementInvariance, PTL

\* Every question's context is counted right, is within the budget and has no
\* room for a turn that scored and was left out, and what was dropped at the
\* budget stays out: for any haystack, question, prices, faults and installed
\* transforms, as long as the transforms make numbers of numbers, which
\* apply_pipeline's float() sees to for what they return (behavior_assemble).
THEOREM ContextsArePacked ==
  ASSUME \A f \in Installable : NumericTransform(f)
  PROVE  MeasuredSpec => []ContextIsPacked
<1>1. MeasuredInv => ContextIsPacked
  <2> SUFFICES ASSUME MeasuredInv, NEW k \in DOMAIN traces
               PROVE  PackedContext(split[k], traces[k].got)
    BY DEF ContextIsPacked, PackedContext, Total
  <2>1. k \in DOMAIN split
    BY SplitFacts DEF MeasuredInv, AuditOK
  <2>2. Question(split[k])
    BY <2>1, SplitFacts DEF MeasuredInv
  <2>3. installed \in Seq(Installable)
    BY DEF MeasuredInv, SplitOK
  <2>4. traces[k].got = IF traces[k].lost THEN Nothing ELSE Retrieve(split[k], installed)
    BY DEF MeasuredInv, AuditOK
  <2>5. PackedContext(split[k], Nothing)
    BY <2>2, NothingIsPackedContext
  <2>6. PackedContext(split[k], Retrieve(split[k], installed))
    BY <2>2, <2>3, RetrievedIsPacked
  <2> QED
    BY <2>4, <2>5, <2>6
<1> QED
  BY <1>1, MeasurementInvariance, PTL
-----------------------------------------------------------------------------
(* The sandbox and the seam *)

\* The pipeline of a single transform is one step.
LEMMA PipelineOfOne ==
  ASSUME NEW f, NEW scores
  PROVE  ApplyPipeline(<<f>>, scores) = Piped(Untouched(scores), f)
<1> DEFINE base == Untouched(scores)
<1> DEFINE step(w, t) == Using(w, LAMBDA v : Piped(v, t))
<1> DEFINE table(iter) == [s \in SUBSET (1 .. 1) |-> IF s = {} THEN base
                                                     ELSE step(iter[s \ {Max(s)}], <<f>>[Max(s)])]
<1> DEFINE W == [s \in SUBSET (1 .. 1) |-> IF s = {} THEN base ELSE Piped(base, f)]
<1>1. \A w, t : step(w, t) = Piped(w, t)
  BY DEF Using
<1>2. ApplyPipeline(<<f>>, scores) = (CHOOSE iter : iter = table(iter))[1 .. 1]
  <2>1. DOMAIN <<f>> = 1 .. 1 /\ <<f>> # <<>>
    OBVIOUS
  <2> QED
    BY <2>1 DEF FoldLeft, MapThenFoldSet, ApplyPipeline
<1> HIDE DEF step, base
<1>3. 1 .. 1 = {1} /\ Max({1}) = 1 /\ <<f>>[1] = f
  BY DEF Max
<1>4. \A s \in SUBSET (1 .. 1) : s # {} => s = {1} /\ s \ {Max(s)} = {}
  BY <1>3
<1>5. ASSUME NEW iter, iter = table(iter)
      PROVE  iter[1 .. 1] = Piped(base, f)
  <2>1. iter[{}] = base
    BY <1>3, <1>5
  <2>2. iter[{1}] = step(iter[{}], f)
    <3>1. {1} \in SUBSET (1 .. 1) /\ {1} # {} /\ {1} \ {Max({1})} = {} /\ <<f>>[Max({1})] = f
      BY <1>3
    <3>2. iter[{1}] = table(iter)[{1}]
      BY <1>5
    <3>3. table(iter)[{1}] = step(iter[{1} \ {Max({1})}], <<f>>[Max({1})])
      BY <3>1
    <3> HIDE DEF table
    <3> QED
      BY <3>1, <3>2, <3>3
  <2> QED
    BY <1>1, <1>3, <2>1, <2>2
<1>6. W = table(W)
  <2>1. ASSUME NEW s \in SUBSET (1 .. 1), s # {}
        PROVE  step(W[s \ {Max(s)}], <<f>>[Max(s)]) = Piped(base, f)
    <3>1. s = {1} /\ s \ {Max(s)} = {} /\ W[{}] = base
      BY <1>4, <2>1
    <3> QED
      BY <1>1, <1>3, <3>1
  <2> QED
    BY <2>1
<1> HIDE DEF table, W
<1>7. (CHOOSE iter : iter = table(iter)) = table(CHOOSE iter : iter = table(iter))
  BY <1>6
<1> QED
  BY <1>2, <1>5, <1>7 DEF base

\* A transform is a function of what it is handed and takes no turn out of it.
\* What it returns may still leave turns out, or name turns nobody has.
KeepsTurns(f) ==
  \A scores : /\ \A x, y \in Returns(f, scores) : x = y
              /\ DOMAIN scores \subseteq DOMAIN Writes(f, scores)

\* What the sandbox accepted on its copy of a probe, the seam applies to the
\* probe, and to no turn that was not in it: for any outcomes and probes, if
\* transforms take no turns out of the dict itself (sandbox_gate, apply_pipeline).
THEOREM SandboxIsHonoured ==
  ASSUME \A f \in Authored : KeepsTurns(f)
  PROVE  MeasuredSpec => []SeamHonoursSandbox
<1>1. ASSUME NEW f \in Authored, NEW probe, NEW out \in Returns(f, probe),
             \E o \in Returns(f, probe) : DOMAIN o \subseteq DOMAIN probe
      PROVE  LET r == ApplyPipeline(<<f>>, probe)
             IN  r.names = <<f>> /\ \A t \in DOMAIN probe : r.scores[t] = ScoreOf(out, t)
  <2>1. \A x \in Returns(f, probe) : x = out
    BY DEF KeepsTurns
  <2>2. DOMAIN probe \subseteq DOMAIN Writes(f, probe) /\ DOMAIN out \subseteq DOMAIN probe
    BY <1>1, <2>1 DEF KeepsTurns
  <2>3. Accepted(f, probe) = {out}
    BY <2>1, <2>2 DEF Accepted
  <2>4. ApplyPipeline(<<f>>, probe) = [scores |-> Applied(f, probe), names |-> <<f>>]
    BY <2>3, PipelineOfOne DEF Piped, Untouched
  <2>5. (CHOOSE o \in Accepted(f, probe) : TRUE) = out
    BY <2>3
  <2>6. Applied(f, probe) = [t \in DOMAIN Writes(f, probe) |-> ScoreOf(out, t)]
    BY <2>3, <2>5 DEF Applied
  <2> QED
    BY <2>2, <2>4, <2>6
<1>2. SeamHonoursSandbox
  <2> SUFFICES ASSUME NEW f \in Authored, PassesSandbox(f, Probes), NEW i \in DOMAIN Probes,
                      NEW out \in Returns(f, Probes[i])
               PROVE  LET r == ApplyPipeline(<<f>>, Probes[i])
                      IN  r.names = <<f>> /\ \A t \in DOMAIN Probes[i] : r.scores[t] = ScoreOf(out, t)
    BY DEF SeamHonoursSandbox
  <2>1. \E o \in Returns(f, Probes[i]) : DOMAIN o \subseteq DOMAIN Probes[i]
    BY DEF PassesSandbox
  <2> QED
    BY <1>1, <2>1
<1> QED
  BY <1>2, PTL
=============================================================================
