---------------------------- MODULE Measurement ----------------------------
(***************************************************************************)
(* One measurement of a split by the real backend (RealEval.run_on_split): *)
(* every question is retrieved for and read, the judge is run over all     *)
(* hypotheses, its results file is joined back to the questions, and the   *)
(* outcomes are there to be diagnosed.  Reader and judge are outside.      *)
(*                                                                         *)
(* A question is identified by its place in the split.  A line of the      *)
(* results file is [about, named, label]: the question it is a verdict on, *)
(* whether it carries the question's id, and the label as written.         *)
(***************************************************************************)
EXTENDS FailureRegimes

CONSTANTS
  Setups,      \* <<split, pipeline>>: the questions to measure, and what an
               \* earlier run of the process left installed on the seam
  Proposals,   \* <<name, after>>: the regimes a caller may register
  RawLabel,    \* how a verdict may be written
  Truthy,      \* the labels _coerce_truthy_label takes for true
  Authored,    \* transforms that may be put to the sandbox
  NProbes      \* n_probe_outcomes

VARIABLES
  phase,       \* "asking" | "judged" | "joined" | "raised" | "over"
  split,       \* the instances
  installed,   \* agent.transforms._PIPELINE
  traces,      \* per question asked: [got, lost, error]
  audit,       \* embedding_errors: <<question, rejected input>>
  report,      \* the judge's results file
  outcomes,    \* the joined outcomes
  priority     \* regimes._PRIORITY

measureVars == <<phase, split, installed, traces, audit, report, outcomes, priority>>

\* The batch calls of one scoring.
Calls == {"turns", "query"}

\* A split is a sequence of questions, a pipeline one of transforms; the
\* embedder rejects what it is given, and likenesses and costs are numbers.
ASSUME MeasureAssumption ==
  \A s \in Setups :
    /\ s[1] \in Seq(ToSet(s[1])) /\ s[2] \in Seq(ToSet(s[2]))
    /\ \A q \in ToSet(s[1]) : /\ q.fault.rejects \subseteq Turn \cup {Query}
                             /\ q.fault.calls \subseteq Calls /\ q.fault.short \subseteq Calls
                             /\ q.close \in [Turn -> Int] /\ q.cost \in [Turn -> Nat]

MeasureInit ==
  /\ phase = "asking"
  /\ \E s \in Setups : split = s[1] /\ installed = s[2]
  /\ traces = <<>> /\ audit = {} /\ report = <<>> /\ outcomes = <<>>
  /\ priority = PRIORITY

-----------------------------------------------------------------------------
(* The questions, one by one *)

Asked == Len(traces) + 1

AskReader ==
  /\ phase = "asking" /\ Asked \in DOMAIN split
  /\ LET r == Retrieve(split[Asked], installed)
     IN  traces' = Append(traces, [got |-> r, lost |-> FALSE,
                                   error |-> r.context = <<>> /\ ~r.scoreError])
  /\ audit' = audit \cup ({Asked} \X EmbeddingErrors(split[Asked]))
  /\ UNCHANGED <<phase, split, installed, report, outcomes, priority>>

\* One try covers retrieval and reader: what was retrieved is dropped, the
\* errors of the embedder with it.
ReaderRaises ==
  /\ phase = "asking" /\ Asked \in DOMAIN split
  /\ traces' = Append(traces, [got |-> Nothing, lost |-> TRUE, error |-> TRUE])
  /\ UNCHANGED <<phase, split, installed, audit, report, outcomes, priority>>

-----------------------------------------------------------------------------
(* The judge *)

AllAsked == phase = "asking" /\ Len(traces) = Len(split)

\* Upstream keeps the order of the hypotheses where it does not name them; a
\* line that cannot be read is passed over.
Reports(n) ==
  LET line == [about : 1 .. n, named : BOOLEAN, label : RawLabel]
      files == UNION {[1 .. m -> line] : m \in 0 .. n}
      about(f) == [i \in DOMAIN f |-> f[i].about]
  IN  {f \in files : /\ IsInjective(about(f))
                     /\ (\E i \in DOMAIN f : ~f[i].named)
                           => \A i, j \in DOMAIN f : i < j => f[i].about < f[j].about}

JudgeAnswers ==
  /\ AllAsked
  /\ report' \in Reports(Len(split))
  /\ phase' = "judged"
  /\ UNCHANGED <<split, installed, traces, audit, outcomes, priority>>

\* FakeJudge: a turn of a gold session was selected, or there is no gold and
\* nothing was.
FakeVerdict(k) ==
  LET chosen == ToSet(traces[k].got.context)
  IN  IF split[k].gold = {} THEN chosen = {} ELSE \E t \in chosen : Session[t] \in split[k].gold

FakeJudgeAnswers ==
  /\ AllAsked
  /\ report' = [k \in DOMAIN split |->
                  [about |-> k, named |-> TRUE,
                   label |-> CHOOSE l \in RawLabel : (l \in Truthy) = FakeVerdict(k)]]
  /\ phase' = "judged"
  /\ UNCHANGED <<split, installed, traces, audit, outcomes, priority>>

JudgeRaises ==
  /\ AllAsked
  /\ phase' = "raised"
  /\ UNCHANGED <<split, installed, traces, audit, report, outcomes, priority>>

-----------------------------------------------------------------------------
(* The join *)

\* Mutant: every line is taken to be about the hypothesis at its position.
ByPosition(i) == i

\* _parse_per_question_results: a line without an id is about the hypothesis
\* at its position.
QuestionOf(i) == IF report[i].named THEN report[i].about ELSE i

\* The last line about a question wins; without one it counts as wrong.
Verdict(k) ==
  LET lines == {i \in DOMAIN report : QuestionOf(i) = k}
  IN  lines # {} /\ report[CHOOSE i \in lines : \A j \in lines : j <= i].label \in Truthy

Outcome(k) ==
  LET r == traces[k].got
  IN  [gold |-> split[k].gold, marked |-> split[k].marked, correct |-> Verdict(k),
       context |-> r.context, decisions |-> r.decisions, truncated |-> r.truncated,
       ranked |-> r.ranked, scores |-> r.scores, scoreError |-> r.scoreError,
       error |-> traces[k].error]

Join ==
  /\ phase = "judged"
  /\ outcomes' = [k \in DOMAIN split |-> Outcome(k)]
  /\ phase' = "joined"
  /\ UNCHANGED <<split, installed, traces, audit, report, priority>>

\* A caller proposes a regime for what fits none (at most one here); a name
\* that is registered is refused.
RegisterRegime ==
  /\ phase = "joined" /\ priority = PRIORITY
  /\ \E p \in Proposals : p[1] \notin ToSet(priority) /\ priority' = Registered(priority, p[1], p[2])
  /\ UNCHANGED <<phase, split, installed, traces, audit, report, outcomes>>

MeasureNext ==
  \/ AskReader \/ ReaderRaises
  \/ JudgeAnswers \/ FakeJudgeAnswers \/ JudgeRaises
  \/ Join \/ RegisterRegime

-----------------------------------------------------------------------------
(* The sandbox gate on probes built from the outcomes: it hands the draft a *)
(* copy of the scores and wants no turn back that was not in it.            *)

Probes == [i \in DOMAIN outcomes \cap (1 .. NProbes) |-> outcomes[i].scores]

\* Mutant: the keys of what comes back are not compared.
PassesAnyKeys(f, probes) == \A i \in DOMAIN probes : Returns(f, probes[i]) # {}

PassesSandbox(f, probes) ==
  \A i \in DOMAIN probes :
    \E out \in Returns(f, probes[i]) : DOMAIN out \subseteq DOMAIN probes[i]

-----------------------------------------------------------------------------
(* The context is within the budget and packed: what scored and was left    *)
(* out does not fit any more, and what was dropped at the budget stays out  *)
(* (behavior_assemble; the detectors read both off the decisions).          *)
ContextIsPacked ==
  \A k \in DOMAIN traces :
    LET r == traces[k].got
        cost(t) == split[k].cost[t]
        chosen == ToSet(r.context)
    IN  /\ r.running = MapThenSumSet(cost, chosen) /\ r.running <= Budget
        /\ \A t \in DOMAIN r.scores \cap Turn :
             r.scores[t] > 0 => t \in chosen \/ r.running + cost(t) > Budget
        /\ \A i \in DOMAIN r.decisions :
             r.decisions[i].why = "budget" => r.decisions[i].turn \notin chosen

\* What the embedder refuses of the batches that failed.
Refused(q) ==
  {x \in q.fault.rejects : /\ q.signal = "embedding"
                           /\ (IF x = Query THEN "query" ELSE "turns") \in q.fault.calls}

\* A batch that fails costs no score: embedded one by one, every turn keeps the
\* score that is its own, zero just for the turns the embedder refuses (all, if
\* it refuses the question), and what it refuses is in the report's audit, unless
\* the scoring or the reader raises after (_embed_resilient, run_on_split).
RejectionsStayLocal ==
  \A k \in DOMAIN traces : LET q == split[k] r == traces[k].got IN
    ~traces[k].lost /\ ~r.scoreError =>
      /\ {x \in Turn \cup {Query} : <<k, x>> \in audit} = Refused(q)
      /\ q.signal = "embedding" /\ installed = <<>> =>
           /\ "turns" \in q.fault.calls => DOMAIN r.scores = Turn
           /\ \A t \in DOMAIN r.scores :
                 r.scores[t] = IF {t, Query} \cap Refused(q) = {} THEN q.close[t] ELSE 0

\* A verdict counts for the question it was given on, in whatever order the
\* judge wrote them, as long as no line was lost or every line names its
\* question (_parse_per_question_results, run_on_split).
VerdictsAreOwn ==
  Len(report) = Len(split) \/ (\A i \in DOMAIN report : report[i].named) =>
    \A k \in DOMAIN outcomes :
      outcomes[k].correct <=> \E i \in DOMAIN report : report[i].about = k /\ report[i].label \in Truthy

\* A question whose marked evidence never ranked well is not diagnosed as
\* recoverable, whichever regime is registered where (PRIORITY's comment).
NeverRetrievedIsAWall ==
  \A k \in DOMAIN outcomes : LET o == outcomes[k] IN
    /\ ~o.correct /\ o.marked # {}
    /\ \A i \in DOMAIN o.ranked : o.ranked[i] \in o.marked => i > WellRankedK
    => Classify(priority, o) \notin ReachableRegimes

\* The rows of the histogram share the failures out: each is in exactly one
\* (histogram, classify, register_regime).
FailuresCountedOnce ==
  LET rows == Histogram(priority, outcomes) IN
    \A k \in DOMAIN outcomes :
      Cardinality({i \in DOMAIN rows : k \in rows[i]}) = IF outcomes[k].correct THEN 0 ELSE 1

\* What is diagnosed is what failed, each failure once and in its place.
FailuresDiagnosed == NeverRetrievedIsAWall /\ FailuresCountedOnce

\* A draft the sandbox let through does on the seam what it did there: it is
\* applied to the probed scores, and to no turn it was not given.
SeamHonoursSandbox ==
  \A f \in Authored : PassesSandbox(f, Probes) =>
    \A i \in DOMAIN Probes : \A out \in Returns(f, Probes[i]) :
      LET r == ApplyPipeline(<<f>>, Probes[i])
      IN  r.names = <<f>> /\ \A t \in DOMAIN Probes[i] : r.scores[t] = ScoreOf(out, t)
=============================================================================
