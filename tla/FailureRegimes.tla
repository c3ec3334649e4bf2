--------------------------- MODULE FailureRegimes ---------------------------
(***************************************************************************)
(* The failure taxonomy of the long-memory target (src/core/loop/regimes): *)
(* one detector per regime, tried in an order of priority.  An outcome is  *)
(* what a question's retrieval left, with its gold sessions, its marked    *)
(* evidence turns and the verdict of the judge.                            *)
(***************************************************************************)
EXTENDS Retrieval

CONSTANTS
  WellRankedK,     \* WELL_RANKED_K
  Proposed(_, _)   \* Proposed(name, o): the detector of a registered regime

ASSUME TaxonomyAssumption == WellRankedK \in Nat

PRIORITY == <<"scoring-error", "retrieval-signal-gap", "budget-truncation",
              "assembly-crowding", "assemble-internal", "unclassified">>

\* REGIME_TO_TYPES, as far as there is a type.
ReachableRegimes == {"budget-truncation", "assembly-crowding", "assemble-internal"}

-----------------------------------------------------------------------------
(* The detectors reason about the marked evidence turns, or about any turn *)
(* of a gold session where the data marks none.                            *)
\* Mutant: any turn of a gold session, although the data marks the evidence.
GoldSessionTurns(o) == {t \in Turn : Session[t] \in o.gold}

GoldTurns(o) ==
  IF o.marked # {} THEN o.marked ELSE {t \in Turn : Session[t] \in o.gold}

GoldScored(o) == GoldTurns(o) \cap DOMAIN o.scores # {}

WellRanked(o) ==
  GoldTurns(o) \cap {o.ranked[i] : i \in DOMAIN o.ranked \cap (1 .. WellRankedK)}

\* ASSEMBLE_COVERAGE_FLOOR is one half.
CoverageReached(o) == 2 * Cardinality(WellRanked(o) \cap ToSet(o.context)) >= Cardinality(WellRanked(o))

GoldDroppedAtBudget(o) ==
  \E i \in DOMAIN o.decisions :
    /\ o.decisions[i].turn \in GoldTurns(o)
    /\ ~o.decisions[i].included
    /\ o.decisions[i].why = "budget"

detect_scoring_error(o) == o.scoreError \/ (o.gold # {} /\ ~GoldScored(o))

detect_retrieval_signal_gap(o) == o.gold # {} /\ GoldScored(o) /\ WellRanked(o) = {}

detect_budget_truncation(o) ==
  o.truncated /\ WellRanked(o) # {} /\ GoldDroppedAtBudget(o)

detect_assembly_crowding(o) ==
  o.gold # {} /\ GoldScored(o) /\ WellRanked(o) # {} /\ ~CoverageReached(o)

detect_assemble_internal(o) ==
  o.gold # {} /\ GoldScored(o) /\ WellRanked(o) # {} /\ CoverageReached(o) /\ ~o.correct

Detects(regime, o) ==
  CASE regime = "scoring-error"        -> detect_scoring_error(o)
    [] regime = "retrieval-signal-gap" -> detect_retrieval_signal_gap(o)
    [] regime = "budget-truncation"    -> detect_budget_truncation(o)
    [] regime = "assembly-crowding"    -> detect_assembly_crowding(o)
    [] regime = "assemble-internal"    -> detect_assemble_internal(o)
    [] regime = "unclassified"         -> TRUE
    [] OTHER                           -> Proposed(regime, o)

-----------------------------------------------------------------------------
(* The registry is its priority list. *)

\* register_regime: behind the named regime, behind the last if there is none.
Registered(priority, name, after) ==
  LET at == IF after \in ToSet(priority)
            THEN CHOOSE i \in DOMAIN priority : priority[i] = after
            ELSE Len(priority)
  IN  InsertAt(priority, at + 1, name)

Classify(priority, o) ==
  priority[CHOOSE i \in DOMAIN priority :
             /\ Detects(priority[i], o)
             /\ \A j \in 1 .. (i - 1) : ~Detects(priority[j], o)]

InRow(priority, regime, o) == Classify(priority, o) = regime

\* The failures only, one row per regime: the positions of its outcomes.
Histogram(priority, outcomes) ==
  [i \in DOMAIN priority |->
     {k \in DOMAIN outcomes : ~outcomes[k].correct /\ InRow(priority, priority[i], outcomes[k])}]
=============================================================================
