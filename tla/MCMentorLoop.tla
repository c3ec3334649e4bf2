---------------------------- MODULE MCMentorLoop ----------------------------
(***************************************************************************)
(* Instances of MentorLoop for TLC.  Two reachable regimes and one wall;   *)
(* the backend is the test suite's fake reader, whose answer to a question *)
(* depends on which transforms are installed.                              *)
(***************************************************************************)
EXTENDS MentorLoop

Orphan == "concept-orphan"
Rules  == "rule-schema-mismatch"
Wall   == "unclassified"

MCRegimes   == {Orphan, Rules, Wall}
MCReachable == {Orphan, Rules}
MCBefore(g, h) == g = Orphan \/ h = Wall       \* alphabetical order of the three

\* Failure regime of each question when nothing is installed.
AtFirst == [q1 |-> Orphan, q2 |-> Orphan, q3 |-> Rules, q4 |-> Correct,
            c1 |-> Orphan, c2 |-> Correct]
MCQids        == {"q1", "q2", "q3", "q4"}
MCConfirmQids == {"c1", "c2"}
MCFloorGroups == {{"q3", "q4"}}

\* The questions a transform makes right and those it makes wrong.
Fixes == [full    |-> {"q1", "q2", "c1"}, part |-> {"q1"},
          overfit |-> {"q1", "q2"},       rule |-> {"q3"},
          shift |-> {}, trade |-> {},     useless |-> {}]
Breaks == [full |-> {}, part |-> {}, overfit |-> {"c2"}, rule |-> {},
           shift |-> {"q3"}, trade |-> {"q3", "q4"}, useless |-> {"q4"}]

\* The last installed transform that touches a question decides it.
Answer(pipe, q) ==
    LET touch == {e \in pipe : q \in Fixes[e.fn] \cup Breaks[e.fn]}
        last  == CHOOSE e \in touch : \A d \in touch : d.round <= e.round
    IN  IF touch = {} THEN AtFirst[q]
        ELSE IF q \in Fixes[last.fn] THEN Correct ELSE Wall

MCFakeReader(pipe, r) == \A q \in DOMAIN r : r[q] = Answer(pipe, q)

Draft(g, fn) == [name |-> g, fn |-> fn, seam |-> "list", regime |-> g]

\* Authors name a transform after the regime they draft for.
MCDraftsFull(g) ==
    IF g = Orphan THEN {Draft(g, f) : f \in {"full", "overfit", "useless"}}
                  ELSE {Draft(g, f) : f \in {"rule", "shift", "trade"}}
MCDraftsPartial(g) ==
    IF g = Orphan
    THEN {Draft(g, "part"), Draft(g, "full"),
          [Draft(g, "useless") EXCEPT !.seam = "dict"]}
    ELSE {[Draft(g, "rule") EXCEPT !.seam = "dict"], Draft(g, "trade")}

-----------------------------------------------------------------------------
(* behavior_rebaseline: the original baseline stays pinned for attribution.*)
AttributedToOriginal ==
    attribution # None => attribution.before = origin

(* The mentor's acceptance criterion: an applied improvement is in use in  *)
(* the next run, so every promoted transform is installed on return.       *)
NextRunUsesPromoted ==
    returned => \A i \in Promotions :
                    \E e \in pipeline : e.name = log[i].name

=============================================================================
