--------------------------- MODULE MCMeasuredLoop ---------------------------
(***************************************************************************)
(* Two questions over a haystack of two sessions of two turns, the second  *)
(* of which is the older one.  The first question ranges over all          *)
(* rankings, prices and markings of a wide set, the second over a few; the *)
(* loop's later measurements may answer anything its two regimes allow.    *)
(***************************************************************************)
EXTENDS MeasuredLoop

MCTurns   == <<"a0", "a1", "b0", "b1">>
MCSession == [a0 |-> "A", a1 |-> "A", b0 |-> "B", b1 |-> "B"]
MCPlace   == [b0 |-> 1, b1 |-> 2, a0 |-> 3, a1 |-> 4]
MCIdf(n, df) == n + 1 - df

-----------------------------------------------------------------------------
(* Questions *)
NoFault == [calls |-> {}, short |-> {}, rejects |-> {}, raises |-> FALSE]
Silent  == [t \in Turn |-> {}]
Cheap   == [t \in Turn |-> 2]
Dear    == [a0 |-> 2, a1 |-> 3, b0 |-> 4, b1 |-> 2]

Question(close, cost, gold, marked) ==
  [signal |-> "embedding", close |-> close, tokens |-> Silent, asks |-> {}, cost |-> cost,
   gold |-> gold, marked |-> marked, fault |-> NoFault]

Close(i, j, k, l) == [a0 |-> i, a1 |-> j, b0 |-> k, b1 |-> l]

Closes    == [Turn -> {0, 1}] \cup {c \in [Turn -> 0 .. 3] : IsInjective(c) /\ c["b0"] < c["a0"]}
Ranking   == {Question(c, cost, {"B"}, m) :
                c \in Closes, cost \in {Cheap, Dear}, m \in {{}, {"b0", "b1"}}}
Plain     == Question(Close(2, 1, 0, 1), Dear, {"B"}, {"b1"})
Abstains  == Question(Close(0, 0, 0, 0), Dear, {}, {})
Lost      == Question(Close(2, 1, 1, 2), Cheap, {"C"}, {"c0"})
Negative  == Question(Close(-1, -1, -2, -1), Dear, {"B"}, {})
\* A failed batch may be refused for its inputs or for nothing in them; a short one
\* matters where it is not sent again.
Failing   == {[NoFault EXCEPT !.calls = c, !.rejects = x] :
                c \in SUBSET Calls, x \in {{}, {"a0"}, {"b1", "a1"}, {"a1", Query}}}
             \cup {[NoFault EXCEPT !.short = s, !.calls = c] : s \in SUBSET Calls, c \in {{}, {"turns"}}}
             \cup {[NoFault EXCEPT !.raises = TRUE, !.calls = {"turns"}, !.rejects = {"a0"}]}
Faulty    == {[Plain EXCEPT !.fault = f] : f \in Failing}
Lexical   == {[Plain EXCEPT !.signal = "lexical", !.tokens = w, !.asks = a] :
                a \in SUBSET {"x", "y"},
                w \in {[Silent EXCEPT !["b1"] = {"x", "y"}, !["a0"] = {"x"}, !["a1"] = u] :
                         u \in SUBSET {"x", "y"}}}

Odd == Faulty \cup Lexical \cup {Plain, Abstains, Lost, Negative}

-----------------------------------------------------------------------------
(* Transforms, by what they leave in the dict and what they return. *)
MCWrites(f, s) ==
  CASE f = "scribbles" /\ DOMAIN s # {} -> [t \in DOMAIN s |-> 0]
    [] OTHER -> s

MCReturns(f, s) ==
  CASE f = "reverses" -> {[t \in DOMAIN s |-> 2 - s[t]]}
    [] f = "filters"  -> {[t \in {u \in DOMAIN s : s[u] > 1} |-> s[t]]}
    [] f = "invents"  -> {[t \in DOMAIN s \cup {"z0"} |-> 1]}
    [] OTHER          -> {}           \* "raises", "scribbles"

MCAuthored  == {"reverses", "filters", "invents", "scribbles", "raises"}
MCPipelines == {<<"filters", "raises", "reverses">>, <<"scribbles", "invents">>}

MCSetups == {<< <<q, Plain>>, <<>> >> : q \in Ranking \cup Odd}
            \cup {<< <<q, Plain>>, p>> : p \in MCPipelines, q \in {Plain, Lost, Negative}}

MCProposed(name, o) == o.truncated
MCProposals == {<<"proposed", "scoring-error">>, <<"proposed", "no such regime">>, <<"budget-truncation", "unclassified">>}

-----------------------------------------------------------------------------
(* The loop *)
MCRegimes == ToSet(PRIORITY) \cup {"proposed"}
MCBefore(g, h) == g = "assemble-internal" \/ h = "budget-truncation"

MCQids       == {"q1", "q2"}
MCQuestionAt == <<"q1", "q2">>
MCConfirm    == {"c1"}

Draft(g, fn) == [name |-> g, fn |-> fn, seam |-> "list", regime |-> g]
MCDraftsOf(g) == {[Draft(g, "only") EXCEPT !.seam = IF g = "budget-truncation" THEN "dict" ELSE "list"]}

\* The first measurement is the backend's; the later ones show one of three
\* results, whatever is installed, so they may contradict each other.
MCLater == {[q \in MCQids |-> Correct],
            [q \in MCQids |-> IF q = "q1" THEN "budget-truncation" ELSE Correct],
            [q \in MCQids |-> "assembly-crowding"]}

MCPossible(pipe, r) ==
  \/ DOMAIN r = MCQids /\ (pipe = {} \/ r \in MCLater)
  \/ DOMAIN r = MCConfirm /\ \A c \in MCConfirm : r[c] \in {Correct, "budget-truncation"}
=============================================================================
