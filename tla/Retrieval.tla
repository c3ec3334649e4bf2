------------------------------ MODULE Retrieval ------------------------------
(***************************************************************************)
(* The long-memory agent (src/core/agent): from a question and a haystack  *)
(* of chat turns to the context its reader sees.  agent.retrieve drives a  *)
(* chain of behaviors, each fired by the event of the one before:          *)
(* score, transform, expand, assemble.                                     *)
(*                                                                         *)
(* A question is [signal, close, tokens, asks, cost, fault, ...]: close is *)
(* the similarity of each turn to the question, tokens and asks the        *)
(* distinctive tokens of the turns and of the question, cost the tokens a  *)
(* turn takes in the context, and fault what the embedder does: the batch  *)
(* calls it fails or answers short, and the inputs it rejects.             *)
(***************************************************************************)
EXTENDS Integers, Sequences, FiniteSets, FiniteSetsExt, SequencesExt

CONSTANTS
  Turns,        \* the haystack: turn ids in the order of ingest
  Session,      \* [turn -> its session]
  Place,        \* [turn -> Nat]: (session date, session, turn) as one number
  Token,        \* the vocabulary of the lexical signal
  Idf(_, _),    \* Idf(n, df): a positive weight, falling in df
  MinSessions,  \* min_session_cooccurrence
  MaxDf,        \* int(n_turns * max_doc_freq_fraction)
  Budget,       \* token_budget
  Query,        \* the name the embedder's errors give the question
  Writes(_, _), \* Writes(f, scores): what f leaves in the dict it was handed
  Returns(_, _) \* Returns(f, scores): {the dict f returns}, {} if it raises or returns none

Turn == ToSet(Turns)

\* op(x), with x evaluated once (a matter of TLC's speed alone).
Using(x, op(_)) == CHOOSE y \in {op(z) : z \in {x}} : TRUE

ASSUME CorpusAssumption ==
  /\ Turns # <<>> /\ IsInjective(Turns)
  /\ \A t, u \in Turn : t # u => Place[t] # Place[u]
  /\ Query \notin Turn
  /\ Budget \in Nat /\ MinSessions \in Nat /\ MaxDf \in Nat
  /\ Turns \in Seq(Turn) /\ Place \in [Turn -> Nat] /\ IsFiniteSet(Token)
  /\ \A df \in 1 .. MaxDf : Idf(Len(Turns), df) \in Nat

-----------------------------------------------------------------------------
(* build_corpus: sessions and turns in input order, adjacent turns of a    *)
(* session linked, the vocabulary pruned over the whole haystack.          *)
Says(q, token) == {t \in Turn : token \in q.tokens[t]}

Vocabulary(q) ==
  {k \in Token : /\ Cardinality(Says(q, k)) \in 1 .. MaxDf
                 /\ Cardinality({Session[t] : t \in Says(q, k)}) >= MinSessions}

OfSession(s) == SelectSeq(Turns, LAMBDA t : Session[t] = s)

\* The temporal_next relations of a turn, both ways.
Adjacent(t) ==
  LET turns == OfSession(Session[t])
  IN  {u \in Turn : \E i \in 2 .. Len(turns) : {turns[i - 1], turns[i]} = {t, u}}

-----------------------------------------------------------------------------
(* score_lexical and score_embedding *)

LexicalScores(q) ==
  LET kept == Vocabulary(q)
      weight == [k \in kept |-> Idf(Len(Turns), Cardinality(Says(q, k)))]
  IN  [t \in Turn |-> MapThenSumSet(LAMBDA k : weight[k], q.tokens[t] \cap q.asks \cap kept)]

\* The vector of an input is the set with that input, the zero vector the empty
\* set: its length does not matter, a product stops at the shorter vector.
NoVectors == [vectors |-> <<>>, errors |-> {}]

\* Mutant: an input the embedder rejects gets no vector.
EmbedOrDrop(q, w, x) ==
  IF x \in q.fault.rejects THEN [w EXCEPT !.errors = @ \cup {x}]
  ELSE [w EXCEPT !.vectors = Append(@, {x})]

\* One input on its own: one that is rejected is recorded, a zero vector in its place.
EmbedAlone(q, w, x) ==
  IF x \in q.fault.rejects
  THEN [vectors |-> Append(w.vectors, {}), errors |-> w.errors \cup {x}]
  ELSE [vectors |-> Append(w.vectors, {x}), errors |-> w.errors]

\* A batch may come back short of its last input.
Answered(q, call, inputs) == Len(inputs) - IF call \in q.fault.short THEN 1 ELSE 0

\* _embed_resilient: one batch, or, if that call fails, its inputs one by one.
Embed(q, call, inputs) ==
  IF call \in q.fault.calls
  THEN FoldLeft(LAMBDA w, x : Using(w, LAMBDA v : EmbedAlone(q, v, x)), NoVectors, inputs)
  ELSE [NoVectors EXCEPT !.vectors = [k \in 1 .. Answered(q, call, inputs) |-> {inputs[k]}]]

OfTurns(q) == Embed(q, "turns", Turns)
OfQuery(q) == Embed(q, "query", <<Query>>)

Likeness(q, v, asked) ==
  IF v = {} \/ asked = {} THEN 0 ELSE q.close[CHOOSE t \in v : TRUE]

\* Turns and vectors are put together by position, to the end of the shorter.
EmbeddingScores(q) ==
  LET vectors == OfTurns(q).vectors
      at(t) == CHOOSE k \in DOMAIN Turns : Turns[k] = t
  IN  [t \in {Turns[k] : k \in DOMAIN vectors} |->
         Likeness(q, vectors[at(t)], OfQuery(q).vectors[1])]

\* Without a vector for the question there is nothing to compare with.
ScoringRaises(q) ==
  q.fault.raises \/ (q.signal = "embedding" /\ OfQuery(q).vectors = <<>>)

\* behavior_score_embedding emits the errors once the scores are there.
EmbeddingErrors(q) ==
  IF q.signal = "embedding" /\ ~ScoringRaises(q) THEN OfTurns(q).errors \cup OfQuery(q).errors
  ELSE {}

Scores(q) == IF q.signal = "lexical" THEN LexicalScores(q) ELSE EmbeddingScores(q)

ScoreOf(scores, t) == IF t \in DOMAIN scores THEN scores[t] ELSE 0

-----------------------------------------------------------------------------
(* apply_pipeline: a transform that raises, returns no dict or returns turns *)
(* it was not given is skipped; a turn it leaves out scores zero.  It is     *)
(* handed the current dict itself, so what it wrote there before stays.      *)
Accepted(f, scores) == {out \in Returns(f, scores) : DOMAIN out \subseteq DOMAIN Writes(f, scores)}

Applied(f, scores) ==
  LET left == Writes(f, scores)
  IN  IF Accepted(f, scores) = {} THEN left
      ELSE [t \in DOMAIN left |-> ScoreOf(CHOOSE out \in Accepted(f, scores) : TRUE, t)]

\* One transform more.
Piped(r, f) ==
  [scores |-> Applied(f, r.scores),
   names  |-> IF Accepted(f, r.scores) = {} THEN r.names ELSE Append(r.names, f)]

Untouched(scores) == [scores |-> scores, names |-> <<>>]

ApplyPipeline(installed, scores) ==
  IF installed = <<>> THEN Untouched(scores)
  ELSE FoldLeft(LAMBDA r, f : Using(r, LAMBDA v : Piped(v, f)), Untouched(scores), installed)

-----------------------------------------------------------------------------
(* behavior_expand and behavior_assemble *)

\* S by the strict order R: each has its place after those that come before it.
Sorted(S, R) ==
  [k \in 1 .. Cardinality(S) |->
     CHOOSE t \in S : Cardinality({u \in S : <<u, t>> \in R}) = k - 1]

Earlier == {p \in Turn \X Turn : Place[p[1]] < Place[p[2]]}
Chronological(S) == Sorted(S, Earlier)

\* By score, turns of equal score in chronological order.
Outranks(scores) ==
  {p \in Turn \X Turn : \/ ScoreOf(scores, p[1]) > ScoreOf(scores, p[2])
                        \/ ScoreOf(scores, p[1]) = ScoreOf(scores, p[2]) /\ p \in Earlier}
Ranked(scores) == Sorted(Turn, Outranks(scores))

Expansion(scores, t) == IF ScoreOf(scores, t) > 0 THEN Adjacent(t) ELSE {}

Decide(w, t, included, why) ==
  [w EXCEPT !.decisions = Append(@, [turn |-> t, included |-> included, why |-> why])]

\* Mutant: the joiner is not counted when the budget is checked.
FitsWithoutJoiner(w, n) == w.running + n - 1 <= Budget

Fits(w, n) == w.running + n <= Budget

\* _try_add.  Everything it is asked about is a turn of the haystack.
TryAdd(q, w, t, why) ==
  IF t \in w.selected THEN w
  ELSE IF Fits(w, q.cost[t])
  THEN Decide([w EXCEPT !.selected = @ \cup {t}, !.running = @ + q.cost[t]], t, TRUE, why)
  ELSE Decide([w EXCEPT !.truncated = TRUE], t, FALSE, "budget")

\* Once there is a seed, the walk ends at the first turn without a score.
Seed(q, scores, w, t) ==
  IF w.over THEN w
  ELSE IF ScoreOf(scores, t) <= 0 /\ w.seeds > 0
  THEN Decide([w EXCEPT !.over = TRUE], t, FALSE, "zero_score_post_seed")
  ELSE LET v == TryAdd(q, w, t, "seed")
       IN  [v EXCEPT !.seeds = IF t \in v.selected THEN @ + 1 ELSE @]

NothingYet == [selected |-> {}, running |-> 0, truncated |-> FALSE, decisions |-> <<>>,
               seeds |-> 0, over |-> FALSE]

Seeding(q, scores) ==
  FoldLeft(LAMBDA w, t : Using(w, LAMBDA v : Seed(q, scores, v, t)), NothingYet, Ranked(scores))

\* The neighbours of the seeds, in chronological order.
Targets(scores, w) == (UNION {Expansion(scores, t) : t \in w.selected}) \ w.selected

Expand(q, scores, w) ==
  FoldLeft(LAMBDA v, t : Using(v, LAMBDA u : TryAdd(q, u, t, "expand")), w,
           Chronological(Targets(scores, w)))

Assemble(q, scores) == Using(Seeding(q, scores), LAMBDA w : Expand(q, scores, w))

-----------------------------------------------------------------------------
(* agent.retrieve: what the loop reads off the chain's events *)

NoScores == [t \in {} |-> 0]

\* What a question without a trace or without an assembled context leaves.
Nothing ==
  [context |-> <<>>, decisions |-> <<>>, running |-> 0, truncated |-> FALSE, ranked |-> <<>>,
   scores |-> NoScores, applied |-> <<>>, scoreError |-> FALSE]

\* The scoring behavior failed: the chain ended there.
Unscored == [Nothing EXCEPT !.truncated = TRUE, !.scoreError = TRUE]

Retrieve(q, installed) ==
  IF ScoringRaises(q) THEN Unscored
  ELSE LET read(piped, w) ==
             [context |-> Chronological(w.selected), decisions |-> w.decisions,
              running |-> w.running, truncated |-> w.truncated, ranked |-> Ranked(piped.scores),
              scores |-> piped.scores, applied |-> piped.names, scoreError |-> FALSE]
       IN  Using(ApplyPipeline(installed, Scores(q)),
                 LAMBDA piped : Using(Assemble(q, piped.scores), LAMBDA w : read(piped, w)))
=============================================================================
