----------------------------- MODULE GraphDecode -----------------------------
(***************************************************************************)
(* Generation with a KV cache in 2-LLM-from-scratch                        *)
(* (compare_infer_cuda_graph.py, model_cutile.py): eagerly, over keys that *)
(* are concatenated, or by replaying one captured step whose inputs, the   *)
(* token, its position and the place its key is scattered to, are          *)
(* overwritten in place, over a static buffer no generation clears.        *)
(*                                                                         *)
(* The row of a token is <<generation, head, index, position>>: the token  *)
(* is the index-th of its text, its embedding that of the position.        *)
(***************************************************************************)
EXTENDS FlashTile, Sequences

CONSTANTS StaticLen,      \* max_seq_len of StaticGPTRunner
          StaticTile      \* its tile_m = tile_n

OfHead(row, h) == IF row \in Padding THEN row ELSE <<row[1], h, row[3], row[4]>>
Text(gen, index, pos) == <<gen, 0, index, pos>>

\* What every decoding launch has: one query row, no sharing of key heads.
StepLaunch(c, kernel, row, klen) ==
  [kernel |-> kernel, batch |-> 1, heads |-> c.heads, group |-> 1, qlen |-> 1, klen |-> klen, row |-> row,
   tm |-> StaticTile, tn |-> StaticTile, pos |-> klen - 1, causal |-> FALSE, evenK |-> klen % StaticTile = 0]
QueryRow(l, b, i, row) == IF i = 0 THEN OfHead(row, HeadOf(l, b)) ELSE ZeroRow

\* CausalSelfAttention.forward with past_kv: not causal, over all of them.
EagerLaunch(c, past) == StepLaunch(c, "eager_step", past[Len(past)], Len(past)) ++ [past |-> past]
EagerRound(l, b, st, j) ==
  LET key(n) == IF n < l.klen THEN OfHead(l.past[n + 1], HeadOf(l, b)) ELSE ZeroRow IN
  Meet(l, st, j, LAMBDA i : QueryRow(l, b, i, l.row), key, key, LAMBDA i, n : ~Masked(l, 0, j, i, n))

\* forward_step as the graph holds it: every input is read from its tensor.
CurrentRow(mem) == Text(mem[<<"input">>][1], mem[<<"input">>][2], mem[<<"step">>])
ScatterLaunch == [kernel |-> "scatter", blocks |-> 1]
ScatterStore(mem) == Entry(<<"static", mem[<<"scatter">>]>>, CurrentRow(mem))
ReplayLaunch(c) == StepLaunch(c, "graph_step", ZeroRow, StaticLen)
\* fmha_decode_kernel walks over the whole buffer and sees what is not behind
\* the step; the buffer starts as zeros.
StaticKey(mem, n, h) ==
  IF <<"static", n>> \in DOMAIN mem THEN OfHead(mem[<<"static", n>>], h) ELSE ZeroRow
\* Mutant: the buffer as it is.
SeenAll(mem, n) == TRUE
SeenSoFar(mem, n) == mem[<<"step">>] >= n
GraphRound(l, b, st, j, mem) ==
  LET key(n) == StaticKey(mem, n, HeadOf(l, b)) IN
  Meet(l, st, j, LAMBDA i : QueryRow(l, b, i, CurrentRow(mem)), key, key, LAMBDA i, n : SeenSoFar(mem, n))

-----------------------------------------------------------------------------
\* A token attends its own text up to itself, each at its own position.
OwnText(gen, h, index) ==
  Softmax(<<gen, h, index, index>>, 0 .. index, LAMBDA n : <<gen, h, n, n>>, LAMBDA n : <<gen, h, n, n>>)
=============================================================================
