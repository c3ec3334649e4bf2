---------------------------- MODULE FmhaStudies ----------------------------
(***************************************************************************)
(* The attention kernels of the studies: 1-FMHA/AttentionFMHA.py and its   *)
(* versions 2 and 3, and 2-LLM-from-scratch/src/cutile_kernel.py as the    *)
(* GPT of model_cutile.py calls it.  They share one launcher, cutile_fmha, *)
(* and differ in how tiles reach the block and what is behind a tensor's   *)
(* end.                                                                    *)
(***************************************************************************)
EXTENDS FlashTile, Sequences

CONSTANTS StudyConfigs,   \* the search space of tune_cutile_fmha, as <<TILE_M, TILE_N>>
          ModelTile       \* tile_m = tile_n of model_cutile.py, and its threshold on T

\* cutile_fmha: EVEN_K is about the tile width of this launch.
StudyLaunch(c, kernel, cfg) ==
  [kernel |-> kernel, batch |-> c.batch, heads |-> c.heads, group |-> c.heads \div c.kvHeads,
   qlen |-> c.qlen, klen |-> c.klen, pos |-> c.pos, causal |-> c.causal,
   tm |-> cfg[1], tn |-> cfg[2], evenK |-> c.klen % cfg[2] = 0]

\* The checks cutile_fmha of AttentionFMHA.py makes of its arguments.
StudyAccepts(c) == c.heads % c.kvHeads = 0

Bare(l, b, st, j) ==
  Meet(l, st, j, LAMBDA i : Query(l, b, i, UndefRow), LAMBDA n : KeyRow(l, b, n, UndefRow),
       LAMBDA n : KeyRow(l, b, n, UndefRow), LAMBDA i, n : ~Masked(l, b[1], j, i, n))
FmhaV1Round(l, b, st, j) == Bare(l, b, st, j)
\* Version 3 loads with a latency hint.
FmhaV3Round(l, b, st, j) == Bare(l, b, st, j)

\* Version 2 stages tiles in shared memory; the block carries what is staged.
StagedBegin(l, b) ==
  [rows |-> FmhaBegin(l), q |-> [i \in 0 .. l.tm - 1 |-> Query(l, b, i, UndefRow)], k |-> <<>>, v |-> <<>>]
StagedRound(l, b, st, j) ==
  LET staged == [n \in j * l.tn .. (j + 1) * l.tn - 1 |-> KeyRow(l, b, n, UndefRow)] IN
  [st EXCEPT !.k = staged, !.v = staged,
             !.rows = Meet(l, @, j, LAMBDA i : st.q[i], LAMBDA n : staged[n], LAMBDA n : staged[n],
                           LAMBDA i, n : ~Masked(l, b[1], j, i, n))]

\* cutile_kernel.py pads every tile with zeros.
PaddedRound(l, b, st, j) ==
  Meet(l, st, j, LAMBDA i : Query(l, b, i, ZeroRow), LAMBDA n : KeyRow(l, b, n, ZeroRow),
       LAMBDA n : KeyRow(l, b, n, ZeroRow), LAMBDA i, n : ~Masked(l, b[1], j, i, n))

\* The kernel of compare_FMHA.py pads them too.
ComparedRound(l, b, st, j) == PaddedRound(l, b, st, j)

\* CausalSelfAttention.forward: a prompt shorter than the tile is padded with
\* zero rows to the tile, a longer one is not; with a KV cache the new token is
\* the only query, not masked, over all that is cached and itself.
Padded(c) == c.causal /\ c.klen < ModelTile
GptCall(c) ==
  [batch |-> c.batch, heads |-> c.heads, kvHeads |-> c.kvHeads, qlen |-> c.qlen, klen |-> c.klen,
   causal |-> c.causal, pos |-> IF c.causal THEN 0 ELSE c.klen - 1,
   width |-> IF Padded(c) THEN ModelTile ELSE c.klen]
GptLaunch(c) ==
  LET g == GptCall(c) IN
  [StudyLaunch(g, "gpt", <<ModelTile, ModelTile>>) EXCEPT
     !.qlen = IF Padded(c) THEN g.width ELSE @, !.klen = g.width, !.evenK = g.width % ModelTile = 0]
\* The rows F.pad added are zeros inside the tensors.
GptRow(c, row) == IF row \notin Padding /\ row[3] >= c.klen THEN ZeroRow ELSE row
GptRound(l, b, st, j, c) ==
  Meet(l, st, j, LAMBDA i : IF b[1] * l.tm + i >= c.qlen THEN ZeroRow ELSE Query(l, b, i, ZeroRow),
       LAMBDA n : GptRow(c, KeyRow(l, b, n, ZeroRow)), LAMBDA n : GptRow(c, KeyRow(l, b, n, ZeroRow)),
       LAMBDA i, n : ~Masked(l, b[1], j, i, n))

-----------------------------------------------------------------------------
StudyAttention(c, pos, q) ==
  LET kv(n) == <<q[1], q[2] \div (c.heads \div c.kvHeads), n>> IN
  Softmax(q, {n \in 0 .. c.klen - 1 : c.causal => n <= pos + q[3]}, LAMBDA n : kv(n), LAMBDA n : kv(n))
=============================================================================
