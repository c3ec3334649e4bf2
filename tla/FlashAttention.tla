--------------------------- MODULE FlashAttention ---------------------------
(***************************************************************************)
(* 2-LLM-from-scratch/src/attention.py: inference (tile_fmha), training    *)
(* (fmha_forward_with_lse, _fmha_backward) and the tile configurations     *)
(* they are tuned over.  A launch is a record of a kernel's arguments; the *)
(* flat arrays LSE and Delta are indexed as the kernels index them.        *)
(***************************************************************************)
EXTENDS FlashTile, Sequences, Bags

CONSTANTS FwdConfigs,     \* _fmha_autotune_configs, as <<TILE_M, TILE_N>>
          DkDvConfigs,    \* _fmha_bwd_dkdv_autotune_configs
          DqConfigs       \* _fmha_bwd_dq_autotune_configs

ConfigsOf(s) == {s[i] : i \in DOMAIN s}
MaxTileN == Max({c[2] : c \in ConfigsOf(FwdConfigs)})
BwdConfigs == ConfigsOf(DkDvConfigs) \cup ConfigsOf(DqConfigs)
MaxTileM == Max({c[1] : c \in BwdConfigs})
PreprocessTileM == Min({c[1] : c \in BwdConfigs})

Shape(c) == [batch |-> c.batch, heads |-> c.heads, group |-> c.heads \div c.kvHeads,
             qlen |-> c.qlen, klen |-> c.klen, causal |-> c.causal]

\* _tile_prefill_fmha: EVEN_K for every tile width the tuner may choose.
InferLaunch(c, cfg) ==
  Shape(c) ++ [kernel |-> "fmha", pos |-> c.klen - c.qlen, tm |-> cfg[1], tn |-> cfg[2],
               evenK |-> c.klen % MaxTileN = 0]
\* The key of _fmha_fwd_tune_cache: neither k_len nor input_pos is part of it.
TuneKey(c) == <<c.batch, c.heads, c.qlen, c.heads \div c.kvHeads, c.causal, c.klen % MaxTileN = 0>>

\* fmha_forward_with_lse: the first configuration, LSE padded to its TILE_M.
PaddedQ(c, tm) == CeilDiv(c.qlen, tm) * tm
ForwardLaunch(c) ==
  Shape(c) ++ [kernel |-> "fmha_lse", pos |-> 0, tm |-> FwdConfigs[1][1], tn |-> FwdConfigs[1][2],
               seq |-> PaddedQ(c, FwdConfigs[1][1]), evenK |-> c.klen % MaxTileN = 0]
\* The flat index into the padded statistics.
Flat(l, b, i) == BatchOf(l, b) * (l.heads * l.seq) + HeadOf(l, b) * l.seq + b[1] * l.tm + i
FlatSize(c, seq) == 0 .. c.batch * c.heads * seq - 1

\* _fmha_fwd_kernel_with_lse: here the rows behind Q are not zeros.
FmhaLseRound(l, b, st, j) ==
  Meet(l, st, j, LAMBDA i : Query(l, b, i, UndefRow), LAMBDA n : KeyRow(l, b, n, UndefRow),
       LAMBDA n : KeyRow(l, b, n, UndefRow), LAMBDA i, n : ~Masked(l, b[1], j, i, n))
\* An entry of LSE is a sum of exponents by key; these are no row's.
Undefined == Entry(-1, 0)
Infinite == Entry(-2, 0)
\* m_i + log2(l_i), as the exponents it sums.
LogSum(row) == [n \in DOMAIN row.w |-> row.w[n].e + row.m]
\* The scatter has no bounds but the array's own.
FmhaLseStore(l, b, st) ==
  StoreRows(l, b, "O", LAMBDA i : Normalised(st[i]))
  ++ [a \in {<<"LSE", Flat(l, b, i)>> : i \in 0 .. l.tm - 1} |->
        LET i == a[2] - Flat(l, b, 0) IN
        IF Query(l, b, i, UndefRow) = UndefRow THEN Undefined ELSE LogSum(st[i])]

PaddedLseFlat(c, lse) ==
  [i \in 0 .. c.batch * c.heads * (CeilDiv(c.qlen, MaxTileM) * MaxTileM) - 1 |->
     IF i \in DOMAIN lse THEN lse[i] ELSE Infinite]

\* The rows of LSE fmha_forward_with_lse returns, and their padding with +inf
\* to the largest backward tile by _fmha_backward.
ReturnedLse(c, mem, seq) ==
  [i \in FlatSize(c, c.qlen) |-> mem[<<"LSE", (i \div c.qlen) * seq + (i % c.qlen)>>]]
PaddedLse(c, lse) ==
  LET seq == PaddedQ(c, MaxTileM) IN
  [i \in FlatSize(c, seq) |->
     IF i % seq < c.qlen THEN lse[(i \div seq) * c.qlen + (i % seq)] ELSE Infinite]

\* _fmha_bwd_preprocess_kernel: the product of the rows of O and dO.
BackwardShape(c, cfg) == Shape(c) ++ [seq |-> PaddedQ(c, MaxTileM), tm |-> cfg[1], tn |-> cfg[2]]
PreprocessLaunch(c) == BackwardShape(c, <<PreprocessTileM, 1>>) ++ [kernel |-> "preprocess"]
PreprocessStore(l, b) ==
  [a \in {<<"Delta", Flat(l, b, i)>> : i \in 0 .. l.tm - 1} |-> Query(l, b, a[2] - Flat(l, b, 0), ZeroRow)]

Gather(mem, name, i) == IF <<name, i>> \in DOMAIN mem THEN mem[<<name, i>>] ELSE UndefRow

\* What one pair of a query row and a key adds to the gradients: exp2 of the
\* score less LSE is the forward weight, and Delta is subtracted from dP.
\* Rows padded with zeros add nothing; P is cut by the causal mask alone.
Pair(q, k, mem, i) ==
  [q |-> q, k |-> k, s |-> Product(q, k), lse |-> Gather(mem, "LSE", i), delta |-> Gather(mem, "Delta", i)]

\* _fmha_bwd_dkdv_kernel: block <<x, y>> owns a tile of keys of one KV head and
\* meets, in every query head of the group, the tiles of queries from start_m on.
DkDvLaunch(c, cfg) == BackwardShape(c, cfg) ++ [kernel |-> "dkdv"]
DkDvGrid(l) == (0 .. CeilDiv(l.klen, l.tn) - 1) \X (0 .. l.batch * (l.heads \div l.group) - 1)
StartM(l, x) == IF l.causal THEN (x * l.tn) \div l.tm ELSE 0
DkDvTiles(l, x) == Max({0, CeilDiv(l.qlen, l.tm) - StartM(l, x)})
DkDvRounds(l, b) == l.group * DkDvTiles(l, b[1])
DkDvRound(l, b, st, j, mem) ==
  LET kvHeads == l.heads \div l.group
      head == (b[2] % kvHeads) * l.group + j \div DkDvTiles(l, b[1])
      at == <<StartM(l, b[1]) + (j % DkDvTiles(l, b[1])), (b[2] \div kvHeads) * l.heads + head>>
  IN [n \in DOMAIN st |->
        st[n] (+) SetToBag({Pair(Query(l, at, i, ZeroRow), <<BatchOf(l, at), b[2] % kvHeads, n>>, mem, Flat(l, at, i)) :
                     i \in {i \in 0 .. l.tm - 1 :
                              /\ Query(l, at, i, ZeroRow) # ZeroRow
                              /\ l.causal => n <= at[1] * l.tm + i}})]
DkDvBegin(l, b) == [n \in b[1] * l.tn .. (b[1] + 1) * l.tn - 1 |-> EmptyBag]
DkDvStore(l, b, st) ==
  LET kvHeads == l.heads \div l.group IN
  [a \in {<<"dKV", b[2] \div kvHeads, b[2] % kvHeads, n>> : n \in {n \in DOMAIN st : n < l.klen}} |-> st[a[4]]]

\* _fmha_bwd_dq_kernel: block <<x, y>> owns a tile of queries of one head.
\* Keys behind k_seqlen are zeros and add nothing to dQ.
DqLaunch(c, cfg) == BackwardShape(c, cfg) ++ [kernel |-> "dq"]
DqRounds(l, b) ==
  IF l.causal THEN Min({CeilDiv((b[1] + 1) * l.tm, l.tn), CeilDiv(l.klen, l.tn)}) ELSE CeilDiv(l.klen, l.tn)
DqRound(l, b, st, j, mem) ==
  [i \in DOMAIN st |->
     st[i] (+) SetToBag({Pair(Query(l, b, i, ZeroRow), KeyRow(l, b, n, ZeroRow), mem, Flat(l, b, i)) :
                  n \in {n \in j * l.tn .. (j + 1) * l.tn - 1 :
                           n < l.klen /\ (l.causal => b[1] * l.tm + i >= n)}})]
DqBegin(l) == [i \in 0 .. l.tm - 1 |-> EmptyBag]
DqStore(l, b, st) == StoreRows(l, b, "dQ", LAMBDA i : st[i])

-----------------------------------------------------------------------------
\* The keys row r may see: all, or those up to its own place in the keys.
Sees(c, pos, r) == {n \in 0 .. c.klen - 1 : c.causal => n <= pos + r}
RowsOf(c) == {<<b, h, r>> : b \in 0 .. c.batch - 1, h \in 0 .. c.heads - 1, r \in 0 .. c.qlen - 1}
Kv(c, q) == q[2] \div (c.heads \div c.kvHeads)
Attention(c, pos, q) ==
  Softmax(q, Sees(c, pos, q[3]), LAMBDA n : <<q[1], Kv(c, q), n>>, LAMBDA n : <<q[1], Kv(c, q), n>>)
\* The scores whose logarithm of sums the row's LSE has to be.
Scores(c, q) == [n \in Sees(c, 0, q[3]) |-> Product(q, <<q[1], Kv(c, q), n>>)]
TruePair(c, q, n) ==
  [q |-> q, k |-> <<q[1], Kv(c, q), n>>, s |-> Product(q, <<q[1], Kv(c, q), n>>), lse |-> Scores(c, q), delta |-> q]
=============================================================================
