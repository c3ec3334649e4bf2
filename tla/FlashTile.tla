------------------------------ MODULE FlashTile ------------------------------
(***************************************************************************)
(* The tile algorithm every attention kernel of KernelAgent is built on:   *)
(* a block owns TILE_M query rows of one head and walks over tiles of      *)
(* TILE_N keys with an online softmax (fmha_kernel_impl in                 *)
(* 2-LLM-from-scratch/src/attention.py).                                   *)
(*                                                                         *)
(* A sum is kept as its terms: the accumulator of a row is the function    *)
(* that gives, for each key it has taken in, the row of K and the row of V *)
(* it came from and the exponent of its weight, relative to the running    *)
(* maximum.  Two rows are equal when the floating point sums are sums of   *)
(* the same terms.  A row of a tensor is named by where it is.             *)
(***************************************************************************)
EXTENDS Integers, FiniteSets, FiniteSetsExt, TLC

CONSTANT Score(_, _)      \* the product of a row of Q and a row of K, scaled

NegInf == -1000           \* below every score
ZeroRow == <<"zero">>     \* what is loaded where no token wrote: padding,
UndefRow == <<"undef">>   \* what lies behind a tensor, and old contents
StaleRow == <<"stale">>
Padding == {ZeroRow, UndefRow, StaleRow}
Product(q, k) == IF q \in Padding \/ k \in Padding THEN 0 ELSE Score(q, k)

\* A tensor is a function from indices to entries: one entry, and f over g.
Entry(a, v) == [x \in {a} |-> v]
f ++ g == [x \in (DOMAIN f) \cup (DOMAIN g) |-> IF x \in DOMAIN f THEN f[x] ELSE g[x]]

CeilDiv(a, b) == (a + b - 1) \div b

\* m_i, the terms of acc and of l_i, and whether a NaN came up.
FreshRow == [m |-> NegInf, w |-> <<>>, nan |-> FALSE]

\* One step of the online softmax: m_ij, alpha, and the tile's own weights.
OnlineSoftmax(row, tile) ==
  LET top == Max({row.m} \cup {tile[n].s : n \in DOMAIN tile})
      seen == {n \in DOMAIN tile : tile[n].s # NegInf}
  IN [m |-> top,
      w |-> [n \in DOMAIN row.w |-> [row.w[n] EXCEPT !.e = @ + row.m - top]]
            ++ [n \in seen |-> [k |-> tile[n].k, v |-> tile[n].v, e |-> tile[n].s - top]],
      nan |-> row.nan \/ top = NegInf]

\* A tile of keys meets the block's rows; the kernel says what is loaded and seen.
Meet(l, st, j, Q(_), K(_), V(_), Sees(_, _)) ==
  [i \in 0 .. l.tm - 1 |->
     OnlineSoftmax(st[i],
       [n \in j * l.tn .. (j + 1) * l.tn - 1 |->
          [k |-> K(n), v |-> V(n), s |-> IF Sees(i, n) THEN Product(Q(i), K(n)) ELSE NegInf]])]

\* The block indices: x is the tile of queries, y is batch * heads + head.
BatchOf(l, b) == b[2] \div l.heads
HeadOf(l, b) == b[2] % l.heads
KvHead(l, b) == HeadOf(l, b) \div l.group
Grid(l) == (0 .. CeilDiv(l.qlen, l.tm) - 1) \X (0 .. l.batch * l.heads - 1)
Query(l, b, i, pad) ==
  IF b[1] * l.tm + i < l.qlen THEN <<BatchOf(l, b), HeadOf(l, b), b[1] * l.tm + i>> ELSE pad
KeyRow(l, b, n, pad) == IF n < l.klen THEN <<BatchOf(l, b), KvHead(l, b), n>> ELSE pad

\* Tc and mask_start.
TileCount(l, x) ==
  IF l.causal THEN CeilDiv(Min({l.pos + (x + 1) * l.tm, l.klen}), l.tn) ELSE CeilDiv(l.klen, l.tn)
\* Mutant: the mask starts with the tile behind the diagonal.
MaskStartLate(l, x) == (l.pos + (x + 1) * l.tm) \div l.tn

MaskStart(l, x) ==
  IF l.causal THEN Min({(l.pos + x * l.tm) \div l.tn, l.klen \div l.tn}) ELSE l.klen \div l.tn

\* The mask, which is only built from mask_start on.
Masked(l, x, j, i, n) ==
  /\ l.causal \/ ~l.evenK
  /\ j >= MaskStart(l, x)
  /\ ~(/\ l.evenK \/ n < l.klen
       /\ l.causal => l.pos + x * l.tm + i >= n)

\* The same without the bound on k_seqlen.
MaskedCausal(l, x, j, i, n) ==
  l.causal /\ j >= MaskStart(l, x) /\ l.pos + x * l.tm + i < n

FmhaBegin(l) == [i \in 0 .. l.tm - 1 |-> FreshRow]

\* The loop body of fmha_kernel_impl: Q is padded with zeros, K and V with
\* whatever is behind them.
FmhaRound(l, b, st, j) ==
  Meet(l, st, j, LAMBDA i : Query(l, b, i, ZeroRow), LAMBDA n : KeyRow(l, b, n, UndefRow),
       LAMBDA n : KeyRow(l, b, n, UndefRow), LAMBDA i, n : ~Masked(l, b[1], j, i, n))

Normalised(row) == IF row.nan THEN <<>> ELSE row.w

\* ct.store of a tile of rows: what lies outside the tensor is dropped.
StoreRows(l, b, name, value(_)) ==
  LET rows == {i \in 0 .. l.tm - 1 : b[1] * l.tm + i < l.qlen}
      at(i) == <<name, BatchOf(l, b), HeadOf(l, b), b[1] * l.tm + i>>
  IN [a \in {at(i) : i \in rows} |-> value(a[4] - b[1] * l.tm)]
FmhaStore(l, b, st) == StoreRows(l, b, "O", LAMBDA i : Normalised(st[i]))

-----------------------------------------------------------------------------
\* What attention is: the softmax over the keys a row may see, as terms.
Softmax(q, keys, K(_), V(_)) ==
  LET top == Max({Product(q, K(n)) : n \in keys})
  IN [n \in keys |-> [k |-> K(n), v |-> V(n), e |-> Product(q, K(n)) - top]]
=============================================================================
