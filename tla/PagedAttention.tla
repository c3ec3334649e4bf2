--------------------------- MODULE PagedAttention ---------------------------
(***************************************************************************)
(* The attention layer of micro-vLLM over the paged KV cache               *)
(* (nanovllm/layers/attention.py and cutile_attention.py): the new keys    *)
(* and values are stored at their slots, then the prefill kernels read the *)
(* keys of each sequence from the batch, from padded copies or through the *)
(* block table, and the decode kernel through the block table.             *)
(*                                                                         *)
(* A batch is a sequence of records: a sequence's name, how many of its    *)
(* tokens have keys in the cache, how many are new, and its block table.   *)
(* The row of token n of sequence s is <<s, head, n>>; sequences that      *)
(* share a prefix share its rows through Owner.                            *)
(***************************************************************************)
EXTENDS FlashTile, Sequences

CONSTANTS PageSize,       \* kvcache_block_size
          CacheTile,      \* the 64 of tile_m, tile_n = 64, 64
          QHeads, KvHeads,
          Owner(_, _),    \* the first sequence whose prefix ends with token n of s
          Strategies      \* the values of NANO_VLLM_CUTILE_PREFILL_STRATEGY

Token(s, n) == <<Owner(s, n), n>>
Lens(r) == r.cached + r.new
Group == QHeads \div KvHeads

\* slot_mapping, as prepare_prefill and prepare_decode fill it; -1 pads a graph's batch.
SlotOf(r, n) == r.table[n \div PageSize + 1] * PageSize + (n % PageSize)
NewTokens(c) ==
  UNION {{i} \X (c.seqs[i].cached .. Lens(c.seqs[i]) - 1) : i \in DOMAIN c.seqs}

\* store_kvcache: a program of the grid per token; slot -1 is skipped.
StoreLaunch(c) == [kernel |-> "store_kvcache", call |-> c]
StoreGrid(l) == NewTokens(l.call) \cup {<<0, p>> : p \in 1 .. l.call.pad}
StoreSlot(l, b) == IF b[1] = 0 THEN -1 ELSE SlotOf(l.call.seqs[b[1]], b[2])
StoreToken(l, b) ==
  [a \in {<<"cache", StoreSlot(l, b)>> : x \in {y \in {b} : StoreSlot(l, y) # -1}} |->
     Token(l.call.seqs[b[1]].name, b[2])]

\* The cache as a tile: row `offset' of a page, or zeros outside the cache.
CacheRow(mem, page, offset) ==
  IF offset >= PageSize THEN ZeroRow
  ELSE IF <<"cache", page * PageSize + offset>> \in DOMAIN mem THEN mem[<<"cache", page * PageSize + offset>>]
  ELSE StaleRow
InHead(row, head) == IF row \in Padding THEN row ELSE <<row[1], head \div Group, row[2]>>

\* Which way cutile_fmha_prefill goes: paged when block tables are passed,
\* that is when a sequence of the batch has cached tokens.
Paged(c) == \E i \in DOMAIN c.seqs : c.seqs[i].cached > 0
PrefillPath(c) ==
  IF c.decode THEN "decode"
  ELSE IF Paged(c) THEN "paged"
  ELSE IF c.strategy = "padded" \/ (c.strategy = "hybrid" /\ Len(c.seqs) > 1) THEN "padded"
  ELSE "direct"

\* Mutant: the tile is not fitted to the page.
PagedTileFixed == CacheTile

\* tile_n becomes the page when the page is not a multiple of the tile.
PagedTile == IF PageSize % CacheTile # 0 THEN PageSize ELSE CacheTile

\* One launch per sequence, whose keys start q_start_in_k before its queries.
SeqLaunch(c, i, kernel) ==
  LET r == c.seqs[i] IN
  [kernel |-> kernel, call |-> c, seq |-> i, batch |-> 1, heads |-> QHeads, group |-> Group,
   qlen |-> r.new, klen |-> IF kernel = "paged_prefill" THEN Lens(r) ELSE r.new,
   pos |-> IF kernel = "paged_prefill" THEN Max({0, Lens(r) - r.new}) ELSE 0,
   tm |-> CacheTile, tn |-> IF kernel = "paged_prefill" THEN PagedTile ELSE CacheTile, causal |-> TRUE]
\* The padded copies: one launch, K.shape[2] counts the padding.
PadTo(c) == Max({CacheTile} \cup {CeilDiv(c.seqs[i].new, CacheTile) * CacheTile : i \in DOMAIN c.seqs})
PaddedLaunch(c) ==
  [kernel |-> "padded_prefill", call |-> c, batch |-> Len(c.seqs), heads |-> QHeads, group |-> Group,
   qlen |-> PadTo(c), klen |-> PadTo(c), pos |-> 0, tm |-> CacheTile, tn |-> CacheTile, causal |-> TRUE]
DecodeLaunch(c) ==
  [kernel |-> "paged_decode", call |-> c, batch |-> Len(c.seqs), heads |-> QHeads, group |-> Group,
   qlen |-> 1, klen |-> 0, pos |-> 0, tm |-> 1, tn |-> PageSize, causal |-> FALSE]

\* fmha_prefill_kernel: the bound on k_seqlen is always applied.
DenseRound(l, b, st, j, Q(_), K(_)) ==
  Meet(l, st, j, Q, K, K,
       LAMBDA i, n : n < l.klen /\ ~MaskedCausal(l, b[1], j, i, n))
Named(c, i, row) == IF row \in Padding THEN row ELSE <<Owner(c.seqs[i].name, row[3]), row[2], row[3]>>
QueryOf(l, b, i, r) ==
  IF b[1] * l.tm + i < r.new THEN <<r.name, HeadOf(l, b), r.cached + b[1] * l.tm + i>> ELSE ZeroRow
DirectRound(l, b, st, j) ==
  DenseRound(l, b, st, j, LAMBDA i : QueryOf(l, b, i, l.call.seqs[l.seq]),
             LAMBDA n : Named(l.call, l.seq, KeyRow(l, b, n, ZeroRow)))
\* The copies are torch.empty: behind a sequence's end is what was there before.
PaddedPrefillRound(l, b, st, j) ==
  LET r == l.call.seqs[BatchOf(l, b) + 1] IN
  DenseRound(l, b, st, j, LAMBDA i : IF b[1] * l.tm + i < r.new THEN QueryOf(l, b, i, r) ELSE StaleRow,
             LAMBDA n : IF n < r.new THEN Named(l.call, BatchOf(l, b) + 1, KeyRow(l, b, n, ZeroRow)) ELSE StaleRow)

\* fmha_prefill_paged_kernel: `block_tile' is the offset of the tile in its
\* page and is used as an index of tiles: of V's tokens, and, through `order',
\* of K's head dimension, while K's tokens are always those of tile 0.
BlockTile(l, j) == (j * l.tn) % PageSize
PageAt(l, token) == l.call.seqs[l.seq].table[token \div PageSize + 1]
PagedK(l, b, j, n, mem) ==
  IF BlockTile(l, j) # 0 THEN ZeroRow
  ELSE InHead(CacheRow(mem, PageAt(l, j * l.tn), n - j * l.tn), HeadOf(l, b))
PagedV(l, b, j, n, mem) ==
  InHead(CacheRow(mem, PageAt(l, j * l.tn), BlockTile(l, j) * l.tn + n - j * l.tn), HeadOf(l, b))
PagedRound(l, b, st, j, mem) ==
  Meet(l, st, j, LAMBDA i : QueryOf(l, b, i, l.call.seqs[l.seq]),
       LAMBDA n : PagedK(l, b, j, n, mem), LAMBDA n : PagedV(l, b, j, n, mem),
       LAMBDA i, n : n < l.klen /\ ~MaskedCausal(l, b[1], j, i, n))

\* paged_decode_kernel: a block per sequence and head walks over its pages, and
\* only the last is masked; a page of the table may be -1 behind the context.
DecodeRounds(l, b) == CeilDiv(Lens(l.call.seqs[BatchOf(l, b) + 1]), PageSize)
DecodeRound(l, b, st, j, mem) ==
  LET r == l.call.seqs[BatchOf(l, b) + 1]
      row(n) == InHead(CacheRow(mem, r.table[j + 1], n - j * PageSize), HeadOf(l, b)) IN
  Meet(l, st, j, LAMBDA i : <<r.name, HeadOf(l, b), r.cached>>, row, row,
       LAMBDA i, n : j = DecodeRounds(l, b) - 1 => n < Lens(r))

\* Out rows go to the batch's place in the flat output; padding is cut away.
SeqStore(l, b, st, r) ==
  LET rows == {i \in 0 .. l.tm - 1 : b[1] * l.tm + i < r.new}
      at(i) == <<"out", r.name, HeadOf(l, b), r.cached + b[1] * l.tm + i>>
  IN [a \in {at(i) : i \in rows} |-> Normalised(st[a[4] - r.cached - b[1] * l.tm])]

-----------------------------------------------------------------------------
\* Every new token of a sequence sees the tokens up to itself, cached or new.
NewRows(c) ==
  UNION {{c.seqs[i].name} \X (0 .. QHeads - 1) \X (c.seqs[i].cached .. Lens(c.seqs[i]) - 1) : i \in DOMAIN c.seqs}
ContextOf(q) ==
  LET kv(n) == <<Owner(q[1], n), q[2] \div Group, n>> IN
  Softmax(q, 0 .. q[3], LAMBDA n : kv(n), LAMBDA n : kv(n))
=============================================================================
