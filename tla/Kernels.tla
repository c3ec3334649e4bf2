------------------------------- MODULE Kernels -------------------------------
(***************************************************************************)
(* KernelAgent's programs on their devices: a host program on one CUDA     *)
(* stream (Device), or the ranks of a tensor-parallel engine               *)
(* (TensorParallel).  The two share nothing; a behaviour is one or the     *)
(* other.                                                                  *)
(***************************************************************************)
EXTENDS Device, TensorParallel

vars == <<device, ranks>>

Init ==
  \/ DeviceInit /\ RanksInit("off")
  \/ /\ RanksInit("load")
     /\ todo = <<>> /\ call = None /\ stage = "idle" /\ tuned = <<>> /\ text = [gen |-> 0, step |-> 0, past |-> <<>>]
     /\ queue = <<>> /\ resident = <<>> /\ done = {} /\ written = {} /\ mem = <<>>

OnDevice == DeviceNext /\ UNCHANGED ranks
OnRanks == RanksNext /\ UNCHANGED device
Next == OnDevice \/ OnRanks

\* The device runs what is queued on it, the host goes on, every rank's process
\* is scheduled.
Fairness == WF_device(OnDevice) /\ \A r \in Ranks : WF_ranks(RankStep(r) /\ UNCHANGED device)
Spec == Init /\ [][Next]_vars /\ Fairness

-----------------------------------------------------------------------------
Ended(kind) == stage = "launched" /\ queue = <<>> /\ call.kind = kind

\* Every output row of an attention kernel is the softmax over exactly the keys
\* it may see, once each, whatever tile configuration ran, tuned for this call
\* or cached from another, in whatever order the blocks ran (tile_fmha,
\* fmha_forward_with_lse, cutile_fmha, CausalSelfAttention.forward).
RowsAttendTheirKeys ==
  /\ Ended("infer") => \A q \in RowsOf(call) : mem[<<"O">> \o q] = Attention(call, call.klen - call.qlen, q)
  /\ stage = "forward" /\ queue = <<>> => \A q \in RowsOf(call) : mem[<<"O">> \o q] = Attention(call, 0, q)
  /\ Ended("study") => \A q \in RowsOf(call) : mem[<<"O">> \o q] = StudyAttention(call, call.pos, q)
  /\ Ended("gpt") => \A q \in RowsOf(call) :
       mem[<<"O">> \o q] = StudyAttention(call, GptCall(call).pos, q)

\* The backward kernels add, for every key, one term per query row of its group
\* that saw it, and for every query row one term per key it saw, weighted with
\* that row's own LSE and Delta though LSE changes its padding twice on the way
\* (fmha_forward_with_lse, _fmha_backward).
GradientsTakeEachPairOnce ==
  Ended("train") =>
    /\ \A q \in RowsOf(call) :
         mem[<<"dQ">> \o q] = SetToBag({TruePair(call, q, n) : n \in Sees(call, 0, q[3])})
    /\ \A b \in 0 .. call.batch - 1, g \in 0 .. call.kvHeads - 1, n \in 0 .. call.klen - 1 :
         mem[<<"dKV", b, g, n>>] =
           SetToBag({TruePair(call, q, n) :
                       q \in {q \in RowsOf(call) : q[1] = b /\ Kv(call, q) = g /\ n \in Sees(call, 0, q[3])}})

\* A new token of a served sequence attends the tokens up to itself, those in
\* the paged cache and those of the batch, by every prefill strategy and in
\* decoding, also when a prefix is shared and when a graph's batch is padded
\* (Attention.forward, cutile_fmha_prefill, cutile_fmha_decode).
PagedReads ==
  Ended("attend") => \A q \in NewRows(call) : mem[<<"out">> \o q] = ContextOf(q)

\* A generated token attends the text it belongs to, token by token at its own
\* position, whether its step is eager or a replay of the captured one, and
\* whatever earlier generations left in the static buffer
\* (timed_generate_cutile_raw, timed_generate_cutile_graph).
GeneratesFromItsOwnText ==
  stage = "decode" /\ queue = <<>> /\ text.step > call.qlen =>
    \A h \in 0 .. call.heads - 1 : mem[<<"O", 0, h, 0>>] = OwnText(text.gen, h, text.step - 1)

\* Two blocks of one launch never store to the same place.
BlocksWriteApart == \A x, y \in written : x[1] = y[1] => x[2] = y[2]

Covered(m, n, depths) ==
  \A t \in (0 .. m - 1) \X (0 .. n - 1) :
    /\ <<"C", t[1], t[2]>> \in DOMAIN mem
    /\ \E d \in depths : mem[<<"C", t[1], t[2]>>] = [i \in 1 .. CDiv(call.depth, d) |-> i - 1]

Sums == {a \in DOMAIN mem : a[1] = "sum"}

\* Whatever the order of tiles, every tile of C is the sum over all of k, every
\* row of a softmax and every element of a sum is computed, and by one block.
EveryTileComputed ==
  /\ BlocksWriteApart
  /\ Ended("matmul") => Covered(Parts(call.kernel.padded, call.rows, call.cfg[1]),
                                Parts(call.kernel.padded, call.cols, call.cfg[2]), {call.cfg[3]})
  /\ Ended("tiled") => Covered(call.rows \div call.tile, call.cols \div call.tile, {call.tile})
  /\ Ended("tune") => \A i \in tuned[<<"measured">>] :
       Covered(call.rows \div call.configs[i][1], call.cols \div call.configs[i][2],
               {call.configs[j][3] : j \in tuned[<<"measured">>]})
  /\ Ended("softmax") => \A r \in 0 .. call.rows - 1 :
       <<"S", r>> \in DOMAIN mem /\ mem[<<"S", r>>] = 0 .. call.cols - 1
  /\ Ended("add") => Sums = {"sum"} \X (0 .. call.rows - 1) \X (0 .. call.cols - 1)
  /\ Ended("vector") => Sums = {"sum"} \X (0 .. call.cols - 1)

-----------------------------------------------------------------------------
\* Whatever order a rank loads the checkpoint in, the ranks together compute
\* the whole model: every token's embedding once, every head with its own
\* group's key head and its own columns of the output, gate, up and down row by
\* row, and the logits in the vocabulary's order.
ShardsLineUp ==
  outcome # <<>> =>
    LET g == Heads \div HeadsKV IN
    /\ \A t \in 0 .. Vocab - 1 : outcome[1].embed[t] = {<<"embed", t>>}
    /\ outcome[1].attn = {<<<<"q", h>>, <<"k", h \div g>>, <<"v", h \div g>>, <<"o", h>>>> : h \in 0 .. Heads - 1}
    /\ outcome[1].mlp = {<<<<"gate", i>>, <<"up", i>>, <<"down", i>>>> : i \in 0 .. Inter - 1}
    /\ outcome[1].logits = [t \in 1 .. Vocab |-> <<IF Tied THEN "embed" ELSE "head", t - 1>>]

\* Every host program ends, and every rank of an engine exits, with the
\* segment closed and unlinked: each worker has then read the calls rank 0
\* made, all of them, in their order and whole, though the buffer is
\* overwritten without its acknowledgement.
EverythingEnds == <>(/\ todo = <<>> /\ stage = "idle" /\ queue = <<>>
                     /\ \A r \in Ranks : at[r] \in {"off", "gone"}
                     /\ \A w \in Workers : received[w] = sent
                     /\ ~shm.exists /\ shm.open = {})
=============================================================================
