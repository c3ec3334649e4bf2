------------------------------- MODULE Device -------------------------------
(***************************************************************************)
(* A CUDA stream under the programs of KernelAgent.  A host program makes  *)
(* its calls one after the other; a call puts launches on the stream; the  *)
(* launches run in that order, the blocks of one launch in any order and   *)
(* at most Resident at a time, one iteration of a block's loop per step.   *)
(* `mem' holds the tensors: what the stores wrote, by tensor and index.    *)
(***************************************************************************)
EXTENDS FlashAttention, FmhaStudies, PagedAttention, GraphDecode, TileGrids

CONSTANTS Programs,       \* the sequences of calls a host program makes
          Resident        \* blocks on the device at a time

VARIABLES
  todo,       \* the calls the host has still to make
  call,       \* the call being made
  stage,      \* "idle", "launched"; "forward" until backward; "prefill" and "decode"
  tuned,      \* _fmha_fwd_tune_cache
  text,       \* the generation: its number, its next index, the keys concatenated
  queue,      \* the launches on the stream
  resident,   \* the blocks running: their loop counter and registers
  done,       \* the blocks of the first launch that have ended
  written,    \* the addresses they stored to, with the block
  mem

stream == <<queue, resident, done, written, mem>>
device == <<todo, call, stage, tuned, text, stream>>

None == [kind |-> "none"]
DeviceInit ==
  /\ todo \in Programs
  /\ call = None /\ stage = "idle" /\ tuned = <<>> /\ text = [gen |-> 0, step |-> 0, past |-> <<>>]
  /\ queue = <<>> /\ resident = <<>> /\ done = {} /\ written = {} /\ mem = <<>>

-----------------------------------------------------------------------------
Flash == {"fmha", "fmha_lse", "v1", "v2", "v3", "cutile", "compared", "gpt", "direct_prefill", "padded_prefill",
          "paged_prefill", "paged_decode", "eager_step", "graph_step", "dq"}

GridOf(l) ==
  CASE l.kernel \in Flash \cup {"preprocess"} -> Grid(l)
    [] l.kernel = "dkdv" -> DkDvGrid(l)
    [] l.kernel = "store_kvcache" -> StoreGrid(l)
    [] l.kernel = "matmul" -> 0 .. Blocks - 1
    [] l.kernel = "tiled" -> TiledGrid(l)
    [] l.kernel = "softmax" -> 0 .. SoftmaxPrograms(l) - 1
    [] OTHER -> 0 .. l.blocks - 1

Rounds(l, b) ==
  CASE l.kernel = "dq" -> DqRounds(l, b)
    [] l.kernel = "dkdv" -> DkDvRounds(l, b)
    [] l.kernel = "paged_decode" -> DecodeRounds(l, b)
    [] l.kernel \in Flash \ {"dq", "paged_decode"} -> TileCount(l, b[1])
    [] l.kernel = "matmul" -> MatmulRounds(l, b)
    [] l.kernel = "tiled" -> l.k
    [] l.kernel = "softmax" -> SoftmaxRounds(l, b)
    [] OTHER -> 0

Begin(l, b) ==
  CASE l.kernel = "dq" -> DqBegin(l)
    [] l.kernel = "dkdv" -> DkDvBegin(l, b)
    [] l.kernel = "v2" -> StagedBegin(l, b)
    [] l.kernel \in Flash \ {"dq", "v2"} -> FmhaBegin(l)
    [] OTHER -> <<>>

Round(l, b, st, j) ==
  CASE l.kernel = "fmha" -> FmhaRound(l, b, st, j)
    [] l.kernel = "fmha_lse" -> FmhaLseRound(l, b, st, j)
    [] l.kernel = "v1" -> FmhaV1Round(l, b, st, j)
    [] l.kernel = "v2" -> StagedRound(l, b, st, j)
    [] l.kernel = "v3" -> FmhaV3Round(l, b, st, j)
    [] l.kernel = "cutile" -> PaddedRound(l, b, st, j)
    [] l.kernel = "compared" -> ComparedRound(l, b, st, j)
    [] l.kernel = "gpt" -> GptRound(l, b, st, j, call)
    [] l.kernel = "direct_prefill" -> DirectRound(l, b, st, j)
    [] l.kernel = "padded_prefill" -> PaddedPrefillRound(l, b, st, j)
    [] l.kernel = "paged_prefill" -> PagedRound(l, b, st, j, mem)
    [] l.kernel = "paged_decode" -> DecodeRound(l, b, st, j, mem)
    [] l.kernel = "eager_step" -> EagerRound(l, b, st, j)
    [] l.kernel = "graph_step" -> GraphRound(l, b, st, j, mem)
    [] l.kernel = "dq" -> DqRound(l, b, st, j, mem)
    [] l.kernel = "dkdv" -> DkDvRound(l, b, st, j, mem)
    [] l.kernel \in {"matmul", "tiled"} -> MatmulRound(l, b, st, j)
    [] OTHER -> st

\* What a persistent block stores in the middle of its loop, and what any block
\* stores when its loop has ended.
RoundStores(l, b, st, j) ==
  CASE l.kernel = "matmul" -> MatmulStore(l, b, st, j)
    [] l.kernel = "tiled" -> TiledStore(l, b, st, j)
    [] l.kernel = "softmax" -> SoftmaxStore(l, b, j)
    [] OTHER -> <<>>
LastStores(l, b, st) ==
  CASE l.kernel = "fmha_lse" -> FmhaLseStore(l, b, st)
    [] l.kernel = "preprocess" -> PreprocessStore(l, b)
    [] l.kernel = "dkdv" -> DkDvStore(l, b, st)
    [] l.kernel = "dq" -> DqStore(l, b, st)
    [] l.kernel = "v2" -> FmhaStore(l, b, st.rows)
    [] l.kernel \in {"direct_prefill", "paged_prefill"} -> SeqStore(l, b, st, l.call.seqs[l.seq])
    [] l.kernel \in {"padded_prefill", "paged_decode"} -> SeqStore(l, b, st, l.call.seqs[BatchOf(l, b) + 1])
    [] l.kernel \in {"fmha", "v1", "v3", "cutile", "compared", "gpt", "eager_step", "graph_step"} -> FmhaStore(l, b, st)
    [] l.kernel = "store_kvcache" -> StoreToken(l, b)
    [] l.kernel = "scatter" -> ScatterStore(mem)
    [] l.kernel = "add" -> MatAddStore(l, b)
    [] l.kernel = "vector" -> VectorAddStore(l, b)
    [] OTHER -> <<>>

-----------------------------------------------------------------------------
\* A block starts, does an iteration, ends.
Issue(b) ==
  /\ queue # <<>>
  /\ b \in GridOf(queue[1]) \ (done \cup DOMAIN resident)
  /\ Cardinality(DOMAIN resident) < Resident
  /\ resident' = resident ++ Entry(b, [j |-> 0, st |-> Begin(queue[1], b)])
  /\ UNCHANGED <<todo, call, stage, tuned, text, queue, done, written, mem>>

Iterate(b) ==
  /\ b \in DOMAIN resident
  /\ resident[b].j < Rounds(queue[1], b)
  /\ LET j == resident[b].j
         st == Round(queue[1], b, resident[b].st, j)
         stores == RoundStores(queue[1], b, st, j)
     IN /\ resident' = [resident EXCEPT ![b] = [j |-> j + 1, st |-> st]]
        /\ mem' = stores ++ mem
        /\ written' = written \cup ((DOMAIN stores) \X {b})
  /\ UNCHANGED <<todo, call, stage, tuned, text, queue, done>>

Retire(b) ==
  /\ b \in DOMAIN resident
  /\ resident[b].j = Rounds(queue[1], b)
  /\ LET stores == LastStores(queue[1], b, resident[b].st)
     IN mem' = stores ++ mem /\ written' = written \cup ((DOMAIN stores) \X {b})
  /\ resident' = [c \in DOMAIN resident \ {b} |-> resident[c]]
  /\ done' = done \cup {b}
  /\ UNCHANGED <<todo, call, stage, tuned, text, queue>>

\* The next launch waits for all blocks of the one before.
NextLaunch ==
  /\ queue # <<>> /\ done = GridOf(queue[1])
  /\ queue' = Tail(queue) /\ done' = {} /\ written' = {}
  /\ UNCHANGED <<todo, call, stage, tuned, text, resident, mem>>

-----------------------------------------------------------------------------
\* The KV caches outlive a call; the call's other tensors are new ones.
Cache == [a \in {x \in DOMAIN mem : x[1] \in {"cache", "static"}} |-> mem[a]]
Make(c, kind) ==
  /\ stage = "idle" /\ queue = <<>> /\ todo # <<>>
  /\ Head(todo) = c /\ c.kind = kind
  /\ call' = c /\ todo' = Tail(todo)
  /\ text' = IF kind # "generate" THEN text
             ELSE [gen |-> text.gen + 1, step |-> c.qlen,
                   past |-> [i \in 1 .. c.qlen |-> Text(text.gen + 1, i - 1, i - 1)]]
Submit(launches) == queue' = launches /\ UNCHANGED <<resident, done, written>>

\* tile_fmha: with autotuning off the first configuration; else the cached one,
\* and when there is none every configuration is run and the fastest is kept.
Infer(c) ==
  /\ Make(c, "infer")
  /\ \E cfg \in ConfigsOf(FwdConfigs) :
       \/ /\ ~c.autotune /\ cfg = FwdConfigs[1]
          /\ Submit(<<InferLaunch(c, cfg)>>) /\ UNCHANGED tuned
       \/ /\ c.autotune /\ TuneKey(c) \in DOMAIN tuned /\ cfg = tuned[TuneKey(c)]
          /\ Submit(<<InferLaunch(c, cfg)>>) /\ UNCHANGED tuned
       \/ /\ c.autotune /\ TuneKey(c) \notin DOMAIN tuned
          /\ tuned' = tuned ++ Entry(TuneKey(c), cfg)
          /\ Submit(Append([i \in DOMAIN FwdConfigs |-> InferLaunch(c, FwdConfigs[i])], InferLaunch(c, cfg)))
  /\ mem' = Cache
  /\ stage' = "launched"

\* _FlashAttentionFunction.forward: LSE starts as zeros.
Forward(c) ==
  /\ Make(c, "train")
  /\ Submit(<<ForwardLaunch(c)>>)
  /\ mem' = Cache ++ [a \in {"LSE"} \X FlatSize(c, PaddedQ(c, FwdConfigs[1][1])) |-> <<>>]
  /\ stage' = "forward"
  /\ UNCHANGED tuned

\* _fmha_bwd_dkdv_tune_cache and _fmha_bwd_dq_tune_cache: what is launched for a
\* kernel, every configuration of a search and then the best one.
BwdKey(name) == <<name, call.batch, call.heads, call.kvHeads, call.qlen, call.klen, call.causal>>
Tuned(name, configs, best) ==
  IF call.autotune THEN BwdKey(name) \in DOMAIN tuned => best = tuned[BwdKey(name)]
  ELSE best = configs[1]
Searched(name, configs, best) ==
  IF call.autotune /\ BwdKey(name) \notin DOMAIN tuned THEN Append(configs, best) ELSE <<best>>

\* _FlashAttentionFunction.backward, once the forward pass has ended.
Backward ==
  /\ stage = "forward" /\ queue = <<>>
  /\ mem' = [a \in {"Delta"} \X FlatSize(call, PaddedQ(call, MaxTileM)) |-> ZeroRow]
            ++ [a \in {"LSE"} \X FlatSize(call, PaddedQ(call, MaxTileM)) |->
                  PaddedLse(call, ReturnedLse(call, mem, PaddedQ(call, FwdConfigs[1][1])))[a[2]]]
            ++ [a \in {x \in DOMAIN mem : x[1] # "LSE"} |-> mem[a]]
  /\ \E one \in ConfigsOf(DkDvConfigs), two \in ConfigsOf(DqConfigs) :
       /\ Tuned("dkdv", DkDvConfigs, one) /\ Tuned("dq", DqConfigs, two)
       /\ Submit(<<PreprocessLaunch(call)>>
                 \o [i \in 1 .. Len(Searched("dkdv", DkDvConfigs, one)) |->
                       DkDvLaunch(call, Searched("dkdv", DkDvConfigs, one)[i])]
                 \o [i \in 1 .. Len(Searched("dq", DqConfigs, two)) |->
                       DqLaunch(call, Searched("dq", DqConfigs, two)[i])])
       /\ tuned' = IF call.autotune
                   THEN tuned ++ Entry(BwdKey("dkdv"), one) ++ Entry(BwdKey("dq"), two) ELSE tuned
  /\ stage' = "launched"
  /\ UNCHANGED <<todo, call, text>>

Study(c) ==
  /\ Make(c, "study") /\ StudyAccepts(c)
  /\ \E cfg \in ConfigsOf(StudyConfigs), kernel \in {"v1", "v2", "v3", "cutile", "compared"} :
       Submit(<<StudyLaunch(c, kernel, cfg)>>)
  /\ mem' = Cache /\ stage' = "launched"
  /\ UNCHANGED tuned

Gpt(c) ==
  /\ Make(c, "gpt")
  /\ Submit(<<GptLaunch(c)>>)
  /\ mem' = Cache /\ stage' = "launched"
  /\ UNCHANGED tuned

\* The prompt of a generation: its keys are concatenated, or copied into the
\* static buffer (reset_cache).
Generate(c) ==
  /\ Make(c, "generate")
  /\ Submit(<<GptLaunch(c)>>)
  /\ mem' = (IF c.graph THEN [a \in {"static"} \X (0 .. c.qlen - 1) |-> text'.past[a[2] + 1]] ELSE <<>>) ++ Cache
  /\ stage' = "prefill"
  /\ UNCHANGED tuned
SetInputs(step) == Entry(<<"input">>, <<text.gen, step>>) ++ Entry(<<"step">>, step) ++ Entry(<<"scatter">>, step)
\* Capturing a step records its kernels and runs none of them.
BeginDecoding ==
  /\ stage = "prefill" /\ queue = <<>>
  /\ stage' = "decode"
  /\ mem' = IF call.graph THEN SetInputs(text.step) ++ mem ELSE mem
  /\ UNCHANGED <<todo, call, tuned, text, queue, resident, done, written>>
More == stage = "decode" /\ queue = <<>> /\ text.step < call.qlen + call.new - 1
Replay ==
  /\ More /\ call.graph
  /\ mem' = SetInputs(text.step) ++ mem
  /\ Submit(<<ScatterLaunch, ReplayLaunch(call)>>)
  /\ text' = [text EXCEPT !.step = @ + 1]
  /\ UNCHANGED <<todo, call, stage, tuned>>
\* GPT.forward: the position is the length of the keys so far.
EagerStep ==
  /\ More /\ ~call.graph
  /\ LET past == Append(text.past, Text(text.gen, text.step, Len(text.past))) IN
     /\ Submit(<<EagerLaunch(call, past)>>)
     /\ text' = [text EXCEPT !.step = @ + 1, !.past = past]
  /\ UNCHANGED <<todo, call, stage, tuned, mem>>
EndDecoding ==
  /\ stage = "decode" /\ queue = <<>> /\ ~More
  /\ stage' = "launched"
  /\ UNCHANGED <<todo, call, tuned, text, stream>>

\* Attention.forward: the new keys are stored, then the batch is attended.
Attend(c) ==
  /\ Make(c, "attend")
  /\ LET path == PrefillPath(c) IN
     Submit(<<StoreLaunch(c)>> \o
            CASE path = "decode" -> <<DecodeLaunch(c)>>
              [] path = "padded" -> <<PaddedLaunch(c)>>
              [] path = "paged" -> [i \in DOMAIN c.seqs |-> SeqLaunch(c, i, "paged_prefill")]
              [] path = "direct" -> [i \in DOMAIN c.seqs |-> SeqLaunch(c, i, "direct_prefill")])
  /\ mem' = Cache /\ stage' = "launched"
  /\ UNCHANGED tuned

\* Autotuner.tune: the configurations that fit are compiled and timed one after
\* the other, those that fail are passed over.
Tune(c) ==
  /\ Make(c, "tune")
  /\ \E compiled \in SUBSET {i \in DOMAIN c.configs : Fits(c, TunedKernel, c.configs[i])} :
       /\ Submit([i \in 1 .. Cardinality(compiled) |->
                   MatmulLaunch(c, TunedKernel, c.configs[CHOOSE x \in compiled :
                     Cardinality({y \in compiled : y <= x}) = i])])
       /\ tuned' = Entry(<<"measured">>, compiled) ++ tuned
  /\ mem' = Cache /\ stage' = "launched"

\* The benchmarks of the other kernels: warm-up and timed launches of one
\* configuration, which has to fit.
Benchmark(c) ==
  /\ \/ Make(c, "matmul") /\ Fits(c, c.kernel, c.cfg)
        /\ Submit([i \in 1 .. 2 |-> MatmulLaunch(c, c.kernel, c.cfg)])
     \/ Make(c, "tiled") /\ Submit([i \in 1 .. 2 |-> TiledLaunch(c)])
  /\ mem' = Cache /\ stage' = "launched"
  /\ UNCHANGED tuned

Elementwise(c) ==
  /\ \/ Make(c, "softmax") /\ Submit(<<SoftmaxLaunch(c)>>)
     \/ Make(c, "add") /\ Submit(<<MatAddLaunch(c)>>)
     \/ Make(c, "vector") /\ Submit(<<VectorAddLaunch(c)>>)
  /\ mem' = Cache /\ stage' = "launched"
  /\ UNCHANGED tuned

\* The host waits for the stream and goes on.
Return ==
  /\ stage = "launched" /\ queue = <<>>
  /\ stage' = "idle"
  /\ UNCHANGED <<todo, call, tuned, text, stream>>

Calls == UNION {{p[i] : i \in DOMAIN p} : p \in Programs}

\* What the callers pass.  Tensors have positive sizes and finite entries; tile
\* sizes are powers of two and divide each other; queries are the last of their
\* keys; heads come in whole groups; a graph is not replayed beyond its buffer.
\* A served batch names a sequence once and has a slot of its own for each token.
Positive == Nat \ {0}
TilePairs(s) == s # <<>> /\ s \in Seq(Positive \X Positive)
Finite(q, k) == Score(q, k) \in Int /\ NegInf < Score(q, k)
Tiled3(cfg) == cfg \in Positive \X Positive \X Positive
BatchFits(c) ==
  /\ c.seqs \in Seq([name : {c.seqs[i].name : i \in DOMAIN c.seqs}, cached : Nat, new : Positive, table : Seq(Nat)])
  /\ c.pad \in Nat /\ (c.decode => \A i \in DOMAIN c.seqs : c.seqs[i].new = 1)
  /\ \A i, j \in DOMAIN c.seqs : c.seqs[i].name = c.seqs[j].name => i = j
  /\ \A x, y \in NewTokens(c) : SlotOf(c.seqs[x[1]], x[2]) = SlotOf(c.seqs[y[1]], y[2]) => x = y
\* Matrices are cut into whole tiles, the rows of tiles into whole strips, where
\* the kernel does not see to it.
MatmulFits(c, kernel, cfg) ==
  /\ Tiled3(cfg) /\ (kernel.padded \/ c.depth % cfg[3] = 0)
  /\ kernel.order \in {"swizzled", "grouped", "fast"} => c.strip # 0
  /\ kernel.order \in {"swizzled", "universal", "varying"} /\ c.strip # 0 =>
       kernel.full \/ Parts(kernel.padded, c.rows, cfg[1]) % c.strip = 0
WellFormed(c) ==
  /\ c.kind \in {"infer", "train", "study", "gpt", "generate"} =>
       /\ {c.batch, c.heads, c.kvHeads, c.qlen, c.klen} \subseteq Positive /\ c.causal \in BOOLEAN
       /\ \A q \in RowsOf(c), n \in 0 .. c.klen - 1 : Finite(q, <<q[1], Kv(c, q), n>>)
  /\ c.kind = "infer" => (c.causal => c.qlen <= c.klen)
  /\ c.kind = "train" => c.heads % c.kvHeads = 0
  /\ c.kind = "study" => c.pos \in Nat
  /\ c.kind = "gpt" => c.qlen = IF c.causal THEN c.klen ELSE 1
  /\ c.kind = "generate" =>
       /\ c.batch = 1 /\ c.new \in Positive /\ c.graph \in BOOLEAN
       /\ c.graph => c.qlen + c.new - 1 <= StaticLen
  /\ c.kind = "attend" => BatchFits(c)
  /\ c.kind \in {"matmul", "tune"} => {c.rows, c.cols, c.depth} \subseteq Positive /\ c.strip \in Nat
  /\ c.kind = "matmul" => c.kernel \in MatmulKernels /\ MatmulFits(c, c.kernel, c.cfg)
  /\ c.kind = "tune" => /\ c.configs \in Seq(Positive \X Positive \X Positive)
                         /\ \A i \in DOMAIN c.configs : MatmulFits(c, TunedKernel, c.configs[i])
  /\ c.kind = "tiled" => {c.rows, c.cols, c.depth, c.tile} \subseteq Positive /\ c.depth % c.tile = 0
  /\ c.kind \in {"softmax", "add"} => {c.rows, c.cols} \subseteq Positive
  /\ c.kind = "vector" => {c.cols, c.tile} \subseteq Positive
Generations(p) ==
  \A i \in DOMAIN p, gen \in 1 .. Len(p) :
    p[i].kind = "generate" =>
      \A h \in 0 .. p[i].heads - 1, t \in 0 .. p[i].qlen + p[i].new - 1 : \A n \in 0 .. t :
        Finite(<<gen, h, t, t>>, <<gen, h, n, n>>)
ASSUME DeviceAssumption ==
  /\ TilePairs(FwdConfigs) /\ TilePairs(DkDvConfigs) /\ TilePairs(DqConfigs) /\ TilePairs(StudyConfigs)
  /\ {ModelTile, StaticTile, StaticLen, CacheTile, QHeads, Blocks} \subseteq Positive
  /\ MaxTileM % PreprocessTileM = 0 /\ \A cfg \in ConfigsOf(FwdConfigs) : MaxTileN % cfg[2] = 0
  /\ Programs \subseteq Seq(Calls)
  /\ \A p \in Programs : Generations(p)
  /\ \A c \in Calls : WellFormed(c)
DeviceNext ==
  \/ \E b \in IF queue = <<>> THEN {} ELSE GridOf(queue[1]) : Issue(b) \/ Iterate(b) \/ Retire(b)
  \/ NextLaunch \/ Backward \/ Return \/ BeginDecoding \/ Replay \/ EagerStep \/ EndDecoding
  \/ \E c \in Calls : Infer(c) \/ Forward(c) \/ Study(c) \/ Gpt(c) \/ Generate(c) \/ Attend(c) \/ Tune(c) \/ Benchmark(c) \/ Elementwise(c)
=============================================================================
