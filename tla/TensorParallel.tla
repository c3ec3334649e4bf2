--------------------------- MODULE TensorParallel ---------------------------
(***************************************************************************)
(* The ranks of micro-vLLM: a ModelRunner per rank loads its shards of the *)
(* checkpoint (layers/linear.py, layers/embed_head.py, utils/loader.py),   *)
(* then rank 0 calls the others through one shared buffer and an event per *)
(* worker, without acknowledgement, and all meet in the collectives of a   *)
(* run and in two barriers (engine/model_runner.py).                       *)
(***************************************************************************)
EXTENDS Integers, Sequences, SequencesExt, FiniteSets, FiniteSetsExt, TLC

CONSTANTS TpSize,         \* tensor_parallel_size
          Heads, HeadsKV, \* attention heads, head_dim 1
          Inter,          \* intermediate_size
          Vocab,
          Tied,           \* tie_word_embeddings
          Files,          \* the checkpoint's files, each the sequence of its weights
          Runs            \* bound: calls of "run" before the engine exits

\* Every layer asserts that its size is divided by the ranks; grouped heads come
\* in whole groups.  A tied checkpoint holds no head of its own.
Weights == {"q", "k", "v", "o", "gate", "up", "down", "embed"} \cup (IF Tied THEN {} ELSE {"head"})
ASSUME TpAssumption ==
  /\ TpSize \in Nat \ {0, 1}
  /\ \A n \in {Heads, HeadsKV, Inter, Vocab} : n \in Nat \ {0} /\ n % TpSize = 0
  /\ Heads % HeadsKV = 0
  /\ Files \subseteq Seq(Weights) /\ UNION {Range(f) : f \in Files} = Weights
  /\ Runs \in Nat

Ranks == 0 .. TpSize - 1
Workers == Ranks \ {0}

VARIABLES
  at,         \* where each rank is
  loaded,     \* the checkpoint's files each rank has loaded
  params,     \* its parameters, row by row (column by column if row-parallel)
  shm,        \* the shared segment: length field, body, and who has it open
  event,      \* the workers whose event is set
  taken,      \* a worker's n, the length it has read
  sent,       \* the calls rank 0 has made
  received,   \* the calls each worker has read
  met,        \* the ranks that have come to each meeting point
  outcome     \* what rank 0 has of the last run, if any

ranks == <<at, loaded, params, shm, event, taken, sent, received, met, outcome>>

-----------------------------------------------------------------------------
\* A weight of the checkpoint is its rows, numbered.
RowsIn(w) ==
  CASE w \in {"q", "o"} -> Heads
    [] w \in {"k", "v"} -> HeadsKV
    [] w \in {"gate", "up", "down"} -> Inter
    [] OTHER -> Vocab
Tensor(w) == [i \in 1 .. RowsIn(w) |-> <<w, i - 1>>]

\* narrow(dim, rank * shard_size, shard_size), and chunk(tp_size, dim)[rank].
Narrow(t, from, size) == SubSeq(t, from + 1, from + size)
Chunk(t, r) == LET size == (Len(t) + TpSize - 1) \div TpSize IN Narrow(t, r * size, size)
CopyInto(param, offset, part) ==
  [i \in DOMAIN param |-> IF i \in offset + 1 .. offset + Len(part) THEN part[i - offset] ELSE param[i]]

\* The parameters as they are made: torch.empty of the shard's size.
Empty(n) == [i \in 1 .. n |-> <<"empty">>]
EmptyParams ==
  [qkv |-> Empty((Heads + HeadsKV + HeadsKV) \div TpSize), o |-> Empty(Heads \div TpSize),
   gate_up |-> Empty((Inter + Inter) \div TpSize), down |-> Empty(Inter \div TpSize),
   embed |-> Empty(Vocab \div TpSize), head |-> Empty(Vocab \div TpSize)]

\* packed_modules_mapping: the parameter a weight goes to.
ParamOf(w) == IF w \in {"q", "k", "v"} THEN "qkv" ELSE IF w \in {"gate", "up"} THEN "gate_up" ELSE w

\* weight_loader of the merged column-parallel layer, by shard id.
MergedOffset(w) == IF w = "up" THEN Inter \div TpSize ELSE 0
\* Mutant: as if there were as many query heads as key heads.
QkvOffsetEven(w) == IF w = "q" THEN 0 ELSE IF w = "k" THEN HeadsKV \div TpSize ELSE (HeadsKV + HeadsKV) \div TpSize

\* weight_loader of QKVParallelLinear.
QkvOffset(w) ==
  CASE w = "q" -> 0
    [] w = "k" -> Heads \div TpSize
    [] w = "v" -> Heads \div TpSize + HeadsKV \div TpSize
\* weight_loader of RowParallelLinear and of VocabParallelEmbedding.
OwnShard(r, param, t) == Narrow(t, r * Len(param), Len(param))

LoadInto(r, p, w) ==
  CASE w \in {"q", "k", "v"} -> CopyInto(p.qkv, QkvOffset(w), Chunk(Tensor(w), r))
    [] w \in {"gate", "up"} -> CopyInto(p.gate_up, MergedOffset(w), Chunk(Tensor(w), r))
    [] OTHER -> OwnShard(r, p[w], Tensor(w))

\* load_model: a file's weights one after the other, the files in glob's order,
\* which is any.
LoadWeight(r, p, w) == [p EXCEPT ![ParamOf(w)] = LoadInto(r, p, w)]
LoadFile(r, p, f) == FoldLeft(LAMBDA q, w : LoadWeight(r, q, w), p, f)
Load(r, f) ==
  /\ at[r] = "load" /\ f \in Files \ loaded[r]
  /\ loaded' = [loaded EXCEPT ![r] = @ \cup {f}]
  /\ params' = [params EXCEPT ![r] = LoadFile(r, @, f)]
  /\ at' = [at EXCEPT ![r] = IF loaded[r] \cup {f} # Files THEN "load" ELSE IF r = 0 THEN "create" ELSE "barrier"]
  /\ UNCHANGED <<shm, event, taken, sent, received, met, outcome>>

-----------------------------------------------------------------------------
\* What a run computes, as the rows that meet each other on some rank.
\* VocabParallelEmbedding.forward: the rank that owns a token looks it up, the
\* others look row 0 up and mask it; all_reduce adds.
Embedded(r, token) ==
  LET per == Vocab \div TpSize
      mask == r * per <= token /\ token < (r + 1) * per
  IN IF mask THEN {params[r].embed[token - r * per + 1]} ELSE {}
EmbeddedAll(token) == UNION {Embedded(r, token) : r \in Ranks}
\* Qwen3Attention.forward: qkv is split, a local head meets its group's key head.
HeadPairs(r) ==
  LET nh == Heads \div TpSize
      nk == HeadsKV \div TpSize
  IN {<<params[r].qkv[h], params[r].qkv[nh + (h - 1) \div (nh \div nk) + 1],
        params[r].qkv[nh + nk + (h - 1) \div (nh \div nk) + 1], params[r].o[h]>> : h \in 1 .. nh}
\* Qwen3MLP.forward: SiluAndMul multiplies the two halves.
MlpTriples(r) ==
  LET n == Inter \div TpSize
  IN {<<params[r].gate_up[i], params[r].gate_up[n + i], params[r].down[i]>> : i \in 1 .. n}
\* ParallelLMHead.forward: rank 0 gathers the logits in the ranks' order.
HeadParam(r) == IF Tied THEN params[r].embed ELSE params[r].head
Logits == FlattenSeq([i \in 1 .. TpSize |-> HeadParam(i - 1)])

RunResult ==
  [embed |-> [t \in 0 .. Vocab - 1 |-> EmbeddedAll(t)], attn |-> UNION {HeadPairs(r) : r \in Ranks},
   mlp |-> UNION {MlpTriples(r) : r \in Ranks}, logits |-> Logits]

-----------------------------------------------------------------------------
Goes(r, from, to) == at[r] = from /\ at' = [at EXCEPT ![r] = to]
Arrive(r, point) == met' = [met EXCEPT ![point] = @ \cup {r}]

\* Startup: rank 0 creates the segment and comes to the barrier; a worker opens
\* it after the barrier.
CreateShm ==
  /\ Goes(0, "create", "barrier")
  /\ shm' = [shm EXCEPT !.exists = TRUE, !.open = {0}]
  /\ UNCHANGED <<loaded, params, event, taken, sent, received, met, outcome>>
ComeToBarrier(r) ==
  /\ Goes(r, "barrier", "waiting")
  /\ Arrive(r, <<"start">>)
  /\ UNCHANGED <<loaded, params, shm, event, taken, sent, received, outcome>>
PassBarrier(r) ==
  /\ met[<<"start">>] = Ranks
  /\ Goes(r, "waiting", IF r = 0 THEN "engine" ELSE "open")
  /\ UNCHANGED <<loaded, params, shm, event, taken, sent, received, met, outcome>>
OpenShm(r) ==
  /\ Goes(r, "open", IF shm.exists THEN "loop" ELSE "raised")
  /\ shm' = [shm EXCEPT !.open = @ \cup (IF shm.exists THEN {r} ELSE {})]
  /\ UNCHANGED <<loaded, params, event, taken, sent, received, met, outcome>>

\* Rank 0: call, write_shm: the length, the body, the events one after the other.
NextCall == IF Len(sent) < Runs THEN <<"run", Len(sent)>> ELSE <<"exit", Len(sent)>>
WriteLength ==
  /\ Goes(0, "engine", "length")
  /\ sent' = Append(sent, NextCall)
  /\ shm' = [shm EXCEPT !.len = NextCall[1]]
  /\ UNCHANGED <<loaded, params, event, taken, received, met, outcome>>
WriteBody ==
  /\ Goes(0, "length", "events")
  /\ shm' = [shm EXCEPT !.body = Last(sent)]
  /\ met' = [met EXCEPT ![<<"told">>] = {}]
  /\ UNCHANGED <<loaded, params, event, taken, sent, received, outcome>>
\* Mutant: no wait for the collectives.
TakeTokensEarly ==
  /\ Goes(0, "tokens", "engine")
  /\ outcome' = <<RunResult>>
  /\ UNCHANGED <<loaded, params, shm, event, taken, sent, received, met>>

SetEvent(w) ==
  /\ at[0] = "events"
  /\ w = Min(Workers \ met[<<"told">>])
  /\ event' = event \cup {w}
  /\ Arrive(w, <<"told">>)
  /\ at' = [at EXCEPT ![0] = IF met[<<"told">>] \cup {w} = Workers THEN Last(sent)[1] ELSE @]
  /\ UNCHANGED <<loaded, params, shm, taken, sent, received, outcome>>

\* A worker: read_shm.  The event is waited for, the length and the body read,
\* and only then is the event cleared.
ReadLength(w) ==
  /\ w \in event
  /\ Goes(w, "loop", "body")
  /\ taken' = [taken EXCEPT ![w] = shm.len]
  /\ UNCHANGED <<loaded, params, shm, event, sent, received, met, outcome>>
ReadBody(w) ==
  /\ Goes(w, "body", "clear")
  /\ received' = [received EXCEPT ![w] = Append(@, IF shm.body[1] = taken[w] THEN shm.body ELSE <<"torn">>)]
  /\ UNCHANGED <<loaded, params, shm, event, taken, sent, met, outcome>>
ClearEvent(w) ==
  /\ Goes(w, "clear", Last(received[w])[1])
  /\ event' = event \ {w}
  /\ UNCHANGED <<loaded, params, shm, taken, sent, received, met, outcome>>

\* run: a rank comes to the collectives; a worker goes back to its loop, rank 0
\* waits for the sampled tokens, which need every rank's part.
JoinRun(r) ==
  /\ Goes(r, "run", IF r = 0 THEN "tokens" ELSE "loop")
  /\ Arrive(r, <<"run", IF r = 0 THEN Len(sent) ELSE Len(received[r])>>)
  /\ UNCHANGED <<loaded, params, shm, event, taken, sent, received, outcome>>
TakeTokens ==
  /\ Goes(0, "tokens", "engine")
  /\ met[<<"run", Len(sent)>>] = Ranks
  /\ outcome' = <<RunResult>>
  /\ UNCHANGED <<loaded, params, shm, event, taken, sent, received, met>>

\* exit: the segment is closed, all come to a barrier, rank 0 unlinks it.
CloseShm(r) ==
  /\ Goes(r, "exit", "closed")
  /\ shm' = [shm EXCEPT !.open = @ \ {r}]
  /\ Arrive(r, <<"end">>)
  /\ UNCHANGED <<loaded, params, event, taken, sent, received, outcome>>
LeaveEnd(r) ==
  /\ met[<<"end">>] = Ranks
  /\ Goes(r, "closed", "gone")
  /\ shm' = [shm EXCEPT !.exists = @ /\ r # 0]
  /\ UNCHANGED <<loaded, params, event, taken, sent, received, met, outcome>>

RanksInit(first) ==
  /\ at = [r \in Ranks |-> first]
  /\ loaded = [r \in Ranks |-> {}]
  /\ params = [r \in Ranks |-> EmptyParams]
  /\ shm = [exists |-> FALSE, len |-> "none", body |-> <<"none">>, open |-> {}]
  /\ event = {} /\ taken = [w \in Workers |-> "none"]
  /\ sent = <<>> /\ received = [w \in Workers |-> <<>>]
  /\ met = [p \in {<<"start">>, <<"told">>, <<"end">>} \cup ({"run"} \X (1 .. Runs)) |-> {}]
  /\ outcome = <<>>

RankStep(r) ==
  \/ \E f \in Files : Load(r, f)
  \/ ComeToBarrier(r) \/ PassBarrier(r) \/ JoinRun(r) \/ CloseShm(r) \/ LeaveEnd(r)
  \/ r = 0 /\ (CreateShm \/ WriteLength \/ WriteBody \/ TakeTokens \/ \E w \in Workers : SetEvent(w))
  \/ r # 0 /\ (OpenShm(r) \/ ReadLength(r) \/ ReadBody(r) \/ ClearEvent(r))
RanksNext == \E r \in Ranks : RankStep(r)
=============================================================================
