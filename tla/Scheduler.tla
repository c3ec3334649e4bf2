------------------------------ MODULE Scheduler ------------------------------
(***************************************************************************)
(* The serving loop of micro-vLLM: LLMEngine.add_request and step          *)
(* (nanovllm/engine/llm_engine.py), Scheduler.schedule, preempt and        *)
(* postprocess (scheduler.py) over the BlockManager, and what the model    *)
(* runner writes into the KV cache (model_runner.py).                      *)
(*                                                                         *)
(* One thread runs the loop.  `pc' says where step() is; the loops of      *)
(* schedule() and postprocess() take a step per iteration, and wait for    *)
(* the manager's own loop (job) to end.  Requests are added between two    *)
(* steps of the engine, also while others are being served.                *)
(***************************************************************************)
EXTENDS Integers, Sequences, FiniteSets, SequencesExt

CONSTANTS
    NumBlocks, BlockSize, Seqs, Tokens, Prompts, MaxLen,
    MaxNumSeqs,           \* max_num_seqs
    MaxBatchedTokens,     \* max_num_batched_tokens
    Eos,                  \* the tokenizer's eos_token_id
    IgnoreEos,            \* the sequences with ignore_eos
    MaxTokens,            \* SamplingParams.max_tokens
    Samples(_)            \* the tokens the model may sample after a prefix

ASSUME EngineAssumption ==
    /\ MaxNumSeqs \in Nat \ {0} /\ MaxBatchedTokens \in Nat
    /\ Eos \in Tokens /\ IgnoreEos \subseteq Seqs
    /\ MaxTokens \in Nat \ {0}

(* What the manager assumes of its parameters, and that MaxLen, a bound of *)
(* its model, is beyond what max_tokens lets a request grow to.            *)
ASSUME ManagerAssumption ==
    /\ NumBlocks \in Nat \ {0} /\ BlockSize \in Nat /\ BlockSize >= 2
    /\ Prompts \subseteq Seq(Tokens) \ {<<>>} /\ IsFiniteSet(Seqs)
    /\ MaxLen \in Nat /\ \A p \in Prompts : Len(p) + MaxTokens <= MaxLen

VARIABLES
    refCount, blockHash, blockTokens, hashTo, free, used,
    tokens, table, cached, due, job, raised,
    waiting,      \* Scheduler.waiting
    running,      \* Scheduler.running
    status,       \* Sequence.status; "new" before add_request
    promptLen,    \* Sequence.num_prompt_tokens
    pc,           \* where the engine's step() is
    scheduled,    \* scheduled_seqs
    isPrefill,    \* whether they are to be prefilled
    batched,      \* num_batched_tokens
    cur,          \* the sequence the decode loop took from running
    left,         \* the sequences postprocess has still to see
    drawn,        \* token_ids: the token the run sampled for each of the batch
    kv,           \* the prefix whose keys and values a block's slots hold
    arrived       \* the order in which requests were added

BM == INSTANCE BlockManager

bmVars == <<refCount, blockHash, blockTokens, hashTo, free, used, tokens,
            table, cached, due, job, raised>>
queueVars == <<waiting, running, status>>
batchVars == <<scheduled, isPrefill, batched, cur, left, drawn>>
fixedVars == <<promptLen, arrived>>
vars == <<bmVars, queueVars, batchVars, fixedVars, pc, kv>>

None == "none"

Init ==
    /\ BM!Init
    /\ waiting = <<>> /\ running = <<>>
    /\ status = [s \in Seqs |-> "new"]
    /\ promptLen = [s \in Seqs |-> Len(tokens[s])]
    /\ pc = "idle"
    /\ scheduled = <<>> /\ isPrefill = FALSE /\ batched = 0
    /\ cur = None /\ left = <<>> /\ drawn = <<>>
    /\ kv = [b \in BM!Blocks |-> <<>>]
    /\ arrived = <<>>

At(label) == pc = label /\ job = BM!Idle /\ ~raised
-----------------------------------------------------------------------------
AddRequest(s) ==
    /\ At("idle") /\ status[s] = "new"
    /\ status' = [status EXCEPT ![s] = "WAITING"]
    /\ waiting' = Append(waiting, s)
    /\ arrived' = Append(arrived, s)
    /\ UNCHANGED <<bmVars, running, promptLen, pc, batchVars, kv>>

(* generate() and its like call step() until is_finished().                *)
BeginStep ==
    /\ At("idle") /\ (waiting # <<>> \/ running # <<>>)
    /\ pc' = "prefill"
    /\ scheduled' = <<>> /\ batched' = 0
    /\ UNCHANGED <<bmVars, queueVars, isPrefill, cur, left, drawn, fixedVars, kv>>

Room(s) ==
    /\ Len(scheduled) < MaxNumSeqs
    /\ batched + Len(tokens[s]) <= MaxBatchedTokens

(* Mutant: admission does not ask for free blocks.                         *)
AdmitAnyway == waiting # <<>> /\ Room(Head(waiting))

CanAdmit == waiting # <<>> /\ Room(Head(waiting)) /\ BM!CanAllocate(Head(waiting))

Admit ==
    /\ At("prefill") /\ CanAdmit
    /\ BM!BeginAllocate(Head(waiting))
    /\ pc' = "admit"
    /\ UNCHANGED <<queueVars, batchVars, fixedVars, kv>>

Admitted ==
    /\ At("admit")
    /\ LET s == Head(waiting)
       IN  /\ batched' = batched + Len(tokens[s]) - cached[s]
           /\ status' = [status EXCEPT ![s] = "RUNNING"]
           /\ waiting' = Tail(waiting)
           /\ running' = Append(running, s)
           /\ scheduled' = Append(scheduled, s)
    /\ pc' = "prefill"
    /\ UNCHANGED <<bmVars, isPrefill, cur, left, drawn, fixedVars, kv>>

PrefillDone ==
    /\ At("prefill") /\ ~CanAdmit
    /\ pc' = IF scheduled # <<>> THEN "run" ELSE "decode"
    /\ isPrefill' = (scheduled # <<>>)
    /\ UNCHANGED <<bmVars, queueVars, scheduled, batched, cur, left, drawn, fixedVars, kv>>
-----------------------------------------------------------------------------
CanTake == running # <<>> /\ Len(scheduled) < MaxNumSeqs

Take ==
    /\ At("decode") /\ CanTake
    /\ cur' = Head(running)
    /\ running' = Tail(running)
    /\ pc' = "append"
    /\ UNCHANGED <<bmVars, waiting, status, scheduled, isPrefill, batched, left,
                   drawn, fixedVars, kv>>

Decode ==
    /\ At("append") /\ BM!CanAppend(cur)
    /\ BM!MayAppend(cur)
    /\ scheduled' = Append(scheduled, cur)
    /\ pc' = "decode"
    /\ UNCHANGED <<queueVars, isPrefill, batched, cur, left, drawn, fixedVars, kv>>

(* Mutant: a preempted sequence is not put back.                           *)
Dropped(s) == waiting

(* Mutant: a preempted sequence queues up behind the waiting ones.         *)
Requeued(s) == Append(waiting, s)

PutBack(s) == <<s>> \o waiting

Release(s) == BM!BeginDeallocate(s)

Preempt(s) ==
    /\ Release(s)
    /\ status' = [status EXCEPT ![s] = "WAITING"]
    /\ waiting' = PutBack(s)

(* Without a free block the youngest running sequence is preempted; the    *)
(* sequence itself, which ends the loop, when no other is left.            *)
PreemptOther ==
    /\ At("append") /\ ~BM!CanAppend(cur) /\ running # <<>>
    /\ Preempt(Last(running))
    /\ running' = Front(running)
    /\ UNCHANGED <<pc, batchVars, fixedVars, kv>>

PreemptSelf ==
    /\ At("append") /\ ~BM!CanAppend(cur) /\ running = <<>>
    /\ Preempt(cur)
    /\ pc' = "decode"
    /\ UNCHANGED <<running, batchVars, fixedVars, kv>>

(* assert scheduled_seqs                                                   *)
DecodeDone ==
    /\ At("decode") /\ ~CanTake
    /\ \/ /\ scheduled # <<>>
          /\ running' = scheduled \o running
          /\ pc' = "run"
       \/ /\ scheduled = <<>>
          /\ pc' = "raised"
          /\ UNCHANGED running
    /\ UNCHANGED <<bmVars, waiting, status, batchVars, fixedVars, kv>>
-----------------------------------------------------------------------------
(* prepare_prefill, prepare_decode: the places in the block table of s     *)
(* whose slots the run writes.                                             *)
Written(s) ==
    IF isPrefill THEN (cached[s] \div BlockSize + 1)..BM!BlocksOf(s)
                 ELSE {Len(table[s])}

(* The prefix whose last block is number i of s.                           *)
PrefixTo(s, i) ==
    LET end == i * BlockSize
    IN  SubSeq(tokens[s], 1, IF end < Len(tokens[s]) THEN end ELSE Len(tokens[s]))

Batch == Range(scheduled)

Writes(s, i, b) == i \in Written(s) /\ table[s][i] = b

(* A prefill writes the slots of a block from its first one on; a decode   *)
(* step writes one more slot behind those that are there.                  *)
Content(s, i, old) ==
    IF \/ isPrefill
       \/ Len(tokens[s]) % BlockSize = 1
       \/ old = Front(tokens[s])
    THEN PrefixTo(s, i)
    ELSE old

(* Sequence.__getstate__: the positions whose tokens reach a worker.       *)
Shipped(s) ==
    IF Len(tokens[s]) = promptLen[s] THEN DOMAIN tokens[s] ELSE {Len(tokens[s])}

(* The positions whose tokens go through the layers.  A prefill computes   *)
(* what is not cached, which may be nothing.                               *)
Queries(s) ==
    IF isPrefill THEN (cached[s] + 1)..Len(tokens[s]) ELSE {Len(tokens[s])}

Computed == {i \in DOMAIN scheduled : Queries(scheduled[i]) # {}}

(* ParallelLMHead takes the rows cu_seqlens_q[1:] - 1: place i of the      *)
(* batch gets the last row of the nearest place up to i that has rows, and *)
(* without one, at index -1, the last row of all.                          *)
RowOf(i, j) ==
    LET upTo == {k \in Computed : k <= i}
        rows == IF upTo # {} THEN upTo ELSE Computed
    IN  j \in rows /\ \A k \in rows : k <= j

Run ==
    /\ At("run") /\ Computed # {}
    /\ drawn' \in [Batch -> Tokens]
    /\ \A i \in DOMAIN scheduled : \E j \in DOMAIN scheduled :
          RowOf(i, j) /\ drawn'[scheduled[i]] \in Samples(tokens[scheduled[j]])
    /\ kv' = [b \in BM!Blocks |->
                IF \E s \in Batch : \E i \in DOMAIN table[s] : Writes(s, i, b)
                THEN LET s == CHOOSE s \in Batch :
                                  \E i \in DOMAIN table[s] : Writes(s, i, b)
                         i == CHOOSE i \in DOMAIN table[s] : Writes(s, i, b)
                     IN  Content(s, i, kv[b])
                ELSE kv[b]]
    /\ left' = scheduled
    /\ pc' = "post"
    /\ UNCHANGED <<bmVars, queueVars, scheduled, isPrefill, batched, cur, fixedVars>>

(* Everything is cached: the layers get no row, the head indexes into an   *)
(* empty tensor, and step() raises.                                        *)
RunNothing ==
    /\ At("run") /\ Computed = {}
    /\ pc' = "nothing to run"
    /\ UNCHANGED <<bmVars, queueVars, batchVars, fixedVars, kv>>

Ends(s, t) ==
    \/ s \notin IgnoreEos /\ t = Eos
    \/ Len(tokens[s]) + 1 - promptLen[s] = MaxTokens

Postprocess ==
    /\ At("post") /\ left # <<>>
    /\ LET s == Head(left)
           t == drawn[s]
       IN  /\ BM!AppendToken(s, t)
           /\ pc' = IF Ends(s, t) THEN "finish" ELSE "post"
           /\ left' = IF Ends(s, t) THEN left ELSE Tail(left)
    /\ UNCHANGED <<queueVars, scheduled, isPrefill, batched, cur, drawn, fixedVars, kv>>

Finish ==
    /\ At("finish")
    /\ LET s == Head(left)
       IN  /\ status' = [status EXCEPT ![s] = "FINISHED"]
           /\ Release(s)
           /\ running' = RemoveFirst(running, s)
    /\ left' = Tail(left)
    /\ pc' = "post"
    /\ UNCHANGED <<waiting, scheduled, isPrefill, batched, cur, drawn, fixedVars, kv>>

EndStep ==
    /\ At("post") /\ left = <<>>
    /\ pc' = "idle" /\ drawn' = <<>>
    /\ UNCHANGED <<bmVars, queueVars, scheduled, isPrefill, batched, cur, left,
                   fixedVars, kv>>

(* The manager's loops go on while the scheduler waits for them.           *)
ManagerLoop ==
    /\ BM!AllocateNext \/ BM!DeallocateNext
    /\ UNCHANGED <<queueVars, batchVars, fixedVars, pc, kv>>

Engine ==
    \/ BeginStep \/ Admit \/ Admitted \/ PrefillDone
    \/ Take \/ Decode \/ PreemptOther \/ PreemptSelf \/ DecodeDone
    \/ Run \/ RunNothing \/ Postprocess \/ Finish \/ EndStep \/ ManagerLoop

Next == Engine \/ \E s \in Seqs : AddRequest(s)

(* The caller keeps stepping the engine until it is finished.              *)
Spec == Init /\ [][Next]_vars /\ WF_vars(Engine)
-----------------------------------------------------------------------------
(* Each entry was added before the next one.                               *)
InOrder(line) ==
    \A i, j \in DOMAIN line : i < j =>
        \E k, l \in DOMAIN arrived :
            k < l /\ arrived[k] = line[i] /\ arrived[l] = line[j]

(* First come, first served, whatever is preempted: between two steps the  *)
(* running queue followed by the waiting queue has the requests that are   *)
(* not finished, in order of arrival.                                      *)
ArrivalOrder ==
    pc = "idle" =>
        LET line == running \o waiting
        IN  /\ InOrder(line)
            /\ Range(line) = {s \in Range(arrived) : status[s] # "FINISHED"}

(* The keys and values a sequence attends to are those of its own prefix:  *)
(* a cached block is reused only where the whole prefix is the same.       *)
KVMatches ==
    pc = "post" =>
        \A s \in Range(left) : \A i \in DOMAIN table[s] :
            kv[table[s][i]] = PrefixTo(s, i)

(* A worker of a tensor-parallel run is sent, for every sequence, the      *)
(* tokens it has to compute: prepare_prefill reads all that are not        *)
(* cached, prepare_decode the last one.                                    *)
WorkersGetTheirTokens ==
    pc = "run" =>
        \A s \in Batch : Queries(s) \subseteq Shipped(s)

(* The manager is only driven the way it expects to be.                    *)
UsesManager == BM!Spec

(* Every request that is added is finished, preempted or not, unless the   *)
(* engine stops at a batch of nothing but whole blocks that are cached.    *)
AllCached ==
    /\ pc = "nothing to run" /\ scheduled # <<>>
    /\ \A s \in Batch : cached[s] = Len(tokens[s]) /\ cached[s] % BlockSize = 0

Served ==
    \A s \in Seqs : status[s] = "WAITING" ~> (status[s] = "FINISHED" \/ AllCached)
=============================================================================
