---------------------------- MODULE BlockManager ----------------------------
(***************************************************************************)
(* The paged KV-cache block manager of micro-vLLM                          *)
(* (nanovllm/engine/block_manager.py) and the sequences whose block tables *)
(* it fills (nanovllm/engine/sequence.py).                                 *)
(*                                                                         *)
(* allocate() and deallocate() loop over the blocks of one sequence; `job' *)
(* is the loop in progress and each iteration is a step, so no other call  *)
(* starts before the loop is done.  A chained hash is modelled by the      *)
(* prefix it digests: xxh64 is taken to be free of collisions.             *)
(*                                                                         *)
(* Next drives the manager with the calls a scheduler may make, in any     *)
(* order: `due' holds the sequences whose next token is being computed,    *)
(* which are neither extended twice nor taken away before it is appended.  *)
(***************************************************************************)
EXTENDS Integers, Sequences, FiniteSets, SequencesExt

CONSTANTS
    NumBlocks,      \* num_kvcache_blocks
    BlockSize,      \* kvcache_block_size
    Seqs,           \* the sequences (requests)
    Tokens,         \* the vocabulary
    Prompts,        \* the prompts a request may have
    MaxLen          \* bound: no sequence grows beyond MaxLen tokens

(* A block of one token would never be extended by may_append.             *)
ASSUME BlockAssumption ==
    /\ NumBlocks \in Nat \ {0}
    /\ BlockSize \in Nat /\ BlockSize >= 2
    /\ Prompts \subseteq Seq(Tokens) \ {<<>>}
    /\ IsFiniteSet(Seqs)

Blocks == 0..(NumBlocks - 1)
NoHash == <<>>
Idle   == [op |-> "idle"]

VARIABLES
    refCount,     \* Block.ref_count
    blockHash,    \* Block.hash
    blockTokens,  \* Block.token_ids
    hashTo,       \* hash_to_block_id
    free,         \* free_block_ids, oldest first
    used,         \* used_block_ids
    tokens,       \* Sequence.token_ids
    table,        \* Sequence.block_table
    cached,       \* Sequence.num_cached_tokens
    due,          \* sequences whose next token is being computed
    job,          \* the allocate or deallocate loop in progress
    raised        \* an assertion failed, or a list or set lacked an element

blockVars == <<refCount, blockHash, blockTokens>>
poolVars  == <<free, used>>
bmVars == <<blockVars, hashTo, poolVars, tokens, table, cached, due, job, raised>>

Init ==
    /\ refCount = [b \in Blocks |-> 0]
    /\ blockHash = [b \in Blocks |-> NoHash]
    /\ blockTokens = [b \in Blocks |-> <<>>]
    /\ hashTo = <<>>
    /\ free = [i \in 1..NumBlocks |-> i - 1]
    /\ used = {}
    /\ tokens \in [Seqs -> Prompts]
    /\ table = [s \in Seqs |-> <<>>]
    /\ cached = [s \in Seqs |-> 0]
    /\ due = {}
    /\ job = Idle
    /\ raised = FALSE
-----------------------------------------------------------------------------
(* Sequence.num_blocks and Sequence.block(i), with i from 0 as in the code.*)
BlocksOf(s) == (Len(tokens[s]) + BlockSize - 1) \div BlockSize

BlockOf(s, i) ==
    LET end == (i + 1) * BlockSize
    IN  SubSeq(tokens[s], i * BlockSize + 1,
               IF end < Len(tokens[s]) THEN end ELSE Len(tokens[s]))

ComputeHash(toks, prefix) == prefix \o toks

(* Mutant: the partial block at the end is not counted.                    *)
CanAllocateWhole(s) == Len(free) >= Len(tokens[s]) \div BlockSize

CanAllocate(s) == Len(free) >= BlocksOf(s)

Fill(s) == Len(tokens[s]) % BlockSize

CanAppend(s) == Len(free) >= IF Fill(s) = 1 THEN 1 ELSE 0

Registered(h, b) ==
    IF h = NoHash THEN hashTo
    ELSE [k \in DOMAIN hashTo \cup {h} |-> IF k = h THEN b ELSE hashTo[k]]

(* A hit needs the hash, and the tokens the block holds now: the entry of  *)
(* hash_to_block_id outlives the block's contents.                         *)
Hit(h, toks) == h \in DOMAIN hashTo /\ blockTokens[hashTo[h]] = toks

(* Mutant: reset() keeps the tokens of the block's last use.               *)
KeptContents(b, h, toks) == IF h = NoHash THEN blockTokens[b] ELSE toks

Contents(b, h, toks) == IF h = NoHash THEN <<>> ELSE toks

Unfree(b) == \E k \in DOMAIN free : free[k] = b /\ free' = RemoveAt(free, k)

(* _allocate_block followed by update: reset, then hash and tokens.        *)
Claim(b, h, toks) ==
    /\ refCount[b] = 0
    /\ refCount' = [refCount EXCEPT ![b] = 1]
    /\ blockHash' = [blockHash EXCEPT ![b] = h]
    /\ blockTokens' = [blockTokens EXCEPT ![b] = Contents(b, h, toks)]
    /\ Unfree(b)
    /\ used' = used \cup {b}

(* Mutant: a shared block is not counted.                                  *)
Uncounted(b) == UNCHANGED refCount

CountHolder(b) == refCount' = [refCount EXCEPT ![b] = @ + 1]

Share(b, h, toks) ==
    /\ CountHolder(b)
    /\ blockHash' = [blockHash EXCEPT ![b] = h]
    /\ blockTokens' = [blockTokens EXCEPT ![b] = toks]
    /\ UNCHANGED poolVars

Extend(s, b) == table' = [table EXCEPT ![s] = Append(@, b)]

(* An assertion fails or a container raises: nothing is done after that,   *)
(* and what the failing call had changed before it is left out.            *)
Fail ==
    /\ raised' = TRUE
    /\ job' = Idle
    /\ UNCHANGED <<blockVars, hashTo, poolVars, tokens, table, cached, due>>
-----------------------------------------------------------------------------
(* allocate() begins with `assert not seq.block_table'.                    *)
BeginAllocate(s) ==
    /\ ~raised /\ job = Idle
    /\ \/ /\ table[s] = <<>>
          /\ job' = [op |-> "allocate", seq |-> s, hash |-> NoHash, miss |-> FALSE]
          /\ UNCHANGED <<blockVars, hashTo, poolVars, tokens, table, cached, due,
                         raised>>
       \/ table[s] # <<>> /\ Fail

(* The iteration's block hash: -1 for the partial block at the end.        *)
NextTokens == BlockOf(job.seq, Len(table[job.seq]))

NextHash ==
    IF Len(NextTokens) = BlockSize THEN ComputeHash(NextTokens, job.hash)
                                   ELSE NoHash

(* Once a block misses, the rest of the sequence is allocated afresh.      *)
Misses == job.miss \/ ~Hit(NextHash, NextTokens)

(* The block of the iteration is placed; the loop goes on or is over.      *)
Placed(b) ==
    LET s == job.seq
        done == Len(table[s]) + 1 = BlocksOf(s)
    IN  /\ hashTo' = Registered(NextHash, b)
        /\ Extend(s, b)
        /\ job' = IF done THEN Idle
                  ELSE [job EXCEPT !.hash = NextHash, !.miss = Misses]
        /\ due' = IF done THEN due \cup {s} ELSE due
        /\ UNCHANGED <<tokens, raised>>

AllocateMiss ==
    /\ Misses /\ free # <<>>
    /\ Claim(Head(free), NextHash, NextTokens)
    /\ Placed(Head(free))
    /\ UNCHANGED cached

AllocateHit ==
    LET b == hashTo[NextHash]
    IN  /\ ~Misses
        /\ IF b \in used THEN Share(b, NextHash, NextTokens)
                         ELSE Claim(b, NextHash, NextTokens)
        /\ Placed(b)
        /\ cached' = [cached EXCEPT ![job.seq] = @ + BlockSize]

(* free_block_ids[0], the assertion on ref_count, free_block_ids.remove.   *)
AllocateFails ==
    /\ IF Misses THEN free = <<>> \/ refCount[Head(free)] # 0
       ELSE LET b == hashTo[NextHash]
            IN  b \notin used /\ (refCount[b] # 0 \/ b \notin Range(free))
    /\ Fail

AllocateNext ==
    /\ job.op = "allocate"
    /\ AllocateMiss \/ AllocateHit \/ AllocateFails
-----------------------------------------------------------------------------
(* Sequence.append_token, once the model has sampled a token.              *)
AppendToken(s, t) ==
    /\ ~raised /\ job = Idle
    /\ tokens' = [tokens EXCEPT ![s] = Append(@, t)]
    /\ due' = due \ {s}
    /\ UNCHANGED <<blockVars, hashTo, poolVars, table, cached, job, raised>>

(* may_append: a new block for the first token of a block, ...             *)
OpenBlock(s) ==
    /\ Fill(s) = 1
    /\ blockHash[Last(table[s])] # NoHash /\ free # <<>>
    /\ Claim(Head(free), NoHash, <<>>)
    /\ Extend(s, Head(free))
    /\ UNCHANGED hashTo

PrefixHash(s) ==
    IF Len(table[s]) > 1 THEN blockHash[table[s][Len(table[s]) - 1]] ELSE NoHash

(* ... a hash for a block that has just been filled, ...                   *)
SealBlock(s) ==
    LET b == Last(table[s])
        toks == BlockOf(s, BlocksOf(s) - 1)
        h == ComputeHash(toks, PrefixHash(s))
    IN  /\ Fill(s) = 0
        /\ blockHash[b] = NoHash
        /\ blockHash' = [blockHash EXCEPT ![b] = h]
        /\ blockTokens' = [blockTokens EXCEPT ![b] = toks]
        /\ hashTo' = Registered(h, b)
        /\ UNCHANGED <<refCount, poolVars, table>>

(* ... and nothing in between.                                             *)
StayInBlock(s) ==
    /\ Fill(s) \notin {0, 1}
    /\ blockHash[Last(table[s])] = NoHash
    /\ UNCHANGED <<blockVars, hashTo, poolVars, table>>

MayAppendFails(s) ==
    IF Fill(s) = 1 THEN \/ blockHash[Last(table[s])] = NoHash \/ free = <<>>
                        \/ refCount[Head(free)] # 0
                   ELSE blockHash[Last(table[s])] # NoHash

MayAppend(s) ==
    /\ ~raised /\ job = Idle
    /\ \/ /\ OpenBlock(s) \/ SealBlock(s) \/ StayInBlock(s)
          /\ due' = due \cup {s}
          /\ UNCHANGED <<tokens, cached, job, raised>>
       \/ MayAppendFails(s) /\ Fail
-----------------------------------------------------------------------------
BeginDeallocate(s) ==
    /\ ~raised /\ job = Idle
    /\ job' = [op |-> "deallocate", seq |-> s]
    /\ UNCHANGED <<blockVars, hashTo, poolVars, tokens, table, cached, due, raised>>

(* Mutant: a block is freed whoever else holds it.                         *)
FreeAnyway(b) == TRUE

Unheld(b) == refCount[b] = 1

(* One iteration over reversed(block_table).  The table is cleared after   *)
(* the loop, which nothing can tell from dropping each block as it goes.   *)
DeallocateNext ==
    /\ job.op = "deallocate"
    /\ LET s == job.seq
           b == Last(table[s])
       IN  \/ /\ Unheld(b) => b \in used
              /\ refCount' = [refCount EXCEPT ![b] = @ - 1]
              /\ IF Unheld(b)
                 THEN used' = used \ {b} /\ free' = Append(free, b)
                 ELSE UNCHANGED poolVars
              /\ table' = [table EXCEPT ![s] = Front(@)]
              /\ IF Len(table[s]) = 1
                 THEN job' = Idle /\ cached' = [cached EXCEPT ![s] = 0]
                 ELSE UNCHANGED <<job, cached>>
              /\ UNCHANGED <<blockHash, blockTokens, hashTo, tokens, due, raised>>
           \/ Unheld(b) /\ b \notin used /\ Fail

(* clear_persistent_prefix_cache of the prefix benchmark, between requests.*)
ClearCache ==
    /\ ~raised /\ job = Idle
    /\ \A s \in Seqs : table[s] = <<>>
    /\ hashTo' = <<>>
    /\ blockHash' = [b \in Blocks |-> IF refCount[b] = 0 THEN NoHash ELSE blockHash[b]]
    /\ blockTokens' = [b \in Blocks |-> IF refCount[b] = 0 THEN <<>> ELSE blockTokens[b]]
    /\ UNCHANGED <<refCount, poolVars, tokens, table, cached, due, job, raised>>

(* The protocol of the manager's callers.                                  *)
MayBeAllocated(s) == table[s] = <<>> /\ CanAllocate(s)
MayBeExtended(s)  == table[s] # <<>> /\ s \notin due /\ CanAppend(s)
MayBeReleased(s)  == table[s] # <<>> /\ s \notin due
MaySample(s)      == s \in due /\ Len(tokens[s]) < MaxLen

Next ==
    \/ ClearCache
    \/ AllocateNext \/ DeallocateNext
    \/ \E s \in Seqs :
          \/ MayBeAllocated(s) /\ BeginAllocate(s)
          \/ MayBeExtended(s) /\ MayAppend(s)
          \/ MayBeReleased(s) /\ BeginDeallocate(s)
          \/ \E t \in Tokens : MaySample(s) /\ AppendToken(s, t)

Spec == Init /\ [][Next]_bmVars
-----------------------------------------------------------------------------
Jobs == [op : {"allocate"}, seq : Seqs, hash : Seq(Tokens), miss : BOOLEAN]
          \cup [op : {"deallocate"}, seq : Seqs] \cup {Idle}

(* Type invariant: what the manager and the block tables may hold.         *)
TypeOK ==
    /\ refCount \in [Blocks -> Nat]
    /\ blockHash \in [Blocks -> Seq(Tokens)]
    /\ blockTokens \in [Blocks -> Seq(Tokens)]
    /\ DOMAIN hashTo \subseteq Seq(Tokens)
    /\ \A h \in DOMAIN hashTo : hashTo[h] \in Blocks
    /\ free \in Seq(Blocks) /\ used \subseteq Blocks
    /\ tokens \in [Seqs -> Seq(Tokens) \ {<<>>}]
    /\ table \in [Seqs -> Seq(Blocks)]
    /\ cached \in [Seqs -> Nat]
    /\ due \subseteq Seqs
    /\ job \in Jobs
    /\ raised \in BOOLEAN

(* The places in the block tables that point at a block.                   *)
Slots == UNION {{s} \X DOMAIN table[s] : s \in Seqs}
Holders(b) == {p \in Slots : table[p[1]][p[2]] = b}

(* ref_count is exact: it counts the block-table entries that point at the *)
(* block, through sharing, release and reuse, also in mid-loop.            *)
RefCountsExact == \A b \in Blocks : refCount[b] = Cardinality(Holders(b))

(* No block is lost or handed out twice: every block is either listed free *)
(* once or used, and the used ones are those somebody holds.               *)
NoLeak ==
    /\ \A i, j \in DOMAIN free : free[i] = free[j] => i = j
    /\ Range(free) = Blocks \ used
    /\ used = {b \in Blocks : refCount[b] > 0}

(* None of the manager's assertions fails and no container lacks what is   *)
(* taken from it, whatever legal calls are made and however blocks are     *)
(* shared; can_allocate counts enough blocks for the whole loop.           *)
NeverRaises == ~raised

(* A full block in a table holds the tokens of the sequence at that place, *)
(* for each of its holders, and a block that is still being filled has one *)
(* holder, at the end of its table: no reuse overwrites a block that is    *)
(* held, and no two sequences write to one.                                *)
HeldTokensMatch ==
    \A p \in Slots :
        LET b == table[p[1]][p[2]]
        IN  IF blockHash[b] = NoHash
            THEN Holders(b) = {p} /\ p[2] = Len(table[p[1]])
            ELSE blockTokens[b] = BlockOf(p[1], p[2] - 1)

=============================================================================
