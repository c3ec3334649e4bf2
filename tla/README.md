# brick.agent: verification project

TLA+ models of the parts of this repository whose correctness depends on the
order of steps, on shared state, on failures, or on index arithmetic that tests
with friendly sizes do not reach; TLC runs that check them on small instances;
and theorems, checked by TLAPS, that hold for every value of the constants.
Paths below are relative to the repository root.

The repository holds three programs with a core logic of their own:

* **brick.agent** (`src/`): agents that answer questions over a SQL database, a
  knowledge base of OKF markdown, or a long conversation, and a *mentor loop*
  that improves their prompts. All of it is event-driven: a `Runtime` of the
  external package `activegraph` calls registered behaviors, one at a time, on
  the events that earlier behaviors emitted.
* **the knowledge tools** (`src/okf`, `src/tools`, `src/runtime`, `skills/`):
  a compiler, a linter, a repair and a migration over bundles of OKF files, and
  a history of operators that several agents append to. Each is a process of its
  own; what they share is the file system.
* **KernelAgent** (`KernelAgent/`): an inference engine, micro-vLLM, with
  continuous batching, a paged KV cache with prefix sharing, preemption and
  tensor-parallel workers; and the studies it grew from, kernels for matrix
  products and attention on GPU tiles.

## 1. Inventory

| Component | State it keeps | Operations | Talks to | What is hard |
|---|---|---|---|---|
| Mentor loop (`src/core/loop/behaviors.py`, `runner.py`) | `LoopContext`: baseline, last result, candidate, counters, exhausted regimes, transform log | one behavior per event, `run_loop` | gates, evaluation backend, author, pipeline | many rounds of install, trial, revert; calls that raise; one counter for several regimes; a stop that must come exactly once |
| Gates (`gates.py`) | none | `static_gate`, `sandbox_gate`, `eval_diff`, `promotion_decision` | pipeline, backend | revert after a trial, also when it raises; what the sandbox lets through the seam must honour |
| Transform pipelines (`core/targets/*/prompt_transforms.py`, `core/agent/*transforms.py`) | a registry per seam | `promote`, `revert`, `apply_pipeline` | loop, agents | names are the only key, and repeat; a raising transform in the middle |
| Long-memory evaluation (`core/eval/real.py`, `core/agent`) | outcomes, embedding audit | `run_on_split`, `retrieve` | embedder, reader, judge | three outside parties that fail; verdicts joined by position |
| SQL target (`core/targets/sql`) | none | `retrieve`, `execute_sql`, parser, outcome | SQLite, drafter | errors that look like empty results; a chain of half-blind detectors |
| Taxonomies (`loop/regimes.py`, `targets/*/taxonomy.py`) | registry of proposed regimes | `classify`, `histogram`, `register_regime` | loop | priority among detectors |
| Authors (`loop/hypothesize.py`, `sql/hypothesize.py`, mock authors) | none | `draft` | LLM | fallbacks, malformed replies |
| OKF agent (`src/agents/okf`) | per-process cache of knowledge bases | `ingest`, `lint`, `ask` | loader, taxonomy, reader registry, seam | stale snapshots, failed ingests |
| Reader registry, observability, replay (`src/runtime`) | reader per request id; recorded `llm.*` events | `set_reader`, `clear_reader`, `ask_with_observability`, `build_replay_cache` | SQL and OKF agents | shared ids, errors that must not be replayed |
| OKF knowledge graph (`core/targets/okf/taxonomy.py`, `runtime/loader.py`) | none | `load_knowledge_graph`, eight detectors, `populate_graph` | agent, taxonomy, repair | names resolved three ways; cycle search; relations declared on one side |
| OKF compiler, history, validator (`src/okf`) | none (an IR per run) | `compile`, `apply_to_ir`, `run_validation` | history file | operators that invalidate what was validated |
| History log (`runtime/history_logger.py`) | a YAML file | `append_operator` | compiler | read-modify-write without a lock |
| Repair, migration (`tools/okf_repair.py`, `skills/validate`) | the bundle | three passes; `migrate_text` per file | loader | files rewritten one by one, from a graph loaded before; stops and reruns |
| Block manager (`nanovllm/engine/block_manager.py`) | blocks with reference count, hash and tokens; free queue; used set; hash table | `allocate`, `deallocate`, `may_append`, `can_allocate`, `can_append` | scheduler, sequences | shared prefixes, freed blocks that are still findable |
| Scheduler and engine (`scheduler.py`, `llm_engine.py`, `sequence.py`) | waiting and running queues, statuses | `add_request`, `step`, `schedule`, `preempt`, `postprocess` | block manager, model runner | preemption in mid-batch, order of arrival, starvation |
| Model runner, parallel layers (`model_runner.py`, `layers/linear.py`, `embed_head.py`, `loader.py`) | KV cache, buffers, shared memory, shards | `prepare_*`, `run`, `write_shm`, `read_shm`, `weight_loader` | workers, GPU | an unacknowledged buffer; which rows are a rank's own |
| Attention layer (`layers/attention.py`, `cutile_attention.py`) | the paged cache | `store_kvcache`, prefill and decode kernels | model runner | slots, pages, tiles and masks of different sizes |
| Kernel studies (`0-MatMul`, `1-FMHA`, `2-LLM-from-scratch`) | tuning caches, static buffers of a captured graph | matrix products, attention forward and backward, generation | GPU | tile orders, masks, paddings, buffers overwritten in place |
| Split loader, event store, guardrails, router, CLI, visualizer, scripts | little or none | | | see section 8 |

What makes each of them correct:

* **Mentor loop**: only what passed every gate stays installed, and it stays;
  what the next round believes is what the installed pipeline does; a regime is
  given up only for its own failures; the score never drops over a
  deterministic backend; every run ends, with one `loop.stopped`.
* **Measurement**: a context is packed within its budget; a batch the embedder
  fails costs no turn its score but those it refuses; a verdict counts for its own
  question; a failure is diagnosed once, and one that no prompt can repair is not handed to an author; what the
  sandbox accepts, the seam applies.
* **SQL target**: a query that did not run is not right; what a failure is blamed
  on is so.
* **Agents**: a call asks its own reader and leaves none behind; a prompt is
  made of snapshots its knowledge base had; what the log says is what was
  answered; a replay serves what was recorded.
* **Knowledge tools**: no record of the history is lost between writers who do
  not meet, and no two records share an id; what is compiled is as sound as what
  was validated; lint and validator are exact; a repair or a migration, stopped
  and run again, ends as one undisturbed run, and takes nothing away.
* **Block manager**: exact reference counts; no block lost or given out twice;
  no assertion fails; a shared block holds what each holder believes; a block
  that is still written has one holder.
* **Scheduler**: first come, first served across preemptions; legal use of the
  manager; the attention of a sequence reads its own prefix; every request is
  finished, unless a batch has nothing left to compute.
* **Ranks and kernels**: workers read whole calls in order; the shards make up
  the model; a row attends exactly the keys it may see, once each; gradients
  take every pair once; every tile is computed, by one block.

## 2. Modules

| Module | Models | Role |
|---|---|---|
| `TransformPipeline` | `promote` / `revert` of the seams | operators used by `MentorLoop` |
| `MentorLoop` | `core/loop/behaviors.py`, `runner.py`, parts of `gates.py` | component |
| `MentorPromise` | | abstract specification of the loop |
| `Retrieval` | `core/agent` (score, transform, expand, assemble) | component |
| `FailureRegimes` | `core/loop/regimes.py` | operators |
| `Measurement` | `core/eval/real.py`, the sandbox gate, over `Retrieval` and `FailureRegimes` | component |
| `MeasuredLoop` | | composition: `MentorLoop` whose first measurement is `Measurement` |
| `OkfAgent` | `agents/okf`, `retrieve` of `targets/sql/agent`, `runtime/reader_registry.py`, `observability.py`, `replay.py` | component |
| `SqlMeasurement` | `core/targets/sql`: agent, transforms, parser, execution, taxonomy, outcome | component |
| `Agents` | | composition: calls of the agents, or a measurement of the SQL target |
| `Knowledge` | `load_knowledge_graph`, lint, `populate_graph`, the validator's verdict | operators |
| `Bundle`, `HistoryLog` | the files on disk, their author; `history_logger.py` and its writers | shared state |
| `Compiler`, `Repair`, `Migration` | `src/okf`; `tools/okf_repair.py`; `skills/validate/scripts/okf_validate.py` | components |
| `KbTools` | | composition of the five over one bundle |
| `BlockManager` | `block_manager.py`, block arithmetic of `sequence.py` | component |
| `Scheduler` | `scheduler.py`, `llm_engine.py`, slots of `model_runner.py`, pickling of `sequence.py` | composition: the engine over an instance of `BlockManager` |
| `TensorParallel` | ranks: `model_runner.py`'s channel, `layers/linear.py`, `embed_head.py`, `utils/loader.py` | component |
| `Device` | a CUDA stream and its blocks | component under the kernels |
| `FlashTile`, `FlashAttention`, `FmhaStudies`, `PagedAttention`, `GraphDecode`, `TileGrids` | the kernels and host code of `KernelAgent` | operators: grids, loop bodies, stores |
| `Kernels` | | composition: a host program on a device, or the ranks |
| `MC*` | | instances, symmetry, documented claims |
| `MeasuredLoopProofs` (mentor loop and measurement), `OkfAgentProofs`, `SqlMeasurementProofs`, `KbToolsProofs` (history log, compiler, migration and repair), `KernelsProofs`, `TilesProofs`, `BlockManagerProofs`, `SchedulerProofs` | | theorems |

### MentorLoop

The runtime is single-threaded and at most one event of the loop is pending, so
`pending` is the event queue and each behavior is one action that consumes it:
`RunBaseline`, `Diagnose`, `Hypothesize`, `StaticGate`, `SandboxGate`,
`EvalDiffGate`, `Promote`, `Attribute`, `IterateAfterPromote`,
`IterateAfterFailure` (three listeners, one handler) and `Rebaseline`. `Return`
is `run_loop` after `run_until_idle`: the backstop, then the report. The
variables are the slots of `LoopContext` (`baseline`, `last_result`,
`consecutive_discards`, `exhausted_regimes`, `iterations`, `current_*`,
`transform_log`), the pipeline on the target's seam and what the caller sees
(`stops`, `attribution`, `origin` = `report.baseline`).

An evaluation is a function from question ids to `"correct"` or the failure
regime of that question; `Possible(pipeline, r)` says which results a backend
can return with a pipeline installed, so a fake reader, a deterministic one and
an LLM's noise are all instances. Accuracies over equal question sets compare
as numbers of wins, and the default floors are zero. The author is the set
`DraftsOf(regime)`: its drafts carry a name, a function, a seam and the regime
they claim. `Faults` names the calls that may raise: the author, the compilation
of a draft that passed the static gate, a run over the OPTIMIZE split, a run over
the CONFIRM split. A behavior that raises is `behavior.failed` in the runtime and
emits nothing.

A pipeline is a set of entries with the round each was installed in: a round
installs one candidate, at the end, so the rounds order the entries as the list
does. The built-in transforms are never touched by the loop and are left out.

### Retrieval, FailureRegimes, Measurement, MeasuredLoop

`Retrieval` is one question through the long-memory agent: `Scores` by
distinctive words or by embeddings; the transforms of the score seam with
their checks; `Expand` to adjacent turns; `Assemble`, the walk in order of score
under the token budget, whose decisions are kept because the taxonomy reads
them. Embedding follows the code call by call: one batch for the turns and one
for the question (`OfTurns`, `OfQuery`), each of which may fail or come back
short (`Answered`); a batch that failed is embedded input by input, a refused
input leaving an error and an empty vector (`EmbedAlone`); turns and vectors are
then put together by position, to the end of the shorter (`EmbeddingScores`). A
vector is named by the input it was made of, so that one that slipped to another
turn shows. `Measurement` runs every question of a split, then the judge, whose lines
may lose their question id, be unreadable, be missing or come in another order,
joins them back and diagnoses. `MeasuredLoop` puts this measurement where
`MentorLoop!RunBaseline` is, so the loop starts from outcomes the agent can
really produce; later measurements of the loop are single steps with any result.
`Measurement.installed` is what an earlier run left on the score seam, and the
loop's `pipeline` is what this run installs.

### OkfAgent, SqlMeasurement, Agents

A call has a graph, a runtime and a log of its own; what calls share are the
cache of knowledge bases (`kbs` = `_KBS`), the table of readers (`registry` =
`_REGISTRY`), the bundles (`disk`) and the readers. Each table has a lock held
for one access only, so a step of a call is what it does between two accesses,
and `pc` says which comes next. `Begin` registers the caller's reader and seeds
the first event; `Lookup`, `Load` and `Install` are `_kb_for` and the loading of
`behavior_ingest`; `ReportIngest` and `ReportLint` end those two chains;
`AssembleContext`, `BuildPrompt` (which may raise and then answers with an error),
`GetReader` and `CallReader` are the chain of `ask`, the last two also that of the
SQL agent; `Close` and `Interrupt` are the
two ways out, both through the `finally` that drops the reader. `EditBundle` is
whoever edits a bundle or moves it away.

A prompt is the pair of snapshots it is rendered from: the one the context was
assembled from and the one the next behavior finds for the concept tree. A
reader is its replay cache, the run that cache was harvested from and the model
it falls back on; `Readers` grows with every call that ended, so replays of
replays occur. The payloads keep the prompt, the answer, whether there was an
error, and the cause. `seen` is a history variable: the snapshots a call's
knowledge base has had since the call began. Locals are reset when a call ends.

`SqlMeasurement` unrolls what `OkfAgent` takes for one step: a question's schema
is encoded, columns are scored, the prompt pipeline runs, a query is drafted,
executed against the database and diagnosed. A query is what SQLite and the
parser by regular expressions tell apart: its form, the tables and aliases of
its FROM, whether they are joined, the columns named, and whether it has WHERE,
GROUP BY and HAVING.

Assumed of the callers: a request id is used by one call at a time (`FreshId`).
Nothing in `ask` enforces it. Loading a bundle is one step, though files could
change in the middle of it.

### Knowledge, Bundle, HistoryLog, Compiler, Repair, Migration, KbTools

A file is what the readers extract from its text: id, file stem, kinds, the
declarations of its frontmatter and of its relationship blocks, which any word may
head (`"other"` stands for those that are none of the four relations and matter
to the dangling references only), sources, triggers, schema references. `Load`
builds the graph as `load_knowledge_graph` does, with the three ways a name is resolved; the detectors of lint, the objects
of `populate_graph` and the validator's id table and cycle search are operators
over it. The searches are written as the code's depth-first searches, and
checked against reachability.

In `KbTools` a bundle is repaired before it has a history, and a compilation
and a repair do not overlap; writers, the author and a compilation do.

`HistoryLog` has several writers between whose read, truncation and write
anything may happen, stops included; a reader may see a beginning of the file.
A writer stopped in mid-write leaves nothing of its text, a part that does not
parse, or, in a file it truncated, some of its records.
`Compiler` ingests the bundle, then reads the history as it then is and replays
it operator by operator. `Repair` works from a graph loaded before its first
write, reads each file again and rewrites it, under an author's edits.
`Migration` rewrites the pages of a v0.1 bundle one by one: a page is its
top-level keys in order and its sections, so that doubled keys, hoisted
citations and lost links can be told apart.

### BlockManager

The variables are the fields of `Block`, the manager's containers, and of each
sequence its `token_ids`, `block_table` and `num_cached_tokens`. `allocate` and
`deallocate` run one block per step (`job` is the loop in progress), so the
invariants hold in mid-loop too. `Fail` is a failed assertion or a container
without the element that is taken from it; `NeverRaises` says it never happens.
A chained hash is modelled by the prefix it digests (no collisions of xxh64).
`hash_to_block_id` is never cleaned, exactly as in the code: an entry outlives
its block's contents, and a hit also compares the tokens the block holds now.
`Next` makes every legal call in any order: allocate what has no table and
fits, extend or release what has a table and no token under way, sample what
was extended, and clear the cache when nobody holds anything (the prefix
benchmark does this). It is more liberal than the scheduler, which is checked
to stay within it (`UsesManager`).

### Scheduler

`pc` is where `LLMEngine.step` is; each iteration of the loops of `schedule`
and `postprocess` is a step and waits for the manager's loop it started.
`AddRequest` may come between any two steps. The manager is an instance of
`BlockManager` over the same variables. `kv` says what the GPU holds: for each
block, the prefix whose keys and values its slots were computed from, written
by `Run` at the places `prepare_prefill` and `prepare_decode` compute. The
sampler is the set `Samples(prefix)`; a run samples once for the whole batch
(`drawn`) and `Postprocess` hands the tokens out.

A prompt whose blocks are all cached has no position to compute (`Queries`). The
head takes the rows `cu_seqlens_q[1:] - 1`, so such a sequence gets the last row
of the sequence before it in the batch, or, in front, the last row of all: that
is `RowOf`, and its token is then sampled after another sequence's text. If no
sequence of the batch has a row, the head indexes an empty tensor and `step`
raises (`RunNothing`).

### TensorParallel, Device and the kernels

`TensorParallel` is a process per rank: rank 0 creates the segment and the
others open it after a barrier; each rank loads the files of the checkpoint in
any order and cuts out its shards; then rank 0 makes its calls, each a write of
the length, a write of the body and one event per worker, and all meet in the
collectives of the run. What the ranks together compute is put together from
their shards, head by head and row by row.

`Device` is a stream: launches in order, the blocks of a launch in any order, at
most `Resident` at a time, one iteration of a block's loop per step. The kernel
modules say what a launch is: its grid, what a block's loop does with its
accumulator, and what it stores. A floating-point sum is kept as the terms it is
a sum of, and a row of a tensor is named by where it lies, so that a wrong mask,
a tile read twice, a row of another head or a stale buffer shows as a term too
many, too few or of the wrong row.

## 3. Runs

| Run | Question | Result |
|---|---|---|
| `mentor_full` | authors that fix a whole regime or make things worse, a held-out split, a deterministic backend; an author, a compilation and a measurement that may raise | nothing unpromoted is installed, no round starts from a result of another pipeline or a diagnosis of another result, and the loop implements `MentorPromise`, in which a measurement that raised is none |
| `mentor_noisy` | the first measurement taken question by question with an embedder, a reader and a judge that fail; then any result, any call may raise (also CONFIRM), drafts that reuse a name, two seams, pausing | contexts are packed, a failed batch of embeddings costs no turn its score but the refused ones, verdicts are a question's own, failures are diagnosed once, the seam honours what the sandbox accepted, promotions stay, regimes are retired on their own failures, every run returns and stops once |
| `mentor_original` | is attribution against the original baseline? | violated (finding 1) |
| `mentor_reuse` | is an applied improvement in use afterwards, when a regime needs a second draft? | violated (finding 2) |
| `blocks` | any legal sequence of calls on the manager | counts are exact, nothing leaks, no assertion fails, shared blocks hold what each holder believes |
| `serving` | three requests, a pool too small for two long ones, batches of two, prompts that are served twice | arrival order, own prefixes, the manager's protocol, and every request is finished unless the engine stops at a batch of nothing but cached blocks |
| `serving_stale` | is a cached block's prefix the request's own, for any prompts? | violated (finding 3) |
| `serving_workers` | does each worker get the tokens it must compute? | violated (finding 4) |
| `okf_calls` | three calls of both agents, two at a time, over one knowledge base whose bundle changes, with interrupts; and measurements of the SQL target | readers stay with their calls, prompts are grounded, trails match the answers, replays are faithful, diagnoses follow the query |
| `kb_tools` | two writers and an author on one history file, the compiler beside them, the repair under edits and stops, a migration stopped and run again | the history is kept, keeps the references and the study order, lint and validator are exact, repair only mirrors, migration converges and only helps |
| `kernels` | every launch of the instance, its blocks in any order; three ranks from start to exit | rows attend their keys, gradients take each pair once, pages and captured buffers are a program's own, every tile is computed once, shards line up, everything ends |
| `paged_prefill` | the paged prefill kernel with a page of two tiles | violated (finding 5) |

### Bounds, and why they are enough

* **Mentor**: two reachable regimes and one wall (rotation and the wall need
  both), four questions (a regime with two failures, one with one, one correct
  answer), `MaxDiscards = 2` (a counter that can be left half full),
  `MaxIterations` 5 in the deterministic run (both regimes fixed, each after a
  failure) and 2 in the noisy one, where the guard is what stops most runs.
* **Measurement**: two questions over two sessions of two turns and one held-out
  question: a question whose answer is in its own turn, in a neighbour, or in
  another session. `Budget = 6` holds some turns and not all, so a walk skips
  one turn and takes a later one; `WellRankedK = 2` of four turns; each of the
  embedder's two batches fails or not, is short or not, with no input refused, one,
  two, or one and the question;
  `MaxDf`, `MinSessions` prune some words and not all. The later measurements of
  the loop answer one of three results: all correct, one failure of one regime,
  and two of the other.
* **Blocks**: three blocks of two tokens and three symmetric sequences of up to
  four tokens from an alphabet of two: blocks are shared by two and by three,
  freed, found again, refilled, opened and sealed; the pool is exhausted. The
  three bound parameters are `NumBlocks`, `BlockSize` and `MaxLen`.
* **Serving**: four blocks, prompts of three and four tokens that may grow by
  three, two per batch, which may hold two whole prompts (`MaxBatchedTokens = 8`):
  `PreemptOther` and `PreemptSelf` both fire (TLC's action
  counts show it), a preempted sequence is prefilled again from its own cached
  blocks, and requests with equal prompts share blocks. A prompt of four tokens is
  two whole blocks, so that a second request with it is fully cached, alone in its
  batch or beside another. In this instance the
  texts are such that equal full blocks have equal prefixes, also where a token is
  sampled after another sequence's text; what happens without that is the question
  of `serving_stale`. A lone sequence
  always fits the pool: with one block `assert scheduled_seqs` does fail, since
  `add_request` never compares a request with the pool (section 7).
* **Agents**: three calls, at most two in progress (`Width`): two that race, and
  one before or after that uses a request id again, or whose run is replayed, or
  replays a replay. One knowledge base, so that calls meet on it; one bundle
  with two contents, edited or removed once (`MaxEdits`); two request ids, one
  of them used by both agents; two answers a model may give, or an exception.
  The calls are symmetric.
* **SQL**: two tables of the schema and a third it declares at most in a foreign
  key, `TopK = 2` of their columns, a pipeline of up to two transforms of
  which one may raise or be refused, and one of either kind write in place, and queries that join on both sides,
  one side or not at all, aggregate or filter, or do not parse.
* **Knowledge tools**: bundles of three files over seven names, chosen so that
  ids, stems and dotted names collide, chains and cycles occur and a reference
  dangles; one edit (`MaxEdits`). Two writers and at most three records
  (`MaxRecords`): a lost record needs two writers, a wrong number three records.
  Declarations, edits and records together are at most three (`MaxWork`), so a
  bundle with many relations meets a short history and the other way round. Two
  runs of the migration (`MaxRuns`): one that is stopped and one after it, over
  one page of every make, alone or beside an index, a log and another page.
* **Kernels**: score tiles of one to four rows and sequences whose length is not their
  multiple, so that a ragged last tile, a fully masked tile, a partly masked and
  an unmasked one all occur; two query heads on one key head; two blocks at a
  time (`Resident`), where a third must wait; pages of two with a tile of four
  (strategies that gather) and of four with a tile of two (`paged_prefill`).
  `TpSize = 3`, six heads and three key heads: a rank's shard has a beginning
  and an end inside the tensor; two `Runs` and an exit, since the second call is
  what can overtake the first.

Deadlock is not checked where the system stops by design: a returned run, a
served set of requests, a manager whose sequences are all at `MaxLen`, calls
that have all ended, tools that have all exited, a finished host program.

### Fairness

* `MentorLoop!Spec` and `MeasuredSpec` have weak fairness of `Next`:
  `run_until_idle` keeps calling behaviors while an event is pending and
  `run_loop` then returns. Nothing is assumed of a backend that hangs: it would
  be inside one action.
* `Scheduler!Spec` has weak fairness of `Engine`: `generate` calls `step` until
  the scheduler is finished, and its loops run to their end. Nothing is assumed
  of `AddRequest`: no request need ever come.
* `Kernels!Spec` has weak fairness of the device's steps (a resident block is
  scheduled, a stream goes on) and of each rank's own step; nothing is assumed
  between ranks but the events they wait for.
* `BlockManager`, `Agents` and `KbTools` have none, and only safety is stated
  of them: a call or a tool may be interrupted or hang at any point.

## 4. Abstract specifications

`MentorPromise` is what the loop promises its caller: deployed transforms only
grow, each deployment is measured before the next, the measured score never
drops, and the run ends with everything measured, or its caller is told that it
broke down. A breakdown (`Fail`) measures nothing and nothing is deployed after
it. `MentorLoop!KeepsPromise` maps `pipeline` to what is deployed, the wins of
`last_result` to the score, a behavior that raised to `failed` and the backstop's
`loop_drained_without_stop` to `told`. `Unmeasured` holds until a baseline has come
back, from a promotion until its attribution run has, and for good if that run
raised: a measurement that raised counts as none. It holds when a draft either
fixes its whole regime or is rejected, and no held-out run raises; finding 2 and
the unprotected CONFIRM runs are what break it otherwise.

`BlockManager!Spec` serves as the abstract specification of the scheduler's use
of the manager: `UsesManager` says that every step of the engine is a legal call
or leaves the manager alone.

Algorithms are checked against definitions that do not follow them: the
depth-first searches of lint and validator against reachability
(`ChecksAreExact`), every attention loop against the mask of a row's keys
(`RowsAttendTheirKeys`), a migration that was stopped against an undisturbed one
(`MigrationConverges`), the ranks' shards against the whole tensor
(`ShardsLineUp`).

## 5. Proofs

TLAPS checks the theorems below for every value of the constants that meets the
named assumptions of the modules: `LoopAssumption`, `BlockAssumption`,
`EngineAssumption` and `ManagerAssumption`, `AgentAssumption`,
`MeasureAssumption`, `CorpusAssumption` and `TaxonomyAssumption`,
`SqlAssumption`, `LogAssumption`, `MigrationAssumption`,
`DeviceAssumption`, `TpAssumption`. TLC evaluates each of
them in a run. They say that bounds are numbers, that prompts are not empty and
sets that are counted are finite, and what the code's inputs look like; where one
says more it is named below.

### Mentor loop: `MeasuredLoopProofs`, first half

For every taxonomy, author, backend, set of faults and bound:

* `TypeCorrect`: `Spec => []TypeOK`. Its counter bound, `consec < MaxDiscards`,
  is not a matter of types: it needs the reset on retirement.
* `NothingUnpromoted`: `InstalledWerePromoted` is invariant if CONFIRM runs do
  not raise (the theorem's assumption; with it dropped TLC finds the leftover).
* `PromotionsKept`: `PromotedStayInstalled` is invariant, whatever raises.
* `RetirementsAreOwn`: `RetiredOnOwnFailures` is invariant, whatever raises, if
  the split is finite, regime names are ordered and an author drafts for the
  regime it was asked for (`Orderly`; a rejected draft is logged under the
  regime it claims).
* `ResultsStayCurrent`: `ResultsAreCurrent` is invariant for every author,
  backend, fault and bound.
* `PromiseKept`: the loop implements `MentorPromise`, whichever of the author,
  the compilation and the measurements over the OPTIMIZE split raises.

The inductive invariant `IInv` adds to the types which events carry a draft
(`HasDraft`), how the rounds in the log relate to the current one (`RoundsOK`),
that an attempt that is over is in the log (`CurrentLogged`), and that a run
that raised has nothing pending (`CrashedEnds`). `EndsAsTold`, for the promise,
adds that a run that stopped by itself has no measurement outstanding and that the
backstop speaks up exactly if a behavior raised. Without the rounds one cannot
say that a candidate's name is new, hence that reverting it takes nothing else
away; that is the lemma `RevertInstall`. For retirements, `CountsOneRegime` is
the reason: the target is a function of the baseline and the retired regimes
(`OneTarget`), and neither changes while the counter stands above zero. For
results, `TrialLeavesNoTrace`: reverting by name is exact as long as no promoted
name is drafted again, the premise of the property and what finding 2 is about.

The refinement adds `Compared`: what is promoted was measured to be no worse
than the last result, over the pipeline it is promoted into. Its hypotheses are
that the backend reads the same pipeline the same way each time (`Steady`), that
CONFIRM runs do not raise and that no promoted name is drafted again
(`[]~Reused`). Each of them is needed and `mentor_full` meets them all.
The theorems are about `MentorLoop!Spec`; `MeasuredSpec` narrows its first
measurement.

### Measurement: `MeasuredLoopProofs`, second half

About `MeasuredLoop!MeasuredSpec`, the measurement as a part of the loop:

* `VerdictsFindTheirQuestion` (`VerdictsAreOwn`): joining verdicts by position is
  right when every line is there, because positions that grow from 1 to n are
  the identity (`GrowingIsIdentity`), and by id whatever the order.
* `FailuresAreDiagnosed` (`FailuresDiagnosed`): a failure is in one row and a
  success in none, whatever was registered: the priority list stays without
  doubles and ends with a regime that takes what nothing else takes (`Registry`).
* `RejectionsAreLocal` (`RejectionsStayLocal`): the input-by-input loop is a fold,
  shown to have as many vectors as inputs at each of its steps, the one at place k
  that of input k or empty, and just the refused ones among its errors; joining by
  position then gives each turn its own.
* `ContextsArePacked` (`ContextIsPacked`), if transforms make numbers of numbers
  (`NumericTransform`). For what they return, `apply_pipeline` sees to that with
  `float()` (`transforms.py:106`; what it refuses counts as raised); for what
  they write into the dict they are handed, nothing does, and it is assumed. The
  transforms of `mentor_noisy` are of this kind.

  The walk over the ranked turns is a fold, and is shown to be a sequence of
  states, one per turn (`FoldOverPositions`, `SeedingWalks`, `ExpansionWalks`). At
  each state the count is the sum of the prices in the context
  (`Total`, `TotalWithout`), what was dropped at the budget is out (`Packed`), and
  every turn passed is in or too dear for the room that is left (`Settled`,
  `SeededTo`). Ranking puts the turns with a score first (`RankedFalls`), so
  where the walk ends early none of them is left; and room only shrinks, so the
  neighbours added later unsettle nothing (`Covered`).

* `SandboxIsHonoured` (`SeamHonoursSandbox`), if a draft is a function of what it
  is handed and takes no turn out of the dict itself (`KeepsTurns`; it may return
  fewer, or unknown ones). The sandbox compares the keys that come back with
  the probe it copied, the seam with the dict the draft has had its hands on:
  a draft that takes turns out there and still returns them passes the one and
  is refused by the other, which is why the premise is there.

The invariant, `MeasuredInv`, says what the report, the outcomes, the registry
and the audit are at each phase; `Legible` is what a judge's report may look like.

### SQL target: `SqlMeasurementProofs`

* `MeasurementsAreSound` (`MeasuredFollowsTheQuery`), about `SqlSpec`. The
  invariant `SqlInv` is short, and the proof is about the detectors: what those
  before the matching one have ruled out, and what the regular expressions and
  the database, each of which sees half of a query, say together.

### Agents: `OkfAgentProofs`

For any calls, requests, readers, bundles and bounds:

* `RegistrySafe` (`ReadersGoWithTheirCalls`), `ReadersAreOwn` (`OwnReader`) and
  `PromptsGrounded` (`PromptGrounded`);
* `TrailsMatch` (`TrailMatchesAnswer`) and `ReplaysFaithful` (`ReplayIsFaithful`).

The first two share `RInv`: what a call in progress was given is exactly what
the table has for its id (`Registered`, a missing reader included), ids tell the
calls in progress apart (`IdsDiffer`), and a call that has not begun has no
reader and no events (`NotBegun`). For prompts, `GInv` adds that what is cached
was seen by every call in progress on that knowledge base (`CurrentSeen`), and
that a behavior that holds a snapshot finds one when it reads the cache again
(`SnapSeen`): nothing is ever dropped from it.

For the logs, `TInv` says which events a call has at each of its steps
(`Trails`: nothing asked, asked and pending, refused, answered), that a reader
serves from no cache or from that of a question that has ended
(`CachesCurrent`: its log, and so the harvest, no longer changes), and that a
reply is one its reader could give to that prompt (`RepliesServed`).

### Knowledge tools: `KbToolsProofs`

* `HistoryKept`: `HistoryIsKept` of `LogSpec`, for any writers, operators and
  number of appends. Ids never repeat, whatever writers do to each other; records
  survive as long as no two writers meet. `LogInv` carries along the texts writers
  hold in memory: each must grow and have a highest number in each of its
  beginnings (`Peaked`), because any beginning may be what another writer reads
  and numbers after; and while nothing went wrong one writer at most is at work
  and has all that was handed over (`Undisturbed`).
* `ReferencesKept` (`HistoryKeepsReferences`) and `OrderKept`, of `CompilerSpec`,
  in which files and history may change at any time: a replay of any length
  without REORDER leaves every reference at a node, also where a rename lands on
  a node that exists; and without merges, with renames to unused names only, a
  graph that could be studied in some order still can be. An order is a ranking
  of the names (`Ordered`), so no search and no closure is needed; a rename
  passes its rank on, and `Accounted` says where the names of a graph come from,
  hence which are unused. What a MERGE or a REORDER can break is in section 7.
* `Converges` (`MigrationConverges`) and `OnlyHelps` (`MigrationOnlyHelps`), of
  `MigrationSpec`, for every v0.1 bundle and any stops and reruns. Half of the
  proof is about one page (`MigratedFacts`): rewriting a rewritten page changes
  nothing, no key is written twice that was not, and a link that leaves the body
  is a source. The other half is the run: a file is as it was or as one run
  leaves it (`OldOrNew`), what is about to be written is the latter
  (`WritesTheNew`), and so is every page the run has passed (`PassedIsNew`).
  `MigrationAssumption` has one clause that is not a matter of form: the root
  index names its version at most once.
* `RepairMirrors` (`RepairOnlyMirrors`), of `RepairSpec`, in which the author
  edits at any time, for any bundles, corrections and stops. It assumes that a
  bundle gives the relations of its frontmatter as lists, since a single string
  is taken apart (section 7). A pass works from a graph it loaded before others
  wrote; what makes that safe is that nobody changes ids, stems and kinds
  (`Alike`), so the nodes and what a name means stay the same (`AlikeLoads`).
  Then what is added to a node is part of what was due there (`Due`), the mirror
  of an edge the loaded graph has (`NoNewEdges`). Undisturbed, a node that was
  done declares all that was due and every other what it declared at first
  (`MirroredSoFar`), and when all are done nothing is one-sided (`MirroredAll`):
  a mirrored declaration never asks for one in return.

### Block manager: `BlockManagerProofs`

For every pool, block size of at least two, vocabulary, finite set of sequences
and set of non-empty prompts:

* `TypeCorrect`, `CountsExact` (`RefCountsExact`) and `NothingLeaks` (`NoLeak`);
* `NothingRaises` (`NeverRaises`) and `HeldBlocksMatch` (`HeldTokensMatch`).

The first three are proved together as `IInv`, with `FinitelyHeld` (the holders
of a block can be counted) and `DrainsTable` (a release in progress has a block
left): a count can only go below zero if it undercounts, and the head of the
free queue is nobody's only if the queue is exact. The plan of the proof is a
lemma per thing that can happen to a block (`ClaimKeepsAccounts`,
`ShareKeepsAccounts`, `DropKeepsAccounts`, `IdleKeepsAccounts`) over two lemmas
on how the set of holders changes (`ExtendHolders`, `DropHolders`), and then one
lemma per action.

What blocks hold is `ContentInv`. The assertions of `may_append` ask whether the
last block has a hash, which follows from its place in the table and from how
many tokens of its sequence are settled; that number is behind by one while a
token is due. `SlotsMatch` says it for every place: a full block is sealed and
has the tokens of that place, the one after it is open and has one holder.
`TablesComplete` and `AllocateFits` say that a table has exactly the blocks that
are needed, or will have when its loop ends with the free ones there are.

### Scheduler: `SchedulerProofs`

For every pool, set of requests, batch limits, model and pattern of arrivals,
with the manager's theorems instantiated for the variables it shares:

* `ManagerUsed` (`UsesManager`): each step is a legal call of the manager, a step
  of the manager's own loops, or leaves it alone;
* `ServingNeverRaises`: hence none of the manager's assertions fails in service;
* `FirstComeFirstServed` (`ArrivalOrder`);
* `KeysMatch` and `OwnKeys` (`KVMatches`).

The argument for the first three runs through one line of requests (`Line`): the
batch of the decode loop, the sequence it has at hand, `running`, `waiting`. All
steps but arrival and completion leave the line as it is and move the borders
between its parts only, also `preempt`, which takes the youngest of `running` to
the front of `waiting`. From where a request stands follows whether it has a
table and a token under way (`TableInv`), which is what the manager's calls ask
for; that no request outgrows the manager's `MaxLen` is `LengthInv`.

For keys and values, `KInv` relates three things: the hash of a block in a table
is the prefix of each of its holders (`BP!OwnInv`), a block with a hash holds the
keys of just that prefix unless it is to be computed in this step
(`HashesWritten`), and an open block has those of its one holder up to the last
token (`OpenWritten`, `LastWritten`). All this rests on what a hit finds being
computed for the same prefix (`BP!HitsAreOwn`), which the code does not check
(finding 3). `KeysMatch` therefore has it as a hypothesis about the run.
`OwnKeys` derives it from one about the texts alone: if a request's prompt and
what it may grow to lie in a family `Texts` (`GrowIn`) in which equal full blocks
have equal prefixes (`BP!OneTextPerBlock`), hits are own, since a table entry
that is found by a hash and whose tokens agree is a block of one of those texts.
A text grows by tokens sampled after any text of the family, not only after
itself, because a prompt that is cached to its end is continued by another
sequence's row (`RowOf`). The texts of `serving` are such a family: no token of a
prompt is ever sampled there. `serving_stale` shows that the conclusion fails
without the premise.

### Kernels: `KernelsProofs` and `TilesProofs`

* `AttentionIsExact` (`RowsAttendTheirKeys`): after every call of the flash
  attention kernels (inference, the forward pass of training, the studies, the
  model of chapter 2) each row of the output is the softmax over exactly the keys
  it may see, for any tensor sizes, tile configurations, masks, grouped heads and
  scores, whatever was tuned before, and in any order of the blocks.
* `GradientsAreExact` (`GradientsTakeEachPairOnce`): a training call leaves, for
  every key, one term per query row of its group that saw it, and for every row
  one per key it saw, each with that row's own LSE and Delta, for any sizes,
  groups of heads, tiles of the backward kernels and tuning launches.
* `GenerationIsItsOwn` (`GeneratesFromItsOwnText`): a step of a generation
  attends the text it belongs to, eager or replayed, for any number and lengths
  of generations.
* `RanksComputeTheModel` (`ShardsLineUp`): the ranks together compute the whole
  model, for any number of ranks, sizes the layers accept, partition of the
  weights into files, and order and interleaving of the loads.
* `TilesAreComputed` (`EveryTileComputed`): every tile of a product is the sum
  over all of its depth, every row of a softmax and every element of a sum is
  computed, for any sizes, tiles, strips and number of programs; and no two
  blocks of a launch, of any kernel, store to one place.

The first rests on one row. After some tiles it has taken in a set of keys:
`Gathered` says that its maximum is theirs and that its weights are theirs,
relative to that maximum; `Before` and `Sight` say which keys those are, the ones
in sight in front of the next tile. A tile moves that bound by its width whatever
part of it is masked, and a tile nobody may see is never met (`KeyBound`), which
is also why no row sees a maximum of minus infinity. Where the code leaves the
mask out (`MaskStart`, `EVEN_K`), a lemma shows that the mask would let everything
pass. `Progress` says this of all rows of a block. The inductive invariant
`AttendAll` is about the launch: blocks on the device are blocks of it
(`StreamInv`) and in progress, those that ended have stored their rows, and an
empty stream means that every row of the call is stored (`RowsStand`). The tuner
appears in it only as a number of launches of the same call: each leaves the rows
complete, so it does not matter which is the last.

The second is about the launches of one call, in the order of the stream.
`Dues` are what a kernel owes the call, as places in the tensors with their
values, and `BlockDues` a block's part of them; blocks owe different places and
together everything. `TrainInv` says that the queue holds launches of this call
in order, that a kernel no longer in it has left its dues, that a block on
the device has taken in the pairs in front of its next tile (`KeyProgress` for
the kernel of keys and values, which walks over query rows and the heads of the
group, `RowProgress` for that of queries), and that an ended block's dues are
held. A block may run before others have ended, but not before the
launches it reads from: an LSE or Delta is held wherever one is read. The LSE
is stored by the forward pass in an array padded to one multiple and read from one
padded to another (`PaddedLse`); `Place` numbers rows so that the copy
between them loses none and mixes none up. The padding has to be whole tiles for the kernels
that store there, or the last tile of a head would overwrite rows of the next; a
tile of the others may reach behind the last row, where its pairs are masked.

The third uses the same lemmas for one row over a buffer. The invariant,
`GenAll`, follows a step through its two launches (`Scattering`, `Running`,
`Stepped`): the static buffer holds the text up to the step (`StaticHolds`), and
what is behind it, rows of an earlier generation or zeros, is masked. `HostInv`
counts the generations made, so that each has a text of its own.

The fourth is about places in a parameter. A share's place is inside its
parameter and apart from the place of every other weight in it, so a load leaves
what was loaded before and files commute (`AllPlaced`); and local row and rank
together number each row of a weight once, so that what the ranks have
in place is each head, triple and row of the vocabulary once. For grouped heads
it takes that a rank's query heads come in whole groups. `RanksInv` carries the
weights loaded so far through the start of the engine up to the first run.

The last is about tile numbers. Each order of tiles (by rows, in strips, in strips
with a lower last one) numbers every tile of the product once, and a persistent
block takes the numbers congruent to its own modulo the number of blocks; so an
address names the block that stores there, `Writer`. The kernels of attention are
in it by the row and the head of an address, those of serving by the slot and
the sequence, which is where a batch must name a sequence once. `ApartInv` then
says that launches are well formed (`Formed`) and that what a block has stored is
its own. `GridInv` is about what the launches owe: a block has stored what its
rounds so far give (`GridProgress`), the sum it is at has taken in the depths
before the next (`Summing`), a launch that has left the stream has given
everything, and nothing in memory is other than what some launch gives
(`Tiling`). In a search every configuration that was timed was launched
(`Chosen`), so each one's tiles are there. For the softmax the tile is the next power
of two, found by a search that ends because doubling passes every number; it
covers the row, and what lies behind the row is masked.

`DeviceAssumption` is what callers pass: positive sizes, finite scores, and
widths of tiles that divide the largest (they are powers of two, and the code
computes `EVEN_K` from the largest); of the backward tiles it takes only that the
largest is a multiple of the smallest, and of training that heads come in whole
groups, which `_fmha_backward` asserts (`attention.py:1012`). A causal inference has no more queries
than keys, a step of the model one query, and a replayed graph stays within its
buffer. A served batch names a sequence once, has a slot of its own for each new
token, and one new token per sequence in decoding. The scheduler makes such
batches: a sequence is in one queue once, and a block whose tokens are new was
claimed for it alone. Sizes, tiles and depths of products are positive. Two clauses
are about what the code leaves to its caller, and every caller under
`KernelAgent/0-MatMul` meets them (its sizes are powers of two): where a kernel does not round its grid up, the
depth is whole tiles, since `k // tk` steps leave the rest out; and where an order
of tiles in strips takes every strip to be full, the rows of tiles are whole
strips, since the tiles of a lower one would be numbered outside the grid.
`TpAssumption` is what the layers assert (`divide` in `linear.py:7`,
`embed_head.py:19`, `qwen3.py:31` and `:34`), with more than one rank and a
checkpoint that has every weight.

### Only model-checked

* Liveness (`Termination`, `Served`, `EverythingEnds`): out of the prover's reach.
* `ChecksAreExact`, also that strict output lists the nodes in an order of study:
  the search is a recursive function of its own stack, and that it ends is an
  induction over that stack and the nodes not yet visited.
* `PagedReads`: holds where a page is not larger than a tile and fails otherwise
  (finding 5), so a theorem would have to exclude the sizes the engine accepts.

## 6. Findings

1. `src/core/loop/behaviors.py:686`. `behavior_rebaseline` overwrites the
   baseline that its docstring and comment call pinned; later promotions are
   attributed against the previous round (`mentor_original`).
2. `src/core/loop/gates.py:412`. A trial reverts by name, and authors name a
   transform after its regime: trying a second draft for a regime that was only
   partly fixed removes the promoted transform (`mentor_reuse`).
3. `nanovllm/engine/block_manager.py:67`. A hit compares the tokens of the block
   but not its hash, and stale entries stay in the table: two prompts whose
   second blocks are equal can exchange keys and values (`serving_stale`).
4. `nanovllm/engine/sequence.py:76`. A sequence preempted after its first token
   is prefilled again, but its pickled state carries the last token only
   (`serving_workers`; more than one worker).
5. `nanovllm/layers/cutile_attention.py:156`. The paged prefill kernel uses an
   offset in tokens as an index of tiles: with a page larger than a tile, every
   tile of a page but the first reads padding for K and a wrong tile for V
   (`paged_prefill`).

## 7. Known limits of the models, and what they leave out on purpose

Mentor loop and measurement:

* The CONFIRM runs of `behavior_promote` are not protected: if one raises, the
  transform stays installed unlogged, or a promoted one of that name is gone.
  The model has it (`ConfirmRaises`) and no property claims otherwise.
* `mentor_full` draws the wins of each draft from a table, so its floors and
  deltas are those of four questions.
* A transform is given the live dictionary: what it wrote in place before it
  raised, or before its result was refused, stays, although the docstrings say its
  contribution is skipped (`transforms.py:84`, `targets/sql/prompt_transforms.py:72-74`).
  `Retrieval!Applied` and `SqlMeasurement!Transformed` have it, and no property
  claims otherwise.
* The detector of a truncated budget asks for some well-ranked evidence and some
  dropped evidence, not for the same turn. A reader's exception discards the
  trace, so the question is a scoring error and the embedder's rejections of its
  turns are not in `embedding_errors.json`. A batch of embeddings that comes back
  short is not sent again: its last turn has no score, and a question without a
  vector makes the scoring raise. A similarity is given for each pair of inputs,
  so that vectors of unlike lengths are not told apart. Verdicts without an id are joined by
  position, so a lost line shifts those after it.
* `register_regime` puts a regime whose `priority_after` is unknown after
  `unclassified`, not before it as its comment says; only tests call it so. The
  registry of the assembly seam is never read by the agent. `max_df` is 0 for
  fewer than four turns, which prunes every word.
* Questions and sessions have distinct ids. The sandbox's time limit is left out.

SQL target:

* An error of the harness (schema set-up) whose text looks like the query's is
  diagnosed as the prediction's. A query that was never drafted counts as
  correct when the expected result is empty. `schema-misunderstanding` also
  takes an aliased reference, and without a join `executable-but-wrong` does not
  compare tables, against both docstrings. Rows are compared with their cells
  sorted. Hints that cannot be joined raise and end the chain.
* Subqueries and common table expressions are not modelled.

Agents:

* A cached knowledge base wins over the path a request names and over edits of
  its bundle, and a load that began before an ingest may be stored after it.
  `PromptGrounded` only says that what was used was cached during the call.
* `ask` answers from a knowledge base nobody has linted; the guardrail that says
  otherwise (`guardrails.py:7`) is called by tests only.
* Two calls in progress with one request id would share a reader. `BuildPrompt` may
  raise for no reason the model names.
* A replay that misses answers with a marker, which is recorded as a success and
  served by the next replay. `ReplayIsFaithful` counts it as recorded.
* The embedder of `behavior_assemble_context` does not raise (the default one
  computes locally); a networked one could end a question without an answer.

Knowledge tools:

* `history.py` and the logger's `CANONICAL_OPS` share one operator name only,
  and its record lacks the keys `history.py` needs. `compile` does not validate
  again after the replay, where a REORDER may name nodes that do not exist and a
  MERGE, or a rename to a used name, may close a cycle. A history that fails to parse is replaced by a fresh
  one. The validator's verdict depends on the order of files when an id equals
  another's stem (`ChecksAreExact` compares orders of bundles without that).
* A relation given as one string is taken letter by letter when the repair
  merges into it. The repair's linkify pass is left out. Behind an empty `sources`
  key the repair appends a second one, of which YAML reads the later: an empty key
  is modelled as an absent one. `_apply_inverse` raises at a file without
  frontmatter; an `Edit` takes none away, so the model has no such step.
* What a torn history file parses to is a whole number of its records, or nothing:
  a cut inside a record's id, and remains behind another text that happen to read
  as records, are left out.
* A frontmatter in one-line flow style does not parse after a block of sources
  was appended (`MigrationOnlyHelps` excludes it), and its `okf_version` is not
  found by a pattern anchored at the start of a line, so it stays as it was.
  Plain-text citations beside a
  link go with their section. Hoisted sources have no id for the footnotes that
  named them. A stop between truncation and write loses the file
  (`migration.lost`). Code fences, doubled `okf_version` lines and CRLF are left
  out.

Engine and kernels:

* `max_tokens = 0` never ends a sequence, and a request larger than the pool fails
  an assertion. The first is excluded by `EngineAssumption`, the second by the
  pool's size in `serving`.
* A prompt that is cached to its end has nothing to compute: it is answered with a
  token from another sequence's row, or, where the whole batch is such, the
  engine raises. Both are in the model and in the instance. `Served` allows the
  engine to stop there and nowhere else; no property says that a token is sampled
  after the sequence's own text, since that fails.
* The swizzled orders of the matrix product leave tiles uncomputed when the
  group does not divide the rows of tiles, although the comment at
  `cutile_swizzled_matmul.py:86-91` relies on a boundary check; the instance
  gives those kernels dividing groups. `perf4` and `perf5` shrink the last strip
  and are given any.
* The causal offset is 0 in training and `k_len - q_len` in inference. Loads
  without a padding mode and copies made with `torch.empty` are taken as finite.
* `v2`'s shared memory has no barrier before it is overwritten: threads of a
  block are not modelled. The forward tuning cache's key omits `k_len`.
* The buffers of a captured batch are padded with slot -1 and context 0.
  Generation with a cache has no bound against the longest position.

## 8. Not modelled, and why

* The split loader, guardrails, router and CLI: stateless, and tested directly.
* The event store: a wrapper of an external SQLite store.
* Visualizer and other scripts: text generation, one pass.
* Benchmarks, plots, the training loop, norms, rotary embedding and sampling:
  numerics on one row, with no order to get wrong.
* The flash-attn and triton paths: alternatives of the cuTile path that is
  modelled, in libraries outside the repository for the most part.
* Authors' prompts and replies, the static gate's list of allowed syntax, the
  OKF taxonomy's words: text against text.

## 9. Plan

Modelled and checked: all components of the table in section 2. What is left:

1. Proofs: `ChecksAreExact`, for which the search would have to be shown to end.
2. Models: the repair's linkify pass, the OKF backend's scoring, subqueries.
