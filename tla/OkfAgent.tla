------------------------------ MODULE OkfAgent ------------------------------
(***************************************************************************)
(* The calls of the agents: ingest, lint and ask of the OKF agent          *)
(* (src/agents/okf), retrieve of the SQL agent                             *)
(* (src/core/targets/sql/agent), the two process-wide tables they share    *)
(* (the cached snapshots of knowledge bases and the readers registered     *)
(* per request), the seam that records every call of a language model      *)
(* (src/runtime/observability.py) and the replay of recorded answers       *)
(* (src/runtime/replay.py).                                                *)
(*                                                                         *)
(* A call has a graph, a runtime and an event log of its own and runs its  *)
(* chain of behaviors on its caller's thread.  The tables have a lock of   *)
(* their own each, held for one lookup or one store: a step of a call is   *)
(* what it does between two uses of a table, a bundle or a reader.         *)
(***************************************************************************)
EXTENDS Integers, Sequences, FiniteSets, Functions, FiniteSetsExt

CONSTANTS
    Calls,        \* the calls made; each runs once
    KbIds, Paths, RequestIds,
    Bundles,      \* the contents a bundle on disk may have
    Clean,        \* those in which lint_knowledge_graph finds nothing
    LiveReaders,  \* the readers that ask a language model
    Answers,      \* what a language model may answer
    Requests,     \* the calls to explore: [op, kb, path, rid]
    Width,        \* bound: how many calls are in progress at once
    MaxEdits,     \* bound: how often bundles are edited
    None, NoKb, NoReader, Unreadable, Schema

Ops == {"ingest", "lint", "ask", "retrieve"}

ASSUME AgentAssumption ==
    /\ Clean \subseteq Bundles
    /\ Requests \subseteq [op : Ops, kb : KbIds \cup {None},
                           path : Paths \cup {None}, rid : RequestIds \cup {None}]
    /\ \A r \in Requests :
          /\ r.op \in {"ask", "retrieve"} <=> r.rid # None
          /\ r.op = "retrieve" <=> r.kb = None
          /\ r.op = "ingest" => r.path # None
    /\ None \notin KbIds \cup Paths \cup RequestIds \cup LiveReaders \cup Calls
    /\ {NoKb, Unreadable} \cap Bundles = {}
    /\ Width \in Nat \ {0} /\ MaxEdits \in Nat

VARIABLES
    disk,      \* the bundles, by path
    kbs,       \* _KBS: the snapshot cached for a kb_id
    registry,  \* _REGISTRY: the reader registered for a request
    pc,        \* where a call is
    req,       \* its arguments
    given,     \* the reader its caller gave it
    snap,      \* the snapshot its behavior holds
    prompt,    \* the rendered prompt
    using,     \* the reader its behavior found
    log,       \* the events of its graph
    edits,     \* how often bundles were edited
    seen       \* history: the snapshots its kb_id has had since it began

tables == <<kbs, registry>>
locals == <<given, snap, prompt, using>>
vars == <<disk, tables, pc, req, locals, log, edits, seen>>

Marker == "replay-miss"
Prompt(ctx, kb) == [ctx |-> ctx, kb |-> kb]

(* An event, with the payload's fields that a property tells apart;        *)
(* caused_by is the position of an event in the same log.                  *)
Event(type, p, answer, error, cause) ==
    [type |-> type, prompt |-> p, answer |-> answer, error |-> error,
     caused_by |-> cause]
Plain(type, error) == Event(type, None, "", error, 0)

Ended == {"returned", "raised"}
Running == {c \in Calls : pc[c] \notin {"idle"} \cup Ended}
Asks(c) == req[c].op \in {"ask", "retrieve"}

Init ==
    /\ disk \in [Paths -> Bundles]
    /\ kbs = [k \in KbIds |-> NoKb]
    /\ registry = [i \in RequestIds |-> NoReader]
    /\ pc = [c \in Calls |-> "idle"]
    /\ req = [c \in Calls |-> None]
    /\ given = [c \in Calls |-> NoReader]
    /\ snap = [c \in Calls |-> NoKb]
    /\ prompt = [c \in Calls |-> None]
    /\ using = [c \in Calls |-> NoReader]
    /\ log = [c \in Calls |-> <<>>]
    /\ edits = 0
    /\ seen = [c \in Calls |-> {}]
-----------------------------------------------------------------------------
(***************************************************************************)
(* Readers                                                                 *)
(***************************************************************************)
(* Mutant: error-shaped responses are harvested too.                       *)
HarvestAny(events, i) ==
    /\ events[i].type = "llm.responded"
    /\ events[i].caused_by \in DOMAIN events
    /\ events[events[i].caused_by].type = "llm.requested"

(* The responses whose answers may be served again.                        *)
Reusable(events, i) ==
    /\ events[i].type = "llm.responded" /\ events[i].error = ""
    /\ events[i].caused_by \in DOMAIN events
    /\ events[events[i].caused_by].type = "llm.requested"

(* The answer recorded last for every prompt.                              *)
BuildReplayCache(events) ==
    LET reusable == {i \in DOMAIN events : Reusable(events, i)}
        Asked(i) == events[events[i].caused_by].prompt
    IN  [p \in {Asked(i) : i \in reusable} |->
            events[Max({i \in reusable : Asked(i) = p})].answer]

(* A reader is what it serves from a cache, the run the cache was built    *)
(* from, and the language model it asks otherwise, if any.                 *)
Live(r) == [cache |-> <<>>, run |-> None, fallback |-> r]
Replay(c, r) == [cache |-> BuildReplayCache(log[c]), run |-> c, fallback |-> r]

Readers ==
    {Live(r) : r \in LiveReaders}
    \cup {Replay(c, r) : c \in {d \in Calls : pc[d] \in Ended /\ Asks(d)},
                         r \in LiveReaders \cup {None}}

Reply(answer, error) == [answer |-> answer, error |-> error]

(* What call_reader may return: an exception becomes an error.             *)
Replies(reader, p) ==
    IF p \in DOMAIN reader.cache THEN {Reply(reader.cache[p], "")}
    ELSE IF reader.fallback = None THEN {Reply(Marker, "")}
    ELSE {Reply(a, "") : a \in Answers} \cup {Reply("", "raised")}
-----------------------------------------------------------------------------
(***************************************************************************)
(* A call begins: its reader is registered, its first event seeded.  The   *)
(* SQL agent makes its prompt from the schema in its arguments, before it  *)
(* uses anything that is shared.                                           *)
(***************************************************************************)
Register(i, rd) ==
    IF rd = NoReader THEN registry ELSE [registry EXCEPT ![i] = rd]

(* Callers use a request id for one call at a time.                        *)
FreshId(i) == i = None \/ \A d \in Running : req[d].rid # i

FirstStep == [ingest |-> "load", lint |-> "lookup", ask |-> "lookup",
              retrieve |-> "fetch"]

Seeded(op) ==
    [ingest |-> "okf.ingest.requested", lint |-> "okf.lint.requested",
     ask |-> "okf.ask.requested", retrieve |-> "sql.question.asked"][op]

Begin(c, r, rd) ==
    /\ pc[c] = "idle" /\ Cardinality(Running) < Width
    /\ FreshId(r.rid)
    /\ r.op = "retrieve" => rd # NoReader
    /\ r.rid = None => rd = NoReader
    /\ pc' = [pc EXCEPT ![c] = FirstStep[r.op]]
    /\ req' = [req EXCEPT ![c] = r]
    /\ given' = [given EXCEPT ![c] = rd]
    /\ registry' = Register(r.rid, rd)
    /\ prompt' = IF r.op = "retrieve"
                 THEN [prompt EXCEPT ![c] = Prompt(Schema, Schema)] ELSE prompt
    /\ log' = [log EXCEPT ![c] = <<Plain(Seeded(r.op), "")>>]
    /\ seen' = IF r.kb = None THEN seen
               ELSE [seen EXCEPT ![c] = {kbs[r.kb]} \ {NoKb}]
    /\ UNCHANGED <<disk, kbs, snap, using, edits>>

Goto(c, label) == pc' = [pc EXCEPT ![c] = label]
Emit(c, events) == log' = [log EXCEPT ![c] = @ \o events]

(* Mutant: every reader is dropped, not only the call's own.               *)
ClearAll(c, how) == [i \in RequestIds |-> NoReader]

(* Mutant: the reader is dropped after the chain, not in a finally.        *)
ClearOnReturn(c, how) ==
    IF Asks(c) /\ how = "returned"
    THEN [registry EXCEPT ![req[c].rid] = NoReader] ELSE registry

ClearReader(c, how) ==
    IF Asks(c) THEN [registry EXCEPT ![req[c].rid] = NoReader] ELSE registry

(* The caller has its trace, or an exception; the call's frame is gone.    *)
Leave(c, how) ==
    /\ pc' = [pc EXCEPT ![c] = how]
    /\ registry' = ClearReader(c, how)
    /\ given' = [given EXCEPT ![c] = NoReader]
    /\ snap' = [snap EXCEPT ![c] = NoKb]
    /\ prompt' = [prompt EXCEPT ![c] = None]
    /\ using' = [using EXCEPT ![c] = NoReader]
    /\ seen' = [seen EXCEPT ![c] = {}]
-----------------------------------------------------------------------------
(***************************************************************************)
(* The snapshot of a knowledge base: _kb_for, and the loading of ingest.   *)
(***************************************************************************)
Lookup(c) ==
    /\ pc[c] = "lookup"
    /\ snap' = [snap EXCEPT ![c] = kbs[req[c].kb]]
    /\ Goto(c, IF kbs[req[c].kb] # NoKb THEN "have"
               ELSE IF req[c].path # None THEN "load" ELSE "missing")
    /\ UNCHANGED <<disk, tables, req, given, prompt, using, log, edits, seen>>

Loads(c) == disk[req[c].path] # Unreadable

Load(c) ==
    /\ pc[c] = "load"
    /\ IF Loads(c)
       THEN Goto(c, "install") /\ snap' = [snap EXCEPT ![c] = disk[req[c].path]]
       ELSE Goto(c, "missing") /\ snap' = snap
    /\ UNCHANGED <<disk, tables, req, given, prompt, using, log, edits, seen>>

(* Mutant: a snapshot loaded on demand is not cached.                      *)
CacheIngestsOnly(c) ==
    IF req[c].op = "ingest" THEN [kbs EXCEPT ![req[c].kb] = snap[c]] ELSE kbs

SetKb(c) == [kbs EXCEPT ![req[c].kb] = snap[c]]

Install(c) ==
    /\ pc[c] = "install"
    /\ kbs' = SetKb(c)
    /\ seen' = [d \in Calls |->
                   IF d \in Running /\ req[d].kb = req[c].kb
                   THEN seen[d] \cup {snap[c]} ELSE seen[d]]
    /\ Goto(c, "have")
    /\ UNCHANGED <<disk, registry, req, locals, log, edits>>
-----------------------------------------------------------------------------
(***************************************************************************)
(* The behaviors that report                                               *)
(***************************************************************************)
Verdict(c) ==
    IF pc[c] = "missing" THEN "no_snapshot"
    ELSE IF snap[c] \in Clean THEN "" ELSE "issues"

ReportIngest(c) ==
    /\ req[c] # None /\ req[c].op = "ingest" /\ pc[c] \in {"have", "missing"}
    /\ Emit(c, <<Plain("okf.parsed", IF pc[c] = "missing" THEN "no_snapshot" ELSE ""),
                 Plain("okf.validated", Verdict(c)), Plain("okf.loaded", Verdict(c))>>)
    /\ Leave(c, "returned")
    /\ UNCHANGED <<disk, kbs, req, edits>>

ReportLint(c) ==
    /\ req[c] # None /\ req[c].op = "lint" /\ pc[c] \in {"have", "missing"}
    /\ Emit(c, <<Plain("okf.analyzed", IF pc[c] = "missing" THEN "no_snapshot" ELSE ""),
                 Plain("okf.linted", Verdict(c))>>)
    /\ Leave(c, "returned")
    /\ UNCHANGED <<disk, kbs, req, edits>>

(* The context is made of the snapshot this behavior found ...             *)
AssembleContext(c) ==
    /\ req[c] # None /\ req[c].op = "ask"
    /\ \/ /\ pc[c] = "have"
          /\ Emit(c, <<Plain("okf.context.assembled", "")>>)
          /\ Goto(c, "generate")
       \/ /\ pc[c] = "missing"
          /\ Emit(c, <<Plain("okf.context.assembled", "kb_missing"),
                       Plain("okf.answer.generated", "kb_missing")>>)
          /\ Goto(c, "close")
    /\ UNCHANGED <<disk, tables, req, locals, edits, seen>>

(* ... and the prompt's concept tree and rules of the one the next finds.  *)
(* What making or rendering the prompt raises is the answer's error.       *)
BuildPrompt(c) ==
    /\ pc[c] = "generate"
    /\ \/ /\ prompt' = [prompt EXCEPT ![c] = Prompt(snap[c], kbs[req[c].kb])]
          /\ Goto(c, "fetch")
          /\ log' = log
       \/ /\ prompt' = prompt
          /\ Goto(c, "close")
          /\ Emit(c, <<Plain("okf.answer.generated", "prompt_raised")>>)
    /\ UNCHANGED <<disk, tables, req, given, snap, using, edits, seen>>
-----------------------------------------------------------------------------
(***************************************************************************)
(* The reader, inside llm.requested and llm.responded                      *)
(***************************************************************************)
Terminal(c) ==
    IF req[c].op = "ask" THEN "okf.answer.generated" ELSE "sql.query.drafted"

GetReader(c) ==
    /\ pc[c] = "fetch"
    /\ using' = [using EXCEPT ![c] = registry[req[c].rid]]
    /\ IF registry[req[c].rid] = NoReader
       THEN /\ Emit(c, <<Plain(Terminal(c), "reader_missing")>>)
            /\ Goto(c, "close")
       ELSE /\ Emit(c, <<Event("llm.requested", prompt[c], "", "", 0)>>)
            /\ Goto(c, "asking")
    /\ UNCHANGED <<disk, tables, req, given, snap, prompt, edits, seen>>

(* Mutant: an exception of the reader leaves the seam; the behavior        *)
(* records it in its own event.                                            *)
RecordAnswersOnly(c, reply) ==
    IF reply.error # "" THEN <<Plain(Terminal(c), reply.error)>>
    ELSE <<Event("llm.responded", None, reply.answer, reply.error, Len(log[c])),
           Event(Terminal(c), None, reply.answer, reply.error, 0)>>

Recorded(c, reply) ==
    <<Event("llm.responded", None, reply.answer, reply.error, Len(log[c])),
      Event(Terminal(c), None, reply.answer, reply.error, 0)>>

CallReader(c) ==
    /\ pc[c] = "asking"
    /\ \E reply \in Replies(using[c], prompt[c]) : Emit(c, Recorded(c, reply))
    /\ Goto(c, "close")
    /\ UNCHANGED <<disk, tables, req, locals, edits, seen>>
-----------------------------------------------------------------------------
(***************************************************************************)
(* A call ends: it returns its trace, or an interrupt of the process       *)
(* (which no handler of Exception catches) unwinds it.                     *)
(***************************************************************************)
Close(c) ==
    /\ pc[c] = "close"
    /\ Leave(c, "returned")
    /\ UNCHANGED <<disk, kbs, req, log, edits>>

Interrupt(c) ==
    /\ c \in Running
    /\ Leave(c, "raised")
    /\ UNCHANGED <<disk, kbs, req, log, edits>>

(* People edit bundles, or move them away, at any time.                    *)
EditBundle(p, b) ==
    /\ edits < MaxEdits /\ disk[p] # b
    /\ disk' = [disk EXCEPT ![p] = b]
    /\ edits' = edits + 1
    /\ UNCHANGED <<tables, pc, req, locals, log, seen>>

Step(c) ==
    \/ \E r \in Requests, rd \in Readers \cup {NoReader} : Begin(c, r, rd)
    \/ Lookup(c) \/ Load(c) \/ Install(c)
    \/ ReportIngest(c) \/ ReportLint(c) \/ AssembleContext(c)
    \/ BuildPrompt(c) \/ GetReader(c) \/ CallReader(c)
    \/ Close(c) \/ Interrupt(c)

Next ==
    \/ \E c \in Calls : Step(c)
    \/ \E p \in Paths, b \in Bundles \cup {Unreadable} : EditBundle(p, b)

Spec == Init /\ [][Next]_vars
-----------------------------------------------------------------------------
(***************************************************************************)
(* Properties                                                              *)
(***************************************************************************)
Snapshots == Bundles \cup {NoKb}

EventTypes == {"okf.ingest.requested", "okf.lint.requested", "okf.ask.requested",
    "sql.question.asked", "okf.parsed", "okf.validated", "okf.loaded",
    "okf.analyzed", "okf.linted", "okf.context.assembled", "llm.requested",
    "llm.responded", "okf.answer.generated", "sql.query.drafted"}

Positions(c, types) == {i \in DOMAIN log[c] : log[c][i].type \in types}
AnswersOf(c) == Positions(c, {"okf.answer.generated", "sql.query.drafted"})
RequestsOf(c) == Positions(c, {"llm.requested"})
ResponsesOf(c) == Positions(c, {"llm.responded"})

(* Every variable has its type; a call that waits for its reader has one.  *)
TypeOK ==
    /\ disk \in [Paths -> Bundles \cup {Unreadable}]
    /\ kbs \in [KbIds -> Snapshots]
    /\ DOMAIN registry = RequestIds
    /\ \A c \in Calls :
          /\ pc[c] \in {"idle", "lookup", "load", "install", "have", "missing",
                       "generate", "fetch", "asking", "close"} \cup Ended
          /\ req[c] \in Requests \cup {None}
          /\ pc[c] # "idle" => req[c] \in Requests
          /\ snap[c] \in Snapshots
          /\ pc[c] \in {"install", "have", "generate"} => snap[c] # NoKb
          /\ pc[c] = "asking" => using[c] # NoReader
          /\ \A i \in DOMAIN log[c] : log[c][i].type \in EventTypes
    /\ edits \in 0..MaxEdits
    /\ seen \in [Calls -> SUBSET Bundles]

(* The table of readers holds nothing but the readers of calls in          *)
(* progress, each under its own request id: a call that returned, failed   *)
(* or was interrupted leaves none behind for the next use of its id        *)
(* (reader_registry.py, the finally of ask and of retrieve).               *)
ReadersGoWithTheirCalls ==
    \A i \in RequestIds : registry[i] # NoReader =>
        \E c \in Running : req[c].rid = i /\ given[c] = registry[i]

(* A call asks the reader its caller gave it and no other, and misses one  *)
(* only when its caller gave it none, whatever calls run beside it and     *)
(* whoever used its request id before (get_reader in draft_query and in    *)
(* generate_answer).                                                       *)
OwnReader ==
    \A c \in Running :
        /\ using[c] # NoReader => using[c] = given[c]
        /\ (\E i \in DOMAIN log[c] : log[c][i].error = "reader_missing")
              => given[c] = NoReader

(* A call that returned has one terminal event; every request to a model   *)
(* in its log has its response after it and every response its request;    *)
(* the terminal event says what the response says, and without a response  *)
(* it is an error (events.yaml: every LLM round-trip must be recorded, and *)
(* failures are payload fields).                                           *)
TrailMatchesAnswer ==
    \A c \in Calls : pc[c] = "returned" /\ Asks(c) =>
        /\ Cardinality(AnswersOf(c)) = 1
        /\ \A q \in RequestsOf(c) : \E r \in ResponsesOf(c) :
              r > q /\ log[c][r].caused_by = q
        /\ \A r \in ResponsesOf(c) : log[c][r].caused_by \in RequestsOf(c)
        /\ \A a \in AnswersOf(c) :
              IF ResponsesOf(c) = {} THEN log[c][a].error # "" /\ log[c][a].answer = ""
              ELSE \A r \in ResponsesOf(c) :
                      r < a /\ Reply(log[c][r].answer, log[c][r].error)
                               = Reply(log[c][a].answer, log[c][a].error)

(* A prompt is made of snapshots that its knowledge base had while the     *)
(* question was being answered, the context's and the one that is read     *)
(* again for the concept tree: never of none, and of one and the same      *)
(* when the knowledge base did not change meanwhile (_kb_for in            *)
(* assemble_context, _get_kb in generate_answer).                          *)
PromptGrounded ==
    \A c \in Calls : prompt[c] # None /\ req[c].op = "ask" =>
        {prompt[c].ctx, prompt[c].kb} \subseteq seen[c]

(* A reader that replays a run answers a prompt that a model answered in   *)
(* that run with the model's answer, and calls no model; it never serves a *)
(* call that failed as an answer, nor one prompt's answer for another      *)
(* (build_replay_cache, ReplayReader.answer).                              *)
ReplayIsFaithful ==
    \A c \in Calls : pc[c] = "close" /\ using[c] # NoReader =>
        \A d \in Calls \cap {using[c].run}, r \in ResponsesOf(c) :
            LET served == Reply(log[c][r].answer, log[c][r].error)
                recorded == {Reply(log[d][i].answer, "") : i \in
                    {j \in ResponsesOf(d) : /\ log[d][j].error = ""
                        /\ \E q \in RequestsOf(d) : log[d][q].prompt = prompt[c]}}
            IN  IF recorded # {} THEN served \in recorded
                ELSE IF using[c].fallback = None THEN served = Reply(Marker, "")
                ELSE served \in Replies(Live(using[c].fallback), prompt[c])
=============================================================================
