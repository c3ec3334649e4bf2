-------------------------- MODULE OkfAgentProofs --------------------------
(***************************************************************************)
(* The table of readers, for any calls, readers, bundles and bounds: it    *)
(* holds the readers of the calls in progress and nothing else, and every  *)
(* call asks the reader its caller gave it.                                *)
(*                                                                         *)
(* The two properties need each other's frame conditions.  The inductive   *)
(* invariant RInv adds what they leave out: request ids tell the calls in  *)
(* progress apart, the table has for each of them just what its caller     *)
(* gave (a missing reader included), and a call that has not begun has no  *)
(* reader and an empty log.                                                *)
(*                                                                         *)
(* The second part proves, over RInv, that prompts are made of snapshots   *)
(* their knowledge base had (GInv), the third, over both, that the log of  *)
(* a question tells what was answered and that a replay serves what its    *)
(* run has recorded (TInv).                                                *)
(***************************************************************************)
EXTENDS OkfAgent, FiniteSetTheorems, TLAPS

(* The functions and sequences the other conjuncts speak of are such.      *)
Shapes ==
    /\ pc = [c \in Calls |-> pc[c]]
    /\ req = [c \in Calls |-> req[c]]
    /\ given = [c \in Calls |-> given[c]]
    /\ using = [c \in Calls |-> using[c]]
    /\ registry = [i \in RequestIds |-> registry[i]]
    /\ log = [c \in Calls |-> log[c]]
    /\ \A c \in Calls : \E S : log[c] \in Seq(S)

Begun == \A c \in Calls : pc[c] # "idle" => req[c] \in Requests

NotBegun == \A c \in Calls : pc[c] = "idle" =>
                given[c] = NoReader /\ using[c] = NoReader /\ log[c] = <<>>

IdsDiffer == \A c, d \in Running :
                req[c].rid = req[d].rid /\ req[c].rid # None => c = d

Registered == \A c \in Running : Asks(c) => registry[req[c].rid] = given[c]

OnlyAsksFetch == \A c \in Calls : pc[c] \in {"generate", "fetch", "asking"} => Asks(c)

RInv == /\ Shapes /\ Begun /\ NotBegun /\ IdsDiffer /\ Registered /\ OnlyAsksFetch
        /\ ReadersGoWithTheirCalls /\ OwnReader
-----------------------------------------------------------------------------
LEMMA RequestFields ==
    ASSUME NEW r \in Requests
    PROVE  /\ r.rid \in RequestIds \cup {None} /\ None \notin RequestIds
           /\ r.op \in {"ask", "retrieve"} <=> r.rid # None
           /\ r.op \in {"ask", "retrieve"} => r.rid \in RequestIds
  BY AgentAssumption DEF AgentAssumption

(* What is appended to a log is found at its end, the rest stays.          *)
LEMMA Appended ==
    ASSUME NEW s, NEW S, s \in Seq(S), NEW T, NEW t \in Seq(T)
    PROVE  /\ s \o t \in Seq(S \cup T)
           /\ \A i \in DOMAIN (s \o t) :
                 \/ i \in DOMAIN s /\ (s \o t)[i] = s[i]
                 \/ \E j \in DOMAIN t : (s \o t)[i] = t[j]
  <1>1. s \in Seq(S \cup T) /\ t \in Seq(S \cup T)
    OBVIOUS
  <1>2. s \o t \in Seq(S \cup T)
    BY <1>1
  <1>3. ASSUME NEW i \in DOMAIN (s \o t), i \notin DOMAIN s
        PROVE  i - Len(s) \in DOMAIN t /\ (s \o t)[i] = t[i - Len(s)]
    BY <1>3
  <1>4. \A i \in DOMAIN (s \o t) : i \in DOMAIN s => (s \o t)[i] = s[i]
    OBVIOUS
  <1> QED BY <1>2, <1>3, <1>4

LEMMA OneEvent ==
    ASSUME NEW e
    PROVE  <<e>> \in Seq({e}) /\ \A i \in DOMAIN <<e>> : <<e>>[i] = e
  OBVIOUS

LEMMA InitRInv == Init => RInv
  <1> SUFFICES ASSUME Init PROVE RInv
    OBVIOUS
  <1>1. Running = {}
    BY DEF Init, Running
  <1>2. \A c \in Calls : log[c] \in Seq({})
    BY DEF Init
  <1>3. Shapes /\ Begun /\ NotBegun /\ OnlyAsksFetch
    BY <1>2 DEF Init, Shapes, Begun, NotBegun, OnlyAsksFetch
  <1>4. \A i \in RequestIds : registry[i] = NoReader
    BY DEF Init
  <1> QED BY <1>1, <1>3, <1>4 DEF RInv, IdsDiffer, Registered,
                                 ReadersGoWithTheirCalls, OwnReader
-----------------------------------------------------------------------------
(* A call in progress goes on: it may emit events and look up its reader,  *)
(* and changes nothing else that RInv speaks of.                           *)
Emitted(c) ==
    /\ log' = [d \in Calls |-> log'[d]]
    /\ \A d \in Calls : d # c => log'[d] = log[d]
    /\ \E S : log'[c] \in Seq(S)
    /\ \A i \in DOMAIN log'[c] :
          log'[c][i].error = "reader_missing" => given[c] = NoReader

LEMMA GoesOn ==
    ASSUME RInv, NEW c \in Running, NEW l, l \notin {"idle"} \cup Ended,
           l \in {"generate", "fetch", "asking"} => Asks(c), NEW u \in {NoReader, given[c]},
           pc' = [pc EXCEPT ![c] = l], Emitted(c),
           using' = [using EXCEPT ![c] = u],
           UNCHANGED <<registry, req, given>>
    PROVE  RInv'
  <1> USE DEF RInv
  <1>1. c \in Calls /\ Running' = Running /\ Running \subseteq Calls
    BY DEF Running, Shapes
  <1>2. Shapes'
    <2>1. \A d \in Calls : \E S : log'[d] \in Seq(S)
      BY <1>1 DEF Emitted, Shapes
    <2>2. /\ pc' = [d \in Calls |-> pc'[d]]
          /\ using' = [d \in Calls |-> using'[d]]
      BY DEF Shapes
    <2> QED BY <2>1, <2>2 DEF Emitted, Shapes
  <1>3. Begun' /\ NotBegun'
    <2>1. \A d \in Calls : d # c => pc'[d] = pc[d] /\ using'[d] = using[d]
                                  /\ log'[d] = log[d]
      BY <1>1 DEF Shapes, Emitted
    <2>2. pc'[c] # "idle" /\ pc[c] # "idle"
      BY <1>1 DEF Shapes, Running
    <2> QED BY <1>1, <2>1, <2>2 DEF Begun, NotBegun
  <1>4. IdsDiffer' /\ Registered'
    BY <1>1 DEF IdsDiffer, Registered, Asks
  <1>7. OnlyAsksFetch'
    BY <1>1 DEF OnlyAsksFetch, Asks, Shapes
  <1>5. ReadersGoWithTheirCalls'
    BY <1>1 DEF ReadersGoWithTheirCalls
  <1>6. OwnReader'
    <2>1. \A d \in Calls : d # c => using'[d] = using[d] /\ log'[d] = log[d]
      BY <1>1 DEF Shapes, Emitted
    <2>2. using'[c] = u
      BY <1>1 DEF Shapes
    <2> QED BY <1>1, <2>1, <2>2 DEF OwnReader, Emitted
  <1> QED BY <1>2, <1>3, <1>4, <1>5, <1>6, <1>7

(* What the behaviors emit is appended, and says reader_missing only where *)
(* the call has no reader.                                                 *)
LEMMA EmitsWell ==
    ASSUME RInv, NEW c \in Running, NEW T, NEW t \in Seq(T), Emit(c, t),
           \A j \in DOMAIN t : t[j].error = "reader_missing" => given[c] = NoReader
    PROVE  Emitted(c)
  <1>1. c \in Calls
    BY DEF Running
  <1>2. PICK S : log[c] \in Seq(S)
    BY <1>1 DEF RInv, Shapes
  <1>3. log'[c] = log[c] \o t /\ log' = [d \in Calls |-> log'[d]]
        /\ \A d \in Calls : d # c => log'[d] = log[d]
    BY <1>1 DEF RInv, Shapes, Emit
  <1>4. log'[c] \in Seq(S \cup T)
    BY <1>2, <1>3, Appended
  <1>5. \A i \in DOMAIN log[c] :
           log[c][i].error = "reader_missing" => given[c] = NoReader
    BY DEF RInv, OwnReader
  <1>6. \A i \in DOMAIN log'[c] :
           log'[c][i].error = "reader_missing" => given[c] = NoReader
    BY <1>2, <1>3, <1>5, Appended
  <1> QED BY <1>3, <1>4, <1>6 DEF Emitted

LEMMA EmitsNothing ==
    ASSUME RInv, NEW c \in Running, log' = log
    PROVE  Emitted(c)
  <1>1. c \in Calls
    BY DEF Running
  <1> QED BY <1>1 DEF Emitted, RInv, Shapes, OwnReader
-----------------------------------------------------------------------------
(* A call begins.                                                          *)
LEMMA Begins ==
    ASSUME RInv, NEW c \in Calls, NEW r \in Requests, NEW rd, Begin(c, r, rd)
    PROVE  RInv'
  <1> USE DEF RInv
  <1>1. FirstStep[r.op] \notin {"idle"} \cup Ended
    BY AgentAssumption DEF AgentAssumption, Ops, FirstStep, Ended
  <1>2. /\ c \notin Running /\ Running' = Running \cup {c}
        /\ Running \subseteq Calls
    BY <1>1 DEF Begin, Running, Shapes
  <1>3. \A d \in Calls : d # c =>
           /\ pc'[d] = pc[d] /\ req'[d] = req[d] /\ given'[d] = given[d]
           /\ log'[d] = log[d]
    BY DEF Begin, Shapes
  <1>4. /\ pc'[c] # "idle" /\ req'[c] = r /\ given'[c] = rd
        /\ log'[c] = <<Plain(Seeded(r.op), "")>> /\ using' = using
    BY <1>1 DEF Begin, Shapes
  <1>5. \A i \in RequestIds :
           registry'[i] = IF i = r.rid /\ rd # NoReader THEN rd ELSE registry[i]
    BY DEF Begin, Register, Shapes
  <1>6. \A d \in Running : r.rid # None => req[d].rid # r.rid
    BY DEF Begin, FreshId
  <1>7. Shapes'
    <2>1. log'[c] \in Seq({Plain(Seeded(r.op), "")})
      BY <1>4, OneEvent
    <2>2. \A d \in Calls : \E S : log'[d] \in Seq(S)
      BY <1>3, <2>1 DEF Shapes
    <2>3. /\ pc' = [d \in Calls |-> pc'[d]]
          /\ req' = [d \in Calls |-> req'[d]]
          /\ given' = [d \in Calls |-> given'[d]]
      BY DEF Begin, Shapes
    <2>4. log' = [d \in Calls |-> log'[d]]
      BY DEF Begin, Shapes
    <2>6. using' = [d \in Calls |-> using'[d]]
      <3>1. using = [d \in Calls |-> using[d]]
        BY DEF Shapes
      <3> QED BY <1>4, <3>1
    <2>5. registry' = [i \in RequestIds |-> registry'[i]]
      <3>1. CASE rd = NoReader
        BY <3>1 DEF Begin, Register, Shapes
      <3>2. CASE rd # NoReader
        <4>1. registry' = [registry EXCEPT ![r.rid] = rd]
          BY <3>2 DEF Begin, Register
        <4> QED BY <4>1 DEF Shapes
      <3> QED BY <3>1, <3>2
    <2> QED BY <2>2, <2>3, <2>4, <2>5, <2>6 DEF Shapes
  <1>8. Begun' /\ NotBegun'
    BY <1>3, <1>4 DEF Begun, NotBegun
  <1>9. IdsDiffer'
    <2> SUFFICES ASSUME NEW d \in Running', NEW e \in Running',
                        req'[d].rid = req'[e].rid, req'[d].rid # None
                 PROVE  d = e
      BY DEF IdsDiffer
    <2>1. CASE d = c
      BY <1>2, <1>3, <1>4, <1>6, <2>1
    <2>2. CASE e = c
      BY <1>2, <1>3, <1>4, <1>6, <2>2
    <2>3. CASE d # c /\ e # c
      <3>1. d \in Running /\ e \in Running
        BY <1>2, <2>3
      <3> QED BY <1>2, <1>3, <2>3, <3>1 DEF IdsDiffer
    <2> QED BY <2>1, <2>2, <2>3
  <1>10. Registered'
    <2>1. r.rid \in RequestIds => registry'[r.rid] = rd
      BY <1>5, <1>6, RequestFields DEF ReadersGoWithTheirCalls
    <2>2. Asks(c)' => registry'[req'[c].rid] = given'[c]
      BY <1>4, <2>1, RequestFields DEF Asks
    <2>3. ASSUME NEW d \in Running, Asks(d)'
          PROVE  registry'[req'[d].rid] = given'[d]
      <3>1. d # c /\ d \in Calls /\ Asks(d) /\ req[d] \in Requests
        BY <1>2, <1>3, <2>3 DEF Asks, Begun, Running
      <3>2. req[d].rid \in RequestIds /\ req[d].rid # None
        BY <3>1, RequestFields DEF Asks
      <3>3. req[d].rid # r.rid
        BY <1>6, <3>2
      <3> QED BY <1>3, <1>5, <3>1, <3>2, <3>3 DEF Registered
    <2> QED BY <1>2, <2>2, <2>3 DEF Registered
  <1>11. ReadersGoWithTheirCalls'
    <2> SUFFICES ASSUME NEW i \in RequestIds, registry'[i] # NoReader
                 PROVE  \E d \in Running' : req'[d].rid = i /\ given'[d] = registry'[i]
      BY DEF ReadersGoWithTheirCalls
    <2>1. CASE i = r.rid /\ rd # NoReader
      BY <1>2, <1>4, <1>5, <2>1
    <2>2. CASE ~(i = r.rid /\ rd # NoReader)
      <3>1. registry'[i] = registry[i]
        BY <1>5, <2>2
      <3>2. PICK d \in Running : req[d].rid = i /\ given[d] = registry[i]
        BY <3>1 DEF ReadersGoWithTheirCalls
      <3> QED BY <1>2, <1>3, <3>1, <3>2
    <2> QED BY <2>1, <2>2
  <1>12. OwnReader'
    <2>1. using[c] = NoReader
      BY DEF NotBegun, Begin
    <2>2. \A i \in DOMAIN log'[c] : log'[c][i].error # "reader_missing"
      <3>1. Plain(Seeded(r.op), "").error # "reader_missing"
        BY DEF Plain, Event
      <3> QED BY <1>4, <3>1, OneEvent
    <2>3. ASSUME NEW d \in Running
          PROVE  d # c /\ d \in Calls /\ given'[d] = given[d] /\ log'[d] = log[d]
      BY <1>2, <1>3
    <2>4. ASSUME NEW d \in Running
          PROVE  /\ using'[d] # NoReader => using'[d] = given'[d]
                 /\ (\E i \in DOMAIN log'[d] : log'[d][i].error = "reader_missing")
                       => given'[d] = NoReader
      BY <1>4, <2>3, <2>4 DEF OwnReader
    <2>5. using'[c] = NoReader
      BY <1>4, <2>1
    <2> QED BY <1>2, <2>2, <2>4, <2>5 DEF OwnReader
  <1>13. OnlyAsksFetch'
    <2>1. FirstStep[r.op] \in {"generate", "fetch", "asking"} => r.op = "retrieve"
      BY AgentAssumption DEF AgentAssumption, Ops, FirstStep
    <2>2. pc'[c] = FirstStep[r.op]
      BY DEF Begin, Shapes
    <2> QED BY <1>3, <1>4, <2>1, <2>2 DEF OnlyAsksFetch, Asks
  <1> QED BY <1>7, <1>8, <1>9, <1>10, <1>11, <1>12, <1>13

(* A call returns or is unwound; its reader goes with it.                  *)
LEMMA Leaves ==
    ASSUME RInv, NEW c \in Running, NEW how \in Ended, Leave(c, how),
           Emitted(c), req' = req
    PROVE  RInv'
  <1> USE DEF RInv
  <1>1. /\ c \in Calls /\ Running' = Running \ {c}
        /\ Running \subseteq Calls /\ req[c] \in Requests
    BY DEF Leave, Running, Shapes, Ended, Begun
  <1>2. \A d \in Calls : d # c =>
           /\ pc'[d] = pc[d] /\ given'[d] = given[d] /\ using'[d] = using[d]
           /\ log'[d] = log[d]
    BY DEF Leave, Shapes, Emitted
  <1>3. \A i \in RequestIds :
           registry'[i] = IF i = req[c].rid THEN NoReader ELSE registry[i]
    BY <1>1, RequestFields DEF Leave, ClearReader, Asks, Shapes
  <1>4. Shapes'
    <2>1. \A d \in Calls : \E S : log'[d] \in Seq(S)
      BY <1>1 DEF Emitted, Shapes
    <2>2. /\ pc' = [d \in Calls |-> pc'[d]]
          /\ given' = [d \in Calls |-> given'[d]]
          /\ using' = [d \in Calls |-> using'[d]]
      BY DEF Leave, Shapes
    <2>3. registry' = [i \in RequestIds |-> registry'[i]]
      BY DEF Leave, ClearReader, Shapes
    <2> QED BY <2>1, <2>2, <2>3 DEF Emitted, Shapes
  <1>5. Begun' /\ NotBegun'
    <2>1. pc'[c] # "idle"
      BY <1>1 DEF Leave, Shapes, Ended
    <2> QED BY <1>1, <1>2, <2>1 DEF Begun, NotBegun
  <1>6. IdsDiffer'
    BY <1>1 DEF IdsDiffer
  <1>7. Registered'
    <2> SUFFICES ASSUME NEW d \in Running', Asks(d)'
                 PROVE  registry'[req'[d].rid] = given'[d]
      BY DEF Registered
    <2>1. d \in Running /\ d # c /\ d \in Calls /\ Asks(d) /\ req[d] \in Requests
      BY <1>1 DEF Asks, Begun, Running
    <2>2. req[d].rid \in RequestIds /\ req[d].rid # None
      BY <2>1, RequestFields DEF Asks
    <2>3. req[d].rid # req[c].rid
      BY <2>1, <2>2 DEF IdsDiffer
    <2> QED BY <1>2, <1>3, <2>1, <2>2, <2>3 DEF Registered
  <1>8. ReadersGoWithTheirCalls'
    <2> SUFFICES ASSUME NEW i \in RequestIds, registry'[i] # NoReader
                 PROVE  \E d \in Running' : req'[d].rid = i /\ given'[d] = registry'[i]
      BY DEF ReadersGoWithTheirCalls
    <2>1. i # req[c].rid /\ registry'[i] = registry[i]
      BY <1>3
    <2>2. PICK d \in Running : req[d].rid = i /\ given[d] = registry[i]
      BY <2>1 DEF ReadersGoWithTheirCalls
    <2> QED BY <1>1, <1>2, <2>1, <2>2
  <1>9. OwnReader'
    BY <1>1, <1>2 DEF OwnReader
  <1>10. OnlyAsksFetch'
    BY <1>1, <1>2 DEF OnlyAsksFetch, Asks, Leave, Shapes, Ended
  <1> QED BY <1>4, <1>5, <1>6, <1>7, <1>8, <1>9, <1>10
-----------------------------------------------------------------------------
(* What leaves alone all that RInv speaks of preserves it.                 *)
LEMMA KeepsRInv ==
    ASSUME RInv, UNCHANGED <<registry, pc, req, given, using, log>>
    PROVE  RInv'
  BY DEF RInv, Shapes, Begun, NotBegun, IdsDiffer, Registered, OnlyAsksFetch,
         Running, Asks,
         ReadersGoWithTheirCalls, OwnReader

(* The replies of a reader are answers or the error of an exception.       *)
LEMMA ReplyErrors ==
    ASSUME NEW reader, NEW p, NEW reply \in Replies(reader, p)
    PROVE  reply.error # "reader_missing"
  <1>1. \E a : reply = Reply(a, "") \/ reply = Reply(a, "raised")
    BY DEF Replies
  <1>2. \A a : /\ Reply(a, "").error = "" /\ Reply(a, "raised").error = "raised"
    BY DEF Reply
  <1> QED BY <1>1, <1>2

(* The steps in which a call goes on.                                      *)
LEMMA OnwardSteps ==
    ASSUME RInv, NEW c \in Calls,
           \/ Lookup(c) \/ Load(c) \/ Install(c) \/ AssembleContext(c)
           \/ BuildPrompt(c) \/ GetReader(c) \/ CallReader(c)
    PROVE  RInv'
  <1>1. c \in Running
    BY DEF Running, Ended, Lookup, Load, Install, AssembleContext, BuildPrompt,
           GetReader, CallReader
  <1>2. using' = using => using' = [using EXCEPT ![c] = NoReader]
                          \/ using' = [using EXCEPT ![c] = given[c]]
    <2>1. using[c] \in {NoReader, given[c]}
      BY <1>1 DEF RInv, OwnReader
    <2>2. using = [using EXCEPT ![c] = using[c]]
      <3>1. using = [d \in Calls |-> using[d]]
        BY DEF RInv, Shapes
      <3> QED BY <3>1
    <2> QED BY <2>1, <2>2
  <1>3. CASE Lookup(c)
    <2>1. \E l \in {"have", "load", "missing"} : pc' = [pc EXCEPT ![c] = l]
      BY <1>3 DEF Lookup, Goto
    <2>2. log' = log /\ using' = using /\ UNCHANGED <<registry, req, given>>
      BY <1>3 DEF Lookup, tables
    <2> QED BY <1>1, <1>2, <2>1, <2>2, EmitsNothing, GoesOn DEF Ended
  <1>4. CASE Load(c)
    <2>1. \E l \in {"install", "missing"} : pc' = [pc EXCEPT ![c] = l]
      BY <1>4 DEF Load, Goto
    <2>2. log' = log /\ using' = using /\ UNCHANGED <<registry, req, given>>
      BY <1>4 DEF Load, tables
    <2> QED BY <1>1, <1>2, <2>1, <2>2, EmitsNothing, GoesOn DEF Ended
  <1>5. CASE Install(c)
    <2>1. pc' = [pc EXCEPT ![c] = "have"]
      BY <1>5 DEF Install, Goto
    <2>2. log' = log /\ using' = using /\ UNCHANGED <<registry, req, given>>
      BY <1>5 DEF Install, locals
    <2> QED BY <1>1, <1>2, <2>1, <2>2, EmitsNothing, GoesOn DEF Ended
  <1>6. CASE AssembleContext(c)
    <2>1. Asks(c) /\ \E l \in {"generate", "close"} : pc' = [pc EXCEPT ![c] = l]
      BY <1>6 DEF AssembleContext, Goto, Asks
    <2>2. using' = using /\ UNCHANGED <<registry, req, given>>
      BY <1>6 DEF AssembleContext, tables, locals
    <2>3. Emitted(c)
      <3> DEFINE a == Plain("okf.context.assembled", "")
                 b == Plain("okf.context.assembled", "kb_missing")
                 d == Plain("okf.answer.generated", "kb_missing")
      <3>1. a.error # "reader_missing" /\ b.error # "reader_missing"
            /\ d.error # "reader_missing"
        BY DEF Plain, Event
      <3>2. Emit(c, <<a>>) \/ Emit(c, <<b, d>>)
        BY <1>6 DEF AssembleContext
      <3> HIDE DEF a, b, d
      <3>3. <<a>> \in Seq({a}) /\ <<b, d>> \in Seq({b, d})
        OBVIOUS
      <3>4. /\ \A j \in DOMAIN <<a>> : <<a>>[j].error # "reader_missing"
            /\ \A j \in DOMAIN <<b, d>> : <<b, d>>[j].error # "reader_missing"
        BY <3>1
      <3>5. CASE Emit(c, <<a>>)
        BY <1>1, <3>3, <3>4, <3>5, EmitsWell
      <3>6. CASE Emit(c, <<b, d>>)
        BY <1>1, <3>3, <3>4, <3>6, EmitsWell
      <3> QED BY <3>2, <3>5, <3>6
    <2> QED BY <1>1, <1>2, <2>1, <2>2, <2>3, GoesOn DEF Ended
  <1>7. CASE BuildPrompt(c)
    <2>1. Asks(c) /\ \E l \in {"fetch", "close"} : pc' = [pc EXCEPT ![c] = l]
      BY <1>7 DEF BuildPrompt, Goto, RInv, OnlyAsksFetch
    <2>2. using' = using /\ UNCHANGED <<registry, req, given>>
      BY <1>7 DEF BuildPrompt, tables
    <2>3. Emitted(c)
      <3> DEFINE a == Plain("okf.answer.generated", "prompt_raised")
      <3>1. a.error # "reader_missing"
        BY DEF Plain, Event
      <3>2. log' = log \/ Emit(c, <<a>>)
        BY <1>7 DEF BuildPrompt
      <3> HIDE DEF a
      <3>3. <<a>> \in Seq({a}) /\ \A j \in DOMAIN <<a>> : <<a>>[j].error # "reader_missing"
        BY <3>1
      <3> QED BY <1>1, <3>2, <3>3, EmitsNothing, EmitsWell
    <2> QED BY <1>1, <1>2, <2>1, <2>2, <2>3, GoesOn DEF Ended
  <1>8. CASE GetReader(c)
    <2> DEFINE m == Plain(Terminal(c), "reader_missing")
               q == Event("llm.requested", prompt[c], "", "", 0)
    <2>1. UNCHANGED <<registry, req, given>>
      BY <1>8 DEF GetReader, tables
    <2>2. /\ req[c] \in Requests /\ pc[c] = "fetch"
          /\ Asks(c) => registry[req[c].rid] = given[c]
      BY <1>1, <1>8 DEF GetReader, RInv, Begun, Registered
    <2>3. q.error # "reader_missing"
      BY DEF Event
    <2> HIDE DEF m, q
    <2>4. <<m>> \in Seq({m}) /\ <<q>> \in Seq({q})
      OBVIOUS
    <2>5. \A j \in DOMAIN <<q>> : <<q>>[j].error # "reader_missing"
      BY <2>3
    <2>6. Asks(c)
      BY <2>2 DEF RInv, OnlyAsksFetch
    <2>7. using' = [using EXCEPT ![c] = given[c]]
      BY <1>8, <2>2, <2>6 DEF GetReader
    <2>8. CASE given[c] = NoReader
      <3>1. Emit(c, <<m>>) /\ pc' = [pc EXCEPT ![c] = "close"]
        BY <1>8, <2>2, <2>6, <2>8 DEF GetReader, Goto, Emit, m
      <3>2. Emitted(c)
        BY <1>1, <2>4, <2>8, <3>1, EmitsWell
      <3> QED BY <1>1, <2>1, <2>7, <3>1, <3>2, GoesOn DEF Ended
    <2>9. CASE given[c] # NoReader
      <3>1. Emit(c, <<q>>) /\ pc' = [pc EXCEPT ![c] = "asking"]
        BY <1>8, <2>2, <2>6, <2>9 DEF GetReader, Goto, Emit, q
      <3>2. Emitted(c)
        BY <1>1, <2>4, <2>5, <3>1, EmitsWell
      <3> QED BY <1>1, <2>1, <2>6, <2>7, <3>1, <3>2, GoesOn DEF Ended
    <2> QED BY <2>8, <2>9
  <1>9. CASE CallReader(c)
    <2>1. PICK reply \in Replies(using[c], prompt[c]) : Emit(c, Recorded(c, reply))
      BY <1>9 DEF CallReader
    <2>2. /\ pc' = [pc EXCEPT ![c] = "close"] /\ using' = using
          /\ UNCHANGED <<registry, req, given>>
      BY <1>9 DEF CallReader, Goto, tables, locals
    <2> DEFINE x == Event("llm.responded", None, reply.answer, reply.error, Len(log[c]))
               y == Event(Terminal(c), None, reply.answer, reply.error, 0)
    <2>3. x.error # "reader_missing" /\ y.error # "reader_missing"
      BY ReplyErrors DEF Event
    <2>4. Emit(c, <<x, y>>)
      BY <2>1 DEF Recorded
    <2> HIDE DEF x, y
    <2>5. /\ <<x, y>> \in Seq({x, y})
          /\ \A j \in DOMAIN <<x, y>> : <<x, y>>[j].error # "reader_missing"
      BY <2>3
    <2>6. Emitted(c)
      BY <1>1, <2>4, <2>5, EmitsWell
    <2> QED BY <1>1, <1>2, <2>2, <2>6, GoesOn DEF Ended
  <1> QED BY <1>3, <1>4, <1>5, <1>6, <1>7, <1>8, <1>9

(* The steps in which a call ends.                                         *)
LEMMA LastSteps ==
    ASSUME RInv, NEW c \in Calls,
           ReportIngest(c) \/ ReportLint(c) \/ Close(c) \/ Interrupt(c)
    PROVE  RInv'
  <1>1. c \in Running
    BY DEF Running, Ended, ReportIngest, ReportLint, Close, Interrupt
  <1>2. req' = req /\ \E how \in Ended : Leave(c, how)
    BY DEF Ended, ReportIngest, ReportLint, Close, Interrupt
  <1>3. Emitted(c)
    <2>1. CASE Close(c) \/ Interrupt(c)
      BY <1>1, <2>1, EmitsNothing DEF Close, Interrupt
    <2>2. \A e : Plain("okf.parsed", e).error = e /\ Plain("okf.validated", e).error = e
                 /\ Plain("okf.loaded", e).error = e /\ Plain("okf.analyzed", e).error = e
                 /\ Plain("okf.linted", e).error = e
      BY DEF Plain, Event
    <2>3. Verdict(c) # "reader_missing"
      BY DEF Verdict
    <2> DEFINE failed == IF pc[c] = "missing" THEN "no_snapshot" ELSE ""
               x == Plain("okf.parsed", failed)
               y == Plain("okf.validated", Verdict(c))
               z == Plain("okf.loaded", Verdict(c))
               v == Plain("okf.analyzed", failed)
               w == Plain("okf.linted", Verdict(c))
    <2>4. failed # "reader_missing"
      OBVIOUS
    <2> HIDE DEF failed
    <2>5. /\ x.error # "reader_missing" /\ y.error # "reader_missing"
          /\ z.error # "reader_missing" /\ v.error # "reader_missing"
          /\ w.error # "reader_missing"
      BY <2>2, <2>3, <2>4
    <2>6. /\ ReportIngest(c) => Emit(c, <<x, y, z>>)
          /\ ReportLint(c) => Emit(c, <<v, w>>)
      BY DEF ReportIngest, ReportLint, failed
    <2> HIDE DEF x, y, z, v, w
    <2>7. /\ <<x, y, z>> \in Seq({x, y, z})
          /\ \A j \in DOMAIN <<x, y, z>> : <<x, y, z>>[j].error # "reader_missing"
      BY <2>5
    <2>8. /\ <<v, w>> \in Seq({v, w})
          /\ \A j \in DOMAIN <<v, w>> : <<v, w>>[j].error # "reader_missing"
      BY <2>5
    <2>9. CASE ReportIngest(c)
      BY <1>1, <2>6, <2>7, <2>9, EmitsWell
    <2>10. CASE ReportLint(c)
      BY <1>1, <2>6, <2>8, <2>10, EmitsWell
    <2> QED BY <2>1, <2>9, <2>10
  <1> QED BY <1>1, <1>2, <1>3, Leaves

LEMMA NextRInv == RInv /\ [Next]_vars => RInv'
  <1> SUFFICES ASSUME RInv, [Next]_vars PROVE RInv'
    OBVIOUS
  <1>1. CASE UNCHANGED vars
    BY <1>1, KeepsRInv DEF vars, tables, locals
  <1>2. ASSUME NEW p \in Paths, NEW b, EditBundle(p, b) PROVE RInv'
    BY <1>2, KeepsRInv DEF EditBundle, tables, locals
  <1>3. ASSUME NEW c \in Calls, Step(c) PROVE RInv'
    BY <1>3, Begins, OnwardSteps, LastSteps DEF Step
  <1> QED BY <1>1, <1>2, <1>3 DEF Next

(* Whatever calls run beside each other, fail or are interrupted, the      *)
(* table holds the readers of calls in progress only, so that a request id *)
(* may be used again (reader_registry.py).                                 *)
THEOREM RegistrySafe == Spec => []ReadersGoWithTheirCalls
  <1>1. RInv => ReadersGoWithTheirCalls
    BY DEF RInv
  <1> QED BY <1>1, InitRInv, NextRInv, PTL DEF Spec

(* No call ever asks the reader of another, and one that was given a       *)
(* reader never reports it missing (generate_answer, draft_query).         *)
THEOREM ReadersAreOwn == Spec => []OwnReader
  <1>1. RInv => OwnReader
    BY DEF RInv
  <1> QED BY <1>1, InitRInv, NextRInv, PTL DEF Spec
-----------------------------------------------------------------------------
(***************************************************************************)
(* Prompts.  A prompt is made in two steps, of the snapshot one behavior   *)
(* held and of the one the next finds; what makes both of them snapshots   *)
(* the knowledge base had meanwhile is that the cache is filled before the *)
(* context is assembled and that nothing is ever dropped from it.          *)
(***************************************************************************)
KbShapes ==
    /\ kbs = [k \in KbIds |-> kbs[k]]
    /\ snap = [c \in Calls |-> snap[c]]
    /\ prompt = [c \in Calls |-> prompt[c]]
    /\ seen = [c \in Calls |-> seen[c]]
    /\ disk \in [Paths -> Bundles \cup {Unreadable}]

(* A behavior that reads a cache or a bundle has a name for it.            *)
HasNames ==
    \A c \in Calls :
        /\ pc[c] \in {"lookup", "load", "install", "have", "generate"}
              => req[c].kb \in KbIds
        /\ pc[c] = "load" => req[c].path \in Paths
        /\ pc[c] = "install" => snap[c] \in Bundles

CurrentSeen ==
    \A c \in Running : req[c].kb \in KbIds /\ kbs[req[c].kb] # NoKb
                          => kbs[req[c].kb] \in seen[c]

SnapSeen ==
    \A c \in Calls : pc[c] \in {"have", "generate"} =>
        snap[c] \in seen[c] /\ kbs[req[c].kb] # NoKb

NoPromptYet == \A c \in Calls : pc[c] = "idle" => prompt[c] = None

GInv == KbShapes /\ HasNames /\ CurrentSeen /\ SnapSeen /\ NoPromptYet /\ PromptGrounded

LEMMA InitGInv == Init => GInv
  BY DEF Init, GInv, KbShapes, HasNames, CurrentSeen, SnapSeen, NoPromptYet,
         PromptGrounded, Running

(* A call moves on without touching what GInv speaks of.                   *)
LEMMA MovesOn ==
    ASSUME RInv, GInv, NEW c \in Running, NEW l, pc' = [pc EXCEPT ![c] = l],
           l \notin {"idle", "lookup", "load", "install", "have"} \cup Ended,
           l = "generate" => pc[c] = "have",
           UNCHANGED <<disk, kbs, req, snap, prompt, seen>>
    PROVE  GInv'
  <1> USE DEF GInv
  <1>1. /\ Running' = Running /\ Running \subseteq Calls /\ c \in Calls
        /\ pc'[c] = l /\ \A d \in Calls : d # c => pc'[d] = pc[d]
    BY DEF Running, RInv, Shapes, Ended
  <1>2. KbShapes' /\ CurrentSeen' /\ PromptGrounded'
    BY <1>1 DEF KbShapes, CurrentSeen, PromptGrounded
  <1>3. HasNames' /\ SnapSeen' /\ NoPromptYet'
    BY <1>1 DEF HasNames, SnapSeen, NoPromptYet
  <1> QED BY <1>2, <1>3

LEMMA BeginsG ==
    ASSUME RInv, GInv, NEW c \in Calls, NEW r \in Requests, NEW rd, Begin(c, r, rd)
    PROVE  GInv'
  <1> USE DEF GInv
  <1>1. /\ r.op \in Ops /\ r.kb \in KbIds \cup {None} /\ r.path \in Paths \cup {None}
        /\ None \notin KbIds /\ r.op = "retrieve" <=> r.kb = None
        /\ r.op = "ingest" => r.path # None
    BY AgentAssumption DEF AgentAssumption
  <1>2. /\ FirstStep[r.op] \in {"lookup", "load", "fetch"}
        /\ FirstStep[r.op] \in {"lookup", "load"} => r.op # "retrieve"
        /\ FirstStep[r.op] = "load" => r.op = "ingest"
    BY <1>1 DEF Ops, FirstStep
  <1>3. /\ pc'[c] = FirstStep[r.op] /\ req'[c] = r
        /\ \A d \in Calls : d # c => pc'[d] = pc[d] /\ req'[d] = req[d]
        /\ UNCHANGED <<disk, kbs, snap>>
    BY DEF Begin, RInv, Shapes
  <1>4. /\ Running' = Running \cup {c} /\ c \notin Running /\ Running \subseteq Calls
    BY <1>2, <1>3 DEF Begin, Running, Ended
  <1>5. \A d \in Calls : d # c => seen'[d] = seen[d] /\ prompt'[d] = prompt[d]
    BY DEF Begin, KbShapes
  <1>6. r.kb \in KbIds => seen'[c] = {kbs[r.kb]} \ {NoKb}
    BY <1>1 DEF Begin, KbShapes
  <1>7. r.op = "ask" => prompt'[c] = None
    BY DEF Begin, NoPromptYet
  <1>8. KbShapes'
    BY <1>3 DEF Begin, KbShapes
  <1>9. HasNames' /\ NoPromptYet'
    BY <1>1, <1>2, <1>3, <1>5 DEF HasNames, NoPromptYet
  <1>10. CurrentSeen'
    BY <1>3, <1>4, <1>5, <1>6 DEF CurrentSeen
  <1>11. SnapSeen' /\ PromptGrounded'
    BY <1>2, <1>3, <1>5, <1>7 DEF SnapSeen, PromptGrounded
  <1> QED BY <1>8, <1>9, <1>10, <1>11

LEMMA LeavesG ==
    ASSUME RInv, GInv, NEW c \in Running, NEW how \in Ended, Leave(c, how),
           UNCHANGED <<disk, kbs, req>>
    PROVE  GInv'
  <1> USE DEF GInv
  <1>1. /\ Running' = Running \ {c} /\ Running \subseteq Calls /\ c \in Calls
        /\ pc'[c] = how /\ how \in {"returned", "raised"}
    BY DEF Leave, Running, RInv, Shapes, Ended
  <1>2. \A d \in Calls : d # c =>
           /\ pc'[d] = pc[d] /\ snap'[d] = snap[d] /\ prompt'[d] = prompt[d]
           /\ seen'[d] = seen[d]
    BY DEF Leave, RInv, Shapes, KbShapes
  <1>3. prompt'[c] = None
    BY <1>1 DEF Leave, KbShapes
  <1>4. KbShapes'
    BY DEF Leave, KbShapes
  <1>5. HasNames' /\ NoPromptYet' /\ SnapSeen'
    BY <1>1, <1>2 DEF HasNames, NoPromptYet, SnapSeen
  <1>6. CurrentSeen' /\ PromptGrounded'
    BY <1>1, <1>2, <1>3 DEF CurrentSeen, PromptGrounded
  <1> QED BY <1>4, <1>5, <1>6

(* What was just looked up is what the knowledge base has now, hence seen. *)
LEMMA LooksUp ==
    ASSUME RInv, GInv, NEW c \in Calls, Lookup(c)
    PROVE  GInv'
  <1> USE DEF GInv
  <1>1. /\ c \in Running /\ req[c] \in Requests /\ req[c].kb \in KbIds
    BY DEF Lookup, Running, Ended, RInv, Begun, HasNames
  <1>2. req[c].path \in Paths \cup {None}
    BY <1>1, AgentAssumption DEF AgentAssumption
  <1>3. /\ \A d \in Calls : d # c => pc'[d] = pc[d] /\ snap'[d] = snap[d]
        /\ snap'[c] = kbs[req[c].kb]
        /\ pc'[c] \in {"have", "load", "missing"}
        /\ pc'[c] = "have" => kbs[req[c].kb] # NoKb
        /\ pc'[c] = "load" => req[c].path # None
        /\ UNCHANGED <<disk, kbs, req, prompt, seen>>
    BY DEF Lookup, Goto, tables, RInv, Shapes, KbShapes
  <1>4. Running' = Running
    BY <1>1, <1>3 DEF Running, Ended
  <1>5. KbShapes'
    <2>1. snap' = [d \in Calls |-> snap'[d]]
      BY DEF Lookup, KbShapes
    <2> QED BY <1>3, <2>1 DEF KbShapes
  <1>6. NoPromptYet' /\ PromptGrounded' /\ CurrentSeen'
    BY <1>3, <1>4 DEF NoPromptYet, PromptGrounded, CurrentSeen
  <1>7. HasNames'
    BY <1>1, <1>2, <1>3 DEF HasNames
  <1>8. SnapSeen'
    BY <1>1, <1>3 DEF SnapSeen, CurrentSeen
  <1> QED BY <1>5, <1>6, <1>7, <1>8

LEMMA LoadsG ==
    ASSUME RInv, GInv, NEW c \in Calls, Load(c)
    PROVE  GInv'
  <1> USE DEF GInv
  <1>1. /\ c \in Running /\ req[c].kb \in KbIds /\ req[c].path \in Paths
    BY DEF Load, Running, Ended, HasNames
  <1>2. disk[req[c].path] \in Bundles \cup {Unreadable}
    BY <1>1 DEF KbShapes
  <1>3. /\ \A d \in Calls : d # c => pc'[d] = pc[d] /\ snap'[d] = snap[d]
        /\ pc'[c] \in {"install", "missing"}
        /\ pc'[c] = "install" => snap'[c] = disk[req[c].path] /\ Loads(c)
        /\ UNCHANGED <<disk, kbs, req, prompt, seen>>
    BY DEF Load, Goto, tables, RInv, Shapes, KbShapes
  <1>4. Running' = Running
    BY <1>1, <1>3 DEF Running, Ended
  <1>5. KbShapes'
    <2>1. snap' = [d \in Calls |-> snap'[d]]
      BY DEF Load, KbShapes
    <2> QED BY <1>3, <2>1 DEF KbShapes
  <1>6. NoPromptYet' /\ PromptGrounded' /\ CurrentSeen' /\ SnapSeen'
    BY <1>3, <1>4 DEF NoPromptYet, PromptGrounded, CurrentSeen, SnapSeen
  <1>7. HasNames'
    BY <1>1, <1>2, <1>3 DEF HasNames, Loads
  <1> QED BY <1>5, <1>6, <1>7

(* A store is seen by every call in progress on its knowledge base.        *)
LEMMA Installs ==
    ASSUME RInv, GInv, NEW c \in Calls, Install(c)
    PROVE  GInv'
  <1> USE DEF GInv
  <1>1. /\ c \in Running /\ req[c].kb \in KbIds
        /\ snap[c] \in Bundles /\ snap[c] # NoKb
    BY AgentAssumption DEF Install, Running, Ended, HasNames, AgentAssumption
  <1>2. /\ \A d \in Calls : d # c => pc'[d] = pc[d]
        /\ pc'[c] = "have" /\ UNCHANGED <<disk, req, snap, prompt>>
    BY DEF Install, Goto, locals, RInv, Shapes
  <1>3. Running' = Running /\ Running \subseteq Calls
    BY <1>1, <1>2 DEF Running, Ended
  <1>4. \A d \in Calls :
           /\ seen[d] \subseteq seen'[d]
           /\ d \in Running /\ req[d].kb = req[c].kb => snap[c] \in seen'[d]
    BY DEF Install
  <1>5. \A k \in KbIds : kbs'[k] = IF k = req[c].kb THEN snap[c] ELSE kbs[k]
    BY DEF Install, SetKb, KbShapes
  <1>6. KbShapes'
    BY <1>2 DEF Install, SetKb, KbShapes
  <1>7. HasNames' /\ NoPromptYet' /\ PromptGrounded'
    BY <1>1, <1>2, <1>4 DEF HasNames, NoPromptYet, PromptGrounded
  <1>8. CurrentSeen'
    BY <1>2, <1>3, <1>4, <1>5 DEF CurrentSeen
  <1>9. SnapSeen'
    BY <1>1, <1>2, <1>4, <1>5 DEF SnapSeen, HasNames
  <1> QED BY <1>6, <1>7, <1>8, <1>9

(* The second read of the knowledge base finds a snapshot, and a seen one. *)
LEMMA BuildsPrompt ==
    ASSUME RInv, GInv, NEW c \in Calls, BuildPrompt(c)
    PROVE  GInv'
  <1> USE DEF GInv
  <1>1. /\ c \in Running /\ req[c].kb \in KbIds
        /\ snap[c] \in seen[c] /\ kbs[req[c].kb] \in seen[c]
    BY DEF BuildPrompt, Running, Ended, HasNames, SnapSeen, CurrentSeen
  <1>2. /\ \A d \in Calls : d # c => pc'[d] = pc[d] /\ prompt'[d] = prompt[d]
        /\ \/ /\ pc'[c] = "fetch"
              /\ prompt'[c].ctx = snap[c] /\ prompt'[c].kb = kbs[req[c].kb]
           \/ pc'[c] = "close" /\ prompt'[c] = prompt[c]
        /\ UNCHANGED <<disk, kbs, req, snap, seen>>
    BY DEF BuildPrompt, Goto, Prompt, tables, RInv, Shapes, KbShapes
  <1>3. Running' = Running
    BY <1>1, <1>2 DEF Running, Ended
  <1>4. KbShapes' /\ HasNames' /\ CurrentSeen' /\ SnapSeen' /\ NoPromptYet'
    BY <1>2, <1>3 DEF BuildPrompt, KbShapes, HasNames, CurrentSeen, SnapSeen, NoPromptYet
  <1>5. PromptGrounded'
    BY <1>1, <1>2 DEF PromptGrounded
  <1> QED BY <1>4, <1>5

(* The steps that touch neither a knowledge base nor a prompt.             *)
LEMMA OtherStepsG ==
    ASSUME RInv, GInv, NEW c \in Calls,
           \/ AssembleContext(c) \/ GetReader(c) \/ CallReader(c)
           \/ ReportIngest(c) \/ ReportLint(c) \/ Close(c) \/ Interrupt(c)
    PROVE  GInv'
  <1>1. CASE AssembleContext(c)
    BY <1>1, MovesOn DEF AssembleContext, Goto, tables, locals, Running, Ended
  <1>2. CASE GetReader(c)
    BY <1>2, MovesOn DEF GetReader, Goto, tables, Running, Ended
  <1>3. CASE CallReader(c)
    BY <1>3, MovesOn DEF CallReader, Goto, tables, locals, Running, Ended
  <1>4. CASE ReportIngest(c) \/ ReportLint(c)
    BY <1>4, LeavesG DEF ReportIngest, ReportLint, Running, Ended
  <1>5. CASE Close(c) \/ Interrupt(c)
    BY <1>5, LeavesG DEF Close, Interrupt, Running, Ended
  <1> QED BY <1>1, <1>2, <1>3, <1>4, <1>5

LEMMA NextGInv == RInv /\ GInv /\ [Next]_vars => GInv'
  <1> SUFFICES ASSUME RInv, GInv, [Next]_vars PROVE GInv'
    OBVIOUS
  <1>1. ASSUME UNCHANGED <<kbs, pc, req, snap, prompt, seen>>,
               disk' \in [Paths -> Bundles \cup {Unreadable}]
        PROVE  GInv'
    BY <1>1 DEF GInv, KbShapes, HasNames, CurrentSeen, SnapSeen, NoPromptYet,
                PromptGrounded, Running
  <1>2. CASE UNCHANGED vars
    BY <1>1, <1>2 DEF vars, tables, locals, GInv, KbShapes
  <1>3. ASSUME NEW p \in Paths, NEW b \in Bundles \cup {Unreadable}, EditBundle(p, b)
        PROVE  GInv'
    BY <1>1, <1>3 DEF EditBundle, tables, locals, GInv, KbShapes
  <1>4. ASSUME NEW c \in Calls, Step(c) PROVE GInv'
    BY <1>4, BeginsG, LooksUp, LoadsG, Installs, BuildsPrompt, OtherStepsG DEF Step
  <1> QED BY <1>2, <1>3, <1>4 DEF Next

(* However ingests, lints and other questions interleave with an ask, its  *)
(* prompt is made of snapshots its knowledge base had in the meantime, and *)
(* never of a missing one (assemble_context, generate_answer).             *)
THEOREM PromptsGrounded == Spec => []PromptGrounded
  <1>1. GInv => PromptGrounded
    BY DEF GInv
  <1>2. Init => RInv /\ GInv
    BY InitRInv, InitGInv
  <1>3. RInv /\ GInv /\ [Next]_vars => (RInv /\ GInv)'
    BY NextRInv, NextGInv
  <1> QED BY <1>1, <1>2, <1>3, PTL DEF Spec
-----------------------------------------------------------------------------
(***************************************************************************)
(* Trails.  What a question leaves in its log is, at any moment, one of    *)
(* three: no model asked yet, a request that waits, an answer at the end.  *)
(***************************************************************************)
AnswerTypes == {"okf.answer.generated", "sql.query.drafted"}

(* The first n events are neither requests, responses nor answers.         *)
Quiet(s, n) ==
    \A i \in 1..n : s[i].type \notin {"llm.requested", "llm.responded"} \cup AnswerTypes

Unasked(s) == Quiet(s, Len(s))

Pending(s) == Len(s) >= 1 /\ Quiet(s, Len(s) - 1) /\ s[Len(s)].type = "llm.requested"

Refused(s) ==
    /\ Len(s) >= 1 /\ Quiet(s, Len(s) - 1)
    /\ s[Len(s)].type \in AnswerTypes
    /\ s[Len(s)].error # "" /\ s[Len(s)].answer = ""

Answered(s) ==
    LET n == Len(s)
    IN  /\ n >= 3 /\ Quiet(s, n - 3)
        /\ s[n - 2].type = "llm.requested"
        /\ s[n - 1].type = "llm.responded" /\ s[n - 1].caused_by = n - 2
        /\ s[n].type \in AnswerTypes
        /\ s[n].answer = s[n - 1].answer /\ s[n].error = s[n - 1].error

Trail(s) == Unasked(s) \/ Pending(s) \/ Refused(s) \/ Answered(s)

(* A log with one event more, and with two.                                *)
LEMMA AddOne ==
    ASSUME NEW S, NEW s \in Seq(S), NEW e
    PROVE  /\ Len(s) \in Nat /\ Len(s \o <<e>>) = Len(s) + 1
           /\ \A i \in 1..Len(s) : (s \o <<e>>)[i] = s[i]
           /\ (s \o <<e>>)[Len(s) + 1] = e
  OBVIOUS

LEMMA AddTwo ==
    ASSUME NEW S, NEW s \in Seq(S), NEW e, NEW f
    PROVE  /\ Len(s) \in Nat /\ Len(s \o <<e, f>>) = Len(s) + 2
           /\ \A i \in 1..Len(s) : (s \o <<e, f>>)[i] = s[i]
           /\ (s \o <<e, f>>)[Len(s) + 1] = e
           /\ (s \o <<e, f>>)[Len(s) + 2] = f
  OBVIOUS

(* What an event at the end makes of a trail.                              *)
LEMMA AsksNone ==
    ASSUME NEW S, NEW s \in Seq(S), NEW e, Unasked(s),
           e.type \notin {"llm.requested", "llm.responded"} \cup AnswerTypes
    PROVE  Unasked(s \o <<e>>)
  <1>1. PICK t : t = s \o <<e>>
    OBVIOUS
  <1>2. /\ Len(s) \in Nat /\ Len(t) = Len(s) + 1
        /\ \A i \in 1..Len(s) : t[i] = s[i]
        /\ t[Len(s) + 1] = e
    BY <1>1, AddOne
  <1>3. Unasked(t)
    BY <1>2 DEF Unasked, Quiet
  <1> QED BY <1>1, <1>3

LEMMA AsksModel ==
    ASSUME NEW S, NEW s \in Seq(S), NEW e, Unasked(s), e.type = "llm.requested"
    PROVE  Pending(s \o <<e>>)
  <1>1. PICK t : t = s \o <<e>>
    OBVIOUS
  <1>2. /\ Len(s) \in Nat /\ Len(t) = Len(s) + 1
        /\ \A i \in 1..Len(s) : t[i] = s[i]
        /\ t[Len(s) + 1] = e
    BY <1>1, AddOne
  <1>3. Pending(t)
    BY <1>2 DEF Unasked, Pending, Quiet
  <1> QED BY <1>1, <1>3

LEMMA RefusesFirst ==
    ASSUME NEW S, NEW s \in Seq(S), NEW e
    PROVE  /\ Unasked(s)
           /\ e.type \in AnswerTypes /\ e.error # "" /\ e.answer = ""
           => Refused(s \o <<e>>)
  <1>1. PICK t : t = s \o <<e>>
    OBVIOUS
  <1>2. /\ Len(s) \in Nat /\ Len(t) = Len(s) + 1
        /\ \A i \in 1..Len(s) : t[i] = s[i]
        /\ t[Len(s) + 1] = e
    BY <1>1, AddOne
  <1>3. Len(t) >= 1 /\ t[Len(t)] = e
    BY <1>2
  <1>4. ASSUME Unasked(s) PROVE Quiet(t, Len(t) - 1)
    BY <1>2, <1>4 DEF Unasked, Quiet
  <1> QED BY <1>1, <1>3, <1>4 DEF Refused

LEMMA RefusesNext ==
    ASSUME NEW S, NEW s \in Seq(S), NEW e, NEW f
    PROVE  /\ Unasked(s)
           /\ e.type \notin {"llm.requested", "llm.responded"} \cup AnswerTypes
           /\ f.type \in AnswerTypes /\ f.error # "" /\ f.answer = ""
           => Refused(s \o <<e, f>>)
  <1>1. PICK t : t = s \o <<e, f>>
    OBVIOUS
  <1>2. /\ Len(s) \in Nat /\ Len(t) = Len(s) + 2
        /\ \A i \in 1..Len(s) : t[i] = s[i]
        /\ t[Len(s) + 1] = e /\ t[Len(s) + 2] = f
    BY <1>1, AddTwo
  <1>3. Len(t) >= 1 /\ t[Len(t)] = f
    BY <1>2
  <1>4. ASSUME Unasked(s), e.type \notin {"llm.requested", "llm.responded"} \cup AnswerTypes
        PROVE  Quiet(t, Len(t) - 1)
    BY <1>2, <1>4 DEF Unasked, Quiet
  <1> QED BY <1>1, <1>3, <1>4 DEF Refused

LEMMA AnswersModel ==
    ASSUME NEW S, NEW s \in Seq(S), NEW e, NEW f, Pending(s),
           e.type = "llm.responded", e.caused_by = Len(s),
           f.type \in AnswerTypes, f.error = e.error, f.answer = e.answer
    PROVE  Answered(s \o <<e, f>>)
  <1>1. PICK t : t = s \o <<e, f>>
    OBVIOUS
  <1>2. /\ Len(s) \in Nat /\ Len(t) = Len(s) + 2
        /\ \A i \in 1..Len(s) : t[i] = s[i]
        /\ t[Len(s) + 1] = e /\ t[Len(s) + 2] = f
    BY <1>1, AddTwo
  <1>4. Answered(t)
    BY <1>2 DEF Pending, Answered, Quiet
  <1> QED BY <1>1, <1>4
  (* Where an answered trail has its answer, its request and its response.   *)
LEMMA AnsweredParts ==
      ASSUME NEW S, NEW s \in Seq(S), Answered(s)
      PROVE  /\ {i \in DOMAIN s : s[i].type \in AnswerTypes} = {Len(s)}
             /\ {i \in DOMAIN s : s[i].type = "llm.requested"} = {Len(s) - 2}
             /\ {i \in DOMAIN s : s[i].type = "llm.responded"} = {Len(s) - 1}
  <1>1. PICK n \in Nat : n = Len(s) /\ DOMAIN s = 1..n
    OBVIOUS
  <1>2. /\ n >= 3 /\ Quiet(s, n - 3) /\ s[n - 2].type = "llm.requested"
        /\ s[n - 1].type = "llm.responded" /\ s[n].type \in AnswerTypes
    BY <1>1 DEF Answered
  <1>3. \A i \in 1..n : i \in 1..(n - 3) \/ i = n - 2 \/ i = n - 1 \/ i = n
    BY <1>2
  <1>4. "llm.requested" \notin AnswerTypes /\ "llm.responded" \notin AnswerTypes
    BY DEF AnswerTypes
  <1>5. ASSUME NEW i \in 1..n
        PROVE  /\ s[i].type \in AnswerTypes <=> i = n
               /\ s[i].type = "llm.requested" <=> i = n - 2
               /\ s[i].type = "llm.responded" <=> i = n - 1
    <2>1. CASE i \in 1..(n - 3)
      <3>1. s[i].type \notin {"llm.requested", "llm.responded"} \cup AnswerTypes
        BY <2>1, <1>2 DEF Quiet
      <3>2. i # n /\ i # n - 1 /\ i # n - 2
        BY <2>1, <1>2
      <3> QED BY <3>1, <3>2
    <2>2. CASE i = n - 2
      BY <2>2, <1>2, <1>4
    <2>3. CASE i = n - 1
      BY <2>3, <1>2, <1>4
    <2>4. CASE i = n
      BY <2>4, <1>2, <1>4
    <2> QED BY <2>1, <2>2, <2>3, <2>4, <1>3
  <1>6. n \in 1..n /\ n - 1 \in 1..n /\ n - 2 \in 1..n
    BY <1>2
  <1> QED BY <1>1, <1>5, <1>6

(* A refused one has its answer and neither of the others.                 *)
LEMMA RefusedParts ==
    ASSUME NEW S, NEW s \in Seq(S), Refused(s)
    PROVE  /\ {i \in DOMAIN s : s[i].type \in AnswerTypes} = {Len(s)}
           /\ {i \in DOMAIN s : s[i].type = "llm.requested"} = {}
           /\ {i \in DOMAIN s : s[i].type = "llm.responded"} = {}
  <1>1. PICK n \in Nat : n = Len(s) /\ DOMAIN s = 1..n
    OBVIOUS
  <1>2. n >= 1 /\ Quiet(s, n - 1) /\ s[n].type \in AnswerTypes
    BY <1>1 DEF Refused
  <1>3. "llm.requested" \notin AnswerTypes /\ "llm.responded" \notin AnswerTypes
    BY DEF AnswerTypes
  <1>4. ASSUME NEW i \in 1..n
        PROVE  /\ s[i].type \in AnswerTypes <=> i = n
               /\ s[i].type # "llm.requested" /\ s[i].type # "llm.responded"
    <2>1. CASE i \in 1..(n - 1)
      <3>1. s[i].type \notin {"llm.requested", "llm.responded"} \cup AnswerTypes
        BY <2>1, <1>2 DEF Quiet
      <3>2. i # n
        BY <2>1, <1>2
      <3> QED BY <3>1, <3>2
    <2>2. CASE i = n
      BY <2>2, <1>2, <1>3
    <2> QED BY <2>1, <2>2, <1>2
  <1> QED BY <1>1, <1>2, <1>4

(* While no answer is there, there is no response either.                  *)
LEMMA NoResponse ==
    ASSUME NEW S, NEW s \in Seq(S), Unasked(s) \/ Pending(s)
    PROVE  {i \in DOMAIN s : s[i].type = "llm.responded"} = {}
  <1>1. PICK n \in Nat : n = Len(s) /\ DOMAIN s = 1..n
    OBVIOUS
  <1>2. CASE Unasked(s)
    BY <1>1, <1>2 DEF Unasked, Quiet
  <1>3. CASE Pending(s)
    <2>1. n >= 1 /\ s[n].type = "llm.requested" /\ Quiet(s, n - 1)
      BY <1>1, <1>3 DEF Pending
    <2>2. ASSUME NEW i \in 1..n PROVE s[i].type # "llm.responded"
      <3>1. CASE i = n
        BY <2>1, <3>1
      <3>2. CASE i # n
        <4>1. i \in 1..(n - 1)
          BY <3>2
        <4> QED BY <4>1, <2>1 DEF Quiet
      <3> QED BY <3>1, <3>2
    <2> QED BY <1>1, <2>2
  <1> QED BY <1>2, <1>3
-----------------------------------------------------------------------------
(* The log of a question, by where it is.                                  *)
TrailOf(c) ==
    /\ Trail(log[c])
    /\ pc[c] \in {"lookup", "load", "install", "have", "missing", "generate", "fetch"}
          => Unasked(log[c])
    /\ pc[c] = "asking" => Pending(log[c])
    /\ pc[c] \in {"close", "returned"} => Refused(log[c]) \/ Answered(log[c])

Trails == \A c \in Calls : pc[c] # "idle" /\ Asks(c) => TrailOf(c)

(* A reader serves from no cache, or from that of a question that ended.   *)
FromRun(rd) ==
    \/ rd.run = None /\ rd.cache = <<>>
    \/ /\ rd.run \in Calls /\ pc[rd.run] \in Ended /\ Asks(rd.run)
       /\ rd.cache = BuildReplayCache(log[rd.run])

CachesCurrent == \A c \in Calls : given[c] # NoReader => FromRun(given[c])

ServedOf(c) ==
    \A r \in ResponsesOf(c) :
        Reply(log[c][r].answer, log[c][r].error) \in Replies(using[c], prompt[c])

RepliesServed == \A c \in Calls : pc[c] = "close" /\ using[c] # NoReader => ServedOf(c)

TInv == Trails /\ CachesCurrent /\ RepliesServed

(* Before any call there is no trail, no reader and no reply.              *)
LEMMA InitTInv == Init => TInv
  BY DEF Init, TInv, Trails, CachesCurrent, RepliesServed

(* A step of one call changes nothing of another.                          *)
LEMMA OthersStay ==
    ASSUME RInv, GInv, NEW c \in Calls, Step(c)
    PROVE  /\ pc[c] \notin Ended
           /\ \A d \in Calls : d # c =>
                 /\ pc'[d] = pc[d] /\ req'[d] = req[d] /\ log'[d] = log[d]
                 /\ given'[d] = given[d] /\ using'[d] = using[d] /\ prompt'[d] = prompt[d]
  <1> USE DEF RInv, Shapes, GInv, KbShapes
  <1>1. ASSUME NEW how, Leave(c, how)
        PROVE  \A d \in Calls : d # c =>
                  /\ pc'[d] = pc[d] /\ given'[d] = given[d] /\ using'[d] = using[d]
                  /\ prompt'[d] = prompt[d]
    BY <1>1 DEF Leave
  <1>2. ASSUME NEW t, Emit(c, t)
        PROVE  \A d \in Calls : d # c => log'[d] = log[d]
    BY <1>2 DEF Emit
  <1>3. ASSUME NEW l, Goto(c, l)
        PROVE  \A d \in Calls : d # c => pc'[d] = pc[d]
    BY <1>3 DEF Goto
  <1>4. ASSUME NEW r \in Requests, NEW rd, Begin(c, r, rd)
        PROVE  /\ pc[c] \notin Ended
               /\ \A d \in Calls : d # c =>
                   /\ pc'[d] = pc[d] /\ req'[d] = req[d] /\ log'[d] = log[d]
                   /\ given'[d] = given[d] /\ using'[d] = using[d] /\ prompt'[d] = prompt[d]
    BY <1>4 DEF Begin, Ended
  <1>5. CASE Lookup(c)
    BY <1>5, <1>3 DEF Lookup, tables, Ended
  <1>6. CASE Load(c)
    <2>1. Goto(c, "install") \/ Goto(c, "missing")
      BY <1>6 DEF Load
    <2> QED BY <1>6, <1>3, <2>1 DEF Load, tables, Ended
  <1>7. CASE Install(c)
    BY <1>7, <1>3 DEF Install, locals, Ended
  <1>8. CASE ReportIngest(c)
    BY <1>8, <1>1, <1>2 DEF ReportIngest, Ended
  <1>9. CASE ReportLint(c)
    BY <1>9, <1>1, <1>2 DEF ReportLint, Ended
  <1>10. CASE AssembleContext(c)
    BY <1>10, <1>2, <1>3 DEF AssembleContext, tables, locals, Ended
  <1>11. CASE BuildPrompt(c)
    BY <1>11, <1>2, <1>3 DEF BuildPrompt, tables, Ended
  <1>12. CASE GetReader(c)
    BY <1>12, <1>2, <1>3 DEF GetReader, tables, Ended
  <1>13. CASE CallReader(c)
    BY <1>13, <1>2, <1>3 DEF CallReader, tables, locals, Ended
  <1>14. CASE Close(c)
    BY <1>14, <1>1 DEF Close, Ended
  <1>15. CASE Interrupt(c)
    BY <1>15, <1>1 DEF Interrupt, Running
  <1> QED BY <1>4, <1>5, <1>6, <1>7, <1>8, <1>9, <1>10, <1>11, <1>12, <1>13, <1>14, <1>15 DEF Step
-----------------------------------------------------------------------------
(* The run a cache was made of has ended, so its log does not change.      *)
LEMMA RunsStay ==
    ASSUME RInv, GInv, NEW c \in Calls, Step(c), NEW rd, FromRun(rd)
    PROVE  FromRun(rd)'
  <1>1. CASE rd.run = None /\ rd.cache = <<>>
    BY <1>1 DEF FromRun
  <1>2. CASE ~(rd.run = None /\ rd.cache = <<>>)
    <2>1. /\ rd.run \in Calls /\ pc[rd.run] \in Ended /\ Asks(rd.run)
          /\ rd.cache = BuildReplayCache(log[rd.run])
      BY <1>2 DEF FromRun
    <2>2. rd.run # c
      BY <2>1, OthersStay
    <2>3. /\ pc'[rd.run] = pc[rd.run] /\ req'[rd.run] = req[rd.run]
          /\ log'[rd.run] = log[rd.run]
      BY <2>1, <2>2, OthersStay
    <2> QED BY <2>1, <2>3 DEF FromRun, Asks
  <1> QED BY <1>1, <1>2

(* What is left to show of a step is about the call that takes it.         *)
LEMMA OwnPart ==
    ASSUME RInv, GInv, TInv, NEW c \in Calls, Step(c),
           pc'[c] # "idle" /\ Asks(c)' => TrailOf(c)',
           given'[c] \in {NoReader, given[c]} \/ FromRun(given'[c]),
           pc'[c] = "close" /\ using'[c] # NoReader => ServedOf(c)'
    PROVE  TInv'
  <1>1. \A d \in Calls : d # c =>
           /\ pc'[d] = pc[d] /\ req'[d] = req[d] /\ log'[d] = log[d]
           /\ given'[d] = given[d] /\ using'[d] = using[d] /\ prompt'[d] = prompt[d]
    BY OthersStay
  <1>2. Trails'
    <2>1. ASSUME NEW d \in Calls, d # c, pc'[d] # "idle", Asks(d)'
          PROVE  TrailOf(d)'
      <3>1. TrailOf(d)
        BY <1>1, <2>1 DEF TInv, Trails, Asks
      <3> QED BY <1>1, <2>1, <3>1 DEF TrailOf
    <2> QED BY <2>1 DEF Trails
  <1>3. CachesCurrent'
    <2>1. ASSUME NEW d \in Calls, given'[d] # NoReader
          PROVE  FromRun(given[d])'
      <3>1. PICK rd : rd = given'[d]
        OBVIOUS
      <3>2. FromRun(rd)
        BY <1>1, <2>1, <3>1 DEF TInv, CachesCurrent
      <3>3. FromRun(rd)'
        BY <3>2, RunsStay
      <3> QED BY <3>1, <3>3 DEF FromRun, Asks
    <2> QED BY <2>1 DEF CachesCurrent
  <1>4. RepliesServed'
    <2>1. ASSUME NEW d \in Calls, d # c, pc'[d] = "close", using'[d] # NoReader
          PROVE  ServedOf(d)'
      <3>1. ServedOf(d)
        BY <1>1, <2>1 DEF TInv, RepliesServed
      <3> QED BY <1>1, <2>1, <3>1 DEF ServedOf, ResponsesOf, Positions
    <2> QED BY <2>1 DEF RepliesServed
  <1> QED BY <1>2, <1>3, <1>4 DEF TInv

(* A trail begins with the question; a reader is one that callers may make.*)
LEMMA BeginsT ==
    ASSUME RInv, GInv, TInv, NEW c \in Calls, NEW r \in Requests,
           NEW rd \in Readers \cup {NoReader}, Begin(c, r, rd)
    PROVE  TInv'
  <1>1. Step(c)
    BY DEF Step
  <1>2. /\ pc'[c] = FirstStep[r.op] /\ req'[c] = r /\ given'[c] = rd
        /\ log'[c] = <<Plain(Seeded(r.op), "")>>
    BY DEF Begin, RInv, Shapes
  <1>3. r.op \in Ops
    BY AgentAssumption DEF AgentAssumption
  <1>4. FirstStep[r.op] \in {"lookup", "load", "fetch"}
    BY <1>3 DEF Ops, FirstStep
  <1>5. Seeded(r.op) \notin {"llm.requested", "llm.responded"} \cup AnswerTypes
    BY <1>3 DEF Ops, Seeded, AnswerTypes
  <1>6. Unasked(log'[c])
    <2>1. PICK e : e = Plain(Seeded(r.op), "")
      OBVIOUS
    <2>2. e.type \notin {"llm.requested", "llm.responded"} \cup AnswerTypes
      BY <1>5, <2>1 DEF Plain, Event
    <2>3. Unasked(<<e>>)
      BY <2>2 DEF Unasked, Quiet
    <2> QED BY <1>2, <2>1, <2>3
  <1>7. TrailOf(c)'
    BY <1>2, <1>4, <1>6 DEF TrailOf, Trail, Ended
  <1>8. rd # NoReader => FromRun(rd)
    BY DEF Readers, Live, Replay, FromRun
  <1>9. pc'[c] # "close"
    BY <1>2, <1>4
  <1> QED BY <1>1, <1>2, <1>7, <1>8, <1>9, OwnPart

(* Steps that emit nothing before a model is asked.                        *)
LEMMA QuietT ==
    ASSUME RInv, GInv, TInv, NEW c \in Calls,
           Lookup(c) \/ Load(c) \/ Install(c)
    PROVE  TInv'
  <1>1. Step(c)
    BY DEF Step
  <1>2. /\ log'[c] = log[c] /\ req'[c] = req[c] /\ given'[c] = given[c]
        /\ pc[c] \in {"lookup", "load", "install"}
        /\ pc'[c] \in {"lookup", "load", "install", "have", "missing"}
    BY DEF Lookup, Load, Install, Goto, tables, locals, RInv, Shapes
  <1>3. Asks(c)' => TrailOf(c)'
    BY <1>2 DEF TInv, Trails, TrailOf, Trail, Asks
  <1> QED BY <1>1, <1>2, <1>3, OwnPart

(* A context is assembled, or there is no knowledge base to make it of.    *)
LEMMA AssemblesT ==
    ASSUME RInv, GInv, TInv, NEW c \in Calls, AssembleContext(c)
    PROVE  TInv'
  <1>1. Step(c)
    BY DEF Step
  <1>2. /\ pc[c] \in {"have", "missing"} /\ Asks(c) /\ req'[c] = req[c]
        /\ given'[c] = given[c]
    BY DEF AssembleContext, locals, Asks
  <1>3. Unasked(log[c])
    BY <1>2 DEF TInv, Trails, TrailOf
  <1>4. PICK S : log[c] \in Seq(S)
    BY DEF RInv, Shapes
  <1> DEFINE e == Plain("okf.context.assembled", "")
             m == Plain("okf.context.assembled", "kb_missing")
             f == Plain("okf.answer.generated", "kb_missing")
  <1>5. /\ e.type \notin {"llm.requested", "llm.responded"} \cup AnswerTypes
        /\ m.type \notin {"llm.requested", "llm.responded"} \cup AnswerTypes
        /\ f.type \in AnswerTypes /\ f.error # "" /\ f.answer = ""
    BY DEF Plain, Event, AnswerTypes
  <1>6. \/ pc'[c] = "generate" /\ log'[c] = log[c] \o <<e>>
        \/ pc'[c] = "close" /\ log'[c] = log[c] \o <<m, f>>
    BY DEF AssembleContext, Emit, Goto, RInv, Shapes
  <1> HIDE DEF e, m, f
  <1>7. CASE pc'[c] = "generate" /\ log'[c] = log[c] \o <<e>>
    <2>1. Unasked(log'[c])
      BY <1>3, <1>4, <1>5, <1>7, AsksNone
    <2>2. TrailOf(c)'
      BY <1>7, <2>1 DEF TrailOf, Trail, Ended
    <2> QED BY <1>1, <1>2, <1>7, <2>2, OwnPart
  <1>8. CASE pc'[c] = "close" /\ log'[c] = log[c] \o <<m, f>>
    <2>1. Refused(log'[c])
      BY <1>3, <1>4, <1>5, <1>8, RefusesNext
    <2>2. TrailOf(c)'
      BY <1>8, <2>1 DEF TrailOf, Trail, Ended
    <2>3. log'[c] \in Seq(S \cup {m, f})
      BY <1>4, <1>8
    <2>4. ServedOf(c)'
      BY <2>1, <2>3, RefusedParts DEF ServedOf, ResponsesOf, Positions
    <2> QED BY <1>1, <1>2, <2>2, <2>4, OwnPart
  <1> QED BY <1>6, <1>7, <1>8

(* A prompt is made, or its failure is the answer.                         *)
LEMMA BuildsT ==
    ASSUME RInv, GInv, TInv, NEW c \in Calls, BuildPrompt(c)
    PROVE  TInv'
  <1>1. Step(c)
    BY DEF Step
  <1>2. /\ pc[c] = "generate" /\ Asks(c) /\ req'[c] = req[c] /\ given'[c] = given[c]
    BY DEF BuildPrompt, RInv, OnlyAsksFetch
  <1>3. Unasked(log[c])
    BY <1>2 DEF TInv, Trails, TrailOf
  <1>4. PICK S : log[c] \in Seq(S)
    BY DEF RInv, Shapes
  <1> DEFINE e == Plain("okf.answer.generated", "prompt_raised")
  <1>5. e.type \in AnswerTypes /\ e.error # "" /\ e.answer = ""
    BY DEF Plain, Event, AnswerTypes
  <1>6. \/ pc'[c] = "fetch" /\ log'[c] = log[c]
        \/ pc'[c] = "close" /\ log'[c] = log[c] \o <<e>>
    BY DEF BuildPrompt, Emit, Goto, RInv, Shapes
  <1> HIDE DEF e
  <1>7. CASE pc'[c] = "fetch" /\ log'[c] = log[c]
    <2>1. TrailOf(c)'
      BY <1>2, <1>7 DEF TInv, Trails, TrailOf, Trail
    <2> QED BY <1>1, <1>2, <1>7, <2>1, OwnPart
  <1>8. CASE pc'[c] = "close" /\ log'[c] = log[c] \o <<e>>
    <2>1. Refused(log'[c])
      BY <1>3, <1>4, <1>5, <1>8, RefusesFirst
    <2>2. TrailOf(c)'
      BY <1>8, <2>1 DEF TrailOf, Trail, Ended
    <2>3. log'[c] \in Seq(S \cup {e})
      BY <1>4, <1>8
    <2>4. ServedOf(c)'
      BY <2>1, <2>3, RefusedParts DEF ServedOf, ResponsesOf, Positions
    <2> QED BY <1>1, <1>2, <2>2, <2>4, OwnPart
  <1> QED BY <1>6, <1>7, <1>8

(* The request is recorded, or the missing reader is the answer.           *)
LEMMA GetsT ==
    ASSUME RInv, GInv, TInv, NEW c \in Calls, GetReader(c)
    PROVE  TInv'
  <1>1. Step(c)
    BY DEF Step
  <1>2. /\ pc[c] = "fetch" /\ Asks(c) /\ req'[c] = req[c] /\ given'[c] = given[c]
        /\ using'[c] = registry[req[c].rid]
    BY DEF GetReader, RInv, OnlyAsksFetch, Shapes
  <1>3. Unasked(log[c])
    BY <1>2 DEF TInv, Trails, TrailOf
  <1>4. PICK S : log[c] \in Seq(S)
    BY DEF RInv, Shapes
  <1> DEFINE e == Plain(Terminal(c), "reader_missing")
             f == Event("llm.requested", prompt[c], "", "", 0)
  <1>5. e.type \in AnswerTypes /\ e.error # "" /\ e.answer = ""
        /\ f.type = "llm.requested"
    BY DEF Plain, Event, AnswerTypes, Terminal
  <1>6. \/ using'[c] = NoReader /\ pc'[c] = "close" /\ log'[c] = log[c] \o <<e>>
        \/ pc'[c] = "asking" /\ log'[c] = log[c] \o <<f>>
    BY <1>2 DEF GetReader, Emit, Goto, RInv, Shapes
  <1> HIDE DEF e, f
  <1>7. CASE using'[c] = NoReader /\ pc'[c] = "close" /\ log'[c] = log[c] \o <<e>>
    <2>1. Refused(log'[c])
      BY <1>3, <1>4, <1>5, <1>7, RefusesFirst
    <2>2. TrailOf(c)'
      BY <1>7, <2>1 DEF TrailOf, Trail, Ended
    <2> QED BY <1>1, <1>2, <1>7, <2>2, OwnPart
  <1>8. CASE pc'[c] = "asking" /\ log'[c] = log[c] \o <<f>>
    <2>1. Pending(log'[c])
      BY <1>3, <1>4, <1>5, <1>8, AsksModel
    <2>2. TrailOf(c)'
      BY <1>8, <2>1 DEF TrailOf, Trail, Ended
    <2> QED BY <1>1, <1>2, <1>8, <2>2, OwnPart
  <1> QED BY <1>6, <1>7, <1>8

(* A reply has an answer and an error, and nothing else.                   *)
LEMMA RepliesAre ==
    ASSUME NEW rd, NEW p, NEW reply \in Replies(rd, p)
    PROVE  Reply(reply.answer, reply.error) = reply
  <1>1. \E a, b : reply = Reply(a, b)
    BY DEF Replies
  <1>2. PICK a, b : reply = Reply(a, b)
    BY <1>1
  <1> QED BY <1>2 DEF Reply

(* The one response in the log is what the reader replied.                 *)
LEMMA CallsT ==
    ASSUME RInv, GInv, TInv, NEW c \in Calls, CallReader(c), Asks(c)
    PROVE  TInv'
  <1>1. Step(c)
    BY DEF Step
  <1>2. /\ pc[c] = "asking" /\ pc'[c] = "close"
        /\ UNCHANGED <<req, given, using, prompt>>
    BY DEF CallReader, Goto, locals, RInv, Shapes
  <1>3. Pending(log[c])
    BY <1>2 DEF TInv, Trails, TrailOf
  <1>4. PICK S : log[c] \in Seq(S)
    BY DEF RInv, Shapes
  <1>5. PICK reply \in Replies(using[c], prompt[c]) : Emit(c, Recorded(c, reply))
    BY DEF CallReader
  <1>6. PICK e : e = Event("llm.responded", None, reply.answer, reply.error, Len(log[c]))
    OBVIOUS
  <1>7. PICK f : f = Event(Terminal(c), None, reply.answer, reply.error, 0)
    OBVIOUS
  <1>8. log'[c] = log[c] \o <<e, f>>
    BY <1>5, <1>6, <1>7 DEF Emit, Recorded, RInv, Shapes
  <1>9. /\ e.type = "llm.responded" /\ e.caused_by = Len(log[c])
        /\ f.type \in AnswerTypes /\ f.error = e.error /\ f.answer = e.answer
        /\ e.answer = reply.answer /\ e.error = reply.error
    BY <1>6, <1>7 DEF Event, Terminal, AnswerTypes
  <1>10. Answered(log'[c])
    BY <1>3, <1>4, <1>8, <1>9, AnswersModel
  <1>11. TrailOf(c)'
    BY <1>2, <1>10 DEF TrailOf, Trail, Ended
  <1>12. Reply(reply.answer, reply.error) = reply
    BY <1>5, RepliesAre
  <1>13. /\ log'[c] \in Seq(S \cup {e, f})
         /\ Len(log'[c]) - 1 = Len(log[c]) + 1
         /\ log'[c][Len(log[c]) + 1] = e
    BY <1>4, <1>8
  <1>14. {i \in DOMAIN log'[c] : log'[c][i].type = "llm.responded"} = {Len(log[c]) + 1}
    BY <1>10, <1>13, AnsweredParts
  <1>15. ServedOf(c)'
    <2>1. \A i \in ResponsesOf(c)' : i = Len(log[c]) + 1
      BY <1>14 DEF ResponsesOf, Positions
    <2>2. \A i \in ResponsesOf(c)' : Reply(log'[c][i].answer, log'[c][i].error) = reply
      BY <2>1, <1>9, <1>12, <1>13
    <2>3. Replies(using[c], prompt[c])' = Replies(using[c], prompt[c])
      BY <1>2
    <2> QED BY <1>5, <2>2, <2>3 DEF ServedOf
  <1> QED BY <1>1, <1>2, <1>11, <1>15, OwnPart
  (* Only Close returns a call that asks, and it comes after the answer.     *)
LEMMA EndsT ==
      ASSUME RInv, GInv, TInv, NEW c \in Calls,
             ReportIngest(c) \/ ReportLint(c) \/ Close(c) \/ Interrupt(c)
      PROVE  TInv'
  <1>1. Step(c)
    BY DEF Step
  <1>2. PICK how \in Ended : Leave(c, how) /\ pc'[c] = how
    BY DEF ReportIngest, ReportLint, Close, Interrupt, Leave, Ended, RInv, Shapes
  <1>3. given'[c] = NoReader /\ req'[c] = req[c] /\ pc'[c] # "close"
    BY <1>2 DEF ReportIngest, ReportLint, Close, Interrupt, Leave, Ended, RInv, Shapes
  <1>4. ASSUME Asks(c) PROVE TrailOf(c)'
    <2>1. log'[c] = log[c] /\ (Close(c) \/ Interrupt(c))
      BY <1>4 DEF ReportIngest, ReportLint, Close, Interrupt, Asks
    <2>2. TrailOf(c)
      BY <1>4, <2>1 DEF TInv, Trails, Close, Interrupt, Running
    <2>3. pc[c] = "close" \/ how = "raised"
      BY <1>2, <2>1 DEF Close, Interrupt, Leave, RInv, Shapes
    <2> QED BY <1>2, <2>1, <2>2, <2>3 DEF TrailOf, Ended
  <1> QED BY <1>1, <1>3, <1>4, OwnPart DEF Asks

(* What leaves alone all that TInv speaks of preserves it.                 *)
LEMMA KeepsTInv ==
    ASSUME TInv, UNCHANGED <<pc, req, given, using, prompt, log>>
    PROVE  TInv'
  BY DEF TInv, Trails, TrailOf, CachesCurrent, FromRun, RepliesServed, ServedOf,
         ResponsesOf, Positions, Asks

(* Every step preserves TInv, given the first two parts.                   *)
LEMMA NextTInv == RInv /\ GInv /\ TInv /\ [Next]_vars => TInv'
  <1> SUFFICES ASSUME RInv, GInv, TInv, [Next]_vars PROVE TInv'
    OBVIOUS
  <1>1. CASE UNCHANGED vars
    BY <1>1, KeepsTInv DEF vars, tables, locals
  <1>2. ASSUME NEW p \in Paths, NEW b, EditBundle(p, b) PROVE TInv'
    BY <1>2, KeepsTInv DEF EditBundle, tables, locals
  <1>3. ASSUME NEW c \in Calls, CallReader(c) PROVE TInv'
    <2>1. Asks(c)
      BY <1>3 DEF CallReader, RInv, OnlyAsksFetch
    <2> QED BY <1>3, <2>1, CallsT
  <1>4. ASSUME NEW c \in Calls, Step(c) PROVE TInv'
    BY <1>3, <1>4, BeginsT, QuietT, AssemblesT, BuildsT, GetsT, EndsT DEF Step
  <1> QED BY <1>1, <1>2, <1>4 DEF Next
-----------------------------------------------------------------------------
(* A refused or an answered trail is what the property asks for.           *)
LEMMA TrailsGiveAnswers == RInv /\ TInv => TrailMatchesAnswer
  <1> SUFFICES ASSUME RInv, TInv, NEW c \in Calls, pc[c] = "returned", Asks(c)
               PROVE
          /\ Cardinality(AnswersOf(c)) = 1
          /\ \A q \in RequestsOf(c) : \E r \in ResponsesOf(c) :
                r > q /\ log[c][r].caused_by = q
          /\ \A r \in ResponsesOf(c) : log[c][r].caused_by \in RequestsOf(c)
          /\ \A a \in AnswersOf(c) :
                IF ResponsesOf(c) = {} THEN log[c][a].error # "" /\ log[c][a].answer = ""
                ELSE \A r \in ResponsesOf(c) :
                        r < a /\ Reply(log[c][r].answer, log[c][r].error)
                                 = Reply(log[c][a].answer, log[c][a].error)
    BY DEF TrailMatchesAnswer
  <1>1. Refused(log[c]) \/ Answered(log[c])
    BY DEF TInv, Trails, TrailOf
  <1>2. PICK S : log[c] \in Seq(S)
    BY DEF RInv, Shapes
  <1>3. PICK s : s = log[c]
    OBVIOUS
  <1>4. /\ AnswersOf(c) = {i \in DOMAIN s : s[i].type \in AnswerTypes}
        /\ RequestsOf(c) = {i \in DOMAIN s : s[i].type = "llm.requested"}
        /\ ResponsesOf(c) = {i \in DOMAIN s : s[i].type = "llm.responded"}
    BY <1>3 DEF AnswersOf, RequestsOf, ResponsesOf, Positions, AnswerTypes
  <1>5. CASE Refused(log[c])
    <2>1. /\ AnswersOf(c) = {Len(s)} /\ RequestsOf(c) = {} /\ ResponsesOf(c) = {}
      BY <1>2, <1>3, <1>4, <1>5, RefusedParts
    <2>2. s[Len(s)].error # "" /\ s[Len(s)].answer = ""
      BY <1>3, <1>5 DEF Refused
    <2>3. Cardinality(AnswersOf(c)) = 1
      BY <2>1, FS_Singleton
    <2> QED BY <1>3, <2>1, <2>2, <2>3
  <1>6. CASE Answered(log[c])
    <2>1. PICK n \in Nat : n = Len(s)
      BY <1>2, <1>3
    <2>2. AnswersOf(c) = {n} /\ RequestsOf(c) = {n - 2} /\ ResponsesOf(c) = {n - 1}
      BY <1>2, <1>3, <1>4, <1>6, <2>1, AnsweredParts
    <2>3. /\ s[n - 1].caused_by = n - 2
          /\ s[n].answer = s[n - 1].answer /\ s[n].error = s[n - 1].error
      BY <1>3, <1>6, <2>1 DEF Answered
    <2>4. Cardinality(AnswersOf(c)) = 1
      BY <2>2, FS_Singleton
    <2>5. n - 1 > n - 2 /\ n - 1 < n
      OBVIOUS
    <2> QED BY <1>3, <2>2, <2>3, <2>4, <2>5
  <1> QED BY <1>1, <1>5, <1>6

(* The responses that are no errors, and the cache of a log that has none  *)
(* of them or one, at m.                                                   *)
GoodResponses(s) == {j \in DOMAIN s : s[j].type = "llm.responded" /\ s[j].error = ""}

NothingCached(s) == DOMAIN BuildReplayCache(s) = {} /\ GoodResponses(s) = {}

CachedAt(s, m) ==
    /\ m - 1 \in DOMAIN s
    /\ DOMAIN BuildReplayCache(s) = {s[m - 1].prompt}
    /\ BuildReplayCache(s)[s[m - 1].prompt] = s[m].answer
    /\ GoodResponses(s) = {m}
    /\ {j \in DOMAIN s : s[j].type = "llm.requested"} = {m - 1}

(* The cache of a question's log has its answer, if a model gave one.      *)
LEMMA CacheOfOne ==
    ASSUME NEW S, NEW s \in Seq(S), Trail(s)
    PROVE  NothingCached(s) \/ \E m \in DOMAIN s : CachedAt(s, m)
  <1> DEFINE R == {i \in DOMAIN s : Reusable(s, i)}
             C == GoodResponses(s)
             P(i) == s[s[i].caused_by].prompt
  <1>1. BuildReplayCache(s) =
          [p \in {P(i) : i \in R} |-> s[Max({i \in R : P(i) = p})].answer]
    BY DEF BuildReplayCache
  <1>2. R \subseteq C
    BY DEF Reusable, GoodResponses
  <1>3. CASE C = {}
    <2>1. {P(i) : i \in R} = {}
      BY <1>2, <1>3
    <2> HIDE DEF R, P
    <2>2. DOMAIN BuildReplayCache(s) = {}
      BY <1>1, <2>1
    <2> QED BY <1>3, <2>2 DEF NothingCached
  <1>4. CASE C # {}
    <2>1. {i \in DOMAIN s : s[i].type = "llm.responded"} # {}
      BY <1>4 DEF GoodResponses
    <2>2. Answered(s)
      BY <2>1, NoResponse, RefusedParts DEF Trail
    <2>3. PICK n \in Nat : n = Len(s) /\ DOMAIN s = 1..n
      OBVIOUS
    <2>4. PICK m \in Nat : m = n - 1 /\ m >= 2 /\ m <= n
      BY <2>2, <2>3 DEF Answered
    <2>5. /\ {i \in DOMAIN s : s[i].type = "llm.requested"} = {m - 1}
          /\ {i \in DOMAIN s : s[i].type = "llm.responded"} = {m}
          /\ s[m].caused_by = m - 1
      <3>1. n - 2 = m - 1
        BY <2>4
      <3>2. s[m].caused_by = n - 2
        BY <2>2, <2>3, <2>4 DEF Answered
      <3> QED BY <2>2, <2>3, <2>4, <3>1, <3>2, AnsweredParts
    <2>6. C = {m}
      BY <1>4, <2>5 DEF GoodResponses
    <2>7. m \in DOMAIN s /\ m - 1 \in DOMAIN s /\ s[m - 1].type = "llm.requested"
          /\ s[m].type = "llm.responded" /\ s[m].error = ""
      BY <2>5, <2>6 DEF GoodResponses
    <2>8. R = {m}
      BY <1>2, <2>5, <2>6, <2>7 DEF Reusable
    <2>9. P(m) = s[m - 1].prompt
      BY <2>5
    <2>10. {P(i) : i \in R} = {P(m)} /\ {i \in R : P(i) = P(m)} = {m}
      BY <2>8
    <2>11. Max({m}) = m
      BY <2>4 DEF Max
    <2> HIDE DEF R, P
    <2>12. DOMAIN BuildReplayCache(s) = {P(m)} /\ BuildReplayCache(s)[P(m)] = s[m].answer
      BY <1>1, <2>10, <2>11
    <2> QED BY <2>5, <2>6, <2>7, <2>9, <2>12 DEF CachedAt
  <1> QED BY <1>3, <1>4

(* A prompt that no recorded answer is for goes to what stands behind the  *)
(* cache, as if there were none.                                           *)
LEMMA Uncached ==
    ASSUME NEW rd, NEW p, p \notin DOMAIN rd.cache, NEW served \in Replies(rd, p)
    PROVE  IF rd.fallback = None THEN served = Reply(Marker, "")
           ELSE served \in Replies(Live(rd.fallback), p)
  <1>1. /\ Live(rd.fallback).cache = <<>> /\ Live(rd.fallback).fallback = rd.fallback
        /\ p \notin DOMAIN <<>>
    BY DEF Live
  <1> QED BY <1>1 DEF Replies

(* What a reader with a cache replied, it replied from that run or from    *)
(* what stands behind the cache.                                           *)
LEMMA ReplaysServe == RInv /\ TInv => ReplayIsFaithful
  <1> SUFFICES ASSUME RInv, TInv, NEW c \in Calls, pc[c] = "close",
                      using[c] # NoReader, NEW d \in Calls \cap {using[c].run},
                      NEW r \in ResponsesOf(c)
               PROVE
              LET served == Reply(log[c][r].answer, log[c][r].error)
                  recorded == {Reply(log[d][i].answer, "") : i \in
                      {j \in ResponsesOf(d) : /\ log[d][j].error = ""
                          /\ \E q \in RequestsOf(d) : log[d][q].prompt = prompt[c]}}
              IN  IF recorded # {} THEN served \in recorded
                  ELSE IF using[c].fallback = None THEN served = Reply(Marker, "")
                  ELSE served \in Replies(Live(using[c].fallback), prompt[c])
    BY DEF ReplayIsFaithful
  <1>1. /\ c \in Running /\ using[c] = given[c]
    BY DEF Running, Ended, RInv, OwnReader
  <1>2. /\ d = using[c].run /\ d # None /\ pc[d] \in Ended /\ Asks(d)
        /\ using[c].cache = BuildReplayCache(log[d])
    BY <1>1, AgentAssumption DEF TInv, CachesCurrent, FromRun, AgentAssumption
  <1>3. Trail(log[d])
    BY <1>2 DEF TInv, Trails, TrailOf, Ended
  <1>4. PICK S : log[d] \in Seq(S)
    BY DEF RInv, Shapes
  <1>5. PICK s : s = log[d]
    OBVIOUS
  <1>6. PICK p : p = prompt[c]
    OBVIOUS
  <1>7. PICK served : served = Reply(log[c][r].answer, log[c][r].error)
    OBVIOUS
  <1>8. served \in Replies(using[c], p)
    BY <1>6, <1>7 DEF TInv, RepliesServed, ServedOf
  <1>9. PICK recorded :
           recorded = {Reply(s[i].answer, "") : i \in
                      {j \in ResponsesOf(d) : /\ s[j].error = ""
                          /\ \E q \in RequestsOf(d) : s[q].prompt = p}}
    OBVIOUS
  <1>10. /\ RequestsOf(d) = {i \in DOMAIN s : s[i].type = "llm.requested"}
         /\ ResponsesOf(d) = {i \in DOMAIN s : s[i].type = "llm.responded"}
    BY <1>5 DEF RequestsOf, ResponsesOf, Positions
  <1>11. IF recorded # {} THEN served \in recorded ELSE p \notin DOMAIN using[c].cache
    <2>1. CASE NothingCached(s)
      <3>1. recorded = {}
        BY <1>9, <1>10, <2>1 DEF NothingCached, GoodResponses
      <3> QED BY <1>2, <1>5, <2>1, <3>1 DEF NothingCached
    <2>2. ASSUME NEW m \in DOMAIN s, CachedAt(s, m)
          PROVE  IF recorded # {} THEN served \in recorded
                 ELSE p \notin DOMAIN using[c].cache
      <3>1. {j \in ResponsesOf(d) : s[j].error = ""} = {m} /\ RequestsOf(d) = {m - 1}
        BY <1>10, <2>2 DEF CachedAt, GoodResponses
      <3>2. CASE s[m - 1].prompt = p
        <4>1. recorded = {Reply(s[m].answer, "")}
          BY <1>9, <3>1, <3>2
        <4>2. p \in DOMAIN using[c].cache /\ using[c].cache[p] = s[m].answer
          BY <1>2, <1>5, <2>2, <3>2 DEF CachedAt
        <4>3. served = Reply(s[m].answer, "")
          BY <1>8, <4>2 DEF Replies
        <4> QED BY <4>1, <4>3
      <3>3. CASE s[m - 1].prompt # p
        <4>1. recorded = {}
          BY <1>9, <3>1, <3>3
        <4>2. DOMAIN using[c].cache = {s[m - 1].prompt}
          BY <1>2, <1>5, <2>2 DEF CachedAt
        <4>3. p \notin DOMAIN using[c].cache
          BY <3>3, <4>2
        <4> QED BY <4>1, <4>3
      <3> QED BY <3>2, <3>3
    <2>3. s \in Seq(S) /\ Trail(s)
      BY <1>3, <1>4, <1>5
    <2>4. NothingCached(s) \/ \E m \in DOMAIN s : CachedAt(s, m)
      BY <2>3, CacheOfOne
    <2> QED BY <2>1, <2>2, <2>4
  <1>12. IF recorded # {} THEN served \in recorded
         ELSE IF using[c].fallback = None THEN served = Reply(Marker, "")
         ELSE served \in Replies(Live(using[c].fallback), p)
    BY <1>8, <1>11, Uncached
  <1> QED BY <1>5, <1>6, <1>7, <1>9, <1>12

(* The three parts hold together.                                          *)
LEMMA AgentInvariant == Spec => [](RInv /\ GInv /\ TInv)
  <1>1. Init => RInv /\ GInv /\ TInv
    BY InitRInv, InitGInv, InitTInv
  <1>2. RInv /\ GInv /\ TInv /\ [Next]_vars => (RInv /\ GInv /\ TInv)'
    BY NextRInv, NextGInv, NextTInv
  <1> QED BY <1>1, <1>2, PTL DEF Spec

(* A call that returned has one answer in its log, a model's with its      *)
(* request and its response before it or an error without, whatever ran    *)
(* beside it (behaviors.py of both agents, observability.py, events.yaml). *)
THEOREM TrailsMatch == Spec => []TrailMatchesAnswer
  BY AgentInvariant, TrailsGiveAnswers, PTL

(* However calls, replays of calls and replays of replays follow upon each *)
(* other, a replay serves what a model answered to the prompt in the run   *)
(* it replays, and otherwise what stands behind it (replay.py).            *)
THEOREM ReplaysFaithful == Spec => []ReplayIsFaithful
  BY AgentInvariant, ReplaysServe, PTL
=============================================================================
