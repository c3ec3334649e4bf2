--------------------------- MODULE SchedulerProofs ---------------------------
(***************************************************************************)
(* What the scheduler promises, for every pool, prompt, batch size, model  *)
(* and pattern of arrivals.                                                *)
(*                                                                         *)
(* The argument runs through one line of requests: batch, sequence at      *)
(* hand, running, waiting.  Every step but two leaves the line as it is,   *)
(* and only moves the borders between its parts: prefill moves the head of *)
(* waiting over, the decode loop moves the head of running into its batch  *)
(* and the whole batch back, preempt moves the youngest back to waiting.   *)
(* A request arrives at its end, and a finished one leaves it.  From where *)
(* somebody stands in the line follows whether they hold blocks, and so    *)
(* that every call of the manager is one it allows (ManagerUsed).          *)
(*                                                                         *)
(* Then what a forward pass reads of the key/value cache: for every        *)
(* position of every sequence of the batch the entry computed for its own  *)
(* prefix, provided that what allocate() finds by a hash is of that prefix *)
(* (KVMatches; KeysMatch and OwnKeys).                                     *)
(***************************************************************************)
EXTENDS Scheduler, FiniteSetTheorems, SequenceTheorems, TLAPS

(* The manager's theorems, about the variables the scheduler gives it.     *)
BP == INSTANCE BlockManagerProofs

(* The scheduler grants what they assume.                                  *)
LEMMA ManagerAssumed == BP!BlockAssumption
BY ManagerAssumption DEF BP!IsFiniteSet, IsFiniteSet
-----------------------------------------------------------------------------
(* Where step() may be.                                                    *)
PCs ==
    {"idle", "prefill", "admit", "decode", "append", "run", "nothing to run", "post",
     "finish", "raised"}

(* What the queues and the counters may hold.                              *)
QueueTypes ==
    /\ waiting \in Seq(Seqs) /\ running \in Seq(Seqs)
    /\ scheduled \in Seq(Seqs) /\ left \in Seq(Seqs) /\ arrived \in Seq(Seqs)
    /\ status \in [Seqs -> {"new", "WAITING", "RUNNING", "FINISHED"}]
    /\ promptLen \in [Seqs -> Nat]
    /\ pc \in PCs
    /\ pc = "append" => cur \in Seqs

(* The requests the scheduler knows of, oldest first: those the decode     *)
(* loop has put into its batch, the one it has at hand, running, waiting.  *)
Queues == running \o waiting
Taken == IF pc = "append" THEN <<cur>> ELSE <<>>
Ahead == IF pc \in {"decode", "append"} THEN scheduled ELSE <<>>
Line == (Ahead \o Taken) \o Queues

(* No entry twice.                                                         *)
Distinct(q) == \A i, j \in DOMAIN q : q[i] = q[j] => i = j

(* Nobody is lost or overtaken: the line is who has arrived and is not     *)
(* finished, in order of arrival.                                          *)
LineInv ==
    /\ Distinct(arrived)
    /\ \A s \in Seqs : s \in Range(arrived) <=> status[s] # "new"
    /\ InOrder(Line)
    /\ Range(Line) = {s \in Range(arrived) : status[s] # "FINISHED"}

(* The batch of a prefill, or of a finished decode loop, is of running     *)
(* sequences, each once; so is what postprocess has still to see, and a    *)
(* token has been sampled for each of those.                               *)
PhaseInv ==
    /\ pc \in {"prefill", "admit", "run"} =>
          Distinct(scheduled) /\ Range(scheduled) \subseteq Range(running)
    /\ pc = "admit" => waiting # <<>>
    /\ pc = "run" => scheduled # <<>>
    /\ pc \in {"post", "finish"} =>
          /\ Distinct(left) /\ Range(left) \subseteq Range(running)
          /\ \A s \in Range(left) : drawn[s] \in Tokens
    /\ pc = "finish" => left # <<>>

(* Whose next token the manager expects, by where step() is.               *)
Due ==
    CASE pc \in {"idle", "raised"} -> {}
      [] pc = "admit" ->
            Range(scheduled) \cup (IF job = BM!Idle THEN {Head(waiting)} ELSE {})
      [] pc \in {"prefill", "decode", "append", "run", "nothing to run"} ->
            Range(scheduled)
      [] pc = "post" -> Range(left)
      [] pc = "finish" -> Range(Tail(left))

(* Who is running, or is in the hands of the decode loop.                  *)
Active == Range((Ahead \o Taken) \o running)

(* Whose blocks the manager's loop is handing out or taking back.          *)
OnJob(s) == job # BM!Idle /\ job.seq = s

(* Who holds blocks: all that are active, and none that waits, but for the *)
(* one whose blocks are on the move.                                       *)
TableInv ==
    /\ due = Due
    /\ \A s \in Active : table[s] # <<>> /\ ~OnJob(s)
    /\ \A s \in Range(waiting) :
          table[s] = <<>> \/ OnJob(s) \/ (pc = "admit" /\ s = Head(waiting))
    /\ pc = "admit" /\ job = BM!Idle => table[Head(waiting)] # <<>>
    /\ \A s \in Seqs : status[s] = "new" => table[s] = <<>> /\ ~OnJob(s)
    /\ job.op = "allocate" => pc = "admit" /\ job.seq = Head(waiting)
    /\ job.op = "deallocate" => pc \in {"append", "decode", "post"}

(* No request outgrows its prompt and max_tokens.                          *)
LengthInv ==
    /\ \A s \in Seqs : promptLen[s] + MaxTokens <= MaxLen
    /\ \A s \in Seqs : status[s] = "new" => Len(tokens[s]) = promptLen[s]
    /\ \A s \in Range(Line) :
          \/ Len(tokens[s]) < promptLen[s] + MaxTokens
          \/ pc = "finish" /\ s = Head(left)

(* What holds of the scheduler between any two steps.                      *)
SInv == LineInv /\ PhaseInv /\ TableInv /\ LengthInv

-----------------------------------------------------------------------------
(* What a sequence of one entry is.                                        *)
LEMMA Singleton ==
    ASSUME NEW S, NEW e \in S
    PROVE  <<e>> \in Seq(S) /\ Range(<<e>>) = {e} /\ Distinct(<<e>>)
<1>1. <<e>> \in Seq(S) /\ DOMAIN <<e>> = {1} /\ <<e>>[1] = e
  OBVIOUS
<1> QED BY <1>1 DEF Range, Distinct

(* What the empty sequence holds.                                          *)
LEMMA EmptyRange == Range(<<>>) = {} /\ Distinct(<<>>)
BY DEF Range, Distinct

(* The places of two sequences put one behind the other.                   *)
LEMMA ConcatPlaces ==
    ASSUME NEW S, NEW p \in Seq(S), NEW q \in Seq(S)
    PROVE  /\ Len(p) \in Nat /\ Len(q) \in Nat
           /\ DOMAIN p = 1..Len(p) /\ DOMAIN q = 1..Len(q)
           /\ p \o q \in Seq(S) /\ DOMAIN (p \o q) = 1..(Len(p) + Len(q))
           /\ \A i \in DOMAIN p : i \in DOMAIN (p \o q) /\ (p \o q)[i] = p[i]
           /\ \A i \in DOMAIN q :
                 Len(p) + i \in DOMAIN (p \o q) /\ (p \o q)[Len(p) + i] = q[i]
<1> DEFINE m == Len(p)
           n == Len(q)
           r == p \o q
<1>1. /\ m \in Nat /\ n \in Nat /\ DOMAIN p = 1..m /\ DOMAIN q = 1..n
      /\ r \in Seq(S) /\ Len(r) = m + n
      /\ \A i \in 1..(m + n) : r[i] = IF i <= m THEN p[i] ELSE q[i - m]
  BY LenProperties, ConcatProperties
<1>2. DOMAIN r = 1..(m + n)
  BY <1>1, LenProperties, Zenon
<1> HIDE DEF m, n, r
<1>3. ASSUME NEW i \in DOMAIN p PROVE i \in DOMAIN r /\ r[i] = p[i]
  BY <1>1, <1>2
<1>4. ASSUME NEW i \in DOMAIN q PROVE m + i \in DOMAIN r /\ r[m + i] = q[i]
  <2>1. i \in Nat \ {0} /\ i <= n /\ m + i - m = i /\ m + i \in 1..(m + n) /\ ~(m + i <= m)
    BY <1>1
  <2>2. r[m + i] = q[m + i - m]
    BY <2>1, <1>1
  <2> QED BY <2>1, <2>2, <1>2
<1>5. /\ m \in Nat /\ n \in Nat /\ DOMAIN p = 1..m /\ DOMAIN q = 1..n
      /\ r \in Seq(S) /\ DOMAIN r = 1..(m + n)
      /\ \A i \in DOMAIN p : i \in DOMAIN r /\ r[i] = p[i]
      /\ \A i \in DOMAIN q : m + i \in DOMAIN r /\ r[m + i] = q[i]
  BY <1>1, <1>2, <1>3, <1>4
<1> QED BY <1>5 DEF m, n, r

(* Two sequences in a row hold what the two hold.                          *)
LEMMA RangeConcat ==
    ASSUME NEW S, NEW p \in Seq(S), NEW q \in Seq(S)
    PROVE  Range(p \o q) = Range(p) \cup Range(q)
<1> DEFINE m == Len(p)
           n == Len(q)
           r == p \o q
<1>1. /\ m \in Nat /\ n \in Nat /\ DOMAIN p = 1..m /\ DOMAIN q = 1..n
      /\ DOMAIN r = 1..(m + n)
      /\ \A i \in DOMAIN p : i \in DOMAIN r /\ r[i] = p[i]
      /\ \A i \in DOMAIN q : m + i \in DOMAIN r /\ r[m + i] = q[i]
  BY ConcatPlaces
<1> HIDE DEF m, n, r
<1>2. ASSUME NEW i \in DOMAIN r PROVE r[i] \in Range(p) \cup Range(q)
  <2>1. CASE i \in 1..m
    BY <2>1, <1>1 DEF Range
  <2>2. CASE i \notin 1..m
    <3>1. i - m \in 1..n /\ m + (i - m) = i
      BY <2>2, <1>1
    <3>2. r[i] = q[i - m]
      BY <3>1, <1>1
    <3> QED BY <3>1, <3>2, <1>1 DEF Range
  <2> QED BY <2>1, <2>2
<1>3. Range(r) = Range(p) \cup Range(q)
  BY <1>1, <1>2 DEF Range
<1> QED BY <1>3 DEF r

(* If nothing is in a row twice, the two halves share nothing.             *)
LEMMA DistinctConcat ==
    ASSUME NEW S, NEW p \in Seq(S), NEW q \in Seq(S), Distinct(p \o q)
    PROVE  Distinct(p) /\ Distinct(q) /\ \A x \in Range(p) : x \notin Range(q)
<1> DEFINE m == Len(p)
           r == p \o q
<1>1. /\ m \in Nat /\ DOMAIN p = 1..m /\ DOMAIN q = 1..Len(q) /\ Len(q) \in Nat
      /\ \A i \in DOMAIN p : i \in DOMAIN r /\ r[i] = p[i]
      /\ \A i \in DOMAIN q : m + i \in DOMAIN r /\ r[m + i] = q[i]
  BY ConcatPlaces
<1>2. \A i, j \in DOMAIN r : r[i] = r[j] => i = j
  BY DEF Distinct
<1> HIDE DEF m, r
<1>3. Distinct(p)
  BY <1>1, <1>2 DEF Distinct
<1>4. ASSUME NEW i \in DOMAIN q, NEW j \in DOMAIN q, q[i] = q[j] PROVE i = j
  <2>1. m + i = m + j
    BY <1>1, <1>2, <1>4
  <2> QED BY <2>1, <1>1
<1>5. ASSUME NEW i \in DOMAIN p, NEW j \in DOMAIN q, p[i] = q[j] PROVE FALSE
  <2>1. i = m + j
    BY <1>1, <1>2, <1>5
  <2> QED BY <2>1, <1>1
<1> QED BY <1>3, <1>4, <1>5 DEF Distinct, Range

(* A queue is its head before the rest.                                    *)
LEMMA HeadFirst ==
    ASSUME NEW S, NEW q \in Seq(S), q # <<>>
    PROVE  /\ Head(q) \in S /\ Tail(q) \in Seq(S) /\ q = <<Head(q)>> \o Tail(q)
           /\ Range(q) = {Head(q)} \cup Range(Tail(q))
           /\ Distinct(q) => Distinct(Tail(q)) /\ Head(q) \notin Range(Tail(q))
<1>1. /\ Head(q) \in S /\ Tail(q) \in Seq(S)
      /\ Len(Tail(q)) = Len(q) - 1 /\ Len(q) \in Nat \ {0}
      /\ \A i \in 1..Len(Tail(q)) : Tail(q)[i] = q[i + 1]
  BY HeadTailProperties, EmptySeq
<1>2. <<Head(q)>> \in Seq(S) /\ Range(<<Head(q)>>) = {Head(q)} /\ Len(<<Head(q)>>) = 1
  BY <1>1, Singleton
<1>3. q = <<Head(q)>> \o Tail(q)
  <2> DEFINE r == <<Head(q)>> \o Tail(q)
             n == Len(q)
  <2>1. /\ r \in Seq(S) /\ Len(r) = 1 + Len(Tail(q))
        /\ \A i \in 1..(1 + Len(Tail(q))) :
              r[i] = IF i <= 1 THEN <<Head(q)>>[i] ELSE Tail(q)[i - 1]
    BY <1>1, <1>2, ConcatProperties
  <2>2. n \in Nat \ {0} /\ Len(Tail(q)) = n - 1
    BY <1>1
  <2>3. Len(r) = n
    <3> HIDE DEF r, n
    <3> QED BY <2>1, <2>2
  <2>4. Head(q) = q[1]
    OBVIOUS
  <2>5. ASSUME NEW i \in 1..n PROVE q[i] = r[i]
    <3>1. CASE i = 1
      BY <3>1, <2>1, <2>2, <2>4
    <3>2. CASE i # 1
      <4>1. i - 1 \in 1..Len(Tail(q)) /\ i - 1 + 1 = i /\ ~(i <= 1)
            /\ i \in 1..(1 + Len(Tail(q)))
        BY <3>2, <2>2
      <4>2. Tail(q)[i - 1] = q[i - 1 + 1]
        BY <4>1, <1>1
      <4> QED BY <4>1, <4>2, <2>1
    <3> QED BY <3>1, <3>2
  <2> HIDE DEF r
  <2>6. q = r
    BY <2>1, <2>3, <2>5, SeqEqual
  <2> QED BY <2>6 DEF r
<1>4. Range(q) = {Head(q)} \cup Range(Tail(q))
  <2>1. PICK r \in Seq(S) : r = <<Head(q)>>
    BY <1>2
  <2>2. Range(r \o Tail(q)) = Range(r) \cup Range(Tail(q))
    BY <1>1, RangeConcat
  <2> QED BY <2>1, <2>2, <1>2, <1>3
<1>5. ASSUME Distinct(q) PROVE Distinct(Tail(q)) /\ Head(q) \notin Range(Tail(q))
  <2>1. Distinct(<<Head(q)>> \o Tail(q))
    BY <1>3, <1>5
  <2> QED BY <2>1, <1>1, <1>2, DistinctConcat
<1> QED BY <1>1, <1>3, <1>4, <1>5

(* The same without the equation, which the backends cannot carry along.   *)
LEMMA HeadParts ==
    ASSUME NEW S, NEW q \in Seq(S), q # <<>>
    PROVE  /\ Head(q) \in S /\ Tail(q) \in Seq(S) /\ Head(q) \in Range(q)
           /\ Range(q) = {Head(q)} \cup Range(Tail(q))
           /\ Distinct(q) => Distinct(Tail(q)) /\ Head(q) \notin Range(Tail(q))
BY HeadFirst, Zenon

(* A queue is its last entry behind the rest.                              *)
LEMMA LastLast ==
    ASSUME NEW S, NEW q \in Seq(S), q # <<>>
    PROVE  /\ Last(q) \in S /\ Front(q) \in Seq(S) /\ q = Front(q) \o <<Last(q)>>
           /\ Range(q) = Range(Front(q)) \cup {Last(q)}
           /\ Distinct(q) => Distinct(Front(q)) /\ Last(q) \notin Range(Front(q))
<1>1. /\ Front(q) \in Seq(S) /\ Len(Front(q)) = Len(q) - 1 /\ Len(q) \in Nat \ {0}
      /\ \A i \in 1..(Len(q) - 1) : Front(q)[i] = q[i]
      /\ Last(q) = q[Len(q)] /\ Last(q) \in S
  <2>1. BP!Front(q) = Front(q) /\ BP!Last(q) = Last(q)
    BY DEF BP!Front, Front, BP!Last, Last
  <2> QED BY <2>1, BP!FrontProperties, ManagerAssumed, EmptySeq
<1>2. <<Last(q)>> \in Seq(S) /\ Range(<<Last(q)>>) = {Last(q)} /\ Len(<<Last(q)>>) = 1
      /\ <<Last(q)>>[1] = Last(q)
  BY <1>1, Singleton
<1>3. q = Front(q) \o <<Last(q)>>
  <2> DEFINE r == Front(q) \o <<Last(q)>>
             n == Len(q)
  <2>1. /\ r \in Seq(S) /\ Len(r) = n - 1 + 1
        /\ \A i \in 1..(n - 1 + 1) :
              r[i] = IF i <= n - 1 THEN Front(q)[i] ELSE <<Last(q)>>[i - (n - 1)]
    BY <1>1, <1>2, ConcatProperties
  <2>2. n \in Nat \ {0} /\ n - 1 + 1 = n
    BY <1>1
  <2>3. ASSUME NEW i \in 1..n PROVE q[i] = r[i]
    <3>1. CASE i = n
      <4>1. i - (n - 1) = 1 /\ ~(i <= n - 1) /\ i \in 1..(n - 1 + 1)
        BY <3>1, <2>2
      <4>2. r[i] = <<Last(q)>>[1]
        <5> HIDE DEF r
        <5> QED BY <4>1, <2>1, Zenon
      <4> QED BY <4>2, <3>1, <1>1, <1>2
    <3>2. CASE i # n
      <4> HIDE DEF r, n
      <4>1. i \in 1..(n - 1) /\ i <= n - 1 /\ i \in 1..(n - 1 + 1)
        BY <3>2, <2>2
      <4>2. r[i] = Front(q)[i]
        BY <4>1, <2>1
      <4> QED BY <4>1, <4>2, <1>1 DEF n
    <3> QED BY <3>1, <3>2
  <2> HIDE DEF r
  <2>4. q = r
    BY <2>1, <2>2, <2>3, SeqEqual
  <2> QED BY <2>4 DEF r
<1>4. Range(q) = Range(Front(q)) \cup {Last(q)}
  <2>1. Range(Front(q) \o <<Last(q)>>) = Range(Front(q)) \cup Range(<<Last(q)>>)
    BY <1>1, <1>2, RangeConcat, Zenon
  <2> QED BY <2>1, <1>2, <1>3
<1>5. ASSUME Distinct(q) PROVE Distinct(Front(q)) /\ Last(q) \notin Range(Front(q))
  <2>1. Distinct(Front(q) \o <<Last(q)>>)
    BY <1>3, <1>5
  <2> QED BY <2>1, <1>1, <1>2, DistinctConcat
<1> QED BY <1>1, <1>3, <1>4, <1>5

(* The same without the equation.                                          *)
LEMMA LastParts ==
    ASSUME NEW S, NEW q \in Seq(S), q # <<>>
    PROVE  /\ Last(q) \in S /\ Front(q) \in Seq(S) /\ Last(q) \in Range(q)
           /\ Range(q) = Range(Front(q)) \cup {Last(q)}
           /\ Distinct(q) => Distinct(Front(q)) /\ Last(q) \notin Range(Front(q))
<1>1. /\ Last(q) \in S /\ Front(q) \in Seq(S)
      /\ Range(q) = Range(Front(q)) \cup {Last(q)}
      /\ Distinct(q) => Distinct(Front(q)) /\ Last(q) \notin Range(Front(q))
  BY LastLast, Zenon
<1> QED BY <1>1

(* What append adds.                                                       *)
LEMMA AppendParts ==
    ASSUME NEW S, NEW q \in Seq(S), NEW e \in S
    PROVE  /\ Append(q, e) \in Seq(S) /\ Append(q, e) # <<>>
           /\ Range(Append(q, e)) = Range(q) \cup {e}
           /\ Distinct(q) /\ e \notin Range(q) => Distinct(Append(q, e))
<1>1. Append(q, e) \in Seq(S) /\ Append(q, e) # <<>>
  BY AppendProperties
<1>2. Range(Append(q, e)) = Range(q) \cup {e}
  <2>1. PICK r \in Seq(S) : r = <<e>> /\ Range(r) = {e}
    BY Singleton
  <2>2. Range(q \o r) = Range(q) \cup Range(r)
    BY RangeConcat
  <2>3. Append(q, e) = q \o r
    BY <2>1, AppendIsConcat
  <2> QED BY <2>1, <2>2, <2>3
<1>3. ASSUME Distinct(q), e \notin Range(q) PROVE Distinct(Append(q, e))
  <2>1. Range(q) = BP!Range(q)
    BY DEF Range, BP!Range
  <2> QED BY <2>1, <1>3, BP!AppendFresh, ManagerAssumed DEF Distinct
<1> QED BY <1>1, <1>2, <1>3

(* deque.remove, of an entry that is there once.                           *)
LEMMA RemoveOne ==
    ASSUME NEW S, NEW q \in Seq(S), Distinct(q), NEW e \in Range(q)
    PROVE  \E k \in DOMAIN q : q[k] = e /\ RemoveFirst(q, e) = RemoveAt(q, k)
<1>1. PICK k \in DOMAIN q : q[k] = e
  BY DEF Range
<1>2. DOMAIN q = 1..Len(q) /\ Len(q) \in Nat
  BY LenProperties
<1>3. {i \in 1..Len(q) : q[i] = e} = {k}
  BY <1>1, <1>2 DEF Distinct
<1>4. SelectInSeq(q, LAMBDA v : v = e) = Min({k})
  BY <1>3 DEF SelectInSeq
<1>5. Min({k}) = k
  BY <1>1, <1>2 DEF Min
<1>6. RemoveFirst(q, e) = RemoveAt(q, k)
  BY <1>1, <1>2, <1>4, <1>5 DEF RemoveFirst
<1> QED BY <1>1, <1>6
-----------------------------------------------------------------------------
(* The instance of the theorems is the instance the scheduler drives.      *)
LEMMA SameNext == BM!Next <=> BP!Next
BY DEF BM!Range, BP!Range, BM!RemoveAt, BP!RemoveAt, BM!Front, BP!Front,
       BM!Last, BP!Last, BM!Blocks, BP!Blocks, BM!NoHash, BP!NoHash, BM!Idle,
       BP!Idle, BM!blockVars, BP!blockVars, BM!poolVars, BP!poolVars,
       BM!bmVars, BP!bmVars, BM!Init, BP!Init, BM!BlocksOf, BP!BlocksOf,
       BM!BlockOf, BP!BlockOf, BM!ComputeHash, BP!ComputeHash, BM!CanAllocate,
       BP!CanAllocate, BM!Fill, BP!Fill, BM!CanAppend, BP!CanAppend,
       BM!Registered, BP!Registered, BM!Hit, BP!Hit, BM!Contents, BP!Contents,
       BM!Unfree, BP!Unfree, BM!Claim, BP!Claim, BM!CountHolder,
       BP!CountHolder, BM!Share, BP!Share, BM!Extend, BP!Extend, BM!Fail,
       BP!Fail, BM!BeginAllocate, BP!BeginAllocate, BM!NextTokens,
       BP!NextTokens, BM!NextHash, BP!NextHash, BM!Misses, BP!Misses,
       BM!Placed, BP!Placed, BM!AllocateMiss, BP!AllocateMiss, BM!AllocateHit,
       BP!AllocateHit, BM!AllocateFails, BP!AllocateFails, BM!AllocateNext,
       BP!AllocateNext, BM!AppendToken, BP!AppendToken, BM!OpenBlock,
       BP!OpenBlock, BM!PrefixHash, BP!PrefixHash, BM!SealBlock, BP!SealBlock,
       BM!StayInBlock, BP!StayInBlock, BM!MayAppendFails, BP!MayAppendFails,
       BM!MayAppend, BP!MayAppend, BM!BeginDeallocate, BP!BeginDeallocate,
       BM!Unheld, BP!Unheld, BM!DeallocateNext, BP!DeallocateNext,
       BM!ClearCache, BP!ClearCache, BM!MayBeAllocated, BP!MayBeAllocated,
       BM!MayBeExtended, BP!MayBeExtended, BM!MayBeReleased, BP!MayBeReleased,
       BM!MaySample, BP!MaySample, BM!Next, BP!Next

(* Nor do the initial states differ.                                       *)
LEMMA SameInit == BM!Init <=> BP!Init
BY DEF BM!Blocks, BP!Blocks, BM!NoHash, BP!NoHash, BM!Idle, BP!Idle, BM!Init,
       BP!Init

(* What holds of the engine's state and of the manager's, between any two  *)
(* steps.                                                                  *)
EInv == QueueTypes /\ SInv /\ BP!IInv /\ BP!ContentInv
-----------------------------------------------------------------------------
(* The line has nobody twice, as nobody is added twice.                    *)
LEMMA LineDistinct ==
    ASSUME QueueTypes, LineInv, Line \in Seq(Seqs) PROVE Distinct(Line)
<1>1. PICK l : l = Line
  OBVIOUS
<1>2. ASSUME NEW i \in DOMAIN l, NEW j \in DOMAIN l, i < j PROVE l[i] # l[j]
  <2>1. PICK m, n \in DOMAIN arrived : m < n /\ arrived[m] = l[i] /\ arrived[n] = l[j]
    BY <1>1, <1>2 DEF LineInv, InOrder
  <2>2. m # n
    BY <2>1, LenProperties DEF QueueTypes
  <2> QED BY <2>1, <2>2 DEF LineInv, Distinct
<1>3. DOMAIN l = 1..Len(l) /\ Len(l) \in Nat
  BY <1>1, LenProperties
<1>4. ASSUME NEW i \in DOMAIN l, NEW j \in DOMAIN l, l[i] = l[j] PROVE i = j
  BY <1>2, <1>3, <1>4
<1> QED BY <1>1, <1>4 DEF Distinct

(* The queues and the batch in progress share nobody, and those in them    *)
(* have been added and are not finished.                                   *)
LEMMA LineFacts ==
    ASSUME QueueTypes, LineInv
    PROVE  /\ Ahead \in Seq(Seqs) /\ Taken \in Seq(Seqs) /\ Queues \in Seq(Seqs)
           /\ Line \in Seq(Seqs)
           /\ Distinct(Ahead) /\ Distinct(running) /\ Distinct(waiting)
           /\ \A s \in Range(Ahead) : /\ s \notin Range(Taken)
                                      /\ s \notin Range(running)
                                      /\ s \notin Range(waiting)
           /\ \A s \in Range(Taken) : s \notin Range(running) /\ s \notin Range(waiting)
           /\ \A s \in Range(running) : s \notin Range(waiting)
           /\ Active = Range(Ahead) \cup Range(Taken) \cup Range(running)
           /\ Range(Line) = Active \cup Range(waiting)
           /\ \A s \in Range(Line) :
                 s \in Seqs /\ status[s] \notin {"new", "FINISHED"}
<1>1. /\ Ahead \in Seq(Seqs) /\ Taken \in Seq(Seqs)
      /\ running \in Seq(Seqs) /\ waiting \in Seq(Seqs)
  <2>1. <<>> \in Seq(Seqs)
    BY EmptySeq
  <2>2. pc = "append" => <<cur>> \in Seq(Seqs)
    BY DEF QueueTypes
  <2> QED BY <2>1, <2>2 DEF QueueTypes, Ahead, Taken
<1>2. PICK a, p, r, w \in Seq(Seqs) : a = Ahead /\ p = Taken /\ r = running /\ w = waiting
  BY <1>1
<1>3. /\ a \o p \in Seq(Seqs) /\ r \o w \in Seq(Seqs)
      /\ (a \o p) \o (r \o w) \in Seq(Seqs) /\ (a \o p) \o r \in Seq(Seqs)
  BY <1>2, ConcatPlaces
<1>4. Line = (a \o p) \o (r \o w) /\ Queues = r \o w
  BY <1>2 DEF Line, Queues
<1>5. Distinct((a \o p) \o (r \o w))
  BY <1>3, <1>4, LineDistinct
<1>6. /\ Distinct(a \o p) /\ Distinct(r \o w)
      /\ \A s \in Range(a \o p) : s \notin Range(r \o w)
  BY <1>3, <1>5, DistinctConcat
<1>7. /\ Distinct(a) /\ \A s \in Range(a) : s \notin Range(p)
      /\ Distinct(r) /\ Distinct(w) /\ \A s \in Range(r) : s \notin Range(w)
  BY <1>6, DistinctConcat
<1>8. /\ Range(a \o p) = Range(a) \cup Range(p) /\ Range(r \o w) = Range(r) \cup Range(w)
      /\ Range((a \o p) \o (r \o w)) = Range(a \o p) \cup Range(r \o w)
      /\ Range((a \o p) \o r) = Range(a \o p) \cup Range(r)
  <2>1. Range(a \o p) = Range(a) \cup Range(p) /\ Range(r \o w) = Range(r) \cup Range(w)
    BY RangeConcat
  <2>2. PICK x, y \in Seq(Seqs) : x = a \o p /\ y = r \o w
    BY <1>3
  <2>3. Range(x \o y) = Range(x) \cup Range(y) /\ Range(x \o r) = Range(x) \cup Range(r)
    BY RangeConcat
  <2> QED BY <2>1, <2>2, <2>3
<1>9. Active = Range((a \o p) \o r)
  BY <1>2 DEF Active
<1>10. \A s \in Range(Line) : s \in Seqs /\ status[s] \notin {"new", "FINISHED"}
  <2>1. \A s \in Range(arrived) : s \in Seqs
    BY RangeOfSeq DEF QueueTypes
  <2> QED BY <2>1 DEF LineInv
<1> QED BY <1>2, <1>3, <1>4, <1>6, <1>7, <1>8, <1>9, <1>10
-----------------------------------------------------------------------------
(* Every step of the engine is a legal call of the manager, one of its own *)
(* steps, or none of its business.                                         *)
LEMMA AdmitCalls == EInv /\ Admit => BM!Next
<1> SUFFICES ASSUME EInv, Admit PROVE BM!Next
  OBVIOUS
<1>1. PICK s : s = Head(waiting)
  OBVIOUS
<1>2. /\ waiting # <<>> /\ BM!CanAllocate(s) /\ BM!BeginAllocate(s)
      /\ pc = "prefill" /\ job = BM!Idle
  BY <1>1 DEF Admit, CanAdmit, At
<1>3. s \in Seqs /\ s \in Range(waiting)
  BY <1>1, <1>2, HeadParts DEF EInv, QueueTypes
<1>4. table[s] = <<>>
  BY <1>2, <1>3 DEF EInv, SInv, TableInv, OnJob
<1>5. BM!MayBeAllocated(s)
  BY <1>2, <1>4 DEF BM!MayBeAllocated
<1> QED BY <1>2, <1>3, <1>5 DEF BM!Next

(* may_append is called for a sequence that has a table and awaits         *)
(* nothing.                                                                *)
LEMMA DecodeCalls == EInv /\ Decode => BM!Next
<1> SUFFICES ASSUME EInv, Decode PROVE BM!Next
  OBVIOUS
<1>1. pc = "append" /\ BM!CanAppend(cur) /\ BM!MayAppend(cur)
  BY DEF Decode, At
<1>2. /\ QueueTypes /\ LineInv /\ TableInv /\ cur \in Seqs
      /\ Taken = <<cur>> /\ Ahead = scheduled /\ cur \in Range(Taken)
  <2>1. Taken = <<cur>> /\ Ahead = scheduled /\ cur \in Seqs
    BY <1>1 DEF Taken, Ahead, EInv, QueueTypes
  <2> QED BY <2>1, Singleton DEF EInv, SInv
<1>3. cur \notin Range(scheduled) /\ cur \in Active
  BY <1>2, LineFacts
<1>4. table[cur] # <<>> /\ cur \notin due
  BY <1>1, <1>2, <1>3 DEF TableInv, Due
<1>5. BM!MayBeExtended(cur)
  BY <1>1, <1>4 DEF BM!MayBeExtended
<1> QED BY <1>1, <1>2, <1>5 DEF BM!Next

(* deallocate is called in preempt for a sequence not in the batch.        *)
LEMMA PreemptCalls == EInv /\ (PreemptOther \/ PreemptSelf) => BM!Next
<1> SUFFICES ASSUME EInv, PreemptOther \/ PreemptSelf PROVE BM!Next
  OBVIOUS
<1>1. PICK s : s = IF running # <<>> THEN Last(running) ELSE cur
  OBVIOUS
<1>2. pc = "append" /\ BM!BeginDeallocate(s)
  BY <1>1 DEF PreemptOther, PreemptSelf, Preempt, Release, At
<1>3. QueueTypes /\ LineInv /\ TableInv /\ Taken = <<cur>> /\ Ahead = scheduled
      /\ cur \in Seqs /\ running \in Seq(Seqs)
  BY <1>2 DEF EInv, SInv, Taken, Ahead, QueueTypes
<1>4. s \in Seqs /\ (s \in Range(running) \/ s \in Range(Taken))
  BY <1>1, <1>3, LastParts, Singleton
<1>5. s \notin Range(scheduled) /\ s \in Active
  BY <1>3, <1>4, LineFacts
<1>6. table[s] # <<>> /\ s \notin due
  BY <1>2, <1>3, <1>5 DEF TableInv, Due
<1>7. BM!MayBeReleased(s)
  BY <1>6 DEF BM!MayBeReleased
<1> QED BY <1>2, <1>4, <1>7 DEF BM!Next

(* append_token is called for a sequence whose token is due, and has room. *)
LEMMA PostprocessCalls == EInv /\ Postprocess => BM!Next
<1> SUFFICES ASSUME EInv, Postprocess PROVE BM!Next
  OBVIOUS
<1>1. PICK s : s = Head(left)
  OBVIOUS
<1>2. PICK t : pc = "post" /\ left # <<>> /\ t = drawn[s] /\ BM!AppendToken(s, t)
  BY <1>1 DEF Postprocess, At
<1>3. s \in Seqs /\ s \in Range(left) /\ t \in Tokens
  <2>1. s \in Seqs /\ s \in Range(left)
    BY <1>1, <1>2, HeadParts DEF EInv, QueueTypes
  <2> QED BY <2>1, <1>2 DEF EInv, SInv, PhaseInv
<1>4. s \in due
  BY <1>2, <1>3 DEF EInv, SInv, TableInv, Due
<1>5. s \in Range(Line)
  <2>1. s \in Range(running)
    BY <1>2, <1>3 DEF EInv, SInv, PhaseInv
  <2> QED BY <2>1, LineFacts DEF EInv, SInv
<1>6. Len(tokens[s]) < MaxLen
  <2>1. Len(tokens[s]) < promptLen[s] + MaxTokens /\ promptLen[s] + MaxTokens <= MaxLen
    BY <1>2, <1>3, <1>5 DEF EInv, SInv, LengthInv
  <2>2. Len(tokens[s]) \in Nat
    BY <1>3, LenProperties DEF EInv, BP!IInv, BP!TypeOK
  <2> QED BY <2>1, <2>2, <1>3, ManagerAssumption, EngineAssumption DEF EInv, QueueTypes
<1>7. BM!MaySample(s)
  BY <1>4, <1>6 DEF BM!MaySample
<1> QED BY <1>2, <1>3, <1>7 DEF BM!Next

(* deallocate is called in postprocess once the last token has come.       *)
LEMMA FinishCalls == EInv /\ Finish => BM!Next
<1> SUFFICES ASSUME EInv, Finish PROVE BM!Next
  OBVIOUS
<1>1. PICK s : s = Head(left)
  OBVIOUS
<1>2. pc = "finish" /\ BM!BeginDeallocate(s)
  BY <1>1 DEF Finish, Release, At
<1>3. left # <<>> /\ Distinct(left) /\ Range(left) \subseteq Range(running)
  BY <1>2 DEF EInv, SInv, PhaseInv
<1>4. s \in Seqs /\ s \in Range(left) /\ s \notin Range(Tail(left))
  BY <1>1, <1>3, HeadParts DEF EInv, QueueTypes
<1>5. s \notin due
  BY <1>2, <1>4 DEF EInv, SInv, TableInv, Due
<1>6. table[s] # <<>>
  <2>1. s \in Active
    BY <1>3, <1>4, LineFacts DEF EInv, SInv
  <2> QED BY <2>1 DEF EInv, SInv, TableInv
<1>7. BM!MayBeReleased(s)
  BY <1>5, <1>6 DEF BM!MayBeReleased
<1> QED BY <1>2, <1>4, <1>7 DEF BM!Next

(* So every step of the engine is a step of the manager or none of its.    *)
LEMMA StepCalls == EInv /\ [Next]_vars => [BM!Next]_(BM!bmVars)
<1> SUFFICES ASSUME EInv, [Next]_vars PROVE [BM!Next]_(BM!bmVars)
  OBVIOUS
<1>1. UNCHANGED bmVars => UNCHANGED BM!bmVars
  BY DEF bmVars, BM!bmVars, BM!blockVars, BM!poolVars
<1>2. CASE Admit \/ Decode \/ PreemptOther \/ PreemptSelf \/ Postprocess \/ Finish
  BY <1>2, AdmitCalls, DecodeCalls, PreemptCalls, PostprocessCalls, FinishCalls
<1>3. CASE ManagerLoop
  BY <1>3 DEF ManagerLoop, BM!Next
<1>4. CASE BeginStep \/ Admitted \/ PrefillDone \/ Take \/ DecodeDone \/ Run
           \/ RunNothing \/ EndStep
  BY <1>1, <1>4 DEF BeginStep, Admitted, PrefillDone, Take, DecodeDone, Run, RunNothing,
         EndStep
<1>5. CASE \E s \in Seqs : AddRequest(s)
  BY <1>1, <1>5 DEF AddRequest
<1>6. CASE UNCHANGED vars
  BY <1>1, <1>6 DEF vars
<1> QED BY <1>2, <1>3, <1>4, <1>5, <1>6 DEF Next, Engine

(* So the manager's own invariants hold after it.                          *)
LEMMA ManagerKept ==
    ASSUME EInv, [Next]_vars PROVE BP!IInv' /\ BP!ContentInv' /\ ~raised'
<1>1. [BP!Next]_BP!bmVars
  <2>1. BM!bmVars = BP!bmVars
    BY DEF BM!bmVars, BP!bmVars, BM!blockVars, BP!blockVars, BM!poolVars, BP!poolVars
  <2>2. UNCHANGED BM!bmVars => UNCHANGED BP!bmVars
    BY DEF BM!bmVars, BP!bmVars, BM!blockVars, BP!blockVars, BM!poolVars, BP!poolVars
  <2> QED BY <2>1, <2>2, StepCalls, SameNext
<1>2. BP!IInv'
  BY <1>1, BP!NextIInv, ManagerAssumed DEF EInv
<1>3. BP!ContentInv'
  BY <1>1, <1>2, BP!NextContent, ManagerAssumed DEF EInv
<1> QED BY <1>2, <1>3 DEF BP!ContentInv, BP!NeverRaises
-----------------------------------------------------------------------------
(* What the manager's steps do to the tables and to the calls that are due.*)
LEMMA AllocateEffect ==
    ASSUME EInv, BM!AllocateNext, ~raised', NEW s, s = job.seq
    PROVE  /\ s \in Seqs /\ job.op = "allocate" /\ job # BM!Idle
           /\ table'[s] # <<>> /\ \A r \in Seqs \ {s} : table'[r] = table[r]
           /\ tokens' = tokens
           /\ \/ job' = BM!Idle /\ due' = due \cup {s}
              \/ job'.op = "allocate" /\ job'.seq = s /\ job' # BM!Idle /\ due' = due
<1>1. /\ job \in BP!Jobs /\ table \in [Seqs -> Seq(BP!Blocks)] /\ job.op = "allocate"
      /\ \A h \in DOMAIN hashTo : hashTo[h] \in BP!Blocks
      /\ free \in Seq(BP!Blocks)
  BY DEF EInv, BP!IInv, BP!TypeOK, BM!AllocateNext
<1>2. /\ s \in Seqs /\ job # BM!Idle
      /\ job = [op |-> "allocate", seq |-> s, hash |-> job.hash, miss |-> job.miss]
  BY <1>1 DEF BP!Jobs, BM!Idle, BP!Idle
<1>3. PICK b : BM!Placed(b) /\ b \in BP!Blocks
  <2>1. BM!AllocateMiss \/ BM!AllocateHit
    BY DEF BM!AllocateNext, BM!AllocateFails, BM!Fail
  <2>2. CASE BM!AllocateMiss
    BY <2>2, <1>1, HeadParts DEF BM!AllocateMiss
  <2>3. CASE BM!AllocateHit
    BY <2>3, <1>1 DEF BM!AllocateHit, BM!Misses, BM!Hit
  <2> QED BY <2>1, <2>2, <2>3
<1>4. /\ table' = [table EXCEPT ![s] = Append(table[s], b)] /\ tokens' = tokens
      /\ \/ job' = BM!Idle /\ due' = due \cup {s}
         \/ /\ job' = [job EXCEPT !.hash = BM!NextHash, !.miss = BM!Misses]
            /\ due' = due
  BY <1>3 DEF BM!Placed, BM!Extend
<1>5. table'[s] # <<>> /\ \A r \in Seqs \ {s} : table'[r] = table[r]
  BY <1>1, <1>2, <1>3, <1>4, AppendParts
<1>6. CASE job' = [job EXCEPT !.hash = BM!NextHash, !.miss = BM!Misses] /\ due' = due
  <2>1. PICK h : h = BM!NextHash
    OBVIOUS
  <2>0. PICK m : m = BM!Misses
    OBVIOUS
  <2>5. PICK j : j = job
    OBVIOUS
  <2>6. job' = [j EXCEPT !.hash = h, !.miss = m]
    BY <1>6, <2>0, <2>1, <2>5
  <2>7. PICK x, y : j = [op |-> "allocate", seq |-> s, hash |-> x, miss |-> y]
    BY <1>2, <2>5
  <2>8. job' = [op |-> "allocate", seq |-> s, hash |-> h, miss |-> m]
    BY <2>6, <2>7
  <2>2. job'.op = "allocate" /\ job'.seq = s /\ job' # BM!Idle
    BY <2>8 DEF BM!Idle
  <2> QED BY <2>2, <1>1, <1>2, <1>4, <1>5, <1>6
<1> QED BY <1>1, <1>2, <1>4, <1>5, <1>6

(* An iteration of deallocate: the sequence loses a block.                 *)
LEMMA DeallocateEffect ==
    ASSUME EInv, BM!DeallocateNext, ~raised', NEW s, s = job.seq
    PROVE  /\ s \in Seqs /\ job.op = "deallocate" /\ job # BM!Idle
           /\ \A r \in Seqs \ {s} : table'[r] = table[r]
           /\ tokens' = tokens /\ due' = due
           /\ job' = job \/ (job' = BM!Idle /\ table'[s] = <<>>)
<1>1. /\ job \in BP!Jobs /\ table \in [Seqs -> Seq(BP!Blocks)] /\ job.op = "deallocate"
  BY DEF EInv, BP!IInv, BP!TypeOK, BM!DeallocateNext
<1>2. s \in Seqs /\ job # BM!Idle
  BY <1>1 DEF BP!Jobs, BM!Idle, BP!Idle
<1>3. /\ table' = [table EXCEPT ![s] = BM!Front(table[s])]
      /\ IF Len(table[s]) = 1 THEN job' = BM!Idle ELSE job' = job
      /\ tokens' = tokens /\ due' = due
  BY DEF BM!DeallocateNext, BM!Fail
<1>4. ASSUME Len(table[s]) = 1 PROVE BM!Front(table[s]) = <<>>
  <2>1. BM!Front(table[s]) = SubSeq(table[s], 1, 0)
    BY <1>4 DEF BM!Front
  <2> QED BY <2>1, SubSeqEmpty
<1> QED BY <1>1, <1>2, <1>3, <1>4

(* may_append: the sequence keeps its table, which may be longer.          *)
LEMMA MayAppendEffect ==
    ASSUME EInv, NEW s \in Seqs, BM!MayAppend(s), ~raised', table[s] # <<>>
    PROVE  /\ table'[s] # <<>> /\ \A r \in Seqs \ {s} : table'[r] = table[r]
           /\ tokens' = tokens /\ job' = job /\ due' = due \cup {s}
<1>1. table \in [Seqs -> Seq(BP!Blocks)] /\ free \in Seq(BP!Blocks)
  BY DEF EInv, BP!IInv, BP!TypeOK
<1>2. /\ BM!OpenBlock(s) \/ BM!SealBlock(s) \/ BM!StayInBlock(s)
      /\ tokens' = tokens /\ job' = job /\ due' = due \cup {s}
  BY DEF BM!MayAppend, BM!Fail
<1>3. CASE BM!OpenBlock(s)
  <2>1. free # <<>> /\ table' = [table EXCEPT ![s] = Append(table[s], Head(free))]
    BY <1>3 DEF BM!OpenBlock, BM!Extend
  <2>2. Head(free) \in BP!Blocks
    BY <1>1, <2>1, HeadParts
  <2> QED BY <1>1, <1>2, <2>1, <2>2, AppendParts
<1>4. CASE BM!SealBlock(s) \/ BM!StayInBlock(s)
  <2>1. table' = table
    BY <1>4 DEF BM!SealBlock, BM!StayInBlock
  <2> QED BY <1>2, <2>1
<1> QED BY <1>2, <1>3, <1>4
-----------------------------------------------------------------------------
(* A step that leaves the line as it is, and finishes and adds nobody.     *)
LEMMA LineKept ==
    ASSUME QueueTypes, LineInv, Line' = Line, arrived' = arrived,
           \A s \in Seqs : /\ status'[s] = "new" <=> status[s] = "new"
                           /\ status'[s] = "FINISHED" <=> status[s] = "FINISHED"
    PROVE  LineInv'
<1>1. Range(arrived) \subseteq Seqs
  BY RangeOfSeq DEF QueueTypes
<1>2. InOrder(Line)'
  BY DEF LineInv, InOrder
<1> HIDE DEF Line
<1> QED BY <1>1, <1>2 DEF LineInv

(* A step that grows, adds and finishes nobody keeps the lengths in        *)
(* bounds.                                                                 *)
LEMMA LengthKept ==
    ASSUME QueueTypes, LengthInv, Range(Line') \subseteq Range(Line),
           tokens' = tokens, promptLen' = promptLen,
           \A s \in Seqs : status'[s] = "new" => status[s] = "new",
           pc # "finish"
    PROVE  LengthInv'
<1> HIDE DEF Line
<1> QED BY DEF LengthInv
-----------------------------------------------------------------------------
(* What the invariant is made of.                                          *)
LEMMA Parts ==
    ASSUME EInv
    PROVE  /\ QueueTypes /\ LineInv /\ PhaseInv /\ TableInv /\ LengthInv /\ ~raised
           /\ job \in BP!Jobs /\ due \in SUBSET Seqs
           /\ tokens \in [Seqs -> Seq(Tokens)] /\ table \in [Seqs -> Seq(BP!Blocks)]
           /\ \A s \in Seqs : Len(tokens[s]) \in Nat
           /\ BM!Idle.op = "idle"
<1>1. /\ job \in BP!Jobs /\ due \in SUBSET Seqs
      /\ tokens \in [Seqs -> Seq(Tokens)] /\ table \in [Seqs -> Seq(BP!Blocks)]
  BY DEF EInv, BP!IInv, BP!TypeOK
<1>2. \A s \in Seqs : Len(tokens[s]) \in Nat
  BY <1>1, LenProperties
<1>3. BM!Idle.op = "idle"
  BY DEF BM!Idle
<1> QED BY <1>1, <1>2, <1>3 DEF EInv, SInv, BP!ContentInv, BP!NeverRaises

(* Outside the decode loop the line is the two queues.                     *)
LEMMA NobodyAhead ==
    ASSUME NEW S, NEW r \in Seq(S), NEW w \in Seq(S)
    PROVE  (<<>> \o <<>>) \o (r \o w) = r \o w /\ (<<>> \o <<>>) \o r = r
<1>1. <<>> \in Seq(S) /\ r \o w \in Seq(S)
  BY EmptySeq, ConcatProperties
<1>2. <<>> \o <<>> = <<>>
  BY <1>1, ConcatEmptySeq
<1> QED BY <1>1, <1>2, ConcatEmptySeq

(* The entries of a line come in the order of another.                     *)
Follows(line, order) ==
    \A i, j \in DOMAIN line : i < j =>
        \E k, m \in DOMAIN order : k < m /\ order[k] = line[i] /\ order[m] = line[j]

(* The line is in order of arrival, in these words.                        *)
LEMMA InOrderFollows == InOrder(Line) => Follows(Line, arrived)
BY DEF InOrder, Follows

(* Who is last in both orders may be added to both.                        *)
LEMMA OrderAppend ==
    ASSUME NEW S, NEW l \in Seq(S), NEW a \in Seq(S), NEW s \in S,
           Follows(l, a), Range(l) \subseteq Range(a)
    PROVE  Follows(Append(l, s), Append(a, s))
<1>1. /\ Len(a) \in Nat /\ DOMAIN a = 1..Len(a)
      /\ DOMAIN Append(a, s) = 1..(Len(a) + 1)
      /\ \A k \in DOMAIN a : Append(a, s)[k] = a[k]
      /\ Append(a, s)[Len(a) + 1] = s
  BY LenProperties, AppendProperties
<1>2. /\ Len(l) \in Nat /\ DOMAIN l = 1..Len(l)
      /\ DOMAIN Append(l, s) = 1..(Len(l) + 1)
      /\ \A k \in DOMAIN l : Append(l, s)[k] = l[k]
      /\ Append(l, s)[Len(l) + 1] = s
  BY LenProperties, AppendProperties
<1>3. PICK x, y : x = Append(l, s) /\ y = Append(a, s)
  OBVIOUS
<1>4. ASSUME NEW i \in DOMAIN x, NEW j \in DOMAIN x, i < j
      PROVE  \E m, n \in DOMAIN y : m < n /\ y[m] = x[i] /\ y[n] = x[j]
  <2>1. CASE j \in DOMAIN l
    <3>1. i \in DOMAIN l
      BY <1>2, <1>3, <1>4, <2>1
    <3>2. PICK m, n \in DOMAIN a : m < n /\ a[m] = l[i] /\ a[n] = l[j]
      BY <3>1, <2>1, <1>4 DEF Follows
    <3>3. m \in DOMAIN y /\ n \in DOMAIN y
      BY <1>1, <1>3
    <3> QED BY <3>1, <3>2, <3>3, <2>1, <1>1, <1>2, <1>3
  <2>2. CASE j \notin DOMAIN l
    <3>1. j = Len(l) + 1 /\ i \in DOMAIN l
      BY <1>2, <1>3, <1>4, <2>2
    <3>2. PICK m \in DOMAIN a : a[m] = l[i]
      BY <3>1 DEF Range
    <3>3. m \in DOMAIN y /\ Len(a) + 1 \in DOMAIN y /\ m < Len(a) + 1
      BY <1>1, <1>3
    <3> QED BY <3>1, <3>2, <3>3, <1>1, <1>2, <1>3
  <2> QED BY <2>1, <2>2
<1> QED BY <1>3, <1>4 DEF Follows

(* A new request: last to arrive, and last of the waiting.                 *)
LEMMA AddRequestKeeps ==
    ASSUME EInv, NEW s \in Seqs, AddRequest(s) PROVE QueueTypes' /\ SInv'
<1>1. /\ QueueTypes /\ LineInv /\ PhaseInv /\ TableInv /\ LengthInv
      /\ \A r \in Seqs : Len(tokens[r]) \in Nat
  BY Parts
<1>2. /\ pc = "idle" /\ pc' = "idle" /\ job = BM!Idle /\ job' = job /\ status[s] = "new"
      /\ status' = [status EXCEPT ![s] = "WAITING"]
      /\ waiting' = Append(waiting, s) /\ arrived' = Append(arrived, s)
      /\ running' = running /\ scheduled' = scheduled /\ left' = left /\ cur' = cur
      /\ promptLen' = promptLen /\ tokens' = tokens /\ table' = table /\ due' = due
  BY DEF AddRequest, At, bmVars, batchVars
<1>3. /\ waiting' \in Seq(Seqs) /\ Range(waiting') = Range(waiting) \cup {s}
      /\ arrived' \in Seq(Seqs) /\ Range(arrived') = Range(arrived) \cup {s}
  BY <1>1, <1>2, AppendParts DEF QueueTypes
<1>4. QueueTypes'
  BY <1>1, <1>2, <1>3 DEF QueueTypes
<1>5. Ahead = <<>> /\ Ahead' = <<>> /\ Taken = <<>> /\ Taken' = <<>>
  BY <1>2 DEF Ahead, Taken
<1>6. PICK l \in Seq(Seqs) : l = running \o waiting /\ Line = l /\ Line' = Append(l, s)
  <2>1. PICK r, w \in Seq(Seqs) : r = running /\ w = waiting
    BY <1>1 DEF QueueTypes
  <2>2. Line = r \o w /\ Line' = r \o Append(w, s)
    <3>1. Append(w, s) \in Seq(Seqs)
      BY AppendParts
    <3> QED BY <1>2, <1>5, <2>1, <3>1, NobodyAhead DEF Line, Queues
  <2>3. r \o Append(w, s) = Append(r \o w, s)
    <3>1. PICK e \in Seq(Seqs) : e = <<s>>
      BY Singleton
    <3>2. r \o (w \o e) = (r \o w) \o e /\ r \o w \in Seq(Seqs)
      BY ConcatAssociative, ConcatProperties
    <3>3. Append(w, s) = w \o e /\ Append(r \o w, s) = (r \o w) \o e
      BY <3>1, <3>2, AppendIsConcat
    <3> QED BY <3>2, <3>3
  <2>4. r \o w \in Seq(Seqs)
    BY ConcatProperties
  <2> QED BY <2>1, <2>2, <2>3, <2>4
<1>7. Range(Line') = Range(Line) \cup {s}
  <2>1. Range(Append(l, s)) = Range(l) \cup {s}
    BY AppendParts
  <2> QED BY <2>1, <1>6
<1>8. s \notin Range(arrived) /\ Range(arrived) \subseteq Seqs
  BY <1>1, <1>2, RangeOfSeq DEF LineInv, QueueTypes
<1>9. Active' = Active
  BY <1>2, <1>5 DEF Active
<1>10. LineInv'
  <2>1. Distinct(arrived')
    BY <1>1, <1>2, <1>8, AppendParts DEF LineInv, QueueTypes
  <2>2. \A r \in Seqs : r \in Range(arrived') <=> status'[r] # "new"
    BY <1>1, <1>2, <1>3 DEF LineInv, QueueTypes
  <2>3. Range(Line') = {r \in Range(arrived') : status'[r] # "FINISHED"}
    BY <1>1, <1>2, <1>3, <1>7, <1>8 DEF LineInv, QueueTypes
  <2>4. Follows(l, arrived) /\ Range(l) \subseteq Range(arrived) /\ arrived \in Seq(Seqs)
    BY <1>1, <1>6, InOrderFollows DEF LineInv, QueueTypes
  <2>5. Follows(Line', arrived')
    BY <2>4, <1>2, <1>6, OrderAppend
  <2>6. InOrder(Line)'
    BY <2>5 DEF InOrder, Follows
  <2> QED BY <2>1, <2>2, <2>3, <2>6 DEF LineInv
<1>11. PhaseInv'
  BY <1>2 DEF PhaseInv
<1>12. TableInv'
  BY <1>1, <1>2, <1>3, <1>9 DEF TableInv, Due, OnJob, QueueTypes
<1>13. LengthInv'
  <2>1. Len(tokens[s]) < promptLen[s] + MaxTokens
    BY <1>1, <1>2, EngineAssumption DEF LengthInv, QueueTypes
  <2> QED BY <2>1, <1>1, <1>2, <1>7 DEF LengthInv, QueueTypes
<1> QED BY <1>4, <1>10, <1>11, <1>12, <1>13 DEF SInv
-----------------------------------------------------------------------------
(* The steps that leave the queues alone.                                  *)
LEMMA SameQueues ==
    ASSUME EInv, running' = running, waiting' = waiting, arrived' = arrived,
           status' = status, promptLen' = promptLen, tokens' = tokens,
           Ahead' = Ahead, Taken' = Taken, pc # "finish"
    PROVE  LineInv' /\ LengthInv' /\ Active' = Active
<1>1. QueueTypes /\ LineInv /\ LengthInv
  BY Parts
<1>2. Line' = Line /\ Active' = Active
  BY DEF Line, Queues, Active
<1> HIDE DEF Line
<1> QED BY <1>1, <1>2, LineKept, LengthKept

(* step() begins with an empty batch.                                      *)
LEMMA BeginStepKeeps == ASSUME EInv, BeginStep PROVE QueueTypes' /\ SInv'
<1>1. /\ QueueTypes /\ LineInv /\ PhaseInv /\ TableInv /\ LengthInv
  BY Parts
<1>2. /\ pc = "idle" /\ pc' = "prefill" /\ job = BM!Idle /\ job' = job
      /\ status' = status /\ waiting' = waiting /\ arrived' = arrived
      /\ running' = running /\ scheduled' = <<>> /\ left' = left /\ cur' = cur
      /\ promptLen' = promptLen /\ tokens' = tokens /\ table' = table /\ due' = due
  BY DEF BeginStep, At, bmVars, queueVars, fixedVars
<1>3. QueueTypes'
  BY <1>1, <1>2, EmptySeq DEF QueueTypes, PCs
<1>4. Ahead' = Ahead /\ Taken' = Taken
  BY <1>2 DEF Ahead, Taken
<1>5. LineInv' /\ LengthInv' /\ Active' = Active
  BY <1>2, <1>4, SameQueues
<1>6. PhaseInv'
  BY <1>2, EmptyRange DEF PhaseInv
<1>7. TableInv'
  BY <1>1, <1>2, <1>5, EmptyRange DEF TableInv, Due, OnJob
<1> QED BY <1>3, <1>5, <1>6, <1>7 DEF SInv

(* A prefill is admitted: its blocks are being allocated.                  *)
LEMMA AdmitKeeps == ASSUME EInv, Admit, ~raised' PROVE QueueTypes' /\ SInv'
<1>1. /\ QueueTypes /\ LineInv /\ PhaseInv /\ TableInv /\ LengthInv
      /\ BM!Idle.op = "idle"
  BY Parts
<1>2. /\ pc = "prefill" /\ pc' = "admit" /\ job = BM!Idle /\ waiting # <<>>
      /\ status' = status /\ waiting' = waiting /\ arrived' = arrived
      /\ running' = running /\ scheduled' = scheduled /\ left' = left /\ cur' = cur
      /\ promptLen' = promptLen
  BY DEF Admit, At, CanAdmit, batchVars, queueVars, fixedVars
<1>3. PICK s, h, m : s = Head(waiting) /\ h = BM!NoHash /\ m = FALSE
  OBVIOUS
<1>4. /\ job' = [op |-> "allocate", seq |-> s, hash |-> h, miss |-> m]
      /\ table[s] = <<>> /\ tokens' = tokens /\ table' = table /\ due' = due
  BY <1>3 DEF Admit, BM!BeginAllocate, BM!Fail
<1>5. job'.op = "allocate" /\ job'.seq = s /\ job' # BM!Idle
  BY <1>4 DEF BM!Idle
<1>6. QueueTypes'
  BY <1>1, <1>2 DEF QueueTypes, PCs
<1>7. Ahead' = Ahead /\ Taken' = Taken
  BY <1>2 DEF Ahead, Taken
<1>8. LineInv' /\ LengthInv' /\ Active' = Active
  BY <1>2, <1>4, <1>7, SameQueues
<1>9. PhaseInv'
  BY <1>1, <1>2 DEF PhaseInv
<1>10. TableInv'
  <2>1. s \in Range(waiting) /\ s \in Seqs
    BY <1>1, <1>2, <1>3, HeadParts DEF QueueTypes
  <2>2. s \notin Active /\ status[s] # "new"
    BY <2>1, <1>1, LineFacts
  <2> QED BY <2>1, <2>2, <1>1, <1>2, <1>3, <1>4, <1>5, <1>8 DEF TableInv, Due, OnJob
<1> QED BY <1>6, <1>8, <1>9, <1>10 DEF SInv

(* The prefill loop ends, with a batch or with none.                       *)
LEMMA PrefillDoneKeeps == ASSUME EInv, PrefillDone PROVE QueueTypes' /\ SInv'
<1>1. /\ QueueTypes /\ LineInv /\ PhaseInv /\ TableInv /\ LengthInv
  BY Parts
<1>2. /\ pc = "prefill" /\ job = BM!Idle /\ job' = job
      /\ pc' = IF scheduled # <<>> THEN "run" ELSE "decode"
      /\ status' = status /\ waiting' = waiting /\ arrived' = arrived
      /\ running' = running /\ scheduled' = scheduled /\ left' = left /\ cur' = cur
      /\ promptLen' = promptLen /\ tokens' = tokens /\ table' = table /\ due' = due
  BY DEF PrefillDone, At, bmVars, queueVars, fixedVars
<1>3. QueueTypes'
  BY <1>1, <1>2 DEF QueueTypes, PCs
<1>4. Ahead' = Ahead /\ Taken' = Taken
  BY <1>2 DEF Ahead, Taken
<1>5. LineInv' /\ LengthInv' /\ Active' = Active
  BY <1>2, <1>4, SameQueues
<1>6. PhaseInv'
  BY <1>1, <1>2 DEF PhaseInv
<1>7. TableInv'
  BY <1>1, <1>2, <1>5 DEF TableInv, Due, OnJob
<1> QED BY <1>3, <1>5, <1>6, <1>7 DEF SInv

(* The model runs: everyone in the batch is left for postprocess.          *)
LEMMA RunKeeps == ASSUME EInv, Run PROVE QueueTypes' /\ SInv'
<1>1. /\ QueueTypes /\ LineInv /\ PhaseInv /\ TableInv /\ LengthInv
  BY Parts
<1>2. /\ pc = "run" /\ pc' = "post" /\ job = BM!Idle /\ job' = job
      /\ status' = status /\ waiting' = waiting /\ arrived' = arrived
      /\ running' = running /\ scheduled' = scheduled /\ left' = scheduled /\ cur' = cur
      /\ promptLen' = promptLen /\ tokens' = tokens /\ table' = table /\ due' = due
  BY DEF Run, At, bmVars, queueVars, fixedVars
<1>3. QueueTypes'
  BY <1>1, <1>2 DEF QueueTypes, PCs
<1>4. Ahead' = Ahead /\ Taken' = Taken
  BY <1>2 DEF Ahead, Taken
<1>5. LineInv' /\ LengthInv' /\ Active' = Active
  BY <1>2, <1>4, SameQueues
<1>6. PhaseInv'
  <2>1. \A r \in Range(scheduled) : drawn'[r] \in Tokens
    BY DEF Run, Batch
  <2> QED BY <2>1, <1>1, <1>2 DEF PhaseInv
<1>7. TableInv'
  BY <1>1, <1>2, <1>5 DEF TableInv, Due, OnJob
<1> QED BY <1>3, <1>5, <1>6, <1>7 DEF SInv

(* It stops, with its batch, where everything is cached.                   *)
LEMMA RunNothingKeeps == ASSUME EInv, RunNothing PROVE QueueTypes' /\ SInv'
<1>1. /\ QueueTypes /\ LineInv /\ PhaseInv /\ TableInv /\ LengthInv
  BY Parts
<1>2. /\ pc = "run" /\ pc' = "nothing to run" /\ job = BM!Idle /\ job' = job
      /\ status' = status /\ waiting' = waiting /\ arrived' = arrived
      /\ running' = running /\ scheduled' = scheduled /\ left' = left /\ cur' = cur
      /\ promptLen' = promptLen /\ tokens' = tokens /\ table' = table /\ due' = due
  BY DEF RunNothing, At, bmVars, queueVars, batchVars, fixedVars
<1>3. QueueTypes'
  BY <1>1, <1>2 DEF QueueTypes, PCs
<1>4. Ahead' = Ahead /\ Taken' = Taken
  BY <1>2 DEF Ahead, Taken
<1>5. LineInv' /\ LengthInv' /\ Active' = Active
  BY <1>2, <1>4, SameQueues
<1>6. PhaseInv'
  BY <1>1, <1>2 DEF PhaseInv
<1>7. TableInv'
  BY <1>1, <1>2, <1>5 DEF TableInv, Due, OnJob
<1> QED BY <1>3, <1>5, <1>6, <1>7 DEF SInv

(* postprocess has seen everyone: no token is due.                         *)
LEMMA EndStepKeeps == ASSUME EInv, EndStep PROVE QueueTypes' /\ SInv'
<1>1. /\ QueueTypes /\ LineInv /\ PhaseInv /\ TableInv /\ LengthInv
  BY Parts
<1>2. /\ pc = "post" /\ pc' = "idle" /\ job = BM!Idle /\ job' = job /\ left = <<>>
      /\ status' = status /\ waiting' = waiting /\ arrived' = arrived
      /\ running' = running /\ scheduled' = scheduled /\ left' = left /\ cur' = cur
      /\ promptLen' = promptLen /\ tokens' = tokens /\ table' = table /\ due' = due
  BY DEF EndStep, At, bmVars, queueVars, fixedVars, batchVars
<1>3. QueueTypes'
  BY <1>1, <1>2 DEF QueueTypes, PCs
<1>4. Ahead' = Ahead /\ Taken' = Taken
  BY <1>2 DEF Ahead, Taken
<1>5. LineInv' /\ LengthInv' /\ Active' = Active
  BY <1>2, <1>4, SameQueues
<1>6. PhaseInv'
  BY <1>2 DEF PhaseInv
<1>7. TableInv'
  BY <1>1, <1>2, <1>5, EmptyRange, Parts DEF TableInv, Due, OnJob
<1> QED BY <1>3, <1>5, <1>6, <1>7 DEF SInv
-----------------------------------------------------------------------------
(* The steps that move a sequence from one queue to another.               *)
LEMMA SameLine ==
    ASSUME EInv, Line' = Line, arrived' = arrived, promptLen' = promptLen,
           tokens' = tokens, pc # "finish",
           \A s \in Seqs : /\ status'[s] = "new" <=> status[s] = "new"
                           /\ status'[s] = "FINISHED" <=> status[s] = "FINISHED"
    PROVE  LineInv' /\ LengthInv'
<1>1. QueueTypes /\ LineInv /\ LengthInv
  BY Parts
<1> HIDE DEF Line
<1> QED BY <1>1, LineKept, LengthKept

(* The head of one queue goes to the end of the other.                     *)
LEMMA HeadMoves ==
    ASSUME NEW S, NEW r \in Seq(S), NEW w \in Seq(S), w # <<>>
    PROVE  Append(r, Head(w)) \o Tail(w) = r \o w
<1>1. Head(w) \in S /\ Tail(w) \in Seq(S) /\ w = <<Head(w)>> \o Tail(w)
  BY HeadFirst, Zenon
<1>2. PICK e \in Seq(S) : e = <<Head(w)>>
  BY <1>1, Singleton
<1>3. Append(r, Head(w)) = r \o e
  BY <1>1, <1>2, AppendIsConcat
<1>4. (r \o e) \o Tail(w) = r \o (e \o Tail(w))
  BY <1>1, ConcatAssociative
<1> QED BY <1>1, <1>2, <1>3, <1>4

(* The admitted sequence moves from the head of waiting to the end of      *)
(* running.                                                                *)
LEMMA AdmittedKeeps == ASSUME EInv, Admitted PROVE QueueTypes' /\ SInv'
<1>1. /\ QueueTypes /\ LineInv /\ PhaseInv /\ TableInv /\ LengthInv
      /\ BM!Idle.op = "idle"
  BY Parts
<1>2. PICK s : s = Head(waiting)
  OBVIOUS
<1>3. /\ pc = "admit" /\ pc' = "prefill" /\ job = BM!Idle /\ job' = job /\ waiting # <<>>
      /\ status' = [status EXCEPT ![s] = "RUNNING"] /\ arrived' = arrived
      /\ waiting' = Tail(waiting) /\ running' = Append(running, s)
      /\ scheduled' = Append(scheduled, s) /\ left' = left /\ cur' = cur
      /\ promptLen' = promptLen /\ tokens' = tokens /\ table' = table /\ due' = due
  BY <1>1, <1>2 DEF Admitted, At, bmVars, fixedVars, PhaseInv
<1>4. /\ s \in Seqs /\ s \in Range(waiting)
      /\ waiting' \in Seq(Seqs) /\ Range(waiting) = Range(waiting') \cup {s}
      /\ s \notin Range(waiting')
  BY <1>1, <1>2, <1>3, HeadParts, LineFacts DEF QueueTypes
<1>5. /\ running' \in Seq(Seqs) /\ Range(running') = Range(running) \cup {s}
      /\ scheduled' \in Seq(Seqs) /\ Range(scheduled') = Range(scheduled) \cup {s}
  BY <1>1, <1>3, <1>4, AppendParts DEF QueueTypes
<1>6. QueueTypes'
  BY <1>1, <1>3, <1>4, <1>5 DEF QueueTypes, PCs
<1>7. Ahead = <<>> /\ Ahead' = <<>> /\ Taken = <<>> /\ Taken' = <<>>
  BY <1>3 DEF Ahead, Taken
<1>8. Line' = Line
  <2>1. Append(running, s) \o Tail(waiting) = running \o waiting
    BY <1>1, <1>2, <1>3, HeadMoves DEF QueueTypes
  <2> QED BY <2>1, <1>3, <1>7 DEF Line, Queues
<1>9. /\ status[s] \notin {"new", "FINISHED"} /\ s \notin Range(running)
      /\ Active = Range(running)
  <2>1. Active = Range((<<>> \o <<>>) \o running)
    BY <1>7 DEF Active
  <2>2. (<<>> \o <<>>) \o running = running
    BY <1>1, NobodyAhead DEF QueueTypes
  <2> QED BY <2>1, <2>2, <1>1, <1>4, LineFacts
<1>10. Active' = Range(running')
  <2>1. Active' = Range((<<>> \o <<>>) \o running')
    BY <1>7 DEF Active
  <2>2. (<<>> \o <<>>) \o running' = running'
    BY <1>5, NobodyAhead
  <2> QED BY <2>1, <2>2
<1>11. LineInv' /\ LengthInv'
  <2> HIDE DEF Line
  <2>1. \A r \in Seqs : /\ status'[r] = "new" <=> status[r] = "new"
                        /\ status'[r] = "FINISHED" <=> status[r] = "FINISHED"
    BY <1>1, <1>3, <1>9 DEF QueueTypes
  <2> QED BY <2>1, <1>3, <1>8, SameLine
<1>12. PhaseInv'
  <2>1. s \notin Range(scheduled) /\ Distinct(scheduled)
    BY <1>1, <1>3, <1>9 DEF PhaseInv
  <2>2. Distinct(scheduled')
    BY <2>1, <1>1, <1>3, <1>4, AppendParts DEF QueueTypes
  <2> QED BY <2>2, <1>1, <1>3, <1>5 DEF PhaseInv
<1>13. TableInv'
  <2>1. due' = Due'
    BY <1>1, <1>2, <1>3, <1>5 DEF TableInv, Due
  <2>2. \A r \in Active' : table'[r] # <<>> /\ ~OnJob(r)'
    BY <1>1, <1>2, <1>3, <1>4, <1>5, <1>9, <1>10 DEF TableInv, OnJob
  <2>3. \A r \in Range(waiting') : table'[r] = <<>>
    BY <1>1, <1>2, <1>3, <1>4 DEF TableInv, OnJob
  <2>4. \A r \in Seqs : status'[r] = "new" => table'[r] = <<>> /\ ~OnJob(r)'
    BY <1>1, <1>3, <1>4 DEF TableInv, OnJob, QueueTypes
  <2> QED BY <2>1, <2>2, <2>3, <2>4, <1>1, <1>3 DEF TableInv
<1> QED BY <1>6, <1>11, <1>12, <1>13 DEF SInv
-----------------------------------------------------------------------------
(* The line, wherever the sequence at hand is kept.                        *)
LEMMA Regroup ==
    ASSUME NEW S, NEW a \in Seq(S), NEW e \in Seq(S), NEW q \in Seq(S), NEW w \in Seq(S)
    PROVE  (a \o e) \o (q \o w) = (a \o <<>>) \o ((e \o q) \o w)
<1>1. (e \o q) \o w = e \o (q \o w)
  BY ConcatAssociative
<1>2. PICK z \in Seq(S) : z = q \o w
  BY ConcatProperties
<1>3. (a \o e) \o z = a \o (e \o z)
  BY ConcatAssociative, SMTT(60)
<1>4. a \o <<>> = a
  BY ConcatEmptySeq
<1> QED BY <1>1, <1>2, <1>3, <1>4

(* ... taken from the head of running, ...                                 *)
LEMMA TakeLine ==
    ASSUME NEW S, NEW a \in Seq(S), NEW r \in Seq(S), NEW w \in Seq(S), r # <<>>
    PROVE  (a \o <<Head(r)>>) \o (Tail(r) \o w) = (a \o <<>>) \o (r \o w)
<1>1. Head(r) \in S /\ Tail(r) \in Seq(S) /\ r = <<Head(r)>> \o Tail(r)
  BY HeadFirst, Zenon
<1>2. PICK e \in Seq(S) : e = <<Head(r)>>
  BY <1>1, Singleton
<1>3. PICK q \in Seq(S) : q = Tail(r)
  BY <1>1
<1>4. r = e \o q
  BY <1>1, <1>2, <1>3
<1>5. (a \o e) \o (q \o w) = (a \o <<>>) \o ((e \o q) \o w)
  BY Regroup, SMTT(60)
<1> QED BY <1>2, <1>3, <1>4, <1>5

(* ... added to the batch, ...                                             *)
LEMMA BatchLine ==
    ASSUME NEW S, NEW a \in Seq(S), NEW e \in S, NEW q \in Seq(S)
    PROVE  (Append(a, e) \o <<>>) \o q = (a \o <<e>>) \o q
<1>1. PICK d \in Seq(S) : d = <<e>>
  BY Singleton
<1>2. Append(a, e) = a \o d /\ a \o d \in Seq(S)
  BY <1>1, AppendIsConcat, ConcatProperties
<1>3. (a \o d) \o <<>> = a \o d
  BY <1>2, ConcatEmptySeq
<1> QED BY <1>1, <1>2, <1>3

(* ... preempted from the end of running, ...                              *)
LEMMA YoungestLine ==
    ASSUME NEW S, NEW r \in Seq(S), NEW w \in Seq(S), r # <<>>
    PROVE  Front(r) \o (<<Last(r)>> \o w) = r \o w
<1>1. Last(r) \in S /\ Front(r) \in Seq(S) /\ r = Front(r) \o <<Last(r)>>
  BY LastLast, Zenon
<1>2. PICK e \in Seq(S) : e = <<Last(r)>>
  BY <1>1, Singleton
<1>3. PICK q \in Seq(S) : q = Front(r)
  BY <1>1
<1>4. q \o (e \o w) = (q \o e) \o w
  BY ConcatAssociative
<1> QED BY <1>1, <1>2, <1>3, <1>4

(* ... preempted itself, ...                                               *)
LEMMA OwnLine ==
    ASSUME NEW S, NEW a \in Seq(S), NEW e \in S, NEW w \in Seq(S)
    PROVE  (a \o <<>>) \o (<<>> \o (<<e>> \o w)) = (a \o <<e>>) \o (<<>> \o w)
<1>1. PICK d \in Seq(S) : d = <<e>>
  BY Singleton
<1>2. d \o w \in Seq(S)
  BY ConcatProperties
<1>3. a \o <<>> = a /\ <<>> \o w = w /\ <<>> \o (d \o w) = d \o w
  BY <1>2, ConcatEmptySeq
<1>4. a \o (d \o w) = (a \o d) \o w
  BY ConcatAssociative
<1> QED BY <1>1, <1>3, <1>4

(* ... or put back in front of running, with the whole batch.              *)
LEMMA DoneLine ==
    ASSUME NEW S, NEW a \in Seq(S), NEW r \in Seq(S), NEW w \in Seq(S)
    PROVE  (<<>> \o <<>>) \o ((a \o r) \o w) = (a \o <<>>) \o (r \o w)
<1>1. a \o r \in Seq(S)
  BY ConcatProperties
<1>2. (<<>> \o <<>>) \o ((a \o r) \o w) = (a \o r) \o w
  BY <1>1, NobodyAhead
<1>3. a \o <<>> = a
  BY ConcatEmptySeq
<1>4. (a \o r) \o w = a \o (r \o w)
  BY ConcatAssociative
<1> QED BY <1>2, <1>3, <1>4

(* Who is at hand or running.                                              *)
LEMMA ActiveParts ==
    ASSUME NEW S, NEW a \in Seq(S), NEW p \in Seq(S), NEW r \in Seq(S)
    PROVE  Range((a \o p) \o r) = Range(a) \cup Range(p) \cup Range(r)
<1>1. PICK x \in Seq(S) : x = a \o p
  BY ConcatProperties
<1>2. Range(x) = Range(a) \cup Range(p)
  BY <1>1, RangeConcat
<1>3. Range(x \o r) = Range(x) \cup Range(r)
  BY RangeConcat
<1> QED BY <1>1, <1>2, <1>3

(* The decode loop takes the head of running.                              *)
LEMMA TakeKeeps == ASSUME EInv, Take PROVE QueueTypes' /\ SInv'
<1>1. /\ QueueTypes /\ LineInv /\ PhaseInv /\ TableInv /\ LengthInv
      /\ BM!Idle.op = "idle"
  BY Parts
<1>2. PICK s : s = Head(running)
  OBVIOUS
<1>3. /\ pc = "decode" /\ pc' = "append" /\ job = BM!Idle /\ job' = job /\ running # <<>>
      /\ status' = status /\ waiting' = waiting /\ arrived' = arrived
      /\ running' = Tail(running) /\ scheduled' = scheduled /\ left' = left /\ cur' = s
      /\ promptLen' = promptLen /\ tokens' = tokens /\ table' = table /\ due' = due
  BY <1>2 DEF Take, At, CanTake, bmVars, fixedVars
<1>4. /\ s \in Seqs /\ running' \in Seq(Seqs) /\ Range(running) = Range(running') \cup {s}
  BY <1>1, <1>2, <1>3, HeadParts DEF QueueTypes
<1>5. QueueTypes'
  BY <1>1, <1>3, <1>4 DEF QueueTypes, PCs
<1>6. /\ Ahead = scheduled /\ Ahead' = scheduled /\ Taken = <<>> /\ Taken' = <<s>>
      /\ <<>> \in Seq(Seqs) /\ <<s>> \in Seq(Seqs) /\ Range(<<s>>) = {s}
  BY <1>3, <1>4, Singleton, EmptySeq DEF Ahead, Taken
<1>7. Line' = Line
  <2>1. (scheduled \o <<s>>) \o (Tail(running) \o waiting)
            = (scheduled \o <<>>) \o (running \o waiting)
    <3>1. PICK a, r, w \in Seq(Seqs) : a = scheduled /\ r = running /\ w = waiting
      BY <1>1 DEF QueueTypes
    <3>2. (a \o <<Head(r)>>) \o (Tail(r) \o w) = (a \o <<>>) \o (r \o w)
      BY <1>3, <3>1, TakeLine
    <3> QED BY <3>1, <3>2, <1>2
  <2> QED BY <2>1, <1>3, <1>6 DEF Line, Queues
<1>8. Active' = Active
  <2>1. Active = Range(scheduled) \cup Range(<<>>) \cup Range(running)
    BY <1>1, <1>6, LineFacts
  <2>2. Active' = Range(scheduled) \cup Range(<<s>>) \cup Range(running')
    <3>1. PICK a, p, r \in Seq(Seqs) : a = scheduled /\ p = <<s>> /\ r = running'
      BY <1>1, <1>4, <1>6 DEF QueueTypes
    <3>2. Active' = Range((a \o p) \o r)
      BY <1>6, <3>1 DEF Active
    <3>3. Range((a \o p) \o r) = Range(a) \cup Range(p) \cup Range(r)
      BY ActiveParts
    <3> QED BY <3>1, <3>2, <3>3
  <2> QED BY <2>1, <2>2, <1>4, <1>6, EmptyRange
<1>9. LineInv' /\ LengthInv'
  <2> HIDE DEF Line
  <2> QED BY <1>3, <1>7, SameLine
<1>10. PhaseInv'
  BY <1>3 DEF PhaseInv
<1>11. TableInv'
  BY <1>1, <1>3, <1>8 DEF TableInv, Due, OnJob
<1> QED BY <1>5, <1>9, <1>10, <1>11 DEF SInv

(* It has its slot, and joins the batch.                                   *)
LEMMA DecodeKeeps == ASSUME EInv, Decode, ~raised' PROVE QueueTypes' /\ SInv'
<1>1. /\ QueueTypes /\ LineInv /\ PhaseInv /\ TableInv /\ LengthInv
      /\ BM!Idle.op = "idle"
  BY Parts
<1>2. PICK s : s = cur
  OBVIOUS
<1>3. /\ pc = "append" /\ pc' = "decode" /\ job = BM!Idle /\ BM!MayAppend(s)
      /\ status' = status /\ waiting' = waiting /\ arrived' = arrived
      /\ running' = running /\ scheduled' = Append(scheduled, s) /\ left' = left
      /\ cur' = cur /\ promptLen' = promptLen /\ s \in Seqs
  BY <1>1, <1>2 DEF Decode, At, queueVars, fixedVars, QueueTypes
<1>4. /\ scheduled' \in Seq(Seqs) /\ Range(scheduled') = Range(scheduled) \cup {s}
  BY <1>1, <1>3, AppendParts DEF QueueTypes
<1>5. QueueTypes'
  BY <1>1, <1>3, <1>4 DEF QueueTypes, PCs
<1>6. /\ Ahead = scheduled /\ Ahead' = scheduled' /\ Taken = <<s>> /\ Taken' = <<>>
      /\ <<>> \in Seq(Seqs) /\ <<s>> \in Seq(Seqs) /\ Range(<<s>>) = {s}
  BY <1>2, <1>3, Singleton, EmptySeq DEF Ahead, Taken
<1>7. Line' = Line
  <2>1. PICK q \in Seq(Seqs) : q = Queues
    BY <1>1, LineFacts
  <2>2. (Append(scheduled, s) \o <<>>) \o q = (scheduled \o <<s>>) \o q
    BY <1>1, <1>3, BatchLine DEF QueueTypes
  <2>3. Queues' = q
    BY <2>1, <1>3 DEF Queues
  <2> QED BY <2>1, <2>2, <2>3, <1>3, <1>6 DEF Line
<1>8. Active' = Active
  <2>1. Active = Range(scheduled) \cup Range(<<s>>) \cup Range(running)
    BY <1>1, <1>6, LineFacts
  <2>2. Active' = Range(scheduled') \cup Range(<<>>) \cup Range(running)
    <3>1. PICK a, p, r \in Seq(Seqs) : a = scheduled' /\ p = <<>> /\ r = running
      BY <1>1, <1>4, <1>6 DEF QueueTypes
    <3>2. Active' = Range((a \o p) \o r)
      BY <1>3, <1>6, <3>1 DEF Active
    <3>3. Range((a \o p) \o r) = Range(a) \cup Range(p) \cup Range(r)
      BY ActiveParts
    <3> QED BY <3>1, <3>2, <3>3
  <2> QED BY <2>1, <2>2, <1>4, <1>6, EmptyRange
<1>9. s \in Active /\ s \notin Range(waiting)
  BY <1>1, <1>6, LineFacts
<1>10. /\ table[s] # <<>> /\ table'[s] # <<>> /\ \A r \in Seqs \ {s} : table'[r] = table[r]
       /\ tokens' = tokens /\ job' = job /\ due' = due \cup {s}
  <2>1. table[s] # <<>>
    BY <1>1, <1>9 DEF TableInv
  <2> QED BY <2>1, <1>3, MayAppendEffect
<1>11. LineInv' /\ LengthInv'
  <2> HIDE DEF Line
  <2> QED BY <1>3, <1>7, <1>10, SameLine
<1>12. PhaseInv'
  BY <1>3 DEF PhaseInv
<1>13. TableInv'
  <2>1. due' = Due'
    BY <1>1, <1>3, <1>4, <1>10 DEF TableInv, Due
  <2>2. \A r \in Seqs : table'[r] = <<>> <=> table[r] = <<>>
    BY <1>10
  <2>3. Active \subseteq Seqs /\ Range(waiting) \subseteq Seqs
    BY <1>1, LineFacts
  <2> QED BY <2>1, <2>2, <2>3, <1>1, <1>3, <1>8, <1>10 DEF TableInv, OnJob
<1> QED BY <1>5, <1>11, <1>12, <1>13 DEF SInv
-----------------------------------------------------------------------------
(* deque.appendleft.                                                       *)
LEMMA FirstParts ==
    ASSUME NEW S, NEW e \in S, NEW q \in Seq(S)
    PROVE  <<e>> \o q \in Seq(S) /\ Range(<<e>> \o q) = {e} \cup Range(q)
<1>1. PICK d \in Seq(S) : d = <<e>> /\ Range(d) = {e}
  BY Singleton
<1>2. d \o q \in Seq(S)
  BY ConcatProperties
<1>3. Range(d \o q) = Range(d) \cup Range(q)
  BY RangeConcat
<1> QED BY <1>1, <1>2, <1>3

(* What a preemption leaves true of the tables, given who is in which queue.*)
LEMMA PreemptTables ==
    ASSUME EInv, NEW s \in Seqs, Preempt(s), pc = "append", pc' \in {"append", "decode"},
           scheduled' = scheduled, Active' \subseteq Active \ {s},
           Range(waiting') = {s} \cup Range(waiting)
    PROVE  TableInv'
<1>1. /\ QueueTypes /\ LineInv /\ TableInv /\ BM!Idle.op = "idle" /\ job = BM!Idle
  BY Parts DEF Preempt, Release, BM!BeginDeallocate
<1>2. /\ job' = [op |-> "deallocate", seq |-> s] /\ table' = table /\ due' = due
      /\ status' = [status EXCEPT ![s] = "WAITING"]
  BY DEF Preempt, Release, BM!BeginDeallocate
<1>3. job'.op = "deallocate" /\ job'.seq = s /\ job' # BM!Idle
  BY <1>2 DEF BM!Idle
<1> HIDE DEF Active
<1>4. due' = Due'
  BY <1>1, <1>2 DEF TableInv, Due
<1>5. \A r \in Active' : table'[r] # <<>> /\ ~OnJob(r)'
  BY <1>1, <1>2, <1>3 DEF TableInv, OnJob
<1>6. \A r \in Range(waiting') : table'[r] = <<>> \/ OnJob(r)'
  BY <1>1, <1>2, <1>3 DEF TableInv, OnJob
<1>7. \A r \in Seqs : status'[r] = "new" => table'[r] = <<>> /\ ~OnJob(r)'
  BY <1>1, <1>2, <1>3 DEF TableInv, OnJob, QueueTypes
<1> QED BY <1>3, <1>4, <1>5, <1>6, <1>7 DEF TableInv

(* The youngest running sequence goes back to the head of waiting.         *)
LEMMA PreemptOtherKeeps ==
    ASSUME EInv, PreemptOther PROVE QueueTypes' /\ SInv'
<1>1. /\ QueueTypes /\ LineInv /\ PhaseInv /\ TableInv /\ LengthInv
  BY Parts
<1>2. PICK s : s = Last(running)
  OBVIOUS
<1>3. /\ pc = "append" /\ pc' = "append" /\ running # <<>> /\ Preempt(s)
      /\ status' = [status EXCEPT ![s] = "WAITING"] /\ waiting' = <<s>> \o waiting
      /\ running' = Front(running) /\ scheduled' = scheduled /\ left' = left
      /\ cur' = cur /\ promptLen' = promptLen /\ arrived' = arrived
      /\ tokens' = tokens
  BY <1>2 DEF PreemptOther, Preempt, PutBack, Release, BM!BeginDeallocate, At,
              batchVars, fixedVars
<1>4. /\ s \in Seqs /\ s \in Range(running)
      /\ running' \in Seq(Seqs) /\ Range(running) = Range(running') \cup {s}
      /\ s \notin Range(running')
  BY <1>1, <1>2, <1>3, LastParts, LineFacts DEF QueueTypes
<1>5. waiting' \in Seq(Seqs) /\ Range(waiting') = {s} \cup Range(waiting)
  BY <1>1, <1>3, <1>4, FirstParts DEF QueueTypes
<1>6. QueueTypes'
  BY <1>1, <1>3, <1>4, <1>5 DEF QueueTypes
<1>7. Ahead' = Ahead /\ Taken' = Taken /\ Ahead \in Seq(Seqs) /\ Taken \in Seq(Seqs)
  BY <1>1, <1>3, LineFacts DEF Ahead, Taken
<1>8. Line' = Line
  <2>1. PICK r, w \in Seq(Seqs) : r = running /\ w = waiting
    BY <1>1 DEF QueueTypes
  <2>2. Front(r) \o (<<Last(r)>> \o w) = r \o w
    BY <1>3, <2>1, YoungestLine
  <2> QED BY <2>1, <2>2, <1>2, <1>3, <1>7 DEF Line, Queues
<1>9. Active' = Range(Ahead) \cup Range(Taken) \cup Range(running')
  <2>1. PICK a, p, r \in Seq(Seqs) : a = Ahead /\ p = Taken /\ r = running'
    BY <1>4, <1>7
  <2>2. Active' = Range((a \o p) \o r)
    BY <1>7, <2>1 DEF Active
  <2>3. Range((a \o p) \o r) = Range(a) \cup Range(p) \cup Range(r)
    BY ActiveParts
  <2> QED BY <2>1, <2>2, <2>3
<1>10. /\ status[s] \notin {"new", "FINISHED"} /\ s \notin Range(Ahead)
       /\ s \notin Range(Taken)
       /\ Active = Range(Ahead) \cup Range(Taken) \cup Range(running)
  BY <1>1, <1>4, LineFacts
<1>11. LineInv' /\ LengthInv'
  <2> HIDE DEF Line
  <2>1. \A r \in Seqs : /\ status'[r] = "new" <=> status[r] = "new"
                        /\ status'[r] = "FINISHED" <=> status[r] = "FINISHED"
    BY <1>1, <1>3, <1>10 DEF QueueTypes
  <2> QED BY <2>1, <1>3, <1>8, SameLine
<1>12. PhaseInv'
  BY <1>3 DEF PhaseInv
<1>13. TableInv'
  <2>1. Active' \subseteq Active \ {s}
    BY <1>4, <1>9, <1>10
  <2> HIDE DEF Active
  <2> QED BY <2>1, <1>3, <1>4, <1>5, PreemptTables
<1> QED BY <1>6, <1>11, <1>12, <1>13 DEF SInv

(* So does the one at hand, when it is the youngest.                       *)
LEMMA PreemptSelfKeeps ==
    ASSUME EInv, PreemptSelf PROVE QueueTypes' /\ SInv'
<1>1. /\ QueueTypes /\ LineInv /\ PhaseInv /\ TableInv /\ LengthInv
  BY Parts
<1>2. PICK s : s = cur
  OBVIOUS
<1>3. /\ pc = "append" /\ pc' = "decode" /\ running = <<>> /\ Preempt(s)
      /\ status' = [status EXCEPT ![s] = "WAITING"] /\ waiting' = <<s>> \o waiting
      /\ running' = running /\ scheduled' = scheduled /\ left' = left
      /\ cur' = cur /\ promptLen' = promptLen /\ arrived' = arrived
      /\ tokens' = tokens /\ s \in Seqs
  BY <1>1, <1>2 DEF PreemptSelf, Preempt, PutBack, Release, BM!BeginDeallocate, At,
                    batchVars, fixedVars, QueueTypes
<1>4. waiting' \in Seq(Seqs) /\ Range(waiting') = {s} \cup Range(waiting)
  BY <1>1, <1>3, FirstParts DEF QueueTypes
<1>5. QueueTypes'
  BY <1>1, <1>3, <1>4 DEF QueueTypes, PCs
<1>6. /\ Ahead = scheduled /\ Ahead' = scheduled /\ Taken = <<s>> /\ Taken' = <<>>
      /\ <<>> \in Seq(Seqs) /\ Range(<<s>>) = {s} /\ Range(<<>>) = {}
  BY <1>2, <1>3, Singleton, EmptySeq, EmptyRange DEF Ahead, Taken
<1>7. Line' = Line
  <2>1. PICK a, w \in Seq(Seqs) : a = scheduled /\ w = waiting
    BY <1>1 DEF QueueTypes
  <2>2. (a \o <<>>) \o (<<>> \o (<<s>> \o w)) = (a \o <<s>>) \o (<<>> \o w)
    BY <1>3, OwnLine
  <2> QED BY <2>1, <2>2, <1>3, <1>6 DEF Line, Queues
<1>8. Active' = Range(scheduled)
  <2>1. PICK a, p \in Seq(Seqs) : a = scheduled /\ p = <<>>
    BY <1>1, <1>6 DEF QueueTypes
  <2>2. Active' = Range((a \o p) \o p)
    BY <1>3, <1>6, <2>1 DEF Active
  <2>3. Range((a \o p) \o p) = Range(a) \cup Range(p) \cup Range(p)
    BY ActiveParts
  <2> QED BY <2>1, <2>2, <2>3, <1>6
<1>9. /\ status[s] \notin {"new", "FINISHED"} /\ s \notin Range(scheduled)
      /\ Range(scheduled) \subseteq Active
  BY <1>1, <1>6, LineFacts
<1>10. LineInv' /\ LengthInv'
  <2> HIDE DEF Line
  <2>1. \A r \in Seqs : /\ status'[r] = "new" <=> status[r] = "new"
                        /\ status'[r] = "FINISHED" <=> status[r] = "FINISHED"
    BY <1>1, <1>3, <1>9 DEF QueueTypes
  <2> QED BY <2>1, <1>3, <1>7, SameLine
<1>11. PhaseInv'
  BY <1>3 DEF PhaseInv
<1>12. TableInv'
  <2>1. Active' \subseteq Active \ {s}
    BY <1>8, <1>9
  <2> HIDE DEF Active
  <2> QED BY <2>1, <1>3, <1>4, PreemptTables
<1> QED BY <1>5, <1>10, <1>11, <1>12 DEF SInv

(* The batch goes back in front of running.                                *)
LEMMA DecodeDoneKeeps == ASSUME EInv, DecodeDone PROVE QueueTypes' /\ SInv'
<1>1. /\ QueueTypes /\ LineInv /\ PhaseInv /\ TableInv /\ LengthInv
      /\ BM!Idle.op = "idle"
  BY Parts
<1>2. /\ pc = "decode" /\ job = BM!Idle /\ job' = job
      /\ \/ scheduled # <<>> /\ running' = scheduled \o running /\ pc' = "run"
         \/ scheduled = <<>> /\ running' = running /\ pc' = "raised"
      /\ status' = status /\ waiting' = waiting /\ arrived' = arrived
      /\ scheduled' = scheduled /\ left' = left /\ cur' = cur
      /\ promptLen' = promptLen /\ tokens' = tokens /\ table' = table /\ due' = due
  BY DEF DecodeDone, At, bmVars, batchVars, fixedVars
<1>3. PICK a, p, r, w \in Seq(Seqs) :
         a = scheduled /\ p = <<>> /\ r = running /\ w = waiting
  BY <1>1, EmptySeq DEF QueueTypes
<1>4. /\ Ahead = a /\ Ahead' = p /\ Taken = p /\ Taken' = p
  BY <1>2, <1>3 DEF Ahead, Taken
<1>5. /\ running' = a \o r /\ a \o r \in Seq(Seqs)
      /\ Range(a \o r) = Range(a) \cup Range(r)
  BY <1>2, <1>3, ConcatEmptySeq, ConcatProperties, RangeConcat
<1>6. QueueTypes'
  BY <1>1, <1>2, <1>5 DEF QueueTypes, PCs
<1>7. Line' = Line
  <2>1. (<<>> \o <<>>) \o ((a \o r) \o w) = (a \o <<>>) \o (r \o w)
    BY DoneLine
  <2> QED BY <2>1, <1>2, <1>3, <1>4, <1>5 DEF Line, Queues
<1>8. Active' = Active
  <2>1. Active = Range((a \o p) \o r) /\ Active' = Range((p \o p) \o (a \o r))
    BY <1>3, <1>4, <1>5 DEF Active
  <2>2. Range((a \o p) \o r) = Range(a) \cup Range(p) \cup Range(r)
    BY ActiveParts
  <2>3. PICK q \in Seq(Seqs) : q = a \o r
    BY <1>5
  <2>4. Range((p \o p) \o q) = Range(p) \cup Range(p) \cup Range(q)
    BY ActiveParts
  <2> QED BY <2>1, <2>2, <2>3, <2>4, <1>5
<1>9. LineInv' /\ LengthInv'
  <2> HIDE DEF Line
  <2> QED BY <1>2, <1>7, SameLine
<1>10. PhaseInv'
  <2>1. Distinct(scheduled)
    BY <1>1, <1>3, <1>4, LineFacts
  <2> QED BY <2>1, <1>2, <1>3, <1>5 DEF PhaseInv
<1>11. TableInv'
  <2>1. scheduled = <<>> => Range(scheduled) = {}
    BY EmptyRange
  <2>2. due' = Due'
    BY <2>1, <1>1, <1>2 DEF TableInv, Due
  <2> QED BY <2>2, <1>1, <1>2, <1>8 DEF TableInv, OnJob
<1> QED BY <1>6, <1>9, <1>10, <1>11 DEF SInv
-----------------------------------------------------------------------------
(* A token is appended; if it is the last, the sequence is to be finished. *)
LEMMA PostprocessKeeps == ASSUME EInv, Postprocess PROVE QueueTypes' /\ SInv'
<1>1. /\ QueueTypes /\ LineInv /\ PhaseInv /\ TableInv /\ LengthInv
      /\ tokens \in [Seqs -> Seq(Tokens)] /\ \A r \in Seqs : Len(tokens[r]) \in Nat
      /\ BM!Idle.op = "idle"
  BY Parts
<1>2. PICK s : s = Head(left)
  OBVIOUS
<1>3. PICK t \in {drawn[s]}, e \in BOOLEAN :
         /\ e = Ends(s, t) /\ BM!AppendToken(s, t)
         /\ pc' = (IF e THEN "finish" ELSE "post")
         /\ left' = (IF e THEN left ELSE Tail(left))
  BY <1>2 DEF Postprocess, Ends
<1>4. /\ pc = "post" /\ job = BM!Idle /\ left # <<>> /\ arrived' = arrived
      /\ status' = status /\ waiting' = waiting /\ running' = running
      /\ scheduled' = scheduled /\ cur' = cur /\ promptLen' = promptLen /\ drawn' = drawn
  BY DEF Postprocess, At, queueVars, fixedVars
<1>5. /\ tokens' = [tokens EXCEPT ![s] = Append(tokens[s], t)]
      /\ due' = due \ {s} /\ table' = table /\ job' = job
  BY <1>3 DEF BM!AppendToken
<1>6. /\ s \in Seqs /\ s \in Range(left) /\ Tail(left) \in Seq(Seqs)
      /\ Range(left) = {s} \cup Range(Tail(left))
      /\ Distinct(Tail(left)) /\ s \notin Range(Tail(left)) /\ t \in Tokens
  <2>1. left \in Seq(Seqs) /\ Distinct(left) /\ \A r \in Range(left) : drawn[r] \in Tokens
    BY <1>1, <1>4 DEF QueueTypes, PhaseInv
  <2>2. /\ s \in Seqs /\ s \in Range(left) /\ Tail(left) \in Seq(Seqs)
        /\ Range(left) = {s} \cup Range(Tail(left))
        /\ Distinct(Tail(left)) /\ s \notin Range(Tail(left))
    BY <2>1, <1>2, <1>4, HeadParts
  <2> QED BY <2>1, <2>2, <1>3
<1>7. QueueTypes'
  BY <1>1, <1>3, <1>4, <1>6 DEF QueueTypes, PCs
<1>8. Ahead' = Ahead /\ Taken' = Taken
  BY <1>3, <1>4 DEF Ahead, Taken
<1>9. Line' = Line /\ Active' = Active
  BY <1>4, <1>8 DEF Line, Active, Queues
<1>10. LineInv'
  <2> HIDE DEF Line
  <2> QED BY <1>1, <1>4, <1>9, LineKept
<1>11. PhaseInv'
  BY <1>1, <1>3, <1>4, <1>6 DEF PhaseInv
<1>12. TableInv'
  <2>1. due' = Due'
    BY <1>1, <1>2, <1>3, <1>4, <1>5, <1>6 DEF TableInv, Due
  <2> HIDE DEF Active
  <2> QED BY <2>1, <1>1, <1>3, <1>4, <1>5, <1>9 DEF TableInv, OnJob
<1>13. LengthInv'
  <2>1. /\ Len(tokens'[s]) = Len(tokens[s]) + 1
        /\ \A r \in Seqs \ {s} : Len(tokens'[r]) = Len(tokens[r])
    BY <1>1, <1>5, <1>6, AppendProperties
  <2>2. s \in Range(Line) /\ Range(Line) \subseteq Seqs /\ status[s] # "new"
    BY <1>1, <1>4, <1>6, LineFacts DEF PhaseInv
  <2>3. Len(tokens[s]) < promptLen[s] + MaxTokens
    BY <2>2, <1>1, <1>4 DEF LengthInv
  <2>4. ASSUME ~e PROVE Len(tokens'[s]) < promptLen[s] + MaxTokens
    <3>1. Len(tokens[s]) + 1 - promptLen[s] # MaxTokens
      BY <2>4, <1>3 DEF Ends
    <3>2. PICK l, q, m \in Nat : l = Len(tokens[s]) /\ q = promptLen[s] /\ m = MaxTokens
      BY <1>1, <1>6, EngineAssumption DEF QueueTypes
    <3>3. l + 1 < q + m
      <4>1. l < q + m /\ l + 1 - q # m
        BY <3>1, <3>2, <2>3
      <4> QED BY <4>1
    <3> QED BY <3>2, <3>3, <2>1
  <2>5. e => pc' = "finish" /\ s = Head(left')
    BY <1>2, <1>3
  <2> HIDE DEF Line
  <2>6. \A r \in Range(Line') : \/ Len(tokens'[r]) < promptLen'[r] + MaxTokens
                                \/ pc' = "finish" /\ r = Head(left')
    BY <2>1, <2>2, <2>4, <2>5, <1>1, <1>4, <1>9 DEF LengthInv
  <2> QED BY <2>1, <2>2, <2>6, <1>1, <1>4 DEF LengthInv
<1> QED BY <1>7, <1>10, <1>11, <1>12, <1>13 DEF SInv

(* Who leaves a line does not change the order of the others.              *)
LEMMA OrderRemove ==
    ASSUME NEW S, NEW r \in Seq(S), NEW w \in Seq(S), NEW a, NEW k \in DOMAIN r,
           Follows(r \o w, a)
    PROVE  Follows(RemoveAt(r, k) \o w, a)
<1>1. PICK x, y, z : x = RemoveAt(r, k) /\ y = r \o w /\ z = x \o w
  OBVIOUS
<1>2. PICK n, m \in Nat : n = Len(r) /\ m = Len(w)
  BY LenProperties
<1>3. k \in 1..n /\ DOMAIN r = 1..n
  BY <1>2, LenProperties
<1>4. /\ x \in Seq(S) /\ Len(x) = n - 1
      /\ \A i \in 1..(n - 1) : x[i] = IF i < k THEN r[i] ELSE r[i + 1]
  <2>1. RemoveAt(r, k) = BP!RemoveAt(r, k)
    BY DEF RemoveAt, BP!RemoveAt
  <2> QED BY <2>1, <1>1, <1>2, BP!RemoveAtProperties, ManagerAssumed
<1>5. /\ DOMAIN y = 1..(n + m)
      /\ \A i \in 1..(n + m) : y[i] = IF i <= n THEN r[i] ELSE w[i - n]
  BY <1>1, <1>2, ConcatProperties, LenProperties
<1>6. /\ DOMAIN z = 1..(n - 1 + m)
      /\ \A i \in 1..(n - 1 + m) : z[i] = IF i <= n - 1 THEN x[i] ELSE w[i - (n - 1)]
  <2>1. /\ z \in Seq(S) /\ Len(z) = Len(x) + Len(w)
        /\ \A i \in 1..(Len(x) + Len(w)) :
              z[i] = IF i <= Len(x) THEN x[i] ELSE w[i - Len(x)]
    BY <1>1, <1>4, ConcatProperties
  <2>2. Len(x) = n - 1 /\ Len(w) = m
    BY <1>2, <1>4
  <2>3. DOMAIN z = 1..Len(z)
    BY <2>1, LenProperties
  <2> QED BY <2>1, <2>2, <2>3
<1>7. n \in Nat \ {0} /\ m \in Nat /\ k \in Nat /\ 1 <= k /\ k <= n
  BY <1>2, <1>3
<1> DEFINE f(i) == IF i < k THEN i ELSE i + 1
<1>8. ASSUME NEW i \in DOMAIN z PROVE f(i) \in DOMAIN y /\ z[i] = y[f(i)]
  <2>1. i \in Nat /\ 1 <= i /\ i <= n - 1 + m
    BY <1>6, <1>7
  <2>2. CASE i <= n - 1
    <3>1. z[i] = IF i < k THEN r[i] ELSE r[i + 1]
      BY <2>1, <2>2, <1>4, <1>6, <1>7
    <3>2. f(i) \in 1..(n + m) /\ f(i) <= n
      BY <2>1, <2>2, <1>7
    <3> QED BY <3>1, <3>2, <1>5
  <2>3. CASE ~(i <= n - 1)
    <3>1. z[i] = w[i - (n - 1)]
      BY <2>1, <2>3, <1>6
    <3>2. f(i) = i + 1 /\ i + 1 \in 1..(n + m) /\ ~(i + 1 <= n) /\ i + 1 - n = i - (n - 1)
      BY <2>1, <2>3, <1>7
    <3>3. y[i + 1] = w[i + 1 - n]
      <4>1. PICK j \in 1..(n + m) : j = i + 1
        BY <3>2
      <4>2. y[j] = IF j <= n THEN r[j] ELSE w[j - n]
        BY <1>5
      <4>3. ~(j <= n)
        BY <3>2, <4>1
      <4>4. y[j] = w[j - n]
        BY <4>2, <4>3
      <4> QED BY <4>1, <4>4, <2>1, Z3
    <3> QED BY <3>1, <3>2, <3>3, <1>5
  <2> QED BY <2>2, <2>3
<1>9. ASSUME NEW i \in DOMAIN z, NEW j \in DOMAIN z, i < j PROVE f(i) < f(j)
  BY <1>6, <1>7, <1>9
<1> HIDE DEF f
<1>10. ASSUME NEW i \in DOMAIN z, NEW j \in DOMAIN z, i < j
       PROVE  \E c, d \in DOMAIN a : c < d /\ a[c] = z[i] /\ a[d] = z[j]
  <2>1. f(i) \in DOMAIN y /\ f(j) \in DOMAIN y /\ f(i) < f(j)
    BY <1>8, <1>9, <1>10
  <2>2. \E c, d \in DOMAIN a : c < d /\ a[c] = y[f(i)] /\ a[d] = y[f(j)]
    BY <2>1, <1>1 DEF Follows
  <2> QED BY <2>2, <1>8
<1> QED BY <1>1, <1>10 DEF Follows

(* A finished sequence leaves running, and its blocks are being released.  *)
LEMMA FinishKeeps == ASSUME EInv, Finish PROVE QueueTypes' /\ SInv'
<1>1. /\ QueueTypes /\ LineInv /\ PhaseInv /\ TableInv /\ LengthInv
      /\ BM!Idle.op = "idle"
  BY Parts
<1>2. PICK s : s = Head(left)
  OBVIOUS
<1>3. /\ pc = "finish" /\ pc' = "post" /\ job = BM!Idle /\ arrived' = arrived
      /\ left # <<>> /\ left' = Tail(left) /\ running' = RemoveFirst(running, s)
      /\ status' = [status EXCEPT ![s] = "FINISHED"] /\ waiting' = waiting
      /\ scheduled' = scheduled /\ cur' = cur /\ promptLen' = promptLen /\ drawn' = drawn
  BY <1>1, <1>2 DEF Finish, At, fixedVars, PhaseInv
<1>4. /\ job' = [op |-> "deallocate", seq |-> s]
      /\ tokens' = tokens /\ table' = table /\ due' = due
  BY <1>2 DEF Finish, Release, BM!BeginDeallocate
<1>5. job'.op = "deallocate" /\ job'.seq = s /\ job' # BM!Idle
  BY <1>4 DEF BM!Idle
<1>6. /\ s \in Seqs /\ s \in Range(left) /\ Tail(left) \in Seq(Seqs)
      /\ Range(left) = {s} \cup Range(Tail(left))
      /\ Distinct(Tail(left)) /\ s \notin Range(Tail(left))
      /\ s \in Range(running)
  BY <1>1, <1>2, <1>3, HeadParts DEF QueueTypes, PhaseInv
<1>7. PICK a, p, r, w \in Seq(Seqs) :
         a = arrived /\ p = <<>> /\ r = running /\ w = waiting
  BY <1>1, EmptySeq DEF QueueTypes
<1>8. Distinct(r) /\ \A q \in Range(r) : q \notin Range(w)
  BY <1>1, <1>7, LineFacts
<1>9. PICK k \in DOMAIN r : r[k] = s /\ running' = RemoveAt(r, k)
  BY <1>3, <1>6, <1>7, <1>8, RemoveOne
<1>10. /\ running' \in Seq(Seqs) /\ Range(running') = Range(running) \ {s}
  <2>1. RemoveAt(r, k) = BP!RemoveAt(r, k) /\ Range(r) = BP!Range(r)
        /\ Range(RemoveAt(r, k)) = BP!Range(RemoveAt(r, k))
    BY DEF RemoveAt, BP!RemoveAt, Range, BP!Range
  <2>2. \A i, j \in DOMAIN r : r[i] = r[j] => i = j
    BY <1>8 DEF Distinct
  <2>3. BP!RemoveAt(r, k) \in Seq(Seqs)
    BY BP!RemoveAtProperties, ManagerAssumed
  <2>4. BP!Range(BP!RemoveAt(r, k)) = BP!Range(r) \ {r[k]}
    BY <2>2, BP!RemoveAtRange, ManagerAssumed
  <2> QED BY <2>1, <2>3, <2>4, <1>7, <1>9
<1>11. QueueTypes'
  BY <1>1, <1>3, <1>6, <1>10 DEF QueueTypes, PCs
<1>12. Ahead = p /\ Ahead' = p /\ Taken = p /\ Taken' = p
  BY <1>3, <1>7 DEF Ahead, Taken
<1>13. PICK x \in Seq(Seqs) : x = running'
  BY <1>10
<1>14. Line = r \o w /\ Line' = x \o w /\ Active = Range(r) /\ Active' = Range(x)
  <2>1. /\ Line = (p \o p) \o (r \o w) /\ Line' = (p \o p) \o (x \o w)
        /\ Active = Range((p \o p) \o r) /\ Active' = Range((p \o p) \o x)
    BY <1>3, <1>7, <1>12, <1>13 DEF Line, Queues, Active
  <2> QED BY <2>1, <1>7, NobodyAhead
<1>15. /\ Range(Line) = Range(r) \cup Range(w) /\ Range(Line') = Range(x) \cup Range(w)
  BY <1>14, RangeConcat
<1>16. /\ Range(x) = Range(r) \ {s} /\ s \in Range(r) /\ s \notin Range(w)
       /\ status[s] \notin {"new", "FINISHED"} /\ Range(arrived) \subseteq Seqs
  BY <1>1, <1>6, <1>7, <1>8, <1>10, <1>13, <1>15, LineFacts, RangeOfSeq DEF QueueTypes
<1>17. LineInv'
  <2>1. Follows(Line, arrived)
    BY <1>1, InOrderFollows DEF LineInv
  <2>2. Follows(RemoveAt(r, k) \o w, a)
    BY <2>1, <1>7, <1>14, OrderRemove
  <2>3. Follows(Line', arrived')
    BY <2>2, <1>3, <1>7, <1>9, <1>13, <1>14
  <2>4. InOrder(Line)'
    BY <2>3 DEF InOrder, Follows
  <2>5. \A q \in Seqs : q \in Range(arrived') <=> status'[q] # "new"
    BY <1>1, <1>3, <1>16 DEF LineInv, QueueTypes
  <2>6. Range(Line') = {q \in Range(arrived') : status'[q] # "FINISHED"}
    BY <1>1, <1>3, <1>6, <1>15, <1>16 DEF LineInv, QueueTypes
  <2> QED BY <2>4, <2>5, <2>6, <1>1, <1>3 DEF LineInv
<1>18. PhaseInv'
  BY <1>1, <1>3, <1>6, <1>10 DEF PhaseInv
<1>19. TableInv'
  <2>1. due' = Due'
    BY <1>1, <1>3, <1>4 DEF TableInv, Due
  <2>2. \A q \in Active' : table'[q] # <<>> /\ ~OnJob(q)'
    BY <1>1, <1>4, <1>5, <1>14, <1>16 DEF TableInv, OnJob
  <2>3. \A q \in Range(waiting') : table'[q] = <<>>
    BY <1>1, <1>3, <1>4 DEF TableInv, OnJob
  <2>4. \A q \in Seqs : status'[q] = "new" => table'[q] = <<>> /\ ~OnJob(q)'
    BY <1>1, <1>3, <1>4, <1>5, <1>6, <1>16 DEF TableInv, OnJob, QueueTypes
  <2> QED BY <2>1, <2>2, <2>3, <2>4, <1>3, <1>5 DEF TableInv
<1>20. LengthInv'
  <2>1. \A q \in Range(Line') : Len(tokens[q]) < promptLen[q] + MaxTokens
    BY <1>1, <1>2, <1>15, <1>16 DEF LengthInv
  <2>2. \A q \in Seqs : status'[q] = "new" => status[q] = "new"
    BY <1>1, <1>3, <1>16 DEF QueueTypes
  <2> QED BY <2>1, <2>2, <1>1, <1>3, <1>4 DEF LengthInv
<1> QED BY <1>11, <1>17, <1>18, <1>19, <1>20 DEF SInv

(* An iteration of the manager's own loops.                                *)
LEMMA ManagerLoopKeeps ==
    ASSUME EInv, ManagerLoop, ~raised' PROVE QueueTypes' /\ SInv'
<1>1. /\ QueueTypes /\ LineInv /\ PhaseInv /\ TableInv /\ LengthInv
      /\ BM!Idle.op = "idle"
  BY Parts
<1>2. PICK s : s = job.seq
  OBVIOUS
<1>3. /\ pc' = pc /\ arrived' = arrived /\ left' = left /\ running' = running
      /\ drawn' = drawn /\ status' = status /\ waiting' = waiting
      /\ scheduled' = scheduled /\ cur' = cur /\ promptLen' = promptLen
  BY DEF ManagerLoop, fixedVars, queueVars, batchVars
<1>4. Ahead' = Ahead /\ Taken' = Taken
  BY <1>3 DEF Ahead, Taken
<1>5. /\ s \in Seqs /\ job # BM!Idle /\ tokens' = tokens
      /\ \A r \in Seqs \ {s} : table'[r] = table[r]
      /\ \/ /\ job.op = "allocate" /\ table'[s] # <<>>
            /\ \/ job' = BM!Idle /\ due' = due \cup {s}
               \/ job'.op = "allocate" /\ job'.seq = s /\ job' # BM!Idle /\ due' = due
         \/ /\ job.op = "deallocate" /\ due' = due
            /\ job' = job \/ (job' = BM!Idle /\ table'[s] = <<>>)
  <2>1. CASE BM!AllocateNext
    BY <2>1, <1>2, AllocateEffect
  <2>2. CASE BM!DeallocateNext
    BY <2>2, <1>2, DeallocateEffect
  <2> QED BY <2>1, <2>2 DEF ManagerLoop
<1>6. pc # "finish" /\ (job.op = "allocate" => pc = "admit" /\ s = Head(waiting))
      /\ (job.op = "deallocate" => pc \in {"append", "decode", "post"})
  BY <1>1, <1>2, <1>5 DEF TableInv
<1>7. LineInv' /\ LengthInv' /\ Active' = Active
  BY <1>3, <1>4, <1>5, <1>6, SameQueues
<1>8. QueueTypes' /\ PhaseInv'
  BY <1>1, <1>3 DEF QueueTypes, PhaseInv
<1>9. OnJob(s) /\ s \notin Active /\ status[s] # "new"
      /\ Active \subseteq Seqs /\ Range(waiting) \subseteq Seqs
  <2>1. OnJob(s)
    BY <1>2, <1>5 DEF OnJob
  <2>2. Active \subseteq Seqs /\ Range(waiting) \subseteq Seqs
    BY <1>1, LineFacts
  <2> QED BY <2>1, <2>2, <1>1, <1>5 DEF TableInv
<1> HIDE DEF Active
<1>10. TableInv'
  <2>1. CASE job.op = "allocate"
    <3>1. due' = Due'
      BY <2>1, <1>1, <1>3, <1>5, <1>6 DEF TableInv, Due
    <3>2. \A r \in Active' : table'[r] # <<>> /\ ~OnJob(r)'
      BY <2>1, <1>1, <1>5, <1>7, <1>9 DEF TableInv, OnJob
    <3>3. \A r \in Range(waiting') :
             table'[r] = <<>> \/ OnJob(r)' \/ (pc' = "admit" /\ r = Head(waiting'))
      BY <2>1, <1>1, <1>2, <1>3, <1>5, <1>6, <1>9 DEF TableInv, OnJob
    <3>4. \A r \in Seqs : status'[r] = "new" => table'[r] = <<>> /\ ~OnJob(r)'
      BY <2>1, <1>1, <1>3, <1>5, <1>9 DEF TableInv, OnJob
    <3> QED BY <3>1, <3>2, <3>3, <3>4, <2>1, <1>1, <1>3, <1>5, <1>6 DEF TableInv
  <2>2. CASE job.op = "deallocate"
    <3>1. due' = Due'
      BY <2>2, <1>1, <1>3, <1>5, <1>6 DEF TableInv, Due
    <3>2. \A r \in Active' : table'[r] # <<>> /\ ~OnJob(r)'
      BY <2>2, <1>1, <1>2, <1>5, <1>7, <1>9 DEF TableInv, OnJob
    <3>3. \A r \in Range(waiting') : table'[r] = <<>> \/ OnJob(r)'
      BY <2>2, <1>1, <1>2, <1>3, <1>5, <1>6, <1>9 DEF TableInv, OnJob
    <3>4. \A r \in Seqs : status'[r] = "new" => table'[r] = <<>> /\ ~OnJob(r)'
      BY <2>2, <1>1, <1>2, <1>3, <1>5, <1>9 DEF TableInv, OnJob
    <3> QED BY <3>1, <3>2, <3>3, <3>4, <2>2, <1>1, <1>3, <1>5, <1>6 DEF TableInv
  <2> QED BY <2>1, <2>2, <1>5
<1> QED BY <1>7, <1>8, <1>10 DEF SInv
-----------------------------------------------------------------------------
(* The invariant holds of an engine that has just been made, ...           *)
LEMMA InitEInv == Init => EInv
<1> SUFFICES ASSUME Init PROVE EInv
  OBVIOUS
<1>1. BP!IInv /\ BP!ContentInv
  <2>1. BP!Init
    BY SameInit DEF Init
  <2> QED BY <2>1, BP!InitIInv, BP!InitContent, ManagerAssumed
<1>2. /\ waiting = <<>> /\ running = <<>> /\ status = [s \in Seqs |-> "new"]
      /\ promptLen = [s \in Seqs |-> Len(tokens[s])] /\ pc = "idle"
      /\ scheduled = <<>> /\ left = <<>> /\ arrived = <<>>
      /\ tokens \in [Seqs -> Prompts] /\ table = [s \in Seqs |-> <<>>]
      /\ due = {} /\ job = BM!Idle
  BY DEF Init, BM!Init
<1>3. \A s \in Seqs : Len(tokens[s]) \in Nat /\ Len(tokens[s]) + MaxTokens <= MaxLen
  <2>1. \A p \in Prompts : Len(p) \in Nat /\ Len(p) + MaxTokens <= MaxLen
    BY ManagerAssumption, LenProperties
  <2> QED BY <2>1, <1>2
<1>4. QueueTypes
  BY <1>2, <1>3, EmptySeq DEF QueueTypes, PCs
<1>5. /\ Line = <<>> /\ Range(Line) = {} /\ Active = {}
  <2>1. Ahead = <<>> /\ Taken = <<>>
    BY <1>2 DEF Ahead, Taken
  <2>2. PICK e \in Seq(Seqs) : e = <<>>
    BY EmptySeq
  <2>3. (<<>> \o <<>>) \o (e \o e) = e \o e /\ (<<>> \o <<>>) \o e = e
    BY NobodyAhead
  <2>4. e \o e = e
    BY <2>2, ConcatEmptySeq
  <2>5. Line = <<>>
    BY <2>1, <2>2, <2>3, <2>4, <1>2 DEF Line, Queues
  <2>6. Active = Range(e)
    BY <2>1, <2>2, <2>3, <1>2 DEF Active
  <2> QED BY <2>2, <2>5, <2>6, EmptyRange
<1>6. LineInv
  <2>1. InOrder(Line)
    BY <1>5 DEF InOrder
  <2> HIDE DEF Line
  <2> QED BY <2>1, <1>2, <1>5, EmptyRange DEF LineInv
<1>7. PhaseInv
  BY <1>2 DEF PhaseInv
<1>8. TableInv
  BY <1>2, <1>5, EmptyRange, Singleton DEF TableInv, Due, OnJob, BM!Idle
<1>9. LengthInv
  <2> HIDE DEF Line
  <2> QED BY <1>2, <1>3, <1>5 DEF LengthInv
<1> QED BY <1>1, <1>4, <1>6, <1>7, <1>8, <1>9 DEF EInv, SInv

(* ... and every step keeps it.                                            *)
LEMMA NextEInv == EInv /\ [Next]_vars => EInv'
<1> SUFFICES ASSUME EInv, [Next]_vars PROVE EInv'
  OBVIOUS
<1>1. BP!IInv' /\ BP!ContentInv' /\ ~raised'
  BY ManagerKept
<1>2. CASE \E s \in Seqs : AddRequest(s)
  BY <1>1, <1>2, AddRequestKeeps DEF EInv
<1>3. CASE BeginStep
  BY <1>1, <1>3, BeginStepKeeps DEF EInv
<1>4. CASE Admit
  BY <1>1, <1>4, AdmitKeeps DEF EInv
<1>5. CASE Admitted
  BY <1>1, <1>5, AdmittedKeeps DEF EInv
<1>6. CASE PrefillDone
  BY <1>1, <1>6, PrefillDoneKeeps DEF EInv
<1>7. CASE Take
  BY <1>1, <1>7, TakeKeeps DEF EInv
<1>8. CASE Decode
  BY <1>1, <1>8, DecodeKeeps DEF EInv
<1>9. CASE PreemptOther
  BY <1>1, <1>9, PreemptOtherKeeps DEF EInv
<1>10. CASE PreemptSelf
  BY <1>1, <1>10, PreemptSelfKeeps DEF EInv
<1>11. CASE DecodeDone
  BY <1>1, <1>11, DecodeDoneKeeps DEF EInv
<1>12. CASE Run \/ RunNothing
  BY <1>1, <1>12, RunKeeps, RunNothingKeeps DEF EInv
<1>13. CASE Postprocess
  BY <1>1, <1>13, PostprocessKeeps DEF EInv
<1>14. CASE Finish
  BY <1>1, <1>14, FinishKeeps DEF EInv
<1>15. CASE EndStep
  BY <1>1, <1>15, EndStepKeeps DEF EInv
<1>16. CASE ManagerLoop
  BY <1>1, <1>16, ManagerLoopKeeps DEF EInv
<1>17. CASE UNCHANGED vars
  <2>1. /\ waiting' = waiting /\ running' = running /\ status' = status /\ pc' = pc
        /\ promptLen' = promptLen /\ arrived' = arrived /\ scheduled' = scheduled
        /\ cur' = cur /\ left' = left /\ drawn' = drawn
        /\ tokens' = tokens /\ table' = table
        /\ due' = due /\ job' = job
    BY <1>17 DEF vars, bmVars, queueVars, batchVars, fixedVars
  <2>2. QueueTypes' /\ PhaseInv'
    BY <2>1 DEF EInv, SInv, QueueTypes, PhaseInv
  <2>3. Line' = Line /\ Active' = Active
    BY <2>1 DEF Line, Active, Queues, Ahead, Taken
  <2> HIDE DEF Line, Active
  <2>4. LineInv'
    BY <2>1, <2>3, LineKept DEF EInv, SInv
  <2>5. TableInv'
    BY <2>1, <2>3 DEF EInv, SInv, TableInv, Due, OnJob
  <2>6. LengthInv'
    BY <2>1, <2>3 DEF EInv, SInv, LengthInv
  <2> QED BY <2>2, <2>4, <2>5, <2>6, <1>1 DEF EInv, SInv
<1> QED BY <1>2, <1>3, <1>4, <1>5, <1>6, <1>7, <1>8, <1>9, <1>10, <1>11, <1>12, <1>13,
           <1>14, <1>15, <1>16, <1>17 DEF Next, Engine

(* Whatever arrives, and whatever is preempted, the invariant holds.       *)
THEOREM EngineInvariance == Spec => []EInv
<1> QED BY InitEInv, NextEInv, PTL DEF Spec

(* The scheduler implements the promise the manager rests on: it calls     *)
(* allocate only for a sequence without blocks and with enough of them     *)
(* free, may_append only once per token and only for a sequence with a     *)
(* table, and deallocate only for a sequence none of whose tokens is due.  *)
(* All the theorems about the manager hold of it as the scheduler uses it. *)
THEOREM ManagerUsed == Spec => UsesManager
<1>1. Init => BM!Init
  BY DEF Init
<1> QED BY <1>1, StepCalls, EngineInvariance, PTL DEF Spec, UsesManager, BM!Spec

(* First come, first served: between two steps of the engine, running      *)
(* followed by waiting is the requests that are not finished, each once    *)
(* and in order of arrival, however often preempt has sent sequences back  *)
(* (appendleft) and the decode loop has put its batch back (extendleft).   *)
THEOREM FirstComeFirstServed == Spec => []ArrivalOrder
<1>1. EInv => ArrivalOrder
  <2> SUFFICES ASSUME EInv, pc = "idle"
               PROVE  /\ InOrder(running \o waiting)
                      /\ Range(running \o waiting) =
                            {s \in Range(arrived) : status[s] # "FINISHED"}
    BY DEF ArrivalOrder
  <2>1. QueueTypes /\ LineInv
    BY Parts
  <2>2. Ahead = <<>> /\ Taken = <<>>
    BY DEF Ahead, Taken
  <2>3. Line = running \o waiting
    BY <2>1, <2>2, NobodyAhead DEF Line, Queues, QueueTypes
  <2> HIDE DEF Line
  <2>4. InOrder(running \o waiting)
    BY <2>1, <2>3 DEF LineInv, InOrder
  <2> QED BY <2>1, <2>3, <2>4 DEF LineInv
<1> QED BY <1>1, EngineInvariance, PTL

(* No assertion of the manager fails, no set or deque lacks what is taken  *)
(* from it, however the scheduler serves.                                  *)
THEOREM ServingNeverRaises == Spec => [](~raised)
<1>1. EInv => ~raised
  BY Parts
<1> QED BY <1>1, EngineInvariance, PTL
-----------------------------------------------------------------------------
(* Whose keys and values a block holds.                                    *)
(*                                                                         *)
(* A block with a hash holds the keys and values of the prefix it digests, *)
(* or the batch will write them: a prefill those of its places behind the  *)
(* cached ones, a decode step those of the last place.                     *)

LastOf(s) == table[s][Len(table[s])]

Prefilling ==
    pc \in {"prefill", "admit"} \/ (pc \in {"run", "nothing to run"} /\ isPrefill)

ToRun ==
    CASE pc \in {"prefill", "decode", "append", "run", "nothing to run"} ->
            Range(scheduled)
      [] pc = "admit" -> Range(scheduled) \cup {Head(waiting)}
      [] pc \in {"idle", "raised", "post", "finish"} -> {}

ToWrite(s) ==
    IF Prefilling THEN {i \in DOMAIN table[s] : cached[s] < i * BlockSize}
                  ELSE {Len(table[s])}

Pending(b) == \E s \in ToRun : \E i \in ToWrite(s) : table[s][i] = b

HashesWritten ==
    \A b \in BP!Blocks : blockHash[b] # BP!NoHash /\ kv[b] # blockHash[b] => Pending(b)

(* Where may_append leaves a sampled token in the last block, the keys and *)
(* values of all tokens before it are there.                               *)
Decoding ==
    pc \in {"decode", "append"} \/ (pc \in {"run", "nothing to run"} /\ ~isPrefill)

Extends(s) ==
    /\ table[s] # <<>> /\ ~OnJob(s) /\ Len(tokens[s]) % BlockSize # 1
    /\ s \notin due \/ Decoding

OpenWritten == \A s \in Seqs : Extends(s) => kv[LastOf(s)] = Front(tokens[s])

(* After the run the last block is written to its end.                     *)
LastWritten ==
    pc \in {"post", "finish"} =>
        \A s \in due : blockHash[LastOf(s)] = BP!NoHash => kv[LastOf(s)] = tokens[s]

Keys ==
    /\ HashesWritten /\ OpenWritten /\ LastWritten
    /\ pc \in {"decode", "append"} => ~isPrefill

KInv == BP!OwnInv /\ Keys
-----------------------------------------------------------------------------
(* The calls are the same in both instances of the manager.                *)
LEMMA SameCalls ==
    /\ BM!AllocateNext <=> BP!AllocateNext
    /\ BM!DeallocateNext <=> BP!DeallocateNext
    /\ \A s : BM!MayAppend(s) <=> BP!MayAppend(s)
    /\ BM!Idle = BP!Idle /\ BM!Blocks = BP!Blocks
    /\ \A s : BM!BlocksOf(s) = BP!BlocksOf(s) /\ BM!CanAppend(s) = BP!CanAppend(s)
BY DEF BM!Range, BP!Range, BM!RemoveAt, BP!RemoveAt, BM!Front, BP!Front,
       BM!Last, BP!Last, BM!Blocks, BP!Blocks, BM!NoHash, BP!NoHash, BM!Idle,
       BP!Idle, BM!blockVars, BP!blockVars, BM!poolVars, BP!poolVars,
       BM!BlocksOf, BP!BlocksOf,
       BM!BlockOf, BP!BlockOf, BM!ComputeHash, BP!ComputeHash,
       BM!Fill, BP!Fill, BM!CanAppend, BP!CanAppend,
       BM!Registered, BP!Registered, BM!Hit, BP!Hit, BM!Contents, BP!Contents,
       BM!Unfree, BP!Unfree, BM!Claim, BP!Claim, BM!CountHolder,
       BP!CountHolder, BM!Share, BP!Share, BM!Extend, BP!Extend, BM!Fail,
       BP!Fail, BM!NextTokens,
       BP!NextTokens, BM!NextHash, BP!NextHash, BM!Misses, BP!Misses,
       BM!Placed, BP!Placed, BM!AllocateMiss, BP!AllocateMiss, BM!AllocateHit,
       BP!AllocateHit, BM!AllocateFails, BP!AllocateFails, BM!AllocateNext,
       BP!AllocateNext, BM!OpenBlock,
       BP!OpenBlock, BM!PrefixHash, BP!PrefixHash, BM!SealBlock, BP!SealBlock,
       BM!StayInBlock, BP!StayInBlock, BM!MayAppendFails, BP!MayAppendFails,
       BM!MayAppend, BP!MayAppend,
       BM!Unheld, BP!Unheld, BM!DeallocateNext, BP!DeallocateNext

(* A step that leaves the blocks, the tables and the texts alone, and      *)
(* forgets nothing that is still to be written.                            *)
LEMMA SameKeys ==
    ASSUME Keys, UNCHANGED <<blockHash, tokens, table, cached, due, kv>>,
           \A s \in ToRun : s \in ToRun' /\ (Prefilling' <=> Prefilling),
           \A s \in Seqs : OnJob(s) => OnJob(s)',
           Decoding' => Decoding \/ due = {},
           pc' \in {"post", "finish"} => pc \in {"post", "finish"},
           pc' \in {"decode", "append"} => ~isPrefill'
    PROVE  Keys'
<1>1. \A s : LastOf(s)' = LastOf(s)
  BY DEF LastOf
<1> HIDE DEF ToRun, Prefilling, Decoding
<1>2. ASSUME NEW b, Pending(b) PROVE Pending(b)'
  <2>1. PICK s \in ToRun : \E i \in ToWrite(s) : table[s][i] = b
    BY <1>2 DEF Pending
  <2>2. s \in ToRun' /\ ToWrite(s)' = ToWrite(s)
    BY <2>1 DEF ToWrite
  <2> QED BY <2>1, <2>2 DEF Pending
<1>3. HashesWritten'
  BY <1>2 DEF Keys, HashesWritten
<1>4. OpenWritten'
  <2>1. ASSUME NEW s \in Seqs, Extends(s)' PROVE Extends(s)
    BY <2>1 DEF Extends
  <2> QED BY <2>1, <1>1 DEF Keys, OpenWritten
<1>5. LastWritten'
  BY <1>1 DEF Keys, LastWritten
<1> QED BY <1>3, <1>4, <1>5 DEF Keys

(* The steps that only move requests between the queues.                   *)
LEMMA QueueKeys ==
    ASSUME EInv, Keys, ~raised',
           \/ \E s \in Seqs : AddRequest(s)
           \/ BeginStep \/ Admit \/ Admitted \/ PrefillDone \/ Take
           \/ PreemptOther \/ PreemptSelf \/ DecodeDone \/ RunNothing \/ Finish
           \/ EndStep \/ UNCHANGED vars
    PROVE  Keys'
<1>1. /\ QueueTypes /\ TableInv /\ PhaseInv /\ BM!Idle.op = "idle" /\ ~raised
      /\ waiting \in Seq(Seqs) /\ scheduled \in Seq(Seqs)
  BY Parts DEF QueueTypes
<1>2. UNCHANGED <<blockHash, tokens, table, cached, due, kv>>
  BY DEF AddRequest, BeginStep, Admit, Admitted, PrefillDone, Take, PreemptOther,
         PreemptSelf, DecodeDone, RunNothing, Finish, EndStep, vars, bmVars, Preempt,
         Release, BM!BeginAllocate, BM!BeginDeallocate, BM!Fail, BM!blockVars
<1>3. \A s \in Seqs : OnJob(s) => OnJob(s)'
  <2>1. CASE UNCHANGED job
    BY <2>1 DEF OnJob
  <2>2. CASE job = BM!Idle
    BY <2>2 DEF OnJob
  <2> QED BY <2>1, <2>2 DEF AddRequest, BeginStep, Admit, Admitted, PrefillDone, Take,
             PreemptOther, PreemptSelf, DecodeDone, RunNothing, Finish, EndStep, vars,
             bmVars, At
<1>4. pc \in {"decode", "append"} => ~isPrefill
  BY DEF Keys
<1>5. CASE \E s \in Seqs : AddRequest(s)
  <2>1. pc = "idle" /\ pc' = "idle"
    BY <1>5 DEF AddRequest, At
  <2> QED BY <2>1, <1>2, <1>3, SameKeys DEF ToRun, Prefilling, Decoding
<1>6. CASE BeginStep
  <2>1. pc = "idle" /\ pc' = "prefill"
    BY <1>6 DEF BeginStep, At
  <2> QED BY <2>1, <1>2, <1>3, SameKeys DEF ToRun, Prefilling, Decoding
<1>7. CASE Admit
  <2>1. pc = "prefill" /\ pc' = "admit" /\ scheduled' = scheduled
    BY <1>7 DEF Admit, At, batchVars
  <2> QED BY <2>1, <1>2, <1>3, SameKeys DEF ToRun, Prefilling, Decoding
<1>8. CASE Admitted
  <2>1. /\ pc = "admit" /\ pc' = "prefill"
        /\ scheduled' = Append(scheduled, Head(waiting)) /\ waiting # <<>>
    BY <1>1, <1>8 DEF Admitted, At, PhaseInv
  <2>2. Range(scheduled') = Range(scheduled) \cup {Head(waiting)}
    BY <2>1, <1>1, HeadParts, AppendParts
  <2> QED BY <2>1, <2>2, <1>2, <1>3, SameKeys DEF ToRun, Prefilling, Decoding
<1>9. CASE PrefillDone
  <2>1. /\ pc = "prefill" /\ scheduled' = scheduled /\ due = Range(scheduled)
        /\ pc' = IF scheduled # <<>> THEN "run" ELSE "decode"
        /\ isPrefill' = (scheduled # <<>>)
    BY <1>1, <1>9 DEF PrefillDone, At, TableInv, Due
  <2>2. CASE scheduled # <<>>
    BY <2>1, <2>2, <1>2, <1>3, SameKeys DEF ToRun, Prefilling, Decoding
  <2>3. CASE scheduled = <<>>
    BY <2>1, <2>3, <1>2, <1>3, EmptyRange, SameKeys DEF ToRun, Prefilling, Decoding
  <2> QED BY <2>2, <2>3
<1>10. CASE Take
  <2>1. pc = "decode" /\ pc' = "append" /\ scheduled' = scheduled /\ isPrefill' = isPrefill
    BY <1>10 DEF Take, At
  <2> QED BY <2>1, <1>2, <1>3, <1>4, SameKeys DEF ToRun, Prefilling, Decoding
<1>11. CASE PreemptOther \/ PreemptSelf
  <2>1. /\ pc = "append" /\ pc' \in {"append", "decode"}
        /\ scheduled' = scheduled /\ isPrefill' = isPrefill
    BY <1>11 DEF PreemptOther, PreemptSelf, At, batchVars
  <2> QED BY <2>1, <1>2, <1>3, <1>4, SameKeys DEF ToRun, Prefilling, Decoding
<1>12. CASE DecodeDone
  <2>1. /\ pc = "decode" /\ scheduled' = scheduled /\ isPrefill' = isPrefill
        /\ pc' = "run" \/ (pc' = "raised" /\ scheduled = <<>>)
    BY <1>12 DEF DecodeDone, At, batchVars
  <2> QED BY <2>1, <1>2, <1>3, <1>4, EmptyRange, SameKeys DEF ToRun, Prefilling, Decoding
<1>13. CASE Finish
  <2>1. pc = "finish" /\ pc' = "post"
    BY <1>13 DEF Finish, At
  <2> QED BY <2>1, <1>2, <1>3, SameKeys DEF ToRun, Prefilling, Decoding
<1>14. CASE EndStep
  <2>1. pc = "post" /\ pc' = "idle"
    BY <1>14 DEF EndStep, At
  <2> QED BY <2>1, <1>2, <1>3, SameKeys DEF ToRun, Prefilling, Decoding
<1>15. CASE UNCHANGED vars
  <2>1. pc' = pc /\ scheduled' = scheduled /\ isPrefill' = isPrefill /\ waiting' = waiting
    BY <1>15 DEF vars, queueVars, batchVars
  <2> QED BY <2>1, <1>2, <1>3, <1>4, SameKeys DEF ToRun, Prefilling, Decoding
<1>16. CASE RunNothing
  <2>1. /\ pc = "run" /\ pc' = "nothing to run"
        /\ scheduled' = scheduled /\ isPrefill' = isPrefill
    BY <1>16 DEF RunNothing, At, batchVars
  <2> QED BY <2>1, <1>2, <1>3, SameKeys DEF ToRun, Prefilling, Decoding
<1> QED BY <1>5, <1>6, <1>7, <1>8, <1>9, <1>10, <1>11, <1>12, <1>13, <1>14, <1>15, <1>16

(* may_append: whoever is put into the batch will write the block that got *)
(* a hash, or the one that was opened.                                     *)
LEMMA DecodeKeys ==
    ASSUME EInv, KInv, Decode, ~raised' PROVE Keys'
<1>1. /\ QueueTypes /\ TableInv /\ LineInv /\ table \in [Seqs -> Seq(BP!Blocks)]
      /\ BP!OwnInv /\ Keys /\ scheduled \in Seq(Seqs)
  BY Parts DEF KInv, QueueTypes
<1>2. PICK s : s = cur
  OBVIOUS
<1>3. /\ pc = "append" /\ pc' = "decode" /\ job = BM!Idle /\ kv' = kv
      /\ scheduled' = Append(scheduled, s) /\ isPrefill' = isPrefill
      /\ BM!CanAppend(s) /\ BM!MayAppend(s) /\ s \in Seqs
  BY <1>1, <1>2 DEF Decode, At, QueueTypes
<1>4. /\ due = Range(scheduled) /\ s \notin Range(scheduled) /\ table[s] # <<>>
      /\ Range(scheduled') = Range(scheduled) \cup {s}
      /\ Range(scheduled) \subseteq Seqs
  <2>1. Taken = <<s>> /\ Ahead = scheduled /\ Range(Taken) = {s}
    BY <1>2, <1>3, Singleton DEF Taken, Ahead
  <2>2. s \notin Range(scheduled) /\ s \in Active
    BY <1>1, <2>1, LineFacts
  <2>3. Range(scheduled') = Range(scheduled) \cup {s}
    BY <1>1, <1>3, AppendParts
  <2> QED BY <1>1, <1>3, <2>2, <2>3, RangeOfSeq DEF TableInv, Due
<1>5. BP!MayBeExtended(s) /\ BP!MayAppend(s)
  BY <1>3, <1>4, SameCalls DEF BP!MayBeExtended
<1>6. PICK b \in BP!Blocks :
         /\ Len(table'[s]) \in DOMAIN table'[s] /\ table'[s][Len(table'[s])] = b
         /\ \A c \in BP!Blocks \ {b} : blockHash'[c] = blockHash[c]
         /\ \A r \in Seqs \ {s} : table'[r] = table[r]
         /\ BP!Fill(s) # 1 => table'[s] = table[s]
  BY <1>1, <1>3, <1>5, BP!MayAppendEffect, ManagerAssumed DEF EInv
<1>7. tokens' = tokens /\ job' = job /\ due' = due \cup {s}
  BY <1>3, <1>4, MayAppendEffect
<1>8. HashesWritten'
  <2> SUFFICES ASSUME NEW c \in BP!Blocks, blockHash'[c] # BP!NoHash, kv[c] # blockHash'[c]
               PROVE  Pending(c)'
    BY <1>3 DEF HashesWritten, BP!Blocks, BP!NoHash
  <2>1. /\ ToRun = Range(scheduled) /\ ToRun' = Range(scheduled) \cup {s}
        /\ \A r : ToWrite(r) = {Len(table[r])} /\ ToWrite(r)' = {Len(table'[r])}
    BY <1>3, <1>4 DEF ToRun, ToWrite, Prefilling
  <2>2. CASE c = b
    BY <2>1, <2>2, <1>6 DEF Pending
  <2>3. CASE c # b
    <3>1. Pending(c)
      BY <2>3, <1>1, <1>6 DEF Keys, HashesWritten
    <3>2. PICK r \in Range(scheduled) : table[r][Len(table[r])] = c
      BY <3>1, <2>1 DEF Pending
    <3>3. table'[r] = table[r]
      BY <3>2, <1>4, <1>6
    <3> QED BY <3>2, <3>3, <2>1 DEF Pending
  <2> QED BY <2>2, <2>3
<1>9. OpenWritten'
  <2> SUFFICES ASSUME NEW r \in Seqs, Extends(r)'
               PROVE  kv[LastOf(r)'] = Front(tokens[r])
    BY <1>3, <1>7 DEF OpenWritten
  <2>1. table'[r] = table[r]
    <3>1. CASE r = s
      <4>1. BP!Fill(s) # 1
        BY <3>1, <1>7 DEF Extends, BP!Fill
      <4> QED BY <3>1, <4>1, <1>6
    <3>2. CASE r # s
      BY <3>2, <1>6
    <3> QED BY <3>1, <3>2
  <2>2. Extends(r)
    BY <2>1, <1>3, <1>7 DEF Extends, OnJob, Decoding
  <2> QED BY <2>1, <2>2, <1>1 DEF Keys, OpenWritten, LastOf
<1>10. LastWritten' /\ ~isPrefill'
  BY <1>1, <1>3 DEF LastWritten, Keys
<1> QED BY <1>8, <1>9, <1>10 DEF Keys

(* An iteration of allocate: a block that is placed and was not cached     *)
(* will be written, one that was holds what its hash says.                 *)
LEMMA AllocateKeys ==
    ASSUME EInv, KInv, BP!HitsAreOwn, BM!AllocateNext,
           UNCHANGED <<queueVars, batchVars, fixedVars, pc, kv>>, ~raised'
    PROVE  Keys'
<1>1. /\ QueueTypes /\ TableInv /\ BP!OwnInv /\ Keys
      /\ table \in [Seqs -> Seq(BP!Blocks)] /\ BP!AllocateNext
      /\ cached \in [Seqs -> Nat] /\ BlockSize \in Nat
  BY Parts, SameCalls, ManagerAssumption DEF KInv, EInv, BP!IInv, BP!TypeOK
<1>2. PICK s, n : s = job.seq /\ n = Len(table[s]) + 1
  OBVIOUS
<1>3. /\ s \in Seqs /\ job.op = "allocate" /\ job # BM!Idle /\ tokens' = tokens
      /\ \A r \in Seqs \ {s} : table'[r] = table[r]
      /\ \/ job' = BM!Idle /\ due' = due \cup {s}
         \/ job' # BM!Idle /\ job'.seq = s /\ due' = due
  BY <1>2, AllocateEffect
<1>4. /\ pc = "admit" /\ pc' = "admit" /\ s = Head(waiting) /\ waiting' = waiting
      /\ scheduled' = scheduled /\ kv' = kv
  BY <1>1, <1>2, <1>3 DEF TableInv, queueVars, batchVars
<1>5. PICK b \in BP!Blocks :
         /\ n \in DOMAIN table'[s] /\ table'[s][n] = b
         /\ \A r \in Seqs : \A i \in DOMAIN table[r] :
               i \in DOMAIN table'[r] /\ table'[r][i] = table[r][i]
         /\ \A c \in BP!Blocks \ {b} : blockHash'[c] = blockHash[c]
         /\ \/ cached' = cached /\ cached[s] < n * BlockSize
            \/ /\ blockHash' = blockHash
               /\ \A r \in Seqs \ {s} : cached'[r] = cached[r]
               /\ \A i \in DOMAIN table[s] : i * BlockSize <= cached[s]
  <2>1. PICK b \in BP!Blocks : BP!PlacedAt(s, n, b)
    BY <1>1, <1>2, BP!AllocateEffect, ManagerAssumed DEF EInv
  <2> QED BY <2>1 DEF BP!PlacedAt
<1>6. /\ ToRun = Range(scheduled) \cup {s} /\ ToRun' = ToRun /\ ToRun \subseteq Seqs
      /\ \A r : ToWrite(r) = {i \in DOMAIN table[r] : cached[r] < i * BlockSize}
      /\ \A r : ToWrite(r)' = {i \in DOMAIN table'[r] : cached'[r] < i * BlockSize}
  <2>1. Range(scheduled) \subseteq Seqs
    BY <1>1, RangeOfSeq DEF QueueTypes
  <2> QED BY <2>1, <1>3, <1>4 DEF ToRun, ToWrite, Prefilling
<1>7. ASSUME NEW c, Pending(c), NEW r \in ToRun, NEW i \in ToWrite(r), table[r][i] = c,
             cached'[r] = cached[r]
      PROVE  Pending(c)'
  <2>1. r \in Seqs /\ i \in DOMAIN table[r] /\ cached[r] < i * BlockSize
    BY <1>6, <1>7
  <2>2. i \in DOMAIN table'[r] /\ table'[r][i] = c
    BY <2>1, <1>5, <1>7
  <2>3. r \in ToRun' /\ i \in ToWrite(r)'
    BY <2>1, <2>2, <1>6, <1>7
  <2> QED BY <2>2, <2>3 DEF Pending
<1>8. HashesWritten'
  <2> SUFFICES ASSUME NEW c \in BP!Blocks, blockHash'[c] # BP!NoHash, kv[c] # blockHash'[c]
               PROVE  Pending(c)'
    BY <1>4 DEF HashesWritten, BP!Blocks, BP!NoHash
  <2>1. ASSUME blockHash'[c] = blockHash[c]
        PROVE  \E r \in ToRun : \E i \in ToWrite(r) : table[r][i] = c
    BY <2>1, <1>1 DEF Keys, HashesWritten, Pending
  <2>2. CASE cached' = cached /\ cached[s] < n * BlockSize
    <3>1. CASE c = b
      BY <3>1, <2>2, <1>5, <1>6 DEF Pending
    <3>2. CASE c # b
      BY <3>2, <2>1, <2>2, <1>5, <1>7 DEF Pending
    <3> QED BY <3>1, <3>2
  <2>3. CASE /\ blockHash' = blockHash
             /\ \A r \in Seqs \ {s} : cached'[r] = cached[r]
             /\ \A i \in DOMAIN table[s] : i * BlockSize <= cached[s]
    <3>1. PICK r \in ToRun : \E i \in ToWrite(r) : table[r][i] = c
      BY <2>1, <2>3
    <3>2. PICK i \in ToWrite(r) : table[r][i] = c
      BY <3>1
    <3>3. r # s
      <4>1. i \in DOMAIN table[r] /\ cached[r] < i * BlockSize /\ r \in Seqs
        BY <3>2, <1>6
      <4>2. i \in Nat /\ cached[r] \in Nat
        BY <4>1, <1>1, LenProperties
      <4>3. PICK m : m = i * BlockSize
        OBVIOUS
      <4>4. m \in Nat
        BY <4>2, <4>3, <1>1
      <4> QED BY <4>1, <4>2, <4>3, <4>4, <2>3
    <3> QED BY <3>1, <3>2, <3>3, <2>3, <1>6, <1>7 DEF Pending
  <2> QED BY <2>2, <2>3, <1>5
<1>9. OpenWritten'
  <2> SUFFICES ASSUME NEW r \in Seqs, Extends(r)'
               PROVE  kv[LastOf(r)'] = Front(tokens[r])
    BY <1>3, <1>4 DEF OpenWritten
  <2>1. r # s /\ r \notin due
    BY <1>3, <1>4 DEF Extends, OnJob, Decoding
  <2>2. table'[r] = table[r]
    BY <2>1, <1>3
  <2>3. Extends(r)
    BY <2>1, <2>2, <1>2, <1>3 DEF Extends, OnJob
  <2> QED BY <2>2, <2>3, <1>1 DEF Keys, OpenWritten, LastOf
<1>10. LastWritten' /\ pc' \notin {"decode", "append"}
  BY <1>4 DEF LastWritten
<1> QED BY <1>8, <1>9, <1>10 DEF Keys

(* An iteration of deallocate: whose blocks go is in no batch.             *)
LEMMA DeallocateKeys ==
    ASSUME EInv, KInv, BM!DeallocateNext,
           UNCHANGED <<queueVars, batchVars, fixedVars, pc, kv>>, ~raised'
    PROVE  Keys'
<1>1. /\ QueueTypes /\ TableInv /\ BP!OwnInv /\ Keys /\ BP!DeallocateNext
      /\ BP!DueHold /\ BM!Idle = BP!Idle
  BY Parts, SameCalls DEF KInv, EInv, BP!ContentInv
<1>2. PICK s : s = job.seq
  OBVIOUS
<1>3. /\ s \in Seqs /\ job.op = "deallocate" /\ job # BM!Idle /\ tokens' = tokens
      /\ \A r \in Seqs \ {s} : table'[r] = table[r]
      /\ due' = due
      /\ job' = job \/ (job' = BM!Idle /\ table'[s] = <<>>)
  BY <1>2, DeallocateEffect
<1>4. /\ pc \in {"append", "decode", "post"} /\ pc' = pc /\ kv' = kv
      /\ scheduled' = scheduled /\ isPrefill' = isPrefill
  BY <1>1, <1>3 DEF TableInv, batchVars
<1>5. blockHash' = blockHash /\ s \notin due /\ due \subseteq Seqs
  <2>1. blockHash' = blockHash
    BY <1>1, BP!DeallocateOwn, ManagerAssumed DEF EInv
  <2>2. s \notin due
    BY <1>1, <1>2, <1>3 DEF BP!DueHold, BP!OnJob
  <2> QED BY <2>1, <2>2, Parts
<1>6. HashesWritten'
  <2> SUFFICES ASSUME NEW c \in BP!Blocks, Pending(c) PROVE Pending(c)'
    BY <1>1, <1>4, <1>5 DEF Keys, HashesWritten, BP!Blocks, BP!NoHash
  <2>1. /\ ToRun = (IF pc = "post" THEN {} ELSE Range(scheduled)) /\ ToRun' = ToRun
        /\ \A r : ToWrite(r) = {Len(table[r])} /\ ToWrite(r)' = {Len(table'[r])}
    BY <1>4 DEF ToRun, ToWrite, Prefilling
  <2>2. PICK r \in ToRun : table[r][Len(table[r])] = c
    BY <2>1 DEF Pending
  <2>3. r \in due
    BY <2>1, <2>2, <1>1, <1>4 DEF TableInv, Due
  <2>4. table'[r] = table[r]
    BY <2>3, <1>3, <1>5
  <2> QED BY <2>1, <2>2, <2>4 DEF Pending
<1>7. OpenWritten'
  <2> SUFFICES ASSUME NEW r \in Seqs, Extends(r)'
               PROVE  kv[LastOf(r)'] = Front(tokens[r])
    BY <1>3, <1>4 DEF OpenWritten
  <2>1. r # s
    BY <1>2, <1>3 DEF Extends, OnJob
  <2>2. table'[r] = table[r]
    BY <2>1, <1>3
  <2>3. Extends(r)
    BY <2>1, <2>2, <1>2, <1>3, <1>4 DEF Extends, OnJob, Decoding
  <2> QED BY <2>2, <2>3, <1>1 DEF Keys, OpenWritten, LastOf
<1>8. LastWritten'
  <2> SUFFICES ASSUME pc = "post", NEW r \in due, blockHash[LastOf(r)'] = BP!NoHash
               PROVE  kv[LastOf(r)'] = tokens[r]
    BY <1>3, <1>4, <1>5 DEF LastWritten, BP!NoHash
  <2>1. table'[r] = table[r]
    BY <1>3, <1>5
  <2> QED BY <2>1, <1>1 DEF Keys, LastWritten, LastOf
<1> QED BY <1>1, <1>4, <1>6, <1>7, <1>8 DEF Keys

(* The prefix up to a full place, and up to the place where the text ends. *)
LEMMA PrefixToIs ==
    ASSUME EInv, NEW s \in Seqs, NEW i, i * BlockSize \in Nat
    PROVE  /\ i * BlockSize <= Len(tokens[s]) => PrefixTo(s, i) = BP!Prefix(s, i)
           /\ Len(tokens[s]) < i * BlockSize => PrefixTo(s, i) = tokens[s]
<1>1. PICK x, e : x = tokens[s] /\ e = i * BlockSize
  OBVIOUS
<1>2. x \in Seq(Tokens) /\ Len(x) \in Nat /\ e \in Nat
  BY <1>1, Parts
<1>3. SubSeq(x, 1, Len(x)) = x
  BY <1>2, SubSeqFull
<1>4. /\ PrefixTo(s, i) = SubSeq(x, 1, IF e < Len(x) THEN e ELSE Len(x))
      /\ BP!Prefix(s, i) = SubSeq(x, 1, e)
  BY <1>1 DEF PrefixTo, BP!Prefix
<1>5. e <= Len(x) => (IF e < Len(x) THEN e ELSE Len(x)) = e
  BY <1>2
<1>6. Len(x) < e => (IF e < Len(x) THEN e ELSE Len(x)) = Len(x)
  BY <1>2
<1> QED BY <1>1, <1>3, <1>4, <1>5, <1>6

(* What was to be written before a run is what the run writes.             *)
LEMMA RunWrites ==
    ASSUME EInv, pc = "run", NEW s \in Range(scheduled), NEW i \in DOMAIN table[s],
           i \in ToWrite(s)
    PROVE  i \in Written(s)
<1>1. /\ s \in Seqs /\ s \in due /\ BP!IInv /\ BP!ContentInv /\ BP!ContentTypes
      /\ cached[s] \in Nat /\ BlockSize \in Nat \ {0}
  <2>1. s \in due /\ due \subseteq Seqs
    BY Parts DEF TableInv, Due
  <2>2. BP!IInv /\ BP!ContentInv
    BY DEF EInv
  <2>3. BP!ContentTypes
    BY <2>2, BP!Parts, ManagerAssumed
  <2> QED BY <2>1, <2>2, <2>3, ManagerAssumption DEF BP!ContentTypes
<1>2. CASE ~isPrefill
  BY <1>2 DEF ToWrite, Prefilling, Written
<1>3. CASE isPrefill
  <2>1. PICK m, e, q, k : /\ m = cached[s] /\ e = i * BlockSize
                          /\ q = m \div BlockSize /\ k = Len(tokens[s])
    OBVIOUS
  <2>2. /\ m \in Nat /\ q \in Nat /\ m % BlockSize \in 0..(BlockSize - 1)
        /\ m = BlockSize * q + (m % BlockSize)
    BY <2>1, <1>1, BP!DivMod, ManagerAssumed
  <2>3. m < e
    BY <2>1, <1>3 DEF ToWrite, Prefilling
  <2>4. /\ i \in Nat \ {0} /\ e \in Nat /\ k \in Nat \ {0} /\ (i - 1) * BlockSize < k
    BY <2>1, <1>1, BP!Places, ManagerAssumed
  <2>5. q + 1 <= i
    <3>1. q * BlockSize = BlockSize * q /\ q * BlockSize \in Nat
      BY <2>2, <1>1
    <3>2. PICK w : w = q * BlockSize
      OBVIOUS
    <3>3. w < m + 1 /\ m + 1 <= e /\ m + 1 \in Nat /\ q + 1 \in Nat /\ (q + 1) - 1 = q
      BY <2>2, <2>3, <2>4, <3>1, <3>2, <1>1
    <3>4. ((q + 1) - 1) * BlockSize < m + 1 /\ m + 1 <= i * BlockSize
      BY <2>1, <3>2, <3>3
    <3> QED BY <2>4, <3>3, <3>4, BP!NoMoreBlocks, ManagerAssumed
  <2>6. i <= BP!BlocksOf(s) /\ BP!BlocksOf(s) \in Nat
    <3>1. BP!BlocksOf(s) \in Nat \ {0} /\ BP!BlocksOf(s) * BlockSize >= k
      BY <2>1, <1>1, BP!BlocksOfProperties, ManagerAssumed
    <3>2. PICK w, c : w = BP!BlocksOf(s) * BlockSize /\ c = BP!BlocksOf(s)
      OBVIOUS
    <3>3. w \in Nat /\ c \in Nat
      BY <3>1, <3>2, <1>1
    <3>4. k <= c * BlockSize
      BY <3>1, <3>2, <3>3, <2>4
    <3> QED BY <3>2, <3>3, <3>4, <2>4, BP!NoMoreBlocks, ManagerAssumed
  <2>7. i \in (q + 1)..BM!BlocksOf(s)
    BY <2>2, <2>4, <2>5, <2>6, SameCalls
  <2> QED BY <2>1, <2>7, <1>3 DEF Written
<1> QED BY <1>2, <1>3

(* What a run leaves in a block: what it held, or the prefix of a sequence *)
(* of the batch that has the block at a place it writes.                   *)
LEMMA RunLeaves ==
    ASSUME EInv, KInv, Run, NEW b \in BP!Blocks
    PROVE  \/ /\ kv'[b] = kv[b]
              /\ \A s \in Range(scheduled) : \A i \in DOMAIN table[s] : ~Writes(s, i, b)
           \/ \E s \in Range(scheduled) : \E i \in DOMAIN table[s] :
                 Writes(s, i, b) /\ kv'[b] = PrefixTo(s, i)
<1>1. /\ pc = "run" /\ job = BM!Idle /\ TableInv /\ Keys /\ BM!Blocks = BP!Blocks
      /\ Range(scheduled) \subseteq Seqs /\ Range(scheduled) = due
      /\ table \in [Seqs -> Seq(BP!Blocks)]
  <2>1. pc = "run" /\ job = BM!Idle
    BY DEF Run, At
  <2>2. TableInv /\ due \subseteq Seqs
    BY Parts
  <2> QED BY <2>1, <2>2, Parts, SameCalls DEF KInv, TableInv, Due
<1>2. CASE \E s \in Batch : \E i \in DOMAIN table[s] : Writes(s, i, b)
  <2>1. PICK s \in Batch :
           /\ \E i \in DOMAIN table[s] : Writes(s, i, b)
           /\ kv'[b] = Content(s, CHOOSE i \in DOMAIN table[s] : Writes(s, i, b), kv[b])
    BY <1>1, <1>2 DEF Run
  <2>2. PICK i \in DOMAIN table[s] : Writes(s, i, b) /\ kv'[b] = Content(s, i, kv[b])
    BY <2>1
  <2>3. Content(s, i, kv[b]) = PrefixTo(s, i)
    <3>1. CASE isPrefill \/ Len(tokens[s]) % BlockSize = 1
      BY <3>1 DEF Content
    <3>2. CASE ~isPrefill /\ Len(tokens[s]) % BlockSize # 1
      <4>1. s \in Seqs /\ table[s] # <<>> /\ ~OnJob(s)
        BY <2>2, <1>1 DEF Batch, OnJob
      <4>2. Extends(s)
        BY <4>1, <3>2, <1>1 DEF Extends, Decoding
      <4>3. b = LastOf(s)
        BY <2>2, <3>2 DEF Writes, Written, LastOf
      <4> QED BY <4>1, <4>2, <4>3, <1>1 DEF Keys, OpenWritten, Content
    <3> QED BY <3>1, <3>2
  <2> QED BY <2>2, <2>3 DEF Batch
<1>3. CASE ~\E s \in Batch : \E i \in DOMAIN table[s] : Writes(s, i, b)
  BY <1>1, <1>3 DEF Run, Batch
<1> QED BY <1>2, <1>3

(* The run writes what was to be written.                                  *)
LEMMA RunKeys ==
    ASSUME EInv, KInv, Run PROVE Keys'
<1>1. /\ pc = "run" /\ pc' = "post" /\ job = BM!Idle /\ job' = job /\ table' = table
      /\ tokens' = tokens /\ due' = due /\ blockHash' = blockHash /\ cached' = cached
  BY DEF Run, At, bmVars
<1>2. /\ Range(scheduled) = due /\ due \subseteq Seqs /\ Keys
      /\ BP!IInv /\ BP!ContentInv /\ BP!OwnInv /\ BM!Idle = BP!Idle
      /\ table \in [Seqs -> Seq(BP!Blocks)] /\ BP!DueHold
  <2>1. Range(scheduled) = due /\ due \subseteq Seqs
    BY <1>1, Parts DEF TableInv, Due
  <2> QED BY <2>1, Parts, SameCalls DEF EInv, KInv, BP!ContentInv
<1>3. ASSUME NEW s \in Seqs, NEW i \in DOMAIN table[s], NEW b, b = table[s][i]
      PROVE  /\ b \in BP!Blocks /\ i * BlockSize \in Nat /\ Len(tokens[s]) \in Nat
             /\ Len(table[s]) \in DOMAIN table[s]
             /\ <<s, i>> \in BP!Holders(b)
             /\ blockHash[b] = BP!NoHash =>
                   /\ BP!Holders(b) = {<<s, i>>} /\ i = Len(table[s])
                   /\ s \in due => PrefixTo(s, i) = tokens[s]
  <2>1. PICK k : k = Len(tokens[s])
    OBVIOUS
  <2>2. /\ b \in BP!Blocks /\ i * BlockSize \in Nat /\ k \in Nat \ {0}
        /\ Len(table[s]) \in DOMAIN table[s] /\ <<s, i>> \in BP!Holders(b)
        /\ blockHash[b] = BP!NoHash =>
              /\ BP!Holders(b) = {<<s, i>>} /\ i = Len(table[s])
              /\ s \in due => k < i * BlockSize
    BY <2>1, <1>2, <1>3, BP!Places, ManagerAssumed
  <2>3. k < i * BlockSize => PrefixTo(s, i) = tokens[s]
    BY <2>1, <2>2, PrefixToIs
  <2> QED BY <2>1, <2>2, <2>3
<1>7. ASSUME NEW s \in Seqs, NEW i \in DOMAIN table[s], blockHash[table[s][i]] # BP!NoHash
      PROVE  PrefixTo(s, i) = blockHash[table[s][i]]
  <2>1. PICK b, k : b = table[s][i] /\ k = Len(tokens[s])
    OBVIOUS
  <2>2. b \in BP!Blocks /\ i * BlockSize \in Nat /\ i * BlockSize <= k
    BY <2>1, <1>2, <1>7, BP!Places, ManagerAssumed
  <2>3. blockHash[b] = BP!Prefix(s, i)
    BY <2>1, <2>2, <1>2, <1>7 DEF BP!OwnInv, BP!HashesAreOwn
  <2>4. PrefixTo(s, i) = BP!Prefix(s, i)
    BY <2>1, <2>2, PrefixToIs
  <2> QED BY <2>1, <2>3, <2>4
<1>4. HashesWritten'
  <2> SUFFICES ASSUME NEW b \in BP!Blocks, blockHash[b] # BP!NoHash PROVE kv'[b] = blockHash[b]
    BY <1>1 DEF HashesWritten, BP!Blocks, BP!NoHash
  <2>1. CASE \E s \in Range(scheduled) : \E i \in DOMAIN table[s] :
                Writes(s, i, b) /\ kv'[b] = PrefixTo(s, i)
    <3>1. PICK s \in Range(scheduled) : \E i \in DOMAIN table[s] :
                  Writes(s, i, b) /\ kv'[b] = PrefixTo(s, i)
      BY <2>1
    <3>2. PICK i \in DOMAIN table[s] : Writes(s, i, b) /\ kv'[b] = PrefixTo(s, i)
      BY <3>1
    <3>3. s \in Seqs /\ b = table[s][i]
      BY <3>2, <1>2 DEF Writes
    <3>4. PrefixTo(s, i) = blockHash[b]
      BY <3>3, <1>7
    <3> QED BY <3>2, <3>4
  <2>2. CASE /\ kv'[b] = kv[b]
             /\ \A s \in Range(scheduled) : \A i \in DOMAIN table[s] : ~Writes(s, i, b)
    <3>1. SUFFICES ASSUME kv[b] # blockHash[b] PROVE FALSE
      BY <2>2
    <3>2. Pending(b)
      BY <3>1, <1>2 DEF Keys, HashesWritten
    <3>3. PICK s \in Range(scheduled) : \E i \in ToWrite(s) : table[s][i] = b
      BY <3>2, <1>1 DEF Pending, ToRun
    <3>4. PICK i \in ToWrite(s) : table[s][i] = b
      BY <3>3
    <3>5. i \in DOMAIN table[s]
      <4>1. table[s] # <<>>
        BY <1>2 DEF BP!DueHold
      <4>2. Len(table[s]) \in DOMAIN table[s]
        BY <4>1, <1>2, EmptySeq, LenProperties
      <4> QED BY <4>2, <3>4 DEF ToWrite
    <3>6. i \in Written(s)
      BY <3>4, <3>5, <1>1, RunWrites
    <3> QED BY <3>4, <3>5, <3>6, <2>2 DEF Writes
  <2> QED BY <2>1, <2>2, RunLeaves
<1>5. OpenWritten'
  <2> SUFFICES ASSUME NEW r \in Seqs, Extends(r)'
               PROVE  kv'[LastOf(r)] = Front(tokens[r])
    BY <1>1 DEF OpenWritten, LastOf
  <2>1. /\ r \notin due /\ Extends(r) /\ table[r] # <<>> /\ ~OnJob(r)
        /\ Len(tokens[r]) % BlockSize # 1
    BY <1>1 DEF Extends, OnJob, Decoding
  <2>2. PICK b, n : b = LastOf(r) /\ n = Len(table[r])
    OBVIOUS
  <2>3. n \in DOMAIN table[r] /\ table[r][n] = b
    BY <2>1, <2>2, <1>2, EmptySeq, LenProperties DEF LastOf
  <2>4. blockHash[b] = BP!NoHash
    <3>1. BP!Fill(r) # 1 /\ job = BP!Idle
      BY <2>1, <1>1, <1>2 DEF BP!Fill
    <3> QED BY <3>1, <2>1, <2>2, <1>2, BP!OpenLast, ManagerAssumed DEF LastOf
  <2>5. BP!Holders(b) = {<<r, n>>} /\ b \in BP!Blocks
    BY <2>3, <2>4, <1>3
  <2>6. \A s \in Range(scheduled) : \A i \in DOMAIN table[s] : ~Writes(s, i, b)
    <3> SUFFICES ASSUME NEW s \in Range(scheduled), NEW i \in DOMAIN table[s],
                        Writes(s, i, b)
                 PROVE  FALSE
      OBVIOUS
    <3>1. s \in Seqs /\ s \in due /\ b = table[s][i]
      BY <1>2 DEF Writes
    <3>2. <<s, i>> \in BP!Holders(b)
      BY <3>1, <1>3
    <3> QED BY <3>1, <3>2, <2>1, <2>5
  <2>7. kv'[b] = kv[b]
    BY <2>5, <2>6, RunLeaves
  <2> QED BY <2>1, <2>2, <2>7, <1>2 DEF Keys, OpenWritten
<1>6. LastWritten'
  <2> SUFFICES ASSUME NEW s \in due, blockHash[LastOf(s)] = BP!NoHash
               PROVE  kv'[LastOf(s)] = tokens[s]
    BY <1>1 DEF LastWritten, LastOf, BP!NoHash
  <2>1. PICK b, n : b = LastOf(s) /\ n = Len(table[s])
    OBVIOUS
  <2>2. s \in Seqs /\ n \in DOMAIN table[s] /\ table[s][n] = b
    <3>1. table[s] # <<>> /\ s \in Seqs
      BY <1>2 DEF BP!DueHold
    <3> QED BY <3>1, <2>1, <1>2, EmptySeq, LenProperties DEF LastOf
  <2>3. BP!Holders(b) = {<<s, n>>} /\ PrefixTo(s, n) = tokens[s] /\ b \in BP!Blocks
    BY <2>1, <2>2, <1>3
  <2>4. n \in ToWrite(s)
    <3>1. CASE Prefilling
      <4>1. ~BP!Draining(s)
        BY <1>1, <1>2 DEF BP!Draining, BP!Idle
      <4>2. cached[s] < n * BlockSize
        BY <4>1, <2>1, <2>2, <2>3, <1>2 DEF BP!OwnInv, BP!CachedFits
      <4> QED BY <3>1, <4>2, <2>2 DEF ToWrite
    <3>2. CASE ~Prefilling
      BY <3>2, <2>1 DEF ToWrite
    <3> QED BY <3>1, <3>2
  <2>5. Writes(s, n, b)
    BY <2>2, <2>4, <1>1, <1>2, RunWrites DEF Writes
  <2>6. PICK r \in Range(scheduled) : \E i \in DOMAIN table[r] :
                Writes(r, i, b) /\ kv'[b] = PrefixTo(r, i)
    BY <2>2, <2>3, <2>5, <1>2, RunLeaves
  <2>7. PICK i \in DOMAIN table[r] : Writes(r, i, b) /\ kv'[b] = PrefixTo(r, i)
    BY <2>6
  <2>8. <<r, i>> \in BP!Holders(b)
    BY <2>7, <1>2, <1>3 DEF Writes
  <2> QED BY <2>1, <2>3, <2>7, <2>8
<1> QED BY <1>1, <1>4, <1>5, <1>6 DEF Keys

(* What was there before the last token.                                   *)
LEMMA FrontOfAppend ==
    ASSUME NEW S, NEW q \in Seq(S), NEW e \in S
    PROVE  Front(Append(q, e)) = q /\ Len(Append(q, e)) = Len(q) + 1
<1>1. PICK r, n : r = Append(q, e) /\ n = Len(q)
  OBVIOUS
<1>2. /\ r \in Seq(S) /\ n \in Nat /\ Len(r) = n + 1 /\ \A i \in 1..n : r[i] = q[i]
      /\ r # <<>>
  BY <1>1, AppendProperties
<1>3. Front(r) = BP!Front(r)
  BY DEF Front, BP!Front
<1>4. /\ Front(r) \in Seq(S) /\ Len(Front(r)) = Len(r) - 1
      /\ \A i \in 1..(Len(r) - 1) : Front(r)[i] = r[i]
  <2>1. r \in Seq(S) /\ r # <<>>
    BY <1>2
  <2>2. /\ BP!Front(r) \in Seq(S) /\ Len(BP!Front(r)) = Len(r) - 1
        /\ \A i \in 1..(Len(r) - 1) : BP!Front(r)[i] = r[i]
    BY <2>1, BP!FrontProperties, ManagerAssumed
  <2> QED BY <2>2, <1>3
<1>5. PICK f : f = Front(r)
  OBVIOUS
<1>6. Len(r) - 1 = n
  BY <1>2
<1>7. f \in Seq(S) /\ Len(f) = n /\ \A i \in 1..n : f[i] = q[i]
  BY <1>2, <1>4, <1>5, <1>6
<1>8. f = q
  BY <1>1, <1>7, SeqEqual
<1> QED BY <1>1, <1>2, <1>5, <1>8

(* A token is sampled: the last block is written up to it.                 *)
LEMMA PostprocessKeys ==
    ASSUME EInv, KInv, Postprocess PROVE Keys'
<1>1. PICK s : s = Head(left)
  OBVIOUS
<1>2. /\ pc = "post" /\ pc' \in {"post", "finish"} /\ job = BM!Idle /\ job' = job
      /\ kv' = kv /\ table' = table /\ blockHash' = blockHash /\ cached' = cached
      /\ due' = due \ {s} /\ left # <<>>
  BY <1>1 DEF Postprocess, At, BM!AppendToken, BM!blockVars
<1>3. PICK x \in Tokens : tokens' = [tokens EXCEPT ![s] = Append(tokens[s], x)]
  <2>1. left \in Seq(Seqs) /\ PhaseInv
    BY Parts DEF QueueTypes
  <2>2. s \in Range(left)
    BY <2>1, <1>1, <1>2, HeadParts
  <2>3. drawn[s] \in Tokens
    BY <2>1, <2>2, <1>2 DEF PhaseInv
  <2> QED BY <2>3, <1>1 DEF Postprocess, BM!AppendToken
<1>4. /\ s \in Seqs /\ s \in due /\ Keys /\ BP!IInv /\ BP!ContentInv
      /\ tokens \in [Seqs -> Seq(Tokens)] /\ due \subseteq Seqs
  <2>1. left \in Seq(Seqs) /\ TableInv
    BY Parts DEF QueueTypes
  <2>2. s \in Seqs /\ s \in Range(left)
    BY <2>1, <1>1, <1>2, HeadParts
  <2> QED BY <2>1, <2>2, <1>2, Parts DEF TableInv, Due, EInv, KInv
<1>5. HashesWritten'
  <2>1. ToRun = {} /\ ToRun' = {}
    BY <1>2 DEF ToRun
  <2> QED BY <2>1, <1>2, <1>4 DEF Keys, HashesWritten, Pending, BP!Blocks, BP!NoHash
<1>6. OpenWritten'
  <2> SUFFICES ASSUME NEW r \in Seqs, Extends(r)'
               PROVE  kv[LastOf(r)] = Front(tokens'[r])
    BY <1>2 DEF OpenWritten, LastOf
  <2>1. CASE r = s
    <3>1. PICK k : k = Len(tokens[s]) + 1
      OBVIOUS
    <3>2. /\ Len(tokens'[s]) = k /\ Front(tokens'[s]) = tokens[s]
      <4>1. tokens'[s] = Append(tokens[s], x) /\ tokens[s] \in Seq(Tokens)
        BY <1>3, <1>4
      <4> QED BY <4>1, <3>1, <1>3, FrontOfAppend
    <3>3. k % BlockSize # 1
      BY <2>1, <3>2 DEF Extends
    <3>4. blockHash[LastOf(s)] = BP!NoHash
      BY <3>1, <3>3, <1>4, BP!FullLast, ManagerAssumed DEF LastOf
    <3> QED BY <2>1, <3>2, <3>4, <1>2, <1>4 DEF Keys, LastWritten
  <2>2. CASE r # s
    <3>1. tokens'[r] = tokens[r]
      BY <2>2, <1>3, <1>4
    <3>2. Extends(r)
      BY <2>2, <3>1, <1>2 DEF Extends, OnJob, Decoding
    <3> QED BY <3>1, <3>2, <1>4 DEF Keys, OpenWritten
  <2> QED BY <2>1, <2>2
<1>7. LastWritten'
  <2> SUFFICES ASSUME NEW r \in due', blockHash[LastOf(r)] = BP!NoHash
               PROVE  kv[LastOf(r)] = tokens'[r]
    BY <1>2 DEF LastWritten, LastOf, BP!NoHash
  <2>1. r \in due /\ r # s /\ tokens'[r] = tokens[r]
    BY <1>2, <1>3, <1>4
  <2> QED BY <2>1, <1>2, <1>4 DEF Keys, LastWritten
<1> QED BY <1>2, <1>5, <1>6, <1>7 DEF Keys
-----------------------------------------------------------------------------
(* Nothing is held at first, and nothing written.                          *)
LEMMA InitKeys == Init => KInv
<1> SUFFICES ASSUME Init PROVE KInv
  OBVIOUS
<1>1. BP!OwnInv
  <2>1. BP!Init
    BY SameInit DEF Init
  <2> QED BY <2>1, BP!InitOwn, ManagerAssumed
<1>2. /\ pc = "idle" /\ blockHash = [b \in BP!Blocks |-> BP!NoHash]
      /\ table = [s \in Seqs |-> <<>>]
  <2>1. BP!Init
    BY SameInit DEF Init
  <2> QED BY <2>1 DEF Init, BP!Init
<1>3. Keys
  BY <1>2 DEF Keys, HashesWritten, OpenWritten, LastWritten, Extends
<1> QED BY <1>1, <1>3 DEF KInv

(* As long as hits are of the same prefix, every step keeps the invariant. *)
LEMMA NextKeys ==
    ASSUME EInv, EInv', KInv, BP!HitsAreOwn, [Next]_vars PROVE KInv'
<1>1. ~raised'
  BY ManagerKept
<1>2. BP!OwnInv'
  <2>1. BM!bmVars = BP!bmVars
    BY DEF BM!bmVars, BP!bmVars, BM!blockVars, BP!blockVars, BM!poolVars, BP!poolVars
  <2>2. UNCHANGED BM!bmVars => UNCHANGED BP!bmVars
    BY DEF BM!bmVars, BP!bmVars, BM!blockVars, BP!blockVars, BM!poolVars, BP!poolVars
  <2>3. [BP!Next]_BP!bmVars
    BY <2>1, <2>2, StepCalls, SameNext
  <2> QED BY <2>3, BP!NextOwn, ManagerAssumed DEF EInv, KInv
<1>3. CASE \/ \E s \in Seqs : AddRequest(s)
           \/ BeginStep \/ Admit \/ Admitted \/ PrefillDone \/ Take
           \/ PreemptOther \/ PreemptSelf \/ DecodeDone \/ RunNothing \/ Finish
           \/ EndStep \/ UNCHANGED vars
  BY <1>1, <1>2, <1>3, QueueKeys DEF KInv
<1>4. CASE Decode
  BY <1>1, <1>2, <1>4, DecodeKeys DEF KInv
<1>5. CASE Run
  BY <1>2, <1>5, RunKeys DEF KInv
<1>6. CASE Postprocess
  BY <1>2, <1>6, PostprocessKeys DEF KInv
<1>7. CASE ManagerLoop
  BY <1>1, <1>2, <1>7, AllocateKeys, DeallocateKeys DEF KInv, ManagerLoop
<1> QED BY <1>3, <1>4, <1>5, <1>6, <1>7 DEF Next, Engine

(* Behind the run a block with a hash holds the prefix it digests, and the *)
(* one at the end of a table all the tokens there are.                     *)
LEMMA KeysShow ==
    ASSUME EInv, KInv PROVE KVMatches
<1> SUFFICES ASSUME pc = "post", NEW s \in Range(left), NEW i \in DOMAIN table[s]
             PROVE  kv[table[s][i]] = PrefixTo(s, i)
  BY DEF KVMatches
<1>1. s \in due /\ s \in Seqs /\ BP!IInv /\ BP!ContentInv /\ BP!OwnInv /\ Keys
  <2>1. TableInv /\ due \subseteq Seqs
    BY Parts
  <2> QED BY <2>1 DEF TableInv, Due, EInv, KInv
<1>2. PICK b, k : b = table[s][i] /\ k = Len(tokens[s])
  OBVIOUS
<1>3. /\ b \in BP!Blocks /\ i * BlockSize \in Nat /\ k \in Nat
      /\ blockHash[b] # BP!NoHash => i * BlockSize <= k
      /\ blockHash[b] = BP!NoHash => i = Len(table[s]) /\ k < i * BlockSize
  BY <1>1, <1>2, BP!Places, ManagerAssumed
<1>4. /\ i * BlockSize <= k => PrefixTo(s, i) = BP!Prefix(s, i)
      /\ k < i * BlockSize => PrefixTo(s, i) = tokens[s]
  BY <1>1, <1>2, <1>3, PrefixToIs
<1>5. CASE blockHash[b] # BP!NoHash
  <2>1. blockHash[b] = BP!Prefix(s, i)
    BY <1>1, <1>2, <1>3, <1>5 DEF BP!OwnInv, BP!HashesAreOwn
  <2>2. kv[b] = blockHash[b]
    BY <1>1, <1>3, <1>5 DEF Keys, HashesWritten, Pending, ToRun
  <2> QED BY <2>1, <2>2, <1>2, <1>3, <1>4, <1>5
<1>6. CASE blockHash[b] = BP!NoHash
  BY <1>1, <1>2, <1>3, <1>4, <1>6 DEF Keys, LastWritten, LastOf
<1> QED BY <1>5, <1>6

(* The keys and values a sequence attends to are those of its own prefix,  *)
(* however blocks are shared, preempted and reused, as long as what a hit  *)
(* finds was computed for the same prefix.  The code compares the tokens   *)
(* of the block alone: the run ServingStale shows that this is not enough  *)
(* without that hypothesis.                                                *)
THEOREM KeysMatch == Spec /\ []BP!HitsAreOwn => []KVMatches
<1>1. Init => EInv /\ KInv
  BY InitEInv, InitKeys
<1>2. EInv /\ KInv /\ BP!HitsAreOwn /\ [Next]_vars => (EInv /\ KInv)'
  BY NextEInv, NextKeys
<1>3. EInv /\ KInv => KVMatches
  BY KeysShow
<1> QED BY <1>1, <1>2, <1>3, PTL DEF Spec
-----------------------------------------------------------------------------
(* Texts[n] has the texts that a request with a prompt of n tokens may     *)
(* have: its prompt, and what max_tokens lets it grow to by tokens sampled *)
(* after any text of the service, since a prompt that is cached to its end *)
(* is continued by the row of another sequence.                            *)
AllOf(Texts) == UNION {Texts[n] : n \in Nat}

GrowIn(Texts) ==
    /\ \A p \in Prompts : p \in Texts[Len(p)]
    /\ \A n \in Nat : \A x \in Texts[n] : \A y \in AllOf(Texts) :
          \A t \in Tokens \cap Samples(y) :
             Len(x) + 1 < n + MaxTokens => Append(x, t) \in Texts[n]

(* Whoever is not finished has such a text; the last token is not served.  *)
TextsServed(Texts) ==
    \A s \in Seqs : status[s] # "FINISHED" =>
        tokens[s] \in Texts[promptLen[s]] \/ (pc = "finish" /\ s = Head(left))

(* What has been sampled was sampled after such a text.                    *)
DrawnFrom(Texts) ==
    pc \in {"post", "finish"} =>
        \A s \in Range(left) : \E y \in AllOf(Texts) : drawn[s] \in Samples(y)

TextInv(Texts) ==
    TextsServed(Texts) /\ DrawnFrom(Texts) /\ BP!BlocksFrom(AllOf(Texts))

(* Only postprocess lets a text grow.                                      *)
LEMMA NextServed ==
    ASSUME NEW Texts, GrowIn(Texts), EInv, TextsServed(Texts), DrawnFrom(Texts),
           [Next]_vars
    PROVE  TextsServed(Texts)'
<1>1. /\ QueueTypes /\ LineInv /\ PhaseInv /\ LengthInv
      /\ tokens \in [Seqs -> Seq(Tokens)]
  BY Parts
<1>2. ASSUME pc # "finish", UNCHANGED <<tokens, promptLen>>,
             \A s \in Seqs : status'[s] # "FINISHED" => status[s] # "FINISHED"
      PROVE  TextsServed(Texts)'
  BY <1>2 DEF TextsServed
<1>3. \A s \in Range(Line) : s \in Seqs /\ status[s] # "FINISHED"
  BY <1>1, LineFacts
<1>4. /\ Range(Line) = Active \cup Range(waiting)
      /\ Active = Range(Ahead) \cup Range(Taken) \cup Range(running)
  BY <1>1, LineFacts
<1> HIDE DEF Line, Active
<1>5. CASE \E s \in Seqs : AddRequest(s)
  BY <1>1, <1>2, <1>5 DEF AddRequest, At, bmVars, QueueTypes
<1>6. CASE BeginStep \/ Admit \/ PrefillDone \/ Take \/ Decode \/ DecodeDone \/ Run
           \/ RunNothing \/ EndStep
  BY <1>2, <1>6 DEF BeginStep, Admit, PrefillDone, Take, Decode, DecodeDone, Run,
         RunNothing, EndStep, At, bmVars, queueVars, fixedVars, BM!BeginAllocate, BM!MayAppend, BM!Fail
<1>7. CASE Admitted
  <2>1. /\ pc = "admit" /\ waiting # <<>> /\ UNCHANGED <<tokens, promptLen>>
        /\ status' = [status EXCEPT ![Head(waiting)] = "RUNNING"]
    BY <1>1, <1>7 DEF Admitted, At, bmVars, fixedVars, PhaseInv
  <2>2. status[Head(waiting)] # "FINISHED" /\ Head(waiting) \in Seqs
    BY <2>1, <1>1, <1>3, <1>4, HeadParts DEF QueueTypes
  <2> QED BY <2>1, <2>2, <1>1, <1>2 DEF QueueTypes
<1>8. CASE PreemptOther \/ PreemptSelf
  <2>1. PICK s : s = IF running # <<>> THEN Last(running) ELSE cur
    OBVIOUS
  <2>2. /\ pc = "append" /\ UNCHANGED <<tokens, promptLen>>
        /\ status' = [status EXCEPT ![s] = "WAITING"]
    BY <2>1, <1>8 DEF PreemptOther, PreemptSelf, Preempt, Release, At, BM!BeginDeallocate,
           fixedVars
  <2>3. Taken = <<cur>> /\ cur \in Seqs
    BY <2>2, <1>1 DEF Taken, QueueTypes
  <2>4. s \in Range(running) \/ s \in Range(Taken)
    <3>1. running \in Seq(Seqs) /\ Range(Taken) = {cur}
      BY <2>3, <1>1, Singleton DEF QueueTypes
    <3>2. CASE running # <<>>
      BY <2>1, <3>1, <3>2, LastParts
    <3>3. CASE running = <<>>
      BY <2>1, <3>1, <3>3
    <3> QED BY <3>2, <3>3
  <2>5. status[s] # "FINISHED" /\ s \in Seqs
    BY <2>4, <1>3, <1>4
  <2> QED BY <2>2, <2>5, <1>1, <1>2 DEF QueueTypes
<1>9. CASE Postprocess
  <2>1. PICK s : s = Head(left)
    OBVIOUS
  <2>2. PICK t :
           /\ t = drawn[s]
           /\ tokens' = [tokens EXCEPT ![s] = Append(tokens[s], t)]
           /\ pc' = IF Ends(s, t) THEN "finish" ELSE "post"
           /\ left' = IF Ends(s, t) THEN left ELSE Tail(left)
           /\ pc = "post" /\ left # <<>> /\ UNCHANGED <<status, promptLen>>
    BY <2>1, <1>9 DEF Postprocess, At, BM!AppendToken, queueVars, fixedVars
  <2>3. /\ s \in Seqs /\ s \in Range(running)
        /\ t \in Tokens /\ \E y \in AllOf(Texts) : t \in Samples(y)
    <3>1. s \in Seqs /\ s \in Range(left)
      BY <2>1, <2>2, <1>1, HeadParts DEF QueueTypes
    <3> QED BY <3>1, <2>2, <1>1 DEF PhaseInv, DrawnFrom
  <2>4. \A r \in Seqs \ {s} : tokens'[r] = tokens[r]
    BY <2>2, <2>3, <1>1
  <2>5. CASE Ends(s, t)
    BY <2>1, <2>2, <2>4, <2>5 DEF TextsServed
  <2>6. CASE ~Ends(s, t)
    <3>1. s \in Range(Line)
      BY <2>3, <1>4
    <3>2. /\ tokens[s] \in Texts[promptLen[s]] /\ promptLen[s] \in Nat
          /\ Len(tokens[s]) < promptLen[s] + MaxTokens
      BY <2>2, <2>3, <3>1, <1>1, <1>3 DEF TextsServed, LengthInv, QueueTypes
    <3>3. Len(tokens[s]) + 1 < promptLen[s] + MaxTokens
      <4>1. Len(tokens[s]) + 1 - promptLen[s] # MaxTokens
        BY <2>6 DEF Ends
      <4>2. PICK k, n : k = Len(tokens[s]) /\ n = promptLen[s]
        OBVIOUS
      <4>3. k \in Nat /\ n \in Nat /\ MaxTokens \in Nat
        BY <4>2, <3>2, <2>3, <1>1, LenProperties, EngineAssumption
      <4>4. k + 1 - n # MaxTokens /\ k < n + MaxTokens
        BY <4>1, <4>2, <3>2
      <4>5. k + 1 < n + MaxTokens
        BY ONLY <4>3, <4>4
      <4> QED BY <4>2, <4>5
    <3>4. tokens'[s] \in Texts[promptLen[s]]
      BY <3>2, <3>3, <2>2, <2>3, <1>1 DEF GrowIn
    <3> QED BY <2>2, <2>4, <3>4 DEF TextsServed
  <2> QED BY <2>5, <2>6
<1>10. CASE Finish
  <2>1. /\ pc = "finish" /\ UNCHANGED <<tokens, promptLen>>
        /\ status' = [status EXCEPT ![Head(left)] = "FINISHED"]
    BY <1>10 DEF Finish, Release, At, BM!BeginDeallocate, fixedVars
  <2> QED BY <2>1, <1>1 DEF TextsServed, QueueTypes
<1>11. CASE ManagerLoop
  <2>1. UNCHANGED <<tokens, promptLen, status, pc, left>>
    BY <1>11 DEF ManagerLoop, queueVars, batchVars, fixedVars, BM!AllocateNext,
           BM!AllocateMiss, BM!AllocateHit, BM!AllocateFails, BM!Placed, BM!Fail,
           BM!DeallocateNext
  <2> QED BY <2>1 DEF TextsServed
<1>12. CASE UNCHANGED vars
  <2>1. UNCHANGED <<tokens, promptLen, status, pc, left>>
    BY <1>12 DEF vars, bmVars, queueVars, batchVars, fixedVars
  <2> QED BY <2>1 DEF TextsServed
<1> QED BY <1>5, <1>6, <1>7, <1>8, <1>9, <1>10, <1>11, <1>12 DEF Next, Engine

(* Only a run samples, after the text of one of its batch.                 *)
LEMMA NextDrawn ==
    ASSUME NEW Texts, EInv, TextsServed(Texts), DrawnFrom(Texts), [Next]_vars
    PROVE  DrawnFrom(Texts)'
<1>1. /\ QueueTypes /\ LineInv /\ PhaseInv
  BY Parts
<1>2. CASE Run
  <2>1. pc = "run" /\ left' = scheduled /\ scheduled \in Seq(Seqs)
    BY <1>1, <1>2 DEF Run, At, QueueTypes
  <2>2. ASSUME NEW s \in Range(scheduled) PROVE tokens[s] \in AllOf(Texts)
    <3>1. s \in Range(running)
      BY <2>1, <2>2, <1>1 DEF PhaseInv
    <3>2. s \in Seqs /\ status[s] # "FINISHED"
      BY <3>1, <1>1, LineFacts
    <3> QED BY <3>2, <2>1, <1>1 DEF TextsServed, AllOf, QueueTypes
  <2>3. ASSUME NEW s \in Range(scheduled)
        PROVE  \E y \in AllOf(Texts) : drawn'[s] \in Samples(y)
    <3>1. PICK i \in DOMAIN scheduled : s = scheduled[i]
      BY DEF Range
    <3>2. PICK j \in DOMAIN scheduled : drawn'[s] \in Samples(tokens[scheduled[j]])
      BY <3>1, <1>2 DEF Run
    <3>3. scheduled[j] \in Range(scheduled)
      BY DEF Range
    <3> QED BY <3>2, <3>3, <2>2
  <2> QED BY <2>1, <2>3 DEF DrawnFrom
<1>3. CASE Postprocess \/ Finish
  <2>1. /\ pc \in {"post", "finish"} /\ left \in Seq(Seqs) /\ left # <<>>
        /\ left' \in {left, Tail(left)} /\ drawn' = drawn
    BY <1>1, <1>3 DEF Postprocess, Finish, At, QueueTypes, PhaseInv
  <2>2. Range(Tail(left)) \subseteq Range(left)
    BY <2>1, HeadParts
  <2>3. Range(left') \subseteq Range(left)
    BY <2>1, <2>2
  <2> QED BY <2>1, <2>3 DEF DrawnFrom
<1>4. CASE ManagerLoop \/ UNCHANGED vars
  <2>1. pc' = pc /\ left' = left /\ drawn' = drawn
    BY <1>4 DEF ManagerLoop, vars, batchVars
  <2> QED BY <2>1 DEF DrawnFrom
<1>5. CASE \/ \E s \in Seqs : AddRequest(s)
           \/ BeginStep \/ Admit \/ Admitted \/ PrefillDone \/ Take \/ Decode
           \/ PreemptOther \/ PreemptSelf \/ DecodeDone \/ RunNothing \/ EndStep
  <2>1. pc' \notin {"post", "finish"}
    BY <1>5 DEF AddRequest, BeginStep, Admit, Admitted, PrefillDone, Take, Decode,
           PreemptOther, PreemptSelf, DecodeDone, RunNothing, EndStep, At
  <2> QED BY <2>1 DEF DrawnFrom
<1> QED BY <1>2, <1>3, <1>4, <1>5 DEF Next, Engine

(* So over texts in which a full block tells all that is before it, what a *)
(* hit finds was computed for the same prefix.                             *)
LEMMA NextTextInv ==
    ASSUME NEW Texts, GrowIn(Texts), BP!OneTextPerBlock(AllOf(Texts)),
           EInv, EInv', KInv, TextInv(Texts), [Next]_vars
    PROVE  KInv' /\ TextInv(Texts)'
<1>1. /\ QueueTypes /\ LineInv /\ PhaseInv /\ TableInv
      /\ BP!IInv /\ BP!ContentInv /\ BP!OwnInv /\ ~raised'
  BY Parts, ManagerKept DEF EInv, KInv
<1>2. ASSUME NEW s \in Seqs, status[s] # "FINISHED", pc # "finish"
      PROVE  tokens[s] \in AllOf(Texts)
  BY <1>1, <1>2 DEF TextInv, TextsServed, AllOf, QueueTypes
<1>3. \A s \in Range(Line) : s \in Seqs /\ status[s] # "FINISHED"
  BY <1>1, LineFacts
<1>4. /\ Range(Line) = Active \cup Range(waiting)
      /\ Active = Range(Ahead) \cup Range(Taken) \cup Range(running)
  BY <1>1, LineFacts
<1> HIDE DEF Line, Active
<1>5. job.op = "allocate" => tokens[job.seq] \in AllOf(Texts)
  <2> SUFFICES ASSUME job.op = "allocate" PROVE tokens[job.seq] \in AllOf(Texts)
    OBVIOUS
  <2>1. pc = "admit" /\ job.seq = Head(waiting) /\ waiting # <<>> /\ waiting \in Seq(Seqs)
    BY <1>1 DEF TableInv, PhaseInv, QueueTypes
  <2>2. Head(waiting) \in Range(waiting)
    BY <2>1, HeadParts
  <2> QED BY <2>1, <2>2, <1>2, <1>3, <1>4
<1>6. \A s \in due' \ due : tokens[s] \in AllOf(Texts)
  <2>1. CASE Decode
    <3>1. pc = "append" /\ cur \in Seqs /\ due' = due \cup {cur}
      BY <2>1, <1>1 DEF Decode, At, QueueTypes, BM!MayAppend, BM!Fail
    <3>2. Taken = <<cur>>
      BY <3>1 DEF Taken
    <3>3. cur \in Range(Taken)
      BY <3>1, <3>2, Singleton
    <3>4. status[cur] # "FINISHED"
      BY <3>3, <1>3, <1>4
    <3> QED BY <3>1, <3>4, <1>2
  <2>2. CASE BM!AllocateNext
    <3>1. job.op = "allocate" /\ due' \subseteq due \cup {job.seq}
      BY <2>2, <1>1, AllocateEffect
    <3> QED BY <3>1, <1>5
  <2>3. CASE due' \subseteq due
    BY <2>3
  <2>4. BM!DeallocateNext => due' = due
    BY <1>1 DEF BM!DeallocateNext, BM!Fail
  <2>5. Postprocess => due' \subseteq due
    BY DEF Postprocess, BM!AppendToken
  <2>6. \/ \E s \in Seqs : AddRequest(s)
        \/ BeginStep \/ Admit \/ Admitted \/ PrefillDone \/ Take
        \/ PreemptOther \/ PreemptSelf \/ DecodeDone \/ Finish \/ EndStep
        \/ Run \/ RunNothing \/ UNCHANGED vars
        => due' = due
    BY DEF AddRequest, BeginStep, Admit, Admitted, PrefillDone, Take, PreemptOther,
         PreemptSelf, DecodeDone, Finish, EndStep, Run, RunNothing, vars, bmVars, Preempt,
         Release, BM!BeginAllocate, BM!BeginDeallocate, BM!Fail
  <2> QED BY <2>1, <2>2, <2>3, <2>4, <2>5, <2>6 DEF Next, Engine, ManagerLoop
<1>7. BP!AllocatesFor(AllOf(Texts)) /\ BP!ExtendsOnly(AllOf(Texts))
  BY <1>5, <1>6 DEF BP!AllocatesFor, BP!ExtendsOnly
<1>8. BP!HitsAreOwn
  BY <1>1, <1>7, BP!TextsHit, ManagerAssumed DEF TextInv
<1>9. KInv'
  BY <1>8, NextKeys
<1>10. BP!BlocksFrom(AllOf(Texts))'
  <2>1. BM!bmVars = BP!bmVars
    BY DEF BM!bmVars, BP!bmVars, BM!blockVars, BP!blockVars, BM!poolVars, BP!poolVars
  <2>2. UNCHANGED BM!bmVars => UNCHANGED BP!bmVars
    BY DEF BM!bmVars, BP!bmVars, BM!blockVars, BP!blockVars, BM!poolVars, BP!poolVars
  <2>3. [BP!Next]_BP!bmVars
    BY <2>1, <2>2, StepCalls, SameNext
  <2> QED BY <2>3, <1>1, <1>7, BP!NextTexts, ManagerAssumed DEF TextInv
<1>11. TextsServed(Texts)' /\ DrawnFrom(Texts)'
  BY NextServed, NextDrawn DEF TextInv
<1> QED BY <1>9, <1>10, <1>11 DEF TextInv

(* In a service whose texts differ wherever their prefixes do, the keys    *)
(* and values that a sequence attends to are those of its own prefix,      *)
(* whatever is sampled, shared, preempted and reused.                      *)
THEOREM OwnKeys ==
    ASSUME NEW CONSTANT Texts, GrowIn(Texts), BP!OneTextPerBlock(AllOf(Texts))
    PROVE  Spec => []KVMatches
<1> DEFINE Inv == EInv /\ KInv /\ TextInv(Texts)
<1>1. Init => Inv
  <2> SUFFICES ASSUME Init PROVE TextInv(Texts)
    BY InitEInv, InitKeys
  <2>1. BP!Init
    BY SameInit DEF Init
  <2>2. BP!BlocksFrom(AllOf(Texts))
    BY <2>1 DEF BP!Init, BP!BlocksFrom
  <2>3. TextsServed(Texts) /\ DrawnFrom(Texts)
    BY <2>1 DEF Init, BP!Init, TextsServed, DrawnFrom, GrowIn
  <2> QED BY <2>2, <2>3 DEF TextInv
<1>2. Inv /\ [Next]_vars => Inv'
  <2> SUFFICES ASSUME Inv, [Next]_vars PROVE Inv'
    OBVIOUS
  <2>1. EInv'
    BY NextEInv
  <2> QED BY <2>1, NextTextInv
<1>3. Inv => KVMatches
  BY KeysShow
<1> HIDE DEF Inv
<1> QED BY <1>1, <1>2, <1>3, PTL DEF Spec
=============================================================================
