---------------------------- MODULE KbToolsProofs ----------------------------
(***************************************************************************)
(* The history log and the compiler, the migration and the repair.         *)
(*                                                                         *)
(* The history is kept, for any writers, operators and number of appends.  *)
(* Two things have to be carried along.  Where a writer has a text in      *)
(* memory, that text must grow as the file does, and have a highest number *)
(* in each of its beginnings, since any of them may be what the next       *)
(* writer reads.  And as long as nothing went wrong, one writer at most is *)
(* at work, and what was handed over is in the text it is about to write.  *)
(* The compiler replays a history over a graph; its references keep naming *)
(* nodes, and it keeps an order of study, through any history of the kinds *)
(* of record that could not break them by themselves.                      *)
(*                                                                         *)
(* The migration converges and loses nothing, whatever bundle it starts    *)
(* from and wherever it is stopped.  Half of this is about one page:       *)
(* rewriting what was rewritten changes nothing, no key is written twice,  *)
(* and a link that leaves the body is a source.  The other half is about   *)
(* the run: a file that no run was stopped in the middle of is as it was   *)
(* or as one run leaves it, and is the latter once the run has passed it.  *)
(*                                                                         *)
(* The repair only mirrors.  The files it works on keep their ids, stems   *)
(* and kinds whatever it or the author writes, so the nodes it found when  *)
(* a pass began are those that are there; what it adds to a node is part   *)
(* of what was due there, and when all is added nothing is due any more.   *)
(***************************************************************************)
EXTENDS KbTools, WellFoundedInduction, TLAPS

\* Each beginning of records has a highest number.
Peaked(records) ==
  \A k \in 0 .. Len(records) :
    \E n \in Nat : /\ n = 0 \/ \E i \in 1 .. k : records[i].num = n
                   /\ \A i \in 1 .. k : records[i].num <= n

Holds(records, r) == \E i \in DOMAIN records : records[i] = r

\* What is in the file, and what a writer is about to put there.
SoundTexts ==
  /\ Growing(log) /\ Peaked(log)
  /\ \A w \in Writer : Growing(writers[w].text) /\ Peaked(writers[w].text)
  /\ \A w \in Writer : writers[w].pc # "idle" => writers[w].text # <<>>

\* Nobody met and nobody was stopped: one writer at most, and nothing of what
\* was handed over is missing from its text, or from the file.
Undisturbed ==
  mishaps = {} =>
    /\ \A v, w \in InProgress : v = w
    /\ \A w \in InProgress : \A r \in logged : Holds(writers[w].text, r)
    /\ Writing = {} => \A r \in logged : Holds(log, r)

LogInv == LogTypeOK /\ SoundTexts /\ Undisturbed

-----------------------------------------------------------------------------
\* The numbers of records are numbers.
LEMMA NumbersAreNat ==
  ASSUME NEW records \in Seq(Record)
  PROVE  /\ DOMAIN records = 1 .. Len(records) /\ Len(records) \in Nat
         /\ \A i \in DOMAIN records : records[i] \in Record /\ records[i].num \in Nat
<1>1. /\ DOMAIN records = 1 .. Len(records) /\ Len(records) \in Nat
      /\ \A i \in DOMAIN records : records[i] \in Record
  OBVIOUS
<1>2. \A r \in Record : r.num \in Nat
  BY DEF Record
<1> QED
  BY <1>1, <1>2

\* The text as a whole has a highest number.
LEMMA WholeIsPeaked ==
  ASSUME NEW records \in Seq(Record), Peaked(records)
  PROVE  \E n \in Nat : /\ n = 0 \/ \E i \in 1 .. Len(records) : records[i].num = n
                       /\ \A i \in 1 .. Len(records) : records[i].num <= n
<1>1. Len(records) \in 0 .. Len(records)
  BY NumbersAreNat
<1> QED
  BY <1>1 DEF Peaked

\* A beginning of a sound text is sound.
LEMMA BeginningIsSound ==
  ASSUME NEW records \in Seq(Record), NEW k \in 0 .. Len(records),
         Growing(records), Peaked(records)
  PROVE  /\ SubSeq(records, 1, k) \in Seq(Record)
         /\ Growing(SubSeq(records, 1, k))
         /\ Peaked(SubSeq(records, 1, k))
<1> DEFINE part == SubSeq(records, 1, k)
<1>1. /\ part \in Seq(Record) /\ Len(part) = k
      /\ \A i \in 1 .. k : part[i] = records[i]
  OBVIOUS
<1> HIDE DEF part
<1>2. DOMAIN part = 1 .. k /\ DOMAIN records = 1 .. Len(records)
  BY <1>1
<1>3. Growing(part)
  BY <1>1, <1>2 DEF Growing
<1>4. Peaked(part)
  <2> SUFFICES ASSUME NEW m \in 0 .. k
               PROVE  \E n \in Nat : /\ n = 0 \/ \E i \in 1 .. m : part[i].num = n
                                     /\ \A i \in 1 .. m : part[i].num <= n
    BY <1>1 DEF Peaked
  <2>1. m \in 0 .. Len(records) /\ \A i \in 1 .. m : part[i] = records[i]
    BY <1>1, NumbersAreNat
  <2>2. PICK n \in Nat : /\ n = 0 \/ \E i \in 1 .. m : records[i].num = n
                         /\ \A i \in 1 .. m : records[i].num <= n
    BY <2>1 DEF Peaked
  <2> QED
    BY <2>1, <2>2
<1> QED
  BY <1>1, <1>3, <1>4 DEF part

\* A record whose number is 0, or above all the numbers, can come at the end.
LEMMA AppendIsSound ==
  ASSUME NEW records \in Seq(Record), NEW r \in Record,
         Growing(records), Peaked(records),
         r.num = 0 \/ \A i \in DOMAIN records : records[i].num < r.num
  PROVE  /\ Append(records, r) \in Seq(Record) /\ Append(records, r) # <<>>
         /\ Growing(Append(records, r))
         /\ Peaked(Append(records, r))
         /\ Holds(Append(records, r), r)
         /\ \A old : Holds(records, old) => Holds(Append(records, r), old)
<1> DEFINE longer == Append(records, r)
           N == Len(records)
<1>1. /\ longer \in Seq(Record) /\ Len(longer) = N + 1 /\ N \in Nat
      /\ \A i \in 1 .. N : longer[i] = records[i]
      /\ longer[N + 1] = r
  OBVIOUS
<1>2. DOMAIN records = 1 .. N /\ DOMAIN longer = 1 .. N + 1
  BY <1>1
<1>3. \A i \in 1 .. N : records[i].num \in Nat
  BY NumbersAreNat
<1>9. r.num \in Nat
  BY DEF Record
<1> HIDE DEF longer, N
<1>4. Growing(longer)
  <2> SUFFICES ASSUME NEW i \in 1 .. N + 1, NEW j \in 1 .. N + 1, i < j,
                      longer[i].num # 0, longer[j].num # 0
               PROVE  longer[i].num < longer[j].num
    BY <1>2 DEF Growing
  <2>1. i \in 1 .. N
    BY <1>1
  <2>2. CASE j = N + 1
    BY <2>1, <2>2, <1>1, <1>2
  <2>3. CASE j \in 1 .. N
    BY <2>1, <2>3, <1>1, <1>2 DEF Growing
  <2> QED
    BY <1>1, <2>2, <2>3
<1>5. Peaked(longer)
  <2> SUFFICES ASSUME NEW k \in 0 .. N + 1
               PROVE  \E n \in Nat : /\ n = 0 \/ \E i \in 1 .. k : longer[i].num = n
                                     /\ \A i \in 1 .. k : longer[i].num <= n
    BY <1>1 DEF Peaked
  <2>1. CASE k \in 0 .. N
    <3>1. PICK n \in Nat : /\ n = 0 \/ \E i \in 1 .. k : records[i].num = n
                           /\ \A i \in 1 .. k : records[i].num <= n
      BY <2>1 DEF Peaked, N
    <3>2. \A i \in 1 .. k : longer[i] = records[i]
      BY <2>1, <1>1
    <3> QED
      BY <3>1, <3>2
  <2>2. CASE k = N + 1
    <3>1. PICK n \in Nat : /\ n = 0 \/ \E i \in 1 .. N : records[i].num = n
                           /\ \A i \in 1 .. N : records[i].num <= n
      BY WholeIsPeaked DEF N
    <3>2. CASE r.num <= n
      <4>1. n = 0 \/ \E i \in 1 .. k : longer[i].num = n
        BY <3>1, <2>2, <1>1
      <4>2. \A i \in 1 .. k : longer[i].num <= n
        BY <3>1, <3>2, <2>2, <1>1
      <4> QED
        BY <4>1, <4>2
    <3>3. CASE n < r.num
      <4>1. longer[k].num = r.num
        BY <2>2, <1>1
      <4>2. \A i \in 1 .. k : longer[i].num <= r.num
        BY <3>1, <3>3, <2>2, <1>1, <1>3, <1>9
      <4> QED
        BY <4>1, <4>2, <1>9, <2>2, <1>1
    <3> QED
      BY <3>1, <3>2, <3>3, <1>9
  <2> QED
    BY <1>1, <2>1, <2>2
<1>6. Holds(longer, r)
  BY <1>1, <1>2 DEF Holds
<1>7. \A old : Holds(records, old) => Holds(longer, old)
  BY <1>1, <1>2 DEF Holds
<1>8. longer # <<>>
  BY <1>1
<1> QED
  BY <1>1, <1>4, <1>5, <1>6, <1>7, <1>8 DEF longer

\* _next_op_id returns a number above every one it sees.
LEMMA NextOpIdIsAbove ==
  ASSUME NEW records \in Seq(Record), Peaked(records)
  PROVE  /\ NextOpId(records) \in Nat
         /\ \A i \in DOMAIN records : records[i].num < NextOpId(records)
<1>1. DOMAIN records = 1 .. Len(records) /\ Len(records) \in Nat
  BY NumbersAreNat
<1>2. \A i \in DOMAIN records : records[i].num \in Nat
  BY NumbersAreNat
<1>3. Numbers(records) \subseteq Nat
  BY <1>2 DEF Numbers
<1>4. \E n \in Numbers(records) : \A m \in Numbers(records) : m <= n
  <2>1. PICK n \in Nat : /\ n = 0 \/ \E i \in DOMAIN records : records[i].num = n
                         /\ \A i \in DOMAIN records : records[i].num <= n
    BY <1>1, WholeIsPeaked
  <2>2. n \in Numbers(records)
    BY <2>1 DEF Numbers
  <2>3. \A m \in Numbers(records) : m <= n
    BY <2>1 DEF Numbers
  <2> QED
    BY <2>2, <2>3
<1> DEFINE top == CHOOSE n \in Numbers(records) : \A m \in Numbers(records) : m <= n
<1>5. top \in Numbers(records) /\ \A m \in Numbers(records) : m <= top
  BY <1>4
<1>6. NextOpId(records) = 1 + top
  BY DEF NextOpId
<1>7. \A i \in DOMAIN records : records[i].num \in Numbers(records)
  BY DEF Numbers
<1> HIDE DEF top
<1> QED
  BY <1>2, <1>3, <1>5, <1>6, <1>7

\* What a reader sees is sound, and is the file itself while nobody writes.
LEMMA VisibleIsSound ==
  ASSUME LogTypeOK, SoundTexts, NEW seen \in Visible
  PROVE  /\ seen \in Seq(Record) /\ Growing(seen) /\ Peaked(seen)
         /\ Writing = {} => seen = log
<1>1. CASE seen = log
  BY <1>1 DEF LogTypeOK, SoundTexts
<1>2. CASE \E w \in Writing : \E k \in 0 .. Len(writers[w].text) : seen = SubSeq(writers[w].text, 1, k)
  <2>1. PICK w \in Writing : \E k \in 0 .. Len(writers[w].text) : seen = SubSeq(writers[w].text, 1, k)
    BY <1>2
  <2>2. PICK k \in 0 .. Len(writers[w].text) : seen = SubSeq(writers[w].text, 1, k)
    BY <2>1
  <2>3. w \in Writer
    BY DEF Writing
  <2>4. writers[w].text \in Seq(Record) /\ Growing(writers[w].text) /\ Peaked(writers[w].text)
    BY <2>3 DEF LogTypeOK, SoundTexts
  <2> QED
    BY <2>2, <2>4, BeginningIsSound
<1> QED
  BY <1>1, <1>2 DEF Visible

-----------------------------------------------------------------------------
\* The file is empty at first, and nobody is at work.
LEMMA InitSound == LogInit => LogInv
<1> SUFFICES ASSUME LogInit PROVE LogInv
  OBVIOUS
<1> USE DEF LogInit
<1>1. <<>> \in Seq(Record) /\ Growing(<<>>) /\ Peaked(<<>>)
  BY DEF Growing, Peaked
<1>2. LogTypeOK
  <2>1. Idle \in [pc : {"idle", "numbered", "opened"}, text : Seq(Record)]
    BY <1>1 DEF Idle
  <2>2. 0 \in 0 .. MaxRecords
    BY LogAssumption
  <2> QED
    BY <1>1, <2>1, <2>2 DEF LogTypeOK
<1>3. \A w \in Writer : writers[w].text = <<>> /\ writers[w].pc = "idle"
  BY DEF Idle
<1>4. SoundTexts
  BY <1>1, <1>3 DEF SoundTexts
<1>5. Undisturbed
  BY <1>3 DEF Undisturbed, InProgress
<1> QED
  BY <1>2, <1>4, <1>5 DEF LogInv

\* A writer that begins reads a sound text and puts a higher number after it.
LEMMA ReadKeeps ==
  ASSUME LogInv, NEW w \in Writer, NEW op \in Operator, ReadAndNumber(w, op)
  PROVE  LogInv'
<1> USE DEF LogInv
<1>1. PICK seen \in Visible :
        writers' = [writers EXCEPT ![w] =
          [pc |-> "numbered", text |-> Append(seen, [num |-> NextOpId(seen), op |-> op])]]
  BY DEF ReadAndNumber
<1> DEFINE added == [num |-> NextOpId(seen), op |-> op]
           text == Append(seen, added)
<1>2. /\ seen \in Seq(Record) /\ Growing(seen) /\ Peaked(seen)
      /\ Writing = {} => seen = log
  BY VisibleIsSound
<1>3. /\ NextOpId(seen) \in Nat
      /\ \A i \in DOMAIN seen : seen[i].num < NextOpId(seen)
  BY <1>2, NextOpIdIsAbove
<1>4. added \in Record /\ \A i \in DOMAIN seen : seen[i].num < added.num
  BY <1>3 DEF Record
<1> HIDE DEF added
<1>5. /\ text \in Seq(Record) /\ text # <<>> /\ Growing(text) /\ Peaked(text)
      /\ \A old : Holds(seen, old) => Holds(text, old)
  BY <1>2, <1>4, AppendIsSound
<1> HIDE DEF text
<1>6. writers' = [writers EXCEPT ![w] = [pc |-> "numbered", text |-> text]]
  BY <1>1 DEF text, added
<1>7. /\ writers'[w] = [pc |-> "numbered", text |-> text]
      /\ \A v \in Writer \ {w} : writers'[v] = writers[v]
      /\ writers[w].pc = "idle" /\ log' = log /\ logged' = logged
  BY <1>6 DEF LogTypeOK, ReadAndNumber
<1>8. LogTypeOK'
  <2>1. begun' \in 0 .. MaxRecords
    BY LogAssumption DEF LogTypeOK, ReadAndNumber
  <2>2. mishaps' \subseteq {"overlap", "stopped"}
    BY DEF LogTypeOK, ReadAndNumber
  <2>3. writers' \in [Writer -> [pc : {"idle", "numbered", "opened"}, text : Seq(Record)]]
    BY <1>5, <1>6 DEF LogTypeOK
  <2> QED
    BY <2>1, <2>2, <2>3 DEF LogTypeOK, ReadAndNumber
<1>9. SoundTexts'
  BY <1>5, <1>7 DEF SoundTexts
<1>10. Undisturbed'
  <2> SUFFICES ASSUME mishaps' = {}
               PROVE  /\ \A u, v \in InProgress' : u = v
                      /\ \A v \in InProgress' : \A r \in logged : Holds(writers'[v].text, r)
                      /\ Writing' = {} => \A r \in logged : Holds(log, r)
    BY <1>7 DEF Undisturbed
  <2>1. InProgress = {} /\ mishaps = {}
    BY DEF ReadAndNumber
  <2>2. Writing = {}
    BY <2>1 DEF InProgress, Writing
  <2>3. \A r \in logged : Holds(log, r)
    BY <2>1, <2>2 DEF Undisturbed
  <2>4. InProgress' \subseteq {w}
    BY <1>7, <2>1 DEF InProgress
  <2>5. \A r \in logged : Holds(writers'[w].text, r)
    BY <1>2, <1>5, <1>7, <2>2, <2>3
  <2> QED
    BY <2>3, <2>4, <2>5
<1> QED
  BY <1>8, <1>9, <1>10

\* Opening the file empties it: what was in it is in the writer's text.
LEMMA OpenKeeps ==
  ASSUME LogInv, NEW w \in Writer, OpenLog(w)
  PROVE  LogInv'
<1> USE DEF LogInv
<1>1. /\ writers'[w] = [writers[w] EXCEPT !.pc = "opened"]
      /\ writers'[w].pc = "opened" /\ writers'[w].text = writers[w].text
      /\ \A v \in Writer \ {w} : writers'[v] = writers[v]
      /\ writers[w].pc = "numbered" /\ log' = <<>>
      /\ UNCHANGED <<logged, mishaps, begun>>
  BY DEF LogTypeOK, OpenLog
<1>3. <<>> \in Seq(Record) /\ Growing(<<>>) /\ Peaked(<<>>)
  BY DEF Growing, Peaked
<1>2. LogTypeOK'
  <2>1. writers' \in [Writer -> [pc : {"idle", "numbered", "opened"}, text : Seq(Record)]]
    BY DEF LogTypeOK, OpenLog
  <2>2. log' \in Seq(Record) /\ torn' \in BOOLEAN
    BY <1>1, <1>3 DEF OpenLog
  <2> QED
    BY <1>1, <2>1, <2>2 DEF LogTypeOK
<1>4. SoundTexts'
  BY <1>1, <1>3 DEF SoundTexts
<1>5. InProgress' = InProgress /\ w \in Writing'
  BY <1>1 DEF InProgress, Writing
<1>6. Undisturbed'
  <2>1. \A v \in Writer : writers'[v].text = writers[v].text
    BY <1>1
  <2>2. InProgress \subseteq Writer
    BY DEF InProgress
  <2> QED
    BY <1>1, <1>5, <2>1, <2>2 DEF Undisturbed
<1> QED
  BY <1>2, <1>4, <1>6

\* The text replaces the file; its last record is handed over.
LEMMA WriteKeeps ==
  ASSUME LogInv, NEW w \in Writer, WriteText(w)
  PROVE  LogInv'
<1> USE DEF LogInv
<1> DEFINE text == writers[w].text
<1>1. /\ writers'[w] = Idle /\ writers'[w].pc = "idle" /\ writers'[w].text = <<>>
      /\ \A v \in Writer \ {w} : writers'[v] = writers[v]
      /\ writers[w].pc = "opened" /\ log' = text
      /\ logged' = logged \cup {Last(text)}
      /\ UNCHANGED <<mishaps, begun>>
  BY DEF LogTypeOK, WriteText, Idle
<1>2. text \in Seq(Record) /\ text # <<>> /\ Growing(text) /\ Peaked(text)
  BY <1>1 DEF LogTypeOK, SoundTexts
<1>3. <<>> \in Seq(Record) /\ Growing(<<>>) /\ Peaked(<<>>)
  BY DEF Growing, Peaked
<1> HIDE DEF text
<1>4. Last(text) \in Record /\ Holds(text, Last(text))
  <2>1. Len(text) \in DOMAIN text
    BY <1>2
  <2> QED
    BY <1>2, <2>1 DEF Last, Holds
<1>5. LogTypeOK'
  <2>1. torn' \in BOOLEAN
    BY DEF WriteText
  <2>2. writers' \in [Writer -> [pc : {"idle", "numbered", "opened"}, text : Seq(Record)]]
    BY <1>3 DEF LogTypeOK, WriteText, Idle
  <2> QED
    BY <1>1, <1>2, <1>4, <2>1, <2>2 DEF LogTypeOK
<1>6. SoundTexts'
  BY <1>1, <1>2, <1>3 DEF SoundTexts
<1>7. Undisturbed'
  <2> SUFFICES ASSUME mishaps' = {}
               PROVE  /\ \A u, v \in InProgress' : u = v
                      /\ \A v \in InProgress' : \A r \in logged' : Holds(writers'[v].text, r)
                      /\ Writing' = {} => \A r \in logged' : Holds(log', r)
    BY DEF Undisturbed
  <2>1. w \in InProgress
    BY <1>1 DEF InProgress
  <2>2. /\ \A u, v \in InProgress : u = v
        /\ \A r \in logged : Holds(text, r)
    BY <1>1, <2>1 DEF Undisturbed, text
  <2>3. InProgress' = {}
    BY <1>1, <2>1, <2>2 DEF InProgress
  <2>4. \A r \in logged' : Holds(log', r)
    BY <1>1, <1>4, <2>2
  <2> QED
    BY <2>3, <2>4
<1> QED
  BY <1>5, <1>6, <1>7

\* A writer that is stopped leaves the file, or a beginning of its text.
LEMMA StopKeeps ==
  ASSUME LogInv, NEW w \in Writer, StopWriter(w)
  PROVE  LogInv'
<1> USE DEF LogInv
<1>1. /\ writers' = [writers EXCEPT ![w] = Idle]
      /\ writers'[w].pc = "idle" /\ writers'[w].text = <<>>
      /\ \A v \in Writer \ {w} : writers'[v] = writers[v]
      /\ mishaps' = mishaps \cup {"stopped"}
      /\ torn' \in BOOLEAN
      /\ UNCHANGED <<logged, begun>>
  BY DEF LogTypeOK, StopWriter, Idle
<1>2. log' \in Seq(Record) /\ Growing(log') /\ Peaked(log')
  <2>1. CASE log' = log
    BY <2>1 DEF LogTypeOK, SoundTexts
  <2>2. CASE \E k \in 1 .. Len(writers[w].text) : log' = SubSeq(writers[w].text, 1, k)
    <3>1. PICK k \in 1 .. Len(writers[w].text) : log' = SubSeq(writers[w].text, 1, k)
      BY <2>2
    <3>2. /\ writers[w].text \in Seq(Record) /\ Growing(writers[w].text) /\ Peaked(writers[w].text)
          /\ k \in 0 .. Len(writers[w].text)
      BY DEF LogTypeOK, SoundTexts
    <3> QED
      BY <3>1, <3>2, BeginningIsSound
  <2> QED
    BY <2>1, <2>2 DEF StopWriter
<1>3. <<>> \in Seq(Record) /\ Growing(<<>>) /\ Peaked(<<>>)
  BY DEF Growing, Peaked
<1>4. LogTypeOK'
  BY <1>1, <1>2, <1>3 DEF LogTypeOK, Idle
<1>5. SoundTexts'
  BY <1>1, <1>2, <1>3 DEF SoundTexts
<1>6. Undisturbed'
  BY <1>1 DEF Undisturbed
<1> QED
  BY <1>4, <1>5, <1>6

\* The author's record has no number, and is in the file at once.
LEMMA AuthorKeeps ==
  ASSUME LogInv, NEW op \in Operator, AuthorRecord(op)
  PROVE  LogInv'
<1> USE DEF LogInv
<1> DEFINE r == [num |-> 0, op |-> op]
<1>1. /\ log' = Append(log, r) /\ logged' = logged \cup {r}
      /\ UNCHANGED <<torn, writers>>
      /\ log \in Seq(Record) /\ Growing(log) /\ Peaked(log)
  BY DEF AuthorRecord, LogTypeOK, SoundTexts
<1>2. r \in Record /\ r.num = 0
  BY DEF Record
<1> HIDE DEF r
<1>3. /\ log' \in Seq(Record) /\ Growing(log') /\ Peaked(log')
      /\ Holds(log', r) /\ \A old : Holds(log, old) => Holds(log', old)
  BY <1>1, <1>2, AppendIsSound
<1>4. LogTypeOK'
  <2>1. begun' \in 0 .. MaxRecords
    BY LogAssumption DEF LogTypeOK, AuthorRecord
  <2>2. mishaps' \subseteq {"overlap", "stopped"}
    BY DEF LogTypeOK, AuthorRecord
  <2> QED
    BY <1>1, <1>2, <1>3, <2>1, <2>2 DEF LogTypeOK
<1>5. SoundTexts'
  BY <1>1, <1>3 DEF SoundTexts
<1>6. Undisturbed'
  <2> SUFFICES ASSUME mishaps' = {}
               PROVE  /\ InProgress' = {}
                      /\ \A old \in logged' : Holds(log', old)
    BY DEF Undisturbed
  <2>1. InProgress = {} /\ mishaps = {} /\ Writing = {}
    BY DEF AuthorRecord
  <2>2. \A old \in logged : Holds(log, old)
    BY <2>1 DEF Undisturbed
  <2>3. InProgress' = {}
    BY <1>1, <2>1 DEF InProgress
  <2> QED
    BY <1>1, <1>3, <2>2, <2>3
<1> QED
  BY <1>4, <1>5, <1>6

LEMMA StepKeeps == LogInv /\ [LogNext]_logVars => LogInv'
<1> SUFFICES ASSUME LogInv, [LogNext]_logVars PROVE LogInv'
  OBVIOUS
<1>1. CASE \E w \in Writer, op \in Operator : ReadAndNumber(w, op)
  BY <1>1, ReadKeeps
<1>2. CASE \E w \in Writer : OpenLog(w)
  BY <1>2, OpenKeeps
<1>3. CASE \E w \in Writer : WriteText(w)
  BY <1>3, WriteKeeps
<1>4. CASE \E w \in Writer : StopWriter(w)
  BY <1>4, StopKeeps
<1>5. CASE \E op \in Operator : AuthorRecord(op)
  BY <1>5, AuthorKeeps
<1>6. CASE UNCHANGED logVars
  BY <1>6 DEF logVars, LogInv, LogTypeOK, SoundTexts, Undisturbed, InProgress, Writing
<1> QED
  BY <1>1, <1>2, <1>3, <1>4, <1>5, <1>6 DEF LogNext

-----------------------------------------------------------------------------
\* The history is kept: its numbers grow whatever writers do to each other,
\* so that no two records share an id, and what append_operator returned or
\* the author saved stays in the file while no two writers meet and none is
\* stopped.
THEOREM HistoryKept == LogSpec => []HistoryIsKept
<1>1. LogInv => HistoryIsKept
  BY DEF LogInv, SoundTexts, Undisturbed, HistoryIsKept, NumbersGrow, HandedOverStays, Holds
<1> QED
  BY <1>1, InitSound, StepKeeps, PTL DEF LogSpec

-----------------------------------------------------------------------------
(* The history in the compiler *)

\* What an ingested graph looks like, and still does after any operator.
Shaped(ir) ==
  \A n \in DOMAIN ir : \E p, c, s : ir[n] = [pre |-> p, comp |-> c, status |-> s]

Refs(ir, n) == ir[n].pre \cup ir[n].comp

\* There is an order in which the nodes can be studied.
Ordered(ir) ==
  \E rank \in [Used(ir) -> Nat] : \A n \in DOMAIN ir : \A m \in Refs(ir, n) : rank[m] < rank[n]

\* Every name in the graph was there from the beginning or is the target of an
\* operator.
Accounted(c) == Used(c.ir) \subseteq Used(c.base) \cup {c.ops[j].target : j \in 1 .. (c.k - 1)}

CompiledInv(c) ==
  /\ c.k \in Nat /\ Shaped(c.ir)
  /\ StaysClosed(c)
  /\ Harmless(c) => Accounted(c)
  /\ Harmless(c) /\ Ordered(c.base) => Ordered(c.ir)

CompilerInv ==
  /\ \E pc, strict, base, ir, ops, k :
       compile = [pc |-> pc, strict |-> strict, base |-> base, ir |-> ir, ops |-> ops, k |-> k]
  /\ CompiledInv(compile) /\ CompiledInv(output)
  /\ compile.pc = "ingested" => compile.ir = compile.base
  /\ compile.pc = "applying" => compile.k >= 1

LEMMA UsedIs ==
  ASSUME NEW ir, Shaped(ir)
  PROVE  /\ DOMAIN ir \subseteq Used(ir)
         /\ \A n \in DOMAIN ir : Refs(ir, n) \subseteq Used(ir)
         /\ \A x \in Used(ir) : x \in DOMAIN ir \/ \E n \in DOMAIN ir : x \in Refs(ir, n)
BY DEF Used, Refs

\* An operator that leaves every node its references changes neither.
LEMMA SameRefs ==
  ASSUME NEW ir, NEW jr, Shaped(ir), Shaped(jr), DOMAIN jr = DOMAIN ir,
         \A n \in DOMAIN ir : Refs(jr, n) = Refs(ir, n)
  PROVE  /\ Used(jr) = Used(ir)
         /\ Closed(ir) => Closed(jr)
         /\ Ordered(ir) => Ordered(jr)
<1>1. Used(jr) = Used(ir)
  <2>1. \A x : x \in Used(jr) <=> x \in Used(ir)
    BY UsedIs
  <2> QED
    BY <2>1
<1> QED
  BY <1>1 DEF Closed, Ordered, Refs

\* What a new status does to a node.
LEMMA StatusOnly ==
  ASSUME NEW ir, NEW jr, Shaped(ir), DOMAIN jr = DOMAIN ir,
         \A n \in DOMAIN ir : jr[n] = ir[n] \/ \E s : jr[n] = [ir[n] EXCEPT !.status = s]
  PROVE  Shaped(jr) /\ \A n \in DOMAIN ir : Refs(jr, n) = Refs(ir, n)
<1> SUFFICES ASSUME NEW n \in DOMAIN ir
             PROVE  /\ \E p, c, s : jr[n] = [pre |-> p, comp |-> c, status |-> s]
                    /\ Refs(jr, n) = Refs(ir, n)
  BY DEF Shaped
<1>1. PICK p, c, s : ir[n] = [pre |-> p, comp |-> c, status |-> s]
  BY DEF Shaped
<1>2. CASE jr[n] = ir[n]
  <2>1. jr[n] = [pre |-> p, comp |-> c, status |-> s]
    BY <1>1, <1>2
  <2>2. Refs(jr, n) = Refs(ir, n)
    BY <1>2 DEF Refs
  <2> QED
    BY <2>1, <2>2
<1>3. CASE \E x : jr[n] = [ir[n] EXCEPT !.status = x]
  <2>1. PICK x : jr[n] = [ir[n] EXCEPT !.status = x]
    BY <1>3
  <2>2. jr[n] = [pre |-> p, comp |-> c, status |-> x]
    BY <1>1, <2>1
  <2> QED
    BY <1>1, <2>2 DEF Refs
<1> QED
  BY <1>2, <1>3

\* A split and a new status.
LEMMA MarksKeep ==
  ASSUME NEW ir, Shaped(ir), NEW t, NEW jr, jr = Split(ir, t) \/ jr = UpdateStatus(ir, t)
  PROVE  DOMAIN jr = DOMAIN ir /\ Shaped(jr) /\ \A n \in DOMAIN ir : Refs(jr, n) = Refs(ir, n)
<1>1. DOMAIN jr = DOMAIN ir /\ \A n \in DOMAIN ir : jr[n] = ir[n] \/ \E s : jr[n] = [ir[n] EXCEPT !.status = s]
  BY DEF Split, UpdateStatus
<1> QED
  BY <1>1, StatusOnly

\* A merge only unites references.
LEMMA MergeKeeps ==
  ASSUME NEW ir, Shaped(ir), NEW S, NEW t
  PROVE  /\ DOMAIN Merge(ir, S, t) = DOMAIN ir /\ Shaped(Merge(ir, S, t))
         /\ Closed(ir) => Closed(Merge(ir, S, t))
<1> DEFINE jr == Merge(ir, S, t)
           from == S \cap DOMAIN ir
           pre(n) == ir[n].pre \cup UNION {ir[s].pre : s \in from}
           comp(n) == ir[n].comp \cup UNION {ir[s].comp : s \in from}
           merged(n) == IF n \in from THEN "merged" ELSE ir[n].status
<1>1. /\ DOMAIN jr = DOMAIN ir
      /\ \A n \in DOMAIN ir : jr[n] = IF n = t THEN [pre |-> pre(n), comp |-> comp(n), status |-> merged(n)]
                                      ELSE [ir[n] EXCEPT !.status = merged(n)]
  BY DEF Merge
<1> HIDE DEF jr, merged
<1>2. ASSUME NEW n \in DOMAIN ir
      PROVE  /\ \E p, c, s : jr[n] = [pre |-> p, comp |-> c, status |-> s]
             /\ Refs(jr, n) \subseteq Refs(ir, n) \cup UNION {Refs(ir, m) : m \in from}
  <2>1. PICK p, c, s : ir[n] = [pre |-> p, comp |-> c, status |-> s]
    BY DEF Shaped
  <2>2. CASE n = t
    <3>1. jr[n] = [pre |-> pre(n), comp |-> comp(n), status |-> merged(n)]
      BY <1>1, <2>2
    <3>2. Refs(jr, n) = pre(n) \cup comp(n)
      <4> HIDE DEF pre, comp
      <4> QED
        BY <3>1 DEF Refs
    <3>3. Refs(jr, n) \subseteq Refs(ir, n) \cup UNION {Refs(ir, m) : m \in from}
      BY <3>2 DEF Refs
    <3> HIDE DEF pre, comp
    <3> QED
      BY <3>1, <3>3
  <2>3. CASE n # t
    <3>1. jr[n] = [pre |-> p, comp |-> c, status |-> merged(n)]
      BY <1>1, <2>1, <2>3
    <3>2. Refs(jr, n) = Refs(ir, n)
      BY <3>1, <2>1 DEF Refs
    <3> QED
      BY <3>1, <3>2
  <2> QED
    BY <2>2, <2>3
<1>3. Shaped(jr)
  BY <1>1, <1>2 DEF Shaped
<1>4. ASSUME Closed(ir)  PROVE Closed(jr)
  <2>1. \A n \in DOMAIN ir : Refs(ir, n) \subseteq DOMAIN ir
    BY <1>4 DEF Closed, Refs
  <2>2. \A n \in DOMAIN ir : Refs(jr, n) \subseteq DOMAIN ir
    BY <1>2, <2>1
  <2> QED
    BY <1>1, <2>2 DEF Closed, Refs
<1> QED
  BY <1>1, <1>3, <1>4 DEF jr

LEMMA ReorderKeeps ==
  ASSUME NEW ir, Shaped(ir), NEW t, NEW p
  PROVE  Shaped(Reorder(ir, t, p))
<1> DEFINE jr == Reorder(ir, t, p)
<1>1. DOMAIN jr = DOMAIN ir /\ \A n \in DOMAIN ir : jr[n] = IF n = t THEN [ir[n] EXCEPT !.pre = p] ELSE ir[n]
  BY DEF Reorder
<1> HIDE DEF jr
<1>2. ASSUME NEW n \in DOMAIN ir  PROVE \E a, c, s : jr[n] = [pre |-> a, comp |-> c, status |-> s]
  <2>1. PICK a, c, s : ir[n] = [pre |-> a, comp |-> c, status |-> s]
    BY DEF Shaped
  <2>2. jr[n] = ir[n] \/ jr[n] = [pre |-> p, comp |-> c, status |-> s]
    BY <1>1, <2>1
  <2> QED
    BY <2>1, <2>2
<1>3. Shaped(jr)
  BY <1>1, <1>2 DEF Shaped
<1> QED
  BY <1>3 DEF jr

-----------------------------------------------------------------------------
(* Renames *)

Swapped(S, old, new) == IF old \in S THEN (S \ {old}) \cup {new} ELSE S

LEMMA RenamedIs ==
  ASSUME NEW p, NEW c, NEW s, NEW old, NEW new
  PROVE  Renamed([pre |-> p, comp |-> c, status |-> s], old, new)
           = [pre |-> Swapped(p, old, new), comp |-> Swapped(c, old, new), status |-> s]
<1> DEFINE node == [pre |-> p, comp |-> c, status |-> s]
<1>1. node.pre = p /\ node.comp = c
  OBVIOUS
<1>2. Renamed(node, old, new) = [node EXCEPT !.pre = Swapped(p, old, new), !.comp = Swapped(c, old, new)]
  BY <1>1 DEF Renamed, Swapped
<1> QED
  BY <1>2

\* The node of the old graph that is found under a name of the new one.
Former(n, old, new) == IF n = new THEN old ELSE n

LEMMA RenameIs ==
  ASSUME NEW ir, Shaped(ir), NEW old \in DOMAIN ir, NEW new
  PROVE  LET jr == Rename(ir, old, new) IN
         /\ DOMAIN jr = (DOMAIN ir \ {old}) \cup {new}
         /\ Shaped(jr)
         /\ \A n \in DOMAIN jr : /\ Former(n, old, new) \in DOMAIN ir
                                 /\ \A m \in Refs(jr, n) :
                                      \/ m # old /\ m \in Refs(ir, Former(n, old, new))
                                      \/ m = new /\ old \in Refs(ir, Former(n, old, new))
<1> DEFINE jr == Rename(ir, old, new)
<1>1. /\ DOMAIN jr = (DOMAIN ir \ {old}) \cup {new}
      /\ \A n \in DOMAIN jr : jr[n] = Renamed(ir[Former(n, old, new)], old, new)
  BY DEF Rename, Former
<1> HIDE DEF jr
<1>2. ASSUME NEW n \in DOMAIN jr
      PROVE  /\ Former(n, old, new) \in DOMAIN ir
             /\ \E p, c, s : jr[n] = [pre |-> p, comp |-> c, status |-> s]
             /\ \A m \in Refs(jr, n) : \/ m # old /\ m \in Refs(ir, Former(n, old, new))
                                       \/ m = new /\ old \in Refs(ir, Former(n, old, new))
  <2> DEFINE f == Former(n, old, new)
  <2>1. f \in DOMAIN ir
    BY <1>1 DEF Former
  <2>2. PICK p, c, s : ir[f] = [pre |-> p, comp |-> c, status |-> s]
    BY <2>1 DEF Shaped
  <2>3. jr[n] = [pre |-> Swapped(p, old, new), comp |-> Swapped(c, old, new), status |-> s]
    <3>1. jr[n] = Renamed(ir[f], old, new)
      BY <1>1
    <3> QED
      BY <3>1, <2>2, RenamedIs
  <2>4. Refs(jr, n) = Swapped(p, old, new) \cup Swapped(c, old, new) /\ Refs(ir, f) = p \cup c
    BY <2>2, <2>3 DEF Refs
  <2> HIDE DEF f
  <2>5. \A m \in Refs(jr, n) : \/ m # old /\ m \in Refs(ir, f)
                               \/ m = new /\ old \in Refs(ir, f)
    BY <2>4 DEF Swapped
  <2> QED
    BY <2>1, <2>3, <2>5 DEF f
<1>3. Shaped(jr)
  BY <1>2 DEF Shaped
<1> QED
  BY <1>1, <1>2, <1>3 DEF jr

LEMMA RenameKeepsClosed ==
  ASSUME NEW ir, Shaped(ir), NEW old \in DOMAIN ir, NEW new, Closed(ir)
  PROVE  Closed(Rename(ir, old, new))
<1> DEFINE jr == Rename(ir, old, new)
<1>1. /\ DOMAIN jr = (DOMAIN ir \ {old}) \cup {new}
      /\ Shaped(jr)
      /\ \A n \in DOMAIN jr : /\ Former(n, old, new) \in DOMAIN ir
                              /\ \A m \in Refs(jr, n) :
                                   \/ m # old /\ m \in Refs(ir, Former(n, old, new))
                                   \/ m = new /\ old \in Refs(ir, Former(n, old, new))
  BY RenameIs
<1> HIDE DEF jr
<1>2. \A n \in DOMAIN ir : Refs(ir, n) \subseteq DOMAIN ir
  BY DEF Closed, Refs
<1>3. \A n \in DOMAIN jr : Refs(jr, n) \subseteq DOMAIN jr
  BY <1>1, <1>2
<1>4. Closed(jr)
  BY <1>3 DEF Closed, Refs
<1> QED
  BY <1>4 DEF jr

\* A rename adds the new name, and where that was not in use keeps the order.
LEMMA RenameKeepsOrder ==
  ASSUME NEW ir, Shaped(ir), NEW old \in DOMAIN ir, NEW new
  PROVE  /\ Used(Rename(ir, old, new)) \subseteq Used(ir) \cup {new}
         /\ new \notin Used(ir) /\ Ordered(ir) => Ordered(Rename(ir, old, new))
<1> DEFINE jr == Rename(ir, old, new)
<1>1. /\ DOMAIN jr = (DOMAIN ir \ {old}) \cup {new}
      /\ Shaped(jr)
      /\ \A n \in DOMAIN jr : /\ Former(n, old, new) \in DOMAIN ir
                              /\ \A m \in Refs(jr, n) :
                                   \/ m # old /\ m \in Refs(ir, Former(n, old, new))
                                   \/ m = new /\ old \in Refs(ir, Former(n, old, new))
  BY RenameIs
<1> HIDE DEF jr
<1>2. Used(jr) \subseteq Used(ir) \cup {new}
  <2> SUFFICES ASSUME NEW x \in Used(jr), x # new  PROVE x \in Used(ir)
    OBVIOUS
  <2>1. CASE x \in DOMAIN jr
    BY <1>1, <2>1, UsedIs
  <2>2. CASE \E n \in DOMAIN jr : x \in Refs(jr, n)
    BY <1>1, <2>2, UsedIs
  <2> QED
    BY <1>1, <2>1, <2>2, UsedIs
<1>3. ASSUME new \notin Used(ir), Ordered(ir)  PROVE Ordered(jr)
  <2>1. PICK rank \in [Used(ir) -> Nat] : \A n \in DOMAIN ir : \A m \in Refs(ir, n) : rank[m] < rank[n]
    BY <1>3 DEF Ordered
  <2>2. old \in Used(ir) /\ new \notin DOMAIN ir
    BY <1>3, UsedIs
  <2> DEFINE rerank == [x \in Used(jr) |-> rank[Former(x, old, new)]]
  <2>3. \A x \in Used(jr) : Former(x, old, new) \in Used(ir)
    BY <1>2, <2>2 DEF Former
  <2>4. rerank \in [Used(jr) -> Nat]
    BY <2>1, <2>3
  <2>5. ASSUME NEW n \in DOMAIN jr, NEW m \in Refs(jr, n)  PROVE rerank[m] < rerank[n]
    <3>1. n \in Used(jr) /\ m \in Used(jr)
      BY <1>1, UsedIs
    <3>2. Former(m, old, new) \in Refs(ir, Former(n, old, new))
      <4>1. CASE m # old /\ m \in Refs(ir, Former(n, old, new))
        <5>1. m # new
          BY <4>1, <1>1, <1>3, UsedIs
        <5> QED
          BY <4>1, <5>1 DEF Former
      <4>2. CASE m = new /\ old \in Refs(ir, Former(n, old, new))
        BY <4>2 DEF Former
      <4> QED
        BY <4>1, <4>2, <1>1
    <3> QED
      BY <3>1, <3>2, <2>1, <1>1
  <2> HIDE DEF rerank
  <2> QED
    BY <2>4, <2>5 DEF Ordered
<1> QED
  BY <1>2, <1>3 DEF jr

-----------------------------------------------------------------------------
(* Any operator *)

LEMMA AppliedKeeps ==
  ASSUME NEW ir, Shaped(ir), NEW op
  PROVE  /\ Shaped(Applied(ir, op))
         /\ op.op # "REORDER" /\ Closed(ir) => Closed(Applied(ir, op))
         /\ op.op \notin {"MERGE", "REORDER"} =>
              /\ Used(Applied(ir, op)) \subseteq Used(ir) \cup {op.target}
              /\ (op.op = "RENAME" => op.target \notin Used(ir)) /\ Ordered(ir) =>
                   Ordered(Applied(ir, op))
<1> DEFINE jr == Applied(ir, op)
<1>1. CASE op.op = "SPLIT" \/ op.op = "UPDATE_STATUS"
  <2>1. jr = Split(ir, op.target) \/ jr = UpdateStatus(ir, op.target)
    BY <1>1 DEF Applied
  <2> HIDE DEF jr
  <2>2. DOMAIN jr = DOMAIN ir /\ Shaped(jr) /\ \A n \in DOMAIN ir : Refs(jr, n) = Refs(ir, n)
    BY <2>1, MarksKeep
  <2>3. Used(jr) = Used(ir) /\ (Closed(ir) => Closed(jr)) /\ (Ordered(ir) => Ordered(jr))
    BY <2>2, SameRefs
  <2> QED
    BY <2>2, <2>3 DEF jr
<1>2. CASE op.op = "MERGE"
  <2>1. jr = Merge(ir, op.sources, op.target)
    BY <1>2 DEF Applied
  <2> HIDE DEF jr
  <2>2. Shaped(jr) /\ (Closed(ir) => Closed(jr))
    BY <2>1, MergeKeeps
  <2> QED
    BY <1>2, <2>2 DEF jr
<1>3. CASE op.op = "REORDER"
  <2>1. jr = Reorder(ir, op.target, op.sources)
    BY <1>3 DEF Applied
  <2> HIDE DEF jr
  <2>2. Shaped(jr)
    BY <2>1, ReorderKeeps
  <2> QED
    BY <1>3, <2>2 DEF jr
<1>4. CASE op.op = "RENAME" /\ op.old \in DOMAIN ir
  <2>1. jr = Rename(ir, op.old, op.target)
    BY <1>4 DEF Applied
  <2> HIDE DEF jr
  <2>2. Shaped(jr)
    BY <1>4, <2>1, RenameIs
  <2>3. Closed(ir) => Closed(jr)
    BY <1>4, <2>1, RenameKeepsClosed
  <2>4. /\ Used(jr) \subseteq Used(ir) \cup {op.target}
        /\ op.target \notin Used(ir) /\ Ordered(ir) => Ordered(jr)
    BY <1>4, <2>1, RenameKeepsOrder
  <2> QED
    BY <1>4, <2>2, <2>3, <2>4 DEF jr
<1>5. CASE \/ op.op = "RENAME" /\ op.old \notin DOMAIN ir
           \/ op.op \notin {"SPLIT", "MERGE", "RENAME", "REORDER", "UPDATE_STATUS"}
  <2>1. jr = ir
    BY <1>5 DEF Applied, Rename
  <2> QED
    BY <2>1
<1> QED
  BY <1>1, <1>2, <1>3, <1>4, <1>5

-----------------------------------------------------------------------------
(* The steps of a compilation *)

\* A fresh graph, or none.
LEMMA NothingReplayed ==
  ASSUME NEW c, c.k = 0 \/ c.k = 1, c.ir = c.base, Shaped(c.base)
  PROVE  CompiledInv(c)
<1>1. 1 .. (c.k - 1) = {} /\ c.k \in Nat
  OBVIOUS
<1> QED
  BY <1>1 DEF CompiledInv, StaysClosed, Accounted

LEMMA EmptyIsShaped == Shaped(NoGraph)
BY DEF Shaped, NoGraph

LEMMA IngestIsShaped == \A order : Shaped(Ingest(order))
<1> SUFFICES ASSUME NEW order, NEW n \in DOMAIN Ingest(order)
             PROVE  \E p, c, s : Ingest(order)[n] = [pre |-> p, comp |-> c, status |-> s]
  BY DEF Shaped
<1>1. Ingest(order)[n] = [pre |-> Declared(Defining(order, n), "prerequisites"),
                          comp |-> Declared(Defining(order, n), "composed_of"), status |-> "draft"]
  BY DEF Ingest
<1> QED
  BY <1>1

\* One more operator.
LEMMA ReplayKeeps ==
  ASSUME NEW c, NEW d, CompiledInv(c), c.k >= 1,
         d.base = c.base, d.ops = c.ops, d.k = c.k + 1, d.ir = Applied(c.ir, c.ops[c.k])
  PROVE  CompiledInv(d)
<1> DEFINE op == c.ops[c.k]
<1>1. c.k \in Nat /\ d.k \in Nat /\ 1 .. (d.k - 1) = (1 .. (c.k - 1)) \cup {c.k} /\ c.k \in 1 .. (d.k - 1)
  BY DEF CompiledInv
<1>2. /\ Shaped(d.ir)
      /\ op.op # "REORDER" /\ Closed(c.ir) => Closed(d.ir)
      /\ op.op \notin {"MERGE", "REORDER"} =>
           /\ Used(d.ir) \subseteq Used(c.ir) \cup {op.target}
           /\ (op.op = "RENAME" => op.target \notin Used(c.ir)) /\ Ordered(c.ir) => Ordered(d.ir)
  BY AppliedKeeps DEF CompiledInv
<1>3. StaysClosed(d)
  <2>1. \A x : x \in Past(c) => x \in Past(d)
    BY <1>1 DEF Past
  <2>2. op \in Past(d)
    BY <1>1 DEF Past
  <2> QED
    BY <1>2, <2>1, <2>2 DEF StaysClosed, CompiledInv
<1>4. ASSUME Harmless(d)
      PROVE  Harmless(c) /\ Accounted(d) /\ (Ordered(c.ir) => Ordered(d.ir))
  <2>1. Harmless(c)
    BY <1>1, <1>4 DEF Harmless
  <2>2. /\ op.op \notin {"MERGE", "REORDER"}
        /\ op.op = "RENAME" =>
             op.target \notin Used(c.base) \cup {c.ops[j].target : j \in 1 .. (c.k - 1)}
    BY <1>1, <1>4 DEF Harmless
  <2>3. Used(c.ir) \subseteq Used(c.base) \cup {c.ops[j].target : j \in 1 .. (c.k - 1)}
    BY <2>1 DEF CompiledInv, Accounted
  <2>4. Used(d.ir) \subseteq Used(c.ir) \cup {op.target} /\ (Ordered(c.ir) => Ordered(d.ir))
    BY <1>2, <2>2, <2>3
  <2>5. {c.ops[j].target : j \in 1 .. (c.k - 1)} \cup {op.target}
          \subseteq {d.ops[j].target : j \in 1 .. (d.k - 1)}
    BY <1>1
  <2>6. Used(d.ir) \subseteq Used(d.base) \cup {d.ops[j].target : j \in 1 .. (d.k - 1)}
    BY <2>3, <2>4, <2>5
  <2> QED
    BY <2>1, <2>4, <2>6 DEF Accounted
<1> QED
  BY <1>1, <1>2, <1>3, <1>4 DEF CompiledInv

LEMMA CompilerStarts == CompileInit => CompilerInv
<1> SUFFICES ASSUME CompileInit  PROVE CompilerInv
  OBVIOUS
<1>1. /\ compile = NoCompile /\ output = NoCompile
      /\ NoCompile.k = 0 /\ NoCompile.ir = NoGraph /\ NoCompile.base = NoGraph /\ NoCompile.pc = "idle"
  BY DEF CompileInit, NoCompile
<1>2. CompiledInv(NoCompile)
  BY <1>1, NothingReplayed, EmptyIsShaped
<1>3. \E pc, strict, base, ir, ops, k :
        NoCompile = [pc |-> pc, strict |-> strict, base |-> base, ir |-> ir, ops |-> ops, k |-> k]
  BY DEF NoCompile
<1> QED
  BY <1>1, <1>2, <1>3 DEF CompilerInv

LEMMA CompilerSteps == CompilerInv /\ [CompileNext]_compileVars => CompilerInv'
<1> SUFFICES ASSUME CompilerInv, [CompileNext]_compileVars  PROVE CompilerInv'
  OBVIOUS
<1> DEFINE Compilation(pc, strict, base, ir, ops, k) ==
      [pc |-> pc, strict |-> strict, base |-> base, ir |-> ir, ops |-> ops, k |-> k]
<1>1. PICK pc, strict, base, ir, ops, k : compile = Compilation(pc, strict, base, ir, ops, k)
  BY DEF CompilerInv
<1>2. CASE \E x \in BOOLEAN, order \in Orders : ValidateAndIngest(x, order)
  <2>1. PICK x \in BOOLEAN, order \in Orders : ValidateAndIngest(x, order)
    BY <1>2
  <2>2. compile' = Compilation("ingested", x, Ingest(order), Ingest(order), <<>>, 0) /\ output' = output
    BY <2>1 DEF ValidateAndIngest, NoCompile
  <2>3. CompiledInv(compile')
    BY <2>2, NothingReplayed, IngestIsShaped
  <2> QED
    BY <2>2, <2>3 DEF CompilerInv
<1>3. CASE LoadHistory
  <2>1. PICK new : compile' = [compile EXCEPT !.pc = "applying", !.k = 1, !.ops = new]
    BY <1>3 DEF LoadHistory
  <2>2. compile' = Compilation("applying", strict, base, ir, new, 1) /\ output' = output
    BY <1>1, <2>1, <1>3 DEF LoadHistory
  <2>3. ir = base /\ Shaped(ir)
    BY <1>1, <1>3 DEF LoadHistory, CompilerInv, CompiledInv
  <2>4. CompiledInv(compile')
    BY <2>2, <2>3, NothingReplayed
  <2>5. \E a, b, c, d, e, f : compile' = Compilation(a, b, c, d, e, f)
    BY <2>2
  <2>6. compile'.pc = "applying" /\ compile'.k >= 1 /\ CompiledInv(output')
    BY <2>2, <2>4 DEF CompilerInv
  <2> QED
    BY <2>4, <2>5, <2>6 DEF CompilerInv
<1>4. CASE ApplyOperator
  <2>1. compile' = Compilation("applying", strict, base, Applied(ir, ops[k]), ops, k + 1) /\ output' = output
    BY <1>1, <1>4 DEF ApplyOperator
  <2>2. CompiledInv(compile) /\ k >= 1 /\ k \in Nat
    BY <1>1, <1>4 DEF ApplyOperator, CompilerInv, CompiledInv
  <2>3. CompiledInv(compile')
    BY <1>1, <2>1, <2>2, ReplayKeeps
  <2>4. \E a, b, c, d, e, f : compile' = Compilation(a, b, c, d, e, f)
    BY <2>1
  <2>5. compile'.pc = "applying" /\ compile'.k >= 1 /\ CompiledInv(output')
    BY <2>1, <2>2, <2>3 DEF CompilerInv
  <2> QED
    BY <2>3, <2>4, <2>5 DEF CompilerInv
<1>5. CASE WriteBehaviors
  <2>1. output' = Compilation("written", strict, base, ir, ops, k) /\ compile' = NoCompile
    BY <1>1, <1>5 DEF WriteBehaviors
  <2>2. CompiledInv(output')
    BY <1>1, <2>1 DEF CompilerInv, CompiledInv, StaysClosed, Past, Harmless, Accounted
  <2>3. compile' = Compilation("idle", FALSE, NoGraph, NoGraph, <<>>, 0)
    BY <2>1 DEF NoCompile
  <2>4. CompiledInv(compile')
    BY <2>3, NothingReplayed, EmptyIsShaped
  <2> QED
    BY <2>2, <2>3, <2>4 DEF CompilerInv
<1>6. CASE UNCHANGED compileVars
  BY <1>6 DEF compileVars, CompilerInv
<1> QED
  BY <1>2, <1>3, <1>4, <1>5, <1>6 DEF CompileNext

\* A graph whose references all name nodes keeps that through any history
\* without a REORDER, whatever its renames, merges and splits are and wherever
\* a rename lands (apply_to_ir), while others edit the files and the history.
THEOREM ReferencesKept == CompilerSpec => []HistoryKeepsReferences
<1>1. CompilerInv => HistoryKeepsReferences
  BY DEF CompilerInv, CompiledInv, HistoryKeepsReferences
<1> QED
  BY <1>1, CompilerStarts, CompilerSteps, PTL DEF CompilerSpec

\* A graph that can be studied in some order still can, after any history
\* that neither merges nor reorders and renames only to names not in use.
KeepsAnOrder(c) == Harmless(c) /\ Ordered(c.base) => Ordered(c.ir)

\* What is written can be studied in some order if what was ingested could,
\* however many operators were replayed between the two.
THEOREM OrderKept == CompilerSpec => [](KeepsAnOrder(compile) /\ KeepsAnOrder(output))
<1>1. CompilerInv => KeepsAnOrder(compile) /\ KeepsAnOrder(output)
  BY DEF CompilerInv, CompiledInv, KeepsAnOrder
<1> QED
  BY <1>1, CompilerStarts, CompilerSteps, PTL DEF CompilerSpec

-----------------------------------------------------------------------------
(* The migration: one page *)

Below == {p \in Nat \X Nat : p[1] < p[2]}

\* A set of positions has a first.
LEMMA FirstPosition ==
  ASSUME NEW S, S \subseteq Nat, S # {}
  PROVE  (CHOOSE i \in S : \A j \in S : i <= j) \in S
<1>1. OpToRel(<, Nat) = Below
  BY DEF OpToRel, Below
<1>2. IsWellFoundedOn(Below, Nat)
  BY <1>1, NatLessThanWellFounded
<1>3. PICK i \in S : \A j \in S : <<j, i>> \notin Below
  BY <1>2, WFMin
<1>4. \A j \in S : <<j, i>> \in Nat \X Nat
  BY <1>3
<1>5. \A j \in S : ~ (j < i)
  BY <1>3, <1>4 DEF Below
<1>6. \A j \in S : i <= j
  BY <1>3, <1>5
<1> QED
  BY <1>3, <1>6

\* A sequence is one of its own values.
LEMMA OfItsValues ==
  ASSUME NEW S, NEW s \in Seq(S)
  PROVE  s \in Seq(ToSet(s))
BY DEF ToSet

Page(role, front, keys, body) == [role |-> role, front |-> front, keys |-> keys, body |-> body]

Key(k, v) == [key |-> k, value |-> v]

LEMMA KeyParts ==
  ASSUME NEW e, NEW k, NEW v, e = Key(k, v)
  PROVE  e.key = k /\ e.value = v
BY DEF Key

LEMMA PageFacts ==
  ASSUME NEW p, IsPage(p)
  PROVE  /\ p = Page(p.role, p.front, p.keys, p.body)
         /\ Len(p.keys) \in Nat /\ DOMAIN p.keys = 1 .. Len(p.keys)
         /\ Len(p.body) \in Nat /\ DOMAIN p.body = 1 .. Len(p.body)
         /\ p.keys \in Seq(ToSet(p.keys)) /\ p.body \in Seq(ToSet(p.body))
         /\ \A i \in DOMAIN p.keys : p.keys[i] = Key(p.keys[i].key, p.keys[i].value)
         /\ \A i \in DOMAIN p.body : p.body[i] \in ToSet(p.body)
BY DEF IsPage, Page, Key, ToSet

\* What makes a page of its parts.
LEMMA MadeOfParts ==
  ASSUME NEW role \in Roles, NEW front \in Fronts, NEW K, NEW keys \in Seq(K),
         NEW B, NEW body \in Seq(B), front # "none",
         \A i \in 1 .. Len(keys) : keys[i] = Key(keys[i].key, keys[i].value)
  PROVE  IsPage(Page(role, front, keys, body))
<1>1. /\ keys \in Seq(ToSet(keys)) /\ body \in Seq(ToSet(body))
  BY OfItsValues
<1>2. DOMAIN keys = 1 .. Len(keys)
  OBVIOUS
<1> QED
  BY <1>1, <1>2 DEF IsPage, Page, Key

-----------------------------------------------------------------------------
(* The migration: one key changed *)

\* q is p with the key or the value of its entry c changed.
Changed(p, q, c, entry) ==
  /\ IsPage(q) /\ q.role = p.role /\ q.front = p.front /\ q.body = p.body
  /\ DOMAIN q.keys = DOMAIN p.keys
  /\ q.keys[c] = entry
  /\ \A i \in DOMAIN p.keys : i # c => q.keys[i] = p.keys[i]

LEMMA ChangedEntry ==
  ASSUME NEW p, IsPage(p), p.front # "none", NEW c \in DOMAIN p.keys, NEW k, NEW v
  PROVE  Changed(p, Page(p.role, p.front, [p.keys EXCEPT ![c] = Key(k, v)], p.body), c, Key(k, v))
<1> DEFINE keys == [p.keys EXCEPT ![c] = Key(k, v)]
<1> DEFINE K == ToSet(p.keys) \cup {Key(k, v)}
<1>1. keys \in Seq(K) /\ Len(keys) = Len(p.keys) /\ DOMAIN keys = DOMAIN p.keys
  <2>1. p.keys \in Seq(K)
    BY PageFacts
  <2> QED
    BY <2>1
<1>2. \A i \in DOMAIN p.keys : i # c => keys[i] = p.keys[i]
  OBVIOUS
<1>3. keys[c] = Key(k, v)
  OBVIOUS
<1>4. \A i \in 1 .. Len(keys) : keys[i] = Key(keys[i].key, keys[i].value)
  <2> TAKE i \in 1 .. Len(keys)
  <2>1. i \in DOMAIN p.keys
    BY <1>1, PageFacts
  <2>2. CASE i = c
    BY <2>2, <1>3 DEF Key
  <2>3. CASE i # c
    BY <2>1, <2>3, <1>2, PageFacts
  <2> QED
    BY <2>2, <2>3
<1> HIDE DEF keys, K
<1>5. p.role \in Roles /\ p.front \in Fronts /\ p.body \in Seq(ToSet(p.body))
  BY DEF IsPage
<1>6. IsPage(Page(p.role, p.front, keys, p.body))
  BY <1>1, <1>4, <1>5, MadeOfParts
<1>7. Changed(p, Page(p.role, p.front, keys, p.body), c, Key(k, v))
  BY <1>1, <1>2, <1>3, <1>6 DEF Changed, Page
<1> QED
  BY <1>7 DEF keys

LEMMA OtherKey ==
  ASSUME NEW e, e = Key(e.key, e.value), NEW k
  PROVE  [e EXCEPT !.key = k] = Key(k, e.value)
BY DEF Key

LEMMA OtherValue ==
  ASSUME NEW e, e = Key(e.key, e.value), NEW v
  PROVE  [e EXCEPT !.value = v] = Key(e.key, v)
BY DEF Key

LEMMA OtherKeys ==
  ASSUME NEW p, p = Page(p.role, p.front, p.keys, p.body), NEW keys
  PROVE  [p EXCEPT !.keys = keys] = Page(p.role, p.front, keys, p.body)
BY DEF Page

LEMMA Rekeyed ==
  ASSUME NEW p, IsPage(p), NEW c \in DOMAIN p.keys, NEW k
  PROVE  [p EXCEPT !.keys[c].key = k]
           = Page(p.role, p.front, [p.keys EXCEPT ![c] = Key(k, p.keys[c].value)], p.body)
<1>1. [p.keys[c] EXCEPT !.key = k] = Key(k, p.keys[c].value)
  <2>1. p.keys[c] = Key(p.keys[c].key, p.keys[c].value)
    BY PageFacts
  <2> QED
    BY <2>1, OtherKey
<1>2. [p EXCEPT !.keys[c].key = k] = [p EXCEPT !.keys = [p.keys EXCEPT ![c] = [p.keys[c] EXCEPT !.key = k]]]
  BY PageFacts
<1> QED
  BY <1>1, <1>2, PageFacts, OtherKeys

LEMMA Revalued ==
  ASSUME NEW p, IsPage(p), NEW c \in DOMAIN p.keys, NEW v
  PROVE  [p EXCEPT !.keys[c].value = v]
           = Page(p.role, p.front, [p.keys EXCEPT ![c] = Key(p.keys[c].key, v)], p.body)
<1>1. [p.keys[c] EXCEPT !.value = v] = Key(p.keys[c].key, v)
  <2>1. p.keys[c] = Key(p.keys[c].key, p.keys[c].value)
    BY PageFacts
  <2> QED
    BY <2>1, OtherValue
<1>2. [p EXCEPT !.keys[c].value = v] = [p EXCEPT !.keys = [p.keys EXCEPT ![c] = [p.keys[c] EXCEPT !.value = v]]]
  BY PageFacts
<1> QED
  BY <1>1, <1>2, PageFacts, OtherKeys

\* A timestamp becomes who generated the page and when, unless that is there.
LEMMA StampedChanges ==
  ASSUME NEW p, IsPage(p), p.front # "none"
  PROVE  \/ /\ Stamped(p) = p
            /\ p.front = "flow" \/ HasKey(p, "generated") \/ ~HasKey(p, "timestamp")
         \/ \E c \in DOMAIN p.keys :
              /\ p.keys[c].key = "timestamp" /\ ~HasKey(p, "generated")
              /\ Changed(p, Stamped(p), c, Key("generated", p.keys[c].value))
<1> DEFINE stamps == {i \in DOMAIN p.keys : p.keys[i].key = "timestamp"}
<1> DEFINE c == CHOOSE i \in stamps : \A j \in stamps : i <= j
<1>1. CASE stamps = {} \/ p.front = "flow" \/ HasKey(p, "generated")
  BY <1>1 DEF Stamped, HasKey
<1>2. CASE stamps # {} /\ p.front # "flow" /\ ~HasKey(p, "generated")
  <2>1. stamps \subseteq Nat
    BY PageFacts
  <2>2. c \in stamps
    BY <1>2, <2>1, FirstPosition
  <2>3. Stamped(p) = [p EXCEPT !.keys[c].key = "generated"]
    BY <1>2 DEF Stamped
  <2> HIDE DEF c
  <2>4. c \in DOMAIN p.keys /\ p.keys[c].key = "timestamp"
    BY <2>2
  <2>7. Stamped(p) = Page(p.role, p.front, [p.keys EXCEPT ![c] = Key("generated", p.keys[c].value)], p.body)
    BY <2>3, <2>4, Rekeyed
  <2>8. Changed(p, Stamped(p), c, Key("generated", p.keys[c].value))
    BY <2>4, <2>7, ChangedEntry
  <2> QED
    BY <1>2, <2>4, <2>8
<1> QED
  BY <1>1, <1>2

\* A root index that names version 0.1 names 0.2 instead.
LEMMA VersionedChanges ==
  ASSUME NEW p, IsPage(p), p.front # "none", p.front # "flow"
  PROVE  \/ /\ Versioned(p) = p
            /\ \A i \in DOMAIN p.keys : p.keys[i] # Key("okf_version", "0.1")
         \/ \E c \in DOMAIN p.keys :
              /\ p.keys[c] = Key("okf_version", "0.1")
              /\ Changed(p, Versioned(p), c, Key("okf_version", "0.2"))
<1> DEFINE olds == {i \in DOMAIN p.keys : p.keys[i] = Key("okf_version", "0.1")}
<1> DEFINE c == CHOOSE i \in olds : \A j \in olds : i <= j
<1>0. Versioned(p) = IF olds = {} \/ p.front = "flow" THEN p ELSE [p EXCEPT !.keys[c].value = "0.2"]
  BY DEF Versioned, Key
<1>1. CASE olds = {}
  BY <1>0, <1>1
<1>2. CASE olds # {}
  <2>1. olds \subseteq Nat
    BY PageFacts
  <2>2. c \in olds
    BY <1>2, <2>1, FirstPosition
  <2>3. Versioned(p) = [p EXCEPT !.keys[c].value = "0.2"]
    BY <1>0, <1>2
  <2> HIDE DEF c
  <2>4. c \in DOMAIN p.keys /\ p.keys[c] = Key("okf_version", "0.1")
    BY <2>2
  <2>5. p.keys[c].key = "okf_version"
    BY <2>4 DEF Key
  <2>7. Versioned(p) = Page(p.role, p.front, [p.keys EXCEPT ![c] = Key("okf_version", "0.2")], p.body)
    BY <2>3, <2>4, <2>5, Revalued
  <2>8. Changed(p, Versioned(p), c, Key("okf_version", "0.2"))
    BY <2>4, <2>7, ChangedEntry
  <2> QED
    BY <2>4, <2>8
<1> QED
  BY <1>1, <1>2

-----------------------------------------------------------------------------
(* The migration: citations moved to the sources *)

\* q is p with its section f gone and what that cites as its last key.
Moved(p, q, f) ==
  LET n == Len(p.keys) + 1 IN
  /\ q.role = p.role /\ q.front = IF p.front = "block" THEN "block" ELSE "bad"
  /\ DOMAIN q.keys = 1 .. n /\ Len(p.keys) \in Nat /\ DOMAIN p.keys = 1 .. Len(p.keys)
  /\ q.keys[n] = Key("sources", Links(p.body[f]))
  /\ \A i \in DOMAIN p.keys : q.keys[i] = p.keys[i]
  /\ \A s \in ToSet(p.body) : s \in ToSet(q.body) \/ s = p.body[f]
  /\ ToSet(q.body) \subseteq ToSet(p.body)

LEMMA Joined ==
  ASSUME NEW S, NEW a \in Seq(S), NEW b \in Seq(S)
  PROVE  /\ a \o b \in Seq(S) /\ Len(a \o b) = Len(a) + Len(b)
         /\ DOMAIN (a \o b) = 1 .. Len(a) + Len(b)
         /\ \A i \in 1 .. Len(a) + Len(b) : (a \o b)[i] = IF i <= Len(a) THEN a[i] ELSE b[i - Len(a)]
OBVIOUS

LEMMA RemovedAt ==
  ASSUME NEW S, NEW s \in Seq(S), NEW f \in DOMAIN s
  PROVE  /\ RemoveAt(s, f) \in Seq(S)
         /\ \A x \in ToSet(s) : x \in ToSet(RemoveAt(s, f)) \/ x = s[f]
         /\ ToSet(RemoveAt(s, f)) \subseteq ToSet(s)
<1> DEFINE front == SubSeq(s, 1, f - 1)
<1> DEFINE back == SubSeq(s, f + 1, Len(s))
<1> DEFINE rest == front \o back
<1>1. f \in 1 .. Len(s) /\ Len(s) \in Nat /\ DOMAIN s = 1 .. Len(s)
  OBVIOUS
<1>2. /\ front \in Seq(S) /\ Len(front) = f - 1
      /\ \A i \in 1 .. f - 1 : front[i] = s[i]
  BY <1>1
<1>3. /\ back \in Seq(S) /\ Len(back) = Len(s) - f
      /\ \A i \in 1 .. Len(s) - f : back[i] = s[f + i]
  BY <1>1
<1> HIDE DEF front, back
<1>4. /\ rest \in Seq(S) /\ Len(rest) = Len(s) - 1 /\ DOMAIN rest = 1 .. Len(s) - 1
      /\ \A i \in 1 .. Len(s) - 1 : rest[i] = IF i < f THEN s[i] ELSE s[i + 1]
  <2>1. /\ rest \in Seq(S) /\ Len(rest) = Len(front) + Len(back)
        /\ DOMAIN rest = 1 .. Len(front) + Len(back)
        /\ \A i \in 1 .. Len(front) + Len(back) :
             rest[i] = IF i <= Len(front) THEN front[i] ELSE back[i - Len(front)]
    BY <1>2, <1>3, Joined
  <2>2. \A i \in 1 .. Len(s) - 1 : rest[i] = IF i <= f - 1 THEN front[i] ELSE back[i - (f - 1)]
    <3>1. Len(front) + Len(back) = Len(s) - 1
      BY <1>1, <1>2, <1>3
    <3> QED
      BY <1>2, <2>1, <3>1
  <2>3. Len(rest) = Len(s) - 1
    BY <1>1, <1>2, <1>3, <2>1
  <2> HIDE DEF rest
  <2>4. ASSUME NEW i \in 1 .. Len(s) - 1  PROVE rest[i] = IF i < f THEN s[i] ELSE s[i + 1]
    <3>1. CASE i < f
      <4>1. i \in 1 .. f - 1
        BY <1>1, <3>1
      <4> QED
        BY <1>1, <1>2, <2>2, <2>3, <3>1, <4>1
    <3>2. CASE ~ (i < f)
      <4>1. i - (f - 1) \in 1 .. Len(s) - f /\ f + (i - (f - 1)) = i + 1 /\ ~ (i <= f - 1)
        BY <1>1, <3>2
      <4>2. back[i - (f - 1)] = s[f + (i - (f - 1))]
        BY <1>3, <4>1
      <4> QED
        BY <2>2, <2>3, <3>2, <4>1, <4>2
    <3> QED
      BY <3>1, <3>2
  <2> QED
    BY <2>1, <2>3, <2>4
<1>5. RemoveAt(s, f) = rest
  BY DEF RemoveAt, front, back
<1> HIDE DEF rest
<1>6. \A x \in ToSet(s) : x \in ToSet(rest) \/ x = s[f]
  <2> SUFFICES ASSUME NEW i \in DOMAIN s, i # f  PROVE s[i] \in ToSet(rest)
    BY DEF ToSet
  <2>1. CASE i < f
    <3>1. i \in DOMAIN rest /\ rest[i] = s[i]
      BY <1>1, <1>4, <2>1
    <3> QED
      BY <3>1 DEF ToSet
  <2>2. CASE i > f
    <3>1. i - 1 \in DOMAIN rest /\ rest[i - 1] = s[i]
      BY <1>1, <1>4, <2>2
    <3> QED
      BY <3>1 DEF ToSet
  <2> QED
    BY <1>1, <2>1, <2>2
<1>7. ToSet(rest) \subseteq ToSet(s)
  <2> SUFFICES ASSUME NEW i \in DOMAIN rest  PROVE rest[i] \in ToSet(s)
    BY DEF ToSet
  <2>1. /\ i \in DOMAIN s /\ i + 1 \in DOMAIN s
        /\ rest[i] = s[i] \/ rest[i] = s[i + 1]
    BY <1>1, <1>4
  <2> QED
    BY <2>1 DEF ToSet
<1> QED
  BY <1>4, <1>5, <1>6, <1>7

\* The first citations, if they link to anything, become the sources.
LEMMA HoistedChanges ==
  ASSUME NEW p, IsPage(p), IsMapping(p), ~HasKey(p, "sources")
  PROVE  \/ Hoisted(p) = p
         \/ /\ IsPage(Hoisted(p))
            /\ \E f \in DOMAIN p.body : Moved(p, Hoisted(p), f)
<1> DEFINE lists == {i \in DOMAIN p.body : p.body[i].head = "citations"}
<1> DEFINE f == CHOOSE i \in lists : \A j \in lists : i <= j
<1>1. CASE lists = {} \/ Links(p.body[f]) = {}
  BY <1>1 DEF Hoisted, HoistedAgain
<1>2. CASE lists # {} /\ Links(p.body[f]) # {}
  <2> DEFINE entry == Key("sources", Links(p.body[f]))
  <2> DEFINE keys == Append(p.keys, entry)
  <2> DEFINE body == RemoveAt(p.body, f)
  <2> DEFINE front == IF p.front = "block" THEN "block" ELSE "bad"
  <2> DEFINE q == Page(p.role, front, keys, body)
  <2>1. lists \subseteq Nat
    BY PageFacts
  <2>2. f \in lists
    BY <1>2, <2>1, FirstPosition
  <2>3. Hoisted(p) = [p EXCEPT !.keys = Append(@, entry), !.body = RemoveAt(@, f),
                               !.front = IF @ = "block" THEN @ ELSE "bad"]
    BY <1>2 DEF Hoisted, HoistedAgain, Key
  <2> HIDE DEF f
  <2>4. f \in DOMAIN p.body
    BY <2>2
  <2> HIDE DEF lists, entry
  <2>5. Hoisted(p) = q
    <3>1. p = Page(p.role, p.front, p.keys, p.body)
      BY PageFacts
    <3> QED
      BY <2>3, <3>1 DEF Page
  <2>6. /\ body \in Seq(ToSet(p.body))
        /\ \A s \in ToSet(p.body) : s \in ToSet(body) \/ s = p.body[f]
        /\ ToSet(body) \subseteq ToSet(p.body)
    BY <2>4, PageFacts, RemovedAt
  <2>7. /\ Len(p.keys) \in Nat /\ DOMAIN p.keys = 1 .. Len(p.keys)
        /\ keys \in Seq(ToSet(p.keys) \cup {entry})
        /\ Len(keys) = Len(p.keys) + 1 /\ DOMAIN keys = 1 .. Len(p.keys) + 1
        /\ keys[Len(p.keys) + 1] = entry
        /\ \A i \in DOMAIN p.keys : keys[i] = p.keys[i]
    <3>1. /\ p.keys \in Seq(ToSet(p.keys) \cup {entry})
          /\ Len(p.keys) \in Nat /\ DOMAIN p.keys = 1 .. Len(p.keys)
      BY PageFacts
    <3> QED
      BY <3>1
  <2>8. \A i \in 1 .. Len(keys) : keys[i] = Key(keys[i].key, keys[i].value)
    <3> TAKE i \in 1 .. Len(keys)
    <3>1. CASE i = Len(p.keys) + 1
      <4>1. keys[i] = entry
        BY <2>7, <3>1
      <4> QED
        BY <4>1 DEF entry, Key
    <3>2. CASE i # Len(p.keys) + 1
      <4>1. i \in DOMAIN p.keys
        BY <2>7, <3>2
      <4>2. keys[i] = p.keys[i]
        BY <2>7, <4>1
      <4> QED
        BY <4>1, <4>2, PageFacts
    <3> QED
      BY <3>1, <3>2
  <2> HIDE DEF keys, body
  <2>9. p.role \in Roles /\ front \in Fronts /\ front # "none"
    BY DEF IsPage, Fronts
  <2>10. IsPage(q)
    BY <2>6, <2>7, <2>8, <2>9, MadeOfParts
  <2>11. Moved(p, q, f)
    BY <2>6, <2>7 DEF Moved, Page, entry
  <2> QED
    BY <2>4, <2>5, <2>10, <2>11
<1> QED
  BY <1>1, <1>2

-----------------------------------------------------------------------------
(* The migration: a page rewritten *)

\* Two entries of the frontmatter have the same key.
Twins(p) == \E l, m \in DOMAIN p.keys : l # m /\ p.keys[l].key = p.keys[m].key

\* There is no timestamp left to rewrite.
Settled(p) == p.front = "flow" \/ HasKey(p, "generated") \/ ~HasKey(p, "timestamp")

\* A link cited in p is in the body of q, or one of its sources.
LinksKept(p, q) ==
  \A s \in ToSet(p.body) : \A x \in ToSet(s.items) :
    x.kind \in {"bare", "titled"} =>
      \/ \E t \in ToSet(q.body) : x \in ToSet(t.items)
      \/ HasKey(q, "sources") /\ x \in ValueOf(q, "sources")

LEMMA StampedFacts ==
  ASSUME NEW p, IsPage(p), IsMapping(p)
  PROVE  LET q == Stamped(p) IN
         /\ IsPage(q) /\ q.role = p.role /\ q.front = p.front /\ q.body = p.body
         /\ Settled(q)
         /\ Twins(q) => Twins(p)
         /\ HasKey(p, "type") => HasKey(q, "type")
         /\ HasKey(p, "sources") <=> HasKey(q, "sources")
         /\ HasKey(q, "generated") \/ HasKey(q, "timestamp")
              <=> HasKey(p, "generated") \/ HasKey(p, "timestamp")
<1>0. p.front # "none"
  BY DEF IsMapping
<1>1. CASE Stamped(p) = p /\ Settled(p)
  BY <1>1
<1>2. CASE ~ (Stamped(p) = p /\ Settled(p))
  <2>1. PICK c \in DOMAIN p.keys :
          /\ p.keys[c].key = "timestamp" /\ ~HasKey(p, "generated")
          /\ Changed(p, Stamped(p), c, Key("generated", p.keys[c].value))
    BY <1>0, <1>2, StampedChanges DEF Settled
  <2> DEFINE q == Stamped(p)
  <2>2. /\ IsPage(q) /\ q.role = p.role /\ q.front = p.front /\ q.body = p.body
        /\ DOMAIN q.keys = DOMAIN p.keys
        /\ q.keys[c].key = "generated"
        /\ \A i \in DOMAIN p.keys : i # c => q.keys[i] = p.keys[i]
    BY <2>1 DEF Changed, Key
  <2> HIDE DEF q
  <2>3. Settled(q)
    BY <2>2 DEF Settled, HasKey
  <2>4. Twins(q) => Twins(p)
    BY <2>1, <2>2 DEF Twins, HasKey
  <2>5. HasKey(p, "type") => HasKey(q, "type")
    BY <2>1, <2>2 DEF HasKey
  <2>6. HasKey(p, "sources") <=> HasKey(q, "sources")
    BY <2>1, <2>2 DEF HasKey
  <2>7. /\ HasKey(q, "generated") \/ HasKey(q, "timestamp")
        /\ HasKey(p, "generated") \/ HasKey(p, "timestamp")
    BY <2>1, <2>2 DEF HasKey
  <2> QED
    BY <2>2, <2>3, <2>4, <2>5, <2>6, <2>7 DEF q
<1> QED
  BY <1>1, <1>2

LEMMA SettledStays ==
  ASSUME NEW p, Settled(p)
  PROVE  Stamped(p) = p
BY DEF Settled, Stamped, HasKey

\* The links of a section are among its items.
LEMMA SameBodyKeepsLinks ==
  ASSUME NEW p, NEW q, q.body = p.body
  PROVE  LinksKept(p, q)
BY DEF LinksKept

LEMMA HoistedFacts ==
  ASSUME NEW p, IsPage(p), IsMapping(p), Hoisted(p) # p
  PROVE  LET q == Hoisted(p) IN
         /\ IsPage(q) /\ q.role = p.role
         /\ q.front = IF p.front = "block" THEN "block" ELSE "bad"
         /\ HasKey(q, "sources")
         /\ Twins(q) => Twins(p)
         /\ \A k : k # "sources" => (HasKey(q, k) <=> HasKey(p, k))
         /\ LinksKept(p, q)
         /\ ToSet(q.body) \subseteq ToSet(p.body)
<1> DEFINE q == Hoisted(p)
<1>1. ~HasKey(p, "sources")
  BY DEF Hoisted
<1>2. IsPage(q) /\ \E f \in DOMAIN p.body : Moved(p, q, f)
  BY <1>1, HoistedChanges
<1>3. PICK f \in DOMAIN p.body : Moved(p, q, f)
  BY <1>2
<1> HIDE DEF q
<1> DEFINE n == Len(p.keys) + 1
<1>4. /\ q.role = p.role /\ q.front = IF p.front = "block" THEN "block" ELSE "bad"
      /\ n \in Nat /\ DOMAIN q.keys = 1 .. n /\ n \in DOMAIN q.keys /\ n \notin DOMAIN p.keys
      /\ \A i \in DOMAIN q.keys : i = n \/ i \in DOMAIN p.keys
      /\ \A i \in DOMAIN p.keys : i \in DOMAIN q.keys
      /\ q.keys[n].key = "sources" /\ q.keys[n].value = Links(p.body[f])
      /\ \A i \in DOMAIN p.keys : q.keys[i] = p.keys[i]
      /\ \A s \in ToSet(p.body) : s \in ToSet(q.body) \/ s = p.body[f]
      /\ ToSet(q.body) \subseteq ToSet(p.body)
  BY <1>3 DEF Moved, Key
<1> HIDE DEF n
<1>5. \A i \in DOMAIN p.keys : p.keys[i].key # "sources"
  BY <1>1 DEF HasKey
<1>6. HasKey(q, "sources") /\ ValueOf(q, "sources") = Links(p.body[f])
  <2>1. \A i \in DOMAIN q.keys : q.keys[i].key = "sources" <=> i = n
    BY <1>4, <1>5
  <2>2. (CHOOSE i \in DOMAIN q.keys : q.keys[i].key = "sources") = n
    BY <1>4, <2>1
  <2> QED
    BY <1>4, <2>2 DEF HasKey, ValueOf
<1>7. Twins(q) => Twins(p)
  <2> SUFFICES ASSUME NEW l \in DOMAIN q.keys, NEW m \in DOMAIN q.keys,
                      l # m, q.keys[l].key = q.keys[m].key
               PROVE  Twins(p)
    BY DEF Twins
  <2>1. l \in DOMAIN p.keys /\ m \in DOMAIN p.keys
    BY <1>4, <1>5
  <2> QED
    BY <1>4, <2>1 DEF Twins
<1>8. \A k : k # "sources" => (HasKey(q, k) <=> HasKey(p, k))
  BY <1>4 DEF HasKey
<1>9. LinksKept(p, q)
  <2> SUFFICES ASSUME NEW s \in ToSet(p.body), NEW x \in ToSet(s.items), x.kind \in {"bare", "titled"}
               PROVE  \/ \E t \in ToSet(q.body) : x \in ToSet(t.items)
                      \/ HasKey(q, "sources") /\ x \in ValueOf(q, "sources")
    BY DEF LinksKept
  <2>1. CASE s \in ToSet(q.body)
    BY <2>1
  <2>2. CASE s = p.body[f]
    <3>1. x \in Links(p.body[f])
      BY <2>2 DEF Links
    <3> QED
      BY <1>6, <3>1
  <2> QED
    BY <1>4, <2>1, <2>2
<1> QED
  BY <1>2, <1>4, <1>6, <1>7, <1>8, <1>9 DEF q

LEMMA Rested ==
  ASSUME NEW p, p.role = "page", Settled(p), Hoisted(p) = p
  PROVE  Migrated(p) = p
BY SettledStays DEF Migrated

\* p has no timestamp left, q is what becomes of it, and rewritten again
\* stays as it is.
Rests(p, q) ==
  /\ IsPage(q) /\ q.role = "page" /\ Migrated(q) = q
  /\ Twins(q) => Twins(p)
  /\ LinksKept(p, q)
  /\ p.front # "flow" => q.front = p.front

LEMMA HoistedRests ==
  ASSUME NEW p, IsPage(p), IsMapping(p), p.role = "page", Settled(p)
  PROVE  Rests(p, Hoisted(p))
<1>1. CASE Hoisted(p) = p
  BY <1>1, Rested, SameBodyKeepsLinks DEF Rests
<1>2. CASE Hoisted(p) # p
  <2> DEFINE q == Hoisted(p)
  <2>1. /\ IsPage(q) /\ q.role = "page"
        /\ q.front = IF p.front = "block" THEN "block" ELSE "bad"
        /\ HasKey(q, "sources")
        /\ Twins(q) => Twins(p)
        /\ \A k : k # "sources" => (HasKey(q, k) <=> HasKey(p, k))
        /\ LinksKept(p, q)
    BY <1>2, HoistedFacts
  <2>2. Hoisted(q) = q
    BY <2>1 DEF Hoisted
  <2>3. p.front \in {"block", "flow"}
    BY DEF IsMapping
  <2> HIDE DEF q
  <2>4. CASE p.front = "block"
    <3>1. "generated" # "sources" /\ "timestamp" # "sources"
      OBVIOUS
    <3>2. /\ HasKey(q, "generated") <=> HasKey(p, "generated")
          /\ HasKey(q, "timestamp") <=> HasKey(p, "timestamp")
      BY <2>1, <3>1
    <3>3. Settled(q)
      BY <2>4, <3>2 DEF Settled
    <3>4. Migrated(q) = q
      BY <2>1, <2>2, <3>3, Rested
    <3> QED
      BY <2>1, <2>4, <3>4 DEF Rests, q
  <2>5. CASE p.front = "flow"
    <3>1. q.front = "bad"
      BY <2>1, <2>5
    <3>2. Migrated(q) = q
      BY <2>1, <3>1 DEF Migrated, IsMapping
    <3> QED
      BY <2>1, <2>5, <3>2 DEF Rests, q
  <2> QED
    BY <2>3, <2>4, <2>5
<1> QED
  BY <1>1, <1>2

-----------------------------------------------------------------------------
(* migrate_text *)

\* What there is to say of a page and what one run makes of it.
LEMMA MigratedFacts ==
  ASSUME NEW p, IsPage(p), p.role = "root index" => OneVersion(p)
  PROVE  LET q == Migrated(p) IN
         /\ IsPage(q) /\ q.role = p.role
         /\ Migrated(q) = q
         /\ Twins(q) => Twins(p)
         /\ LinksKept(p, q)
         /\ p.front # "flow" => q.front = p.front
<1>1. CASE p.role = "root index" /\ p.front # "none"
  <2>1. Migrated(p) = Versioned(p)
    BY <1>1 DEF Migrated
  <2>2. CASE Versioned(p) = p
    BY <2>1, <2>2, SameBodyKeepsLinks
  <2>3. CASE Versioned(p) # p
    <3>0. p.front # "flow"
      BY <2>3 DEF Versioned
    <3>1. PICK c \in DOMAIN p.keys :
            /\ p.keys[c] = Key("okf_version", "0.1")
            /\ Changed(p, Versioned(p), c, Key("okf_version", "0.2"))
      BY <1>1, <2>3, <3>0, VersionedChanges
    <3> DEFINE q == Versioned(p)
    <3>2. /\ IsPage(q) /\ q.role = p.role /\ q.front = p.front /\ q.body = p.body
          /\ DOMAIN q.keys = DOMAIN p.keys
          /\ q.keys[c] = Key("okf_version", "0.2")
          /\ \A i \in DOMAIN p.keys : i # c => q.keys[i] = p.keys[i]
      BY <3>1 DEF Changed
    <3> HIDE DEF q
    <3>3. p.keys[c].key = "okf_version" /\ q.keys[c].key = "okf_version" /\ q.keys[c].value = "0.2"
      <4>1. p.keys[c].key = "okf_version"
        BY <3>1, KeyParts
      <4>2. q.keys[c].key = "okf_version" /\ q.keys[c].value = "0.2"
        <5>1. q.keys[c] = Key("okf_version", "0.2")
          BY <3>2
        <5> QED
          BY <5>1, KeyParts
      <4> QED
        BY <4>1, <4>2
    <3>4. \A i \in DOMAIN p.keys : q.keys[i].key = p.keys[i].key
      BY <3>2, <3>3
    <3>5. Twins(q) => Twins(p)
      BY <3>2, <3>4 DEF Twins
    <3>6. \A i \in DOMAIN q.keys : q.keys[i] # Key("okf_version", "0.1")
      <4> SUFFICES ASSUME NEW i \in DOMAIN q.keys, q.keys[i] = Key("okf_version", "0.1")
                   PROVE  FALSE
        OBVIOUS
      <4>1. q.keys[i].key = "okf_version" /\ q.keys[i].value = "0.1"
        BY KeyParts
      <4>2. i # c
        BY <3>3, <4>1
      <4>3. p.keys[i].key = "okf_version" /\ i \in DOMAIN p.keys
        BY <3>2, <3>4, <4>1
      <4> QED
        BY <1>1, <3>3, <4>2, <4>3 DEF OneVersion
    <3>7. Versioned(q) = q
      <4>1. q.front # "none"
        BY <1>1, <3>2
      <4>2. \A i \in DOMAIN q.keys : q.keys[i] # [key |-> "okf_version", value |-> "0.1"]
        BY <3>6 DEF Key
      <4> QED
        BY <4>2 DEF Versioned
    <3>8. Migrated(q) = q
      BY <1>1, <3>2, <3>7 DEF Migrated
    <3> QED
      BY <2>1, <3>2, <3>5, <3>8, SameBodyKeepsLinks DEF q
  <2> QED
    BY <2>2, <2>3
<1>2. CASE p.role = "page" /\ IsMapping(p)
  <2>1. Migrated(p) = Hoisted(Stamped(p))
    BY <1>2 DEF Migrated
  <2>2. /\ IsPage(Stamped(p)) /\ Stamped(p).role = "page" /\ IsMapping(Stamped(p))
        /\ Stamped(p).front = p.front /\ Stamped(p).body = p.body
        /\ Settled(Stamped(p))
        /\ Twins(Stamped(p)) => Twins(p)
    BY <1>2, StampedFacts DEF IsMapping
  <2>3. Rests(Stamped(p), Hoisted(Stamped(p)))
    BY <2>2, HoistedRests
  <2>4. LinksKept(p, Hoisted(Stamped(p)))
    BY <2>2, <2>3 DEF Rests, LinksKept
  <2> QED
    BY <1>2, <2>1, <2>2, <2>3, <2>4 DEF Rests
<1>3. CASE ~ (p.role = "root index" /\ p.front # "none") /\ ~ (p.role = "page" /\ IsMapping(p))
  <2>1. Migrated(p) = p
    BY <1>3 DEF Migrated
  <2> QED
    BY <2>1, SameBodyKeepsLinks
<1> QED
  BY <1>1, <1>2, <1>3

LEMMA BlockErrors ==
  ASSUME NEW p, p.role = "page", p.front = "block"
  PROVE  Errors(p) = IF HasKey(p, "type") THEN {} ELSE {"no type"}
BY DEF Errors

LEMMA BlockWarnings ==
  ASSUME NEW p, p.role = "page", p.front = "block"
  PROVE  \A w : w \in Warnings(p) <=>
           \/ w = "legacy timestamp" /\ ~HasKey(p, "generated") /\ HasKey(p, "timestamp")
           \/ w = "no generated" /\ ~HasKey(p, "generated") /\ ~HasKey(p, "timestamp")
           \/ w = "legacy citations" /\ CitesInBody(p)
           \/ w = "footnote without source" /\ HasKey(p, "sources") /\ Footnotes(p) # {}
<1>1. Errors(p) \subseteq {"no type"}
  BY BlockErrors
<1> QED
  BY <1>1 DEF Warnings

LEMMA NoWarnings ==
  ASSUME NEW p, p.front \in Fronts, p.role # "root index",
         ~ (p.role = "page" /\ p.front \in {"block", "flow"})
  PROVE  Warnings(p) = {}
<1>1. CASE p.role # "page"
  BY <1>1 DEF Warnings
<1>2. CASE p.role = "page"
  <2>1. p.front = "none" \/ p.front = "bad" \/ p.front = "list"
    BY <1>2 DEF Fronts
  <2>2. p.front = "none" => Errors(p) = {"no frontmatter"}
    BY <1>2 DEF Errors
  <2>3. p.front = "bad" => Errors(p) = {"not YAML"}
    BY <1>2 DEF Errors
  <2>4. p.front = "list" => Errors(p) = {"not a mapping"}
    BY <1>2 DEF Errors
  <2>5. ~ (Errors(p) \subseteq {"no type"})
    BY <2>1, <2>2, <2>3, <2>4
  <2> QED
    BY <1>2, <2>5 DEF Warnings
<1> QED
  BY <1>1, <1>2

LEMMA NothingInEmpty ==
  ASSUME NEW s, s = <<>>
  PROVE  DOMAIN s = {}
OBVIOUS

\* A root index in block style that names a version names 0.2 in the end.
LEMMA RootNamesTwo ==
  ASSUME NEW p, IsPage(p), p.role = "root index", p.front # "flow", OneVersion(p), HasKey(Migrated(p), "okf_version")
  PROVE  ValueOf(Migrated(p), "okf_version") = "0.2"
<1>1. p.front # "none"
  <2>1. p.front = "none" => p.keys = <<>> /\ Migrated(p) = p
    BY DEF IsPage, Migrated
  <2>2. p.keys = <<>> => DOMAIN p.keys = {}
    BY NothingInEmpty
  <2> QED
    BY <2>1, <2>2 DEF HasKey
<1>2. Migrated(p) = Versioned(p)
  BY <1>1 DEF Migrated
<1>3. CASE Versioned(p) = p /\ \A i \in DOMAIN p.keys : p.keys[i] # Key("okf_version", "0.1")
  <2>1. \A i \in DOMAIN p.keys : p.keys[i].key = "okf_version" => p.keys[i].value = "0.2"
    <3> SUFFICES ASSUME NEW i \in DOMAIN p.keys, p.keys[i].key = "okf_version"
                 PROVE  p.keys[i].value = "0.2"
      OBVIOUS
    <3>1. p.keys[i] = Key("okf_version", p.keys[i].value)
      BY PageFacts
    <3>2. p.keys[i].value \in {"0.1", "0.2"}
      BY DEF OneVersion
    <3>3. p.keys[i].value # "0.1"
      BY <1>3, <3>1
    <3> QED
      BY <3>2, <3>3
  <2> QED
    BY <1>2, <1>3, <2>1 DEF HasKey, ValueOf
<1>4. CASE ~ (Versioned(p) = p /\ \A i \in DOMAIN p.keys : p.keys[i] # Key("okf_version", "0.1"))
  <2>1. PICK c \in DOMAIN p.keys :
          /\ p.keys[c] = Key("okf_version", "0.1")
          /\ Changed(p, Versioned(p), c, Key("okf_version", "0.2"))
    BY <1>1, <1>4, VersionedChanges
  <2>2. p.keys[c].key = "okf_version"
    BY <2>1, KeyParts
  <2>3. Versioned(p).keys[c] = Key("okf_version", "0.2")
    BY <2>1 DEF Changed
  <2>4. Versioned(p).keys[c].key = "okf_version" /\ Versioned(p).keys[c].value = "0.2"
    BY <2>3, KeyParts
  <2>5. /\ DOMAIN Versioned(p).keys = DOMAIN p.keys
        /\ \A i \in DOMAIN p.keys : i # c => Versioned(p).keys[i] = p.keys[i]
    BY <2>1 DEF Changed
  <2>6. \A i \in DOMAIN p.keys : p.keys[i].key = "okf_version" => i = c
    BY <2>2 DEF OneVersion
  <2>7. \A i \in DOMAIN Versioned(p).keys : Versioned(p).keys[i].key = "okf_version" <=> i = c
    BY <2>4, <2>5, <2>6
  <2>8. (CHOOSE i \in DOMAIN Versioned(p).keys : Versioned(p).keys[i].key = "okf_version") = c
    BY <2>5, <2>7
  <2> QED
    BY <1>2, <2>4, <2>8 DEF ValueOf
<1> QED
  BY <1>3, <1>4

\* A mapping in block style keeps its type, has no timestamp left to
\* rewrite, and says who generated it no less than before.
LEMMA BlockRewritten ==
  ASSUME NEW p, IsPage(p), p.role = "page", p.front = "block"
  PROVE  LET q == Migrated(p) IN
         /\ HasKey(p, "type") => HasKey(q, "type")
         /\ HasKey(q, "generated") \/ ~HasKey(q, "timestamp")
         /\ HasKey(q, "generated") \/ HasKey(q, "timestamp")
              <=> HasKey(p, "generated") \/ HasKey(p, "timestamp")
         /\ CitesInBody(q) => CitesInBody(p)
<1> DEFINE s == Stamped(p)
<1> DEFINE q == Hoisted(s)
<1>1. IsMapping(p)
  BY DEF IsMapping
<1>2. Migrated(p) = q
  BY <1>1 DEF Migrated
<1>3. /\ IsPage(s) /\ s.front = p.front /\ s.body = p.body
      /\ Settled(s)
      /\ HasKey(p, "type") => HasKey(s, "type")
      /\ HasKey(s, "generated") \/ HasKey(s, "timestamp")
           <=> HasKey(p, "generated") \/ HasKey(p, "timestamp")
  BY <1>1, StampedFacts
<1>4. HasKey(s, "generated") \/ ~HasKey(s, "timestamp")
  BY <1>3 DEF Settled
<1>5. IsMapping(s)
  BY <1>3 DEF IsMapping
<1> HIDE DEF s
<1>6. /\ HasKey(q, "type") <=> HasKey(s, "type")
      /\ HasKey(q, "generated") <=> HasKey(s, "generated")
      /\ HasKey(q, "timestamp") <=> HasKey(s, "timestamp")
      /\ ToSet(q.body) \subseteq ToSet(s.body)
  <2>1. CASE q = s
    BY <2>1
  <2>2. CASE q # s
    <3>1. /\ \A k : k # "sources" => (HasKey(q, k) <=> HasKey(s, k))
          /\ ToSet(q.body) \subseteq ToSet(s.body)
      BY <1>3, <1>5, <2>2, HoistedFacts
    <3>2. "type" # "sources" /\ "generated" # "sources" /\ "timestamp" # "sources"
      OBVIOUS
    <3> QED
      BY <3>1, <3>2
  <2> QED
    BY <2>1, <2>2
<1> HIDE DEF q
<1>7. CitesInBody(q) => CitesInBody(p)
  BY <1>3, <1>6 DEF CitesInBody, ToSet
<1> QED
  BY <1>2, <1>3, <1>4, <1>6, <1>7

\* What the validator holds against a page rewritten: nothing new, unless
\* there are now sources for its footnotes to join.
LEMMA RewritingHelps ==
  ASSUME NEW p, IsPage(p), p.role = "root index" => OneVersion(p), p.front # "flow"
  PROVE  /\ Errors(Migrated(p)) \subseteq Errors(p)
         /\ Warnings(Migrated(p)) \subseteq Warnings(p) \cup {"footnote without source"}
         /\ "legacy timestamp" \notin Warnings(Migrated(p))
         /\ "other version" \notin Warnings(Migrated(p))
<1> DEFINE q == Migrated(p)
<1>0. /\ q.role = p.role /\ q.front = p.front
  BY MigratedFacts
<1>1. CASE p.role = "root index"
  <2>1. Errors(q) = {}
    BY <1>0, <1>1 DEF Errors
  <2>2. Warnings(q) = {}
    <3>1. HasKey(q, "okf_version") => ValueOf(q, "okf_version") = "0.2"
      BY <1>1, RootNamesTwo
    <3> HIDE DEF q
    <3> QED
      BY <1>0, <1>1, <3>1 DEF Warnings
  <2> QED
    BY <2>1, <2>2
<1>2. CASE p.role = "page" /\ p.front = "block"
  <2>1. /\ HasKey(p, "type") => HasKey(q, "type")
        /\ HasKey(q, "generated") \/ ~HasKey(q, "timestamp")
        /\ HasKey(q, "generated") \/ HasKey(q, "timestamp")
             <=> HasKey(p, "generated") \/ HasKey(p, "timestamp")
        /\ CitesInBody(q) => CitesInBody(p)
    BY <1>2, BlockRewritten
  <2>2. q.role = "page" /\ q.front = "block"
    BY <1>0, <1>2
  <2> HIDE DEF q
  <2>3. Errors(q) \subseteq Errors(p)
    BY <1>2, <2>1, <2>2, BlockErrors
  <2>4. ASSUME NEW w \in Warnings(q)
        PROVE  /\ w # "legacy timestamp" /\ w # "other version"
               /\ w \in Warnings(p) \cup {"footnote without source"}
    <3>1. \/ w = "legacy timestamp" /\ ~HasKey(q, "generated") /\ HasKey(q, "timestamp")
          \/ w = "no generated" /\ ~HasKey(q, "generated") /\ ~HasKey(q, "timestamp")
          \/ w = "legacy citations" /\ CitesInBody(q)
          \/ w = "footnote without source"
      BY <2>2, <2>4, BlockWarnings
    <3>2. CASE w = "no generated" /\ ~HasKey(q, "generated") /\ ~HasKey(q, "timestamp")
      <4>1. ~HasKey(p, "generated") /\ ~HasKey(p, "timestamp")
        BY <2>1, <3>2
      <4> QED
        BY <1>2, <3>2, <4>1, BlockWarnings
    <3>3. CASE w = "legacy citations" /\ CitesInBody(q)
      <4>1. CitesInBody(p)
        BY <2>1, <3>3
      <4> QED
        BY <1>2, <3>3, <4>1, BlockWarnings
    <3>4. CASE w = "footnote without source"
      BY <3>4
    <3> QED
      BY <2>1, <3>1, <3>2, <3>3, <3>4
  <2> QED
    BY <2>3, <2>4 DEF q
<1>3. CASE p.role # "root index" /\ ~ (p.role = "page" /\ p.front = "block")
  <2>1. Migrated(p) = p
    BY <1>3 DEF Migrated, IsMapping
  <2>2. Warnings(p) = {}
    BY <1>3, NoWarnings DEF IsPage
  <2> QED
    BY <2>1, <2>2
<1> QED
  BY <1>1, <1>2, <1>3

-----------------------------------------------------------------------------
(* The migration: its run *)

\* The files are those there were, and the record of the run is one.
MigrationTypeOK ==
  /\ origin \in Legacy
  /\ pages \in Seq(ToSet(pages)) /\ Len(pages) = Len(origin)
  /\ migration.pc \in {"idle", "reading", "writing", "stopped", "done"}
  /\ migration.at \in Nat
  /\ migration = [pc |-> migration.pc, at |-> migration.at, text |-> migration.text,
                  runs |-> migration.runs, lost |-> migration.lost]

\* A file that is not lost, nor being written, is as it was or as one run
\* leaves it.
OldOrNew ==
  \A i \in Survivors : (migration.pc = "writing" => migration.at # i) =>
    pages[i] = origin[i] \/ pages[i] = Migrated(origin[i])

\* What is being written is what one run leaves.
WritesTheNew ==
  migration.pc = "writing" =>
    /\ migration.at \in DOMAIN pages
    /\ migration.at \notin migration.lost => migration.text[1] = Migrated(origin[migration.at])

\* What the run has passed is done.
PassedIsNew ==
  migration.pc \in {"reading", "writing"} =>
    /\ migration.at >= 1
    /\ \A i \in Survivors : i < migration.at => pages[i] = Migrated(origin[i])

DoneIsNew == migration.pc = "done" => \A i \in Survivors : pages[i] = Migrated(origin[i])

MigrationInv == MigrationTypeOK /\ OldOrNew /\ WritesTheNew /\ PassedIsNew /\ DoneIsNew

LEMMA OriginFacts ==
  ASSUME MigrationTypeOK
  PROVE  /\ Len(pages) \in Nat /\ DOMAIN pages = 1 .. Len(pages)
         /\ \A i \in DOMAIN pages :
              IsPage(origin[i]) /\ (origin[i].role = "root index" => OneVersion(origin[i]))
<1>1. Len(pages) \in Nat /\ DOMAIN pages = 1 .. Len(pages)
  BY DEF MigrationTypeOK
<1>2. origin \in Seq(ToSet(origin)) /\ Len(pages) = Len(origin)
  BY MigrationAssumption DEF MigrationTypeOK
<1>3. \A i \in DOMAIN pages : origin[i] \in ToSet(origin)
  BY <1>1, <1>2 DEF ToSet
<1>4. \A p \in ToSet(origin) : IsPage(p) /\ (p.role = "root index" => OneVersion(p))
  BY MigrationAssumption DEF MigrationTypeOK
<1> QED
  BY <1>1, <1>3, <1>4

LEMMA Positions ==
  ASSUME MigrationInv
  PROVE  /\ Len(pages) \in Nat /\ DOMAIN pages = 1 .. Len(pages)
         /\ \A i \in Survivors : i \in Nat /\ i >= 1 /\ i <= Len(pages)
<1>1. Len(pages) \in Nat /\ DOMAIN pages = 1 .. Len(pages)
  BY OriginFacts DEF MigrationInv
<1>2. Survivors \subseteq 1 .. Len(pages)
  BY <1>1 DEF Survivors
<1> QED
  BY <1>1, <1>2

\* Whichever of the two a file is, a run makes the same of it.
LEMMA RunMakesTheNew ==
  ASSUME MigrationTypeOK, NEW i \in DOMAIN pages,
         pages[i] = origin[i] \/ pages[i] = Migrated(origin[i])
  PROVE  Migrated(pages[i]) = Migrated(origin[i])
<1>1. IsPage(origin[i]) /\ (origin[i].role = "root index" => OneVersion(origin[i]))
  BY OriginFacts
<1>2. Migrated(Migrated(origin[i])) = Migrated(origin[i])
  BY <1>1, MigratedFacts
<1> QED
  BY <1>2

LEMMA MigrationStarts ==
  MigrationInit => MigrationInv
<1> SUFFICES ASSUME MigrationInit  PROVE MigrationInv
  OBVIOUS
<1>1. MigrationTypeOK
  BY MigrationAssumption DEF MigrationInit, MigrationTypeOK, NoMigration
<1>2. migration.pc = "idle"
  BY DEF MigrationInit, NoMigration
<1> QED
  BY <1>1, <1>2 DEF MigrationInit, MigrationInv, OldOrNew, WritesTheNew, PassedIsNew, DoneIsNew, Survivors

LEMMA FilesUntouched ==
  ASSUME MigrationTypeOK, UNCHANGED <<pages, origin>>,
         migration'.pc \in {"idle", "reading", "writing", "stopped", "done"}, migration'.at \in Nat,
         migration' = [pc |-> migration'.pc, at |-> migration'.at, text |-> migration'.text,
                       runs |-> migration'.runs, lost |-> migration'.lost]
  PROVE  MigrationTypeOK'
BY DEF MigrationTypeOK

LEMMA StartStep ==
  MigrationInv /\ StartMigration => MigrationInv'
<1> SUFFICES ASSUME MigrationInv, StartMigration  PROVE MigrationInv'
  OBVIOUS
<1>1. /\ migration' = [pc |-> "reading", at |-> 1, text |-> migration.text,
                       runs |-> migration.runs + 1, lost |-> migration.lost]
      /\ UNCHANGED <<pages, origin>> /\ migration.pc # "writing"
  BY DEF StartMigration, MigrationInv, MigrationTypeOK
<1>2. MigrationTypeOK'
  BY <1>1, FilesUntouched DEF MigrationInv
<1>3. Survivors' = Survivors
  BY <1>1 DEF Survivors
<1>4. OldOrNew' /\ WritesTheNew' /\ DoneIsNew'
  BY <1>1, <1>3 DEF MigrationInv, OldOrNew, WritesTheNew, DoneIsNew
<1>5. PassedIsNew'
  <2>1. \A i \in Survivors : ~ (i < 1)
    BY Positions
  <2> QED
    BY <1>1, <1>3, <2>1 DEF PassedIsNew
<1> QED
  BY <1>2, <1>4, <1>5 DEF MigrationInv

LEMMA PassOverStep ==
  MigrationInv /\ PassOver => MigrationInv'
<1> SUFFICES ASSUME MigrationInv, PassOver  PROVE MigrationInv'
  OBVIOUS
<1> DEFINE at == migration.at
<1>1. /\ migration' = [pc |-> "reading", at |-> at + 1, text |-> migration.text,
                       runs |-> migration.runs, lost |-> migration.lost]
      /\ UNCHANGED <<pages, origin>> /\ migration.pc = "reading"
      /\ Migrated(pages[at]) = pages[at] /\ at \in Nat
  BY DEF PassOver, MigrationInv, MigrationTypeOK
<1>2. MigrationTypeOK'
  BY <1>1, FilesUntouched DEF MigrationInv
<1>3. Survivors' = Survivors
  BY <1>1 DEF Survivors
<1>4. OldOrNew' /\ WritesTheNew' /\ DoneIsNew'
  BY <1>1, <1>3 DEF MigrationInv, OldOrNew, WritesTheNew, DoneIsNew
<1>5. PassedIsNew'
  <2>1. at \in Survivors => pages[at] = Migrated(origin[at])
    BY <1>1, RunMakesTheNew DEF MigrationInv, OldOrNew, Survivors
  <2>2. \A i \in Survivors : i \in Nat
    BY Positions
  <2>3. \A i \in Survivors : i < at + 1 => i < at \/ i = at
    BY <1>1, <2>2
  <2>4. at >= 1 /\ \A i \in Survivors : i < at => pages[i] = Migrated(origin[i])
    BY <1>1 DEF MigrationInv, PassedIsNew
  <2>5. \A i \in Survivors : i < at + 1 => pages[i] = Migrated(origin[i])
    BY <2>1, <2>3, <2>4
  <2>6. at + 1 >= 1 /\ migration'.at = at + 1
    BY <1>1, <2>4
  <2> QED
    BY <1>1, <1>3, <2>5, <2>6 DEF PassedIsNew
<1> QED
  BY <1>2, <1>4, <1>5 DEF MigrationInv

LEMMA StopStep ==
  MigrationInv /\ StopMigration => MigrationInv'
<1> SUFFICES ASSUME MigrationInv, StopMigration  PROVE MigrationInv'
  OBVIOUS
<1> DEFINE lost == IF migration.pc = "writing" THEN migration.lost \cup {migration.at} ELSE migration.lost
<1>1. /\ migration' = [pc |-> "stopped", at |-> migration.at, text |-> <<>>,
                       runs |-> migration.runs, lost |-> lost]
      /\ UNCHANGED <<pages, origin>> /\ migration.at \in Nat
  BY DEF StopMigration, MigrationInv, MigrationTypeOK
<1>2. MigrationTypeOK'
  BY <1>1, FilesUntouched DEF MigrationInv
<1>3. \A i \in Survivors' : i \in Survivors /\ (migration.pc = "writing" => migration.at # i)
  BY <1>1 DEF Survivors
<1>4. OldOrNew'
  BY <1>1, <1>3 DEF MigrationInv, OldOrNew
<1>5. WritesTheNew' /\ PassedIsNew' /\ DoneIsNew'
  BY <1>1 DEF WritesTheNew, PassedIsNew, DoneIsNew
<1> QED
  BY <1>2, <1>4, <1>5 DEF MigrationInv

LEMMA FinishStep ==
  MigrationInv /\ FinishMigration => MigrationInv'
<1> SUFFICES ASSUME MigrationInv, FinishMigration  PROVE MigrationInv'
  OBVIOUS
<1>1. /\ migration' = [pc |-> "done", at |-> migration.at, text |-> migration.text,
                       runs |-> migration.runs, lost |-> migration.lost]
      /\ UNCHANGED <<pages, origin>> /\ migration.at \in Nat
      /\ migration.pc = "reading" /\ migration.at > Len(pages)
  BY DEF FinishMigration, MigrationInv, MigrationTypeOK
<1>2. MigrationTypeOK'
  BY <1>1, FilesUntouched DEF MigrationInv
<1>3. Survivors' = Survivors
  BY <1>1 DEF Survivors
<1>4. OldOrNew' /\ WritesTheNew' /\ PassedIsNew'
  BY <1>1, <1>3 DEF MigrationInv, OldOrNew, WritesTheNew, PassedIsNew
<1>5. DoneIsNew'
  <2>1. \A i \in Survivors : i < migration.at
    BY <1>1, Positions
  <2> QED
    BY <1>1, <1>3, <2>1 DEF MigrationInv, PassedIsNew, DoneIsNew
<1> QED
  BY <1>2, <1>4, <1>5 DEF MigrationInv

\* One file gets another content.
LEMMA FileChanged ==
  ASSUME MigrationTypeOK, NEW i \in DOMAIN pages, NEW x,
         pages' = [pages EXCEPT ![i] = x]
  PROVE  /\ pages' \in Seq(ToSet(pages')) /\ Len(pages') = Len(pages) /\ DOMAIN pages' = DOMAIN pages
         /\ pages'[i] = x
         /\ \A j \in DOMAIN pages : j # i => pages'[j] = pages[j]
<1>1. pages \in Seq(ToSet(pages) \cup {x})
  BY DEF MigrationTypeOK
<1>2. pages' \in Seq(ToSet(pages) \cup {x}) /\ Len(pages') = Len(pages) /\ DOMAIN pages' = DOMAIN pages
  BY <1>1
<1>3. pages' \in Seq(ToSet(pages'))
  BY <1>2, OfItsValues
<1> QED
  BY <1>2, <1>3

LEMMA OpenStep ==
  MigrationInv /\ OpenPage => MigrationInv'
<1> SUFFICES ASSUME MigrationInv, OpenPage  PROVE MigrationInv'
  OBVIOUS
<1> DEFINE at == migration.at
<1> DEFINE text == <<Migrated(pages[at])>>
<1>1. /\ migration' = [pc |-> "writing", at |-> at, text |-> text,
                       runs |-> migration.runs, lost |-> migration.lost]
      /\ pages' = [pages EXCEPT ![at] = Emptied(pages[at])] /\ UNCHANGED origin
      /\ migration.pc = "reading" /\ at \in Nat /\ at <= Len(pages)
  BY DEF OpenPage, MigrationInv, MigrationTypeOK
<1>2. text[1] = Migrated(pages[at])
  OBVIOUS
<1> HIDE DEF text
<1>3. /\ at >= 1 /\ \A i \in Survivors : i < at => pages[i] = Migrated(origin[i])
  BY <1>1 DEF MigrationInv, PassedIsNew
<1>4. at \in DOMAIN pages
  BY <1>1, <1>3, Positions
<1>5. /\ pages' \in Seq(ToSet(pages')) /\ Len(pages') = Len(pages) /\ DOMAIN pages' = DOMAIN pages
      /\ \A j \in DOMAIN pages : j # at => pages'[j] = pages[j]
  BY <1>1, <1>4, FileChanged DEF MigrationInv
<1>6. /\ migration'.pc = "writing" /\ migration'.at = at /\ migration'.text = text
      /\ migration'.lost = migration.lost
  BY <1>1
<1>7. MigrationTypeOK'
  BY <1>1, <1>5 DEF MigrationInv, MigrationTypeOK
<1>8. Survivors' = Survivors /\ Survivors \subseteq DOMAIN pages
  BY <1>5, <1>6 DEF Survivors
<1>9. OldOrNew'
  BY <1>1, <1>5, <1>6, <1>8 DEF MigrationInv, OldOrNew
<1>10. WritesTheNew'
  <2>1. at \notin migration.lost => Migrated(pages[at]) = Migrated(origin[at])
    BY <1>1, <1>4, RunMakesTheNew DEF MigrationInv, OldOrNew, Survivors
  <2> QED
    BY <1>1, <1>2, <1>4, <1>5, <1>6, <2>1 DEF WritesTheNew
<1>11. PassedIsNew'
  <2>1. \A i \in Survivors : i < at => i # at
    BY <1>1
  <2> QED
    BY <1>1, <1>3, <1>5, <1>6, <1>8, <2>1 DEF PassedIsNew
<1>12. DoneIsNew'
  BY <1>6 DEF DoneIsNew
<1> QED
  BY <1>7, <1>9, <1>10, <1>11, <1>12 DEF MigrationInv

LEMMA WriteStep ==
  MigrationInv /\ WritePage => MigrationInv'
<1> SUFFICES ASSUME MigrationInv, WritePage  PROVE MigrationInv'
  OBVIOUS
<1> DEFINE at == migration.at
<1>1. /\ migration' = [pc |-> "reading", at |-> at + 1, text |-> <<>>,
                       runs |-> migration.runs, lost |-> migration.lost]
      /\ pages' = [pages EXCEPT ![at] = migration.text[1]] /\ UNCHANGED origin
      /\ migration.pc = "writing" /\ at \in Nat
  BY DEF WritePage, MigrationInv, MigrationTypeOK
<1>2. at \in DOMAIN pages /\ (at \notin migration.lost => migration.text[1] = Migrated(origin[at]))
  BY <1>1 DEF MigrationInv, WritesTheNew
<1>3. /\ at >= 1 /\ \A i \in Survivors : i < at => pages[i] = Migrated(origin[i])
  BY <1>1 DEF MigrationInv, PassedIsNew
<1>4. /\ pages' \in Seq(ToSet(pages')) /\ Len(pages') = Len(pages) /\ DOMAIN pages' = DOMAIN pages
      /\ pages'[at] = migration.text[1]
      /\ \A j \in DOMAIN pages : j # at => pages'[j] = pages[j]
  BY <1>1, <1>2, FileChanged DEF MigrationInv
<1>5. /\ migration'.pc = "reading" /\ migration'.at = at + 1 /\ migration'.lost = migration.lost
  BY <1>1
<1>6. MigrationTypeOK'
  BY <1>1, <1>4 DEF MigrationInv, MigrationTypeOK
<1>7. Survivors' = Survivors /\ Survivors \subseteq DOMAIN pages
  BY <1>4, <1>5 DEF Survivors
<1>8. \A i \in Survivors : i = at => pages'[i] = Migrated(origin[i])
  BY <1>2, <1>4 DEF Survivors
<1>9. OldOrNew'
  BY <1>1, <1>4, <1>5, <1>7, <1>8 DEF MigrationInv, OldOrNew
<1>10. PassedIsNew'
  <2>1. \A i \in Survivors : i \in Nat
    BY Positions
  <2>2. \A i \in Survivors : i < at + 1 => i < at \/ i = at
    BY <1>1, <2>1
  <2>3. \A i \in Survivors : i < at => i # at
    BY <1>1, <2>1
  <2>4. \A i \in Survivors : i < at + 1 => pages'[i] = Migrated(origin[i])
    BY <1>3, <1>4, <1>7, <1>8, <2>2, <2>3
  <2>5. at + 1 >= 1
    BY <1>1
  <2> QED
    BY <1>1, <1>5, <1>7, <2>4, <2>5 DEF PassedIsNew
<1>11. WritesTheNew' /\ DoneIsNew'
  BY <1>5 DEF WritesTheNew, DoneIsNew
<1> QED
  BY <1>6, <1>9, <1>10, <1>11 DEF MigrationInv

LEMMA MigrationIsInductive ==
  MigrationInv /\ [MigrationNext]_migrationVars => MigrationInv'
<1> SUFFICES ASSUME MigrationInv, [MigrationNext]_migrationVars  PROVE MigrationInv'
  OBVIOUS
<1>1. CASE UNCHANGED migrationVars
  BY <1>1 DEF migrationVars, MigrationInv, MigrationTypeOK, OldOrNew, WritesTheNew, PassedIsNew,
              DoneIsNew, Survivors
<1>2. CASE MigrationNext
  BY <1>2, StartStep, PassOverStep, OpenStep, WriteStep, StopStep, FinishStep DEF MigrationNext
<1> QED
  BY <1>1, <1>2

LEMMA MigrationInvariance ==
  MigrationSpec => []MigrationInv
BY MigrationStarts, MigrationIsInductive, PTL DEF MigrationSpec

-----------------------------------------------------------------------------
\* Stopped and run again however often, the migration ends with what one run
\* would have left of each file that was not lost in a write, and no key is
\* there twice that was not before (migrate_text: a half-migrated bundle
\* converges).
THEOREM Converges == MigrationSpec => []MigrationConverges
<1>1. MigrationInv => MigrationConverges
  <2> SUFFICES ASSUME MigrationInv, migration.pc = "done", NEW i \in Survivors
               PROVE  /\ pages[i] = Migrated(origin[i])
                      /\ Twins(pages[i]) => Twins(origin[i])
    BY DEF MigrationConverges, Twins
  <2>1. pages[i] = Migrated(origin[i])
    BY DEF MigrationInv, DoneIsNew
  <2>2. IsPage(origin[i]) /\ (origin[i].role = "root index" => OneVersion(origin[i]))
    BY OriginFacts DEF MigrationInv, Survivors
  <2>3. Twins(Migrated(origin[i])) => Twins(origin[i])
    BY <2>2, MigratedFacts
  <2> QED
    BY <2>1, <2>3
<1> QED
  BY <1>1, MigrationInvariance, PTL

\* No cited link is lost, wherever the migration is stopped; and when it is
\* done the validator holds nothing new against a page, but for footnotes
\* that have sources to join, and no longer what migration is for.
THEOREM OnlyHelps == MigrationSpec => []MigrationOnlyHelps
<1>1. MigrationInv => CitedLinksSurvive
  <2> SUFFICES ASSUME MigrationInv, NEW i \in Survivors, migration.pc = "writing" => migration.at # i
               PROVE  LinksKept(origin[i], pages[i])
    BY DEF CitedLinksSurvive, LinksKept
  <2>1. pages[i] = origin[i] \/ pages[i] = Migrated(origin[i])
    BY DEF MigrationInv, OldOrNew
  <2>2. IsPage(origin[i]) /\ (origin[i].role = "root index" => OneVersion(origin[i]))
    BY OriginFacts DEF MigrationInv, Survivors
  <2>3. LinksKept(origin[i], Migrated(origin[i]))
    BY <2>2, MigratedFacts
  <2> QED
    BY <2>1, <2>3, SameBodyKeepsLinks
<1>2. MigrationInv => MigrationOnlyHelps
  <2> SUFFICES ASSUME MigrationInv, migration.pc = "done", NEW i \in Survivors, origin[i].front # "flow"
               PROVE  /\ Errors(pages[i]) \subseteq Errors(origin[i])
                      /\ Warnings(pages[i]) \subseteq Warnings(origin[i]) \cup {"footnote without source"}
                      /\ "legacy timestamp" \notin Warnings(pages[i])
                      /\ "other version" \notin Warnings(pages[i])
    BY <1>1 DEF MigrationOnlyHelps
  <2>1. pages[i] = Migrated(origin[i])
    BY DEF MigrationInv, DoneIsNew
  <2>2. IsPage(origin[i]) /\ (origin[i].role = "root index" => OneVersion(origin[i]))
    BY OriginFacts DEF MigrationInv, Survivors
  <2> QED
    BY <2>1, <2>2, RewritingHelps
<1> QED
  BY <1>2, MigrationInvariance, PTL

-----------------------------------------------------------------------------
(* The repair: the graph of a bundle *)

\* A node is the file it was read from, which has its id; an id means itself.
LEMMA LoadIs ==
  ASSUME NEW files \in Seq(File)
  PROVE  LET g == Load(files) IN
         \A n \in Ids(g) : /\ g.path[n] \in DOMAIN files /\ files[g.path[n]].id = n
                           /\ g.nodes[n] = files[g.path[n]]
                           /\ n \in Name /\ g.means[n] = n
<1> DEFINE kept == Kept(files)
           ids == {files[i].id : i \in kept}
           g == Load(files)
<1>1. kept \subseteq DOMAIN files
  BY DEF Kept
<1>2. \A i \in DOMAIN files : files[i].id \in Name
  <2>1. \A i \in DOMAIN files : files[i] \in File
    OBVIOUS
  <2> QED
    BY <2>1 DEF File
<1>3. Ids(g) = ids /\ \A n \in ids : g.path[n] = CHOOSE i \in kept : files[i].id = n
  BY DEF Load, Ids
<1>4. ASSUME NEW n \in ids
      PROVE  g.path[n] \in kept /\ files[g.path[n]].id = n /\ n \in Name
  <2>1. PICK i \in kept : files[i].id = n
    OBVIOUS
  <2> QED
    BY <1>1, <1>2, <1>3, <2>1
<1>5. \A n \in ids : g.nodes[n] = files[g.path[n]]
  BY DEF Load
<1>6. \A n \in ids : n \in Name => g.means[n] = n
  BY DEF Load
<1> HIDE DEF g, kept, ids
<1> QED
  BY <1>1, <1>3, <1>4, <1>5, <1>6 DEF g

\* The same files, but for what they declare and cite.
Alike(a, b) ==
  /\ DOMAIN a = DOMAIN b
  /\ \A i \in DOMAIN a : a[i].id = b[i].id /\ a[i].stem = b[i].stem /\ a[i].kinds = b[i].kinds

\* They make the same nodes, of the same files and kinds, for the same names.
LEMMA AlikeLoads ==
  ASSUME NEW a \in Seq(File), NEW b \in Seq(File), Alike(a, b)
  PROVE  LET g == Load(a) h == Load(b) IN
         /\ Ids(g) = Ids(h) /\ g.path = h.path /\ g.means = h.means
         /\ \A kind : OfKind(g, kind) = OfKind(h, kind)
<1> DEFINE stemsOf(f) == {f[i].stem : i \in Kept(f)}
           idsOf(f) == {f[i].id : i \in Kept(f)}
           pathOf(f) == [n \in idsOf(f) |-> CHOOSE i \in Kept(f) : f[i].id = n]
           ownerOf(f) == [s \in stemsOf(f) |-> f[First({i \in Kept(f) : f[i].stem = s})].id]
<1>1. Kept(a) = Kept(b)
  <2>1. \A i \in DOMAIN a : \A j \in 1 .. (i - 1) : j \in DOMAIN a
    OBVIOUS
  <2> QED
    BY <2>1 DEF Kept, Alike
<1>2. \A i \in Kept(a) : i \in DOMAIN a
  BY DEF Kept
<1>3. idsOf(a) = idsOf(b) /\ stemsOf(a) = stemsOf(b)
  BY <1>1, <1>2 DEF Alike
<1>4. pathOf(a) = pathOf(b)
  <2>1. ASSUME NEW n PROVE {i \in Kept(a) : a[i].id = n} = {i \in Kept(b) : b[i].id = n}
    BY <1>1, <1>2 DEF Alike
  <2>2. \A n : (CHOOSE i \in Kept(a) : a[i].id = n) = (CHOOSE i \in Kept(b) : b[i].id = n)
    BY <1>1, <1>2 DEF Alike
  <2> QED
    BY <1>3, <2>2
<1>5. ownerOf(a) = ownerOf(b)
  <2>1. \A s : {i \in Kept(a) : a[i].stem = s} = {i \in Kept(b) : b[i].stem = s}
    BY <1>1, <1>2 DEF Alike
  <2>2. ASSUME NEW s \in stemsOf(a)
        PROVE  a[First({i \in Kept(a) : a[i].stem = s})].id = b[First({i \in Kept(b) : b[i].stem = s})].id
    <3> DEFINE I == {i \in Kept(a) : a[i].stem = s}
    <3>1. I # {} /\ I \subseteq DOMAIN a
      BY <1>2
    <3>2. First(I) \in I
      <4>1. I \subseteq Nat
        BY <3>1
      <4> HIDE DEF I
      <4> QED
        BY <3>1, <4>1, FirstPosition DEF First
    <3> QED
      BY <2>1, <3>1, <3>2 DEF Alike
  <2> QED
    BY <1>3, <2>2
<1>6. /\ Ids(Load(a)) = idsOf(a) /\ Ids(Load(b)) = idsOf(b)
      /\ Load(a).path = pathOf(a) /\ Load(b).path = pathOf(b)
  BY DEF Load, Ids
<1>7. Load(a).means = Load(b).means
  <2> DEFINE meansOf(f) == [m \in Name |-> IF m \in idsOf(f) THEN m
                                          ELSE IF m \in stemsOf(f) THEN ownerOf(f)[m]
                                          ELSE IF LastSegment[m] \in stemsOf(f) THEN ownerOf(f)[LastSegment[m]]
                                          ELSE NoNode]
  <2>1. Load(a).means = meansOf(a) /\ Load(b).means = meansOf(b)
    BY DEF Load
  <2> HIDE DEF idsOf, stemsOf, ownerOf
  <2>2. meansOf(a) = meansOf(b)
    BY <1>3, <1>5
  <2> QED
    BY <2>1, <2>2
<1> HIDE DEF idsOf, stemsOf, pathOf, ownerOf
<1>8. Ids(Load(a)) = Ids(Load(b)) /\ Load(a).path = Load(b).path
  BY <1>3, <1>4, <1>6
<1>9. ASSUME NEW n \in Ids(Load(a))  PROVE Load(a).nodes[n].kinds = Load(b).nodes[n].kinds
  <2>1. /\ Load(a).path[n] \in DOMAIN a /\ Load(a).nodes[n] = a[Load(a).path[n]]
        /\ Load(b).nodes[n] = b[Load(b).path[n]]
    BY <1>8, LoadIs
  <2> QED
    BY <1>8, <2>1 DEF Alike
<1>10. \A kind : OfKind(Load(a), kind) = OfKind(Load(b), kind)
  BY <1>8, <1>9 DEF OfKind
<1> QED
  BY <1>7, <1>8, <1>10

-----------------------------------------------------------------------------
(* The repair: one-sided relations *)

\* What the file of a node declares, wherever it does.
Said(g, n) == g.nodes[n].front \cup g.nodes[n].body

\* What the other end of a relation has to say.
OtherSide(rel) == IF rel = "prerequisites" THEN "prerequisite_of" ELSE "prerequisites"

\* y says of x what x does not say of y.
OneSided(g, x, rel, y) ==
  /\ x \in OfKind(g, "concept") /\ y \in OfKind(g, "concept")
  /\ rel \in {"prerequisites", "prerequisite_of"}
  /\ x \in Related(g, y, OtherSide(rel)) /\ y \notin Related(g, x, rel)

LEMMA UnmirroredIs ==
  ASSUME NEW g
  PROVE  /\ \A u \in Unmirrored(g) : u = <<u[1], u[2], u[3]>>
         /\ \A x, rel, y : <<x, rel, y>> \in Unmirrored(g) <=> OneSided(g, x, rel, y)
<1> DEFINE c == OfKind(g, "concept")
           says(x, rel, y) == y \in Related(g, x, rel)
           P == {q \in c \X c : says(q[1], "prerequisite_of", q[2]) /\ ~says(q[2], "prerequisites", q[1])}
           Q == {q \in c \X c : says(q[1], "prerequisites", q[2]) /\ ~says(q[2], "prerequisite_of", q[1])}
<1>1. Unmirrored(g) = {<<p[2], "prerequisites", p[1]>> : p \in P} \cup {<<p[2], "prerequisite_of", p[1]>> : p \in Q}
  BY DEF Unmirrored
<1>2. \A p : p \in P => p[1] \in c /\ p[2] \in c /\ says(p[1], "prerequisite_of", p[2]) /\ ~says(p[2], "prerequisites", p[1])
  OBVIOUS
<1>3. \A p : p \in Q => p[1] \in c /\ p[2] \in c /\ says(p[1], "prerequisites", p[2]) /\ ~says(p[2], "prerequisite_of", p[1])
  OBVIOUS
<1>4. \A x \in c, y \in c : says(y, "prerequisite_of", x) /\ ~says(x, "prerequisites", y) => <<y, x>> \in P
  OBVIOUS
<1>5. \A x \in c, y \in c : says(y, "prerequisites", x) /\ ~says(x, "prerequisite_of", y) => <<y, x>> \in Q
  OBVIOUS
<1>6. \A u \in Unmirrored(g) : u = <<u[1], u[2], u[3]>>
  BY <1>1
<1>7. ASSUME NEW x, NEW rel, NEW y, <<x, rel, y>> \in Unmirrored(g)
      PROVE  OneSided(g, x, rel, y)
  <2> HIDE DEF P, Q
  <2>1. CASE \E p \in P : <<x, rel, y>> = <<p[2], "prerequisites", p[1]>>
    BY <2>1, <1>2 DEF OneSided, OtherSide
  <2>2. CASE \E p \in Q : <<x, rel, y>> = <<p[2], "prerequisite_of", p[1]>>
    BY <2>2, <1>3 DEF OneSided, OtherSide
  <2> QED
    BY <1>1, <1>7, <2>1, <2>2
<1>8. ASSUME NEW x, NEW rel, NEW y, OneSided(g, x, rel, y)
      PROVE  <<x, rel, y>> \in Unmirrored(g)
  <2> HIDE DEF P, Q
  <2>1. CASE rel = "prerequisites"
    <3>1. <<y, x>> \in P
      BY <1>4, <1>8, <2>1 DEF OneSided, OtherSide
    <3> QED
      BY <1>1, <2>1, <3>1
  <2>2. CASE rel = "prerequisite_of"
    <3>1. <<y, x>> \in Q
      BY <1>5, <1>8, <2>2 DEF OneSided, OtherSide
    <3> QED
      BY <1>1, <2>2, <3>1
  <2> QED
    BY <1>8, <2>1, <2>2 DEF OneSided
<1> QED
  BY <1>6, <1>7, <1>8

\* What the graph g finds missing at n.
Due(g, n) == {<<u[2], u[3]>> : u \in {v \in Unmirrored(g) : v[1] = n}}

LEMMA DueIs ==
  ASSUME NEW g, NEW n
  PROVE  \A rel, m : <<rel, m>> \in Due(g, n) <=> OneSided(g, n, rel, m)
<1>1. ASSUME NEW rel, NEW m, <<rel, m>> \in Due(g, n)  PROVE OneSided(g, n, rel, m)
  <2>1. PICK u \in Unmirrored(g) : u[1] = n /\ <<rel, m>> = <<u[2], u[3]>>
    BY <1>1 DEF Due
  <2>2. u = <<n, rel, m>>
    BY <2>1, UnmirroredIs
  <2> QED
    BY <2>1, <2>2, UnmirroredIs
<1>2. ASSUME NEW rel, NEW m, OneSided(g, n, rel, m)  PROVE <<rel, m>> \in Due(g, n)
  <2>1. <<n, rel, m>> \in Unmirrored(g)
    BY <1>2, UnmirroredIs
  <2>2. <<n, rel, m>>[1] = n /\ <<n, rel, m>>[2] = rel /\ <<n, rel, m>>[3] = m
    OBVIOUS
  <2> QED
    BY <2>1, <2>2 DEF Due
<1> QED
  BY <1>1, <1>2

\* The nodes of g are those of h, and each means itself.
SameNodes(g, h) ==
  /\ Ids(g) = Ids(h) /\ g.means = h.means
  /\ \A kind : OfKind(g, kind) = OfKind(h, kind)
  /\ \A n \in Ids(g) : n \in Name /\ g.means[n] = n

\* h says at n what g says, and some of what is due there by f.
LEMMA RelatedAfter ==
  ASSUME NEW f, NEW g, NEW h, SameNodes(f, g), SameNodes(g, h), NEW n, NEW D, D \subseteq Due(f, n),
         Said(h, n) = Said(g, n) \cup D, NEW rel
  PROVE  Related(h, n, rel) = Related(g, n, rel) \cup {m \in Ids(f) : <<rel, m>> \in D}
<1>1. \A m : <<rel, m>> \in D => m \in Ids(f) /\ m \in Name /\ h.means[m] = m /\ m # NoNode
  <2> SUFFICES ASSUME NEW m, <<rel, m>> \in D
               PROVE  m \in Ids(f) /\ m \in Name /\ h.means[m] = m /\ m # NoNode
    OBVIOUS
  <2>1. m \in Ids(f)
    BY DueIs DEF OneSided, OfKind
  <2> QED
    BY <2>1, NameAssumption DEF SameNodes
<1> DEFINE due == {m \in Ids(f) : <<rel, m>> \in D}
<1>2. Raw(h, n, rel) = Raw(g, n, rel) \cup due
  BY <1>1 DEF Raw, Said
<1>3. \A m \in due : h.means[m] = m /\ m # NoNode
  BY <1>1
<1> HIDE DEF due
<1>4. {h.means[m] : m \in Raw(h, n, rel)} \ {NoNode} = ({g.means[m] : m \in Raw(g, n, rel)} \ {NoNode}) \cup due
  <2>1. g.means = h.means
    BY DEF SameNodes
  <2> QED
    BY <1>2, <1>3, <2>1
<1> QED
  BY <1>4 DEF Related, due

\* Once every node declares what it is due, nothing is one-sided.
LEMMA MirroredAll ==
  ASSUME NEW g, NEW h, SameNodes(g, h), \A n \in Ids(g) : Said(h, n) = Said(g, n) \cup Due(g, n)
  PROVE  Unmirrored(h) = {}
<1>1. SameNodes(g, g)
  BY DEF SameNodes
<1>2. ASSUME NEW n \in Ids(g), NEW rel, NEW m
      PROVE  m \in Related(h, n, rel) <=> m \in Related(g, n, rel) \/ OneSided(g, n, rel, m)
  <2>1. Related(h, n, rel) = Related(g, n, rel) \cup {k \in Ids(g) : <<rel, k>> \in Due(g, n)}
    BY <1>1, RelatedAfter
  <2>2. OneSided(g, n, rel, m) => m \in Ids(g)
    BY DEF OneSided, OfKind
  <2> QED
    BY <2>1, <2>2, DueIs
<1>3. ASSUME NEW x, NEW rel, NEW y, OneSided(h, x, rel, y)  PROVE FALSE
  <2>1. /\ x \in OfKind(g, "concept") /\ y \in OfKind(g, "concept") /\ x \in Ids(g) /\ y \in Ids(g)
        /\ rel \in {"prerequisites", "prerequisite_of"} /\ OtherSide(OtherSide(rel)) = rel
        /\ OtherSide(rel) \in {"prerequisites", "prerequisite_of"}
    BY <1>3 DEF OneSided, SameNodes, OfKind, OtherSide
  <2>2. y \notin Related(g, x, rel) /\ ~OneSided(g, x, rel, y)
    BY <1>2, <1>3, <2>1 DEF OneSided
  <2>3. x \notin Related(g, y, OtherSide(rel))
    BY <2>1, <2>2 DEF OneSided
  <2>4. OneSided(g, y, OtherSide(rel), x)
    BY <1>2, <1>3, <2>1, <2>3 DEF OneSided
  <2> QED
    BY <2>1, <2>2, <2>4 DEF OneSided
<1> QED
  BY <1>3, UnmirroredIs

\* Declaring some of what f finds due adds no edge that f has not.
LEMMA NoNewEdges ==
  ASSUME NEW f, NEW g, NEW h, SameNodes(f, g), SameNodes(g, h),
         \A n \in Ids(g) : \E D \in SUBSET Due(f, n) : Said(h, n) = Said(g, n) \cup D
  PROVE  Edges(h) \subseteq Edges(g) \cup Edges(f)
<1>1. \A k : \A e : e \in Edges(k) <=>
        \E n \in Ids(k) : \/ e[1] \in Related(k, n, "prerequisites") \cup Related(k, n, "composed_of") /\ e = <<e[1], n>>
                          \/ e[2] \in Related(k, n, "prerequisite_of") /\ e = <<n, e[2]>>
  BY DEF Edges
<1>2. ASSUME NEW n \in Ids(g), NEW rel, NEW m \in Related(h, n, rel)
      PROVE  m \in Related(g, n, rel) \/ OneSided(f, n, rel, m)
  <2>1. PICK D \in SUBSET Due(f, n) : Said(h, n) = Said(g, n) \cup D
    OBVIOUS
  <2>2. Related(h, n, rel) = Related(g, n, rel) \cup {k \in Ids(f) : <<rel, k>> \in D}
    BY <2>1, RelatedAfter
  <2> QED
    BY <2>2, DueIs
<1>3. ASSUME NEW n, NEW rel, NEW m, OneSided(f, n, rel, m)
      PROVE  /\ rel # "composed_of" /\ n \in Ids(f) /\ m \in Ids(f)
             /\ rel = "prerequisites" => n \in Related(f, m, "prerequisite_of")
             /\ rel = "prerequisite_of" => n \in Related(f, m, "prerequisites")
  BY <1>3 DEF OneSided, OtherSide, OfKind
<1>4. Ids(f) = Ids(g) /\ Ids(g) = Ids(h)
  BY DEF SameNodes
<1>5. ASSUME NEW e \in Edges(h)  PROVE e \in Edges(g) \cup Edges(f)
  <2>1. PICK n \in Ids(h) : \/ e[1] \in Related(h, n, "prerequisites") /\ e = <<e[1], n>>
                            \/ e[1] \in Related(h, n, "composed_of") /\ e = <<e[1], n>>
                            \/ e[2] \in Related(h, n, "prerequisite_of") /\ e = <<n, e[2]>>
    BY <1>1
  <2>2. CASE e[1] \in Related(h, n, "prerequisites") /\ e = <<e[1], n>>
    <3>1. CASE e[1] \in Related(g, n, "prerequisites")
      BY <1>1, <1>4, <2>2, <3>1
    <3>2. CASE OneSided(f, n, "prerequisites", e[1])
      <4>1. e[1] \in Ids(f) /\ n \in Related(f, e[1], "prerequisite_of") /\ e[2] = n
        BY <1>3, <2>2, <3>2
      <4> QED
        BY <1>1, <2>2, <4>1
    <3> QED
      BY <1>2, <1>4, <2>2, <3>1, <3>2
  <2>3. CASE e[1] \in Related(h, n, "composed_of") /\ e = <<e[1], n>>
    <3>1. e[1] \in Related(g, n, "composed_of")
      BY <1>2, <1>3, <1>4, <2>3
    <3> QED
      BY <1>1, <1>4, <2>3, <3>1
  <2>4. CASE e[2] \in Related(h, n, "prerequisite_of") /\ e = <<n, e[2]>>
    <3>1. CASE e[2] \in Related(g, n, "prerequisite_of")
      BY <1>1, <1>4, <2>4, <3>1
    <3>2. CASE OneSided(f, n, "prerequisite_of", e[2])
      <4>1. e[2] \in Ids(f) /\ n \in Related(f, e[2], "prerequisites") /\ e[1] = n
        BY <1>3, <2>4, <3>2
      <4> QED
        BY <1>1, <2>4, <4>1
    <3> QED
      BY <1>2, <1>4, <2>4, <3>1, <3>2
  <2> QED
    BY <2>1, <2>2, <2>3, <2>4
<1> QED
  BY <1>5

-----------------------------------------------------------------------------
(* The repair: one file is written *)

\* A bundle whose frontmatter gives its relations as lists.
Lists(files) == files \in Seq(File) /\ \A i \in DOMAIN files : files[i].bare = {}

\* b is a with the file i written anew, as a file of the same name and kind.
Rewrites(a, i, f, b) ==
  /\ Lists(a) /\ i \in DOMAIN a /\ b = [a EXCEPT ![i] = f]
  /\ f \in File /\ f.id = a[i].id /\ f.stem = a[i].stem /\ f.kinds = a[i].kinds /\ f.bare = {}

\* Such a file keeps its place in the graph.
LEMMA Rewritten ==
  ASSUME NEW a, NEW i, NEW f, NEW b, Rewrites(a, i, f, b)
  PROVE  Lists(b) /\ Alike(a, b) /\ b[i] = f /\ \A j \in DOMAIN a : j # i => b[j] = a[j]
<1>1. b \in Seq(File)
  BY DEF Rewrites, Lists
<1>2. DOMAIN a = DOMAIN b /\ b[i] = f /\ \A j \in DOMAIN a : j # i => b[j] = a[j]
  BY DEF Rewrites, Lists
<1> QED
  BY <1>1, <1>2 DEF Rewrites, Lists, Alike

LEMMA WrittenElsewhere ==
  ASSUME NEW files \in Seq(File), NEW x, x \notin DOMAIN files, NEW f
  PROVE  [files EXCEPT ![x] = f] = files
OBVIOUS

LEMMA DeclaredInBodies == Declaration \subseteq BodyDeclaration
BY DEF Declaration, BodyDeclaration

LEMMA FileParts ==
  ASSUME NEW f \in File
  PROVE  /\ f = [id |-> f.id, stem |-> f.stem, kinds |-> f.kinds, front |-> f.front, bare |-> f.bare,
                 body |-> f.body, sources |-> f.sources, triggers |-> f.triggers, schemas |-> f.schemas,
                 noise |-> f.noise]
         /\ \A S \in SUBSET Declaration : [f EXCEPT !.front = S] \in File
         /\ \A S \in SUBSET BodyDeclaration : [f EXCEPT !.body = S] \in File
         /\ \A s \in {"absent", "unusable", "cited"} : [f EXCEPT !.sources = s] \in File
BY DEF File

LEMMA AlikeChain ==
  ASSUME NEW a, NEW b, NEW c, Alike(a, b), Alike(b, c)
  PROVE  Alike(a, c) /\ Alike(a, a)
BY DEF Alike

LEMMA AlikeNodes ==
  ASSUME NEW a, NEW b, Lists(a), Lists(b), Alike(a, b)
  PROVE  /\ SameNodes(Load(a), Load(b)) /\ Load(a).path = Load(b).path
         /\ \A n \in Ids(Load(a)) :
              /\ Load(a).path[n] \in DOMAIN a
              /\ Load(a).nodes[n] = a[Load(a).path[n]] /\ Load(b).nodes[n] = b[Load(a).path[n]]
         /\ \A n, m \in Ids(Load(a)) : Load(a).path[n] = Load(a).path[m] => n = m
<1>1. /\ Ids(Load(a)) = Ids(Load(b)) /\ Load(a).path = Load(b).path /\ Load(a).means = Load(b).means
      /\ \A kind : OfKind(Load(a), kind) = OfKind(Load(b), kind)
  BY AlikeLoads DEF Lists
<1>2. \A n \in Ids(Load(a)) :
        /\ Load(a).path[n] \in DOMAIN a /\ a[Load(a).path[n]].id = n
        /\ Load(a).nodes[n] = a[Load(a).path[n]]
        /\ n \in Name /\ Load(a).means[n] = n
  BY LoadIs DEF Lists
<1>3. \A n \in Ids(Load(b)) : Load(b).nodes[n] = b[Load(b).path[n]]
  BY LoadIs DEF Lists
<1> QED
  BY <1>1, <1>2, <1>3 DEF SameNodes

\* Nothing but the nodes left to do lacks a sources key.
Evident(files, todo) ==
  \A n \in Unsupported(Load(files)) \ todo : Load(files).nodes[n].sources = "unusable"

LEMMA EvidentStays ==
  ASSUME NEW a, NEW b, Lists(a), Lists(b), Alike(a, b), NEW T, NEW U, Evident(a, T),
         \A n \in Ids(Load(a)) :
           LET i == Load(a).path[n] IN
           \/ b[i].sources = a[i].sources /\ (n \in T => n \in U)
           \/ b[i].sources \in {"unusable", "cited"}
  PROVE  Evident(b, U)
<1>1. ASSUME NEW n \in Unsupported(Load(b)), n \notin U
      PROVE  Load(b).nodes[n].sources = "unusable"
  <2>1. n \in Ids(Load(b)) /\ n \in OfKind(Load(b), "concept") \cup OfKind(Load(b), "rule")
        /\ Load(b).nodes[n].sources # "cited"
    BY DEF Unsupported, OfKind
  <2>2. /\ n \in Ids(Load(a)) /\ n \in OfKind(Load(a), "concept") \cup OfKind(Load(a), "rule")
        /\ Load(a).nodes[n] = a[Load(a).path[n]] /\ Load(b).nodes[n] = b[Load(a).path[n]]
    BY <2>1, AlikeNodes DEF SameNodes
  <2>3. CASE b[Load(a).path[n]].sources \in {"unusable", "cited"}
    BY <2>1, <2>2, <2>3
  <2>4. CASE b[Load(a).path[n]].sources = a[Load(a).path[n]].sources /\ (n \in T => n \in U)
    <3>1. n \in Unsupported(Load(a)) \ T
      BY <1>1, <2>1, <2>2, <2>4 DEF Unsupported
    <3> QED
      BY <2>2, <2>4, <3>1 DEF Evident
  <2> QED
    BY <2>2, <2>3, <2>4
<1> QED
  BY <1>1 DEF Evident

-----------------------------------------------------------------------------
(* The repair: its invariant *)

RepairTypeOK ==
  /\ Lists(bundle) /\ edits \in Nat
  /\ repair = [pc |-> repair.pc, k |-> repair.k, seen |-> repair.seen, todo |-> repair.todo, edits |-> repair.edits]
  /\ repair.pc \in {"idle", "body", "evidence", "inverse", "done", "raised"}
  /\ repair.k \in Nat /\ (repair.pc = "body" => repair.k # 0)
  /\ repair.edits \in Nat /\ repair.edits <= edits

\* The bundle a pass works from is the one that is there, but for what its
\* files declare and cite.
SeenIsAlike ==
  repair.pc \in {"evidence", "inverse"} =>
    Lists(repair.seen) /\ Alike(repair.seen, bundle) /\ repair.todo \subseteq Ids(Load(repair.seen))

EvidenceAdded ==
  /\ repair.pc = "evidence" => Evident(bundle, repair.todo)
  /\ repair.pc \in {"inverse", "done"} => Evident(bundle, {})

\* Undisturbed, a node that was mirrored declares what was due, and every other
\* what it declared when the pass began.
MirroredSoFar ==
  repair.pc = "inverse" /\ repair.edits = edits =>
    \A n \in Ids(Load(repair.seen)) :
      LET i == Load(repair.seen).path[n] IN
      /\ bundle[i].body = repair.seen[i].body
      /\ n \in repair.todo => bundle[i].front = repair.seen[i].front
      /\ n \notin repair.todo => bundle[i].front = repair.seen[i].front \cup Due(Load(repair.seen), n)

NothingOneSided == repair.pc = "done" /\ repair.edits = edits => Unmirrored(Load(bundle)) = {}

RepairInv == RepairTypeOK /\ SeenIsAlike /\ EvidenceAdded /\ MirroredSoFar /\ NothingOneSided

LEMMA InvGivesMirrored == RepairInv => RepairedIsMirrored
BY DEF RepairInv, EvidenceAdded, Evident, NothingOneSided, RepairedIsMirrored, RepairTypeOK

\* A node that is not in the list of those with something due has nothing due.
LEMMA NothingDue ==
  ASSUME NEW g, NEW n, n \notin {u[1] : u \in Unmirrored(g)}
  PROVE  Due(g, n) = {}
BY DEF Due

LEMMA RepairStarts ==
  ASSUME \A b \in Bundles : \A i \in DOMAIN b : b[i].bare = {}, RepairInit, BundleInit
  PROVE  RepairInv
BY BundleAssumption DEF RepairInit, BundleInit, NoRepair, RepairInv, RepairTypeOK, SeenIsAlike, EvidenceAdded,
   MirroredSoFar, NothingOneSided, Lists

-----------------------------------------------------------------------------
(* The repair: the steps that write nothing *)

LEMMA QuietSteps ==
  ASSUME RepairInv, StartRepair \/ LoadForEvidence \/ StopRepair
  PROVE  RepairInv'
<1>1. CASE StartRepair
  <2>1. repair' = [pc |-> "body", k |-> 1, seen |-> <<>>, todo |-> {}, edits |-> edits]
        /\ bundle' = bundle /\ edits' = edits
    BY <1>1 DEF StartRepair, NoRepair, bundleVars
  <2> QED
    BY <2>1 DEF RepairInv, RepairTypeOK, SeenIsAlike, EvidenceAdded, MirroredSoFar, NothingOneSided, Lists
<1>2. CASE LoadForEvidence
  <2>1. /\ repair' = [pc |-> "evidence", k |-> repair.k, seen |-> bundle, todo |-> Unsupported(Load(bundle)),
                      edits |-> repair.edits]
        /\ bundle' = bundle /\ edits' = edits
    BY <1>2 DEF LoadForEvidence, RepairInv, RepairTypeOK, bundleVars
  <2>2. Unsupported(Load(bundle)) \subseteq Ids(Load(bundle)) /\ Alike(bundle, bundle)
    BY DEF Unsupported, OfKind, Alike
  <2> QED
    BY <2>1, <2>2 DEF RepairInv, RepairTypeOK, SeenIsAlike, EvidenceAdded, MirroredSoFar, NothingOneSided, Lists,
       Evident
<1>3. CASE StopRepair
  <2>1. repair' = [pc |-> "raised", k |-> 0, seen |-> <<>>, todo |-> {}, edits |-> 0]
        /\ bundle' = bundle /\ edits' = edits
    BY <1>3 DEF StopRepair, NoRepair, bundleVars
  <2> QED
    BY <2>1 DEF RepairInv, RepairTypeOK, SeenIsAlike, EvidenceAdded, MirroredSoFar, NothingOneSided, Lists
<1> QED
  BY <1>1, <1>2, <1>3

LEMMA LoadStep ==
  ASSUME RepairInv, LoadForInverse
  PROVE  RepairInv'
<1> DEFINE g == Load(bundle)
<1>1. /\ repair' = [pc |-> "inverse", k |-> repair.k, seen |-> bundle, todo |-> {u[1] : u \in Unmirrored(g)},
                    edits |-> repair.edits]
      /\ bundle' = bundle /\ edits' = edits /\ repair.pc = "evidence" /\ repair.todo = {}
  BY DEF LoadForInverse, RepairInv, RepairTypeOK, bundleVars
<1>2. {u[1] : u \in Unmirrored(g)} \subseteq Ids(g) /\ Alike(bundle, bundle)
  <2>1. \A u \in Unmirrored(g) : OneSided(g, u[1], u[2], u[3])
    BY UnmirroredIs
  <2> QED
    BY <2>1 DEF OneSided, OfKind, Alike
<1>3. Evident(bundle, {})
  BY <1>1 DEF RepairInv, EvidenceAdded
<1>4. \A n : n \notin {u[1] : u \in Unmirrored(g)} => Due(g, n) = {}
  BY NothingDue
<1> HIDE DEF g
<1>5. RepairTypeOK' /\ SeenIsAlike' /\ EvidenceAdded' /\ NothingOneSided'
  BY <1>1, <1>2, <1>3 DEF RepairInv, RepairTypeOK, SeenIsAlike, EvidenceAdded, NothingOneSided, Lists, Evident, g
<1>6. MirroredSoFar'
  BY <1>1, <1>4 DEF MirroredSoFar, g
<1> QED
  BY <1>5, <1>6 DEF RepairInv

\* When nothing is left to mirror, nothing is one-sided.
LEMMA FinishRepairStep ==
  ASSUME RepairInv, FinishRepair
  PROVE  RepairInv'
<1>1. /\ repair' = [repair EXCEPT !.pc = "done"] /\ bundle' = bundle /\ edits' = edits
      /\ repair.pc = "inverse" /\ repair.todo = {}
  BY DEF FinishRepair, bundleVars
<1>2. RepairTypeOK' /\ SeenIsAlike' /\ EvidenceAdded' /\ MirroredSoFar'
  BY <1>1 DEF RepairInv, RepairTypeOK, SeenIsAlike, EvidenceAdded, MirroredSoFar, Lists, Evident
<1>3. ASSUME repair.edits = edits  PROVE Unmirrored(Load(bundle)) = {}
  <2> DEFINE g == Load(repair.seen)
             h == Load(bundle)
  <2>1. Lists(repair.seen) /\ Alike(repair.seen, bundle) /\ Lists(bundle)
    BY <1>1 DEF RepairInv, SeenIsAlike, RepairTypeOK
  <2>2. SameNodes(g, h) /\ \A n \in Ids(g) : g.nodes[n] = repair.seen[g.path[n]] /\ h.nodes[n] = bundle[g.path[n]]
    BY <2>1, AlikeNodes
  <2>3. \A n \in Ids(g) : /\ bundle[g.path[n]].body = repair.seen[g.path[n]].body
                          /\ bundle[g.path[n]].front = repair.seen[g.path[n]].front \cup Due(g, n)
    BY <1>1, <1>3 DEF RepairInv, MirroredSoFar
  <2> HIDE DEF g, h
  <2>4. \A n \in Ids(g) : Said(h, n) = Said(g, n) \cup Due(g, n)
    BY <2>2, <2>3 DEF Said
  <2>5. Unmirrored(h) = {}
    BY <2>2, <2>4, MirroredAll
  <2> QED
    BY <2>5 DEF h
<1>4. NothingOneSided'
  BY <1>1, <1>3 DEF NothingOneSided, RepairInv, RepairTypeOK
<1> QED
  BY <1>2, <1>4 DEF RepairInv

-----------------------------------------------------------------------------
(* The repair: the steps that write a file *)

\* A correction takes back only what it names.
LEMMA BodyEditStep ==
  ASSUME RepairInv, ApplyBodyEdit
  PROVE  RepairInv' /\ KeepsDeclarations
<1> DEFINE e == BodyEdits[repair.k]
<1>1. /\ repair.pc = "body" /\ edits' = edits /\ Lists(bundle)
      /\ repair' \in {[repair EXCEPT !.k = @ + 1], [repair EXCEPT !.pc = "raised"]}
  BY DEF ApplyBodyEdit, RepairInv, RepairTypeOK
<1>2. Lists(bundle') /\ KeepsDeclarations
  <2>1. CASE bundle' = bundle
    BY <1>1, <2>1 DEF KeepsDeclarations
  <2>2. CASE bundle' = [bundle EXCEPT ![e.file].body = (@ \ {e.old}) \cup {e.new}] /\ bundle' # bundle
    <3>1. e.file \in DOMAIN bundle /\ bundle[e.file].body \in SUBSET BodyDeclaration
      <4>1. e.file \in DOMAIN bundle
        BY <1>1, <2>2, WrittenElsewhere DEF Lists
      <4>2. bundle[e.file] \in File
        BY <1>1, <4>1 DEF Lists
      <4> QED
        BY <4>1, <4>2 DEF File
    <3>2. repair.k \in DOMAIN BodyEdits /\ e.old \in Declaration /\ e.new \in Declaration
      <4>1. repair.k \in Nat /\ repair.k # 0 /\ repair.k <= Len(BodyEdits)
        BY DEF ApplyBodyEdit, RepairInv, RepairTypeOK
      <4>2. repair.k \in DOMAIN BodyEdits
        BY <4>1, RepairAssumption
      <4>3. BodyEdits[repair.k] \in [file : Nat, old : Declaration, new : Declaration]
        <5> DEFINE R == [file : Nat, old : Declaration, new : Declaration]
        <5>1. BodyEdits \in Seq(R)
          BY RepairAssumption
        <5> HIDE DEF R
        <5>2. BodyEdits[repair.k] \in R
          BY <4>2, <5>1
        <5> QED
          BY <5>2 DEF R
      <4> QED
        BY <4>2, <4>3
    <3> DEFINE S == (bundle[e.file].body \ {e.old}) \cup {e.new}
               c == [bundle[e.file] EXCEPT !.body = S]
    <3>3. S \in SUBSET BodyDeclaration /\ bundle' = [bundle EXCEPT ![e.file] = c]
      BY <2>2, <3>1, <3>2, DeclaredInBodies
    <3>4. bundle[e.file].body \ S \subseteq {BodyEdits[k].old : k \in DOMAIN BodyEdits}
      BY <3>2
    <3> HIDE DEF S, e
    <3>5. Rewrites(bundle, e.file, c, bundle') /\ c.front = bundle[e.file].front /\ c.body = S
      <4>1. bundle[e.file] \in File /\ bundle[e.file].bare = {}
        BY <1>1, <3>1 DEF Lists
      <4>2. c \in File
        BY <3>3, <4>1, FileParts
      <4>3. /\ c.id = bundle[e.file].id /\ c.stem = bundle[e.file].stem /\ c.kinds = bundle[e.file].kinds
            /\ c.bare = {} /\ c.front = bundle[e.file].front /\ c.body = S
        BY <4>1, FileParts
      <4> HIDE DEF c
      <4> QED
        BY <1>1, <3>1, <3>3, <4>2, <4>3 DEF Rewrites
    <3> HIDE DEF c
    <3>6. Lists(bundle') /\ bundle'[e.file] = c /\ \A j \in DOMAIN bundle : j # e.file => bundle'[j] = bundle[j]
      BY <3>5, Rewritten
    <3> QED
      BY <3>4, <3>5, <3>6 DEF KeepsDeclarations
  <2> QED
    BY <2>1, <2>2 DEF ApplyBodyEdit
<1>3. RepairTypeOK' /\ repair'.pc \in {"body", "raised"}
  BY <1>1, <1>2 DEF RepairInv, RepairTypeOK
<1> QED
  BY <1>2, <1>3 DEF RepairInv, SeenIsAlike, EvidenceAdded, MirroredSoFar, NothingOneSided

LEMMA EditStep ==
  ASSUME RepairInv, NEW i \in DOMAIN bundle, NEW d \in Edited, Edit(i, d), UNCHANGED repairVars
  PROVE  RepairInv' /\ edits' # edits
<1>1. /\ edits' = edits + 1 /\ repair' = repair
      /\ bundle' = [bundle EXCEPT ![i].body = IF d \in @ THEN @ \ {d} ELSE @ \cup {d}]
  BY DEF Edit, repairVars
<1> DEFINE S == IF d \in bundle[i].body THEN bundle[i].body \ {d} ELSE bundle[i].body \cup {d}
           c == [bundle[i] EXCEPT !.body = S]
<1>2. Lists(bundle) /\ bundle[i] \in File /\ d \in BodyDeclaration
  BY BundleAssumption, DeclaredInBodies DEF RepairInv, RepairTypeOK, Lists
<1>3. S \in SUBSET BodyDeclaration /\ bundle' = [bundle EXCEPT ![i] = c]
  BY <1>1, <1>2 DEF File
<1> HIDE DEF S
<1>4. /\ Lists(bundle') /\ Alike(bundle, bundle')
      /\ \A j \in DOMAIN bundle : bundle'[j].sources = bundle[j].sources
  <2>1. Rewrites(bundle, i, c, bundle') /\ c.sources = bundle[i].sources
    <3>1. c \in File
      BY <1>2, <1>3, FileParts
    <3>2. /\ c.id = bundle[i].id /\ c.stem = bundle[i].stem /\ c.kinds = bundle[i].kinds
          /\ c.bare = bundle[i].bare /\ c.sources = bundle[i].sources
      BY <1>2, FileParts
    <3> HIDE DEF c
    <3> QED
      BY <1>2, <1>3, <3>1, <3>2 DEF Rewrites, Lists
  <2> HIDE DEF c
  <2> QED
    BY <2>1, Rewritten
<1>5. edits' \in Nat /\ repair.edits < edits' /\ edits' # edits
  BY <1>1 DEF RepairInv, RepairTypeOK
<1>6. RepairTypeOK'
  BY <1>1, <1>4, <1>5 DEF RepairInv, RepairTypeOK
<1>7. SeenIsAlike'
  BY <1>1, <1>4, AlikeChain DEF RepairInv, SeenIsAlike
<1>8. EvidenceAdded'
  <2>1. \A n \in Ids(Load(bundle)) : Load(bundle).path[n] \in DOMAIN bundle
    BY <1>2, LoadIs DEF Lists
  <2>2. \A T : Evident(bundle, T) => Evident(bundle', T)
    BY <1>2, <1>4, <2>1, EvidentStays
  <2> QED
    BY <1>1, <2>2 DEF RepairInv, EvidenceAdded
<1>9. MirroredSoFar' /\ NothingOneSided'
  BY <1>1, <1>5 DEF RepairInv, RepairTypeOK, MirroredSoFar, NothingOneSided
<1> QED
  BY <1>5, <1>6, <1>7, <1>8, <1>9 DEF RepairInv

\* A node is the one of its file.
LEMMA SeenNodes ==
  ASSUME RepairInv, repair.pc \in {"evidence", "inverse"}
  PROVE  LET f == Load(repair.seen) IN
         /\ Lists(repair.seen) /\ Lists(bundle) /\ Alike(repair.seen, bundle) /\ repair.todo \subseteq Ids(f)
         /\ SameNodes(f, Load(bundle)) /\ f.path = Load(bundle).path /\ DOMAIN repair.seen = DOMAIN bundle
         /\ \A n \in Ids(f) : f.path[n] \in DOMAIN bundle /\ Load(bundle).nodes[n] = bundle[f.path[n]]
         /\ \A n, m \in Ids(f) : f.path[n] = f.path[m] => n = m
<1>1. Lists(repair.seen) /\ Lists(bundle) /\ Alike(repair.seen, bundle) /\ repair.todo \subseteq Ids(Load(repair.seen))
  BY DEF RepairInv, RepairTypeOK, SeenIsAlike
<1>2. DOMAIN repair.seen = DOMAIN bundle
  BY <1>1 DEF Alike
<1> QED
  BY <1>1, <1>2, AlikeNodes

\* Whatever evidence is added, the graph says what it said.
LEMMA EvidenceStep ==
  ASSUME RepairInv, NEW n \in repair.todo, AddEvidence(n)
  PROVE  RepairInv' /\ MirrorsAddNoEdge /\ KeepsDeclarations
<1> DEFINE f == Load(repair.seen)
           i == f.path[n]
           c == IF bundle[i].sources = "absent" THEN [bundle[i] EXCEPT !.sources = "cited"] ELSE bundle[i]
<1>1. /\ repair.pc = "evidence" /\ edits' = edits /\ repair' = [repair EXCEPT !.todo = @ \ {n}]
      /\ bundle' = IF bundle[i].sources = "absent" THEN [bundle EXCEPT ![i].sources = "cited"] ELSE bundle
  BY DEF AddEvidence
<1>2. /\ Lists(repair.seen) /\ Lists(bundle) /\ Alike(repair.seen, bundle) /\ repair.todo \subseteq Ids(f)
      /\ SameNodes(f, Load(bundle)) /\ f.path = Load(bundle).path
      /\ \A m \in Ids(f) : f.path[m] \in DOMAIN bundle
      /\ \A l, m \in Ids(f) : f.path[l] = f.path[m] => l = m
  BY <1>1, SeenNodes
<1>3. i \in DOMAIN bundle /\ bundle[i] \in File /\ bundle[i].bare = {}
  BY <1>2 DEF Lists
<1>4. bundle' = [bundle EXCEPT ![i] = c]
  <2>1. CASE bundle[i].sources = "absent"
    BY <1>1, <2>1
  <2>2. CASE bundle[i].sources # "absent"
    <3>1. bundle' = bundle /\ c = bundle[i]
      BY <1>1, <2>2
    <3> QED
      BY <1>2, <3>1 DEF Lists
  <2> QED
    BY <2>1, <2>2
<1>5. /\ c \in File /\ c.id = bundle[i].id /\ c.stem = bundle[i].stem /\ c.kinds = bundle[i].kinds /\ c.bare = {}
      /\ c.front = bundle[i].front /\ c.body = bundle[i].body /\ c.sources \in {"unusable", "cited"}
  <2>1. bundle[i].sources \in {"absent", "unusable", "cited"}
    BY <1>3 DEF File
  <2>2. c \in File
    BY <1>3, FileParts
  <2>3. [bundle[i] EXCEPT !.sources = "cited"].sources = "cited"
    BY <1>3, FileParts
  <2> QED
    BY <1>3, <2>1, <2>2, <2>3, FileParts
<1> HIDE DEF c
<1>6. Rewrites(bundle, i, c, bundle')
  BY <1>2, <1>3, <1>4, <1>5 DEF Rewrites
<1>7. /\ Lists(bundle') /\ Alike(bundle, bundle')
      /\ bundle'[i] = c /\ \A j \in DOMAIN bundle : j # i => bundle'[j] = bundle[j]
  BY <1>6, Rewritten
<1>8. RepairTypeOK'
  BY <1>1, <1>7 DEF RepairInv, RepairTypeOK
<1>9. SeenIsAlike'
  <2>1. Alike(repair.seen, bundle')
    BY <1>2, <1>7, AlikeChain
  <2> QED
    BY <1>1, <1>2, <2>1 DEF SeenIsAlike, RepairInv, RepairTypeOK
<1>10. Evident(bundle', repair.todo \ {n})
  <2>1. Evident(bundle, repair.todo)
    BY <1>1 DEF RepairInv, EvidenceAdded
  <2>2. Ids(Load(bundle)) = Ids(f)
    BY <1>2 DEF SameNodes
  <2>3. ASSUME NEW m \in Ids(Load(bundle))
        PROVE  LET j == Load(bundle).path[m] IN
               \/ bundle'[j].sources = bundle[j].sources /\ (m \in repair.todo => m \in repair.todo \ {n})
               \/ bundle'[j].sources \in {"unusable", "cited"}
    <3> HIDE DEF f
    <3> QED
      BY <1>2, <1>5, <1>7, <2>2
  <2> QED
    BY <1>2, <1>7, <2>1, <2>3, EvidentStays
<1>11. EvidenceAdded' /\ MirroredSoFar' /\ NothingOneSided'
  BY <1>1, <1>10 DEF RepairInv, RepairTypeOK, EvidenceAdded, MirroredSoFar, NothingOneSided
<1>12. MirrorsAddNoEdge
  <2> DEFINE g == Load(bundle)
             h == Load(bundle')
  <2>1. /\ SameNodes(g, h) /\ SameNodes(g, g)
        /\ \A m \in Ids(g) : /\ g.path[m] \in DOMAIN bundle
                             /\ g.nodes[m] = bundle[g.path[m]] /\ h.nodes[m] = bundle'[g.path[m]]
    BY <1>2, <1>7, AlikeNodes DEF SameNodes
  <2>2. ASSUME NEW m \in Ids(g)  PROVE Said(h, m) = Said(g, m)
    <3> HIDE DEF g, h, f
    <3> QED
      BY <1>5, <1>7, <2>1 DEF Said
  <2> HIDE DEF g, h
  <2>3. \A m \in Ids(g) : \E D \in SUBSET Due(g, m) : Said(h, m) = Said(g, m) \cup D
    <3>1. \A m : {} \in SUBSET Due(g, m)
      OBVIOUS
    <3> QED
      BY <2>2, <3>1
  <2>4. Edges(h) \subseteq Edges(g)
    BY <2>1, <2>3, NoNewEdges
  <2> QED
    BY <2>4 DEF MirrorsAddNoEdge, g, h
<1>13. KeepsDeclarations
  <2> HIDE DEF f
  <2> QED
    BY <1>5, <1>7 DEF KeepsDeclarations
<1> QED
  BY <1>8, <1>9, <1>11, <1>12, <1>13 DEF RepairInv

\* What a file lacks of what is due is added to what it declares by then.
LEMMA MirrorStep ==
  ASSUME RepairInv, NEW n \in repair.todo, Mirror(n)
  PROVE  RepairInv' /\ MirrorsAddNoEdge /\ KeepsDeclarations
<1> DEFINE f == Load(repair.seen)
           i == f.path[n]
           fresh == {d \in Due(f, n) : d \notin Existing(bundle[i], d[1])}
           c == [bundle[i] EXCEPT !.front = @ \cup fresh]
<1>1. /\ repair.pc = "inverse" /\ edits' = edits /\ repair' = [repair EXCEPT !.todo = @ \ {n}]
      /\ LET keys == {d[1] : d \in fresh} IN
         bundle' = [bundle EXCEPT ![i] =
           [bundle[i] EXCEPT
              !.front = {d \in @ : d[1] \notin keys} \cup (UNION {Existing(bundle[i], key) : key \in keys}) \cup fresh,
              !.bare = @ \ keys]]
  BY DEF Mirror, MirroredFor, Due
<1>2. /\ Lists(repair.seen) /\ Lists(bundle) /\ Alike(repair.seen, bundle) /\ repair.todo \subseteq Ids(f)
      /\ SameNodes(f, Load(bundle)) /\ f.path = Load(bundle).path
      /\ \A m \in Ids(f) : f.path[m] \in DOMAIN bundle
      /\ \A l, m \in Ids(f) : f.path[l] = f.path[m] => l = m
  BY <1>1, SeenNodes
<1>3. i \in DOMAIN bundle /\ bundle[i] \in File /\ bundle[i].bare = {}
  BY <1>2 DEF Lists
<1>4. \A rel : Existing(bundle[i], rel) = {d \in bundle[i].front : d[1] = rel}
  BY <1>3 DEF Existing
<1>5. bundle' = [bundle EXCEPT ![i] = c]
  <2> DEFINE keys == {d[1] : d \in fresh}
             old == bundle[i].front
  <2>1. UNION {Existing(bundle[i], key) : key \in keys} = {d \in old : d[1] \in keys}
    BY <1>4
  <2>2. {d \in old : d[1] \notin keys} \cup (UNION {Existing(bundle[i], key) : key \in keys}) \cup fresh = old \cup fresh
    BY <2>1
  <2>3. [bundle[i] EXCEPT !.front = old \cup fresh, !.bare = @ \ keys] = c
    BY <1>3, FileParts
  <2> QED
    BY <1>1, <2>2, <2>3
<1>6. fresh \subseteq Declaration /\ \A d \in Due(f, n) : d \in fresh \/ d \in bundle[i].front
  <2>1. ASSUME NEW u \in Unmirrored(f)  PROVE <<u[2], u[3]>> \in Declaration
    <3>1. OneSided(f, u[1], u[2], u[3])
      BY UnmirroredIs
    <3>2. u[3] \in Name
      BY <1>2, <3>1 DEF OneSided, OfKind, SameNodes
    <3> QED
      BY <3>1, <3>2 DEF OneSided, Declaration, Relations
  <2>2. fresh \subseteq Declaration
    BY <2>1 DEF Due
  <2> HIDE DEF f
  <2> QED
    BY <1>4, <2>2
<1>7. /\ c \in File /\ c.id = bundle[i].id /\ c.stem = bundle[i].stem /\ c.kinds = bundle[i].kinds /\ c.bare = {}
      /\ c.front = bundle[i].front \cup fresh /\ c.body = bundle[i].body /\ c.sources = bundle[i].sources
  <2>1. bundle[i].front \cup fresh \in SUBSET Declaration
    BY <1>3, <1>6 DEF File
  <2>2. c \in File
    BY <1>3, <2>1, FileParts
  <2> HIDE DEF fresh
  <2> QED
    BY <1>3, <2>2, FileParts
<1>8. fresh \subseteq Due(f, n) /\ c.front = bundle[i].front \cup Due(f, n)
  BY <1>6, <1>7
<1> HIDE DEF c, fresh
<1>9. Rewrites(bundle, i, c, bundle')
  BY <1>2, <1>3, <1>5, <1>7 DEF Rewrites
<1>10. /\ Lists(bundle') /\ Alike(bundle, bundle')
       /\ bundle'[i] = c /\ \A j \in DOMAIN bundle : j # i => bundle'[j] = bundle[j]
  BY <1>9, Rewritten
<1>11. RepairTypeOK'
  BY <1>1, <1>10 DEF RepairInv, RepairTypeOK
<1>12. SeenIsAlike'
  <2>1. Alike(repair.seen, bundle')
    BY <1>2, <1>10, AlikeChain
  <2> QED
    BY <1>1, <1>2, <2>1 DEF SeenIsAlike, RepairInv, RepairTypeOK
<1>13. Evident(bundle', {})
  <2>1. Evident(bundle, {})
    BY <1>1 DEF RepairInv, EvidenceAdded
  <2>2. \A j \in DOMAIN bundle : bundle'[j].sources = bundle[j].sources
    <3> HIDE DEF f
    <3> QED
      BY <1>7, <1>10
  <2>3. \A m \in Ids(Load(bundle)) : Load(bundle).path[m] \in DOMAIN bundle
    BY <1>2, LoadIs DEF Lists
  <2> QED
    BY <1>2, <1>10, <2>1, <2>2, <2>3, EvidentStays
<1>14. EvidenceAdded' /\ NothingOneSided'
  BY <1>1, <1>13 DEF RepairInv, RepairTypeOK, EvidenceAdded, NothingOneSided
<1>15. MirroredSoFar'
  <2> SUFFICES ASSUME repair.edits = edits, NEW m \in Ids(f)
               PROVE  LET j == f.path[m] IN
                      /\ bundle'[j].body = repair.seen[j].body
                      /\ m \in repair.todo \ {n} => bundle'[j].front = repair.seen[j].front
                      /\ m \notin repair.todo \ {n} => bundle'[j].front = repair.seen[j].front \cup Due(f, m)
    BY <1>1 DEF MirroredSoFar, RepairInv, RepairTypeOK
  <2>1. \A l \in Ids(f) : LET j == f.path[l] IN
          /\ bundle[j].body = repair.seen[j].body
          /\ l \in repair.todo => bundle[j].front = repair.seen[j].front
          /\ l \notin repair.todo => bundle[j].front = repair.seen[j].front \cup Due(f, l)
    BY <1>1 DEF RepairInv, MirroredSoFar
  <2> HIDE DEF f
  <2>2. CASE m = n
    BY <1>7, <1>8, <1>10, <2>1, <2>2
  <2>3. CASE m # n
    <3>1. f.path[m] # i /\ f.path[m] \in DOMAIN bundle
      BY <1>2, <2>3
    <3> QED
      BY <1>10, <2>1, <2>3, <3>1
  <2> QED
    BY <2>2, <2>3
<1>16. MirrorsAddNoEdge
  <2> DEFINE g == Load(bundle)
             h == Load(bundle')
  <2>1. /\ SameNodes(g, h) /\ SameNodes(f, g)
        /\ \A m \in Ids(g) : /\ g.path[m] \in DOMAIN bundle
                             /\ g.nodes[m] = bundle[g.path[m]] /\ h.nodes[m] = bundle'[g.path[m]]
    BY <1>2, <1>10, AlikeNodes
  <2>2. ASSUME NEW m \in Ids(g)  PROVE \E D \in SUBSET Due(f, m) : Said(h, m) = Said(g, m) \cup D
    <3> HIDE DEF g, h
    <3>1. CASE g.path[m] = i
      <4>1. m = n
        BY <1>2, <2>1, <3>1 DEF SameNodes, g
      <4>2. Said(h, m) = Said(g, m) \cup fresh
        <5> HIDE DEF f
        <5> QED
          BY <1>7, <1>10, <2>1, <3>1 DEF Said
      <4> QED
        BY <1>8, <4>1, <4>2
    <3>2. CASE g.path[m] # i
      <4>1. Said(h, m) = Said(g, m) \cup {}
        <5> HIDE DEF f
        <5> QED
          BY <1>10, <2>1, <3>2 DEF Said
      <4> QED
        BY <4>1
    <3> QED
      BY <3>1, <3>2
  <2> HIDE DEF g, h
  <2>3. Edges(h) \subseteq Edges(g) \cup Edges(f)
    BY <2>1, <2>2, NoNewEdges
  <2> QED
    BY <2>3 DEF MirrorsAddNoEdge, g, h
<1>17. KeepsDeclarations
  <2> HIDE DEF f
  <2> QED
    BY <1>7, <1>10 DEF KeepsDeclarations
<1> QED
  BY <1>11, <1>12, <1>14, <1>15, <1>16, <1>17 DEF RepairInv

\* One step of the repair or of the author.
RepairStep ==
  \/ RepairNext
  \/ (\E i \in DOMAIN bundle, d \in Edited : Edit(i, d)) /\ UNCHANGED repairVars

StepOnlyMirrors ==
  /\ edits' = edits => MirrorsAddNoEdge /\ KeepsDeclarations
  /\ RepairedIsMirrored'

LEMMA RepairStepKeeps ==
  ASSUME RepairInv, RepairStep
  PROVE  RepairInv' /\ StepOnlyMirrors
<1>1. ASSUME bundle' = bundle, edits' = edits  PROVE MirrorsAddNoEdge /\ KeepsDeclarations
  BY <1>1 DEF MirrorsAddNoEdge, KeepsDeclarations
<1>2. RepairInv' => RepairedIsMirrored'
  BY InvGivesMirrored, PTL
<1>3. CASE StartRepair \/ LoadForEvidence \/ StopRepair
  <2>1. bundle' = bundle /\ edits' = edits
    BY <1>3 DEF StartRepair, LoadForEvidence, StopRepair, bundleVars
  <2> QED
    BY <1>1, <1>2, <1>3, <2>1, QuietSteps DEF StepOnlyMirrors
<1>4. CASE ApplyBodyEdit
  <2>1. MirrorsAddNoEdge
    BY <1>4 DEF ApplyBodyEdit, MirrorsAddNoEdge
  <2> QED
    BY <1>2, <1>4, <2>1, BodyEditStep DEF StepOnlyMirrors
<1>5. CASE LoadForInverse
  <2>1. bundle' = bundle /\ edits' = edits
    BY <1>5 DEF LoadForInverse, bundleVars
  <2> QED
    BY <1>1, <1>2, <1>5, <2>1, LoadStep DEF StepOnlyMirrors
<1>6. CASE FinishRepair
  <2>1. bundle' = bundle /\ edits' = edits
    BY <1>6 DEF FinishRepair, bundleVars
  <2> QED
    BY <1>1, <1>2, <1>6, <2>1, FinishRepairStep DEF StepOnlyMirrors
<1>7. ASSUME NEW n \in repair.todo, AddEvidence(n)  PROVE RepairInv' /\ StepOnlyMirrors
  BY <1>2, <1>7, EvidenceStep DEF StepOnlyMirrors
<1>8. ASSUME NEW n \in repair.todo, Mirror(n)  PROVE RepairInv' /\ StepOnlyMirrors
  BY <1>2, <1>8, MirrorStep DEF StepOnlyMirrors
<1>9. ASSUME NEW i \in DOMAIN bundle, NEW d \in Edited, Edit(i, d), UNCHANGED repairVars
      PROVE  RepairInv' /\ StepOnlyMirrors
  BY <1>2, <1>9, EditStep DEF StepOnlyMirrors
<1> QED
  BY <1>3, <1>4, <1>5, <1>6, <1>7, <1>8, <1>9 DEF RepairStep, RepairNext

\* Whatever the author edits between two steps and wherever a run is stopped,
\* a repair takes back nothing but what it was told to correct and adds no
\* dependency the bundle did not declare; and one nobody disturbed leaves no
\* relation declared on one side only.  The bundles are those that give the
\* relations of a frontmatter as lists.
THEOREM RepairMirrors ==
  ASSUME \A b \in Bundles : \A i \in DOMAIN b : b[i].bare = {}
  PROVE  RepairSpec => RepairOnlyMirrors
<1>1. RepairInit /\ BundleInit => RepairInv
  BY RepairStarts
<1>2. RepairInv /\ [RepairStep]_<<bundleVars, repairVars>> => RepairInv'
  <2>1. ASSUME RepairInv, UNCHANGED <<bundleVars, repairVars>>  PROVE RepairInv'
    BY <2>1 DEF bundleVars, repairVars, RepairInv, RepairTypeOK, SeenIsAlike, EvidenceAdded, MirroredSoFar,
       NothingOneSided
  <2> QED
    BY <2>1, RepairStepKeeps
<1>3. RepairInv /\ [RepairStep]_<<bundleVars, repairVars>> => [StepOnlyMirrors]_<<bundleVars, repairVars>>
  BY RepairStepKeeps
<1>4. RepairSpec => [][StepOnlyMirrors]_<<bundleVars, repairVars>>
  BY <1>1, <1>2, <1>3, PTL DEF RepairSpec, RepairStep
<1> QED
  BY <1>4 DEF RepairOnlyMirrors, StepOnlyMirrors
=============================================================================
