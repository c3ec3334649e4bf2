----------------------------- MODULE HistoryLog ------------------------------
(***************************************************************************)
(* The agent model's history file and those who write it.                  *)
(* append_operator reads the file, numbers its record after the highest    *)
(* number it saw, and writes the whole file back; nothing is locked.       *)
(* write_text truncates the file first and the text reaches it later, so a *)
(* reader in between sees a part of it, and a writer stopped in between    *)
(* leaves a part of it.  What such a file parses to is a whole number of   *)
(* records, or it does not parse: a cut inside a record's id, and remains  *)
(* that happen to read as records, are left out, as are timestamps and the *)
(* version.                                                                *)
(***************************************************************************)
EXTENDS Naturals, Sequences, FiniteSets, SequencesExt

CONSTANTS
  Writer,       \* processes that call append_operator
  Operator,     \* what a record can say
  CanonicalOp,  \* what append_operator accepts
  MaxRecords    \* bound: appends begun in a behaviour

ASSUME LogAssumption == /\ CanonicalOp \subseteq Operator
                        /\ MaxRecords \in Nat

VARIABLES
  log,      \* the records in the file
  torn,     \* the file ends in the remains of a longer text: it does not parse
  writers,  \* [Writer -> the call in progress]
  logged,   \* the records handed over for good: returned by a call, or authored
  mishaps,  \* whether writers ever overlapped, and whether one was stopped
  begun     \* how many appends were begun

logVars == <<log, torn, writers, logged, mishaps, begun>>

\* num is 0 in a record the author wrote by hand, without an op_<n> id.
Record == [num : Nat, op : Operator]
Idle == [pc |-> "idle", text |-> <<>>]

LogInit ==
  /\ log = <<>>
  /\ torn = FALSE
  /\ writers = [w \in Writer |-> Idle]
  /\ logged = {}
  /\ mishaps = {}
  /\ begun = 0

Numbers(records) == {0} \cup {records[i].num : i \in DOMAIN records}

\* _next_op_id: one above the highest number.  The first form counts the
\* records instead, and is one short.
OpIdByCount(records) == IF records = <<>> THEN 1 ELSE Len(records)
NextOpId(records) == 1 + CHOOSE n \in Numbers(records) : \A m \in Numbers(records) : m <= n

Writing == {w \in Writer : writers[w].pc = "opened"}
InProgress == {w \in Writer : writers[w].pc # "idle"}

\* What read_history can see: the file, or a beginning of what is being written.
Visible ==
  IF Writing = {} THEN {log}
  ELSE {log} \cup UNION {{SubSeq(writers[w].text, 1, k) : k \in 0 .. Len(writers[w].text)} : w \in Writing}

\* append_operator up to the write: read, number, append in memory.  A torn
\* or half-written file may also fail to parse; the call then raises and has
\* changed nothing, as does one whose operator is not canonical.
ReadAndNumber(w, op) ==
  /\ writers[w].pc = "idle"
  /\ op \in CanonicalOp
  /\ ~torn
  /\ begun < MaxRecords /\ begun' = begun + 1
  /\ \E seen \in Visible :
       writers' = [writers EXCEPT ![w] =
         [pc |-> "numbered", text |-> Append(seen, [num |-> NextOpId(seen), op |-> op])]]
  /\ mishaps' = IF InProgress = {} THEN mishaps ELSE mishaps \cup {"overlap"}
  /\ UNCHANGED <<log, torn, logged>>

\* write_text opens the file for writing, which empties it.
OpenLog(w) ==
  /\ writers[w].pc = "numbered"
  /\ writers' = [writers EXCEPT ![w].pc = "opened"]
  /\ log' = <<>>
  /\ torn' = FALSE
  /\ UNCHANGED <<logged, mishaps, begun>>

\* The text reaches the file and the call returns its record.  If another text
\* was put there meanwhile and is longer, its end stays behind.
WriteText(w) ==
  /\ writers[w].pc = "opened"
  /\ log' = writers[w].text
  /\ torn' \in (IF log = <<>> THEN {FALSE} ELSE BOOLEAN)
  /\ logged' = logged \cup {Last(writers[w].text)}
  /\ writers' = [writers EXCEPT ![w] = Idle]
  /\ UNCHANGED <<mishaps, begun>>

\* The process is stopped during its call: in mid-write nothing of its text is
\* there, or a part that does not parse, or some of its records; behind what
\* was put there meanwhile a part of it never parses.
StopWriter(w) ==
  /\ writers[w].pc # "idle"
  /\ \/ /\ writers[w].pc = "numbered"
        /\ UNCHANGED <<log, torn>>
     \/ /\ writers[w].pc = "opened"
        /\ \/ log' = log /\ torn' \in {torn, TRUE}
           \/ /\ log = <<>> /\ torn' = torn
              /\ \E k \in 1 .. Len(writers[w].text) : log' = SubSeq(writers[w].text, 1, k)
  /\ writers' = [writers EXCEPT ![w] = Idle]
  /\ mishaps' = mishaps \cup {"stopped"}
  /\ UNCHANGED <<logged, begun>>

\* The author saves the file with one more record in it.
AuthorRecord(op) ==
  /\ Writing = {} /\ ~torn
  /\ begun < MaxRecords /\ begun' = begun + 1
  /\ log' = Append(log, [num |-> 0, op |-> op])
  /\ logged' = logged \cup {[num |-> 0, op |-> op]}
  /\ mishaps' = IF InProgress = {} THEN mishaps ELSE mishaps \cup {"overlap"}
  /\ UNCHANGED <<torn, writers>>

LogNext ==
  \/ \E w \in Writer : \/ \E op \in Operator : ReadAndNumber(w, op)
                       \/ OpenLog(w)
                       \/ WriteText(w)
                       \/ StopWriter(w)
  \/ \E op \in Operator : AuthorRecord(op)

LogSpec == LogInit /\ [][LogNext]_logVars

-----------------------------------------------------------------------------
LogTypeOK ==
  /\ log \in Seq(Record)
  /\ torn \in BOOLEAN
  /\ writers \in [Writer -> [pc : {"idle", "numbered", "opened"}, text : Seq(Record)]]
  /\ logged \subseteq Record
  /\ mishaps \subseteq {"overlap", "stopped"}
  /\ begun \in 0 .. MaxRecords

\* The numbers of the records grow along the file, however writers overlap,
\* are stopped, or read a half-written file: an id never stands for two of
\* its records.
Growing(records) ==
  \A i, j \in DOMAIN records :
    i < j /\ records[i].num # 0 /\ records[j].num # 0 => records[i].num < records[j].num
NumbersGrow == Growing(log)

\* A record that was handed over stays in the file, whatever is appended
\* after it, as long as no two writers overlapped and none was stopped.
HandedOverStays ==
  mishaps = {} /\ Writing = {} => \A r \in logged : \E i \in DOMAIN log : log[i] = r

\* The history is kept: its records keep their order and their numbers, and
\* none is lost between writers who did not meet.
HistoryIsKept == NumbersGrow /\ HandedOverStays

=============================================================================
