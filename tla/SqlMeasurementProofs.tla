------------------------ MODULE SqlMeasurementProofs ------------------------
(***************************************************************************)
(* What is measured of a question follows from the query that was drafted, *)
(* whatever the schema, the query, the rows the database finds and the     *)
(* installed transforms.                                                   *)
(*                                                                         *)
(* The invariant only says how a measurement came about; the rest is the   *)
(* taxonomy: what the detectors before the one that matched have ruled     *)
(* out, and that the regular expressions and the database, which each see  *)
(* half of a query, do not contradict each other.                          *)
(***************************************************************************)
EXTENDS SqlMeasurement, TLAPS

Outcome(ran) == SqlOutcome(instance, drafted, ran)

SqlInv ==
  /\ instance \in SqlInstances
  /\ stage \in {"drafted", "measured"} => drafted.query \in Drafts \cup {NoQuery}
  /\ stage = "measured" =>
       \E ran \in Executions(instance, drafted.query) :
         measured = [correct |-> Outcome(ran).correct, ran |-> ran, regime |-> SqlClassify(Outcome(ran))]

LEMMA SqlInvariance == SqlSpec => []SqlInv
<1>1. SqlInit => SqlInv
  BY DEF SqlInit, SqlInv
<1>2. SqlInv /\ [SqlNext]_sqlVars => SqlInv'
  <2> SUFFICES ASSUME SqlInv, [SqlNext]_sqlVars  PROVE SqlInv'
    OBVIOUS
  <2>1. CASE EncodeSchema \/ ScoreColumns
    BY <2>1 DEF EncodeSchema, ScoreColumns, SqlInv
  <2>2. CASE PromptPipeline
    <3> DEFINE broken == [query |-> NoQuery, error |-> "chain_did_not_reach_draft"]
    <3>1. \/ drafted' = broken /\ stage' = "drafted"
          \/ stage' = "assembled"
      BY <2>2 DEF PromptPipeline
    <3>2. instance' = instance
      BY <2>2 DEF PromptPipeline
    <3> QED
      BY <3>1, <3>2 DEF SqlInv
  <2>3. CASE DraftQuery
    <3> DEFINE answers(q) == [query |-> q, error |-> ""]
               raises == [query |-> NoQuery, error |-> "reader raised"]
    <3>0. (\A q : answers(q).query = q) /\ raises.query = NoQuery
      OBVIOUS
    <3>1. instance' = instance /\ stage' = "drafted" /\ drafted'.query \in Drafts \cup {NoQuery}
      <4>1. (\E q \in Drafts \cup {NoQuery} : drafted' = answers(q)) \/ drafted' = raises
        BY <2>3 DEF DraftQuery
      <4>2. instance' = instance /\ stage' = "drafted"
        BY <2>3 DEF DraftQuery
      <4> HIDE DEF answers, raises
      <4> QED
        BY <4>1, <4>2, <3>0
    <3> QED
      BY <3>1 DEF SqlInv
  <2>4. CASE Measure
    <3>1. PICK ran \in Executions(instance, drafted.query) :
            measured' = [correct |-> Outcome(ran).correct, ran |-> ran, regime |-> SqlClassify(Outcome(ran))]
      BY <2>4 DEF Measure, Outcome
    <3>2. UNCHANGED <<instance, drafted>> /\ stage = "drafted"
      BY <2>4 DEF Measure
    <3>3. Outcome(ran)' = Outcome(ran)
      BY <3>2 DEF Outcome
    <3> QED
      BY <3>1, <3>2, <3>3 DEF SqlInv
  <2>5. CASE UNCHANGED sqlVars
    <3>1. UNCHANGED <<stage, instance, drafted, measured>>
      BY <2>5 DEF sqlVars
    <3>2. \A ran : Outcome(ran)' = Outcome(ran)
      BY <3>1 DEF Outcome
    <3> QED
      BY <3>1, <3>2 DEF SqlInv
  <2> QED
    BY <2>1, <2>2, <2>3, <2>4, <2>5 DEF SqlNext
<1> QED
  BY <1>1, <1>2, PTL DEF SqlSpec

-----------------------------------------------------------------------------
\* The query names a table or a column the database has not.
Unknown(i, q) ==
  \/ \E k \in DOMAIN q.from : q.from[k].table \notin Tables(i)
  \/ \E c \in q.cols : Sources(i, q, c) = {}

\* Every run of a query, as a record.
LEMMA ExecutionsAre ==
  ASSUME NEW i, NEW q, NEW ran \in Executions(i, q)
  PROVE  /\ ran.error = Complaint(i, q)
         /\ ran.error # "" \/ q.form = "none" => ran.rows = <<>>
<1> DEFINE nothing(e) == [rows |-> <<>>, error |-> e]
<1>1. \A e : nothing(e).rows = <<>> /\ nothing(e).error = e
  OBVIOUS
<1>2. CASE Complaint(i, q) # ""
  <2>1. Executions(i, q) = {nothing(Complaint(i, q))}
    BY <1>2 DEF Executions
  <2> HIDE DEF nothing
  <2>2. ran = nothing(Complaint(i, q))
    BY <2>1
  <2> QED
    BY <2>2, <1>1
<1>3. CASE Complaint(i, q) = "" /\ q.form = "none"
  <2>1. Executions(i, q) = {nothing("")}
    BY <1>3 DEF Executions
  <2> HIDE DEF nothing
  <2>2. ran = nothing("")
    BY <2>1
  <2> QED
    BY <2>2, <1>1, <1>3
<1>4. CASE Complaint(i, q) = "" /\ q.form # "none"
  <2>1. Executions(i, q) = {[rows |-> r, error |-> ""] : r \in Found}
    BY <1>4 DEF Executions
  <2>2. PICK r \in Found : ran = [rows |-> r, error |-> ""]
    BY <2>1
  <2> QED
    BY <2>2, <1>4
<1> QED
  BY <1>2, <1>3, <1>4

\* What the database says of a query, if it was set up.
LEMMA Complaints ==
  ASSUME NEW i, NEW q, i.setup = "", NEW ran \in Executions(i, q)
  PROVE  /\ ran.error = Complaint(i, q)
         /\ q.form = "unparsable" => ran.error = "syntax"
         /\ q.form # "unparsable" => (ran.error = "no such" <=> Unknown(i, q))
         /\ q.form # "unparsable" => ran.error # "syntax"
<1>1. ran.error = Complaint(i, q)
  BY ExecutionsAre
<1> QED
  BY <1>1 DEF Complaint, Unknown

\* What a query that did not run, or is none, has found.
LEMMA FindsNothing ==
  ASSUME NEW i, NEW q, NEW ran \in Executions(i, q), ran.error = "", q.form = "none"
  PROVE  ran.rows = <<>>
BY ExecutionsAre

\* Without aliases, a name the parser finds nowhere the database does not find
\* either.
LEMMA UnknownWithoutAliases ==
  ASSUME NEW d, NEW i \in SqlInstances, NEW ran, d.query \in Drafts \cup {NoQuery},
         \A k \in DOMAIN d.query.from : d.query.from[k].alias = d.query.from[k].table,
         NamesUnknown(SqlOutcome(i, d, ran))
  PROVE  Unknown(i, d.query)
<1> DEFINE q == d.query
<1>1. Parsed(q).tables \subseteq {q.from[k].table : k \in DOMAIN q.from}
  BY DEF Parsed
<1>2. Parsed(q).columns = {c \in q.cols : c[1] # ""}
  BY DEF Parsed
<1>3. ~(Parsed(q).tables \subseteq Tables(i) /\ Parsed(q).columns \subseteq ToSet(i.columns))
  BY DEF NamesUnknown, SqlOutcome, Tables
<1>4. CASE ~(Parsed(q).tables \subseteq Tables(i))
  BY <1>1, <1>4 DEF Unknown
<1>5. CASE ~(Parsed(q).columns \subseteq ToSet(i.columns))
  <2>1. PICK c \in q.cols : c[1] # "" /\ c \notin ToSet(i.columns)
    BY <1>2, <1>5
  <2>2. c = <<c[1], c[2]>>
    <3>1. CASE d.query \in Drafts
      BY <3>1, <2>1, SqlAssumption
    <3>2. CASE d.query = NoQuery
      <4>1. q.cols = {}
        BY <3>2 DEF NoQuery
      <4> QED
        BY <4>1, <2>1
    <3> QED
      BY <3>1, <3>2
  <2>3. Sources(i, q, c) = {}
    BY <2>1, <2>2 DEF Sources
  <2> QED
    BY <2>3 DEF Unknown
<1> QED
  BY <1>3, <1>4, <1>5

LEMMA MeasurementsFollow ==
  ASSUME SqlInv, stage = "measured"
  PROVE  ErrorsAreNeverRight /\ BlameFollowsTheQuery
<1> DEFINE q == drafted.query
           g == instance.gold
<1>1. PICK ran \in Executions(instance, q) :
        measured = [correct |-> Outcome(ran).correct, ran |-> ran, regime |-> SqlClassify(Outcome(ran))]
  BY DEF SqlInv
<1> DEFINE o == Outcome(ran)
<1>2. /\ o.query = q /\ o.error = ran.error /\ o.correct = ResultSetsEqual(ran, instance.rows)
      /\ o.columns = ToSet(instance.columns) /\ o.pred = Parsed(q) /\ o.gold = Parsed(g)
  BY DEF Outcome, SqlOutcome
<1>3. q \in Drafts \cup {NoQuery} /\ instance \in SqlInstances
  BY DEF SqlInv
<1>4. q.form \in {"none", "select", "unparsable"}
  BY <1>3, SqlAssumption DEF NoQuery
<1>5. /\ measured.correct = o.correct /\ measured.ran = ran /\ measured.regime = SqlClassify(o)
  BY <1>1
<1>6. ErrorsAreNeverRight
  <2> SUFFICES ASSUME o.correct
               PROVE  ran.error = "" /\ (q.form # "none" \/ instance.rows = <<>>)
    BY <1>5 DEF ErrorsAreNeverRight
  <2>1. ran.error = "" /\ Len(ran.rows) = Len(instance.rows)
    BY <1>2 DEF ResultSetsEqual
  <2>2. ASSUME q.form = "none"  PROVE instance.rows = <<>>
    <3>1. ran.rows = <<>>
      BY <2>1, <2>2, FindsNothing
    <3>2. instance.rows \in Seq(ToSet(instance.rows)) /\ Len(instance.rows) = 0
      BY <2>1, <3>1, <1>3, SqlAssumption
    <3> QED
      BY <3>2
  <2> QED
    BY <2>1, <2>2
<1>7. BlameFollowsTheQuery
  <2> SUFFICES ASSUME ~o.correct, instance.setup = ""
               PROVE  /\ SqlClassify(o) = "executable-but-wrong" =>
                           /\ q.form = "select" /\ ran.error = ""
                           /\ <<q.where, q.group, q.having>> = <<g.where, g.group, g.having>>
                           /\ Parsed(q).join => {f.table : f \in ToSet(q.from)} = {f.table : f \in ToSet(g.from)}
                      /\ SqlClassify(o) = "schema-misunderstanding"
                         /\ (\A k \in DOMAIN q.from : q.from[k].alias = q.from[k].table) => Unknown(instance, q)
                      /\ q.form = "select" /\ Unknown(instance, q) => SqlClassify(o) = "schema-misunderstanding"
    BY <1>5 DEF BlameFollowsTheQuery, Unknown
  <2>1. /\ q.form = "unparsable" => ran.error = "syntax"
        /\ q.form # "unparsable" => (ran.error = "no such" <=> Unknown(instance, q))
        /\ q.form # "unparsable" => ran.error # "syntax"
    BY Complaints
  <2>2. ASSUME SqlClassify(o) = "executable-but-wrong"
        PROVE  /\ q.form = "select" /\ ran.error = ""
               /\ <<q.where, q.group, q.having>> = <<g.where, g.group, g.having>>
               /\ Parsed(q).join => {f.table : f \in ToSet(q.from)} = {f.table : f \in ToSet(g.from)}
    <3>1. ~detect_syntax_error(o) /\ detect_executable_but_wrong(o)
      BY <2>2 DEF SqlClassify
    <3>2. q.form = "select" /\ ran.error = ""
      BY <3>1, <2>1, <1>2, <1>4 DEF detect_syntax_error, detect_executable_but_wrong
    <3>3. /\ Parsed(q).where = Parsed(g).where /\ Parsed(q).having = Parsed(g).having
          /\ Parsed(q).group = Parsed(g).group /\ Parsed(q).join = Parsed(g).join
          /\ Parsed(q).join => Parsed(q).tables = Parsed(g).tables
      BY <3>1, <1>2 DEF detect_executable_but_wrong, detect_wrong_filter, detect_wrong_aggregation, detect_wrong_join
    <3>4. ASSUME NEW x, Parsed(x).join
          PROVE  Parsed(x).tables = {f.table : f \in ToSet(x.from)}
      <4>1. x.joined
        BY <3>4 DEF Parsed
      <4>2. Parsed(x).tables = {x.from[k].table : k \in DOMAIN x.from}
        BY <4>1 DEF Parsed
      <4> QED
        BY <4>2 DEF ToSet
    <3>5. <<q.where, q.group, q.having>> = <<g.where, g.group, g.having>>
      BY <3>3 DEF Parsed
    <3>6. Parsed(q).join => {f.table : f \in ToSet(q.from)} = {f.table : f \in ToSet(g.from)}
      BY <3>3, <3>4
    <3> QED
      BY <3>2, <3>5, <3>6
  <2>3. ASSUME SqlClassify(o) = "schema-misunderstanding",
               \A k \in DOMAIN q.from : q.from[k].alias = q.from[k].table
        PROVE  Unknown(instance, q)
    <3>1. ~detect_syntax_error(o) /\ detect_schema_misunderstanding(o)
      BY <2>3 DEF SqlClassify
    <3>2. NamesUnknown(o) \/ ran.error = "no such"
      BY <3>1, <1>2 DEF detect_schema_misunderstanding
    <3>3. ran.error # "syntax"
      BY <3>1, <1>2 DEF detect_syntax_error
    <3> QED
      BY <3>2, <3>3, <2>1, <2>3, <1>3, UnknownWithoutAliases DEF Outcome
  <2>4. ASSUME q.form = "select", Unknown(instance, q)
        PROVE  SqlClassify(o) = "schema-misunderstanding"
    <3>1. ran.error = "no such"
      BY <2>1, <2>4
    <3> QED
      BY <3>1, <2>4, <1>2 DEF SqlClassify, detect_syntax_error, detect_schema_misunderstanding
  <2> QED
    BY <2>2, <2>3, <2>4
<1> QED
  BY <1>6, <1>7

\* A query that did not run is never right; and of a wrong one the taxonomy
\* says unknown name, executable but wrong, only if it is (execute_sql,
\* classify and the detectors of the SQL taxonomy).
THEOREM MeasurementsAreSound == SqlSpec => []MeasuredFollowsTheQuery
<1>1. SqlInv => MeasuredFollowsTheQuery
  BY MeasurementsFollow DEF MeasuredFollowsTheQuery
<1> QED
  BY <1>1, SqlInvariance, PTL
=============================================================================
