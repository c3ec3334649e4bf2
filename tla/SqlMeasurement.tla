--------------------------- MODULE SqlMeasurement ---------------------------
(***************************************************************************)
(* One question of the SQL target, from its schema to its diagnosis        *)
(* (src/core/targets/sql): the chain of behaviors that makes a prompt and  *)
(* drafts a query, the run of the query on an in-memory database, what the *)
(* parser by regular expressions sees of it, and the regime the taxonomy   *)
(* gives it.  Questions are measured one after another and share nothing   *)
(* but the installed transforms.                                           *)
(*                                                                         *)
(* A query is [form, from, joined, cols, where, group, having]: form tells *)
(* whether there is one and whether it parses, from lists [table, alias]   *)
(* pairs (the alias is the table's name where none is given), separated by *)
(* JOIN or by commas, cols are the columns named, <<qualifier, column>>.   *)
(* A row of a result is a sequence of cells, a cell what _cell_str makes   *)
(* of it.                                                                  *)
(***************************************************************************)
EXTENDS Integers, Sequences, FiniteSets, FiniteSetsExt, SequencesExt

CONSTANTS
  SqlInstances,    \* the questions: [columns, keys, setup, gold, rows]
  TopK,            \* top_k of behavior_score_columns
  Scorings(_),     \* Scorings(n): the similarities n columns may have
  Drafts,          \* the queries a reader may answer
  Found,           \* what a query that runs may find
  SqlPipelines,    \* the transforms that may be installed, in order
  Rewrites(_, _),  \* Rewrites(f, parts): {the dict f returns}, {} if it raises
  Scribbles(_, _)  \* Scribbles(f, parts): what f leaves in the dict it was handed

ASSUME SqlAssumption ==
  /\ \A i \in SqlInstances : i.rows \in Seq(ToSet(i.rows))
  /\ \A q \in Drafts : /\ q.form \in {"select", "unparsable"}
                       /\ \A c \in q.cols : c = <<c[1], c[2]>>

VARIABLES
  stage,     \* "none" | "asked" | "encoded" | "scored" | "assembled" | "drafted" | "measured"
  instance,  \* the question
  pipeline,  \* prompt_transforms._PIPELINE
  schema,    \* the graph: [columns, keys]
  selected,  \* selected_column_ids, as positions
  prompted,  \* the prompt.assembled event: [parts, names, skipped]
  drafted,   \* the query.drafted event: [query, error]
  measured   \* the SqlOutcome and its regime

sqlVars == <<stage, instance, pipeline, schema, selected, prompted, drafted, measured>>

NoQuery == [form |-> "none", from |-> <<>>, joined |-> FALSE, cols |-> {},
            where |-> FALSE, group |-> FALSE, having |-> FALSE]
NoPrompt == [parts |-> <<>>, names |-> <<>>, skipped |-> <<>>]

SqlAtRest ==
  /\ stage = "none" /\ instance = <<>> /\ pipeline = <<>> /\ schema = <<>> /\ selected = {}
  /\ prompted = NoPrompt /\ drafted = <<>> /\ measured = <<>>

SqlInit ==
  /\ stage = "asked" /\ \E i \in SqlInstances : instance = i
  /\ pipeline \in SqlPipelines
  /\ schema = <<>> /\ selected = {} /\ prompted = NoPrompt /\ drafted = <<>> /\ measured = <<>>

-----------------------------------------------------------------------------
(* The chain of the agent *)

\* A foreign key of a column that is not there is left out.
EncodeSchema ==
  /\ stage = "asked"
  /\ schema' = [columns |-> instance.columns,
                keys |-> {k \in instance.keys : {k[1], k[2]} \subseteq ToSet(instance.columns)}]
  /\ stage' = "encoded"
  /\ UNCHANGED <<instance, pipeline, selected, prompted, drafted, measured>>

\* The best columns; of equals the earlier.
ScoreColumns ==
  /\ stage = "encoded"
  /\ \E s \in Scorings(Len(schema.columns)) :
       selected' = {i \in DOMAIN s :
                      Cardinality({j \in DOMAIN s : s[j] > s[i] \/ (s[j] = s[i] /\ j < i)}) < TopK}
  /\ stage' = "scored"
  /\ UNCHANGED <<instance, pipeline, schema, prompted, drafted, measured>>

Shown == {schema.columns[i] : i \in selected}

\* A join path is hinted at if both of its ends are shown.
BaseParts ==
  [schema       |-> Shown,
   instructions |-> "base",
   hints        |-> [joinable |-> TRUE, of |-> {k \in schema.keys : {k[1], k[2]} \subseteq Shown}],
   question     |-> "asked"]

\* What the pipeline takes: a dict with no keys of its own.
Accepted(f, parts) == {o \in Rewrites(f, parts) : DOMAIN o \subseteq DOMAIN Scribbles(f, parts)}

\* One entry of apply_pipeline: the dict it works on is handed out, so what a
\* transform wrote there stays even if it is skipped.
Transformed(p, f) ==
  LET left == Scribbles(f, p.parts)
      out  == Accepted(f, p.parts)
  IN  IF out = {} THEN [p EXCEPT !.parts = left, !.skipped = Append(@, f)]
      ELSE LET o == CHOOSE x \in out : TRUE
           IN  [p EXCEPT !.parts = [k \in DOMAIN left |-> IF k \in DOMAIN o THEN o[k] ELSE left[k]],
                         !.names = Append(@, f)]

Assembled(fs) == FoldLeft(Transformed, [NoPrompt EXCEPT !.parts = BaseParts], fs)

\* Hints that cannot be joined to a text raise, and the chain ends there.
PromptPipeline ==
  /\ stage = "scored"
  /\ \E p \in {Assembled(pipeline)} :
       IF ~p.parts.hints.joinable
       THEN /\ drafted' = [query |-> NoQuery, error |-> "chain_did_not_reach_draft"]
            /\ stage' = "drafted" /\ UNCHANGED prompted
       ELSE prompted' = p /\ stage' = "assembled" /\ UNCHANGED drafted
  /\ UNCHANGED <<instance, pipeline, schema, selected, measured>>

\* The reader answers, with a query or something that is none, or raises.
DraftQuery ==
  /\ stage = "assembled"
  /\ \/ \E q \in Drafts \cup {NoQuery} : drafted' = [query |-> q, error |-> ""]
     \/ drafted' = [query |-> NoQuery, error |-> "reader raised"]
  /\ stage' = "drafted"
  /\ UNCHANGED <<instance, pipeline, schema, selected, prompted, measured>>

-----------------------------------------------------------------------------
(* execute_sql *)
Tables(i) == {c[1] : c \in ToSet(i.columns)}

\* The tables of the query a column name can come from.
Sources(i, q, c) ==
  {k \in DOMAIN q.from : /\ c[1] \in {"", q.from[k].alias}
                         /\ <<q.from[k].table, c[2]>> \in ToSet(i.columns)}

\* What the database says of it; "" if it runs.  Setting the database up may
\* fail already, with a message of the same kinds.
Complaint(i, q) ==
  IF i.setup # "" THEN i.setup
  ELSE IF q.form = "unparsable" THEN "syntax"
  ELSE IF \E k \in DOMAIN q.from : q.from[k].table \notin Tables(i) THEN "no such"
  ELSE IF \E c \in q.cols : Sources(i, q, c) = {} THEN "no such"
  ELSE IF \E c \in q.cols : Cardinality(Sources(i, q, c)) > 1 THEN "other"
  ELSE ""

\* No query at all runs, and finds nothing; one that does not run has no rows.
Executions(i, q) ==
  IF Complaint(i, q) # "" THEN {[rows |-> <<>>, error |-> Complaint(i, q)]}
  ELSE IF q.form = "none" THEN {[rows |-> <<>>, error |-> ""]}
  ELSE {[rows |-> r, error |-> ""] : r \in Found}

\* result_sets_equal: the same rows as often, whatever the order of the rows
\* and of the cells in each.
ResultSetsEqual(ran, gold) ==
  LET times(x, s) == Cardinality({k \in DOMAIN s : s[k] = x})
      cells(r) == [x \in ToSet(r) |-> times(x, r)]
      rows(s) == [k \in DOMAIN s |-> cells(s[k])]
  IN  /\ ran.error = "" /\ Len(ran.rows) = Len(gold)
      /\ \A k \in DOMAIN gold : times(cells(gold[k]), rows(ran.rows)) = times(cells(gold[k]), rows(gold))

-----------------------------------------------------------------------------
(* parse_sql, and the detectors of the taxonomy over an outcome *)

\* Of tables separated by commas the regular expression sees the first.
Parsed(q) ==
  [tables  |-> {q.from[k].table : k \in {j \in DOMAIN q.from : q.joined \/ j = 1}},
   columns |-> {c \in q.cols : c[1] # ""},
   join    |-> q.joined /\ Len(q.from) > 1,
   where   |-> q.where, group |-> q.group, having |-> q.having]

detect_syntax_error(o) == o.query.form = "none" \/ o.error = "syntax"

NamesUnknown(o) ==
  ~(o.pred.tables \subseteq {c[1] : c \in o.columns} /\ o.pred.columns \subseteq o.columns)

detect_schema_misunderstanding(o) ==
  ~o.correct /\ o.query.form # "none" /\ (NamesUnknown(o) \/ o.error = "no such")

detect_wrong_aggregation(o) ==
  ~o.correct /\ o.query.form # "none" /\ o.pred.group # o.gold.group

\* Mutant: with a join on both sides the tables are not compared.
JoinOnOneSide(o) == ~o.correct /\ o.query.form # "none" /\ o.pred.join # o.gold.join

detect_wrong_join(o) ==
  /\ ~o.correct /\ o.query.form # "none"
  /\ o.pred.join # o.gold.join \/ (o.pred.join /\ o.pred.tables # o.gold.tables)

detect_wrong_filter(o) ==
  ~o.correct /\ o.query.form # "none" /\ (o.pred.where # o.gold.where \/ o.pred.having # o.gold.having)

detect_executable_but_wrong(o) ==
  /\ ~o.correct /\ o.error = "" /\ o.query.form # "none"
  /\ ~detect_schema_misunderstanding(o) /\ ~detect_wrong_aggregation(o)
  /\ ~detect_wrong_join(o) /\ ~detect_wrong_filter(o)

SqlClassify(o) ==
  IF detect_syntax_error(o) THEN "syntax-error"
  ELSE IF detect_schema_misunderstanding(o) THEN "schema-misunderstanding"
  ELSE IF detect_wrong_aggregation(o) THEN "wrong-aggregation"
  ELSE IF detect_wrong_join(o) THEN "wrong-join"
  ELSE IF detect_wrong_filter(o) THEN "wrong-filter"
  ELSE IF detect_executable_but_wrong(o) THEN "executable-but-wrong"
  ELSE "unclassified"

SqlOutcome(i, d, ran) ==
  [query |-> d.query, error |-> ran.error, correct |-> ResultSetsEqual(ran, i.rows),
   columns |-> ToSet(i.columns), pred |-> Parsed(d.query), gold |-> Parsed(i.gold)]

Measure ==
  /\ stage = "drafted"
  /\ \E ran \in Executions(instance, drafted.query) :
       \E o \in {SqlOutcome(instance, drafted, ran)} :
         measured' = [correct |-> o.correct, ran |-> ran, regime |-> SqlClassify(o)]
  /\ stage' = "measured"
  /\ UNCHANGED <<instance, pipeline, schema, selected, prompted, drafted>>

SqlNext == EncodeSchema \/ ScoreColumns \/ PromptPipeline \/ DraftQuery \/ Measure

SqlSpec == SqlInit /\ [][SqlNext]_sqlVars

-----------------------------------------------------------------------------
\* A query that did not run is never right, and a question without a query is
\* right only if the right answer is nothing (execute_sql, result_sets_equal).
ErrorsAreNeverRight ==
  measured.correct =>
    /\ measured.ran.error = ""
    /\ drafted.query.form # "none" \/ instance.rows = <<>>

\* What a failure is blamed on is so: executable-but-wrong has run and differs
\* from the gold in no clause and, where it joins, in no table; an unknown
\* name is blamed only if the query, written without aliases, has one; and a
\* query the database refuses for a name is blamed on nothing else
\* (the detectors' docstrings).
BlameFollowsTheQuery ==
  ~measured.correct /\ instance.setup = "" =>
    LET q == drafted.query  g == instance.gold
        unknown == \/ \E k \in DOMAIN q.from : q.from[k].table \notin Tables(instance)
                   \/ \E c \in q.cols : Sources(instance, q, c) = {}
        plain == \A k \in DOMAIN q.from : q.from[k].alias = q.from[k].table
    IN  /\ measured.regime = "executable-but-wrong" =>
             /\ q.form = "select" /\ measured.ran.error = ""
             /\ <<q.where, q.group, q.having>> = <<g.where, g.group, g.having>>
             /\ Parsed(q).join => {f.table : f \in ToSet(q.from)} = {f.table : f \in ToSet(g.from)}
        /\ measured.regime = "schema-misunderstanding" /\ plain => unknown
        /\ q.form = "select" /\ unknown => measured.regime = "schema-misunderstanding"

\* What is measured of a question follows from the query that was drafted.
MeasuredFollowsTheQuery ==
  stage = "measured" => ErrorsAreNeverRight /\ BlameFollowsTheQuery
=============================================================================
