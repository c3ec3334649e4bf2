------------------------------ MODULE Compiler -------------------------------
(***************************************************************************)
(* OKFCompiler: validate the bundle, build the intermediate graph from its *)
(* frontmatter, replay the history on it, write the result.  The history   *)
(* is read after the files, while others append to it.                     *)
(***************************************************************************)
EXTENDS Bundle, HistoryLog

VARIABLES
  compile,  \* the compilation in progress
  output    \* the graph last written to behaviors.yaml, with how it came about

compileVars == <<compile, output>>

Status == {"draft", "deprecated", "merged", "mastered"}
Node == [pre : SUBSET Name, comp : SUBSET Name, status : Status]
NoGraph == [n \in {} |-> {}]
NoCompile == [pc |-> "idle", strict |-> FALSE, base |-> NoGraph, ir |-> NoGraph,
              ops |-> <<>>, k |-> 0]

CompileInit ==
  /\ compile = NoCompile
  /\ output = NoCompile

\* The file that defines a node: add_node keeps the one listed last.
Defining(order, n) ==
  LET ks == {k \in DOMAIN order : bundle[order[k]].id = n}
  IN  bundle[order[CHOOSE k \in ks : \A l \in ks : l <= k]]

Declared(f, rel) == {m \in Name : <<rel, m>> \in f.front}

Ingest(order) ==
  [n \in {f.id : f \in Range(bundle)} |->
     LET f == Defining(order, n) IN
       [pre |-> Declared(f, "prerequisites"), comp |-> Declared(f, "composed_of"), status |-> "draft"]]

-----------------------------------------------------------------------------
(* The history operators *)

\* The first form leaves the parts of composites alone.
RenamedPre(node, old, new) ==
  [node EXCEPT !.pre = IF old \in @ THEN (@ \ {old}) \cup {new} ELSE @]
Renamed(node, old, new) ==
  [node EXCEPT !.pre = IF old \in @ THEN (@ \ {old}) \cup {new} ELSE @,
               !.comp = IF old \in @ THEN (@ \ {old}) \cup {new} ELSE @]

\* The node moves to its new id, over whatever was there, and every reference
\* follows it.
Rename(ir, old, new) ==
  IF old \notin DOMAIN ir THEN ir
  ELSE [n \in (DOMAIN ir \ {old}) \cup {new} |->
          Renamed(IF n = new THEN ir[old] ELSE ir[n], old, new)]

\* The sources are marked; a target that exists takes over what they need.
\* References to the sources are left as they are.
Merge(ir, sources, target) ==
  LET from == sources \cap DOMAIN ir
      merged(n) == IF n \in from THEN "merged" ELSE ir[n].status
  IN  [n \in DOMAIN ir |->
        IF n = target
        THEN [pre |-> ir[n].pre \cup UNION {ir[s].pre : s \in from},
              comp |-> ir[n].comp \cup UNION {ir[s].comp : s \in from}, status |-> merged(n)]
        ELSE [ir[n] EXCEPT !.status = merged(n)]]

\* A target split into new nodes is deprecated.
Split(ir, target) == [n \in DOMAIN ir |-> IF n = target THEN [ir[n] EXCEPT !.status = "deprecated"] ELSE ir[n]]

Reorder(ir, target, pre) == [n \in DOMAIN ir |-> IF n = target THEN [ir[n] EXCEPT !.pre = pre] ELSE ir[n]]

UpdateStatus(ir, target) == [n \in DOMAIN ir |-> IF n = target THEN [ir[n] EXCEPT !.status = "mastered"] ELSE ir[n]]

\* apply_to_ir knows five operators by name and passes over the others, which
\* are all those of append_operator but RENAME.
Applied(ir, op) ==
  CASE op.op = "SPLIT" -> Split(ir, op.target)
    [] op.op = "MERGE" -> Merge(ir, op.sources, op.target)
    [] op.op = "RENAME" -> Rename(ir, op.old, op.target)
    [] op.op = "REORDER" -> Reorder(ir, op.target, op.sources)
    [] op.op = "UPDATE_STATUS" -> UpdateStatus(ir, op.target)
    [] OTHER -> ir

-----------------------------------------------------------------------------
(* compile *)

\* Steps 1 and 2: one reading of the files serves the validation and the graph.
ValidateAndIngest(strict, order) ==
  /\ compile.pc = "idle"
  /\ output.pc = "idle"
  /\ strict => IsValid(bundle, order)
  /\ compile' = [NoCompile EXCEPT !.pc = "ingested", !.strict = strict,
                                  !.base = Ingest(order), !.ir = Ingest(order)]
  /\ UNCHANGED output

\* _load_history.  A file that does not parse counts as no history.
LoadHistory ==
  /\ compile.pc = "ingested"
  /\ \E seen \in (IF torn THEN {<<>>} ELSE Visible) \cup (IF Writing = {} THEN {} ELSE {<<>>}) :
       compile' = [compile EXCEPT !.pc = "applying", !.k = 1,
                                  !.ops = [i \in DOMAIN seen |-> seen[i].op]]
  /\ UNCHANGED output

ApplyOperator ==
  /\ compile.pc = "applying"
  /\ compile.k <= Len(compile.ops)
  /\ compile' = [compile EXCEPT !.ir = Applied(@, compile.ops[compile.k]), !.k = @ + 1]
  /\ UNCHANGED output

WriteBehaviors ==
  /\ compile.pc = "applying"
  /\ compile.k > Len(compile.ops)
  /\ output' = [compile EXCEPT !.pc = "written"]
  /\ compile' = NoCompile

Orders == {p \in [DOMAIN bundle -> DOMAIN bundle] : Range(p) = DOMAIN bundle}

CompileNext ==
  \/ \E strict \in BOOLEAN, order \in Orders : ValidateAndIngest(strict, order)
  \/ LoadHistory
  \/ ApplyOperator
  \/ WriteBehaviors

\* The files and the history may change at any time.
CompilerSpec == CompileInit /\ [][CompileNext]_compileVars

-----------------------------------------------------------------------------
Closed(ir) == \A n \in DOMAIN ir : ir[n].pre \cup ir[n].comp \subseteq DOMAIN ir

Past(c) == {c.ops[i] : i \in 1 .. (c.k - 1)}

\* However many operators have been replayed, and wherever a rename lands, a
\* graph whose references all name nodes keeps that, REORDER aside, which puts
\* in whatever names the record holds.
StaysClosed(c) ==
  Closed(c.base) /\ (\A op \in Past(c) : op.op # "REORDER") => Closed(c.ir)
HistoryKeepsReferences == StaysClosed(compile) /\ StaysClosed(output)

\* The order in which things must come, in the graph being compiled.
Needs(ir) == {e \in Name \X DOMAIN ir : e[1] \in ir[e[2]].pre \cup ir[e[2]].comp}
Used(ir) == DOMAIN ir \cup UNION {ir[n].pre \cup ir[n].comp : n \in DOMAIN ir}

\* Operators that cannot close a cycle: neither a merge nor a new list of
\* prerequisites, and renames to names nothing uses.
Harmless(c) ==
  \A i \in 1 .. (c.k - 1) :
    /\ c.ops[i].op \notin {"MERGE", "REORDER"}
    /\ c.ops[i].op = "RENAME" =>
         c.ops[i].target \notin Used(c.base) \cup {c.ops[j].target : j \in 1 .. (i - 1)}

\* What a strict compilation writes has a study order: the validator's search
\* found every cycle among the files, and a harmless history closes none.
StrictIsOrdered(c) == c.strict /\ Harmless(c) => OnCycle(Needs(c.ir)) = {}
StrictOutputIsOrdered == StrictIsOrdered(compile) /\ StrictIsOrdered(output)
=============================================================================
