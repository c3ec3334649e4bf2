------------------------------- MODULE KbTools -------------------------------
(***************************************************************************)
(* The tools over one bundle and its agent model: authors edit files and   *)
(* history, agents append to the history, and one tool at a time, the      *)
(* repair or the compiler, runs over what it finds.  A bundle of the       *)
(* format's first version is migrated before any of that.                  *)
(***************************************************************************)
EXTENDS Compiler, Repair, Migration

CONSTANT MaxWork  \* bound: relations declared, edits and appends together

vars == <<bundleVars, logVars, compileVars, repairVars, migrationVars>>

Declarations == Cardinality(UNION {{i} \X (bundle[i].front \cup bundle[i].body) : i \in DOMAIN bundle})
Repairing == repair.pc \in {"body", "evidence", "inverse"}
Compiling == compile.pc # "idle"
AtRest == ~Repairing /\ ~Compiling /\ InProgress = {}

\* There is a bundle for the tools, or one to migrate.
Init ==
  /\ \/ BundleInit /\ NoLegacy
     \/ NoBundle /\ MigrationInit
  /\ LogInit /\ CompileInit /\ RepairInit

\* Room for one more relation, edit or record.
Spare == edits + Declarations + begun < MaxWork

Authors ==
  /\ Spare
  /\ \/ /\ \E i \in DOMAIN bundle, d \in Edited : Edit(i, d)
        /\ UNCHANGED logVars
     \/ /\ repair.pc = "idle"
        /\ \E op \in Operator : AuthorRecord(op)
        /\ UNCHANGED bundleVars
  /\ UNCHANGED <<compileVars, repairVars>>

Agents ==
  /\ repair.pc = "idle"
  /\ \E w \in Writer : \/ Spare /\ \E op \in Operator : ReadAndNumber(w, op)
                       \/ OpenLog(w)
                       \/ WriteText(w)
                       \/ StopWriter(w)
  /\ UNCHANGED <<bundleVars, compileVars, repairVars>>

Compilations ==
  /\ ~Repairing
  /\ CompileNext
  /\ UNCHANGED <<bundleVars, logVars, repairVars>>

\* The repair neither reads nor writes the history: it runs before there is one.
Repairs ==
  /\ ~Compiling
  /\ begun = 0
  /\ RepairNext
  /\ UNCHANGED <<logVars, compileVars>>

\* A behaviour ends when a compilation has written its output.
Next ==
  \/ /\ pages = <<>> /\ output.pc = "idle"
     /\ Authors \/ Agents \/ Compilations \/ Repairs
     /\ UNCHANGED migrationVars
  \/ /\ pages # <<>>
     /\ MigrationNext
     /\ UNCHANGED <<bundleVars, logVars, compileVars, repairVars>>

Spec == Init /\ [][Next]_vars

\* The search of both cycle detectors is exact: lint reports a concept cycle
\* just when a concept leads to one, and names nodes that are on one.
CyclesFound ==
  AtRest =>
    LET g == Load(bundle)
        issues == CycleIssues(g)
        reaches == Reaches(Edges(g))
        cyclic == {n \in Name : <<n, n>> \in reaches}
        ahead == {n \in Name : \E c \in OfKind(g, "concept") : c = n \/ <<c, n>> \in reaches}
    IN  /\ issues \subseteq cyclic
        /\ issues = {} <=> cyclic \cap ahead = {}

\* Where lint reports no dangling reference, the graph the agents work on has
\* every relation a concept declares, between the nodes the names mean.
CleanLintLosesNothing ==
  AtRest =>
    LET g == Load(bundle) IN
    "dangling_reference" \notin LintCodes(g) =>
      \A n \in OfKind(g, "concept"), rel \in Relations : \A m \in Raw(g, n, rel) :
        \E r \in Populated(g) : {r[2], r[3]} = {n, g.means[m]}

\* Whether a bundle is valid does not depend on the order in which the file
\* system lists it, unless a file's id is the stem of another.
VerdictIgnoresOrder ==
  AtRest /\ (\A i, j \in DOMAIN bundle : i # j => bundle[i].id # bundle[j].stem)
    => \A p, q \in Orders : IsValid(bundle, p) = IsValid(bundle, q)

\* What lint and the validator say of a bundle at rest is so, and a bundle
\* that passed a strict compilation has a study order.
ChecksAreExact ==
  CyclesFound /\ CleanLintLosesNothing /\ VerdictIgnoresOrder /\ StrictOutputIsOrdered
=============================================================================
