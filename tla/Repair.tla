------------------------------- MODULE Repair --------------------------------
(***************************************************************************)
(* okf_repair: three passes over a bundle, each writing one file after     *)
(* another.  The last two work from a graph loaded before their first      *)
(* write, and read each file again before they rewrite it.  Nothing keeps  *)
(* the author from editing meanwhile, and a pass that raises leaves what   *)
(* it has written.                                                         *)
(***************************************************************************)
EXTENDS Bundle

CONSTANTS
  BodyEdits,  \* the list of corrections: [file, old, new]
  Letters     \* what a name taken for a list of letters falls apart into

ASSUME RepairAssumption ==
  /\ BodyEdits \in Seq([file : Nat, old : Declaration, new : Declaration])
  /\ Letters \subseteq Name

VARIABLE repair  \* [pc, k, seen, todo, edits, wrote]

repairVars == <<repair>>

\* seen is the bundle as the pass loaded it, todo the nodes it has left to
\* write, edits how often the author had edited when the repair began.
NoRepair == [pc |-> "idle", k |-> 0, seen |-> <<>>, todo |-> {}, edits |-> 0]

RepairInit == repair = NoRepair

StartRepair ==
  /\ repair.pc \in {"idle", "done", "raised"}
  /\ repair' = [NoRepair EXCEPT !.pc = "body", !.k = 1, !.edits = edits]
  /\ UNCHANGED bundleVars

-----------------------------------------------------------------------------
(* _apply_body_edits *)

\* A correction is made, or had been made; one that fits neither way raises.
ApplyBodyEdit ==
  LET e == BodyEdits[repair.k] body == bundle[e.file].body IN
  /\ repair.pc = "body"
  /\ repair.k <= Len(BodyEdits)
  /\ IF e.old \in body
     THEN /\ bundle' = [bundle EXCEPT ![e.file].body = (@ \ {e.old}) \cup {e.new}]
          /\ repair' = [repair EXCEPT !.k = @ + 1]
     ELSE /\ repair' = IF e.new \in body THEN [repair EXCEPT !.k = @ + 1]
                       ELSE [repair EXCEPT !.pc = "raised"]
          /\ UNCHANGED bundle
  /\ UNCHANGED edits

\* The graph is loaded for the next pass, which then has these nodes to do.
LoadForEvidence ==
  /\ repair.pc = "body"
  /\ repair.k > Len(BodyEdits)
  /\ repair' = [repair EXCEPT !.pc = "evidence", !.seen = bundle, !.todo = Unsupported(Load(bundle))]
  /\ UNCHANGED bundleVars

\* _apply_evidence, for one node: a file whose sources key holds anything is
\* left alone, whether or not that names a resource.  Behind an empty key a
\* second one is appended, and YAML reads the later.
AddEvidence(n) ==
  LET i == Load(repair.seen).path[n] IN
  /\ repair.pc = "evidence"
  /\ n \in repair.todo
  /\ bundle' = IF bundle[i].sources = "absent" THEN [bundle EXCEPT ![i].sources = "cited"] ELSE bundle
  /\ repair' = [repair EXCEPT !.todo = @ \ {n}]
  /\ UNCHANGED edits

\* The nodes that have declarations to take over: <<who, what, about whom>>.
LoadForInverse ==
  /\ repair.pc = "evidence"
  /\ repair.todo = {}
  /\ repair' = [repair EXCEPT !.pc = "inverse", !.seen = bundle,
                              !.todo = {u[1] : u \in Unmirrored(Load(bundle))}]
  /\ UNCHANGED bundleVars

\* What a node is given to declare.  The first form copies the declaration as
\* it stands on the other side instead of its inverse.
CopiedFor(n) == {<<IF u[2] = "prerequisites" THEN "prerequisite_of" ELSE "prerequisites", u[3]>> :
                   u \in {v \in Unmirrored(Load(repair.seen)) : v[1] = n}}
MirroredFor(n) == {<<u[2], u[3]>> : u \in {v \in Unmirrored(Load(repair.seen)) : v[1] = n}}

\* set(fm.get(key) or ()): what the frontmatter holds under a key that is given
\* more.  One string is taken for the set of its letters.
Existing(f, rel) ==
  IF rel \in f.bare THEN {rel} \X Letters ELSE {d \in f.front : d[1] = rel}

\* _apply_inverse, for one node: what the file lacks is merged into its
\* frontmatter as it is now, key by key.  It would raise at a file without
\* frontmatter; a concept has its type from there, and an author's Edit takes
\* no frontmatter away.
Mirror(n) ==
  LET i == Load(repair.seen).path[n]
      f == bundle[i]
      fresh == {d \in MirroredFor(n) : d \notin Existing(f, d[1])}
      keys == {d[1] : d \in fresh}
  IN
  /\ repair.pc = "inverse"
  /\ n \in repair.todo
  /\ bundle' = [bundle EXCEPT ![i] =
       [f EXCEPT !.front = {d \in @ : d[1] \notin keys} \cup (UNION {Existing(f, key) : key \in keys}) \cup fresh,
                 !.bare = @ \ keys]]
  /\ repair' = [repair EXCEPT !.todo = @ \ {n}]
  /\ UNCHANGED edits

FinishRepair ==
  /\ repair.pc = "inverse"
  /\ repair.todo = {}
  /\ repair' = [repair EXCEPT !.pc = "done"]
  /\ UNCHANGED bundleVars

\* The process is stopped: what was written stays.
StopRepair ==
  /\ repair.pc \in {"body", "evidence", "inverse"}
  /\ repair' = [NoRepair EXCEPT !.pc = "raised"]
  /\ UNCHANGED bundleVars

RepairNext ==
  \/ StartRepair
  \/ ApplyBodyEdit
  \/ LoadForEvidence
  \/ \E n \in repair.todo : AddEvidence(n) \/ Mirror(n)
  \/ LoadForInverse
  \/ FinishRepair
  \/ StopRepair

\* The repair beside an author at work.
RepairSpec ==
  /\ RepairInit /\ BundleInit
  /\ [][\/ RepairNext
        \/ (\E i \in DOMAIN bundle, d \in Edited : Edit(i, d)) /\ UNCHANGED repairVars
       ]_<<bundleVars, repairVars>>

-----------------------------------------------------------------------------
\* When a repair nobody disturbed ends, no relation is declared on one side
\* only, and the nodes without evidence are those whose sources key is not
\* empty but names none; however often it was stopped before, and whatever the
\* author edited before.
RepairedIsMirrored ==
  repair.pc = "done" /\ repair.edits = edits =>
    /\ Unmirrored(Load(bundle)) = {}
    /\ \A n \in Unsupported(Load(bundle)) : Load(bundle).nodes[n].sources = "unusable"

\* The passes after the body edits say again what the bundle said when they
\* loaded it: they add no dependency between nodes, so no cycle either.
MirrorsAddNoEdge ==
  repair.pc \in {"evidence", "inverse"} =>
    Edges(Load(bundle')) \subseteq Edges(Load(bundle)) \cup Edges(Load(repair.seen))

\* A repair takes back nothing anybody has declared, but for the corrections
\* it was given: in particular not what the author adds while it runs.
KeepsDeclarations ==
  \A i \in DOMAIN bundle :
    (bundle[i].front \cup bundle[i].body) \ (bundle'[i].front \cup bundle'[i].body)
      \subseteq {BodyEdits[k].old : k \in DOMAIN BodyEdits}

\* A repair ends with everything mirrored, and on its way only adds to the
\* bundle, and to the graph only the other side of what is declared.
RepairOnlyMirrors ==
  [][/\ edits' = edits => MirrorsAddNoEdge /\ KeepsDeclarations
     /\ RepairedIsMirrored']_<<bundleVars, repairVars>>
=============================================================================
