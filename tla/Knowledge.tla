------------------------------ MODULE Knowledge ------------------------------
(***************************************************************************)
(* A knowledge bundle as its readers see it: the graph                     *)
(* load_knowledge_graph builds from the files, the detectors of            *)
(* lint_knowledge_graph over it, the objects populate_graph derives from   *)
(* it, and the verdict of OKFValidator over the same files.                *)
(*                                                                         *)
(* A bundle is the sequence of its files in path order.  A file keeps what *)
(* the readers extract from its text: [id, stem, kinds, front, bare, body, *)
(* sources, triggers, schemas, noise], where front and body are the        *)
(* declarations <<relation, name>> of its frontmatter and of its           *)
(* relationship blocks, and bare the relations whose frontmatter value is  *)
(* one string and no list.  A block may be headed by any word: "other" is  *)
(* every one but the four relations.  sources is "absent" when there is no *)
(* such key or it is empty, "unusable" when what it holds names no         *)
(* resource.  Cutting the text up (regular expressions,      *)
(* parentheticals, links) is abstracted to those sets.                     *)
(***************************************************************************)
EXTENDS Naturals, Sequences, FiniteSets, SequencesExt

CONSTANTS
  Name,          \* what a reference can say: ids, file stems, dotted names
  LastSegment,   \* [Name -> Name]: the part after the last dot
  FirstSegment,  \* [Name -> Name]: the part before the last dot
  NoNode         \* "resolves to nothing"

ASSUME NameAssumption ==
  /\ LastSegment \in [Name -> Name]
  /\ FirstSegment \in [Name -> Name]
  /\ NoNode \notin Name

Relations == {"prerequisites", "composed_of", "prerequisite_of", "contradicts"}
Declaration == Relations \X Name
BodyDeclaration == (Relations \cup {"other"}) \X Name
Kind == {"concept", "rule", "schema"}

File == [id : Name, stem : Name, kinds : SUBSET Kind, front : SUBSET Declaration,
         bare : SUBSET Relations, body : SUBSET BodyDeclaration,
         sources : {"absent", "unusable", "cited"}, triggers : SUBSET Name,
         schemas : SUBSET Name, noise : BOOLEAN]

-----------------------------------------------------------------------------
(* load_knowledge_graph *)

\* The first file of an id becomes the node; later ones are passed over, also
\* when it comes to which node owns a stem.
Kept(files) == {i \in DOMAIN files : \A j \in 1 .. (i - 1) : files[j].id # files[i].id}
First(I) == CHOOSE i \in I : \A j \in I : i <= j

\* The graph: the nodes, the file each was read from, and what each name means:
\* a node, else the owner of that stem, else the owner of its last segment.
Load(files) ==
  LET kept == Kept(files)
      ids == {files[i].id : i \in kept}
      stems == {files[i].stem : i \in kept}
      path == [n \in ids |-> CHOOSE i \in kept : files[i].id = n]
      owner == [s \in stems |-> files[First({i \in kept : files[i].stem = s})].id]
  IN  [path  |-> path,
       nodes |-> [n \in ids |-> files[path[n]]],
       means |-> [m \in Name |-> IF m \in ids THEN m
                                 ELSE IF m \in stems THEN owner[m]
                                 ELSE IF LastSegment[m] \in stems THEN owner[LastSegment[m]]
                                 ELSE NoNode]]

Ids(g) == DOMAIN g.nodes

\* Frontmatter declarations are merged into those of the body.
Raw(g, n, rel) == {m \in Name : <<rel, m>> \in g.nodes[n].front \cup g.nodes[n].body}
Mentioned(g, n) == {d[2] : d \in g.nodes[n].front \cup g.nodes[n].body}
Related(g, n, rel) == {g.means[m] : m \in Raw(g, n, rel)} \ {NoNode}
OfKind(g, kind) == {n \in Ids(g) : kind \in g.nodes[n].kinds}

-----------------------------------------------------------------------------
(* The detectors, each as the set of its issues <<code, node, about>> *)

\* _concept_edges: what comes first points at what needs it.
Edges(g) ==
  UNION {   ((Related(g, n, "prerequisites") \cup Related(g, n, "composed_of")) \X {n})
       \cup ({n} \X Related(g, n, "prerequisite_of")) : n \in Ids(g)}

\* A node whose search has ended is not on the stack any more; the second form
\* forgets to take it off.
OnPathOrDone(s, n) == n \in s.visited
OnPath(s, n) == \E k \in DOMAIN s.path : s.path[k].node = n

\* The depth-first search both cycle detectors run, with the call stack made
\* explicit: a frame is a node and the neighbours still to look at.  found are
\* the nodes a search met again on its stack.
Search(nbrs, roots) ==
  LET enter(s, n) == [s EXCEPT !.visited = @ \cup {n},
                               !.path = Append(@, [node |-> n, rest |-> nbrs[n]])]
      look(s, n) == IF n \notin s.visited THEN enter(s, n)
                    ELSE IF OnPath(s, n) THEN [s EXCEPT !.found = @ \cup {n}] ELSE s
      step(s) ==
        IF s.path = <<>>
        THEN LET n == Head(s.roots) t == [s EXCEPT !.roots = Tail(@)]
             IN  IF n \in s.visited THEN t ELSE enter(t, n)
        ELSE LET k == Len(s.path) rest == s.path[k].rest
             IN  IF rest = <<>> THEN [s EXCEPT !.path = Front(@)]
                 ELSE look([s EXCEPT !.path[k].rest = Tail(rest)], Head(rest))
      run[s \in [roots : Seq(Name), visited : SUBSET Name,
                 path : Seq([node : Name, rest : Seq(Name)]), found : SUBSET Name]] ==
        IF s.roots = <<>> /\ s.path = <<>> THEN s.found ELSE run[step(s)]
  IN  run[[roots |-> roots, visited |-> {}, path |-> <<>>, found |-> {}]]

Neighbours(edges) == [n \in Name |-> SetToSeq({m \in Name : <<n, m>> \in edges})]

\* cyclic_concept_detector starts from the concepts only.
CycleIssues(g) == Search(Neighbours(Edges(g)), SetToSeq(OfKind(g, "concept")))

OrphanIssues(g) ==
  LET own == [n \in Ids(g) |-> UNION {Related(g, n, r) : r \in Relations \ {"contradicts"}}]
  IN  {n \in OfKind(g, "concept") : own[n] = {} /\ \A m \in Ids(g) : n \notin own[m]}

\* One-sided declarations between concepts: <<who must say it, what, of whom>>.
Unmirrored(g) ==
  LET c == OfKind(g, "concept")
      says(x, rel, y) == y \in Related(g, x, rel)
  IN     {<<p[2], "prerequisites", p[1]>> : p \in
            {q \in c \X c : says(q[1], "prerequisite_of", q[2]) /\ ~says(q[2], "prerequisites", q[1])}}
    \cup {<<p[2], "prerequisite_of", p[1]>> : p \in
            {q \in c \X c : says(q[1], "prerequisites", q[2]) /\ ~says(q[2], "prerequisite_of", q[1])}}

\* The raw references that mean nothing, under whatever heading.
DanglingIssues(g) == {p \in Ids(g) \X Name : g.means[p[2]] = NoNode /\ p[2] \in Mentioned(g, p[1])}

SchemaIssues(g) ==
  {p \in OfKind(g, "rule") \X Name :
     p[2] \in g.nodes[p[1]].schemas /\ g.means[p[2]] \notin OfKind(g, "schema")}

\* A phrase several concepts own; the issue is put on the first of them.
TriggerIssues(g) ==
  {t \in Name : Cardinality({n \in OfKind(g, "concept") : t \in g.nodes[n].triggers}) > 1}

NoiseIssues(g) == {n \in Ids(g) : g.nodes[n].noise}

Unsupported(g) ==
  {n \in OfKind(g, "concept") \cup OfKind(g, "rule") : g.nodes[n].sources # "cited"}

\* The codes lint_knowledge_graph reports.
LintCodes(g) ==
  LET on(code, issues) == IF issues = {} THEN {} ELSE {code} IN
  on("cyclic_concept", CycleIssues(g)) \cup on("inverse_relationship", Unmirrored(g))
    \cup on("dangling_reference", DanglingIssues(g)) \cup on("relationship_noise", NoiseIssues(g))
    \cup on("concept_orphan", OrphanIssues(g)) \cup on("rule_schema_reference", SchemaIssues(g))
    \cup on("ambiguous_trigger", TriggerIssues(g)) \cup on("missing_evidence", Unsupported(g))

-----------------------------------------------------------------------------
(* populate_graph: the relations <<type, from, to>> between loaded nodes *)

Populated(g) ==
  LET c == OfKind(g, "concept")
      child(p) == \/ p[2] \in c /\ p[1] \in Related(g, p[2], "prerequisites")
                  \/ p[1] \in c /\ p[2] \in Related(g, p[1], "composed_of")
                  \/ p[1] \in c /\ p[2] \in Related(g, p[1], "prerequisite_of")
      schema(p) == p[2] \in {g.means[m] : m \in g.nodes[p[1]].schemas}
      contradicts(p) == p[2] \in Related(g, p[1], "contradicts")
      type(n) == IF n \in c THEN "maps_to"
                 ELSE IF n \in OfKind(g, "rule") THEN "rule_references_schema" ELSE "references"
      pairs == Ids(g) \X Ids(g)
  IN     {<<"concept_child", p[1], p[2]>> : p \in {q \in pairs : child(q)}}
    \cup {<<type(p[1]), p[1], p[2]>> : p \in {q \in pairs : schema(q)}}
    \cup {<<"contradicts", p[1], p[2]>> : p \in {q \in pairs : contradicts(q)}}

-----------------------------------------------------------------------------
(* OKFValidator.run_validation, over the files in the order rglob lists them *)

\* A file collides when its id is already known, as an id or as a stem.
Collides(files, order, k) ==
  \E j \in 1 .. (k - 1) :
    files[order[k]].id \in {files[order[j]].id, files[order[j]].stem}

Known(files) == {files[i].id : i \in DOMAIN files} \cup {files[i].stem : i \in DOMAIN files}

\* Only frontmatter relations are looked at, and prerequisite_of is not one.
Targets(files, i) ==
  {d[2] : d \in {e \in files[i].front : e[1] \in {"prerequisites", "composed_of", "contradicts"}}}

Unlocated(files) ==
  {p \in (DOMAIN files) \X Name :
     p[2] \in Targets(files, p[1]) /\ p[2] \notin Known(files) /\ FirstSegment[p[2]] \notin Known(files)}

\* The graph of the validator: raw names, the last file of an id wins.
Depends(files, order) ==
  [n \in Name |->
    LET ks == {k \in DOMAIN order : files[order[k]].id = n} IN
    IF ks = {} THEN <<>>
    ELSE LET f == files[order[CHOOSE k \in ks : \A l \in ks : l <= k]]
         IN  SetToSeq({m \in Name : \E rel \in {"prerequisites", "composed_of"} :
                                      <<rel, m>> \in f.front})]

CircularDeps(files, order) ==
  Search(Depends(files, order), [k \in DOMAIN order |-> files[order[k]].id])

IsValid(files, order) ==
  /\ \A k \in DOMAIN order : ~Collides(files, order, k)
  /\ Unlocated(files) = {}
  /\ CircularDeps(files, order) = {}

-----------------------------------------------------------------------------
(* What the definitions above are measured against *)

\* The transitive closure, by Warshall's algorithm.
Reaches(edges) ==
  FoldSet(LAMBDA m, known : known \cup {p \in Name \X Name : <<p[1], m>> \in known /\ <<m, p[2]>> \in known},
          edges, Name)

OnCycle(edges) == {n \in Name : <<n, n>> \in Reaches(edges)}
=============================================================================
