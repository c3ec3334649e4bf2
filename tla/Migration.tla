------------------------------ MODULE Migration ------------------------------
(***************************************************************************)
(* okf_validate --migrate: the pages of a v0.1 bundle are rewritten to     *)
(* v0.2, one file after another and in place; it may be stopped at any     *)
(* point and run again.  The validator then judges what is there.          *)
(*                                                                         *)
(* A page is [role, front, keys, body]: front tells what the YAML parser   *)
(* makes of the frontmatter, keys are its top-level keys in order with     *)
(* their values, body its sections in order, each [head, items], where an  *)
(* item is [kind, id] with kind a bare link, a titled one, a text or a     *)
(* footnote reference.                                                     *)
(***************************************************************************)
EXTENDS Naturals, Sequences, FiniteSets, SequencesExt

CONSTANTS
  Legacy,   \* the v0.1 bundles a migration may start from
  MaxRuns   \* bound: times the migration is run

VARIABLES
  pages,      \* the files as they are, in path order
  origin,     \* the files before the first run
  migration   \* [pc, at, text, runs, lost]: where the run is, the text it is
              \* writing, how many runs there were, the files lost in a write

migrationVars == <<pages, origin, migration>>

Roles == {"page", "root index", "index", "log"}

\* "list" is YAML that is no mapping, "bad" no YAML; a mapping is written in
\* block or in flow style.
Fronts == {"none", "bad", "list", "block", "flow"}

HasKey(p, key) == \E i \in DOMAIN p.keys : p.keys[i].key = key
ValueOf(p, key) == p.keys[CHOOSE i \in DOMAIN p.keys : p.keys[i].key = key].value

\* The keys of a page and its sections are sequences of pairs; a file without
\* frontmatter has no keys.
IsPage(p) ==
  /\ p.role \in Roles /\ p.front \in Fronts
  /\ p = [role |-> p.role, front |-> p.front, keys |-> p.keys, body |-> p.body]
  /\ p.keys \in Seq(ToSet(p.keys)) /\ p.body \in Seq(ToSet(p.body))
  /\ \A i \in DOMAIN p.keys : p.keys[i] = [key |-> p.keys[i].key, value |-> p.keys[i].value]
  /\ p.front = "none" => p.keys = <<>>

\* The root index of a bundle of the first version names a version at most
\* once, and names no other than the two there are.
OneVersion(p) ==
  /\ \A i \in DOMAIN p.keys : p.keys[i].key = "okf_version" => p.keys[i].value \in {"0.1", "0.2"}
  /\ \A i, j \in DOMAIN p.keys : p.keys[i].key = "okf_version" /\ p.keys[j].key = "okf_version" => i = j

ASSUME MigrationAssumption ==
  /\ MaxRuns \in Nat
  /\ \A bundle \in Legacy :
       /\ bundle \in Seq(ToSet(bundle))
       /\ \A p \in ToSet(bundle) : IsPage(p) /\ (p.role = "root index" => OneVersion(p))

-----------------------------------------------------------------------------
(* migrate_text *)

\* OKF_VERSION_LINE finds a key at the start of a line, which is none in flow
\* style: the first 0.1 becomes 0.2.
Versioned(p) ==
  LET olds == {i \in DOMAIN p.keys : p.keys[i] = [key |-> "okf_version", value |-> "0.1"]}
  IN  IF olds = {} \/ p.front = "flow" THEN p
      ELSE [p EXCEPT !.keys[CHOOSE i \in olds : \A j \in olds : i <= j].value = "0.2"]

\* TIMESTAMP finds a key at the start of a line: none in flow style.
Stamped(p) ==
  LET stamps == {i \in DOMAIN p.keys : p.keys[i].key = "timestamp"}
  IN  IF stamps = {} \/ p.front = "flow" \/ HasKey(p, "generated") THEN p
      ELSE [p EXCEPT !.keys[CHOOSE i \in stamps : \A j \in stamps : i <= j].key = "generated"]

\* Mutant: a link written with a title is not recognised.
BareLinks(section) == {x \in ToSet(section.items) : x.kind = "bare"}

\* A set: nothing tells the order of the sources apart.
Links(section) == {x \in ToSet(section.items) : x.kind \in {"bare", "titled"}}

\* citations_to_sources: the first citations list goes, its links become the
\* sources.  The block is put behind the last line of the frontmatter, where
\* it fits a mapping in block style only.
HoistedAgain(p) ==
  LET lists == {i \in DOMAIN p.body : p.body[i].head = "citations"}
      first == CHOOSE i \in lists : \A j \in lists : i <= j
  IN  IF lists = {} \/ Links(p.body[first]) = {} THEN p
      ELSE [p EXCEPT !.keys = Append(@, [key |-> "sources", value |-> Links(p.body[first])]),
                     !.body = RemoveAt(@, first),
                     !.front = IF @ = "block" THEN @ ELSE "bad"]

Hoisted(p) == IF HasKey(p, "sources") THEN p ELSE HoistedAgain(p)

IsMapping(p) == p.front \in {"block", "flow"}

Migrated(p) ==
  CASE p.role = "root index" /\ p.front # "none" -> Versioned(p)
    [] p.role = "page" /\ IsMapping(p)           -> Hoisted(Stamped(p))
    [] OTHER                                     -> p

-----------------------------------------------------------------------------
(* migrate *)

Emptied(p) == [p EXCEPT !.front = "none", !.keys = <<>>, !.body = <<>>]

NoMigration == [pc |-> "idle", at |-> 0, text |-> <<>>, runs |-> 0, lost |-> {}]

\* There is nothing to migrate.
NoLegacy == pages = <<>> /\ origin = <<>> /\ migration = NoMigration

MigrationInit == pages \in Legacy /\ origin = pages /\ migration = NoMigration

StartMigration ==
  /\ migration.pc \in {"idle", "stopped", "done"}
  /\ migration.runs < MaxRuns
  /\ migration' = [migration EXCEPT !.pc = "reading", !.at = 1, !.runs = @ + 1]
  /\ UNCHANGED <<pages, origin>>

\* A file that would not change is not written.
PassOver ==
  /\ migration.pc = "reading" /\ migration.at <= Len(pages)
  /\ Migrated(pages[migration.at]) = pages[migration.at]
  /\ migration' = [migration EXCEPT !.at = @ + 1]
  /\ UNCHANGED <<pages, origin>>

\* write_text opens the file, which empties it, and then writes.
OpenPage ==
  LET i == migration.at IN
  /\ migration.pc = "reading" /\ i <= Len(pages)
  /\ Migrated(pages[i]) # pages[i]
  /\ pages' = [pages EXCEPT ![i] = Emptied(@)]
  /\ migration' = [migration EXCEPT !.pc = "writing", !.text = <<Migrated(pages[i])>>]
  /\ UNCHANGED origin

WritePage ==
  /\ migration.pc = "writing"
  /\ pages' = [pages EXCEPT ![migration.at] = migration.text[1]]
  /\ migration' = [migration EXCEPT !.pc = "reading", !.at = @ + 1, !.text = <<>>]
  /\ UNCHANGED origin

StopMigration ==
  /\ migration.pc \in {"reading", "writing"}
  /\ migration' = [migration EXCEPT !.pc = "stopped", !.text = <<>>,
                     !.lost = IF migration.pc = "writing" THEN @ \cup {migration.at} ELSE @]
  /\ UNCHANGED <<pages, origin>>

FinishMigration ==
  /\ migration.pc = "reading" /\ migration.at > Len(pages)
  /\ migration' = [migration EXCEPT !.pc = "done"]
  /\ UNCHANGED <<pages, origin>>

MigrationNext ==
  \/ StartMigration \/ PassOver \/ OpenPage \/ WritePage \/ StopMigration \/ FinishMigration

MigrationSpec == MigrationInit /\ [][MigrationNext]_migrationVars

-----------------------------------------------------------------------------
(* validate: what it holds against a page *)

Errors(p) ==
  IF p.role # "page" THEN {}
  ELSE IF p.front = "none" THEN {"no frontmatter"}
  ELSE IF p.front = "bad" THEN {"not YAML"}
  ELSE IF p.front = "list" THEN {"not a mapping"}
  ELSE IF HasKey(p, "type") THEN {} ELSE {"no type"}

CitesInBody(p) == \E i \in DOMAIN p.body : p.body[i].head = "citations"

Footnotes(p) == UNION {{x.id : x \in {y \in ToSet(p.body[i].items) : y.kind = "footnote"}} : i \in DOMAIN p.body}

\* What check_trust, check_sources and check_index say of v0.1 and of
\* attribution; the sources a migration writes have no id.
Warnings(p) ==
  IF p.role = "page" /\ Errors(p) \subseteq {"no type"}
  THEN {w \in {"legacy timestamp", "no generated", "legacy citations", "footnote without source"} :
          CASE w = "legacy timestamp" -> ~HasKey(p, "generated") /\ HasKey(p, "timestamp")
            [] w = "no generated"     -> ~HasKey(p, "generated") /\ ~HasKey(p, "timestamp")
            [] w = "legacy citations" -> CitesInBody(p)
            [] OTHER                  -> HasKey(p, "sources") /\ Footnotes(p) # {}}
  ELSE IF p.role = "root index" /\ HasKey(p, "okf_version") /\ ValueOf(p, "okf_version") # "0.2"
  THEN {"other version"} ELSE {}

-----------------------------------------------------------------------------
Survivors == DOMAIN pages \ migration.lost

\* However often the migration was stopped and run again, the files it did
\* not lose in mid-write end as one run would have left them, and none has a
\* key twice that had not (migrate_text: a half-migrated bundle converges
\* instead of growing a duplicate key).
MigrationConverges ==
  migration.pc = "done" =>
    \A i \in Survivors :
      /\ pages[i] = Migrated(origin[i])
      /\ \A j, k \in DOMAIN pages[i].keys :
           j # k /\ pages[i].keys[j].key = pages[i].keys[k].key
             => \E l, m \in DOMAIN origin[i].keys :
                  l # m /\ origin[i].keys[l].key = origin[i].keys[m].key

\* A cited link is not lost on the way from the body to the sources, with or
\* without a title (MD_LINK: a miss there is silent data loss).
CitedLinksSurvive ==
  \A i \in Survivors :
    (migration.pc = "writing" => migration.at # i) =>
      \A s \in ToSet(origin[i].body) : \A x \in ToSet(s.items) :
        x.kind \in {"bare", "titled"} =>
          \/ \E t \in ToSet(pages[i].body) : x \in ToSet(t.items)
          \/ HasKey(pages[i], "sources") /\ x \in ValueOf(pages[i], "sources")

\* A finished migration adds no error to a page whose frontmatter is in block
\* style, and no warning except that of footnotes that now have sources to
\* join; what it can rewrite it no longer warns of (validate after migrate);
\* and no cited link is lost, when it is stopped either.
MigrationOnlyHelps ==
  /\ CitedLinksSurvive
  /\ migration.pc = "done" =>
       \A i \in Survivors : origin[i].front # "flow" =>
         /\ Errors(pages[i]) \subseteq Errors(origin[i])
         /\ Warnings(pages[i]) \subseteq Warnings(origin[i]) \cup {"footnote without source"}
         /\ "legacy timestamp" \notin Warnings(pages[i]) /\ "other version" \notin Warnings(pages[i])
=============================================================================
