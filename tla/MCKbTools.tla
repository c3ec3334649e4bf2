------------------------------ MODULE MCKbTools ------------------------------
(***************************************************************************)
(* Three files: a and b are concepts, the third is a schema, a rule or a   *)
(* concept whose file name cc is not its id c, or claims the id a again.   *)
(* Up to three relations are declared among them, in frontmatter or body,  *)
(* by id, by stem, by a dotted name or to nothing, one of them under a      *)
(* heading that is none of the four relations.                             *)
(***************************************************************************)
EXTENDS KbTools

MCName == {"a", "b", "c", "cc", "m.cc", "m", "x"}
MCLastSegment == [n \in MCName |-> IF n = "m.cc" THEN "cc" ELSE n]
MCFirstSegment == [n \in MCName |-> IF n = "m.cc" THEN "m" ELSE n]

Plain(id, stem, kinds, sources) ==
  [id |-> id, stem |-> stem, kinds |-> kinds, front |-> {}, bare |-> {}, body |-> {},
   sources |-> sources, triggers |-> {id}, schemas |-> {}, noise |-> FALSE]

\* What the repair corrects in b: still wrong, corrected before, or drifted.
Wrong == <<"composed_of", "a">>
Corrected == <<"prerequisite_of", "a">>
MCBodyEdits == << [file |-> 2, old |-> Wrong, new |-> Corrected] >>

Base(stem, second, third) ==
  <<Plain("a", stem, {"concept"}, "absent"), [Plain("b", "b", {"concept"}, "cited") EXCEPT !.body = second], third>>

Bases == {Base("a", {Wrong}, [Plain("c", "cc", {"concept", "rule"}, "unusable") EXCEPT !.schemas = {"x", "m.cc"}]),
          Base("a", {Wrong}, Plain("c", "cc", {"schema"}, "absent")),
          Base("m", {Corrected}, Plain("a", "cc", {"concept"}, "cited")),
          Base("a", {<<"contradicts", "a">>}, Plain("c", "cc", {"concept"}, "absent"))}

Written ==
  {<<1, "front", "prerequisites", n>> : n \in {"b", "cc"}}
  \cup {<<2, "front", "prerequisites", n>> : n \in {"a", "c"}}
  \cup {<<3, "front", r, "b">> : r \in {"prerequisites", "prerequisite_of"}}
  \cup {<<1, "body", "prerequisite_of", n>> : n \in {"b", "m.cc", "x"}}
  \cup {<<3, "front", "composed_of", "a">>}

\* Under a heading that is none of the four relations.
Headed == <<2, "body", "other", "x">>

With(base, ws) ==
  [i \in DOMAIN base |->
     [base[i] EXCEPT !.front = {<<w[3], w[4]>> : w \in {v \in ws : v[1] = i /\ v[2] = "front"}},
                     !.body = @ \cup {<<w[3], w[4]>> : w \in {v \in ws : v[1] = i /\ v[2] = "body"}}]]

MCBundles ==
  {With(base, {v, w}) : base \in Bases, v \in Written, w \in Written}
             \cup {With(base, {Headed}) : base \in Bases} \cup Bases

MCEdited == {<<"prerequisites", "b">>, <<"prerequisite_of", "a">>}

Op(op, target, old, sources) == [op |-> op, target |-> target, old |-> old, sources |-> sources]
MCCanonicalOp == {Op("RENAME", "m", "b", {}), Op("RENAME", "b", "a", {}), Op("ADD_DOC", "m", "m", {})}
MCOperator == MCCanonicalOp \cup
  {Op("MERGE", "a", "m", {"b", "c"}), Op("REORDER", "a", "m", {"b"}),
   Op("SPLIT", "a", "m", {}), Op("UPDATE_STATUS", "b", "m", {})}

-----------------------------------------------------------------------------
(* Bundles to migrate: one page of every make beside a root index, another  *)
(* page and a file nothing is done to.                                      *)
Item(kind, id) == [kind |-> kind, id |-> id]
Cites(items) == [head |-> "citations", items |-> items]
Prose(items) == [head |-> "other", items |-> items]
Key(key, value) == [key |-> key, value |-> value]

Page(role, front, keys, body) == [role |-> role, front |-> front, keys |-> keys, body |-> body]

KeyLists ==
  {pre \o stamp \o src : pre \in {<<>>, <<Key("type", "t")>>},
     stamp \in {<<>>, <<Key("timestamp", 1)>>, <<Key("generated", 2)>>, <<Key("timestamp", 1), Key("generated", 2)>>},
     src \in {<<>>, <<Key("sources", {Item("bare", "s")})>>}}

Lists ==
  {Cites(<<>>), Cites(<<Item("text", "u")>>), Cites(<<Item("bare", "v"), Item("text", "u")>>),
   Cites(<<Item("titled", "w"), Item("bare", "v")>>)}

Bodies == {<<>>} \cup {<<Prose(<<Item("footnote", "v")>>)>> \o l \o m :
                         l \in {<<s>> : s \in Lists}, m \in {<<>>} \cup {<<s>> : s \in Lists}}

OldPages ==
  {Page("page", f, k, b) : f \in {"block", "flow"}, k \in KeyLists, b \in Bodies}
  \cup {Page("page", f, <<>>, b) : f \in {"none", "bad", "list"}, b \in Bodies}

Root == Page("root index", "block", <<Key("okf_version", "0.1")>>, <<>>)
Other == Page("page", "block", <<Key("type", "t"), Key("timestamp", 1)>>, <<Cites(<<Item("bare", "v")>>)>>)
Flow == [Root EXCEPT !.front = "flow"]
Log == Page("log", "block", <<Key("timestamp", 1)>>, <<>>)

MCLegacy == {<<p>> : p \in OldPages} \cup {<<Root, p, Other>> : p \in {Log, [Root EXCEPT !.role = "index"]}}
            \cup {<<Root, Other>>, <<Flow, Other>>}
=============================================================================
