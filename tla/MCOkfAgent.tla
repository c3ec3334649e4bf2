---------------------------- MODULE MCOkfAgent ----------------------------
(* Small instances of the agents' calls and of the SQL measurement.        *)
EXTENDS Agents

CONSTANTS c1, c2, c3, kb, p, i1, i2

Call(op, k, path, i) == [op |-> op, kb |-> k, path |-> path, rid |-> i]

(* One knowledge base, one bundle and two request ids, one of which both   *)
(* agents use; a question may come without a path.                         *)
MCRequests ==
    {Call("ingest", kb, p, None), Call("lint", kb, p, None),
     Call("ask", kb, p, i1), Call("ask", kb, None, i2),
     Call("retrieve", None, None, i1)}

Symmetric == Permutations(Calls)
-----------------------------------------------------------------------------
(* Two tables with a foreign key; a third table is declared by none.       *)
MCColumns == << <<"user", "id">>, <<"user", "name">>, <<"order", "id">>, <<"order", "by">> >>
Paid == << <<"order", "by">>, <<"user", "id">> >>

Tbl(t) == [table |-> t, alias |-> t]
As(t, a) == [table |-> t, alias |-> a]

Froms ==
    {<<Tbl("user")>>, <<Tbl("order")>>, <<Tbl("item")>>, <<As("user", "u")>>,
     <<Tbl("user"), Tbl("order")>>, <<As("user", "u"), Tbl("order")>>,
     <<Tbl("user"), Tbl("item")>>, <<Tbl("user"), As("user", "u")>>}

Clauses == {<<FALSE, FALSE, FALSE>>, <<TRUE, FALSE, FALSE>>, <<FALSE, TRUE, FALSE>>, <<TRUE, TRUE, TRUE>>}

Query(form, from, joined, cols, c) ==
    [form |-> form, from |-> from, joined |-> joined, cols |-> cols,
     where |-> c[1], group |-> c[2], having |-> c[3]]

MCDrafts ==
    {Query("select", f, j, cs, c) :
        f \in Froms, j \in BOOLEAN, c \in Clauses \ {<<TRUE, TRUE, TRUE>>},
        cs \in {{}, {<<"", "name">>}, {<<"", "id">>}, {<<"", "price">>}, {<<"user", "name">>},
                {<<"u", "name">>, <<"order", "by">>}, {<<"order", "price">>}}}
    \cup {Query("unparsable", <<Tbl("user")>>, FALSE, {}, c) : c \in Clauses}

Gold(from, joined, c) == Query("select", from, joined, {}, c)

MCRows == {<<>>, << <<1, 2>> >>, << <<2, 1>>, <<3, 3>> >>, << <<3, 3>>, <<1, 2>> >>, << <<1, 2>>, <<1, 2>> >>}

Instance(keys, setup, gold, rows) ==
    [columns |-> MCColumns, keys |-> keys, setup |-> setup, gold |-> gold, rows |-> rows]

MCInstances ==
    {Instance({Paid}, setup, Gold(<<Tbl("user"), Tbl("order")>>, TRUE, <<FALSE, TRUE, FALSE>>), rows) :
        setup \in {"", "no such"}, rows \in {<<>>, << <<1, 2>>, <<3, 3>> >>}}
    \cup {Instance({Paid, << <<"order", "id">>, <<"item", "id">> >>}, "",
                   Gold(<<Tbl("user")>>, FALSE, <<TRUE, FALSE, FALSE>>), << <<1, 2>> >>)}

\* Equal, falling or rising similarities.
MCScorings(n) == {[k \in 1 .. n |-> 0], [k \in 1 .. n |-> k]}

\* What amends writes in place it is also applied for; scribbles is skipped.
MCPipelines ==
    {<<>>, <<"invents", "hints">>, <<"raises", "breaks">>, <<"scribbles", "hints">>,
     <<"amends", "invents">>}

MCRewrites(f, parts) ==
    CASE f \in {"hints", "amends"} -> {[parts EXCEPT !.instructions = "grouped"]}
      [] f = "invents" -> {[k \in DOMAIN parts \cup {"notes"} |->
                               IF k \in DOMAIN parts /\ k # "question" THEN parts[k] ELSE "more"]}
      [] f = "breaks"  -> {[parts EXCEPT !.hints.joinable = FALSE]}
      [] OTHER         -> {}       \* "raises", "scribbles"

MCScribbles(f, parts) == IF f \in {"scribbles", "amends"} THEN [parts EXCEPT !.question = "spoilt"] ELSE parts
============================================================================
