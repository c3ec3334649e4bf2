---------------------------- MODULE MCScheduler ----------------------------
(* Small instances of the serving loop.                                    *)
EXTENDS Scheduler

(* Any token may follow any prefix.                                        *)
AnyToken(toks) == {0, 1}
MCPrompts == {<<0, 0>>, <<0, 0, 0>>}

(* Prompts and continuations in which equal full blocks have equal         *)
(* prefixes, also where a token is sampled after another sequence's text:  *)
(* no token of a prompt is ever sampled, so (3, t) comes after <<1, 2>>    *)
(* only and a block of two sampled tokens after <<21, 22, 23, 24>> only.   *)
Branching(toks) ==
    {0, IF Last(toks) = 0 THEN 0 ELSE Last(toks) + 1}
MCBranches == {<<1, 2, 3>>, <<21, 22, 23, 24>>}

(* Two prompts whose second blocks have the same tokens.                   *)
EndAtOnce(toks) == {0}
MCSameTail == {<<1, 1, 2, 2, 1>>, <<3, 3, 2, 2>>}
=============================================================================
