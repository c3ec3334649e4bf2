--------------------------- MODULE MCBlockManager ---------------------------
(* Small pools for BlockManager: prompts that share blocks and prefixes.   *)
EXTENDS BlockManager

MCPrompts == {<<0, 0>>, <<0, 0, 0>>, <<1, 1, 0, 0>>, <<1, 1, 1>>}

(* Nothing tells one sequence from another.                                *)
Symmetry == Permutations(Seqs)
=============================================================================
