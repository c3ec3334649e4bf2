------------------------- MODULE TransformPipeline -------------------------
(***************************************************************************)
(* The registry of installed transforms that every target's seam walks     *)
(* when it builds a prompt (src/core/targets/okf/prompt_transforms.py and  *)
(* its twins for SQL, the LongMemEval score pipeline and the reader        *)
(* pipeline; the LongMemEval assembly pipeline is a dict).                 *)
(*                                                                         *)
(* The registry is a set of entries [name, fn, seam, round]: round is the  *)
(* loop round the entry was installed in and stands for its place in the   *)
(* list, since a round installs one candidate and always at the end.       *)
(* The built-in transforms, which the loop never touches, are left out.    *)
(***************************************************************************)

CONSTANT
    DictSeams      \* the seams kept in a dict keyed by name (assembly)

(* Installing on a list seam appends, even when the name is taken; on a    *)
(* dict seam the entry of the same name is overwritten and keeps its place.*)
Overwritten(pipeline, entry) ==
    {old \in pipeline : /\ entry.seam \in DictSeams
                        /\ old.seam = entry.seam
                        /\ old.name = entry.name}

Install(pipeline, entry) ==
    LET gone == Overwritten(pipeline, entry)
    IN  IF gone = {}
        THEN pipeline \cup {entry}
        ELSE (pipeline \ gone) \cup {[old EXCEPT !.fn = entry.fn] : old \in gone}

(* Mutant: the test-isolation clear() in the place of revert().            *)
RevertAll(pipeline, name) == {}

(* Reverting removes EVERY entry of that name, from every seam.            *)
Revert(pipeline, name) == {old \in pipeline : old.name # name}
=============================================================================
