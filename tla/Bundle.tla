------------------------------- MODULE Bundle --------------------------------
(***************************************************************************)
(* The files of one bundle on disk and the author who edits them, which    *)
(* the tools below read and rewrite while they run.                        *)
(***************************************************************************)
EXTENDS Knowledge

CONSTANTS
  Bundles,   \* the bundles a behaviour can start from
  Edited,    \* the relations the author adds or takes out
  MaxEdits   \* bound: edits the author makes

ASSUME BundleAssumption == /\ Bundles \subseteq Seq(File)
                           /\ Edited \subseteq Declaration
                           /\ MaxEdits \in Nat

VARIABLES
  bundle,  \* the files, in path order
  edits    \* how often the author edited them

bundleVars == <<bundle, edits>>

BundleInit ==
  /\ bundle \in Bundles
  /\ edits = 0

NoBundle == bundle = <<>> /\ edits = 0

\* Someone adds a relation to the body of a file, or takes one out.
Edit(i, d) ==
  /\ edits < MaxEdits
  /\ edits' = edits + 1
  /\ bundle' = [bundle EXCEPT ![i].body = IF d \in @ THEN @ \ {d} ELSE @ \cup {d}]
=============================================================================
