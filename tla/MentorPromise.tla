--------------------------- MODULE MentorPromise ---------------------------
(***************************************************************************)
(* What the improvement loop promises its caller: the set of deployed      *)
(* transforms only grows, one at a time, each deployment is measured       *)
(* before the next one, the measured score never drops, and the run ends   *)
(* with everything measured, or tells its caller that it ended early.      *)
(***************************************************************************)
EXTENDS Naturals

VARIABLES
    deployed,     \* the transforms installed on the target
    score,        \* questions answered correctly at the last measurement
    unmeasured,   \* what is deployed now has not been measured
    failed,       \* a part of the run broke down
    done,         \* the run is over
    told          \* its caller was told that it ended early

promiseVars == <<deployed, score, unmeasured, failed, done, told>>

PromiseInit ==
    /\ deployed = {} /\ score = 0 /\ unmeasured = TRUE
    /\ failed = FALSE /\ done = FALSE /\ told = FALSE

Deploy ==
    /\ ~done /\ ~failed /\ ~unmeasured
    /\ deployed \subseteq deployed' /\ deployed # deployed'
    /\ unmeasured' = TRUE
    /\ UNCHANGED <<score, failed, done, told>>

Measure ==
    /\ ~done /\ ~failed /\ unmeasured
    /\ score' >= score
    /\ unmeasured' = FALSE
    /\ UNCHANGED <<deployed, failed, done, told>>

(* A breakdown measures nothing: what was unmeasured stays so.             *)
Fail ==
    /\ ~done /\ ~failed
    /\ failed' = TRUE
    /\ UNCHANGED <<deployed, score, unmeasured, done, told>>

Finish ==
    /\ ~done /\ (unmeasured => failed)
    /\ done' = TRUE
    /\ told' = failed
    /\ UNCHANGED <<deployed, score, unmeasured, failed>>

PromiseNext == Deploy \/ Measure \/ Fail \/ Finish

PromiseSpec == PromiseInit /\ [][PromiseNext]_promiseVars
=============================================================================
