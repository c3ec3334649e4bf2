---------------------------- MODULE MeasuredLoop ----------------------------
(***************************************************************************)
(* The mentor's loop over the long-memory target, with its first           *)
(* measurement taken step by step: RunBaseline waits for the backend and   *)
(* goes on with what the taxonomy makes of its outcomes, or with the       *)
(* exception that ended it.  The later measurements of the loop are single *)
(* steps with any result.                                                  *)
(***************************************************************************)
EXTENDS MentorLoop, Measurement

allVars == <<vars, measureVars>>

MeasuredInit == Init /\ MeasureInit

\* The question at each place of the split.
CONSTANT QuestionAt

Diagnosed ==
  [q \in Qids |->
     LET o == outcomes[CHOOSE k \in DOMAIN split : QuestionAt[k] = q]
     IN  IF o.correct THEN Correct ELSE Classify(priority, o)]

\* The backend has handed over: nothing of the measurement is kept.
Forget ==
  /\ phase' = "over"
  /\ split' = <<>> /\ installed' = <<>> /\ traces' = <<>> /\ audit' = {}
  /\ report' = <<>> /\ outcomes' = <<>> /\ priority' = PRIORITY

BaselineMeasured ==
  /\ pending = "loop.start"
  /\ \/ phase = "joined" /\ \E r \in {Diagnosed} : RunBaseline /\ baseline' = r
     \/ phase = "raised" /\ RunBaseline /\ crashed'
  /\ Forget
  /\ UNCHANGED pauseAfter

MeasuredNext ==
  \/ pending = "loop.start" /\ MeasureNext /\ UNCHANGED <<vars>>
  \/ BaselineMeasured
  \/ pending # "loop.start" /\ Next /\ UNCHANGED measureVars

\* run_loop is one thread: while a behavior is pending, or the backend it
\* waits for has a question, a judge or a join left, it goes on.
MeasuredSpec == MeasuredInit /\ [][MeasuredNext]_allVars /\ WF_allVars(MeasuredNext)
=============================================================================
