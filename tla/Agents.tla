------------------------------- MODULE Agents -------------------------------
(***************************************************************************)
(* A process that serves calls of the agents, or measures the SQL target.  *)
(* A measurement makes its calls of the SQL agent one at a time, each with *)
(* a graph of its own, and is followed question by question: what OkfAgent *)
(* takes for one step, the prompt a question's schema gives, is unrolled   *)
(* here.                                                                   *)
(***************************************************************************)
EXTENDS OkfAgent, SqlMeasurement

agentVars == <<vars, sqlVars>>

AgentsInit == Init /\ (SqlAtRest \/ SqlInit)

AgentsNext ==
    \/ stage = "none" /\ Next /\ UNCHANGED sqlVars
    \/ SqlNext /\ UNCHANGED vars

AgentsSpec == AgentsInit /\ [][AgentsNext]_agentVars
=============================================================================
