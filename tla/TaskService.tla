---------------------------- MODULE TaskService ----------------------------
(***************************************************************************)
(* What the task queue promises to whoever creates a task, without rows,   *)
(* polls, leases or requests: the agent works on one task at a time and    *)
(* gets none twice, and the control plane's verdict on a task is the       *)
(* outcome the agent has reported or that it did not report in time.       *)
(* AgentTasks implements this (ImplementsService there).                   *)
(*                                                                         *)
(* What it does not promise: a task that has timed out may be performed    *)
(* nevertheless, and its verdict then becomes the outcome; and after a     *)
(* disturbance, a poll that was left behind may open a task again that was *)
(* finished.                                                               *)
(***************************************************************************)
CONSTANT Tasks

VARIABLES
  stage,     \* of a task: none, waiting, given to the agent, over
  answer,    \* the outcome that the agent is reporting, or none
  verdict,   \* what the control plane takes the outcome to be
  disturbed  \* the agent has been restarted, or a poll was dropped

vars == <<stage, answer, verdict, disturbed>>

Outcomes == {"succeeded", "failed"}

Init ==
  /\ stage = [t \in Tasks |-> "none"]
  /\ answer = [t \in Tasks |-> "none"]
  /\ verdict = [t \in Tasks |-> "none"]
  /\ disturbed = FALSE

Submit(t) ==
  /\ stage[t] = "none"
  /\ stage' = [stage EXCEPT ![t] = "waiting"]
  /\ verdict' = [verdict EXCEPT ![t] = "open"]
  /\ UNCHANGED <<answer, disturbed>>

HandOver(t) ==
  /\ stage[t] = "waiting"
  /\ \A u \in Tasks : stage[u] # "given"
  /\ stage' = [stage EXCEPT ![t] = "given"]
  /\ UNCHANGED <<answer, verdict, disturbed>>

Perform(t) ==
  /\ stage[t] = "given"
  /\ stage' = [stage EXCEPT ![t] = "over"]
  /\ \E o \in Outcomes : answer' = [answer EXCEPT ![t] = o]
  /\ UNCHANGED <<verdict, disturbed>>

\* The report arrives ...
Conclude(t) ==
  /\ answer[t] # "none"
  /\ verdict' = [verdict EXCEPT ![t] = answer[t]]
  /\ answer' = [answer EXCEPT ![t] = "none"]
  /\ UNCHANGED <<stage, disturbed>>

\* ... or does not.
Lose(t) ==
  /\ answer[t] # "none"
  /\ answer' = [answer EXCEPT ![t] = "none"]
  /\ UNCHANGED <<stage, verdict, disturbed>>

GiveUp(t) ==
  /\ verdict[t] = "open"
  /\ verdict' = [verdict EXCEPT ![t] = "timed_out"]
  /\ UNCHANGED <<stage, answer, disturbed>>

\* The agent's poll had picked the task when it timed out.
Reopen(t) ==
  /\ verdict[t] # "none"
  /\ disturbed \/ (stage[t] = "waiting" /\ verdict[t] = "timed_out")
  /\ verdict' = [verdict EXCEPT ![t] = "open"]
  /\ UNCHANGED <<stage, answer, disturbed>>

\* What the agent was working on is not finished, nor started again.
Disturb ==
  /\ disturbed' = TRUE
  /\ \/ UNCHANGED stage
     \/ stage' = [t \in Tasks |-> IF stage[t] = "given" THEN "over"
                                  ELSE stage[t]]
  /\ UNCHANGED <<answer, verdict>>

Next ==
  \/ \E t \in Tasks : \/ Submit(t) \/ HandOver(t) \/ Perform(t) \/ Conclude(t)
                      \/ Lose(t) \/ GiveUp(t) \/ Reopen(t)
  \/ Disturb

Spec == Init /\ [][Next]_vars

=============================================================================
