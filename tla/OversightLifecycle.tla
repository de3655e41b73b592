------------------------- MODULE OversightLifecycle -------------------------
(***************************************************************************)
(* What the oversight queue promises about a task, whoever asks: it is     *)
(* created pending, it is decided by a reviewer who saw it pending or is   *)
(* escalated while pending, and never becomes pending again.  A decision   *)
(* may still be replaced by the reviewers who saw the task pending, and by *)
(* nobody else: once they are gone, it stands.                             *)
(***************************************************************************)
CONSTANTS Tasks, Reviewers

VARIABLES status,    \* the status of each task
          holders    \* the reviewers who saw the task pending and may still write

Decisions == {"approved", "rejected", "escalated"}

Init ==
  /\ status = [t \in Tasks |-> "absent"]
  /\ holders = [t \in Tasks |-> {}]

Create(t) ==
  /\ status[t] = "absent"
  /\ status' = [status EXCEPT ![t] = "pending"]
  /\ UNCHANGED holders

Hold(r, t) ==
  /\ status[t] = "pending"
  /\ holders' = [holders EXCEPT ![t] = @ \union {r}]
  /\ UNCHANGED status

Leave(r, t) ==
  /\ r \in holders[t]
  /\ holders' = [holders EXCEPT ![t] = @ \ {r}]
  /\ UNCHANGED status

Decide(r, t, d) ==
  /\ r \in holders[t]
  /\ status' = [status EXCEPT ![t] = d]
  /\ holders' = [holders EXCEPT ![t] = @ \ {r}]

\* Any number of pending tasks is escalated at once.
Escalate(S) ==
  /\ \A t \in S: status[t] = "pending"
  /\ status' = [t \in Tasks |-> IF t \in S THEN "escalated" ELSE status[t]]
  /\ UNCHANGED holders

Next ==
  \/ \E t \in Tasks: Create(t)
  \/ \E r \in Reviewers, t \in Tasks:
       Hold(r, t) \/ Leave(r, t) \/ \E d \in Decisions: Decide(r, t, d)
  \/ \E S \in SUBSET Tasks: Escalate(S)

Spec == Init /\ [][Next]_<<status, holders>>
=============================================================================
