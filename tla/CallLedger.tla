----------------------------- MODULE CallLedger -----------------------------
(***************************************************************************)
(* What the gateway promises of every call, to whoever asks for it and to  *)
(* whoever audits it, however the calls interleave: a call gets one        *)
(* answer; a prompt is handed to a model, or a task put before a human,    *)
(* before that answer and never both; the answer says which; the log has   *)
(* one row of a call at most, that of its answer; and an event of the live *)
(* feed is of a row in the log.  Nothing is ever taken back.               *)
(***************************************************************************)
CONSTANT Calls

VARIABLES demo,     \* answers are made up, nothing is handed to a model
          answer,   \* what the caller of each call got
          sent,     \* calls whose prompt was handed to a model
          queued,   \* calls with a task before a human
          log,      \* rows: a call and what became of it
          shown     \* calls with an event on the live feed

ledger == <<demo, answer, sent, queued, log, shown>>

Modelled == {"llm_error", "call_completed"}
Recorded == {"unknown_agent", "agent_inactive", "blocked", "oversight_required",
             "no_eligible_provider"} \union Modelled
Unrecorded == {"refused", "policies_unavailable", "server_error"}

Init ==
  /\ demo \in BOOLEAN
  /\ answer = [c \in Calls |-> "none"]
  /\ sent = {} /\ queued = {} /\ log = {} /\ shown = {}

Untouched(c) == answer[c] = "none" /\ c \notin sent \union queued

Send(c) ==
  /\ Untouched(c) /\ ~demo
  /\ sent' = sent \union {c}
  /\ UNCHANGED <<demo, answer, queued, log, shown>>

Queue(c) ==
  /\ Untouched(c)
  /\ queued' = queued \union {c}
  /\ UNCHANGED <<demo, answer, sent, log, shown>>

\* An answer that is put on record tells what was done.
Truthful(c, a) ==
  /\ a = "oversight_required" <=> c \in queued
  /\ a \in Modelled /\ ~demo <=> c \in sent

Answer(c, a) ==
  /\ answer[c] = "none"
  /\ a \in Unrecorded \/ Truthful(c, a)
  /\ answer' = [answer EXCEPT ![c] = a]
  /\ UNCHANGED <<demo, sent, queued, log, shown>>

Record(c) ==
  /\ answer[c] \in Recorded
  /\ \A row \in log: row[1] # c
  /\ log' = log \union {<<c, answer[c]>>}
  /\ UNCHANGED <<demo, answer, sent, queued, shown>>

\* A task before a human has its own announcement.
Show(c) ==
  /\ c \notin shown /\ answer[c] # "oversight_required" /\ <<c, answer[c]>> \in log
  /\ shown' = shown \union {c}
  /\ UNCHANGED <<demo, answer, sent, queued, log>>

Next ==
  \E c \in Calls:
    \/ Send(c) \/ Queue(c) \/ Record(c) \/ Show(c)
    \/ \E a \in Recorded \union Unrecorded: Answer(c, a)

Spec == Init /\ [][Next]_ledger
=============================================================================
