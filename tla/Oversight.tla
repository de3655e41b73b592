----------------------------- MODULE Oversight -----------------------------
(***************************************************************************)
(* The human-oversight queue: the gateway inserts tasks and announces them *)
(* (gateway/oversight.py), reviewers decide them through the API           *)
(* (api/routers/oversight.py, api/repositories/oversight_repository.py),   *)
(* a background loop escalates the expired ones, and the SDK polls for the *)
(* outcome (sdk/govai_sdk/client.py).                                      *)
(*                                                                         *)
(* Every API request runs in one READ COMMITTED transaction that touches   *)
(* one row: SELECT, then UPDATE and COMMIT.  The last two are one step:    *)
(* in between, other writers of the row wait for its lock and readers see  *)
(* the old row, just as they do before the step.  Time is what the loop    *)
(* sees of it: a task's ttl_expires_at is in the past, or not yet.  The    *)
(* columns review_start_at and reviewed_at are not read by anything here.  *)
(***************************************************************************)
EXTENDS Naturals, FiniteSets

CONSTANTS Tasks,       \* oversight ids, one for each gateway call sent to oversight
          Reviewers,   \* clients of the API, each with one request in flight
          NoTask,      \* no request in flight
          NoReviewer,  \* reviewer_id IS NULL
          MaxPolls     \* polls that fit in the timeout of wait_for_oversight

ASSUME OversightAssumption ==
  /\ NoTask \notin Tasks
  /\ NoReviewer \notin Reviewers
  /\ MaxPolls \in Nat

VARIABLES status,     \* oversight_queue.status ("absent": no such row)
          reviewer,   \* oversight_queue.reviewer_id
          expired,    \* the tasks whose ttl_expires_at has passed
          push,       \* progress of the gateway call that creates the task
          claim,      \* the task a reviewer's request has read as pending
          monitor,    \* ttl_monitor_loop
          announced,  \* events published on the tenant's Redis channels
          client      \* wait_for_oversight of the agent that made the call

row == <<status, reviewer>>
vars == <<status, reviewer, expired, push, claim, monitor, announced, client>>

Decisions == {"approved", "rejected", "escalated"}
Pending(t) == status[t] = "pending"
Decided(t) == status[t] \in Decisions

TypeOK ==
  /\ status \in [Tasks -> {"absent", "pending"} \union Decisions]
  /\ reviewer \in [Tasks -> Reviewers \union {NoReviewer}]
  /\ expired \in SUBSET Tasks
  /\ push \in [Tasks -> {"none", "inserted", "answered", "failed"}]
  /\ claim \in [Reviewers -> Tasks \union {NoTask}]
  /\ monitor \in [pc: {"asleep", "scan", "publish"}, rows: SUBSET Tasks]
  /\ announced \in [pending: SUBSET Tasks, escalated: SUBSET Tasks]
  /\ client \in [Tasks -> [pc: {"none", "polling", "returned", "raised"},
                           polls: 0..MaxPolls, seen: {"pending"} \union Decisions]]

Asleep == [pc |-> "asleep", rows |-> {}]

Init ==
  /\ status = [t \in Tasks |-> "absent"]
  /\ reviewer = [t \in Tasks |-> NoReviewer]
  /\ expired = {}
  /\ push = [t \in Tasks |-> "none"]
  /\ claim = [r \in Reviewers |-> NoTask]
  /\ monitor = Asleep
  /\ announced = [pending |-> {}, escalated |-> {}]
  /\ client = [t \in Tasks |-> [pc |-> "none", polls |-> 0, seen |-> "pending"]]

\* The clock passes ttl_expires_at.
Expire(t) ==
  /\ status[t] # "absent"
  /\ t \notin expired
  /\ expired' = expired \union {t}
  /\ UNCHANGED <<row, push, claim, monitor, announced, client>>
-----------------------------------------------------------------------------
\* push_oversight_task: INSERT in a transaction of its own, then publish.

InsertTask(t) ==
  /\ push[t] = "none"
  /\ status' = [status EXCEPT ![t] = "pending"]
  /\ push' = [push EXCEPT ![t] = "inserted"]
  /\ UNCHANGED <<reviewer, expired, claim, monitor, announced, client>>

\* The announcement is out; the caller gets the oversight id and starts to poll.
AnnouncePending(t) ==
  /\ push[t] = "inserted"
  /\ push' = [push EXCEPT ![t] = "answered"]
  /\ announced' = [announced EXCEPT !.pending = @ \union {t}]
  /\ client' = [client EXCEPT ![t].pc = "polling"]
  /\ UNCHANGED <<row, expired, claim, monitor>>

\* Redis refuses, or the process dies, after the INSERT has committed: the task
\* stays in the queue and the caller never learns its id.
PushFails(t) ==
  /\ push[t] = "inserted"
  /\ push' = [push EXCEPT ![t] = "failed"]
  /\ UNCHANGED <<row, expired, claim, monitor, announced, client>>
-----------------------------------------------------------------------------
\* start_review and submit_review.  Both read the row and answer 404 or 409 unless
\* it is pending; such a request changes nothing.  Which of the two a request is,
\* and the decision it carries, is chosen when it writes.

\* Mutant: the 409 check is gone.
ClaimAnyTask(r, t) ==
  /\ claim[r] = NoTask
  /\ status[t] # "absent"
  /\ claim' = [claim EXCEPT ![r] = t]
  /\ UNCHANGED <<row, expired, push, monitor, announced, client>>

ClaimTask(r, t) ==
  /\ claim[r] = NoTask
  /\ Pending(t)
  /\ claim' = [claim EXCEPT ![r] = t]
  /\ UNCHANGED <<row, expired, push, monitor, announced, client>>

\* UPDATE ... SET status, reviewer_id WHERE id = $4, whatever the status is by now.
SubmitReview(r, t, decision) ==
  /\ claim[r] = t
  /\ status' = [status EXCEPT ![t] = decision]
  /\ reviewer' = [reviewer EXCEPT ![t] = r]
  /\ claim' = [claim EXCEPT ![r] = NoTask]
  /\ UNCHANGED <<expired, push, monitor, announced, client>>

\* start_review ends (it writes review_start_at alone), or the request dies before
\* COMMIT and its transaction is rolled back.
ReleaseTask(r) ==
  /\ claim[r] # NoTask
  /\ claim' = [claim EXCEPT ![r] = NoTask]
  /\ UNCHANGED <<row, expired, push, monitor, announced, client>>
-----------------------------------------------------------------------------
\* ttl_monitor_loop: one guarded UPDATE over all tenants, COMMIT, then the events.

\* Mutant: the events go out before the transaction commits.
MonitorWakesAndPublishes ==
  /\ monitor.pc = "asleep"
  /\ monitor' = [pc |-> "scan", rows |-> expired]
  /\ announced' = [announced EXCEPT !.escalated = @ \union expired]
  /\ UNCHANGED <<row, expired, push, claim, client>>

\* Mutant: the UPDATE without `ttl_expires_at < NOW()`.
MonitorWakesForAll ==
  /\ monitor.pc = "asleep"
  /\ monitor' = [pc |-> "scan", rows |-> Tasks]
  /\ UNCHANGED <<row, expired, push, claim, announced, client>>

\* BEGIN fixes NOW(): the UPDATE will see as expired what is expired here.
MonitorWakes ==
  /\ monitor.pc = "asleep"
  /\ monitor' = [pc |-> "scan", rows |-> expired]
  /\ UNCHANGED <<row, expired, push, claim, announced, client>>

\* Mutant: the UPDATE without `status = 'pending'`.
OverdueOrDecided == monitor.rows

\* A row that a reviewer has just committed is checked again for 'pending'.
Overdue == {t \in monitor.rows: Pending(t)}

MonitorEscalates ==
  /\ monitor.pc = "scan"
  /\ status' = [t \in Tasks |-> IF t \in Overdue THEN "escalated" ELSE status[t]]
  /\ monitor' = [pc |-> "publish", rows |-> Overdue]
  /\ UNCHANGED <<reviewer, expired, push, claim, announced, client>>

MonitorPublishes(t) ==
  /\ monitor.pc = "publish"
  /\ t \in monitor.rows
  /\ announced' = [announced EXCEPT !.escalated = @ \union {t}]
  /\ monitor' = [monitor EXCEPT !.rows = @ \ {t}]
  /\ UNCHANGED <<row, expired, push, claim, client>>

MonitorSleeps ==
  /\ monitor.pc = "publish"
  /\ monitor.rows = {}
  /\ monitor' = Asleep
  /\ UNCHANGED <<row, expired, push, claim, announced, client>>

\* Mutant: without the try/except the first exception ends the loop.
MonitorDies ==
  /\ monitor.pc \in {"scan", "publish"}
  /\ monitor' = [pc |-> "dead", rows |-> {}]
  /\ UNCHANGED <<row, expired, push, claim, announced, client>>

\* An exception, or the process restarting: what was committed stays committed,
\* what was not published yet never is.
MonitorFails ==
  /\ \/ monitor.pc = "scan"
     \/ monitor.pc = "publish" /\ monitor.rows # {}
  /\ monitor' = Asleep
  /\ UNCHANGED <<row, expired, push, claim, announced, client>>
-----------------------------------------------------------------------------
\* wait_for_oversight: `elapsed` grows by poll_interval, so it counts the polls.

\* (A row that does not exist answers 404: PollFails.)
ReturnDecision(t) ==
  /\ client[t].pc = "polling"
  /\ client[t].polls < MaxPolls
  /\ Decided(t)
  /\ client' = [client EXCEPT ![t] = [@ EXCEPT !.pc = "returned", !.seen = status[t]]]
  /\ UNCHANGED <<row, expired, push, claim, monitor, announced>>

PollAgain(t) ==
  /\ client[t].pc = "polling"
  /\ client[t].polls < MaxPolls
  /\ Pending(t)
  /\ client' = [client EXCEPT ![t].polls = @ + 1]
  /\ UNCHANGED <<row, expired, push, claim, monitor, announced>>

\* `while elapsed < timeout` ends: TimeoutError.
TimeOut(t) ==
  /\ client[t].pc = "polling"
  /\ client[t].polls = MaxPolls
  /\ client' = [client EXCEPT ![t].pc = "raised"]
  /\ UNCHANGED <<row, expired, push, claim, monitor, announced>>

\* raise_for_status, or the HTTP timeout of one poll.
PollFails(t) ==
  /\ client[t].pc = "polling"
  /\ client[t].polls < MaxPolls
  /\ client' = [client EXCEPT ![t].pc = "raised"]
  /\ UNCHANGED <<row, expired, push, claim, monitor, announced>>
-----------------------------------------------------------------------------
Gateway(t) == InsertTask(t) \/ AnnouncePending(t) \/ PushFails(t)

Reviewing(r, t) ==
  \/ ClaimTask(r, t)
  \/ \E d \in Decisions: SubmitReview(r, t, d)

Monitoring ==
  \/ MonitorWakes \/ MonitorEscalates \/ MonitorSleeps \/ MonitorFails
  \/ \E t \in Tasks: MonitorPublishes(t)

Waiting(t) == ReturnDecision(t) \/ PollAgain(t) \/ TimeOut(t)

Next ==
  \/ \E t \in Tasks: Expire(t) \/ Gateway(t) \/ Waiting(t) \/ PollFails(t)
  \/ \E r \in Reviewers: ReleaseTask(r) \/ \E t \in Tasks: Reviewing(r, t)
  \/ Monitoring

(***************************************************************************)
(* Time passes and the loop goes on (its body catches every exception); SF *)
(* on the UPDATE says that an outage of the database is not permanent.     *)
(* Reviewers, gateway calls and pollers owe nothing.                       *)
(***************************************************************************)
Fairness ==
  /\ WF_vars(MonitorWakes) /\ SF_vars(MonitorEscalates) /\ WF_vars(Monitoring)
  /\ \A t \in Tasks: WF_vars(Expire(t))

Spec == Init /\ [][Next]_vars
FairSpec == Spec /\ Fairness
-----------------------------------------------------------------------------
Settled(t) == Decided(t) /\ \A r \in Reviewers: claim[r] # t

\* A decision that no request in flight has read as pending is the last word: no
\* reviewer, retry or escalation changes it or its reviewer any more (the 409 of
\* submit_review, the WHERE of the escalation).
SettledDecisionStands ==
  [][\A t \in Tasks: Settled(t) =>
       /\ status'[t] = status[t]
       /\ reviewer'[t] = reviewer[t]
       /\ \A r \in Reviewers: claim'[r] # t]_vars

\* Whoever replaces a decision is a reviewer who read the task as pending, and is
\* the reviewer on record afterwards; the loop never replaces one.
DecisionReplacedByClaimant ==
  [][\A t \in Tasks: Decided(t) /\ status'[t] # status[t] =>
       \E r \in Reviewers: claim[r] = t /\ reviewer'[t] = r]_vars

\* An event follows the commit it tells of: the dashboard never hears of a task it
\* cannot read, nor of the escalation of one that is still pending.
EventsFollowCommit ==
  /\ \A t \in announced.pending: status[t] # "absent"
  /\ \A t \in announced.escalated: Decided(t)

\* An outcome the SDK has handed to the agent was earned, and stays accountable: a
\* reviewer is on record for it, or the task was escalated past its time limit.
OutcomesAreEarned ==
  \A t \in Tasks: client[t].pc = "returned" =>
    \/ client[t].seen \in Decisions /\ reviewer[t] # NoReviewer
    \/ client[t].seen = "escalated" /\ t \in expired

\* Every task that enters the queue is decided, a reviewer acting or not, also the
\* one whose gateway call failed after the INSERT.
EveryTaskDecided == \A t \in Tasks: Pending(t) ~> Decided(t)

\* "Already reviewed" is final: a decided task keeps its decision.
DecisionIsFinal == [][\A t \in Tasks: Decided(t) => status'[t] = status[t]]_vars

\* The queue implements the life cycle of OversightLifecycle.
Lifecycle == INSTANCE OversightLifecycle
               WITH holders <- [t \in Tasks |-> {r \in Reviewers: claim[r] = t}]
ImplementsLifecycle == Lifecycle!Spec
=============================================================================
