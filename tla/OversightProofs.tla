-------------------------- MODULE OversightProofs --------------------------
(***************************************************************************)
(* Safety of the oversight queue for any sets of tasks and reviewers.      *)
(***************************************************************************)
EXTENDS Oversight, TLAPS

\* The inductive invariant.  A row exists from the INSERT on, a request only ever
\* claims a row that exists, and what the loop has yet to publish is decided.
RowIffInserted == \A t \in Tasks: status[t] = "absent" <=> push[t] = "none"
ClaimsExist == \A r \in Reviewers: claim[r] # NoTask => status[claim[r]] # "absent"
BatchDecided == monitor.pc = "publish" => \A t \in monitor.rows: Decided(t)

\* The loop works on expired tasks only, so a decision without a reviewer is its own.
BatchExpired == monitor.rows \subseteq expired
DecisionsEarned ==
  \A t \in Tasks: Decided(t) /\ reviewer[t] = NoReviewer =>
    status[t] = "escalated" /\ t \in expired

RowInv == RowIffInserted /\ ClaimsExist /\ BatchDecided /\ EventsFollowCommit
EarnedInv == BatchExpired /\ DecisionsEarned /\ OutcomesAreEarned
IInv == TypeOK /\ RowInv /\ EarnedInv

Pollers == [pc: {"none", "polling", "returned", "raised"}, polls: 0..MaxPolls,
            seen: {"pending"} \union Decisions]

\* A poller that starts, or is told the decision, stays a poller.
LEMMA ClientMoves ==
  ASSUME client \in [Tasks -> Pollers], NEW t \in Tasks,
         \/ client' = [client EXCEPT ![t].pc = "polling"]
         \/ /\ status[t] \in Decisions
            /\ client' = [client EXCEPT ![t] = [@ EXCEPT !.pc = "returned", !.seen = status[t]]]
  PROVE  client' \in [Tasks -> Pollers]
<1>1. CASE client' = [client EXCEPT ![t].pc = "polling"]
  BY <1>1 DEF Pollers
<1>2. CASE /\ status[t] \in Decisions
           /\ client' = [client EXCEPT ![t] = [@ EXCEPT !.pc = "returned", !.seen = status[t]]]
  BY <1>2 DEF Pollers
<1>3. QED
  BY <1>1, <1>2

\* Every variable holds a value of the kind the code gives it.
LEMMA TypeInductive == TypeOK /\ [Next]_vars => TypeOK'
<1> SUFFICES ASSUME TypeOK, [Next]_vars PROVE TypeOK'
  OBVIOUS
<1> USE OversightAssumption DEF TypeOK, Decisions
<1>1. ASSUME NEW t \in Tasks, Expire(t) PROVE TypeOK'
  BY <1>1 DEF Expire, row
<1>2. ASSUME NEW t \in Tasks, InsertTask(t) PROVE TypeOK'
  BY <1>2 DEF InsertTask
<1>3. ASSUME NEW t \in Tasks, AnnouncePending(t) PROVE TypeOK'
  <2>1. push' \in [Tasks -> {"none", "inserted", "answered", "failed"}]
    BY <1>3 DEF AnnouncePending
  <2>2. announced' \in [pending: SUBSET Tasks, escalated: SUBSET Tasks]
    BY <1>3 DEF AnnouncePending
  <2>3. client' \in [Tasks -> Pollers]
    BY <1>3, ClientMoves DEF AnnouncePending, Pollers
  <2>4. QED
    BY <1>3, <2>1, <2>2, <2>3 DEF AnnouncePending, row, Pollers
<1>4. ASSUME NEW t \in Tasks, PushFails(t) PROVE TypeOK'
  BY <1>4 DEF PushFails, row
<1>5. ASSUME NEW r \in Reviewers, NEW t \in Tasks, ClaimTask(r, t) PROVE TypeOK'
  BY <1>5 DEF ClaimTask, row
<1>6. ASSUME NEW r \in Reviewers, NEW t \in Tasks, NEW d \in Decisions, SubmitReview(r, t, d)
      PROVE TypeOK'
  BY <1>6 DEF SubmitReview
<1>7. ASSUME NEW r \in Reviewers, ReleaseTask(r) PROVE TypeOK'
  BY <1>7 DEF ReleaseTask, row
<1>8. CASE MonitorWakes
  BY <1>8 DEF MonitorWakes, row
<1>9. CASE MonitorEscalates
  BY <1>9 DEF MonitorEscalates, Overdue
<1>10. ASSUME NEW t \in Tasks, MonitorPublishes(t) PROVE TypeOK'
  BY <1>10 DEF MonitorPublishes, row
<1>11. CASE MonitorSleeps
  BY <1>11 DEF MonitorSleeps, Asleep, row
<1>12. CASE MonitorFails
  BY <1>12 DEF MonitorFails, Asleep, row
<1>13. ASSUME NEW t \in Tasks, ReturnDecision(t) PROVE TypeOK'
  <2>1. client' \in [Tasks -> Pollers]
    BY <1>13, ClientMoves DEF ReturnDecision, Decided, Pollers
  <2>2. QED
    BY <1>13, <2>1 DEF ReturnDecision, row, Pollers
<1>14. ASSUME NEW t \in Tasks, PollAgain(t) PROVE TypeOK'
  BY <1>14 DEF PollAgain, row
<1>15. ASSUME NEW t \in Tasks, TimeOut(t) PROVE TypeOK'
  BY <1>15 DEF TimeOut, row
<1>16. ASSUME NEW t \in Tasks, PollFails(t) PROVE TypeOK'
  BY <1>16 DEF PollFails, row
<1>17. CASE UNCHANGED vars
  BY <1>17 DEF vars
<1>18. QED
  BY <1>1, <1>2, <1>3, <1>4, <1>5, <1>6, <1>7, <1>8, <1>9, <1>10, <1>11, <1>12,
     <1>13, <1>14, <1>15, <1>16, <1>17
     DEF Next, Gateway, Reviewing, Monitoring, Waiting

LEMMA InitIInv == Init => IInv
<1> SUFFICES ASSUME Init PROVE IInv
  OBVIOUS
<1> USE OversightAssumption DEF Init, Asleep
<1>1. TypeOK
  BY DEF TypeOK, Decisions
<1>2. RowIffInserted /\ ClaimsExist
  BY DEF RowIffInserted, ClaimsExist
<1>3. BatchDecided /\ EventsFollowCommit
  BY DEF BatchDecided, EventsFollowCommit
<1>4. EarnedInv
  BY DEF EarnedInv, BatchExpired, DecisionsEarned, OutcomesAreEarned, Decided, Decisions
<1>5. QED
  BY <1>1, <1>2, <1>3, <1>4 DEF IInv, RowInv

\* What a step may do to a status, whichever action it is: create a row, decide a
\* claimed task, or escalate pending ones.
LEMMA StatusSteps ==
  ASSUME IInv, [Next]_vars, NEW t \in Tasks, status'[t] # status[t]
  PROVE  /\ \/ status[t] = "absent" /\ status'[t] = "pending"
            \/ Pending(t) /\ status'[t] = "escalated" /\ MonitorEscalates
            \/ \E r \in Reviewers, d \in Decisions: SubmitReview(r, t, d)
<1> USE OversightAssumption DEF IInv, RowInv, TypeOK, row
<1>1. ASSUME NEW u \in Tasks, Expire(u) PROVE FALSE
  BY <1>1 DEF Expire
<1>2. ASSUME NEW u \in Tasks, InsertTask(u) PROVE status[t] = "absent" /\ status'[t] = "pending"
  BY <1>2 DEF InsertTask, RowIffInserted
<1>3. ASSUME NEW u \in Tasks, AnnouncePending(u) \/ PushFails(u) \/ Waiting(u) \/ PollFails(u)
      PROVE FALSE
  BY <1>3 DEF AnnouncePending, PushFails, Waiting, PollFails, ReturnDecision, PollAgain, TimeOut
<1>4. ASSUME NEW r \in Reviewers, NEW u \in Tasks, NEW d \in Decisions, SubmitReview(r, u, d)
      PROVE SubmitReview(r, t, d)
  BY <1>4 DEF SubmitReview
<1>5. ASSUME NEW r \in Reviewers, NEW u \in Tasks, ClaimTask(r, u) \/ ReleaseTask(r)
      PROVE FALSE
  BY <1>5 DEF ClaimTask, ReleaseTask
<1>6. CASE MonitorEscalates
  BY <1>6 DEF MonitorEscalates, Overdue
<1>7. ASSUME NEW u \in Tasks,
             MonitorWakes \/ MonitorPublishes(u) \/ MonitorSleeps \/ MonitorFails
      PROVE FALSE
  BY <1>7 DEF MonitorWakes, MonitorPublishes, MonitorSleeps, MonitorFails
<1>8. CASE UNCHANGED vars
  BY <1>8 DEF vars
<1>9. QED
  BY <1>1, <1>2, <1>3, <1>4, <1>5, <1>6, <1>7, <1>8
     DEF Next, Gateway, Reviewing, Monitoring

\* The row part of the invariant, action by action.
LEMMA RowInvInductive == IInv /\ [Next]_vars => RowInv'
<1> SUFFICES ASSUME IInv, [Next]_vars PROVE RowInv'
  OBVIOUS
<1> USE OversightAssumption
    DEF RowInv, IInv, TypeOK, RowIffInserted, ClaimsExist, BatchDecided, EventsFollowCommit, Decided, row
<1>1. ASSUME NEW t \in Tasks, Expire(t) PROVE RowInv'
  BY <1>1 DEF Expire
<1>2. ASSUME NEW t \in Tasks, InsertTask(t) PROVE RowInv'
  BY <1>2 DEF InsertTask, Decisions
<1>3. ASSUME NEW t \in Tasks, AnnouncePending(t) PROVE RowInv'
  BY <1>3 DEF AnnouncePending
<1>4. ASSUME NEW t \in Tasks, PushFails(t) PROVE RowInv'
  BY <1>4 DEF PushFails
<1>5. ASSUME NEW r \in Reviewers, NEW t \in Tasks, ClaimTask(r, t) PROVE RowInv'
  BY <1>5 DEF ClaimTask, Pending
<1>6. ASSUME NEW r \in Reviewers, NEW t \in Tasks, NEW d \in Decisions, SubmitReview(r, t, d)
      PROVE RowInv'
  <2>1. d # "absent" /\ status[t] # "absent"
    BY <1>6 DEF SubmitReview, Decisions
  <2>2. \A u \in Tasks: status'[u] = IF u = t THEN d ELSE status[u]
    BY <1>6 DEF SubmitReview
  <2>3. RowIffInserted' /\ ClaimsExist'
    BY <1>6, <2>1, <2>2 DEF SubmitReview
  <2>4. BatchDecided' /\ EventsFollowCommit'
    BY <1>6, <2>1, <2>2 DEF SubmitReview
  <2>5. QED
    BY <2>3, <2>4
<1>7. ASSUME NEW r \in Reviewers, ReleaseTask(r) PROVE RowInv'
  BY <1>7 DEF ReleaseTask
<1>8. CASE MonitorWakes
  BY <1>8 DEF MonitorWakes
<1>9. CASE MonitorEscalates
  <2>1. \A t \in Tasks: status'[t] = IF t \in Overdue THEN "escalated" ELSE status[t]
    BY <1>9 DEF MonitorEscalates
  <2>2. \A t \in Overdue: Pending(t)
    BY DEF Overdue
  <2>3. RowIffInserted' /\ ClaimsExist'
    BY <1>9, <2>1, <2>2 DEF MonitorEscalates, Pending
  <2>4. BatchDecided' /\ EventsFollowCommit'
    BY <1>9, <2>1 DEF MonitorEscalates, Overdue, Decisions
  <2>5. QED
    BY <2>3, <2>4
<1>10. ASSUME NEW t \in Tasks, MonitorPublishes(t) PROVE RowInv'
  BY <1>10 DEF MonitorPublishes
<1>11. CASE MonitorSleeps
  BY <1>11 DEF MonitorSleeps, Asleep
<1>12. CASE MonitorFails
  BY <1>12 DEF MonitorFails, Asleep
<1>13. ASSUME NEW t \in Tasks, Waiting(t) \/ PollFails(t) PROVE RowInv'
  BY <1>13 DEF Waiting, ReturnDecision, PollAgain, TimeOut, PollFails
<1>14. CASE UNCHANGED vars
  BY <1>14 DEF vars
<1>15. QED
  BY <1>1, <1>2, <1>3, <1>4, <1>5, <1>6, <1>7, <1>8, <1>9, <1>10, <1>11, <1>12, <1>13, <1>14
     DEF Next, Gateway, Reviewing, Monitoring

\* The part about outcomes: every decision has a reviewer or an expired limit behind
\* it, and none loses it.
LEMMA EarnedInvInductive == IInv /\ [Next]_vars => EarnedInv'
<1> SUFFICES ASSUME IInv, [Next]_vars PROVE EarnedInv'
  OBVIOUS
<1> USE OversightAssumption
    DEF IInv, EarnedInv, TypeOK, BatchExpired, DecisionsEarned, OutcomesAreEarned, Decided, row
<1>1. ASSUME NEW t \in Tasks, Expire(t) PROVE EarnedInv'
  BY <1>1 DEF Expire
<1>2. ASSUME NEW t \in Tasks, InsertTask(t) PROVE EarnedInv'
  BY <1>2 DEF InsertTask, Decisions
<1>3. ASSUME NEW t \in Tasks, AnnouncePending(t) PROVE EarnedInv'
  BY <1>3 DEF AnnouncePending
<1>4. ASSUME NEW t \in Tasks, PushFails(t) PROVE EarnedInv'
  BY <1>4 DEF PushFails
<1>5. ASSUME NEW r \in Reviewers, NEW t \in Tasks, ClaimTask(r, t) PROVE EarnedInv'
  BY <1>5 DEF ClaimTask
<1>6. ASSUME NEW r \in Reviewers, NEW t \in Tasks, NEW d \in Decisions, SubmitReview(r, t, d)
      PROVE EarnedInv'
  BY <1>6 DEF SubmitReview
<1>7. ASSUME NEW r \in Reviewers, ReleaseTask(r) PROVE EarnedInv'
  BY <1>7 DEF ReleaseTask
<1>8. CASE MonitorWakes
  BY <1>8 DEF MonitorWakes
<1>9. CASE MonitorEscalates
  BY <1>9 DEF MonitorEscalates, Overdue, Pending, Decisions
<1>10. ASSUME NEW t \in Tasks, MonitorPublishes(t) PROVE EarnedInv'
  BY <1>10 DEF MonitorPublishes
<1>11. CASE MonitorSleeps
  BY <1>11 DEF MonitorSleeps, Asleep
<1>12. CASE MonitorFails
  BY <1>12 DEF MonitorFails, Asleep
<1>13. ASSUME NEW t \in Tasks, ReturnDecision(t) PROVE EarnedInv'
  BY <1>13 DEF ReturnDecision
<1>14. ASSUME NEW t \in Tasks, PollAgain(t) \/ TimeOut(t) \/ PollFails(t) PROVE EarnedInv'
  BY <1>14 DEF PollAgain, TimeOut, PollFails
<1>15. CASE UNCHANGED vars
  BY <1>15 DEF vars
<1>16. QED
  BY <1>1, <1>2, <1>3, <1>4, <1>5, <1>6, <1>7, <1>8, <1>9, <1>10, <1>11, <1>12, <1>13, <1>14, <1>15
     DEF Next, Gateway, Reviewing, Monitoring, Waiting

LEMMA InductiveIInv == IInv /\ [Next]_vars => IInv'
BY TypeInductive, RowInvInductive, EarnedInvInductive DEF IInv

\* The invariant holds in every reachable state.
THEOREM Invariance == Spec => []IInv
BY InitIInv, InductiveIInv, PTL DEF Spec

\* Every variable always holds a value of the kind the code gives it.
THEOREM TypeCorrect == Spec => []TypeOK
<1>1. IInv => TypeOK
  BY DEF IInv
<1>2. QED
  BY <1>1, Invariance, PTL

\* No dashboard event runs ahead of the commit it announces.
THEOREM EventsCorrect == Spec => []EventsFollowCommit
<1>1. IInv => EventsFollowCommit
  BY DEF IInv, RowInv
<1>2. QED
  BY <1>1, Invariance, PTL

\* Whatever the SDK told an agent, a reviewer or an expired limit still stands behind it.
THEOREM OutcomesCorrect == Spec => []OutcomesAreEarned
<1>1. IInv => OutcomesAreEarned
  BY DEF IInv, EarnedInv
<1>2. QED
  BY <1>1, Invariance, PTL
-----------------------------------------------------------------------------
\* A decision changes only by the write of a request that had claimed the task.
LEMMA OnlyClaimantsReplace ==
  ASSUME IInv, [Next]_vars, NEW t \in Tasks, Decided(t), status'[t] # status[t]
  PROVE  \E r \in Reviewers: claim[r] = t /\ reviewer'[t] = r
<1>1. PICK r \in Reviewers, d \in Decisions: SubmitReview(r, t, d)
  BY StatusSteps DEF Decided, Pending, Decisions
<1>2. claim[r] = t /\ reviewer'[t] = r
  BY <1>1 DEF SubmitReview, IInv, TypeOK
<1>3. QED
  BY <1>2

\* Only a reviewer who read the task as pending replaces a decision; the escalation
\* loop never does, and the record names who did.
THEOREM ReplacementCorrect == Spec => DecisionReplacedByClaimant
<1>1. IInv /\ [Next]_vars =>
        [\A t \in Tasks: Decided(t) /\ status'[t] # status[t] =>
           \E r \in Reviewers: claim[r] = t /\ reviewer'[t] = r]_vars
  BY OnlyClaimantsReplace
<1>2. QED
  BY <1>1, Invariance, PTL DEF Spec, DecisionReplacedByClaimant

LEMMA SettledStays ==
  ASSUME IInv, [Next]_vars, NEW t \in Tasks, Settled(t)
  PROVE  /\ status'[t] = status[t]
         /\ reviewer'[t] = reviewer[t]
         /\ \A r \in Reviewers: claim'[r] # t
<1> USE OversightAssumption DEF IInv, TypeOK, Settled, row
<1>1. status'[t] = status[t]
  BY OnlyClaimantsReplace
<1>2. ASSUME NEW r \in Reviewers, NEW u \in Tasks, NEW d \in Decisions, SubmitReview(r, u, d)
      PROVE reviewer'[t] = reviewer[t] /\ \A q \in Reviewers: claim'[q] # t
  BY <1>2 DEF SubmitReview
<1>3. ASSUME NEW r \in Reviewers, NEW u \in Tasks, ClaimTask(r, u)
      PROVE reviewer'[t] = reviewer[t] /\ \A q \in Reviewers: claim'[q] # t
  BY <1>3 DEF ClaimTask, Pending, Decided, Decisions
<1>4. ASSUME NEW r \in Reviewers, ReleaseTask(r)
      PROVE reviewer'[t] = reviewer[t] /\ \A q \in Reviewers: claim'[q] # t
  BY <1>4 DEF ReleaseTask
<1>5. CASE UNCHANGED <<reviewer, claim>>
  BY <1>1, <1>5
<1>6. ASSUME NEW u \in Tasks, Expire(u) \/ Gateway(u) \/ Waiting(u) \/ PollFails(u)
      PROVE UNCHANGED <<reviewer, claim>>
  <2>1. CASE Expire(u) \/ Gateway(u)
    BY <2>1 DEF Expire, Gateway, InsertTask, AnnouncePending, PushFails
  <2>2. CASE Waiting(u) \/ PollFails(u)
    BY <2>2 DEF Waiting, ReturnDecision, PollAgain, TimeOut, PollFails
  <2>3. QED
    BY <1>6, <2>1, <2>2
<1>7. ASSUME Monitoring PROVE UNCHANGED <<reviewer, claim>>
  <2>1. CASE MonitorEscalates
    BY <2>1 DEF MonitorEscalates
  <2>2. CASE MonitorWakes \/ MonitorSleeps \/ MonitorFails \/ \E u \in Tasks: MonitorPublishes(u)
    BY <2>2 DEF MonitorWakes, MonitorPublishes, MonitorSleeps, MonitorFails
  <2>3. QED
    BY <1>7, <2>1, <2>2 DEF Monitoring
<1>8. CASE UNCHANGED vars
  BY <1>8 DEF vars
<1>9. QED
  BY <1>1, <1>2, <1>3, <1>4, <1>5, <1>6, <1>7, <1>8 DEF Next, Reviewing

\* Once no request that saw the task as pending is in flight, its decision and its
\* reviewer stay as they are for good.
THEOREM SettledCorrect == Spec => SettledDecisionStands
<1>1. IInv /\ [Next]_vars =>
        [\A t \in Tasks: Settled(t) =>
           /\ status'[t] = status[t]
           /\ reviewer'[t] = reviewer[t]
           /\ \A r \in Reviewers: claim'[r] # t]_vars
  BY SettledStays
<1>2. QED
  BY <1>1, Invariance, PTL DEF Spec, SettledDecisionStands
-----------------------------------------------------------------------------
Holders == [t \in Tasks |-> {r \in Reviewers: claim[r] = t}]

\* A step that leaves the statuses and the claims alone is a stutter of the life cycle.
LEMMA LifecycleStutter ==
  ASSUME UNCHANGED <<status, claim>>
  PROVE  UNCHANGED <<status, Holders>>
BY DEF Holders

\* A request that ends holds its task no longer.
LEMMA HolderGone ==
  ASSUME TypeOK, NEW t \in Tasks, NEW r \in Reviewers, claim[r] = t,
         claim' = [claim EXCEPT ![r] = NoTask]
  PROVE  Holders' = [Holders EXCEPT ![t] = @ \ {r}]
<1> USE OversightAssumption DEF TypeOK
<1>1. \A q \in Reviewers: claim'[q] = IF q = r THEN NoTask ELSE claim[q]
  OBVIOUS
<1>2. ASSUME NEW u \in Tasks
      PROVE  {q \in Reviewers: claim'[q] = u} =
               IF u = t THEN {q \in Reviewers: claim[q] = t} \ {r}
                        ELSE {q \in Reviewers: claim[q] = u}
  BY <1>1
<1>3. QED
  BY <1>2 DEF Holders

LEMMA LifecycleStep ==
  ASSUME IInv, [Next]_vars
  PROVE  [Lifecycle!Next]_<<status, Holders>>
<1> USE OversightAssumption DEF IInv, TypeOK, row
<1>1. ASSUME NEW t \in Tasks, InsertTask(t) PROVE Lifecycle!Create(t)
  BY <1>1 DEF InsertTask, RowInv, RowIffInserted, Lifecycle!Create
<1>2. ASSUME NEW r \in Reviewers, NEW t \in Tasks, ClaimTask(r, t) PROVE Lifecycle!Hold(r, t)
  <2>1. \A q \in Reviewers: claim'[q] = IF q = r THEN t ELSE claim[q]
    BY <1>2 DEF ClaimTask
  <2>2. claim[r] = NoTask
    BY <1>2 DEF ClaimTask
  <2>3. ASSUME NEW u \in Tasks
        PROVE {q \in Reviewers: claim'[q] = u} =
                IF u = t THEN {q \in Reviewers: claim[q] = t} \union {r}
                         ELSE {q \in Reviewers: claim[q] = u}
    BY <2>1, <2>2
  <2>4. Holders' = [Holders EXCEPT ![t] = @ \union {r}]
    BY <2>3 DEF Holders
  <2>5. QED
    BY <1>2, <2>4 DEF ClaimTask, Pending, Holders, Lifecycle!Hold
<1>3. ASSUME NEW r \in Reviewers, NEW t \in Tasks, NEW d \in Decisions, SubmitReview(r, t, d)
      PROVE Lifecycle!Decide(r, t, d)
  <2>1. Holders' = [Holders EXCEPT ![t] = @ \ {r}]
    BY <1>3, HolderGone DEF SubmitReview
  <2>2. QED
    BY <1>3, <2>1 DEF SubmitReview, Holders, Lifecycle!Decide
<1>4. ASSUME NEW r \in Reviewers, ReleaseTask(r)
      PROVE \E t \in Tasks: Lifecycle!Leave(r, t)
  <2>1. PICK t \in Tasks: claim[r] = t
    BY <1>4 DEF ReleaseTask
  <2>2. Holders' = [Holders EXCEPT ![t] = @ \ {r}]
    BY <1>4, <2>1, HolderGone DEF ReleaseTask
  <2>3. Lifecycle!Leave(r, t)
    BY <1>4, <2>1, <2>2 DEF ReleaseTask, Holders, Lifecycle!Leave
  <2>4. QED
    BY <2>3
<1>5. CASE MonitorEscalates
  <2>1. Lifecycle!Escalate(Overdue)
    BY <1>5, LifecycleStutter DEF MonitorEscalates, Overdue, Pending, Holders, Lifecycle!Escalate
  <2>2. QED
    BY <2>1 DEF Overdue, Lifecycle!Next
<1>6. CASE UNCHANGED <<status, claim>>
  BY <1>6, LifecycleStutter
<1>7. ASSUME NEW t \in Tasks,
             Expire(t) \/ AnnouncePending(t) \/ PushFails(t) \/ Waiting(t) \/ PollFails(t)
      PROVE UNCHANGED <<status, claim>>
  <2>1. CASE Expire(t) \/ AnnouncePending(t) \/ PushFails(t)
    BY <2>1 DEF Expire, AnnouncePending, PushFails
  <2>2. CASE Waiting(t) \/ PollFails(t)
    BY <2>2 DEF Waiting, ReturnDecision, PollAgain, TimeOut, PollFails
  <2>3. QED
    BY <1>7, <2>1, <2>2
<1>8. ASSUME MonitorWakes \/ MonitorSleeps \/ MonitorFails \/ \E t \in Tasks: MonitorPublishes(t)
      PROVE UNCHANGED <<status, claim>>
  BY <1>8 DEF MonitorWakes, MonitorPublishes, MonitorSleeps, MonitorFails
<1>9. ASSUME UNCHANGED vars PROVE UNCHANGED <<status, claim>>
  BY <1>9 DEF vars
<1>10. Lifecycle!Decisions = Decisions
  BY DEF Decisions, Lifecycle!Decisions
<1>11. ASSUME NEW t \in Tasks, Gateway(t) PROVE Lifecycle!Next \/ UNCHANGED <<status, Holders>>
  BY <1>1, <1>7, <1>11, LifecycleStutter DEF Gateway, Lifecycle!Next
<1>12. ASSUME NEW r \in Reviewers, NEW t \in Tasks, Reviewing(r, t) PROVE Lifecycle!Next
  BY <1>2, <1>3, <1>10, <1>12 DEF Reviewing, Lifecycle!Next
<1>13. ASSUME NEW r \in Reviewers, ReleaseTask(r) PROVE Lifecycle!Next
  BY <1>4, <1>13 DEF Lifecycle!Next
<1>14. QED
  BY <1>5, <1>7, <1>8, <1>9, <1>11, <1>12, <1>13, LifecycleStutter DEF Next, Monitoring

\* The queue, with its gateway, requests, escalation loop and pollers, implements the
\* life cycle of a task that OversightLifecycle promises.
THEOREM Refinement == Spec => ImplementsLifecycle
<1>1. Init => Lifecycle!Init
  BY OversightAssumption DEF Init, Lifecycle!Init
<1>2. IInv /\ [Next]_vars => [Lifecycle!Next]_<<status, Holders>>
  BY LifecycleStep
<1>3. QED
  BY <1>1, <1>2, Invariance, PTL DEF Spec, ImplementsLifecycle, Lifecycle!Spec, Holders
=============================================================================
