\* Two tasks, so that one loop iteration escalates a batch; two reviewers, so
\* that two requests can hold the same task.
CONSTANTS
  Tasks = {t1, t2}
  Reviewers = {r1, r2}
  NoTask = none
  NoReviewer = nobody
  MaxPolls = 1
SPECIFICATION FairSpec
INVARIANTS TypeOK EventsFollowCommit OutcomesAreEarned
PROPERTIES EveryTaskDecided SettledDecisionStands DecisionReplacedByClaimant ImplementsLifecycle
