CONSTANTS
  Tasks = {t1}
  Reviewers = {r1, r2}
  NoTask = none
  NoReviewer = nobody
  MaxPolls = 1
SPECIFICATION Spec
PROPERTY DecisionIsFinal
