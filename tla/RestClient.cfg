SPECIFICATION Spec
CONSTANTS
  p1 = p1
  p2 = p2
  p3 = p3
  NoPage = NoPage
  Page <- MCPage
  FirstPage = p1
  Status <- MCStatus
  Retries = 1
  RetryOnStatus <- MCRetryOnStatus
INVARIANTS
  TypeOK
  PostRepeatedOnlyUnanswered
  AbortStopsRequests
  WalkIsSound
