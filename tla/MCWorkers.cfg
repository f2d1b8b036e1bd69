SPECIFICATION FairSpec
CONSTANTS
  Client = {c1, c2}
  Nobody = Nobody
  Blank = Blank
  Nothing = Nothing
  Failed = Failed
  MaxFd = 2
  MaxWorker = 3
  Mode <- AllModes
INVARIANTS
  TypeOK
  OneByOneEachHasItsWorker
  AnswersToAsker
  AnswersMatchRequests
PROPERTIES
  RequestsAnswered
  SocketsReclaimed
  ThreadsEnd
