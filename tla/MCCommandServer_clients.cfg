CONSTANTS
  NumNetconn = 3
  AcceptMbox = 2
  RecvMbox = 1
  MaxConns = 3
  First = 1
  Second = 2
  Packets = 2
  PackWords = 2
  CounterValues = 5
  DataWords = 5
  Tail5E5D = 9
  MaxSent <- MCMaxSent
SPECIFICATION FairSpec
INVARIANT TypeOK
INVARIANT NetconnsAccounted
INVARIANT NothingSkipped
INVARIANT RepliesMatch
INVARIANT JudgedByItself
INVARIANT ReadbackExact
PROPERTY ServesInTurn
PROPERTY LeavesGoneClient
PROPERTY DataTaken
CHECK_DEADLOCK FALSE
