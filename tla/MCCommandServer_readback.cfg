CONSTANTS
  MaxConns = 1
  First = 1
  Second = 0
  NumNetconn = 4
  AcceptMbox = 10
  RecvMbox = 10
  Packets = 192
  PackWords = 512
  CounterValues = 65536
  DataWords = 5
  Tail5E5D = 9
  MaxSent <- MCMaxSent
SPECIFICATION Spec
INVARIANT ReadbackExact
CHECK_DEADLOCK FALSE
