CONSTANTS
  SeqSpace = 16
  Mss = 2
  RxWinSize = 4
  TxBufferSize = 3
  LocalIsn = 14
  PeerIsn = 13
  PeerTotals = {1, 4}
  AppBytes = 4
  ReadLens = {1, 4}
  WriteLens = {4}
SPECIFICATION TcpSpec
INVARIANTS StreamsIntact RefsExact NothingStranded OnlyTwoAssertsFail
CHECK_DEADLOCK FALSE
