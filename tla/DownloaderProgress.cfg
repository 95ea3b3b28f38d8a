\* Two pieces of one block; two connections with one peer.
SPECIFICATION FairSpec
CONSTANTS
  PageBits = 3
  NumPieces = 2
  PieceSize = 1
  FileSize = 2
  BlockLen = 1
  Conn = {c1, c2}
  Peer = {p1}
  NoPeer = NoPeer
  MaxConn = 1
  MaxRetransmissions = 0
  CountCap = 2
  DownloadCap = 2
PROPERTY EventuallyComplete
