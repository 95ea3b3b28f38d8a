\* One piece of one block; three connections with two peers.
SPECIFICATION Spec
CONSTANTS
  PageBits = 2
  NumPieces = 1
  PieceSize = 1
  FileSize = 1
  BlockLen = 1
  Conn = {c1, c2, c3}
  Peer = {p1, p2}
  NoPeer = NoPeer
  MaxConn = 2
  MaxRetransmissions = 0
  CountCap = 2
  DownloadCap = 1
SYMMETRY Symmetry
INVARIANTS
  TypeOK
  CountCovers
  NoPhantomPeer
