\* Two pieces, the first of two blocks; two connections with one peer.
SPECIFICATION Spec
CONSTANTS
  PageBits = 3
  NumPieces = 2
  PieceSize = 2
  FileSize = 3
  BlockLen = 1
  Conn = {c1, c2}
  Peer = {p1}
  NoPeer = NoPeer
  MaxConn = 1
  MaxRetransmissions = 0
  CountCap = 2
  DownloadCap = 4
SYMMETRY Symmetry
INVARIANTS
  NoPieceLost
  NoPieceTwice
  TotalIsOwned
  OwnedIsOnDisk
  CleanFragment
  NoIdleInterest
PROPERTY GainedFromAdvertiser
