\* Two clients of one torrent on three descriptors.
SPECIFICATION Spec
CONSTANTS
  Client = {p1, p2}
  Torrent = {t1}
  None = None
  MaxConn = 3
  PeerLimit = 1
  Width = 4
SYMMETRY Symmetry
INVARIANTS
  ListedIsAnnounced
  CountersCoverList
  Registered
  OwnAddress
  AnswerTellsAll
