------------------------ MODULE MCTorrentDownloader ------------------------
(* The instances of TorrentDownloader that TLC explores. *)
EXTENDS TorrentDownloader, TLC

\* Connection objects and peers are interchangeable.
Symmetry == Permutations(Conn) \cup Permutations(Peer)
=============================================================================
