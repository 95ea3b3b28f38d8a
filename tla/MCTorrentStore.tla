--------------------------- MODULE MCTorrentStore ---------------------------
(***************************************************************************)
(* A small instance of TorrentStore.  The Torrent objects of the program   *)
(* are told apart by nothing but their identity, and TorrentStore chooses  *)
(* none of them by CHOOSE, so they may be exchanged.                       *)
(***************************************************************************)
EXTENDS TorrentStore, TLC

AnyObject == Permutations(Object)
=============================================================================
