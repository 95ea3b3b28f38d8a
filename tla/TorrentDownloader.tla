-------------------------- MODULE TorrentDownloader --------------------------
(***************************************************************************)
(* One torrent of one client: the downloader (Client/TorrentDownloader.cpp)*)
(* and the connections to other peers it owns (Client/PeerConnection.cpp). *)
(* Everything here runs on the client's event loop, so a slot and all the  *)
(* slots it calls are one action.  A connection object outlives its        *)
(* deleteLater() until the loop runs the posted deletion (Destroy), and    *)
(* events of other connections that were ready in the same round of the    *)
(* loop are handled in between.                                            *)
(*                                                                         *)
(* Connection objects are the elements of Conn; one whose socket is "free" *)
(* does not exist, and holds the values its constructor gives.             *)
(***************************************************************************)
EXTENDS Integers, FiniteSets

CONSTANTS
  PageBits,            \* bits of one page of a BitSet, 8 in the program
  NumPieces,           \* number of pieces of the torrent
  PieceSize,           \* size of every piece but the last
  FileSize,            \* size of the file
  BlockLen,            \* downloadLength, the most that is requested at once
  Conn,                \* connection objects that can exist at a time
  Peer,                \* ids of the other clients
  NoPeer,              \* the empty id of a connection before its handshake
  MaxConn,             \* maxConn, 30 in the program
  MaxRetransmissions,  \* 3 in the program
  CountCap,            \* bound: no connection is accepted at this count
  DownloadCap          \* bound: no piece is finished beyond this total

ASSUME SizeAssumption ==
  /\ PageBits \in Nat \ {0} /\ NumPieces \in Nat \ {0}
  /\ PieceSize \in Nat \ {0} /\ BlockLen \in Nat \ {0} /\ FileSize \in Nat
  /\ (NumPieces - 1) * PieceSize < FileSize
  /\ FileSize <= (NumPieces - 1) * PieceSize + PieceSize

ASSUME ConnAssumption ==
  /\ IsFiniteSet(Conn) /\ IsFiniteSet(Peer) /\ NoPeer \notin Peer
  /\ MaxConn \in Nat \ {0} /\ MaxRetransmissions \in Nat
  /\ CountCap \in Nat /\ DownloadCap \in Nat

VARIABLES
  pieces,           \* the pieces this client owns (Torrent's pieceStatus)
  piecesToDownload, \* the pieces no connection has been told to download
  downloaded,       \* downloadedSinceStart
  announced,        \* has tracker->completeRequest() been called?
  onDisk,           \* pieces whose verified data reached the file
  fileMode,         \* how the file is open: "fresh" and "rw" take writes
  availablePeers,   \* peers listed by the tracker, not yet dialled
  connectedPeers,   \* ids of the peers whose handshake was accepted
  connectionCount,  \* downloadStatus.connectionCount
  returned,         \* history: has a piece been given back?  See below.
  socket,           \* per connection: "free", "connecting", "open", "closed"
  doomed,           \* per connection: has deleteLater() been called?
  peerId,           \* per connection: the peer's id, NoPeer while the
                    \*   connectTimer runs
  havePieces,       \* per connection: the pieces the peer advertised
  isDownloading,    \* per connection: is a piece assigned to it?
  download_index,   \* per connection: the piece last assigned
  fragBuff,         \* per connection: how much of it has been received
  intact,           \* per connection: has all of that been what was hashed?
  retransmisions    \* per connection: how often the piece came out wrong

fileVars == <<pieces, downloaded, announced, onDisk, fileMode>>
poolVars == <<availablePeers, connectedPeers, connectionCount>>
lifeVars == <<socket, doomed>>
taskVars == <<isDownloading, download_index, retransmisions>>
fragVars == <<fragBuff, intact>>
vars == <<fileVars, poolVars, lifeVars, taskVars, fragVars,
          piecesToDownload, returned, peerId, havePieces>>

-----------------------------------------------------------------------------
B == INSTANCE BitSet WITH Size <- NumPieces

Pieces == 0 .. NumPieces - 1

LastPiece == NumPieces - 1

LastSize == FileSize - LastPiece * PieceSize

\* A mutation: the last piece is taken for a full one.
PieceLenFull(i) == PieceSize

\* getPieceSize
PieceLen(i) == IF i = LastPiece THEN LastSize ELSE PieceSize

\* calculateDownloadedSize, for any set of pieces.
SizeOf(S) == Cardinality(S \ {LastPiece}) * PieceSize
             + (IF LastPiece \in S THEN LastSize ELSE 0)

Complete == pieces = Pieces

FreeSlots == {c \in Conn : socket[c] = "free"}

\* The objects that have not learnt their peer's id.
Unidentified == {c \in Conn : socket[c] # "free" /\ peerId[c] = NoPeer}

\* The pieces the connections of S are to download.
TaskOf(S) == {download_index[c] : c \in {d \in S : isDownloading[d]}}

\* returned records the worst way a piece was given back: "clean" by a
\* connection that is no longer marked as downloading, "dirty" by one that
\* still is, and that gives the piece back once more when it is destroyed.
Worse(how) == IF returned = "dirty" THEN "dirty" ELSE how

Init ==
  /\ pieces \in SUBSET Pieces
  /\ piecesToDownload = B!Complement(pieces)
  /\ downloaded = SizeOf(pieces)
  /\ announced = FALSE
  /\ onDisk = pieces
  /\ fileMode = "fresh"
  /\ availablePeers = {}
  /\ connectedPeers = {}
  /\ connectionCount = 0
  /\ returned = "never"
  /\ socket = [c \in Conn |-> "free"]
  /\ doomed = [c \in Conn |-> FALSE]
  /\ peerId = [c \in Conn |-> NoPeer]
  /\ havePieces = [c \in Conn |-> {}]
  /\ isDownloading = [c \in Conn |-> FALSE]
  /\ download_index = [c \in Conn |-> 0]
  /\ fragBuff = [c \in Conn |-> 0]
  /\ intact = [c \in Conn |-> TRUE]
  /\ retransmisions = [c \in Conn |-> 0]

-----------------------------------------------------------------------------
(***************************************************************************)
(* The pool of connections.                                                *)
(***************************************************************************)

\* connectionManager: dial peers of avail, through the objects new, until the
\* count is maxConn or no peer is left.
ConnectionManager(avail, count, new) ==
  \E dialled \in SUBSET avail :
    /\ new \subseteq FreeSlots /\ Cardinality(new) = Cardinality(dialled)
    /\ dialled # {} => count + Cardinality(dialled) <= MaxConn
    /\ dialled # avail => count + Cardinality(dialled) >= MaxConn
    /\ availablePeers' = avail \ dialled
    /\ connectionCount' = count + Cardinality(new)

\* The calls of connectionManager that are made only for a missing piece.
Refill(count, new) ==
  IF Complete
  THEN new = {} /\ availablePeers' = availablePeers /\ connectionCount' = count
  ELSE ConnectionManager(availablePeers, count, new)

\* A mutation: the count goes down whether or not an id was erased.
CloseConnectionUnchecked(p, new) ==
  /\ connectedPeers' = connectedPeers \ {p}
  /\ Refill(connectionCount - 1, new)

\* A mutation: the id is not erased.
CloseConnectionKeepsId(p, new) ==
  /\ connectedPeers' = connectedPeers
  /\ Refill(connectionCount - Cardinality(connectedPeers \cap {p}), new)

\* closeConnection: the count goes down by what the erase returns, and the
\* erase is by id, whichever connection the id was inserted for.
CloseConnection(p, new) ==
  /\ connectedPeers' = connectedPeers \ {p}
  /\ Refill(connectionCount - Cardinality(connectedPeers \cap {p}), new)

\* A mutation: the bits are reset instead of set.
OnDownloadCanceledReset(S, how) ==
  /\ piecesToDownload' = piecesToDownload \ TaskOf(S)
  /\ returned' = IF TaskOf(S) = {} THEN returned ELSE Worse(how)

\* onDownloadCanceled, for what the connections of S are to download.
OnDownloadCanceled(S, how) ==
  /\ piecesToDownload' = piecesToDownload \cup TaskOf(S)
  /\ returned' = IF TaskOf(S) = {} THEN returned ELSE Worse(how)

\* PeerConnection::onDisconnection.  isDownloading keeps its value.
OnDisconnection(c, p) ==
  /\ OnDownloadCanceled({c}, "dirty")
  /\ doomed' = [doomed EXCEPT ![c] = TRUE]
  /\ \E new \in SUBSET FreeSlots :
       /\ CloseConnection(p, new)
       /\ socket' = [d \in Conn |-> IF d \in new THEN "connecting"
                                    ELSE IF d = c THEN "closed" ELSE socket[d]]

\* Posted deletions run when a round of the event loop ends.  A connection that
\* comes up in a round gets its first event in a later one, so coming up is
\* taken after the deletions.
RoundEnded == \A d \in Conn : ~doomed[d]

\* onNewConnection: a peer connected to the listening socket.
OnNewConnection(c) ==
  /\ socket[c] = "free" /\ RoundEnded
  /\ connectionCount < CountCap
  /\ socket' = [socket EXCEPT ![c] = "open"]
  /\ connectionCount' = connectionCount + 1
  /\ UNCHANGED <<fileVars, taskVars, fragVars, availablePeers, connectedPeers,
                 doomed, piecesToDownload, returned, peerId, havePieces>>

\* updatePeerList: the tracker's answer lists the peers of listed.  The look-up in
\* connectedPeers never succeeds: an id is read through c_str(), which cuts it at
\* its first zero byte, and the ids of handshakes have all 20 bytes.
UpdatePeerList(listed) ==
  LET fresh == listed \ availablePeers IN
  /\ fresh # {}
  /\ \E new \in SUBSET FreeSlots :
       /\ ConnectionManager(availablePeers \cup fresh, connectionCount, new)
       /\ socket' = [d \in Conn |-> IF d \in new THEN "connecting" ELSE socket[d]]
  /\ UNCHANGED <<fileVars, taskVars, fragVars, connectedPeers, doomed,
                 piecesToDownload, returned, peerId, havePieces>>

\* The dialled peer accepted; handshake() is sent.
Connected(c) ==
  /\ socket[c] = "connecting" /\ RoundEnded
  /\ socket' = [socket EXCEPT ![c] = "open"]
  /\ UNCHANGED <<fileVars, poolVars, taskVars, fragVars, doomed,
                 piecesToDownload, returned, peerId, havePieces>>

\* The socket reports an error, the peer closes, or the connectTimer runs out
\* before the peer's handshake: all three lead to onDisconnection.
Disconnected(c) ==
  /\ socket[c] \in {"connecting", "open"}
  /\ OnDisconnection(c, peerId[c])
  /\ UNCHANGED <<fileVars, taskVars, fragVars, peerId, havePieces>>

-----------------------------------------------------------------------------
(***************************************************************************)
(* Messages, as readData handles them.                                     *)
(***************************************************************************)

\* '0' for this torrent from a peer that is not connected yet.
HandshakeAccepted(c, p) ==
  /\ socket[c] = "open" /\ peerId[c] = NoPeer
  /\ p \notin connectedPeers
  /\ peerId' = [peerId EXCEPT ![c] = p]
  /\ connectedPeers' = connectedPeers \cup {p}
  /\ UNCHANGED <<fileVars, lifeVars, taskVars, fragVars, availablePeers,
                 connectionCount, piecesToDownload, returned, havePieces>>

\* '0' for this torrent from a peer that is connected already: the object is
\* told to go, its socket stays open until it does.
HandshakeDuplicate(c, p) ==
  /\ socket[c] = "open" /\ peerId[c] = NoPeer
  /\ p \in connectedPeers
  /\ peerId' = [peerId EXCEPT ![c] = p]
  /\ doomed' = [doomed EXCEPT ![c] = TRUE]
  /\ \E new \in SUBSET FreeSlots :
       /\ Refill(connectionCount - 1, new)
       /\ socket' = [d \in Conn |-> IF d \in new THEN "connecting" ELSE socket[d]]
  /\ UNCHANGED <<fileVars, taskVars, fragVars, connectedPeers,
                 piecesToDownload, returned, havePieces>>

\* '0' for another torrent: the id is kept, and the connection closed by it.
HandshakeWrong(c, p) ==
  /\ socket[c] = "open" /\ peerId[c] = NoPeer
  /\ peerId' = [peerId EXCEPT ![c] = p]
  /\ OnDisconnection(c, p)
  /\ UNCHANGED <<fileVars, taskVars, fragVars, havePieces>>

\* c has no piece assigned.  download_index and retransmisions, which the next
\* downloadPiece() sets before they are read again, are cleared.
Idle(c) ==
  /\ isDownloading' = [isDownloading EXCEPT ![c] = FALSE]
  /\ download_index' = [download_index EXCEPT ![c] = 0]
  /\ retransmisions' = [retransmisions EXCEPT ![c] = 0]

\* A mutation: pieces the peer does not have are interesting too.
InterestingAny(wanted, have) == IF have = {} THEN {} ELSE wanted

\* piecesToDownload & getPieces()
Interesting(wanted, have) == wanted \cap have

\* A mutation: the piece is not taken from those to download.
DownloadPieceKept(c, i, wanted) ==
  /\ piecesToDownload' = wanted
  /\ isDownloading' = [isDownloading EXCEPT ![c] = TRUE]
  /\ download_index' = [download_index EXCEPT ![c] = i]
  /\ retransmisions' = [retransmisions EXCEPT ![c] = 0]

\* The piece is taken from those to download, and downloadPiece called.
DownloadPiece(c, i, wanted) ==
  /\ piecesToDownload' = wanted \ {i}
  /\ isDownloading' = [isDownloading EXCEPT ![c] = TRUE]
  /\ download_index' = [download_index EXCEPT ![c] = i]
  /\ retransmisions' = [retransmisions EXCEPT ![c] = 0]

\* downloadMenager for c, idle, that advertises have, when wanted is to be
\* downloaded: any interesting piece is assigned to c.
DownloadMenager(c, wanted, have) ==
  IF Interesting(wanted, have) = {}
  THEN piecesToDownload' = wanted /\ Idle(c)
  ELSE \E i \in Interesting(wanted, have) : DownloadPiece(c, i, wanted)

\* havePieces becomes S; an idle connection asks for a piece.
Advertised(c, S) ==
  /\ havePieces' = [havePieces EXCEPT ![c] = S]
  /\ IF isDownloading[c]
     THEN UNCHANGED <<taskVars, piecesToDownload>>
     ELSE DownloadMenager(c, piecesToDownload, S)
  /\ UNCHANGED <<fileVars, poolVars, lifeVars, fragVars, returned, peerId>>

\* '1': the peer's bit field, which includes what it announced before.
Bitfield(c, S) ==
  /\ socket[c] = "open" /\ peerId[c] # NoPeer
  /\ havePieces[c] \subseteq S
  /\ Advertised(c, S)

\* A mutation: an announcement does not start a download.
HaveSilent(c, i) ==
  /\ socket[c] = "open"
  /\ havePieces' = [havePieces EXCEPT ![c] = @ \cup {i}]
  /\ UNCHANGED <<fileVars, poolVars, lifeVars, taskVars, fragVars,
                 piecesToDownload, returned, peerId>>

\* '2': the peer finished piece i.  It may say so before its handshake.
Have(c, i) ==
  /\ socket[c] = "open"
  /\ Advertised(c, havePieces[c] \cup {i})

\* '4' is due on c: one block is requested at a time.
Awaiting(c) == socket[c] = "open" /\ isDownloading[c]

IsLastBlock(c) == fragBuff[c] + BlockLen >= PieceLen(download_index[c])

\* A mutation: the buffer is not emptied.
ClearFragmentKept(c) == UNCHANGED fragBuff /\ intact' = [intact EXCEPT ![c] = TRUE]

\* fragBuff = ""
ClearFragment(c) == /\ fragBuff' = [fragBuff EXCEPT ![c] = 0]
                    /\ intact' = [intact EXCEPT ![c] = TRUE]

\* '4', good or not, and more blocks to come: the next one is requested.
BlockReceived(c, good) ==
  /\ Awaiting(c) /\ ~IsLastBlock(c)
  /\ fragBuff' = [fragBuff EXCEPT ![c] = @ + BlockLen]
  /\ intact' = [intact EXCEPT ![c] = @ /\ good]
  /\ UNCHANGED <<fileVars, poolVars, lifeVars, taskVars, piecesToDownload,
                 returned, peerId, havePieces>>

\* The last block, and the hash is wrong: the piece is requested again from
\* its start, or given up; nothing else is requested from this peer then.
PieceRejected(c, good) ==
  /\ Awaiting(c) /\ IsLastBlock(c) /\ ~(intact[c] /\ good)
  /\ ClearFragment(c)
  /\ IF retransmisions[c] > MaxRetransmissions
     THEN /\ Idle(c)
          /\ havePieces' = [havePieces EXCEPT ![c] = @ \ {download_index[c]}]
          /\ OnDownloadCanceled({c}, "clean")
     ELSE /\ retransmisions' = [retransmisions EXCEPT ![c] = @ + 1]
          /\ UNCHANGED <<isDownloading, download_index, havePieces,
                         piecesToDownload, returned>>
  /\ UNCHANGED <<fileVars, poolVars, lifeVars, peerId>>

\* have(), called for every connection once a piece is owned: when neither
\* side misses a piece the connection is closed.
Needless(owned) ==
  {d \in Conn : owned = Pieces /\ socket[d] = "open" /\ havePieces[d] = Pieces}

\* onPieceDownloaded's part on the file and the totals.  The tracker's status
\* may change in completeRequest, which closes a file that "rw" for writing.
Store(i) ==
  LET total == downloaded + PieceLen(i) IN
  /\ total <= DownloadCap
  /\ onDisk' = IF fileMode = "ro" THEN onDisk ELSE onDisk \cup {i}
  /\ pieces' = pieces \cup {i}
  /\ downloaded' = total
  /\ announced' = (announced \/ total = FileSize)
  /\ \/ fileMode' = fileMode
     \/ total = FileSize /\ fileMode = "rw" /\ fileMode' = "ro"

\* The last block, and the hash is right: the piece is stored, announced to
\* every peer (which may close connections), and the next one requested.
PieceFinished(c) ==
  /\ Awaiting(c) /\ IsLastBlock(c) /\ intact[c]
  /\ Store(download_index[c])
  /\ LET closing == Needless(pieces')
         given   == TaskOf(closing \ {c})
     IN  /\ socket' = [d \in Conn |-> IF d \in closing THEN "closed" ELSE socket[d]]
         /\ doomed' = [d \in Conn |-> doomed[d] \/ d \in closing]
         /\ connectedPeers' = connectedPeers \ {peerId[d] : d \in closing}
         /\ connectionCount' = connectionCount
              - Cardinality(connectedPeers \cap {peerId[d] : d \in closing})
         /\ returned' = IF given = {} THEN returned ELSE "dirty"
         /\ DownloadMenager(c, piecesToDownload \cup given, havePieces[c])
  /\ ClearFragment(c)
  /\ UNCHANGED <<availablePeers, peerId, havePieces>>

-----------------------------------------------------------------------------
\* The posted deletion runs ~PeerConnection.  A socket that is still open is
\* closed there, and reports it to the object that is being destroyed.
Destroy(c) ==
  /\ doomed[c]
  /\ OnDownloadCanceled({c}, "clean")
  /\ \E new \in SUBSET FreeSlots :
       /\ IF socket[c] = "open"
          THEN CloseConnection(peerId[c], new)
          ELSE new = {} /\ UNCHANGED poolVars
       /\ socket' = [d \in Conn |-> IF d \in new THEN "connecting"
                                    ELSE IF d = c THEN "free" ELSE socket[d]]
  /\ doomed' = [doomed EXCEPT ![c] = FALSE]
  /\ peerId' = [peerId EXCEPT ![c] = NoPeer]
  /\ havePieces' = [havePieces EXCEPT ![c] = {}]
  /\ Idle(c)
  /\ ClearFragment(c)
  /\ UNCHANGED fileVars

\* A mutation: the last piece is left out of the size that is compared with.
OnTrackerStatusChangedShort ==
  /\ fileMode' = IF downloaded # LastPiece * PieceSize THEN "rw"
                 ELSE IF fileMode = "rw" THEN "ro" ELSE fileMode
  /\ UNCHANGED <<poolVars, lifeVars, taskVars, fragVars, pieces, downloaded,
                 announced, onDisk, piecesToDownload, returned, peerId, havePieces>>

\* onTrackerStatusChanged, for the statuses of a tracker that answers: the
\* file is reopened read-only when the download is complete.
OnTrackerStatusChanged ==
  /\ fileMode' = IF downloaded # FileSize THEN "rw"
                 ELSE IF fileMode = "rw" THEN "ro" ELSE fileMode
  /\ UNCHANGED <<poolVars, lifeVars, taskVars, fragVars, pieces, downloaded,
                 announced, onDisk, piecesToDownload, returned, peerId, havePieces>>

Block(c) == \/ \E good \in BOOLEAN : BlockReceived(c, good) \/ PieceRejected(c, good)
            \/ PieceFinished(c)

Next ==
  \/ \E c \in Conn :
       \/ OnNewConnection(c) \/ Connected(c) \/ Disconnected(c) \/ Destroy(c)
       \/ Block(c)
       \/ \E p \in Peer : \/ HandshakeAccepted(c, p) \/ HandshakeDuplicate(c, p)
                          \/ HandshakeWrong(c, p)
       \/ \E S \in SUBSET Pieces : Bitfield(c, S)
       \/ \E i \in Pieces : Have(c, i)
  \/ \E listed \in SUBSET Peer : UpdatePeerList(listed)
  \/ OnTrackerStatusChanged

Spec == Init /\ [][Next]_vars

\* A peer that was asked for a block answers, or its connection is closed.
FairSpec == Spec /\ \A c \in Conn : WF_vars(Block(c))

-----------------------------------------------------------------------------
(***************************************************************************)
(* Properties.                                                             *)
(***************************************************************************)

FileTypeOK ==
  /\ pieces \subseteq Pieces /\ onDisk \subseteq Pieces
  /\ downloaded \in Nat /\ announced \in BOOLEAN
  /\ fileMode \in {"fresh", "rw", "ro"}

PoolTypeOK ==
  /\ availablePeers \subseteq Peer /\ connectedPeers \subseteq Peer
  /\ connectionCount \in Nat

LifeTypeOK ==
  /\ socket \in [Conn -> {"free", "connecting", "open", "closed"}]
  /\ doomed \in [Conn -> BOOLEAN]
  /\ peerId \in [Conn -> Peer \cup {NoPeer}]

TaskTypeOK ==
  /\ piecesToDownload \subseteq Pieces
  /\ returned \in {"never", "clean", "dirty"}
  /\ havePieces \in [Conn -> SUBSET Pieces]
  /\ isDownloading \in [Conn -> BOOLEAN]
  /\ download_index \in [Conn -> Pieces]
  /\ retransmisions \in [Conn -> Nat]
  /\ fragBuff \in [Conn -> Nat]
  /\ intact \in [Conn -> BOOLEAN]

\* Every variable keeps its type; in particular the count never wraps below
\* zero, whichever "-=" of closeConnection and peerHandshake is executed.
TypeOK == FileTypeOK /\ PoolTypeOK /\ LifeTypeOK /\ TaskTypeOK

\* A piece is owned, or to be downloaded, or assigned to a connection that
\* will finish it or give it back: none is forgotten, whatever the order of
\* handshakes, disconnections and deletions.
NoPieceLost == pieces \cup piecesToDownload \cup TaskOf(Conn) = Pieces

\* While no connection gave a piece back without going idle, a piece is in
\* one of these places only, so no piece is downloaded twice.
NoPieceTwice ==
  returned # "dirty" =>
    /\ pieces \cap piecesToDownload = {}
    /\ \A c \in Conn : isDownloading[c] =>
         /\ download_index[c] \notin pieces \cup piecesToDownload
         /\ \A d \in Conn \ {c} :
              isDownloading[d] => download_index[d] # download_index[c]

\* Under the same condition the running total is the size of what is owned,
\* and a download that was announced as completed is complete.
TotalIsOwned ==
  returned # "dirty" => /\ downloaded = SizeOf(pieces)
                        /\ announced => Complete

\* Under the same condition every piece that is owned, and so served to other
\* peers, has been written: the file is never read-only while one is missing.
OwnedIsOnDisk == returned # "dirty" => pieces \subseteq onDisk

\* The bytes that remain to be downloaded, as setLeft tells the tracker
\* ("ustawia ile bajtow pozostalo do pobrania", TrackerConnection.h:51).
LeftIsRemaining == FileSize - downloaded = FileSize - SizeOf(pieces)

\* The count covers every accepted peer and every object before its
\* handshake, so that no "-=" on this unsigned number wraps.
CountCovers ==
  connectionCount >= Cardinality(connectedPeers) + Cardinality(Unidentified)

\* A peer whose next handshake would be refused as a duplicate does have a
\* connection: no peer is locked out by an id that was left behind.
NoPhantomPeer ==
  \A p \in connectedPeers :
    \E c \in Conn : peerId[c] = p /\ socket[c] = "open" /\ ~doomed[c]

\* A connection starts a piece with an empty buffer, so blocks of two pieces
\* are never hashed together.
CleanFragment == \A c \in Conn : ~isDownloading[c] => fragBuff[c] = 0 /\ intact[c]

\* As long as no piece was given back, a connection that is idle has nothing
\* to ask for: its peer is never left waiting with a piece that is wanted.
NoIdleInterest ==
  returned = "never" =>
    \A c \in Conn : socket[c] = "open" /\ ~isDownloading[c] =>
      piecesToDownload \cap havePieces[c] = {}

\* Pieces are only gained, one at a time, from a connection that was assigned
\* this piece, whose peer advertised it, and whose data had the right hash.
GainedFromAdvertiser ==
  [][pieces' # pieces =>
       \E c \in Conn : /\ isDownloading[c] /\ intact[c]
                       /\ download_index[c] \in havePieces[c]
                       /\ pieces' = pieces \cup {download_index[c]}]_vars

\* Every missing piece is advertised by a connected peer.
SourcesStay ==
  \A i \in Pieces \ pieces :
    \E c \in Conn : socket[c] = "open" /\ ~doomed[c] /\ i \in havePieces[c]

\* A download during which no piece is given back, and whose missing pieces
\* stay available, completes.
EventuallyComplete ==
  ([](returned = "never") /\ <>[]SourcesStay) => <>Complete
=============================================================================
