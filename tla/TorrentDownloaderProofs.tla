----------------------- MODULE TorrentDownloaderProofs -----------------------
(***************************************************************************)
(* Theorems of TorrentDownloader, for any number of pieces, connections    *)
(* and peers, and any limits.                                              *)
(***************************************************************************)
EXTENDS TorrentDownloader, FiniteSetTheorems, TLAPS

\* The pieces a client owns are a BitSet.
BP == INSTANCE BitSetProofs WITH Size <- NumPieces, data <- pieces, count <- Cardinality(pieces)

-----------------------------------------------------------------------------
(***************************************************************************)
(* Sizes, and the complement the download starts from.                     *)
(***************************************************************************)

\* The facts of BitSetProofs, said of this torrent's pieces.
LEMMA InitialComplement ==
  ASSUME NEW S \in SUBSET Pieces
  PROVE  /\ B!Complement(S) \subseteq Pieces \ S
         /\ NumPieces % PageBits # 0 => B!Complement(S) = Pieces \ S
<1>1. BP!BitSetAssumption /\ BP!Bits = Pieces
  BY SizeAssumption DEF BP!BitSetAssumption, BP!Bits, Pieces
<1>2. BP!Complement(S) = B!Complement(S)
  BY DEF BP!Complement, B!Complement, BP!MaskLastPage, B!MaskLastPage,
         BP!Positions, B!Positions, BP!PageCount, B!PageCount
<1>3. BP!Complement(S) \subseteq BP!Bits \ S
  BY <1>1, BP!ComplementInBits
<1>4. NumPieces % PageBits # 0 => BP!Complement(S) = BP!Bits \ S
  BY <1>1, BP!ComplementExact
<1>5. QED
  BY <1>1, <1>2, <1>3, <1>4

\* Sizes are natural numbers, and no piece is empty.
LEMMA PieceSizes ==
  /\ LastPiece \in Pieces /\ 0 \in Pieces
  /\ LastSize \in Nat \ {0}
  /\ \A i \in Pieces : PieceLen(i) \in Nat \ {0}
  /\ IsFiniteSet(Pieces)
<1>1. LastPiece \in Pieces /\ 0 \in Pieces
  BY SizeAssumption DEF LastPiece, Pieces
<1>2. (NumPieces - 1) * PieceSize \in Int
  BY SizeAssumption
<1>3. LastSize \in Nat \ {0}
  BY <1>2, SizeAssumption DEF LastSize, LastPiece
<1>4. IsFiniteSet(Pieces)
  BY FS_Interval, SizeAssumption DEF Pieces
<1>5. QED
  BY <1>1, <1>3, <1>4, SizeAssumption DEF PieceLen

\* The size of a set of pieces is a natural number.
LEMMA SizeOfType ==
  ASSUME NEW S \in SUBSET Pieces
  PROVE  SizeOf(S) \in Nat
<1>1. IsFiniteSet(S \ {LastPiece})
  BY FS_Subset, PieceSizes
<1>2. Cardinality(S \ {LastPiece}) \in Nat
  BY <1>1, FS_CardinalityType
<1>3. Cardinality(S \ {LastPiece}) * PieceSize \in Nat
  BY <1>2, SizeAssumption
<1>4. QED
  BY <1>3, PieceSizes DEF SizeOf

-----------------------------------------------------------------------------
(***************************************************************************)
(* Type correctness.  The count is a natural number only because it covers *)
(* the connected peers, so CountCovers is part of the induction, and       *)
(* CountCovers needs that an object that does not exist has no peer.       *)
(***************************************************************************)

\* What a constructor will find in the object it creates.
FreeIsFresh ==
  \A c \in Conn : socket[c] = "free" =>
    peerId[c] = NoPeer /\ ~doomed[c] /\ ~isDownloading[c] /\ havePieces[c] = {}

PoolInv == TypeOK /\ FreeIsFresh /\ CountCovers

\* The new connections are free objects, and each one is counted.
LEMMA RefillCounts ==
  ASSUME NEW count, NEW new, NEW avail \in SUBSET Peer,
         ConnectionManager(avail, count, new)
  PROVE  /\ new \subseteq FreeSlots /\ availablePeers' \subseteq Peer
         /\ connectionCount' = count + Cardinality(new)
BY DEF ConnectionManager

LEMMA RefillCountsIfIncomplete ==
  ASSUME PoolTypeOK, NEW count \in Int, NEW new, Refill(count, new)
  PROVE  /\ new \subseteq FreeSlots /\ availablePeers' \subseteq Peer
         /\ connectionCount' = count + Cardinality(new)
<1>1. CASE Complete
  BY <1>1, FS_EmptySet DEF Refill, PoolTypeOK
<1>2. CASE ~Complete
  BY <1>2, RefillCounts DEF Refill, PoolTypeOK
<1>3. QED
  BY <1>1, <1>2

\* A subset of a finite set has a cardinality, and not a greater one.
LEMMA CardinalityBelow ==
  ASSUME NEW T, IsFiniteSet(T), NEW S \in SUBSET T
  PROVE  /\ IsFiniteSet(S)
         /\ Cardinality(S) \in Nat /\ Cardinality(T) \in Nat
         /\ Cardinality(S) <= Cardinality(T)
BY FS_Subset, FS_CardinalityType

\* Erasing ids from the connected peers, giving up what the erase returned
\* and counting the new connections keeps the count above what it covers.
LEMMA ErasureKeepsCover ==
  ASSUME NEW C, IsFiniteSet(C), NEW U, IsFiniteSet(U),
         NEW N, IsFiniteSet(N), NEW count \in Nat,
         count >= Cardinality(C) + Cardinality(U),
         NEW ids, NEW V \in SUBSET (U \cup N)
  PROVE  /\ count - Cardinality(C \cap ids) \in Int
         /\ (count - Cardinality(C \cap ids)) + Cardinality(N) \in Nat
         /\ (count - Cardinality(C \cap ids)) + Cardinality(N)
              >= Cardinality(C \ ids) + Cardinality(V)
<1>1. /\ Cardinality(C \ ids) = Cardinality(C) - Cardinality(C \cap ids)
      /\ Cardinality(C \ ids) \in Nat /\ Cardinality(C) \in Nat
      /\ Cardinality(C \cap ids) \in Nat
  BY FS_Difference, FS_Intersection, FS_CardinalityType
<1>2. /\ Cardinality(U \cup N) <= Cardinality(U) + Cardinality(N)
      /\ IsFiniteSet(U \cup N)
      /\ Cardinality(U) \in Nat /\ Cardinality(N) \in Nat
  <2>1. Cardinality(U \cap N) \in Nat
    BY FS_Intersection, FS_CardinalityType
  <2>2. Cardinality(U) \in Nat /\ Cardinality(N) \in Nat
    BY FS_CardinalityType
  <2>3. /\ IsFiniteSet(U \cup N)
        /\ Cardinality(U \cup N)
             = Cardinality(U) + Cardinality(N) - Cardinality(U \cap N)
    BY FS_Union
  <2>4. QED
    BY <2>1, <2>2, <2>3
<1>3. Cardinality(V) \in Nat /\ Cardinality(V) <= Cardinality(U \cup N)
      /\ Cardinality(U \cup N) \in Nat
  BY <1>2, CardinalityBelow
<1>4. QED
  BY <1>1, <1>2, <1>3

\* What is to be downloaded is pieces.
LEMMA TasksArePieces ==
  ASSUME TaskTypeOK, NEW S \in SUBSET Conn
  PROVE  TaskOf(S) \subseteq Pieces
BY DEF TaskTypeOK, TaskOf

\* Going idle, and being assigned a piece, keep the types.
LEMMA DownloadMenagerTypes ==
  ASSUME TaskTypeOK, NEW c \in Conn, NEW wanted \in SUBSET Pieces, NEW have,
         DownloadMenager(c, wanted, have)
  PROVE  /\ piecesToDownload' \subseteq wanted
         /\ isDownloading' \in [Conn -> BOOLEAN]
         /\ download_index' \in [Conn -> Pieces]
         /\ retransmisions' \in [Conn -> Nat]
<1>1. CASE Interesting(wanted, have) = {}
  <2>1. piecesToDownload' = wanted /\ Idle(c)
    BY <1>1 DEF DownloadMenager
  <2>2. QED
    BY <2>1, PieceSizes DEF Idle, TaskTypeOK
<1>2. CASE Interesting(wanted, have) # {}
  <2>1. PICK i \in Interesting(wanted, have) : DownloadPiece(c, i, wanted)
    BY <1>2 DEF DownloadMenager
  <2>2. QED
    BY <2>1 DEF DownloadPiece, Interesting, TaskTypeOK
<1>3. QED
  BY <1>1, <1>2

\* Only a finished piece and the tracker's status touch the file.
LEMMA FileTypeStep ==
  ASSUME TypeOK, [Next]_vars
  PROVE  FileTypeOK'
<1> USE DEF TypeOK, FileTypeOK
<1>1. ASSUME NEW c \in Conn, PieceFinished(c) PROVE FileTypeOK'
  <2>1. download_index[c] \in Pieces /\ Store(download_index[c])
    BY <1>1 DEF PieceFinished, TaskTypeOK
  <2>2. QED
    BY <2>1, PieceSizes DEF Store
<1>2. CASE OnTrackerStatusChanged
  BY <1>2 DEF OnTrackerStatusChanged
<1>3. CASE UNCHANGED fileVars
  BY <1>3 DEF fileVars
<1>4. \/ \E c \in Conn : PieceFinished(c)
      \/ OnTrackerStatusChanged
      \/ UNCHANGED fileVars
  BY DEF Next, vars, Block, OnNewConnection, Connected, Disconnected, Destroy,
         BlockReceived, PieceRejected, HandshakeAccepted, HandshakeDuplicate,
         HandshakeWrong, Bitfield, Have, Advertised, UpdatePeerList
<1>5. QED
  BY <1>1, <1>2, <1>3, <1>4

\* The tasks and buffers of the connections keep their types.
LEMMA TaskTypeStep ==
  ASSUME TypeOK, [Next]_vars
  PROVE  TaskTypeOK'
<1> DEFINE TaskUnchanged ==
      UNCHANGED <<taskVars, fragVars, piecesToDownload, returned, havePieces>>
<1>a. TaskTypeOK
  BY DEF TypeOK
<1>b. TaskUnchanged => TaskTypeOK'
  BY <1>a DEF TaskTypeOK, taskVars, fragVars
<1>c. ASSUME NEW c \in Conn, NEW how \in {"clean", "dirty"},
             OnDownloadCanceled({c}, how)
      PROVE  /\ piecesToDownload' \subseteq Pieces
             /\ returned' \in {"never", "clean", "dirty"}
  BY <1>a, <1>c, TasksArePieces DEF OnDownloadCanceled, Worse, TaskTypeOK
<1>1. ASSUME NEW c \in Conn, OnNewConnection(c) \/ Connected(c) PROVE TaskTypeOK'
  BY <1>1, <1>b DEF OnNewConnection, Connected
<1>2. ASSUME NEW c \in Conn, Disconnected(c) PROVE TaskTypeOK'
  BY <1>2, <1>a, <1>c DEF Disconnected, OnDisconnection, TaskTypeOK, taskVars, fragVars
<1>3. ASSUME NEW c \in Conn, Destroy(c) PROVE TaskTypeOK'
  <2>1. Idle(c) /\ ClearFragment(c) /\ havePieces' = [havePieces EXCEPT ![c] = {}]
    BY <1>3 DEF Destroy
  <2>2. OnDownloadCanceled({c}, "clean")
    BY <1>3 DEF Destroy
  <2>3. QED
    BY <2>1, <2>2, <1>a, <1>c, PieceSizes DEF TaskTypeOK, Idle, ClearFragment
<1>4. ASSUME NEW c \in Conn, NEW p \in Peer,
             HandshakeAccepted(c, p) \/ HandshakeDuplicate(c, p)
      PROVE  TaskTypeOK'
  BY <1>4, <1>b DEF HandshakeAccepted, HandshakeDuplicate
<1>5. ASSUME NEW c \in Conn, NEW p \in Peer, HandshakeWrong(c, p)
      PROVE  TaskTypeOK'
  BY <1>5, <1>a, <1>c DEF HandshakeWrong, OnDisconnection, TaskTypeOK, taskVars, fragVars
<1>6. ASSUME NEW c \in Conn, NEW S \in SUBSET Pieces, Advertised(c, S)
      PROVE  TaskTypeOK'
  <2>1. /\ havePieces' \in [Conn -> SUBSET Pieces]
        /\ UNCHANGED <<fragBuff, intact, returned>>
    BY <1>6, <1>a DEF Advertised, TaskTypeOK, fragVars
  <2>2. CASE isDownloading[c]
    BY <2>1, <2>2, <1>6, <1>a DEF Advertised, TaskTypeOK, taskVars
  <2>3. CASE ~isDownloading[c]
    <3>1. DownloadMenager(c, piecesToDownload, S) /\ piecesToDownload \subseteq Pieces
      BY <2>3, <1>6, <1>a DEF Advertised, TaskTypeOK
    <3>2. QED
      BY <3>1, <2>1, <1>a, DownloadMenagerTypes DEF TaskTypeOK
  <2>4. QED
    BY <2>2, <2>3
<1>7. ASSUME NEW c \in Conn, NEW good \in BOOLEAN, BlockReceived(c, good)
      PROVE  TaskTypeOK'
  <2>1. fragBuff' \in [Conn -> Nat] /\ intact' \in [Conn -> BOOLEAN]
    BY <1>7, <1>a, SizeAssumption DEF BlockReceived, TaskTypeOK
  <2>2. UNCHANGED <<taskVars, piecesToDownload, returned, havePieces>>
    BY <1>7 DEF BlockReceived
  <2>3. QED
    BY <2>1, <2>2, <1>a DEF TaskTypeOK, taskVars
<1>8. ASSUME NEW c \in Conn, NEW good \in BOOLEAN, PieceRejected(c, good)
      PROVE  TaskTypeOK'
  <2>1. fragBuff' \in [Conn -> Nat] /\ intact' \in [Conn -> BOOLEAN]
    BY <1>8, <1>a DEF PieceRejected, ClearFragment, TaskTypeOK
  <2>2. CASE retransmisions[c] > MaxRetransmissions
    <3>1. /\ Idle(c) /\ OnDownloadCanceled({c}, "clean")
          /\ havePieces' = [havePieces EXCEPT ![c] = @ \ {download_index[c]}]
      BY <2>2, <1>8 DEF PieceRejected
    <3>2. QED
      BY <3>1, <2>1, <1>a, <1>c, PieceSizes DEF Idle, TaskTypeOK
  <2>3. CASE ~(retransmisions[c] > MaxRetransmissions)
    BY <2>1, <2>3, <1>8, <1>a DEF PieceRejected, TaskTypeOK
  <2>4. QED
    BY <2>2, <2>3
<1>9. ASSUME NEW c \in Conn, PieceFinished(c) PROVE TaskTypeOK'
  <2> DEFINE closing == Needless(pieces')
             given == TaskOf(closing \ {c})
  <2>1. /\ DownloadMenager(c, piecesToDownload \cup given, havePieces[c])
        /\ returned' = IF given = {} THEN returned ELSE "dirty"
    BY <1>9 DEF PieceFinished
  <2>2. UNCHANGED havePieces /\ ClearFragment(c)
    BY <1>9 DEF PieceFinished
  <2>3. piecesToDownload \cup given \in SUBSET Pieces
    BY <1>a, TasksArePieces DEF TaskTypeOK, Needless
  <2> HIDE DEF given
  <2>4. QED
    BY <2>1, <2>2, <2>3, <1>a, DownloadMenagerTypes DEF TaskTypeOK, ClearFragment
<1>10. ASSUME NEW listed \in SUBSET Peer, UpdatePeerList(listed) PROVE TaskTypeOK'
  BY <1>10, <1>b DEF UpdatePeerList
<1>11. CASE OnTrackerStatusChanged
  BY <1>11, <1>b DEF OnTrackerStatusChanged
<1>12. CASE UNCHANGED vars
  BY <1>12, <1>b DEF vars
<1>13. ASSUME NEW c \in Conn,
              (\E S \in SUBSET Pieces : Bitfield(c, S)) \/ (\E i \in Pieces : Have(c, i))
       PROVE  TaskTypeOK'
  BY <1>13, <1>6, <1>a DEF Bitfield, Have, TaskTypeOK
<1>14. QED
  BY <1>1, <1>2, <1>3, <1>4, <1>5, <1>7, <1>8, <1>9, <1>10, <1>11, <1>12, <1>13
     DEF Next, Block

\* Only the task of c changes when it goes idle or is assigned a piece.
LEMMA DownloadMenagerElsewhere ==
  ASSUME TaskTypeOK, NEW c \in Conn, NEW wanted, NEW have,
         DownloadMenager(c, wanted, have), NEW d \in Conn \ {c}
  PROVE  isDownloading'[d] = isDownloading[d]
BY DEF DownloadMenager, Idle, DownloadPiece, TaskTypeOK

\* Objects are created in the state their constructor gives, and destroyed
\* into it; what happens in between happens to objects that exist.
LEMMA LifeStep ==
  ASSUME TypeOK, FreeIsFresh, [Next]_vars
  PROVE  LifeTypeOK' /\ FreeIsFresh'
<1>a. LifeTypeOK /\ TaskTypeOK
  BY DEF TypeOK
<1> DEFINE Ok == LifeTypeOK' /\ FreeIsFresh'
<1>b. ASSUME UNCHANGED <<lifeVars, peerId>>,
             \A d \in Conn : socket[d] = "free" =>
               ~isDownloading'[d] /\ havePieces'[d] = {}
      PROVE  Ok
  BY <1>a, <1>b DEF LifeTypeOK, FreeIsFresh, lifeVars
<1>c. ASSUME NEW c \in Conn, NEW p, OnDisconnection(c, p),
             peerId' \in [Conn -> Peer \cup {NoPeer}],
             \A d \in Conn \ {c} : peerId'[d] = peerId[d],
             UNCHANGED <<taskVars, havePieces>>
      PROVE  Ok
  <2>1. PICK new \in SUBSET FreeSlots :
          socket' = [d \in Conn |-> IF d \in new THEN "connecting"
                                    ELSE IF d = c THEN "closed" ELSE socket[d]]
    BY <1>c DEF OnDisconnection
  <2>2. doomed' = [doomed EXCEPT ![c] = TRUE]
    BY <1>c DEF OnDisconnection
  <2>3. LifeTypeOK'
    BY <1>a, <1>c, <2>1, <2>2 DEF LifeTypeOK
  <2>4. FreeIsFresh'
    BY <1>a, <1>c, <2>1, <2>2 DEF LifeTypeOK, FreeIsFresh, taskVars
  <2>5. QED
    BY <2>3, <2>4
<1>1. ASSUME NEW c \in Conn, OnNewConnection(c) PROVE Ok
  BY <1>a, <1>1 DEF OnNewConnection, LifeTypeOK, FreeIsFresh, taskVars
<1>2. ASSUME NEW c \in Conn, Connected(c) PROVE Ok
  BY <1>a, <1>2 DEF Connected, LifeTypeOK, FreeIsFresh, taskVars
<1>3. ASSUME NEW c \in Conn, Disconnected(c) PROVE Ok
  BY <1>a, <1>3, <1>c DEF Disconnected, LifeTypeOK
<1>4. ASSUME NEW c \in Conn, Destroy(c) PROVE Ok
  <2>1. PICK new \in SUBSET FreeSlots :
          socket' = [d \in Conn |-> IF d \in new THEN "connecting"
                                    ELSE IF d = c THEN "free" ELSE socket[d]]
    BY <1>4 DEF Destroy
  <2>2. /\ doomed' = [doomed EXCEPT ![c] = FALSE]
        /\ peerId' = [peerId EXCEPT ![c] = NoPeer]
        /\ havePieces' = [havePieces EXCEPT ![c] = {}]
        /\ isDownloading' = [isDownloading EXCEPT ![c] = FALSE]
    BY <1>4 DEF Destroy, Idle
  <2>3. LifeTypeOK'
    BY <1>a, <2>1, <2>2 DEF LifeTypeOK
  <2>4. FreeIsFresh'
    BY <1>a, <2>1, <2>2 DEF LifeTypeOK, TaskTypeOK, FreeIsFresh
  <2>5. QED
    BY <2>3, <2>4
<1>5. ASSUME NEW c \in Conn, NEW p \in Peer, HandshakeAccepted(c, p) PROVE Ok
  BY <1>a, <1>5 DEF HandshakeAccepted, LifeTypeOK, FreeIsFresh, lifeVars, taskVars
<1>6. ASSUME NEW c \in Conn, NEW p \in Peer, HandshakeDuplicate(c, p) PROVE Ok
  <2>1. PICK new \in SUBSET FreeSlots :
          socket' = [d \in Conn |-> IF d \in new THEN "connecting" ELSE socket[d]]
    BY <1>6 DEF HandshakeDuplicate
  <2>2. /\ doomed' = [doomed EXCEPT ![c] = TRUE]
        /\ peerId' = [peerId EXCEPT ![c] = p]
        /\ socket[c] = "open"
        /\ UNCHANGED <<taskVars, havePieces>>
    BY <1>6 DEF HandshakeDuplicate
  <2>3. LifeTypeOK'
    BY <1>a, <2>1, <2>2 DEF LifeTypeOK
  <2>4. FreeIsFresh'
    BY <1>a, <2>1, <2>2 DEF LifeTypeOK, FreeIsFresh, taskVars
  <2>5. QED
    BY <2>3, <2>4
<1>7. ASSUME NEW c \in Conn, NEW p \in Peer, HandshakeWrong(c, p) PROVE Ok
  BY <1>a, <1>7, <1>c DEF HandshakeWrong, LifeTypeOK
<1>8. ASSUME NEW c \in Conn, NEW S, socket[c] = "open", Advertised(c, S) PROVE Ok
  <2>1. UNCHANGED <<lifeVars, peerId>> /\ havePieces' = [havePieces EXCEPT ![c] = S]
    BY <1>8 DEF Advertised
  <2>2. \A d \in Conn \ {c} : isDownloading'[d] = isDownloading[d]
    BY <1>8, <1>a, DownloadMenagerElsewhere DEF Advertised, taskVars
  <2>3. QED
    BY <1>8, <1>a, <1>b, <2>1, <2>2 DEF FreeIsFresh, TaskTypeOK
<1>9. ASSUME NEW c \in Conn, NEW good \in BOOLEAN, BlockReceived(c, good) PROVE Ok
  BY <1>9, <1>b DEF BlockReceived, FreeIsFresh, taskVars
<1>10. ASSUME NEW c \in Conn, NEW good \in BOOLEAN, PieceRejected(c, good) PROVE Ok
  <2>1. socket[c] = "open" /\ UNCHANGED <<lifeVars, peerId>>
    BY <1>10 DEF PieceRejected, Awaiting
  <2>2. \A d \in Conn \ {c} :
          isDownloading'[d] = isDownloading[d] /\ havePieces'[d] = havePieces[d]
    BY <1>10, <1>a DEF PieceRejected, Idle, TaskTypeOK
  <2>3. QED
    BY <1>b, <2>1, <2>2 DEF FreeIsFresh
<1>11. ASSUME NEW c \in Conn, PieceFinished(c) PROVE Ok
  <2> DEFINE closing == Needless(pieces')
  <2>1. /\ socket' = [d \in Conn |-> IF d \in closing THEN "closed" ELSE socket[d]]
        /\ doomed' = [d \in Conn |-> doomed[d] \/ d \in closing]
        /\ UNCHANGED <<peerId, havePieces>>
        /\ socket[c] = "open"
    BY <1>11 DEF PieceFinished, Awaiting
  <2>2. \A d \in Conn \ {c} : isDownloading'[d] = isDownloading[d]
    BY <1>11, <1>a, DownloadMenagerElsewhere DEF PieceFinished
  <2>3. LifeTypeOK'
    BY <1>a, <2>1 DEF LifeTypeOK
  <2>4. FreeIsFresh'
    BY <1>a, <2>1, <2>2 DEF LifeTypeOK, FreeIsFresh
  <2>5. QED
    BY <2>3, <2>4
<1>12. ASSUME NEW listed \in SUBSET Peer, UpdatePeerList(listed) PROVE Ok
  <2>1. PICK new \in SUBSET FreeSlots :
          socket' = [d \in Conn |-> IF d \in new THEN "connecting" ELSE socket[d]]
    BY <1>12 DEF UpdatePeerList
  <2>2. UNCHANGED <<taskVars, doomed, peerId, havePieces>>
    BY <1>12 DEF UpdatePeerList
  <2>3. QED
    BY <1>a, <2>1, <2>2 DEF LifeTypeOK, FreeIsFresh, taskVars
<1>13. CASE OnTrackerStatusChanged
  BY <1>13, <1>b DEF OnTrackerStatusChanged, FreeIsFresh, taskVars
<1>14. CASE UNCHANGED vars
  BY <1>14, <1>b DEF vars, FreeIsFresh, taskVars
<1>15. ASSUME NEW c \in Conn,
              (\E S \in SUBSET Pieces : Bitfield(c, S)) \/ (\E i \in Pieces : Have(c, i))
       PROVE  Ok
  BY <1>15, <1>8 DEF Bitfield, Have
<1>16. QED
  BY <1>1, <1>2, <1>3, <1>4, <1>5, <1>6, <1>7, <1>9, <1>10, <1>11, <1>12, <1>13,
     <1>14, <1>15 DEF Next, Block

\* The sets that are counted are finite.
LEMMA CountedAreFinite ==
  ASSUME PoolTypeOK
  PROVE  /\ IsFiniteSet(connectedPeers) /\ IsFiniteSet(Unidentified)
         /\ \A new \in SUBSET FreeSlots : IsFiniteSet(new)
<1>1. connectedPeers \in SUBSET Peer /\ Unidentified \in SUBSET Conn
  BY DEF PoolTypeOK, Unidentified
<1>2. \A new \in SUBSET FreeSlots : new \in SUBSET Conn
  BY DEF FreeSlots
<1>3. QED
  BY <1>1, <1>2, ConnAssumption, FS_Subset

\* A step that erases ids, gives up what the erase returned and counts its
\* new connections, keeps the count above what it covers.
LEMMA CoverStep ==
  ASSUME PoolTypeOK, CountCovers, NEW ids, NEW new \in SUBSET FreeSlots,
         availablePeers' \subseteq Peer,
         connectedPeers' = connectedPeers \ ids,
         connectionCount' = (connectionCount - Cardinality(connectedPeers \cap ids))
                            + Cardinality(new),
         Unidentified' \subseteq Unidentified \cup new
  PROVE  PoolTypeOK' /\ CountCovers'
<1>1. connectionCount \in Nat
      /\ connectionCount >= Cardinality(connectedPeers) + Cardinality(Unidentified)
  BY DEF PoolTypeOK, CountCovers
<1>2. /\ connectionCount' \in Nat
      /\ connectionCount' >= Cardinality(connectedPeers') + Cardinality(Unidentified')
  BY <1>1, CountedAreFinite, ErasureKeepsCover
<1>3. QED
  BY <1>2 DEF PoolTypeOK, CountCovers

\* The same with nothing erased.
LEMMA CoverStepNothingErased ==
  ASSUME PoolTypeOK, CountCovers, NEW new \in SUBSET FreeSlots,
         availablePeers' \subseteq Peer,
         connectedPeers' = connectedPeers,
         connectionCount' = connectionCount + Cardinality(new),
         Unidentified' \subseteq Unidentified \cup new
  PROVE  PoolTypeOK' /\ CountCovers'
<1>1. Cardinality(connectedPeers \cap {}) = 0 /\ Cardinality(new) \in Nat
  BY CountedAreFinite, FS_EmptySet, FS_CardinalityType
<1>2. connectionCount' = (connectionCount - Cardinality(connectedPeers \cap {}))
                         + Cardinality(new)
  BY <1>1 DEF PoolTypeOK
<1>3. connectedPeers' = connectedPeers \ {}
  OBVIOUS
<1>4. QED
  BY <1>2, <1>3, CoverStep

\* A step that touches no counted thing, other than identifying objects or
\* destroying them.
LEMMA CoverStepNothingCounted ==
  ASSUME PoolTypeOK, CountCovers, UNCHANGED poolVars,
         Unidentified' \subseteq Unidentified
  PROVE  PoolTypeOK' /\ CountCovers'
<1>1. {} \in SUBSET FreeSlots /\ Cardinality({}) = 0
  BY FS_EmptySet
<1>2. /\ connectionCount' = connectionCount + Cardinality({})
      /\ connectedPeers' = connectedPeers /\ availablePeers' \subseteq Peer
  BY <1>1 DEF poolVars, PoolTypeOK
<1>3. QED
  BY <1>1, <1>2, CoverStepNothingErased

\* closeConnection of one connection.
LEMMA CoverStepClosing ==
  ASSUME PoolTypeOK, CountCovers, NEW p, NEW new,
         CloseConnection(p, new),
         Unidentified' \subseteq Unidentified \cup new
  PROVE  PoolTypeOK' /\ CountCovers'
<1>1. connectionCount - Cardinality(connectedPeers \cap {p}) \in Int
  <2>1. IsFiniteSet(connectedPeers \cap {p})
    BY CountedAreFinite, FS_Intersection
  <2>2. Cardinality(connectedPeers \cap {p}) \in Nat
    BY <2>1, FS_CardinalityType
  <2>3. QED
    BY <2>2 DEF PoolTypeOK
<1>2. /\ new \subseteq FreeSlots /\ availablePeers' \subseteq Peer
      /\ connectionCount' = (connectionCount - Cardinality(connectedPeers \cap {p}))
                            + Cardinality(new)
  BY <1>1, RefillCountsIfIncomplete DEF CloseConnection
<1>3. connectedPeers' = connectedPeers \ {p}
  BY DEF CloseConnection
<1>4. QED
  BY <1>2, <1>3, CoverStep

\* Every decrement is of something that was counted.
LEMMA CountStep ==
  ASSUME PoolInv, [Next]_vars
  PROVE  PoolTypeOK' /\ CountCovers'
<1>a. PoolTypeOK /\ LifeTypeOK /\ FreeIsFresh /\ CountCovers
  BY DEF PoolInv, TypeOK
<1> DEFINE Ok == PoolTypeOK' /\ CountCovers'
<1>b. ASSUME UNCHANGED <<poolVars, lifeVars, peerId>> PROVE Ok
  <2>1. Unidentified' = Unidentified
    BY <1>b DEF lifeVars, Unidentified
  <2>2. QED
    BY <1>a, <1>b, <2>1, CoverStepNothingCounted
<1>c. ASSUME NEW c \in Conn, NEW p, socket[c] # "free", OnDisconnection(c, p),
             \A d \in Conn \ {c} : peerId'[d] = peerId[d],
             peerId'[c] # NoPeer \/ peerId'[c] = peerId[c]
      PROVE  Ok
  <2>1. PICK new \in SUBSET FreeSlots :
          /\ CloseConnection(p, new)
          /\ socket' = [d \in Conn |-> IF d \in new THEN "connecting"
                                       ELSE IF d = c THEN "closed" ELSE socket[d]]
    BY <1>c DEF OnDisconnection
  <2>2. Unidentified' \subseteq Unidentified \cup new
    BY <1>c, <2>1 DEF Unidentified
  <2>3. QED
    BY <1>a, <2>1, <2>2, CoverStepClosing
<1>1. ASSUME NEW c \in Conn, OnNewConnection(c) PROVE Ok
  <2>1. {c} \in SUBSET FreeSlots /\ Cardinality({c}) = 1
    BY <1>1, FS_Singleton DEF OnNewConnection, FreeSlots
  <2>2. Unidentified' \subseteq Unidentified \cup {c}
    BY <1>1, <1>a DEF OnNewConnection, Unidentified, LifeTypeOK
  <2>3. /\ connectionCount' = connectionCount + Cardinality({c})
        /\ connectedPeers' = connectedPeers /\ availablePeers' \subseteq Peer
    BY <1>1, <1>a, <2>1 DEF OnNewConnection, PoolTypeOK
  <2>4. QED
    BY <1>a, <2>1, <2>2, <2>3, CoverStepNothingErased
<1>2. ASSUME NEW c \in Conn, Connected(c) PROVE Ok
  <2>1. Unidentified' \subseteq Unidentified /\ UNCHANGED poolVars
    BY <1>2, <1>a DEF Connected, Unidentified, LifeTypeOK
  <2>2. QED
    BY <1>a, <2>1, CoverStepNothingCounted
<1>3. ASSUME NEW c \in Conn, Disconnected(c) PROVE Ok
  BY <1>3, <1>c DEF Disconnected
<1>4. ASSUME NEW c \in Conn, Destroy(c) PROVE Ok
  <2>1. PICK new \in SUBSET FreeSlots :
          /\ IF socket[c] = "open"
             THEN CloseConnection(peerId[c], new)
             ELSE new = {} /\ UNCHANGED poolVars
          /\ socket' = [d \in Conn |-> IF d \in new THEN "connecting"
                                       ELSE IF d = c THEN "free" ELSE socket[d]]
    BY <1>4 DEF Destroy
  <2>2. peerId' = [peerId EXCEPT ![c] = NoPeer]
    BY <1>4 DEF Destroy
  <2>3. socket[c] # "free"
    BY <1>4, <1>a DEF Destroy, FreeIsFresh
  <2>4. Unidentified' \subseteq Unidentified \cup new
    BY <1>a, <2>1, <2>2, <2>3 DEF Unidentified, LifeTypeOK, FreeSlots
  <2>5. CASE socket[c] = "open"
    BY <1>a, <2>1, <2>4, <2>5, CoverStepClosing
  <2>6. CASE socket[c] # "open"
    BY <1>a, <2>1, <2>4, <2>6, CoverStepNothingCounted
  <2>7. QED
    BY <2>5, <2>6
<1>5. ASSUME NEW c \in Conn, NEW p \in Peer, socket[c] = "open", peerId[c] = NoPeer,
             NEW new \in SUBSET FreeSlots,
             Unidentified' \subseteq (Unidentified \ {c}) \cup new,
             availablePeers' \subseteq Peer,
             \/ /\ connectedPeers' = connectedPeers \cup {p} /\ p \notin connectedPeers
                /\ connectionCount' = connectionCount /\ new = {}
             \/ /\ connectedPeers' = connectedPeers
                /\ connectionCount' = (connectionCount - 1) + Cardinality(new)
      PROVE  Ok
  <2> DEFINE others == Unidentified \ {c}
  <2>1. c \in Unidentified
    BY <1>5 DEF Unidentified
  <2>2. /\ IsFiniteSet(connectedPeers) /\ IsFiniteSet(Unidentified)
        /\ IsFiniteSet(new) /\ IsFiniteSet(others)
    BY <1>a, CountedAreFinite, FS_Subset
  <2>3. Cardinality(others) = Cardinality(Unidentified) - 1
    BY <2>1, <2>2, FS_RemoveElement
  <2>4. /\ Cardinality(connectedPeers) \in Nat /\ Cardinality(Unidentified) \in Nat
        /\ Cardinality(others) \in Nat /\ Cardinality(new) \in Nat
    BY <2>2, FS_CardinalityType
  <2>5. Cardinality(connectedPeers \cap {}) = 0 /\ connectedPeers \ {} = connectedPeers
    BY FS_EmptySet
  <2>6. /\ connectionCount \in Nat /\ connectedPeers \subseteq Peer
        /\ connectionCount >= Cardinality(connectedPeers) + Cardinality(Unidentified)
    BY <1>a DEF PoolTypeOK, CountCovers
  <2>7. connectionCount - 1 \in Nat
        /\ connectionCount - 1 >= Cardinality(connectedPeers) + Cardinality(others)
    BY <2>3, <2>4, <2>6
  <2>8. CASE connectedPeers' = connectedPeers
             /\ connectionCount' = (connectionCount - 1) + Cardinality(new)
    <3>1. ((connectionCount - 1) - Cardinality(connectedPeers \cap {})) + Cardinality(new)
            >= Cardinality(connectedPeers \ {}) + Cardinality(Unidentified')
      BY <1>5, <2>2, <2>7, ErasureKeepsCover
    <3>2. QED
      BY <1>5, <2>4, <2>5, <2>6, <2>7, <2>8, <3>1 DEF PoolTypeOK, CountCovers
  <2>9. CASE connectedPeers' = connectedPeers \cup {p} /\ p \notin connectedPeers
             /\ connectionCount' = connectionCount /\ new = {}
    <3>1. Cardinality(connectedPeers') = Cardinality(connectedPeers) + 1
      BY <2>2, <2>9, FS_AddElement
    <3>2. Unidentified' \in SUBSET others
      BY <1>5, <2>9
    <3>3. Cardinality(Unidentified') \in Nat
          /\ Cardinality(Unidentified') <= Cardinality(others)
      BY <2>2, <3>2, CardinalityBelow
    <3>4. connectionCount' >= Cardinality(connectedPeers') + Cardinality(Unidentified')
      BY <2>4, <2>6, <2>7, <2>9, <3>1, <3>3
    <3>5. QED
      BY <1>5, <2>6, <2>9, <3>4 DEF PoolTypeOK, CountCovers
  <2>10. QED
    BY <1>5, <2>8, <2>9
<1>6. ASSUME NEW c \in Conn, NEW p \in Peer, HandshakeAccepted(c, p) PROVE Ok
  <2>1. /\ socket[c] = "open" /\ peerId[c] = NoPeer /\ p \notin connectedPeers
        /\ connectedPeers' = connectedPeers \cup {p}
        /\ connectionCount' = connectionCount /\ availablePeers' = availablePeers
    BY <1>6 DEF HandshakeAccepted
  <2>2. Unidentified' \subseteq (Unidentified \ {c}) \cup {}
    BY <1>6, <1>a, ConnAssumption DEF HandshakeAccepted, Unidentified, LifeTypeOK, lifeVars
  <2>3. {} \in SUBSET FreeSlots /\ availablePeers' \subseteq Peer
    BY <1>a, <2>1 DEF PoolTypeOK
  <2>4. QED
    BY <1>5, <2>1, <2>2, <2>3
<1>7. ASSUME NEW c \in Conn, NEW p \in Peer, HandshakeDuplicate(c, p) PROVE Ok
  <2>1. PICK new \in SUBSET FreeSlots :
          /\ Refill(connectionCount - 1, new)
          /\ socket' = [d \in Conn |-> IF d \in new THEN "connecting" ELSE socket[d]]
    BY <1>7 DEF HandshakeDuplicate
  <2>2. /\ socket[c] = "open" /\ peerId[c] = NoPeer
        /\ peerId' = [peerId EXCEPT ![c] = p] /\ connectedPeers' = connectedPeers
    BY <1>7 DEF HandshakeDuplicate
  <2>3. Unidentified' \subseteq (Unidentified \ {c}) \cup new
    BY <1>a, <2>1, <2>2, ConnAssumption DEF Unidentified, LifeTypeOK
  <2>4. connectionCount - 1 \in Int
    BY <1>a DEF PoolTypeOK
  <2>5. /\ availablePeers' \subseteq Peer
        /\ connectionCount' = (connectionCount - 1) + Cardinality(new)
    BY <1>a, <2>1, <2>4, RefillCountsIfIncomplete
  <2>6. QED
    BY <1>5, <2>1, <2>2, <2>3, <2>5
<1>8. ASSUME NEW c \in Conn, NEW p \in Peer, HandshakeWrong(c, p) PROVE Ok
  <2>1. peerId' = [peerId EXCEPT ![c] = p] /\ p # NoPeer /\ socket[c] # "free"
        /\ OnDisconnection(c, p)
    BY <1>8, ConnAssumption DEF HandshakeWrong
  <2>2. peerId'[c] # NoPeer /\ \A d \in Conn \ {c} : peerId'[d] = peerId[d]
    BY <1>a, <2>1 DEF LifeTypeOK
  <2>3. QED
    BY <1>c, <2>1, <2>2
<1>9. ASSUME NEW c \in Conn, PieceFinished(c) PROVE Ok
  <2> DEFINE closing == Needless(pieces')
             ids == {peerId[d] : d \in closing}
  <2>1. /\ socket' = [d \in Conn |-> IF d \in closing THEN "closed" ELSE socket[d]]
        /\ connectedPeers' = connectedPeers \ ids
        /\ connectionCount' = connectionCount - Cardinality(connectedPeers \cap ids)
        /\ UNCHANGED <<availablePeers, peerId>>
    BY <1>9 DEF PieceFinished
  <2>2. Unidentified' \subseteq Unidentified
    BY <2>1 DEF Unidentified, Needless
  <2> HIDE DEF ids
  <2>3. Cardinality({}) = 0 /\ {} \in SUBSET FreeSlots
    BY FS_EmptySet
  <2>4. Cardinality(connectedPeers \cap ids) \in Nat
    BY <1>a, CountedAreFinite, FS_Intersection, FS_CardinalityType
  <2>5. connectionCount' = (connectionCount - Cardinality(connectedPeers \cap ids))
                           + Cardinality({})
    BY <1>a, <2>1, <2>3, <2>4 DEF PoolTypeOK
  <2>6. availablePeers' \subseteq Peer /\ Unidentified' \subseteq Unidentified \cup {}
    BY <1>a, <2>1, <2>2 DEF PoolTypeOK
  <2>7. QED
    BY <1>a, <2>1, <2>3, <2>5, <2>6, CoverStep
<1>10. ASSUME NEW listed \in SUBSET Peer, UpdatePeerList(listed) PROVE Ok
  <2> DEFINE fresh == listed \ availablePeers
  <2>1. PICK new \in SUBSET FreeSlots :
          /\ ConnectionManager(availablePeers \cup fresh, connectionCount, new)
          /\ socket' = [d \in Conn |-> IF d \in new THEN "connecting" ELSE socket[d]]
    BY <1>10 DEF UpdatePeerList
  <2>2. availablePeers \cup fresh \in SUBSET Peer
    BY <1>a DEF PoolTypeOK
  <2>3. connectionCount' = connectionCount + Cardinality(new) /\ availablePeers' \subseteq Peer
    BY <2>1, <2>2, RefillCounts
  <2>4. UNCHANGED <<connectedPeers, peerId>>
    BY <1>10 DEF UpdatePeerList
  <2>5. Unidentified' \subseteq Unidentified \cup new
    BY <2>1, <2>4 DEF Unidentified
  <2>6. QED
    BY <1>a, <2>1, <2>3, <2>4, <2>5, CoverStepNothingErased
<1>11. CASE \/ OnTrackerStatusChanged
            \/ UNCHANGED vars
            \/ \E c \in Conn : \/ \E S \in SUBSET Pieces : Bitfield(c, S)
                               \/ \E i \in Pieces : Have(c, i)
                               \/ \E good \in BOOLEAN :
                                    BlockReceived(c, good) \/ PieceRejected(c, good)
  BY <1>11, <1>b DEF OnTrackerStatusChanged, vars, Bitfield, Have, Advertised,
     BlockReceived, PieceRejected
<1>12. QED
  BY <1>1, <1>2, <1>3, <1>4, <1>6, <1>7, <1>8, <1>9, <1>10, <1>11 DEF Next, Block

\* The pool keeps its invariant.
LEMMA PoolHolds == Spec => []PoolInv
<1>1. Init => PoolInv
  <2> SUFFICES ASSUME Init PROVE PoolInv
    OBVIOUS
  <2>1. FileTypeOK
    BY SizeOfType DEF Init, FileTypeOK
  <2>2. Unidentified = {} /\ connectedPeers = {} /\ connectionCount = 0
    BY DEF Init, Unidentified
  <2>3. PoolTypeOK /\ CountCovers
    BY <2>2, FS_EmptySet DEF Init, PoolTypeOK, CountCovers
  <2>4. LifeTypeOK /\ FreeIsFresh
    BY DEF Init, LifeTypeOK, FreeIsFresh
  <2>5. pieces \in SUBSET Pieces /\ piecesToDownload = B!Complement(pieces)
    BY DEF Init
  <2>6. piecesToDownload \subseteq Pieces
    BY <2>5, InitialComplement
  <2>7. TaskTypeOK
    BY <2>6, PieceSizes DEF Init, TaskTypeOK
  <2>8. QED
    BY <2>1, <2>3, <2>4, <2>7 DEF PoolInv, TypeOK
<1>2. PoolInv /\ [Next]_vars => PoolInv'
  <2> SUFFICES ASSUME PoolInv, [Next]_vars PROVE PoolInv'
    OBVIOUS
  <2>1. TypeOK /\ FreeIsFresh
    BY DEF PoolInv
  <2>2. QED
    BY <2>1, FileTypeStep, TaskTypeStep, LifeStep, CountStep DEF PoolInv, TypeOK
<1>3. QED
  BY <1>1, <1>2, PTL DEF Spec

\* Every variable keeps its type, the count never wrapping below zero: for
\* any torrent, any set of peers, and any order of connections, handshakes,
\* disconnections and deletions.
THEOREM TypeCorrect == Spec => []TypeOK
<1>1. PoolInv => TypeOK
  BY DEF PoolInv
<1>2. QED
  BY <1>1, PoolHolds, PTL

\* In all of them the count covers the peers that are connected and the objects
\* that have not learnt their peer's id, so that no "-=" on it wraps.
THEOREM PoolCounted == Spec => []CountCovers
<1>1. PoolInv => CountCovers
  BY DEF PoolInv
<1>2. QED
  BY <1>1, PoolHolds, PTL

-----------------------------------------------------------------------------
(***************************************************************************)
(* Where a piece is: owned, to be downloaded, or assigned to a connection. *)
(***************************************************************************)

\* What going idle or being assigned a piece does: a wanted piece stays
\* wanted or becomes c's task, and nobody else's task changes.
LEMMA DownloadMenagerMoves ==
  ASSUME TaskTypeOK, NEW c \in Conn, NEW wanted \in SUBSET Pieces, NEW have,
         DownloadMenager(c, wanted, have)
  PROVE  /\ \A d \in Conn \ {c} : /\ isDownloading'[d] = isDownloading[d]
                                  /\ download_index'[d] = download_index[d]
         /\ \/ ~isDownloading'[c] /\ piecesToDownload' = wanted
            \/ /\ isDownloading'[c] /\ download_index'[c] \in wanted
               /\ piecesToDownload' = wanted \ {download_index'[c]}
<1>1. CASE Interesting(wanted, have) = {}
  BY <1>1 DEF DownloadMenager, Idle, TaskTypeOK
<1>2. CASE Interesting(wanted, have) # {}
  <2>1. PICK i \in Interesting(wanted, have) : DownloadPiece(c, i, wanted)
    BY <1>2 DEF DownloadMenager
  <2>2. QED
    BY <2>1 DEF DownloadPiece, Interesting, TaskTypeOK
<1>3. QED
  BY <1>1, <1>2

\* Where piece i is.
Placed(i) == \/ i \in pieces
             \/ i \in piecesToDownload
             \/ \E c \in Conn : isDownloading[c] /\ download_index[c] = i

LEMMA PlacedIsNotLost ==
  ASSUME TypeOK
  PROVE  NoPieceLost <=> \A i \in Pieces : Placed(i)
BY DEF TypeOK, FileTypeOK, TaskTypeOK, NoPieceLost, TaskOf, Placed

\* No step forgets a piece.
LEMMA PlacedStep ==
  ASSUME TypeOK, [Next]_vars, NEW i \in Pieces, Placed(i)
  PROVE  Placed(i)'
<1>a. TaskTypeOK
  BY DEF TypeOK
<1>b. ASSUME UNCHANGED <<pieces, piecesToDownload, taskVars>> PROVE Placed(i)'
  BY <1>b DEF Placed, taskVars
<1>c. ASSUME NEW c \in Conn, NEW how, OnDownloadCanceled({c}, how), pieces' = pieces,
             \A d \in Conn \ {c} : /\ isDownloading'[d] = isDownloading[d]
                                   /\ download_index'[d] = download_index[d]
      PROVE  Placed(i)'
  <2>1. piecesToDownload' = piecesToDownload \cup TaskOf({c})
    BY <1>c DEF OnDownloadCanceled
  <2>2. isDownloading[c] => download_index[c] \in TaskOf({c})
    BY DEF TaskOf
  <2>3. QED
    BY <1>c, <2>1, <2>2 DEF Placed
<1>d. ASSUME NEW c \in Conn, NEW wanted \in SUBSET Pieces, NEW have,
             DownloadMenager(c, wanted, have), piecesToDownload \subseteq wanted,
             pieces \subseteq pieces',
             isDownloading[c] => download_index[c] \in pieces' \cup wanted
      PROVE  Placed(i)'
  <2>1. /\ \A d \in Conn \ {c} : /\ isDownloading'[d] = isDownloading[d]
                                 /\ download_index'[d] = download_index[d]
        /\ \/ ~isDownloading'[c] /\ piecesToDownload' = wanted
           \/ /\ isDownloading'[c] /\ download_index'[c] \in wanted
              /\ piecesToDownload' = wanted \ {download_index'[c]}
    BY <1>a, <1>d, DownloadMenagerMoves
  <2>2. QED
    BY <1>d, <2>1 DEF Placed
<1>1. ASSUME NEW c \in Conn, Disconnected(c) \/ \E p \in Peer : HandshakeWrong(c, p)
      PROVE  Placed(i)'
  BY <1>1, <1>c DEF Disconnected, HandshakeWrong, OnDisconnection, taskVars, fileVars
<1>2. ASSUME NEW c \in Conn, Destroy(c) PROVE Placed(i)'
  <2>1. OnDownloadCanceled({c}, "clean") /\ pieces' = pieces /\ Idle(c)
    BY <1>2 DEF Destroy, fileVars
  <2>2. QED
    BY <1>a, <1>c, <2>1 DEF Idle, TaskTypeOK
<1>3. ASSUME NEW c \in Conn, NEW S, Advertised(c, S) PROVE Placed(i)'
  <2>1. CASE isDownloading[c]
    BY <1>3, <2>1, <1>b DEF Advertised, fileVars
  <2>2. CASE ~isDownloading[c]
    <3>1. /\ DownloadMenager(c, piecesToDownload, S) /\ pieces' = pieces
          /\ piecesToDownload \in SUBSET Pieces
      BY <1>3, <1>a, <2>2 DEF Advertised, fileVars, TaskTypeOK
    <3>2. QED
      BY <1>d, <2>2, <3>1
  <2>3. QED
    BY <2>1, <2>2
<1>4. ASSUME NEW c \in Conn, NEW good \in BOOLEAN, PieceRejected(c, good)
      PROVE  Placed(i)'
  <2>1. pieces' = pieces
    BY <1>4 DEF PieceRejected, fileVars
  <2>2. CASE retransmisions[c] > MaxRetransmissions
    <3>1. Idle(c) /\ OnDownloadCanceled({c}, "clean")
      BY <1>4, <2>2 DEF PieceRejected
    <3>2. QED
      BY <1>a, <1>c, <2>1, <3>1 DEF Idle, TaskTypeOK
  <2>3. CASE ~(retransmisions[c] > MaxRetransmissions)
    BY <1>4, <2>1, <2>3 DEF PieceRejected, Placed
  <2>4. QED
    BY <2>2, <2>3
<1>5. ASSUME NEW c \in Conn, PieceFinished(c) PROVE Placed(i)'
  <2> DEFINE given == TaskOf(Needless(pieces') \ {c})
  <2>1. /\ DownloadMenager(c, piecesToDownload \cup given, havePieces[c])
        /\ pieces' = pieces \cup {download_index[c]}
    BY <1>5 DEF PieceFinished, Store
  <2>2. piecesToDownload \cup given \in SUBSET Pieces
    BY <1>a, TasksArePieces DEF TaskTypeOK, Needless
  <2> HIDE DEF given
  <2>3. QED
    BY <1>d, <2>1, <2>2
<1>6. CASE UNCHANGED <<pieces, piecesToDownload, taskVars>>
  BY <1>6, <1>b
<1>7. \/ \E c \in Conn :
           \/ Disconnected(c) \/ (\E p \in Peer : HandshakeWrong(c, p))
           \/ Destroy(c) \/ (\E S : Advertised(c, S))
           \/ (\E good \in BOOLEAN : PieceRejected(c, good))
           \/ PieceFinished(c)
      \/ UNCHANGED <<pieces, piecesToDownload, taskVars>>
  BY DEF Next, Block, vars, fileVars, OnNewConnection, Connected, HandshakeAccepted,
     HandshakeDuplicate, BlockReceived, UpdatePeerList, OnTrackerStatusChanged,
     Bitfield, Have
<1>8. QED
  BY <1>1, <1>2, <1>3, <1>4, <1>5, <1>6, <1>7

\* No piece is ever forgotten, if the number of pieces does not fill the last
\* page of the bit set: otherwise the complement the download starts from
\* misses the pieces of that page, whatever the connections do.
THEOREM NothingLost ==
  ASSUME NumPieces % PageBits # 0
  PROVE  Spec => []NoPieceLost
<1>1. Init /\ TypeOK => NoPieceLost
  <2> SUFFICES ASSUME Init, TypeOK PROVE NoPieceLost
    OBVIOUS
  <2>1. pieces \in SUBSET Pieces /\ piecesToDownload = B!Complement(pieces)
    BY DEF Init
  <2>2. piecesToDownload = Pieces \ pieces
    BY <2>1, InitialComplement
  <2>3. QED
    BY <2>2, PlacedIsNotLost DEF Placed
<1>2. NoPieceLost /\ TypeOK /\ TypeOK' /\ [Next]_vars => NoPieceLost'
  <2> SUFFICES ASSUME NoPieceLost, TypeOK, TypeOK', [Next]_vars PROVE NoPieceLost'
    OBVIOUS
  <2>1. \A i \in Pieces : Placed(i)'
    BY PlacedStep, PlacedIsNotLost
  <2>2. QED
    BY <2>1 DEF TypeOK, FileTypeOK, TaskTypeOK, NoPieceLost, TaskOf, Placed
<1>3. QED
  BY <1>1, <1>2, TypeCorrect, PTL DEF Spec

-----------------------------------------------------------------------------
(***************************************************************************)
(* A piece is in one place only, until one is given back dirty.            *)
(***************************************************************************)

\* The conclusion of NoPieceTwice.
Once ==
  /\ pieces \cap piecesToDownload = {}
  /\ \A c \in Conn : isDownloading[c] =>
       /\ download_index[c] \notin pieces \cup piecesToDownload
       /\ \A d \in Conn \ {c} :
            isDownloading[d] => download_index[d] # download_index[c]

\* Going idle or being assigned a piece keeps the places apart, when what is
\* wanted is neither owned nor somebody else's task.
LEMMA DownloadMenagerOnce ==
  ASSUME TaskTypeOK, NEW c \in Conn, NEW wanted \in SUBSET Pieces, NEW have,
         DownloadMenager(c, wanted, have), pieces' \cap wanted = {},
         \A d \in Conn \ {c} : isDownloading[d] =>
           /\ download_index[d] \notin pieces' \cup wanted
           /\ \A e \in Conn \ {c, d} :
                isDownloading[e] => download_index[e] # download_index[d]
  PROVE  Once'
<1>1. /\ \A d \in Conn \ {c} : /\ isDownloading'[d] = isDownloading[d]
                               /\ download_index'[d] = download_index[d]
      /\ \/ ~isDownloading'[c] /\ piecesToDownload' = wanted
         \/ /\ isDownloading'[c] /\ download_index'[c] \in wanted
            /\ piecesToDownload' = wanted \ {download_index'[c]}
  BY DownloadMenagerMoves
<1>2. CASE ~isDownloading'[c] /\ piecesToDownload' = wanted
  BY <1>1, <1>2 DEF Once
<1>3. CASE /\ isDownloading'[c] /\ download_index'[c] \in wanted
           /\ piecesToDownload' = wanted \ {download_index'[c]}
  BY <1>1, <1>3 DEF Once
<1>4. QED
  BY <1>1, <1>2, <1>3

\* A step keeps the places apart unless a piece is given back dirty.
LEMMA OnceStep ==
  ASSUME TypeOK, Once, [Next]_vars
  PROVE  Once' \/ returned' = "dirty"
<1>a. TaskTypeOK
  BY DEF TypeOK
<1> DEFINE Ok == Once' \/ returned' = "dirty"
<1>b. ASSUME UNCHANGED <<pieces, piecesToDownload, isDownloading, download_index>>
      PROVE  Ok
  BY <1>b DEF Once
<1>c. ASSUME NEW c \in Conn, NEW how, OnDownloadCanceled({c}, how), Idle(c),
             pieces' = pieces
      PROVE  Ok
  <2>1. piecesToDownload' = piecesToDownload \cup TaskOf({c})
    BY <1>c DEF OnDownloadCanceled
  <2>2. TaskOf({c}) = IF isDownloading[c] THEN {download_index[c]} ELSE {}
    BY DEF TaskOf
  <2>3. ~isDownloading'[c] /\ \A d \in Conn \ {c} :
          isDownloading'[d] = isDownloading[d] /\ download_index'[d] = download_index[d]
    BY <1>c, <1>a DEF Idle, TaskTypeOK
  <2>4. QED
    BY <1>c, <2>1, <2>2, <2>3 DEF Once
<1>1. ASSUME NEW c \in Conn, Disconnected(c) \/ \E p \in Peer : HandshakeWrong(c, p)
      PROVE  Ok
  <2>1. OnDownloadCanceled({c}, "dirty") /\ UNCHANGED <<fileVars, taskVars>>
    BY <1>1 DEF Disconnected, HandshakeWrong, OnDisconnection
  <2>2. CASE TaskOf({c}) = {}
    BY <1>b, <2>1, <2>2 DEF OnDownloadCanceled, fileVars, taskVars
  <2>3. CASE TaskOf({c}) # {}
    BY <2>1, <2>3 DEF OnDownloadCanceled, Worse
  <2>4. QED
    BY <2>2, <2>3
<1>2. ASSUME NEW c \in Conn, Destroy(c) PROVE Ok
  BY <1>2, <1>c DEF Destroy, fileVars
<1>3. ASSUME NEW c \in Conn, NEW S, Advertised(c, S) PROVE Ok
  <2>1. CASE isDownloading[c]
    BY <1>3, <2>1, <1>b DEF Advertised, fileVars, taskVars
  <2>2. CASE ~isDownloading[c]
    <3>1. /\ DownloadMenager(c, piecesToDownload, S) /\ pieces' = pieces
          /\ piecesToDownload \in SUBSET Pieces
      BY <1>3, <1>a, <2>2 DEF Advertised, fileVars, TaskTypeOK
    <3>2. Once'
      BY <1>a, <3>1, DownloadMenagerOnce DEF Once
    <3>3. QED
      BY <3>2
  <2>3. QED
    BY <2>1, <2>2
<1>4. ASSUME NEW c \in Conn, NEW good \in BOOLEAN, PieceRejected(c, good) PROVE Ok
  <2>1. pieces' = pieces
    BY <1>4 DEF PieceRejected, fileVars
  <2>2. CASE retransmisions[c] > MaxRetransmissions
    BY <1>4, <1>c, <2>1, <2>2 DEF PieceRejected
  <2>3. CASE ~(retransmisions[c] > MaxRetransmissions)
    BY <1>4, <1>b, <2>1, <2>3 DEF PieceRejected
  <2>4. QED
    BY <2>2, <2>3
<1>5. ASSUME NEW c \in Conn, PieceFinished(c) PROVE Ok
  <2> DEFINE given == TaskOf(Needless(pieces') \ {c})
             i == download_index[c]
  <2>1. /\ DownloadMenager(c, piecesToDownload \cup given, havePieces[c])
        /\ returned' = IF given = {} THEN returned ELSE "dirty"
        /\ pieces' = pieces \cup {i} /\ isDownloading[c]
    BY <1>5 DEF PieceFinished, Store, Awaiting
  <2> HIDE DEF given
  <2>2. CASE given # {}
    BY <2>1, <2>2
  <2>3. CASE given = {}
    <3>1. DownloadMenager(c, piecesToDownload, havePieces[c])
      BY <2>1, <2>3
    <3>2. pieces' \cap piecesToDownload = {} /\ piecesToDownload \in SUBSET Pieces
      BY <1>a, <2>1 DEF Once, TaskTypeOK
    <3>3. \A d \in Conn \ {c} : isDownloading[d] =>
            /\ download_index[d] \notin pieces' \cup piecesToDownload
            /\ \A e \in Conn \ {c, d} :
                 isDownloading[e] => download_index[e] # download_index[d]
      BY <2>1 DEF Once
    <3>4. Once'
      BY <1>a, <3>1, <3>2, <3>3, DownloadMenagerOnce
    <3>5. QED
      BY <3>4
  <2>4. QED
    BY <2>2, <2>3
<1>6. CASE UNCHANGED <<pieces, piecesToDownload, taskVars>>
  BY <1>6, <1>b DEF taskVars
<1>7. \/ \E c \in Conn :
           \/ Disconnected(c) \/ (\E p \in Peer : HandshakeWrong(c, p))
           \/ Destroy(c) \/ (\E S : Advertised(c, S))
           \/ (\E good \in BOOLEAN : PieceRejected(c, good))
           \/ PieceFinished(c)
      \/ UNCHANGED <<pieces, piecesToDownload, taskVars>>
  BY DEF Next, Block, vars, fileVars, OnNewConnection, Connected, HandshakeAccepted,
     HandshakeDuplicate, BlockReceived, UpdatePeerList, OnTrackerStatusChanged,
     Bitfield, Have
<1>8. QED
  BY <1>1, <1>2, <1>3, <1>4, <1>5, <1>6, <1>7

\* Once dirty, always dirty.
LEMMA DirtyStays ==
  ASSUME TypeOK, [Next]_vars, returned = "dirty"
  PROVE  returned' = "dirty"
BY DEF Next, Block, vars, OnNewConnection, Connected, Disconnected, Destroy,
   HandshakeAccepted, HandshakeDuplicate, HandshakeWrong, OnDisconnection,
   OnDownloadCanceled, Worse, Bitfield, Have, Advertised, BlockReceived,
   PieceRejected, PieceFinished, UpdatePeerList, OnTrackerStatusChanged

\* A piece that no connection gave back while still marked as downloading is
\* never wanted twice, so never downloaded twice, and never wanted when owned.
THEOREM NothingTwice == Spec => []NoPieceTwice
<1>1. Init => NoPieceTwice
  <2> SUFFICES ASSUME Init PROVE Once
    BY DEF NoPieceTwice, Once
  <2>1. pieces \in SUBSET Pieces /\ piecesToDownload = B!Complement(pieces)
    BY DEF Init
  <2>2. pieces \cap piecesToDownload = {}
    BY <2>1, InitialComplement
  <2>3. QED
    BY <2>2 DEF Init, Once
<1>2. NoPieceTwice /\ TypeOK /\ [Next]_vars => NoPieceTwice'
  <2> SUFFICES ASSUME NoPieceTwice, TypeOK, [Next]_vars PROVE NoPieceTwice'
    OBVIOUS
  <2>1. CASE returned = "dirty"
    BY <2>1, DirtyStays DEF NoPieceTwice
  <2>2. CASE returned # "dirty"
    <3>1. Once
      BY <2>2 DEF NoPieceTwice, Once
    <3>2. Once' \/ returned' = "dirty"
      BY <3>1, OnceStep
    <3>3. QED
      BY <3>2 DEF NoPieceTwice, Once
  <2>3. QED
    BY <2>1, <2>2
<1>3. QED
  BY <1>1, <1>2, TypeCorrect, PTL DEF Spec

-----------------------------------------------------------------------------
(***************************************************************************)
(* What a download gains: from whom, in what order, and what it has to     *)
(* show for it.                                                            *)
(***************************************************************************)

\* Going idle, or being assigned a piece: what is assigned is advertised, and an
\* object stays idle only when nothing that is advertised is wanted.
LEMMA DownloadMenagerAsks ==
  ASSUME TaskTypeOK, NEW c \in Conn, NEW wanted \in SUBSET Pieces, NEW have,
         DownloadMenager(c, wanted, have)
  PROVE  /\ isDownloading'[c] => download_index'[c] \in have
         /\ ~isDownloading'[c] => wanted \cap have = {}
         /\ piecesToDownload' \subseteq wanted
<1>1. CASE Interesting(wanted, have) = {}
  BY <1>1 DEF DownloadMenager, Idle, Interesting, TaskTypeOK
<1>2. CASE Interesting(wanted, have) # {}
  <2>1. PICK i \in Interesting(wanted, have) : DownloadPiece(c, i, wanted)
    BY <1>2 DEF DownloadMenager
  <2>2. QED
    BY <2>1 DEF DownloadPiece, Interesting, TaskTypeOK
<1>3. QED
  BY <1>1, <1>2

-----------------------------------------------------------------------------
(***************************************************************************)
(* The buffer of a piece.                                                  *)
(***************************************************************************)

\* The buffer of a connection is emptied whenever it goes idle.
LEMMA CleanStep ==
  ASSUME TypeOK, CleanFragment, [Next]_vars
  PROVE  CleanFragment'
<1>a. TaskTypeOK
  BY DEF TypeOK
<1>b. ASSUME NEW c \in Conn, ClearFragment(c),
             \A d \in Conn \ {c} : isDownloading'[d] = isDownloading[d]
      PROVE  CleanFragment'
  BY <1>a, <1>b DEF ClearFragment, CleanFragment, TaskTypeOK
<1>c. ASSUME UNCHANGED fragVars, \A d \in Conn : isDownloading[d] => isDownloading'[d]
      PROVE  CleanFragment'
  BY <1>c DEF fragVars, CleanFragment
<1>1. ASSUME NEW c \in Conn, NEW S, Advertised(c, S) PROVE CleanFragment'
  <2>1. UNCHANGED fragVars
    BY <1>1 DEF Advertised
  <2>2. CASE isDownloading[c]
    BY <1>1, <1>c, <2>1, <2>2 DEF Advertised, taskVars
  <2>3. CASE ~isDownloading[c]
    <3>1. DownloadMenager(c, piecesToDownload, S)
      BY <1>1, <2>3 DEF Advertised
    <3>2. \A d \in Conn : isDownloading[d] => isDownloading'[d]
      BY <1>a, <2>3, <3>1, DownloadMenagerElsewhere
    <3>3. QED
      BY <1>c, <2>1, <3>2
  <2>4. QED
    BY <2>2, <2>3
<1>2. ASSUME NEW c \in Conn, NEW good \in BOOLEAN, BlockReceived(c, good)
      PROVE  CleanFragment'
  BY <1>2, <1>a DEF BlockReceived, Awaiting, taskVars, CleanFragment, TaskTypeOK
<1>3. ASSUME NEW c \in Conn, NEW good \in BOOLEAN, PieceRejected(c, good)
      PROVE  CleanFragment'
  <2>1. ClearFragment(c) /\ (Idle(c) \/ UNCHANGED isDownloading)
    BY <1>3 DEF PieceRejected
  <2>2. QED
    BY <1>a, <1>b, <2>1 DEF Idle, TaskTypeOK
<1>4. ASSUME NEW c \in Conn, PieceFinished(c) PROVE CleanFragment'
  <2>1. /\ ClearFragment(c)
        /\ \E wanted : DownloadMenager(c, wanted, havePieces[c])
    BY <1>4 DEF PieceFinished
  <2>2. \A d \in Conn \ {c} : isDownloading'[d] = isDownloading[d]
    BY <1>a, <2>1, DownloadMenagerElsewhere
  <2>3. QED
    BY <1>b, <2>1, <2>2
<1>5. ASSUME NEW c \in Conn, Destroy(c) PROVE CleanFragment'
  BY <1>5, <1>a, <1>b DEF Destroy, Idle, TaskTypeOK
<1>6. CASE UNCHANGED <<fragVars, taskVars>>
  BY <1>6, <1>c DEF taskVars
<1>7. \/ \E c \in Conn :
           \/ \E S : Advertised(c, S)
           \/ \E good \in BOOLEAN : BlockReceived(c, good) \/ PieceRejected(c, good)
           \/ PieceFinished(c) \/ Destroy(c)
      \/ UNCHANGED <<fragVars, taskVars>>
  BY DEF Next, Block, vars, OnNewConnection, Connected, Disconnected,
     HandshakeAccepted, HandshakeDuplicate, HandshakeWrong, UpdatePeerList,
     OnTrackerStatusChanged, Bitfield, Have
<1>8. QED
  BY <1>1, <1>2, <1>3, <1>4, <1>5, <1>6, <1>7

\* Blocks of two pieces, or of two attempts at one, are never hashed together:
\* a connection without a piece has an empty buffer, however it lost it.
THEOREM BufferIsClean == Spec => []CleanFragment
<1>1. Init => CleanFragment
  BY DEF Init, CleanFragment
<1>2. QED
  BY <1>1, CleanStep, TypeCorrect, PTL DEF Spec

-----------------------------------------------------------------------------
(***************************************************************************)
(* From whom a piece comes.                                                *)
(***************************************************************************)

\* What a connection is to download its peer has advertised, and still does.
TaskAdvertised ==
  \A c \in Conn : isDownloading[c] => download_index[c] \in havePieces[c]

LEMMA TaskAdvertisedStep ==
  ASSUME TypeOK, TaskAdvertised, [Next]_vars
  PROVE  TaskAdvertised'
<1>a. TaskTypeOK
  BY DEF TypeOK
<1>b. ASSUME NEW c \in Conn, Idle(c), \A d \in Conn \ {c} : havePieces'[d] = havePieces[d]
      PROVE  TaskAdvertised'
  BY <1>a, <1>b DEF Idle, TaskAdvertised, TaskTypeOK
<1>c. ASSUME NEW c \in Conn, NEW wanted \in SUBSET Pieces, NEW have,
             DownloadMenager(c, wanted, have), have \subseteq havePieces'[c],
             \A d \in Conn \ {c} : havePieces'[d] = havePieces[d]
      PROVE  TaskAdvertised'
  BY <1>a, <1>c, DownloadMenagerAsks, DownloadMenagerMoves DEF TaskAdvertised
<1>1. ASSUME NEW c \in Conn, NEW S, Advertised(c, S), havePieces[c] \subseteq S
      PROVE  TaskAdvertised'
  <2>1. havePieces'[c] = S /\ \A d \in Conn \ {c} : havePieces'[d] = havePieces[d]
    BY <1>1, <1>a DEF Advertised, TaskTypeOK
  <2>2. CASE isDownloading[c]
    BY <1>1, <2>1, <2>2 DEF Advertised, taskVars, TaskAdvertised
  <2>3. CASE ~isDownloading[c]
    <3>1. DownloadMenager(c, piecesToDownload, S) /\ piecesToDownload \in SUBSET Pieces
      BY <1>1, <1>a, <2>3 DEF Advertised, TaskTypeOK
    <3>2. QED
      BY <1>c, <2>1, <3>1
  <2>4. QED
    BY <2>2, <2>3
<1>2. ASSUME NEW c \in Conn, NEW good \in BOOLEAN, PieceRejected(c, good)
      PROVE  TaskAdvertised'
  <2>1. CASE retransmisions[c] > MaxRetransmissions
    BY <1>2, <1>a, <1>b, <2>1 DEF PieceRejected, TaskTypeOK
  <2>2. CASE ~(retransmisions[c] > MaxRetransmissions)
    BY <1>2, <2>2 DEF PieceRejected, TaskAdvertised
  <2>3. QED
    BY <2>1, <2>2
<1>3. ASSUME NEW c \in Conn, PieceFinished(c) PROVE TaskAdvertised'
  <2> DEFINE given == TaskOf(Needless(pieces') \ {c})
  <2>1. /\ DownloadMenager(c, piecesToDownload \cup given, havePieces[c])
        /\ havePieces' = havePieces
    BY <1>3 DEF PieceFinished
  <2>2. piecesToDownload \cup given \in SUBSET Pieces
    BY <1>a, TasksArePieces DEF TaskTypeOK, Needless
  <2> HIDE DEF given
  <2>3. QED
    BY <1>c, <2>1, <2>2
<1>4. ASSUME NEW c \in Conn, Destroy(c) PROVE TaskAdvertised'
  BY <1>4, <1>a, <1>b DEF Destroy, TaskTypeOK
<1>5. CASE UNCHANGED <<taskVars, havePieces>>
  BY <1>5 DEF taskVars, TaskAdvertised
<1>6. \/ \E c \in Conn :
           \/ \E S : Advertised(c, S) /\ havePieces[c] \subseteq S
           \/ \E good \in BOOLEAN : PieceRejected(c, good)
           \/ PieceFinished(c) \/ Destroy(c)
      \/ UNCHANGED <<taskVars, havePieces>>
  BY DEF Next, Block, vars, OnNewConnection, Connected, Disconnected,
     HandshakeAccepted, HandshakeDuplicate, HandshakeWrong, UpdatePeerList,
     BlockReceived, OnTrackerStatusChanged, Bitfield, Have
<1>7. QED
  BY <1>1, <1>2, <1>3, <1>4, <1>5, <1>6

\* Pieces are only gained, one at a time, each from a connection that was to
\* download it, whose peer advertised it and whose data had its hash.
THEOREM GainedFromPeer == Spec => GainedFromAdvertiser
<1>1. Init => TaskAdvertised
  BY DEF Init, TaskAdvertised
<1>2. TypeOK /\ TaskAdvertised /\ [Next]_vars => TaskAdvertised'
  BY TaskAdvertisedStep
<1>3. TaskAdvertised /\ [Next]_vars =>
        [pieces' # pieces =>
           \E c \in Conn : /\ isDownloading[c] /\ intact[c]
                           /\ download_index[c] \in havePieces[c]
                           /\ pieces' = pieces \cup {download_index[c]}]_vars
  <2> SUFFICES ASSUME TaskAdvertised, Next, pieces' # pieces
               PROVE  \E c \in Conn : /\ isDownloading[c] /\ intact[c]
                                      /\ download_index[c] \in havePieces[c]
                                      /\ pieces' = pieces \cup {download_index[c]}
    OBVIOUS
  <2>1. PICK c \in Conn : PieceFinished(c)
    BY DEF Next, Block, fileVars, OnNewConnection, Connected, Disconnected, Destroy,
       HandshakeAccepted, HandshakeDuplicate, HandshakeWrong, UpdatePeerList,
       BlockReceived, PieceRejected, OnTrackerStatusChanged, Bitfield, Have, Advertised
  <2>2. QED
    BY <2>1 DEF PieceFinished, Store, Awaiting, TaskAdvertised
<1>4. QED
  BY <1>1, <1>2, <1>3, TypeCorrect, PTL DEF Spec, GainedFromAdvertiser

-----------------------------------------------------------------------------
(***************************************************************************)
(* Idle connections.                                                       *)
(***************************************************************************)

\* An object whose socket never was open has heard of no piece.
UnconnectedHasNone ==
  \A c \in Conn : socket[c] \in {"free", "connecting"} => havePieces[c] = {}

LEMMA UnconnectedStep ==
  ASSUME TypeOK, FreeIsFresh, UnconnectedHasNone, [Next]_vars
  PROVE  UnconnectedHasNone'
<1>a. LifeTypeOK /\ TaskTypeOK
  BY DEF TypeOK
<1>b. ASSUME UNCHANGED havePieces,
             \A d \in Conn : socket'[d] \in {"free", "connecting"} =>
               socket[d] \in {"free", "connecting"}
      PROVE  UnconnectedHasNone'
  BY <1>b DEF UnconnectedHasNone
<1>c. ASSUME NEW c \in Conn, socket[c] = "open", UNCHANGED socket,
             \A d \in Conn \ {c} : havePieces'[d] = havePieces[d]
      PROVE  UnconnectedHasNone'
  BY <1>c DEF UnconnectedHasNone
<1>1. ASSUME NEW c \in Conn, OnNewConnection(c) \/ Connected(c)
      PROVE  UnconnectedHasNone'
  BY <1>1, <1>a, <1>b DEF OnNewConnection, Connected, LifeTypeOK
<1>2. ASSUME NEW c \in Conn, Disconnected(c) \/ \E p \in Peer : HandshakeWrong(c, p)
      PROVE  UnconnectedHasNone'
  BY <1>2, <1>b DEF Disconnected, HandshakeWrong, OnDisconnection, FreeSlots
<1>3. ASSUME NEW c \in Conn, NEW p \in Peer, HandshakeDuplicate(c, p)
      PROVE  UnconnectedHasNone'
  BY <1>3, <1>b DEF HandshakeDuplicate, FreeSlots
<1>4. ASSUME NEW listed, UpdatePeerList(listed) PROVE UnconnectedHasNone'
  BY <1>4, <1>b DEF UpdatePeerList, FreeSlots
<1>5. ASSUME NEW c \in Conn, socket[c] = "open", NEW S, Advertised(c, S)
      PROVE  UnconnectedHasNone'
  BY <1>5, <1>a, <1>c DEF Advertised, lifeVars, TaskTypeOK
<1>6. ASSUME NEW c \in Conn, NEW good \in BOOLEAN, PieceRejected(c, good)
      PROVE  UnconnectedHasNone'
  BY <1>6, <1>a, <1>c DEF PieceRejected, Awaiting, lifeVars, TaskTypeOK
<1>7. ASSUME NEW c \in Conn, PieceFinished(c) PROVE UnconnectedHasNone'
  BY <1>7, <1>b DEF PieceFinished
<1>8. ASSUME NEW c \in Conn, Destroy(c) PROVE UnconnectedHasNone'
  <2>1. PICK new \in SUBSET FreeSlots :
          socket' = [d \in Conn |-> IF d \in new THEN "connecting"
                                    ELSE IF d = c THEN "free" ELSE socket[d]]
    BY <1>8 DEF Destroy
  <2>2. havePieces' = [havePieces EXCEPT ![c] = {}]
    BY <1>8 DEF Destroy
  <2>3. QED
    BY <1>a, <2>1, <2>2 DEF UnconnectedHasNone, FreeSlots, TaskTypeOK
<1>9. CASE UNCHANGED <<socket, havePieces>>
  BY <1>9, <1>b
<1>10. \/ \E c \in Conn :
            \/ OnNewConnection(c) \/ Connected(c) \/ Disconnected(c)
            \/ \E p \in Peer : HandshakeWrong(c, p) \/ HandshakeDuplicate(c, p)
            \/ socket[c] = "open" /\ \E S : Advertised(c, S)
            \/ \E good \in BOOLEAN : PieceRejected(c, good)
            \/ PieceFinished(c) \/ Destroy(c)
       \/ \E listed : UpdatePeerList(listed)
       \/ UNCHANGED <<socket, havePieces>>
  BY DEF Next, Block, vars, lifeVars, HandshakeAccepted, BlockReceived,
     OnTrackerStatusChanged, Bitfield, Have
<1>11. QED
  BY <1>1, <1>2, <1>3, <1>4, <1>5, <1>6, <1>7, <1>8, <1>9, <1>10

\* Giving back leaves its trace, unless there was nothing to give back.
LEMMA NothingGivenBack ==
  ASSUME NEW S \in SUBSET Conn, NEW how \in {"clean", "dirty"},
         OnDownloadCanceled(S, how), returned' = "never"
  PROVE  /\ returned = "never" /\ piecesToDownload' = piecesToDownload
         /\ \A c \in S : ~isDownloading[c]
<1>1. TaskOf(S) = {}
  BY DEF OnDownloadCanceled, Worse
<1>2. QED
  BY <1>1 DEF OnDownloadCanceled, TaskOf

\* While nothing was given back, what is wanted only shrinks, and a connection
\* goes idle only when it has nothing to ask for.
LEMMA IdleStep ==
  ASSUME TypeOK, FreeIsFresh, UnconnectedHasNone, NoIdleInterest, [Next]_vars
  PROVE  NoIdleInterest'
<1> SUFFICES ASSUME returned' = "never" PROVE NoIdleInterest'
  BY DEF NoIdleInterest
<1>a. LifeTypeOK /\ TaskTypeOK
  BY DEF TypeOK
<1>b. ASSUME returned = "never", UNCHANGED <<isDownloading, havePieces>>,
             piecesToDownload' \subseteq piecesToDownload,
             \A d \in Conn : socket'[d] = "open" =>
               socket[d] = "open" \/ havePieces[d] = {}
      PROVE  NoIdleInterest'
  BY <1>b DEF NoIdleInterest
<1>c. ASSUME returned = "never", NEW c \in Conn, NEW have,
             DownloadMenager(c, piecesToDownload, have), havePieces'[c] = have,
             \A d \in Conn \ {c} : havePieces'[d] = havePieces[d],
             \A d \in Conn : socket'[d] = "open" => socket[d] = "open"
      PROVE  NoIdleInterest'
  <2>1. piecesToDownload \in SUBSET Pieces
    BY <1>a DEF TaskTypeOK
  <2>2. /\ ~isDownloading'[c] => piecesToDownload \cap have = {}
        /\ piecesToDownload' \subseteq piecesToDownload
    BY <1>a, <1>c, <2>1, DownloadMenagerAsks
  <2>3. \A d \in Conn \ {c} : isDownloading'[d] = isDownloading[d]
    BY <1>a, <1>c, DownloadMenagerElsewhere
  <2>4. QED
    BY <1>c, <2>2, <2>3 DEF NoIdleInterest
<1>1. ASSUME NEW c \in Conn, OnNewConnection(c) \/ Connected(c) PROVE NoIdleInterest'
  BY <1>1, <1>a, <1>b DEF OnNewConnection, Connected, taskVars, LifeTypeOK,
     UnconnectedHasNone
<1>2. ASSUME NEW c \in Conn, Disconnected(c) \/ \E p \in Peer : HandshakeWrong(c, p)
      PROVE  NoIdleInterest'
  <2>1. OnDisconnection(c, peerId[c]) \/ \E p \in Peer : OnDisconnection(c, p)
    BY <1>2 DEF Disconnected, HandshakeWrong
  <2>2. /\ OnDownloadCanceled({c}, "dirty")
        /\ \A d \in Conn : socket'[d] = "open" => socket[d] = "open"
    BY <2>1 DEF OnDisconnection
  <2>3. UNCHANGED <<isDownloading, havePieces>>
    BY <1>2 DEF Disconnected, HandshakeWrong, taskVars
  <2>4. returned = "never" /\ piecesToDownload' = piecesToDownload
    BY <2>2, NothingGivenBack
  <2>5. QED
    BY <1>b, <2>2, <2>3, <2>4
<1>3. ASSUME NEW c \in Conn, NEW p \in Peer, HandshakeDuplicate(c, p)
      PROVE  NoIdleInterest'
  BY <1>3, <1>b DEF HandshakeDuplicate, taskVars
<1>4. ASSUME NEW listed, UpdatePeerList(listed) PROVE NoIdleInterest'
  BY <1>4, <1>b DEF UpdatePeerList, taskVars
<1>5. ASSUME NEW c \in Conn, NEW S, Advertised(c, S) PROVE NoIdleInterest'
  <2>1. /\ returned = "never" /\ socket' = socket /\ havePieces'[c] = S
        /\ \A d \in Conn \ {c} : havePieces'[d] = havePieces[d]
    BY <1>5, <1>a DEF Advertised, lifeVars, TaskTypeOK
  <2>2. CASE isDownloading[c]
    BY <1>5, <2>1, <2>2 DEF Advertised, taskVars, NoIdleInterest
  <2>3. CASE ~isDownloading[c]
    BY <1>5, <1>c, <2>1, <2>3 DEF Advertised
  <2>4. QED
    BY <2>2, <2>3
<1>6. ASSUME NEW c \in Conn, NEW good \in BOOLEAN, PieceRejected(c, good)
      PROVE  NoIdleInterest'
  <2>1. CASE retransmisions[c] > MaxRetransmissions
    <3>1. OnDownloadCanceled({c}, "clean") /\ isDownloading[c]
      BY <1>6, <2>1 DEF PieceRejected, Awaiting
    <3>2. QED
      BY <3>1, NothingGivenBack
  <2>2. CASE ~(retransmisions[c] > MaxRetransmissions)
    BY <1>6, <1>b, <2>2 DEF PieceRejected, lifeVars
  <2>3. QED
    BY <2>1, <2>2
<1>7. ASSUME NEW c \in Conn, PieceFinished(c) PROVE NoIdleInterest'
  <2> DEFINE given == TaskOf(Needless(pieces') \ {c})
  <2>1. /\ DownloadMenager(c, piecesToDownload \cup given, havePieces[c])
        /\ returned' = IF given = {} THEN returned ELSE "dirty"
        /\ havePieces' = havePieces
        /\ \A d \in Conn : socket'[d] = "open" => socket[d] = "open"
    BY <1>7 DEF PieceFinished
  <2> HIDE DEF given
  <2>2. given = {} /\ returned = "never"
    BY <2>1
  <2>3. DownloadMenager(c, piecesToDownload, havePieces[c])
    BY <2>1, <2>2
  <2>4. QED
    BY <1>c, <2>1, <2>2, <2>3
<1>8. ASSUME NEW c \in Conn, Destroy(c) PROVE NoIdleInterest'
  <2>1. /\ OnDownloadCanceled({c}, "clean") /\ Idle(c)
        /\ havePieces' = [havePieces EXCEPT ![c] = {}]
        /\ \A d \in Conn : socket'[d] = "open" => socket[d] = "open"
    BY <1>8 DEF Destroy
  <2>2. returned = "never" /\ piecesToDownload' = piecesToDownload
    BY <2>1, NothingGivenBack
  <2>3. QED
    BY <1>a, <2>1, <2>2 DEF Idle, NoIdleInterest, TaskTypeOK
<1>9. CASE UNCHANGED <<returned, socket, havePieces, isDownloading, piecesToDownload>>
  BY <1>9, <1>b
<1>10. \/ \E c \in Conn :
            \/ OnNewConnection(c) \/ Connected(c) \/ Disconnected(c)
            \/ \E p \in Peer : HandshakeWrong(c, p) \/ HandshakeDuplicate(c, p)
            \/ \E S : Advertised(c, S)
            \/ \E good \in BOOLEAN : PieceRejected(c, good)
            \/ PieceFinished(c) \/ Destroy(c)
       \/ \E listed : UpdatePeerList(listed)
       \/ UNCHANGED <<returned, socket, havePieces, isDownloading, piecesToDownload>>
  BY DEF Next, Block, vars, lifeVars, taskVars, HandshakeAccepted, BlockReceived,
     OnTrackerStatusChanged, Bitfield, Have
<1>11. QED
  BY <1>1, <1>2, <1>3, <1>4, <1>5, <1>6, <1>7, <1>8, <1>9, <1>10

\* As long as no piece was given back, no connection is idle whose peer has a
\* piece that is wanted: nothing else has to wake it.
THEOREM NobodyIdles == Spec => []NoIdleInterest
<1>1. Init => UnconnectedHasNone /\ NoIdleInterest
  BY DEF Init, UnconnectedHasNone, NoIdleInterest
<1>2. PoolInv => TypeOK /\ FreeIsFresh
  BY DEF PoolInv
<1>3. TypeOK /\ FreeIsFresh /\ UnconnectedHasNone /\ NoIdleInterest /\ [Next]_vars
        => UnconnectedHasNone' /\ NoIdleInterest'
  BY UnconnectedStep, IdleStep
<1>4. QED
  BY <1>1, <1>2, <1>3, PoolHolds, PTL DEF Spec

-----------------------------------------------------------------------------
(***************************************************************************)
(* Connected peers have a connection.                                      *)
(***************************************************************************)

\* An object that is to be deleted and still open was refused by its peer's id.
DoomedIsKnown ==
  \A c \in Conn : doomed[c] /\ socket[c] = "open" => peerId[c] # NoPeer

PeerInv == DoomedIsKnown /\ NoPhantomPeer

\* An open connection that stays is what keeps its peer's id in the set.
LEMMA PeerStep ==
  ASSUME TypeOK, FreeIsFresh, PeerInv, [Next]_vars
  PROVE  PeerInv'
<1>a. LifeTypeOK /\ PoolTypeOK
  BY DEF TypeOK
<1>b. ASSUME UNCHANGED peerId, connectedPeers' \subseteq connectedPeers,
             \A d \in Conn : doomed'[d] /\ socket'[d] = "open" =>
               doomed[d] /\ socket[d] = "open",
             \A d \in Conn :
               /\ peerId[d] \in connectedPeers' /\ socket[d] = "open" /\ ~doomed[d]
               => socket'[d] = "open" /\ ~doomed'[d]
      PROVE  PeerInv'
  BY <1>b DEF PeerInv, DoomedIsKnown, NoPhantomPeer
<1>1. ASSUME NEW c \in Conn, OnNewConnection(c) \/ Connected(c) PROVE PeerInv'
  <2>1. ~doomed[c] /\ socket' = [socket EXCEPT ![c] = "open"]
        /\ UNCHANGED <<peerId, connectedPeers, doomed>>
    BY <1>1 DEF OnNewConnection, Connected, RoundEnded, poolVars
  <2>2. QED
    BY <1>a, <1>b, <2>1 DEF LifeTypeOK
<1>2. ASSUME NEW c \in Conn, Disconnected(c) PROVE PeerInv'
  <2>1. PICK new \in SUBSET FreeSlots :
          /\ connectedPeers' = connectedPeers \ {peerId[c]}
          /\ socket' = [d \in Conn |-> IF d \in new THEN "connecting"
                                       ELSE IF d = c THEN "closed" ELSE socket[d]]
    BY <1>2 DEF Disconnected, OnDisconnection, CloseConnection
  <2>2. doomed' = [doomed EXCEPT ![c] = TRUE] /\ UNCHANGED peerId
    BY <1>2 DEF Disconnected, OnDisconnection
  <2>3. \A d \in Conn : doomed'[d] /\ socket'[d] = "open" =>
          doomed[d] /\ socket[d] = "open"
    BY <1>a, <2>1, <2>2 DEF LifeTypeOK
  <2>4. \A d \in Conn :
          peerId[d] \in connectedPeers' /\ socket[d] = "open" /\ ~doomed[d]
            => socket'[d] = "open" /\ ~doomed'[d]
    BY <1>a, <2>1, <2>2 DEF FreeSlots, LifeTypeOK
  <2>5. QED
    BY <1>b, <2>1, <2>2, <2>3, <2>4
<1>3. ASSUME NEW c \in Conn, NEW p \in Peer, HandshakeAccepted(c, p) PROVE PeerInv'
  <2>1. /\ socket[c] = "open" /\ peerId[c] = NoPeer
        /\ peerId' = [peerId EXCEPT ![c] = p]
        /\ connectedPeers' = connectedPeers \cup {p}
        /\ socket' = socket /\ doomed' = doomed
    BY <1>3 DEF HandshakeAccepted, lifeVars
  <2>2. ~doomed[c]
    BY <2>1 DEF PeerInv, DoomedIsKnown
  <2>3. DoomedIsKnown'
    BY <1>a, <2>1, <2>2 DEF PeerInv, DoomedIsKnown, LifeTypeOK
  <2>4. ASSUME NEW q \in connectedPeers'
        PROVE  \E d \in Conn : peerId'[d] = q /\ socket'[d] = "open" /\ ~doomed'[d]
    <3>1. CASE q = p
      BY <1>a, <2>1, <2>2, <3>1 DEF LifeTypeOK
    <3>2. CASE q # p
      <4>1. PICK d \in Conn : peerId[d] = q /\ socket[d] = "open" /\ ~doomed[d]
        BY <2>1, <2>4, <3>2 DEF PeerInv, NoPhantomPeer
      <4>2. d # c
        BY <1>a, <2>1, <2>4, <3>2, <4>1, ConnAssumption DEF PoolTypeOK
      <4>3. QED
        BY <1>a, <2>1, <4>1, <4>2 DEF LifeTypeOK
    <3>3. QED
      BY <3>1, <3>2
  <2>5. QED
    BY <2>3, <2>4 DEF PeerInv, NoPhantomPeer
<1>4. ASSUME NEW c \in Conn, NEW p \in Peer, socket[c] = "open", peerId[c] = NoPeer,
             peerId' = [peerId EXCEPT ![c] = p], doomed' = [doomed EXCEPT ![c] = TRUE],
             connectedPeers' \subseteq connectedPeers,
             \A d \in Conn \ {c} :
               /\ socket[d] = "open" => socket'[d] = "open"
               /\ socket'[d] = "open" => socket[d] = "open"
      PROVE  PeerInv'
  <2>1. DoomedIsKnown'
    BY <1>4, <1>a, ConnAssumption DEF PeerInv, DoomedIsKnown, LifeTypeOK
  <2>2. ASSUME NEW q \in connectedPeers'
        PROVE  \E d \in Conn : peerId'[d] = q /\ socket'[d] = "open" /\ ~doomed'[d]
    <3>1. PICK d \in Conn : peerId[d] = q /\ socket[d] = "open" /\ ~doomed[d]
      BY <1>4 DEF PeerInv, NoPhantomPeer
    <3>2. d # c
      BY <1>4, <1>a, <3>1, ConnAssumption DEF PoolTypeOK
    <3>3. QED
      BY <1>4, <1>a, <3>1, <3>2 DEF LifeTypeOK
  <2>3. QED
    BY <2>1, <2>2 DEF PeerInv, NoPhantomPeer
<1>5. ASSUME NEW c \in Conn, NEW p \in Peer,
             HandshakeDuplicate(c, p) \/ HandshakeWrong(c, p)
      PROVE  PeerInv'
  <2>1. /\ socket[c] = "open" /\ peerId[c] = NoPeer
        /\ peerId' = [peerId EXCEPT ![c] = p] /\ doomed' = [doomed EXCEPT ![c] = TRUE]
        /\ connectedPeers' \subseteq connectedPeers
    BY <1>5 DEF HandshakeDuplicate, HandshakeWrong, OnDisconnection, CloseConnection
  <2>2. \A d \in Conn \ {c} : /\ socket[d] = "open" => socket'[d] = "open"
                              /\ socket'[d] = "open" => socket[d] = "open"
    BY <1>5 DEF HandshakeDuplicate, HandshakeWrong, OnDisconnection, FreeSlots
  <2>3. QED
    BY <1>4, <2>1, <2>2
<1>6. ASSUME NEW c \in Conn, PieceFinished(c) PROVE PeerInv'
  <2> DEFINE closing == Needless(pieces')
  <2>1. /\ socket' = [d \in Conn |-> IF d \in closing THEN "closed" ELSE socket[d]]
        /\ doomed' = [d \in Conn |-> doomed[d] \/ d \in closing]
        /\ connectedPeers' = connectedPeers \ {peerId[d] : d \in closing}
        /\ UNCHANGED peerId
    BY <1>6 DEF PieceFinished
  <2> HIDE DEF closing
  <2>2. QED
    BY <1>b, <2>1
<1>7. ASSUME NEW c \in Conn, Destroy(c) PROVE PeerInv'
  <2>1. PICK new \in SUBSET FreeSlots :
          socket' = [d \in Conn |-> IF d \in new THEN "connecting"
                                    ELSE IF d = c THEN "free" ELSE socket[d]]
    BY <1>7 DEF Destroy
  <2>2. /\ doomed[c] /\ doomed' = [doomed EXCEPT ![c] = FALSE]
        /\ peerId' = [peerId EXCEPT ![c] = NoPeer]
        /\ connectedPeers' \subseteq connectedPeers
    BY <1>7 DEF Destroy, CloseConnection, poolVars
  <2>3. QED
    BY <1>a, <2>1, <2>2 DEF PeerInv, DoomedIsKnown, NoPhantomPeer, FreeSlots, LifeTypeOK
<1>8. ASSUME NEW listed, UpdatePeerList(listed) PROVE PeerInv'
  BY <1>8, <1>b DEF UpdatePeerList, FreeSlots
<1>9. CASE UNCHANGED <<lifeVars, peerId, connectedPeers>>
  BY <1>9, <1>b DEF lifeVars
<1>10. \/ \E c \in Conn :
            \/ OnNewConnection(c) \/ Connected(c) \/ Disconnected(c)
            \/ \E p \in Peer : \/ HandshakeAccepted(c, p) \/ HandshakeWrong(c, p)
                               \/ HandshakeDuplicate(c, p)
            \/ PieceFinished(c) \/ Destroy(c)
       \/ \E listed : UpdatePeerList(listed)
       \/ UNCHANGED <<lifeVars, peerId, connectedPeers>>
  BY DEF Next, Block, vars, poolVars, BlockReceived, PieceRejected,
     OnTrackerStatusChanged, Bitfield, Have, Advertised
<1>11. QED
  BY <1>1, <1>2, <1>3, <1>5, <1>6, <1>7, <1>8, <1>9, <1>10

\* No id is left behind in the set of connected peers, so a peer is refused as
\* a duplicate only while it has an open connection that is not going away.
THEOREM NobodyLockedOut == Spec => []NoPhantomPeer
<1>1. Init => PeerInv
  BY DEF Init, PeerInv, DoomedIsKnown, NoPhantomPeer
<1>2. PoolInv => TypeOK /\ FreeIsFresh
  BY DEF PoolInv
<1>3. TypeOK /\ FreeIsFresh /\ PeerInv /\ [Next]_vars => PeerInv'
  BY PeerStep
<1>4. PeerInv => NoPhantomPeer
  BY DEF PeerInv
<1>5. QED
  BY <1>1, <1>2, <1>3, <1>4, PoolHolds, PTL DEF Spec

-----------------------------------------------------------------------------
(***************************************************************************)
(* Totals, and the file.                                                   *)
(***************************************************************************)

\* A piece that is added to a set adds its size.
LEMMA SizeGrows ==
  ASSUME NEW S \in SUBSET Pieces, NEW i \in Pieces \ S
  PROVE  SizeOf(S \cup {i}) = SizeOf(S) + PieceLen(i)
<1> DEFINE rest == S \ {LastPiece}
<1>1. IsFiniteSet(rest) /\ Cardinality(rest) \in Nat
  BY FS_Subset, FS_CardinalityType, PieceSizes
<1>2. CASE i = LastPiece
  <2>1. (S \cup {i}) \ {LastPiece} = rest /\ LastPiece \in S \cup {i} /\ LastPiece \notin S
    BY <1>2
  <2>2. Cardinality(rest) * PieceSize \in Nat
    BY <1>1, SizeAssumption
  <2>3. QED
    BY <1>2, <2>1, <2>2, PieceSizes DEF SizeOf, PieceLen
<1>3. CASE i # LastPiece
  <2>1. (S \cup {i}) \ {LastPiece} = rest \cup {i} /\ i \notin rest
        /\ (LastPiece \in S \cup {i} <=> LastPiece \in S)
    BY <1>3
  <2>2. Cardinality(rest \cup {i}) = Cardinality(rest) + 1
    BY <1>1, <2>1, FS_AddElement
  <2> DEFINE k == Cardinality(rest)
             last == IF LastPiece \in S THEN LastSize ELSE 0
  <2>3. SizeOf(S) = k * PieceSize + last
        /\ SizeOf(S \cup {i}) = (k + 1) * PieceSize + last
    BY <2>1, <2>2 DEF SizeOf
  <2>4. k \in Nat /\ last \in Nat /\ PieceLen(i) = PieceSize /\ PieceSize \in Nat
    BY <1>1, <1>3, PieceSizes, SizeAssumption DEF PieceLen
  <2> HIDE DEF k, last
  <2>5. (k + 1) * PieceSize = k * PieceSize + PieceSize /\ k * PieceSize \in Nat
    BY <2>4
  <2>6. QED
    BY <2>3, <2>4, <2>5
<1>4. QED
  BY <1>2, <1>3

\* Only all of the pieces have the size of the file.
LEMMA SizeFull ==
  ASSUME NEW S \in SUBSET Pieces, SizeOf(S) = FileSize
  PROVE  S = Pieces
<1> DEFINE rest == S \ {LastPiece}
           all  == Pieces \ {LastPiece}
           k    == Cardinality(rest)
           n    == Cardinality(all)
<1>1. /\ IsFiniteSet(all) /\ rest \in SUBSET all
      /\ k \in Nat /\ n \in Nat /\ k <= n
  BY FS_Subset, FS_CardinalityType, PieceSizes
<1>2. n = NumPieces - 1
  <2>1. Cardinality(Pieces) = NumPieces
    BY FS_Interval, SizeAssumption DEF Pieces
  <2>2. n = Cardinality(Pieces) - 1
    BY PieceSizes, FS_RemoveElement
  <2>3. QED
    BY <2>1, <2>2
<1>3. SizeOf(S) = k * PieceSize + (IF LastPiece \in S THEN LastSize ELSE 0)
  BY DEF SizeOf
<1>4. rest = all => S \cup {LastPiece} = Pieces
  BY PieceSizes
<1>5. k = n => rest = all
  BY <1>1, FS_Subset
<1> HIDE DEF k, n
<1>6. k * PieceSize \in Nat /\ n * PieceSize \in Nat
      /\ LastSize = FileSize - n * PieceSize /\ LastSize \in Nat \ {0}
  BY <1>1, <1>2, PieceSizes, SizeAssumption DEF LastSize, LastPiece
<1>7. k < n => k * PieceSize + PieceSize <= n * PieceSize
  <2>1. ASSUME k < n PROVE (k + 1) * PieceSize <= n * PieceSize
    <3>1. (n - (k + 1)) \in Nat /\ PieceSize \in Nat
      BY <1>1, <2>1, SizeAssumption
    <3>2. (n - (k + 1)) * PieceSize \in Nat
      BY <3>1
    <3>3. (n - (k + 1)) * PieceSize = n * PieceSize - (k + 1) * PieceSize
      BY <1>1, <3>1
    <3>4. QED
      BY <1>1, <3>1, <3>2, <3>3
  <2>2. (k + 1) * PieceSize = k * PieceSize + PieceSize
    BY <1>1, SizeAssumption
  <2>3. QED
    BY <2>1, <2>2
<1>8. LastSize <= PieceSize
  BY <1>2, <1>6, SizeAssumption
<1>9. LastPiece \in S /\ k = n
  <2>1. k = n \/ k < n
    BY <1>1
  <2>2. CASE LastPiece \notin S
    BY <1>3, <1>6, <1>7, <1>8, <2>1, <2>2, SizeAssumption
  <2>3. CASE LastPiece \in S
    BY <1>3, <1>6, <1>7, <2>1, <2>3, SizeAssumption
  <2>4. QED
    BY <2>2, <2>3
<1>10. QED
  BY <1>4, <1>5, <1>9

\* What agrees until a piece is given back dirty.  The file is reopened for
\* reading only when nothing is missing, so no later piece can find it so.
Tally ==
  returned # "dirty" =>
    /\ downloaded = SizeOf(pieces)
    /\ announced => Complete
    /\ fileMode = "ro" => Complete
    /\ pieces \subseteq onDisk

LEMMA TallyStep ==
  ASSUME TypeOK, NoPieceTwice, Tally, [Next]_vars
  PROVE  Tally'
<1> SUFFICES ASSUME returned' # "dirty"
             PROVE  /\ downloaded' = SizeOf(pieces')
                    /\ announced' => pieces' = Pieces
                    /\ fileMode' = "ro" => pieces' = Pieces
                    /\ pieces' \subseteq onDisk'
  BY DEF Tally, Complete, SizeOf
<1>a. /\ returned # "dirty" /\ pieces \in SUBSET Pieces
      /\ downloaded = SizeOf(pieces) /\ pieces \subseteq onDisk
      /\ announced => pieces = Pieces
      /\ fileMode = "ro" => pieces = Pieces
  BY DirtyStays DEF Tally, Complete, TypeOK, FileTypeOK
<1>1. CASE UNCHANGED fileVars
  BY <1>1, <1>a DEF fileVars
<1>2. CASE OnTrackerStatusChanged
  <2>1. UNCHANGED <<pieces, downloaded, announced, onDisk>>
    BY <1>2 DEF OnTrackerStatusChanged
  <2>2. fileMode' = "ro" => downloaded = FileSize
    BY <1>2 DEF OnTrackerStatusChanged
  <2>3. QED
    BY <1>a, <2>1, <2>2, SizeFull
<1>3. ASSUME NEW c \in Conn, PieceFinished(c)
      PROVE  /\ downloaded' = SizeOf(pieces')
             /\ announced' => pieces' = Pieces
             /\ fileMode' = "ro" => pieces' = Pieces
             /\ pieces' \subseteq onDisk'
  <2> DEFINE i == download_index[c]
  <2>1. isDownloading[c] /\ Store(i)
    BY <1>3 DEF PieceFinished, Awaiting
  <2>2. i \in Pieces \ pieces
    BY <1>a, <2>1 DEF NoPieceTwice, TypeOK, TaskTypeOK
  <2>3. fileMode # "ro" /\ ~announced
    BY <1>a, <2>2
  <2>4. /\ pieces' = pieces \cup {i} /\ onDisk' = onDisk \cup {i}
        /\ downloaded' = downloaded + PieceLen(i)
        /\ announced' => downloaded' = FileSize
        /\ fileMode' = "ro" => downloaded' = FileSize
    BY <2>1, <2>3 DEF Store
  <2>5. downloaded' = SizeOf(pieces')
    BY <1>a, <2>2, <2>4, SizeGrows
  <2>6. downloaded' = FileSize => pieces' = Pieces
    BY <1>a, <2>2, <2>4, <2>5, SizeFull
  <2>7. QED
    BY <1>a, <2>4, <2>5, <2>6
<1>4. UNCHANGED fileVars \/ OnTrackerStatusChanged \/ \E c \in Conn : PieceFinished(c)
  BY DEF Next, Block, vars, OnNewConnection, Connected, Disconnected, Destroy,
     HandshakeAccepted, HandshakeDuplicate, HandshakeWrong, UpdatePeerList,
     BlockReceived, PieceRejected, Bitfield, Have, Advertised
<1>5. QED
  BY <1>1, <1>2, <1>3, <1>4

\* It holds as long as no piece is owned twice, which needs the same condition.
LEMMA TallyHolds == Spec => []Tally
<1>1. Init => Tally
  BY DEF Init, Tally
<1>2. TypeOK /\ NoPieceTwice /\ Tally /\ [Next]_vars => Tally'
  BY TallyStep
<1>3. QED
  BY <1>1, <1>2, TypeCorrect, NothingTwice, PTL DEF Spec

\* Until a piece is given back dirty, the bytes counted as downloaded are the
\* size of what is owned, and completion is announced only when complete.
THEOREM OwnedIsCounted == Spec => []TotalIsOwned
<1>1. Tally => TotalIsOwned
  BY DEF Tally, TotalIsOwned
<1>2. QED
  BY <1>1, TallyHolds, PTL

\* Under the same condition every owned piece was written, whatever the
\* tracker's status did to the file.
THEOREM OwnedIsWritten == Spec => []OwnedIsOnDisk
<1>1. Tally => OwnedIsOnDisk
  BY DEF Tally, OwnedIsOnDisk
<1>2. QED
  BY <1>1, TallyHolds, PTL
=============================================================================
