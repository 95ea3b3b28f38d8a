---------------------------- MODULE TorrentStore ----------------------------
(***************************************************************************)
(* What a client keeps of its torrents on disk: the bitmap of owned pieces *)
(* in a configuration file per torrent (Client/Torrent), and the pieces in *)
(* the data file (Client/File, Client/FileFrag).  The configuration is     *)
(* flushed after every piece; the data stay in the write buffer of QFile   *)
(* until the next seek or close, and the File of a torrent is never        *)
(* destroyed.  Whether the file may be written to follows the running      *)
(* total of the downloader, each time the tracker is asked or answers.     *)
(* The program may stop between any two steps, and trusts the bitmap when  *)
(* it starts again.                                                        *)
(***************************************************************************)
EXTENDS Integers, FiniteSets, Functions

CONSTANTS
    Hash,       \* info hashes of torrents; also the name of the config file
    Place,      \* directories a user may download into
    PieceCount, \* pieces of a torrent
    PieceSize,  \* bytes in a piece
    FileSize,   \* bytes in the file: the last piece may be shorter
    PageBits,   \* bits in a page of the bitmap, 8 in the program
    Small,      \* pieces that fit in the write buffer of QFile (16 KB)
    Object,     \* identities of Torrent objects
    NoObject,
    MaxTotal,   \* bound: no piece is stored beyond this total
    MaxStops    \* bound: times the program stops

Piece == 0 .. PieceCount - 1

ASSUME StoreAssumption ==
    /\ PieceCount \in Nat \ {0} /\ PieceSize \in Nat \ {0} /\ FileSize \in Nat
    /\ (PieceCount - 1) * PieceSize < FileSize
    /\ FileSize <= (PieceCount - 1) * PieceSize + PieceSize
    /\ MaxTotal \in Nat
    /\ PageBits \in Nat \ {0}
    /\ Small \subseteq Piece
    /\ Hash # {} /\ Place # {}
    /\ NoObject \notin Object
    /\ MaxStops \in Nat

VARIABLES
    running,    \* the program is running
    config,     \* config[h]: the configuration file of torrent h
    disk,       \* disk[h][p]: pieces in the data file of h in directory p
    torrent,    \* torrent[o]: a Torrent object with its downloader and its File
    fileList,   \* TorrentManager::fileList
    storing,    \* the piece whose handler runs, with its object
    telling,    \* that handler has yet to tell the tracker of the completion
    blocked,    \* the event loop waits for an answer that only it could read
    stops,      \* history: how often the program stopped
    readded,    \* history: torrents added while they had a configuration
    doubled     \* history: torrents of which a piece was stored again

vars == <<running, config, disk, torrent, fileList, storing, telling, blocked, stops,
          readded, doubled>>

-----------------------------------------------------------------------------
NoConfig == [kind |-> "absent", pieces |-> {}, place |-> CHOOSE p \in Place : TRUE]
Blank    == [NoConfig EXCEPT !.kind = "blank"]
Written(pieces, place) == [kind |-> "written", pieces |-> pieces, place |-> place]

LastPiece == PieceCount - 1
LastSize  == FileSize - LastPiece * PieceSize

\* getPieceSize
PieceLen(i) == IF i = LastPiece THEN LastSize ELSE PieceSize

\* calculateDownloadedSize, for any set of pieces.
SizeOf(S) == Cardinality(S \ {LastPiece}) * PieceSize
             + (IF LastPiece \in S THEN LastSize ELSE 0)

\* A mutation: the file is open the way mIsReadonly says.
OpenedAsFlagged(h, place, pieces) ==
    [live |-> TRUE, hash |-> h, place |-> place, pieces |-> pieces,
     wanted |-> Piece \ pieces, total |-> SizeOf(pieces), buffer |-> {},
     mIsReadonly |-> TRUE, writable |-> FALSE, linked |-> TRUE,
     link |-> "down", going |-> FALSE]

\* A Torrent whose File has just been opened: mIsReadonly starts as true
\* although the file is open for writing.  `wanted' is what may ever be
\* downloaded, `total' is downloadedSinceStart, `link' the state of the
\* TrackerConnection, `linked' whether the configuration of the object is the
\* one on disk, `going' whether the object awaits its deletion.
Opened(h, place, pieces) ==
    [live |-> TRUE, hash |-> h, place |-> place, pieces |-> pieces,
     wanted |-> Piece \ pieces, total |-> SizeOf(pieces), buffer |-> {},
     mIsReadonly |-> TRUE, writable |-> TRUE, linked |-> TRUE,
     link |-> "down", going |-> FALSE]

NoTorrent == [Opened(CHOOSE h \in Hash : TRUE, CHOOSE p \in Place : TRUE, {})
                EXCEPT !.live = FALSE]

\* What seek() and close() do with what QFile has buffered.
Flush(o) ==
    [disk EXCEPT ![torrent[o].hash][torrent[o].place] = @ \cup torrent[o].buffer]

\* The pieces whose bits are in the same page as the bit of i, and those of them
\* that object o has.
PageOf(i) == {j \in Piece : j \div PageBits = i \div PageBits}

\* A mutation: only the bit of the piece is written, and the rest of its page is lost.
PageAlone(o, i) == {i}

\* The bits of that page that are set in memory.
Page(o, i) == torrent[o].pieces \cap PageOf(i)

Idle == running /\ ~blocked /\ storing = {}

Init ==
    /\ running = FALSE
    /\ config = [h \in Hash |-> NoConfig]
    /\ disk \in [Hash -> [Place -> {{}, Piece}]]
    /\ torrent = [o \in Object |-> NoTorrent]
    /\ fileList = [h \in Hash |-> NoObject]
    /\ storing = {}
    /\ telling = FALSE
    /\ blocked = FALSE
    /\ stops = 0
    /\ readded = {}
    /\ doubled = {}

\* The user adds a torrent: any bitmap there was is overwritten, and a Torrent
\* of the same hash is replaced in the list but not deleted.
Append(h, o, place, pieces) ==
    /\ Idle
    /\ ~torrent[o].live
    /\ config' = [config EXCEPT ![h] = Written(pieces, place)]
    /\ torrent' = [torrent EXCEPT ![o] = Opened(h, place, pieces)]
    /\ fileList' = [fileList EXCEPT ![h] = o]
    /\ readded' = IF config[h].kind = "written" THEN readded \cup {h} ELSE readded
    /\ UNCHANGED <<running, disk, storing, telling, blocked, stops, doubled>>

DownloadFile(h, o, place) == Append(h, o, place, {})

\* A shared file has just been hashed, so all of it is in the file.
OnFileCreated(h, o, place) ==
    /\ disk[h][place] = Piece
    /\ Append(h, o, place, Piece)

\* A piece with the right hash: it is written, its bit set in memory and its
\* size added to the total.  It may be owned already, when it had been given
\* back while another connection downloaded it.  A write to a file open for
\* reading only fails, which nobody looks at.
SetFrag(o, i) ==
    LET t     == torrent[o]
        taken == IF t.writable THEN {i} ELSE {}
        total == t.total + PieceLen(i)
    IN  /\ Idle
        /\ t.live
        /\ i \in t.wanted
        /\ total <= MaxTotal
        /\ disk' = [Flush(o) EXCEPT ![t.hash][t.place] = @ \cup (taken \ Small)]
        /\ torrent' = [torrent EXCEPT ![o].buffer = taken \cap Small,
                                      ![o].pieces = @ \cup {i},
                                      ![o].total = total]
        /\ doubled' = IF i \in t.pieces THEN doubled \cup {t.hash} ELSE doubled
        /\ storing' = {<<o, i>>}
        /\ telling' = (total = FileSize)
        /\ UNCHANGED <<running, config, fileList, blocked, stops, readded>>

\* A mutation: a complete torrent is not reopened.
OnTrackerStatusChangedLate(o, link) ==
    IF torrent[o].mIsReadonly /\ torrent[o].total # FileSize
    THEN /\ disk' = Flush(o)
         /\ torrent' = [torrent EXCEPT ![o].buffer = {}, ![o].mIsReadonly = FALSE,
                                       ![o].writable = TRUE, ![o].link = link]
    ELSE disk' = disk /\ torrent' = [torrent EXCEPT ![o].link = link]

\* The connection to the tracker works: the file is reopened, and so flushed,
\* in the mode that suits the total.
OnTrackerStatusChanged(o, link) ==
    LET complete == torrent[o].total = FileSize
    IN  IF torrent[o].mIsReadonly # complete
        THEN /\ disk' = Flush(o)
             /\ torrent' = [torrent EXCEPT ![o].buffer = {},
                                           ![o].mIsReadonly = complete,
                                           ![o].writable = ~complete,
                                           ![o].link = link]
        ELSE disk' = disk /\ torrent' = [torrent EXCEPT ![o].link = link]

\* A request is sent, on a new connection or an idle one, or its answer comes.
Report(o) ==
    /\ Idle
    /\ torrent[o].live
    /\ OnTrackerStatusChanged(o, IF torrent[o].link = "awaiting" THEN "active" ELSE "awaiting")
    /\ UNCHANGED <<running, config, fileList, storing, telling, blocked, stops, readded, doubled>>

\* The connection to the tracker is lost, which leaves the file as it is.
Lost(o) ==
    /\ Idle
    /\ torrent[o].live
    /\ torrent[o].link # "down"
    /\ torrent' = [torrent EXCEPT ![o].link = "down"]
    /\ UNCHANGED <<running, config, disk, fileList, storing, telling, blocked, stops, readded,
                   doubled>>

\* The handler of the piece that makes the total that of the file: the tracker
\* is told at once if it is idle; an answer that is awaited is waited for, by the
\* thread that would have to read it.
CompleteRequest(o, i) ==
    /\ running /\ ~blocked
    /\ <<o, i>> \in storing
    /\ telling
    /\ \/ /\ torrent[o].link = "active"
          /\ OnTrackerStatusChanged(o, "awaiting")
          /\ telling' = FALSE
          /\ UNCHANGED blocked
       \/ /\ torrent[o].link = "down"
          /\ telling' = FALSE
          /\ UNCHANGED <<disk, torrent, blocked>>
       \/ /\ torrent[o].link = "awaiting"
          /\ blocked' = TRUE
          /\ UNCHANGED <<disk, torrent, telling>>
    /\ UNCHANGED <<running, config, fileList, storing, stops, readded, doubled>>

\* The end of the same handler: the page of the piece is written to the config
\* file and flushed.  A file that was removed since it was opened is written too.
UpdatePage(o, i) ==
    /\ running
    /\ <<o, i>> \in storing
    /\ ~telling
    /\ config' = IF torrent[o].linked
                 THEN [config EXCEPT ![torrent[o].hash].pieces =
                          (@ \ PageOf(i)) \cup Page(o, i)]
                 ELSE config
    /\ storing' = {}
    /\ UNCHANGED <<running, disk, torrent, fileList, telling, blocked, stops, readded, doubled>>

\* A peer asks for a piece that is not cached: reading it moves the file.
Upload(o, i) ==
    /\ Idle
    /\ torrent[o].live
    /\ i \in torrent[o].pieces
    /\ torrent[o].buffer # {}
    /\ disk' = Flush(o)
    /\ torrent' = [torrent EXCEPT ![o].buffer = {}]
    /\ UNCHANGED <<running, config, fileList, storing, telling, blocked, stops, readded, doubled>>

\* The user deletes a torrent: its configuration file is closed and removed at
\* once, the object goes on until the event loop deletes it.
Remove(h) ==
    /\ Idle
    /\ fileList[h] # NoObject
    /\ config' = [config EXCEPT ![h] = NoConfig]
    /\ torrent' = [o \in Object |->
                     IF o = fileList[h]
                     THEN [torrent[o] EXCEPT !.linked = FALSE, !.going = TRUE]
                     ELSE IF torrent[o].live /\ torrent[o].hash = h
                          THEN [torrent[o] EXCEPT !.linked = FALSE]
                          ELSE torrent[o]]
    /\ fileList' = [fileList EXCEPT ![h] = NoObject]
    /\ UNCHANGED <<running, disk, storing, telling, blocked, stops, readded, doubled>>

\* Its destructor.  The File is not closed: what it has buffered is never
\* written.  An answer of the tracker that is awaited is waited for, without end.
Destroy(o) ==
    /\ Idle
    /\ torrent[o].going
    /\ IF torrent[o].link = "awaiting"
       THEN blocked' = TRUE /\ UNCHANGED torrent
       ELSE torrent' = [torrent EXCEPT ![o] = NoTorrent] /\ UNCHANGED blocked
    /\ UNCHANGED <<running, config, disk, fileList, storing, telling, stops, readded, doubled>>

\* The program ends, by the user's will or not; no File is ever closed.
AllGone ==
    /\ running
    /\ stops < MaxStops
    /\ stops' = stops + 1
    /\ running' = FALSE
    /\ torrent' = [o \in Object |-> NoTorrent]
    /\ fileList' = [h \in Hash |-> NoObject]
    /\ storing' = {}
    /\ telling' = FALSE
    /\ blocked' = FALSE
    /\ UNCHANGED <<disk, readded, doubled>>

Stop == AllGone /\ UNCHANGED config

\* It ends in the constructor of a Torrent, between open() and the flush.
StopInWrite(h) ==
    /\ storing = {}
    /\ config[h].kind = "absent"
    /\ AllGone
    /\ config' = [config EXCEPT ![h] = Blank]

\* What is read back of a configuration.
Reopened(h) == Opened(h, config[h].place, config[h].pieces)

\* Where the torrent file cannot be read the configuration is dropped or kept,
\* depending on the exception.
Without(dropped) == [h \in Hash |-> IF h \in dropped THEN NoConfig ELSE config[h]]

\* The program starts and opens every torrent it has a configuration of; a blank
\* configuration names no torrent file.
UpdateDownloadList(unreadable, dropped, slot) ==
    LET stored == {h \in Hash : config[h].kind = "written"} \ unreadable
    IN  /\ ~running
        /\ {h \in Hash : config[h].kind = "blank"} \subseteq unreadable
        /\ dropped \subseteq unreadable
        /\ slot \in Injection(stored, Object)
        /\ running' = TRUE
        /\ config' = Without(dropped)
        /\ torrent' = [o \in Object |->
              IF \E h \in stored : slot[h] = o
              THEN Reopened(CHOOSE h \in stored : slot[h] = o)
              ELSE NoTorrent]
        /\ fileList' = [h \in Hash |-> IF h \in stored THEN slot[h] ELSE NoObject]
        /\ UNCHANGED <<disk, storing, telling, blocked, stops, readded, doubled>>

Next ==
    \/ \E h \in Hash, o \in Object, p \in Place :
          DownloadFile(h, o, p) \/ OnFileCreated(h, o, p)
    \/ \E o \in Object, i \in Piece :
          SetFrag(o, i) \/ CompleteRequest(o, i) \/ UpdatePage(o, i) \/ Upload(o, i)
    \/ \E o \in Object : Report(o) \/ Lost(o) \/ Destroy(o)
    \/ \E h \in Hash : Remove(h) \/ StopInWrite(h)
    \/ Stop
    \/ \E unreadable \in SUBSET Hash :
          \E dropped \in SUBSET unreadable, slot \in UNION {[S -> Object] : S \in SUBSET Hash} :
             UpdateDownloadList(unreadable, dropped, slot)

Spec == Init /\ [][Next]_vars

-----------------------------------------------------------------------------
TorrentType == [live : BOOLEAN, hash : Hash, place : Place, pieces : SUBSET Piece,
                wanted : SUBSET Piece, total : Nat, buffer : SUBSET Piece,
                mIsReadonly : BOOLEAN, writable : BOOLEAN, linked : BOOLEAN,
                link : {"down", "awaiting", "active"}, going : BOOLEAN]

\* Type invariant.
TypeOK ==
    /\ running \in BOOLEAN
    /\ config \in [Hash -> [kind : {"absent", "blank", "written"},
                            pieces : SUBSET Piece, place : Place]]
    /\ disk \in [Hash -> [Place -> SUBSET Piece]]
    /\ torrent \in [Object -> TorrentType]
    /\ fileList \in [Hash -> Object \cup {NoObject}]
    /\ storing \subseteq Object \X Piece
    /\ telling \in BOOLEAN /\ blocked \in BOOLEAN
    /\ stops \in Nat
    /\ readded \subseteq Hash /\ doubled \subseteq Hash

\* The pieces of h that the bitmap on disk claims, and that are neither in the
\* data file it names nor on their way there.
InBuffers(h, p) ==
    UNION {torrent[o].buffer : o \in {x \in Object :
             /\ torrent[x].live /\ ~torrent[x].going
             /\ torrent[x].hash = h /\ torrent[x].place = p}}
Missing(h) ==
    config[h].pieces \ (disk[h][config[h].place] \cup InBuffers(h, config[h].place))

\* The bitmap is flushed before the data it speaks of, so a stop may leave it
\* claiming a piece the file does not have: at most one for each stop.  It holds
\* until a torrent is added a second time, when two objects with different
\* directories share a bitmap, and until an owned piece is downloaded again, when
\* the total no longer tells whether the torrent is complete and its file may be
\* open for reading only (Torrent::updatePage, TorrentManager::append,
\* TorrentDownloader::onTrackerStatusChanged).
ClaimedIsWritten ==
    \A h \in Hash \ (readded \cup doubled) : Cardinality(Missing(h)) <= stops

\* The bitmap on disk, written page by page, is the bitmap in memory, the piece
\* being stored apart: what is owned survives any stop, of a torrent that was not
\* added twice and is not being deleted (Torrent::updatePage).
BitmapSurvives ==
    \A o \in Object :
       torrent[o].live /\ ~torrent[o].going /\ torrent[o].hash \notin readded =>
          LET stored == config[torrent[o].hash]
          IN  /\ stored.kind = "written"
              /\ stored.place = torrent[o].place
              /\ stored.pieces \subseteq torrent[o].pieces
              /\ torrent[o].pieces \ stored.pieces \subseteq {i \in Piece : <<o, i>> \in storing}

\* No piece is written to a file that is open for reading only, which would
\* lose it without a sign, whatever the order in which pieces arrive and the
\* tracker answers.  Where an owned piece was downloaded again it may be lost:
\* the total reaches the size of the file with pieces missing (File::readonly,
\* FileFrag::setData, TorrentDownloader::onTrackerStatusChanged).
StoredIsWritten ==
    \A o \in Object, i \in Piece :
       <<o, i>> \in storing /\ torrent[o].hash \notin doubled =>
          i \in disk[torrent[o].hash][torrent[o].place] \cup torrent[o].buffer

\* Over stops, starts and lost torrent files a bitmap never loses a piece while
\* its configuration exists, unless the torrent is added again.
NothingForgotten ==
    [][\A h \in Hash \ readded' :
          config[h].kind = "written" /\ config'[h].kind = "written"
             => config[h].pieces \subseteq config'[h].pieces]_vars

\* A complete torrent whose connection to the tracker works has nothing left in
\* the write buffer once the handler of its last piece is over: reopening the
\* file is what flushes that piece.  Only a torrent that the tracker never found
\* incomplete, which is still open as at its start, is not reopened; nor may one
\* be of which a piece was downloaded again, as its total overshoots
\* (TrackerConnection::completeRequest, File::readonly).
FlushedAtCompletion(o) ==
    /\ torrent[o].live
    /\ torrent[o].hash \notin doubled
    /\ torrent[o].pieces = Piece
    /\ torrent[o].link # "down"
    /\ ~(torrent[o].mIsReadonly /\ torrent[o].writable)
    /\ \A i \in Piece : <<o, i>> \notin storing
CompleteIsFlushed ==
    \A o \in Object : FlushedAtCompletion(o) => torrent[o].buffer = {}
=============================================================================
