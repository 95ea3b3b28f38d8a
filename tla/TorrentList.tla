----------------------------- MODULE TorrentList -----------------------------
(***************************************************************************)
(* The torrents of a client as its user sees and handles them: the list of *)
(* Client/TorrentManager, the table of Client/Window, which keeps a row    *)
(* number per torrent and a status per row, and the job that hashes a file *)
(* to be shared (Client/Client, Client/TorrentFile) on a thread of its own.*)
(* Rows are numbered from 0 as in the code; a torrent's hash is a number,  *)
(* so that the order of std::map is the order of numbers.                  *)
(***************************************************************************)
EXTENDS Integers, FiniteSets, SequencesExt

CONSTANTS
    Hash,      \* info hashes, natural numbers other than 0
    Object,    \* identities of Torrent objects
    NoObject,  \* a null Torrent*
    MaxJobs,   \* bound: files being hashed and signals under way, when another is shared
    MaxOdd     \* bound: torrents that are added again, or report after their removal

ASSUME ListAssumption ==
    /\ Hash \subseteq Nat \ {0}
    /\ NoObject \notin Object
    /\ MaxJobs \in Nat
    /\ MaxOdd \in Nat

VARIABLES
    running,    \* the program is running
    blocked,    \* its event loop waits for what only the event loop could bring
    config,     \* torrents with a configuration file
    hashOf,     \* hashOf[o]: the torrent of object o, 0 when there is no object
    doomed,     \* objects that wait for the deletion posted by deleteLater()
    fileList,   \* TorrentManager::fileList, a map from hashes to objects or null
    window,     \* the fields of Window and the state of its table
    wired,      \* TorrentFile objects wired to Client::onFileShare, in order
    calls,      \* calls of createFile() queued in the thread
    created,    \* torrentCreated() signals on their way to the main thread
    dialog,     \* the progress dialog of the last share is open
    holed,      \* history: a row other than the last one was deleted
    readded,    \* history: torrents added while they were running
    ghosts,     \* history: torrents that reported after they were removed
    overlapped  \* history: a file was shared while another one was being hashed

torrents == <<running, blocked, config, hashOf, doomed, fileList>>
sharing == <<wired, calls, created, dialog, overlapped>>
history == <<holed, readded, ghosts>>
vars == <<torrents, sharing, window, history>>

-----------------------------------------------------------------------------
Rows(w) == 0 .. Len(w.rowStatus) - 1
StatusAt(w, row) == w.rowStatus[row + 1]
Live == {o \in Object : hashOf[o] # 0}
Kept == Live \ doomed
Serving == running /\ ~blocked

\* Bound: the user acts again in a later round of the event loop than the one of a
\* deletion, when the object is gone.
UserActs == Serving /\ doomed = {}

\* Bound: few torrents are odd, which ListIsWhatRuns is not about.
OddWithin(h) == Cardinality(readded \cup ghosts \cup {h}) <= MaxOdd

\* The identity a new object takes; which one does not matter.
Fresh == CHOOSE o \in Object : hashOf[o] = 0

\* Bound: an object is kept free for every file that is being hashed.
Room == Cardinality(Object \ Live) > Len(wired)

EmptyWindow == [idToRow |-> <<>>, rowStatus |-> <<>>, shown |-> {},
                current |-> -1, deletable |-> FALSE]

\* Without an entry in a map, operator[] makes one that is null.
At(map, key) == IF key \in DOMAIN map THEN map[key] ELSE NoObject

Erased(map, key) == [k \in DOMAIN map \ {key} |-> map[k]]
Put(map, key, value) == [k \in DOMAIN map \cup {key} |-> IF k = key THEN value ELSE map[k]]

\* A mutation: every report makes a row.
TorrentStatusUpdatedAppend(w, h, o) ==
    [w EXCEPT !.idToRow = Put(@, h, Len(w.rowStatus)), !.rowStatus = Append(@, o)]

\* A Torrent reports its status: a new torrent gets a row, an old one has its
\* row filled in again.  A row number past the end writes to memory the vector
\* has given back, which nothing reads.
TorrentStatusUpdated(w, h, o) ==
    IF h \notin DOMAIN w.idToRow
    THEN [w EXCEPT !.idToRow = Put(@, h, Len(w.rowStatus)), !.rowStatus = Append(@, o)]
    ELSE IF w.idToRow[h] \in Rows(w)
         THEN [w EXCEPT !.rowStatus[w.idToRow[h] + 1] = o]
         ELSE w

\* A mutation: the torrent shown before stays connected to the bar.
UpdateBottomBarKept(w, current, previous) ==
    IF current \notin Rows(w) THEN w
    ELSE [w EXCEPT !.shown = @ \cup {StatusAt(w, current)}, !.deletable = TRUE]

\* The table has a new current row: the numbers below it are of that torrent.
UpdateBottomBar(w, current, previous) ==
    IF current \notin Rows(w)
    THEN w
    ELSE LET hidden == IF previous \in Rows(w) THEN {StatusAt(w, previous)} ELSE {}
         IN  [w EXCEPT !.shown = (@ \ hidden) \cup {StatusAt(w, current)},
                       !.deletable = TRUE]

\* What QTableWidget::removeRow does to the current row: the next one, or else
\* the previous one, becomes current before the row is gone.
RowRemoved(w, row) ==
    LET left == Len(w.rowStatus)       \* rowStatus has lost the row already
        next == IF row < left THEN row + 1 ELSE row - 1
    IN  [UpdateBottomBar(w, next, row) EXCEPT
           !.current = IF row < left THEN row ELSE row - 1]

\* A mutation: also the torrents of the rows below.
IdsFrom(w, row) == {h \in DOMAIN w.idToRow : w.idToRow[h] >= row}

\* The torrents that have a row's number; deleteFile takes the first of the map.
IdsAt(w, row) == {h \in DOMAIN w.idToRow : w.idToRow[h] = row}

\* The loop that should move up the rows below the deleted one changes copies.
MovedUp(idToRow, row) == idToRow

Init ==
    /\ running = FALSE /\ blocked = FALSE
    /\ config = {}
    /\ hashOf = [o \in Object |-> 0]
    /\ doomed = {}
    /\ fileList = <<>>
    /\ window = EmptyWindow
    /\ wired = <<>> /\ calls = <<>> /\ created = <<>>
    /\ dialog = FALSE
    /\ holed = FALSE /\ readded = {} /\ ghosts = {} /\ overlapped = FALSE

-----------------------------------------------------------------------------
\* A Torrent is made for a torrent file: its configuration is written, it takes
\* the place of a Torrent of the same hash in the list, and reports its status.
NewTorrent(h) ==
    /\ Live # Object
    /\ hashOf' = [hashOf EXCEPT ![Fresh] = h]
    /\ config' = config \cup {h}
    /\ fileList' = Put(fileList, h, Fresh)
    /\ window' = TorrentStatusUpdated(window, h, Fresh)
    /\ readded' = IF \E x \in Kept : hashOf[x] = h THEN readded \cup {h} ELSE readded

\* The user downloads a torrent.
DownloadFile(h) ==
    /\ UserActs /\ ~dialog
    /\ Room
    /\ (\E x \in Kept : hashOf[x] = h) => OddWithin(h)
    /\ NewTorrent(h)
    /\ UNCHANGED <<running, blocked, doomed, sharing, holed, ghosts>>

\* The tracker, or the end of the download, changes a torrent's status.  An object
\* that waits for its deletion reports as well: a socket or a timer that was ready
\* in the same round of the event loop is handled first.
StatusChanged(o) ==
    /\ Serving
    /\ o \in Live
    /\ o \in doomed => OddWithin(hashOf[o])
    /\ window' = TorrentStatusUpdated(window, hashOf[o], o)
    /\ ghosts' = IF o \in doomed THEN ghosts \cup {hashOf[o]} ELSE ghosts
    /\ UNCHANGED <<torrents, sharing, holed, readded>>

\* A download that completes, or is deleted, while an answer of the tracker is
\* awaited waits for it on the thread that would read it (completeRequest,
\* stopRequest).  Nothing but the hashing thread goes on: it is of interest only
\* while a file is hashed.
Block ==
    /\ Serving
    /\ Live # {}
    /\ wired # <<>> /\ ~overlapped
    /\ blocked' = TRUE
    /\ UNCHANGED <<running, config, hashOf, doomed, fileList, sharing, window, history>>

\* The user selects a row; selecting the current one again does nothing.
SelectRow(row) ==
    /\ UserActs /\ ~dialog
    /\ row \in Rows(window) \ {window.current}
    /\ window' = [UpdateBottomBar(window, row, window.current) EXCEPT !.current = row]
    /\ UNCHANGED <<torrents, sharing, history>>

\* A mutation: the entry stays in the list.
RemoveFile(h) ==
    LET o == At(fileList, h)
    IN  /\ fileList' = IF o = NoObject THEN Put(fileList, h, o) ELSE fileList
        /\ config' = IF o = NoObject THEN config ELSE config \ {h}
        /\ doomed' = IF o = NoObject THEN doomed ELSE doomed \cup {o}

\* The torrent of a hash leaves the list, its file is deleted, and the deletion of
\* its object is posted.  Asking for a torrent that is not there leaves a null entry.
RemoveTorrent(h) ==
    LET o == At(fileList, h)
    IN  IF o = NoObject
        THEN /\ fileList' = Put(fileList, h, NoObject)
             /\ UNCHANGED <<config, doomed>>
        ELSE /\ fileList' = Erased(fileList, h)
             /\ config' = config \ {h}
             /\ doomed' = doomed \cup {o}

\* The user deletes the current row.  No torrent may have its number.
DeleteFile ==
    LET row == window.current
        ids == IdsAt(window, row)
    IN  /\ UserActs /\ ~dialog
        /\ window.deletable
        /\ IF ids = {}
           THEN /\ window' = [window EXCEPT !.deletable = FALSE]
                /\ UNCHANGED <<config, doomed, fileList, holed>>
           ELSE LET h == CHOOSE x \in ids : \A y \in ids : x <= y
                    erased == [window EXCEPT
                                 !.idToRow = MovedUp(Erased(@, h), row),
                                 !.rowStatus = RemoveAt(@, row + 1)]
                IN  /\ RemoveTorrent(h)
                    /\ window' = [RowRemoved(erased, row) EXCEPT !.deletable = FALSE]
                    /\ holed' = (holed \/ row # Len(window.rowStatus) - 1)
        /\ UNCHANGED <<running, blocked, hashOf, sharing, readded, ghosts>>

\* The posted deletion: the object is gone, and its status with it.
Destroy(o) ==
    /\ Serving
    /\ o \in doomed
    /\ hashOf' = [hashOf EXCEPT ![o] = 0]
    /\ doomed' = doomed \ {o}
    /\ window' = [window EXCEPT !.shown = @ \ {o}]
    /\ UNCHANGED <<running, blocked, config, fileList, sharing, history>>

-----------------------------------------------------------------------------
\* The signal that starts the hashing is wired to every TorrentFile there is, and
\* reaches all of them.
OnFileShare(h) ==
    /\ wired' = Append(wired, h)
    /\ calls' = calls \o Append(wired, h)
    /\ overlapped' = (overlapped \/ wired # <<>>)

\* The user shares a file; a dialog is shown until fileShared() closes it.
ShareFile(h) ==
    /\ UserActs /\ ~dialog
    /\ ~Contains(wired, h)
    /\ Room /\ Len(calls) + Len(created) + Len(wired) < MaxJobs
    /\ OnFileShare(h)
    /\ dialog' = TRUE
    /\ UNCHANGED <<torrents, window, created, history>>

\* The progress dialog has no button, but it can be closed.
CloseDialog ==
    /\ UserActs /\ dialog
    /\ dialog' = FALSE
    /\ UNCHANGED <<torrents, window, wired, calls, created, history, overlapped>>

\* The thread hashes a file and writes its torrent file.
CreateFile ==
    /\ running
    /\ calls # <<>>
    /\ calls' = Tail(calls)
    /\ created' = Append(created, Head(calls))
    /\ UNCHANGED <<torrents, window, wired, dialog, history, overlapped>>

\* A mutation: the TorrentFile is not deleted, and its call is lost.
OnFileCreatedStillWired(h) ==
    /\ Serving
    /\ created # <<>> /\ h = Head(created)
    /\ NewTorrent(h)
    /\ created' = Tail(created)
    /\ calls' = <<>>
    /\ dialog' = FALSE
    /\ UNCHANGED <<running, blocked, doomed, wired, holed, ghosts, overlapped>>

\* Its torrent is made and the TorrentFile deleted, and the thread terminated: a
\* file that is being hashed at that moment is dropped; what the signal closes is
\* the last dialog.  A second signal of a deleted TorrentFile is still delivered;
\* it makes the torrent again, unless it ends the program (Quit).
OnFileCreated(h) ==
    LET NotH(x) == x # h
    IN  /\ Serving
        /\ created # <<>> /\ h = Head(created)
        /\ NewTorrent(h)
        /\ created' = Tail(created)
        /\ wired' = SelectSeq(wired, NotH)
        /\ LET rest == SelectSeq(calls, NotH)
           IN  calls' \in {rest, IF rest = <<>> THEN rest ELSE Tail(rest)}
        /\ dialog' = FALSE
        /\ UNCHANGED <<running, blocked, doomed, holed, ghosts, overlapped>>

-----------------------------------------------------------------------------
\* The program ends; clear() forgets the torrents.
Quit ==
    /\ running
    /\ running' = FALSE /\ blocked' = FALSE
    /\ hashOf' = [o \in Object |-> 0]
    /\ doomed' = {}
    /\ fileList' = <<>>
    /\ window' = EmptyWindow
    /\ wired' = <<>> /\ calls' = <<>> /\ created' = <<>>
    /\ dialog' = FALSE /\ overlapped' = FALSE
    /\ holed' = FALSE /\ readded' = {} /\ ghosts' = {}
    /\ UNCHANGED config

\* The table after reports of torrents it does not have, in this order: each one
\* is given the next row.
Filled(order, slot) ==
    [EmptyWindow EXCEPT
       !.idToRow = [h \in Range(order) |-> (CHOOSE k \in DOMAIN order : order[k] = h) - 1],
       !.rowStatus = [k \in DOMAIN order |-> slot[order[k]]]]

\* It starts, and every configuration that can be read gives a Torrent, in the
\* order of their names; of the others some are dropped.
UpdateDownloadList(order, kept) ==
    LET loaded == Range(order)
        slot == CHOOSE f \in Injection(loaded, Object) : TRUE
    IN  /\ ~running
        /\ \A j, k \in DOMAIN order : j < k => order[j] < order[k]
        /\ Injection(loaded, Object) # {}
        /\ running' = TRUE
        /\ config' = kept
        /\ hashOf' = [o \in Object |->
              IF \E h \in loaded : slot[h] = o THEN CHOOSE h \in loaded : slot[h] = o ELSE 0]
        /\ fileList' = slot
        /\ window' = Filled(order, slot)
        /\ UNCHANGED <<blocked, doomed, sharing, history>>

Next ==
    \/ \E h \in Hash : DownloadFile(h) \/ ShareFile(h)
    \/ \E o \in Object : StatusChanged(o) \/ Destroy(o)
    \/ Block
    \/ \E h \in Hash : OnFileCreated(h)
    \/ \E row \in Rows(window) : SelectRow(row)
    \/ DeleteFile
    \/ CloseDialog
    \/ CreateFile
    \/ Quit
    \/ \E kept \in SUBSET config :
          \E n \in 0 .. Cardinality(kept) :
             \E order \in [1 .. n -> kept] : UpdateDownloadList(order, kept)

Spec == Init /\ [][Next]_vars

\* The thread runs, and the event loop takes its signals unless it is blocked.
FairSpec ==
    /\ Spec
    /\ WF_vars(CreateFile)
    /\ WF_vars(\E h \in Hash : OnFileCreated(h))

-----------------------------------------------------------------------------
\* The table and the map agree: every torrent has a row of its own, and the row
\* points at the status of an object of that torrent that stays.  It holds until a
\* row other than the last is deleted; the rows below it then keep their old numbers,
\* and a status report overwrites the row of another torrent or a freed one.  A
\* torrent that reports between its removal and its deletion gets a row again, which
\* then points at nothing (Window::deleteFile, Window::torrentStatusUpdated).
RowsMatch ==
    ~holed =>
        /\ window.current \in Rows(window) \cup {-1}
        /\ Cardinality(DOMAIN window.idToRow) = Len(window.rowStatus)
        /\ \A h \in DOMAIN window.idToRow :
              /\ window.idToRow[h] \in Rows(window)
              /\ LET o == StatusAt(window, window.idToRow[h])
                 IN  h \notin ghosts => hashOf[o] = h /\ o \notin doomed

\* The bar below the table shows one torrent, apart from one that waits for its
\* deletion, and when the delete button is enabled it is the one in the current row
\* (Window::updateBottomBar).
OneShown ==
    ~holed /\ readded = {} /\ ghosts = {} =>
        /\ Cardinality(window.shown \ doomed) <= 1
        /\ window.deletable => window.shown \ doomed = {StatusAt(window, window.current)}

\* What runs, what the list holds, what the table shows and what will be opened
\* at the next start are the same torrents, whatever rows were deleted, unless a
\* torrent was added again while it ran, so that its first object runs on unlisted,
\* or reported after its removal, so that it is in the table but not in the list.  In
\* particular no other entry is null, which clear() would dereference.
ListIsWhatRuns ==
    \A h \in Hash \ (readded \cup ghosts) :
        LET runs == {o \in Kept : hashOf[o] = h}
        IN  IF runs = {}
            THEN h \notin DOMAIN fileList /\ h \notin DOMAIN window.idToRow
            ELSE /\ h \in DOMAIN fileList /\ runs = {fileList[h]}
                 /\ h \in DOMAIN window.idToRow
                 /\ h \in config

\* A torrent leaves the program, and its object is deleted, only when it is the one
\* in the current row and its button is pressed (Window::deleteFile,
\* TorrentManager::remove).
RightOneDeleted ==
    [][running /\ running' /\ ~holed =>
         \A o \in Kept : o \notin Kept' /\ hashOf[o] \notin readded \cup ghosts =>
            window.deletable /\ StatusAt(window, window.current) = o]_vars

\* A file that is shared becomes a torrent, unless the program ends, its event loop
\* blocks, or another file is shared before its hashing is done: the first one to
\* finish terminates the thread (Client::shareFile, Client::onFileCreated).
ShareCompletes ==
    \A h \in Hash :
        Contains(wired, h) ~> (~Contains(wired, h) \/ overlapped \/ blocked)
=============================================================================
