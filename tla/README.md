# Verification of the P2P file exchange

This directory holds TLA+ models of the program in `src/`, the TLC
configurations that check them on small instances, and proofs about them that
TLAPS checks. Paths below are relative to `src/`.

The program is a BitTorrent-like system of two executables. A **client**
(`Client/`, a Qt program) shares and downloads files; a **tracker** (`Tracker/`,
two pthreads over epoll) tells the clients of a torrent about each other. Both
link `Bencode/`, the encoding of torrent files and tracker messages.

## 1. Inventory

| Component | State it keeps | Operations | Talks to |
|---|---|---|---|
| **BitSet** (`Client/BitSet`) | pages of 8 bits, cached number of ones | set/reset one or all bits, take pages, `~`, `&`, n-th set bit | owned pieces, peers' pieces and pieces to download are bit sets |
| **TorrentDownloader** (`Client/TorrentDownloader`) | pieces to download, connected and available peers, connection count, running total | accept or dial a peer, judge a handshake, assign a piece, take a piece back, store a piece, follow the tracker's status | owns the peer connections and the tracker connection; writes through Torrent |
| **PeerConnection** (`Client/PeerConnection`) | socket, peer id, advertised pieces, assigned piece and its buffer, retransmissions | one handler per message (0 handshake, 1 bit field, 2 have, 3 request, 4 block), disconnection, connect timeout, deletion | slots of TorrentDownloader, called synchronously |
| **TrackerConnection** (`Client/TrackerConnection`) | connection state, one connect timer, one timer shared by retries and regular requests, what is wired to it | connect, retry, reconnect, started/regular/completed/stopped request, decode an answer | tracker over TCP; TorrentDownloader by signals |
| **Tracker** (`Tracker/Server`, `Connection`, `TorrentInstanceInfo`) | connections, the peers of every torrent, counts of complete and incomplete ones | accept (thread 1), read, handle and answer a request (thread 2) | clients over TCP |
| **Torrent, TorrentManager** (`Client/`) | bitmap of owned pieces in a config file, list of torrents in another | load, create, read, write, update page | the files below, the windows above |
| **File, FileFrag, BufferManager** (`Client/`) | fragments cached in memory, credit of buffered bytes | read and write a fragment, flush, evict | disk |
| **Bencode, UTF-8** (`Bencode/`) | a partial message, the unread bytes of a character | incremental decode, encode | tracker messages, torrent files |
| **Torrent file creation** (`Client/TorrentFile`, `InfoDictHash`) | none | hash the pieces of a file | disk |
| **Windows** (`Client/*Window*`, `FileSize`, `SocketManager`) | what is displayed | forms, list of downloads | Client |

**What is hard.** The client has one event loop, so handlers do not run in
parallel, but they *nest* (a slot emits a signal, whose slots run before the
first one goes on) and they *interleave* (events of several connections, three
kinds of timers and postponed `deleteLater()` deletions come in any order). The
tracker has two threads that share an address variable. Connections close at any
time on either side and the other side learns of it later. Several facts are
kept twice (bits and their count, connections and their count, owned bytes and
their bits, a peer and the counters) and have to stay in agreement over all of
this. Every place where that can bite is in `PROJECT.json` under `hazards`, at
its line, with the properties that watch it.

**What makes each part correct.**

- BitSet: count and bits agree; the complement is the complement; a random
  choice of a set bit can choose each of them and nothing else.
- Downloader: no piece is forgotten, or downloaded by two connections; counters
  do not wrap; no peer is locked out; owned means written; the download ends.
- Tracker connection: requests and answers stay in step, a lost connection is
  restored, the tracker learns of the completion.
- Tracker: the list is the connected clients, the counters count it, an answer
  lists the others with their own addresses.
- Torrent and File: what the bitmap on disk claims is in the data file, and no
  owned piece is forgotten, after any stop of the program.
- TorrentManager, Window: list, table, running torrents and configuration files
  are the same torrents; a torrent is deleted only by its own row.
- Bencode and its streams: however TCP cuts a message, the other side takes it
  whole, once and in order.

## 2. Plan

| # | Module | Content | State |
|---|---|---|---|
| 1 | `BitSet`, `BitSetObject`, `BitSetProofs` | operators, the object, exactness, the random draw | done |
| 2 | `TorrentDownloader`, `MCTorrentDownloader`, `TorrentDownloaderProofs` | pool of connections and assignment of pieces, the core; every safety property proved | done |
| 3 | `TrackerConnection`, `TrackerConnectionProofs` | the client's side of the tracker protocol | done |
| 4 | `Tracker`, `MCTracker`, `TrackerProofs` | the tracker's threads and lists | done |
| 5 | `TorrentStore`, `MCTorrentStore`, `TorrentStoreProofs` | bitmap and data file on disk, with a stop between any two steps | done |
| 6 | `TorrentList`, `TorrentListProofs` | list of torrents, table of the window, hashing thread | done |
| 7 | `Bencode`, `BencodeProofs`, `MessageChannel`, `MessageStream`, `MCMessageStream`, `MessageStreamProofs` | the codec, two byte streams cut anywhere, and the channel that each of them implements | done |
| 8 | two clients over FIFO channels | both dial each other at once (`TorrentDownloader.cpp:178`) | not done |
| 9 | `FileFrag`, `BufferManager` | credit and eviction of the cache in memory | not done |

Composition: `TorrentDownloader` and `BitSetObject` take `BitSet` by INSTANCE, so
the complement a download starts from is the one of the code, and
`MessageStream` composes both ends of a tracker connection with the codec; each of
its two directions implements the abstract `MessageChannel` (INSTANCE ... WITH).
`TrackerConnection` and `Tracker` are kept apart: each models the other side as an
environment that is allowed everything the other module does (section 4).

## 3. The modules

### BitSet and BitSetObject

A value of the C++ class is the set of positions of its ones, *padding
included*: the pages have more positions than the set has bits, and the
operators act on pages as the code does, so a wrong mask shows as a bit in the
padding or a missing bit. `PageBits` is 8 in the program. `getSetedBit` keeps the
code's odd result when there is no such bit. `BitSetObject` adds the cached
count. `SetData` takes pages without padding ones, which is what peers built
from this program send.

### TorrentDownloader

One torrent of one client. Connection objects are the elements of `Conn`, and a
`PeerConnection`'s fields are functions on them; `"free"` stands for "no object".
A handler and every slot it calls synchronously are one action.

| Action | Code |
|---|---|
| `OnNewConnection`, `UpdatePeerList`, `Connected` | listener accepts; the tracker lists peers, they are dialled; a dial succeeds |
| `Disconnected` | error, close or connect timeout, all `onDisconnection` |
| `HandshakeAccepted/Duplicate/Wrong` | message 0 and `peerHandshake` |
| `Bitfield`, `Have` | messages 1 and 2, with `downloadMenager` when idle |
| `BlockReceived`, `PieceRejected`, `PieceFinished` | message 4: not the last block; last block and wrong hash; last block and right hash, with `onPieceDownloaded` and `have()` of every connection |
| `Destroy` | the deletion posted by `deleteLater()`, `~PeerConnection` |
| `OnTrackerStatusChanged` | reopening the file when the status changes |

Decisions worth knowing:

- *Deletion.* Qt runs posted deletions at the end of a round of the event loop.
  Between `deleteLater()` and the deletion, other sockets that were ready in the
  same round are handled, so `doomed` objects are state. A connection that comes
  up has its first event in a later round: `RoundEnded`.
- *After a close* no further message of that socket is handled.
- *Write errors.* They surface in `flush()` and end in a disconnection; the model
  takes them as one. That `flush()` runs under a mutex its error path locks again
  is listed as a hazard without a property.
- *The index check of message 4* re-requests when a block is of another piece.
  A peer that answers requests in order never causes it; it is left out.
- *Idle connections.* `download_index` and `retransmisions` of an idle connection
  are cleared, since they are written before they are read again.
- *Unordered data.* Which peer is dialled first, and which interesting piece
  `rand()` chooses, is any.
- *Left out:* speed statistics, message 3 (the upload side changes only
  statistics), the displayed connection state. `tracker->updatePeerList()`, which
  `closeConnection` and the handshake call, is an event of `TrackerConnection`.
- *History variable `returned`*: "dirty" once a connection that is still marked as
  downloading has given its piece back. `onDisconnection` does that, and the
  destructor then gives it back a second time. Several properties are true only
  until this happens; they say so, and `LeftIsRemaining`, which does not, is
  violated by it.

### TrackerConnection

One connection of a client to its tracker. What slots nested in other slots touch
is one record, `link`, so that `reconnect` inside `abort()` inside `retryConnect`
is a composition of functions on it. `retrySlots`, `intervalSlots` and
`reconnectSlots` count Qt connections, because the code makes and breaks them
while it runs and Qt calls a slot once per connection.

Assumptions on Qt, all on `QTcpSocket`: `connectToHost()` on a socket that is not
unconnected reports an error, and so calls `retryConnect`; `abort()` of a
connected socket emits `disconnected()`; when the peer closes, `error()` is
emitted first and the socket is reset after its slots return, which drops the
attempt they started (`"dead"`). The tracker's address is numeric, so there is no
look-up state. `connectTimer` (10 s) is over before a retry is due (30 s).

What a request says is reduced to `told`: whether it tells the tracker that
nothing is left. Answers are whole here; `MessageStream` cuts them. A wait
that blocks the thread that would end it sets `status` to "blocked".

Two facts about the download are kept apart, because the code keeps them apart.
`missing` is whether pieces are missing; a lost peer makes the downloader ask for
others only then. `left` is what `setLeft()` was given, from the running total:
`Completed` is a piece that makes it 0, with `setLeft(0)` and `completeRequest()` as
`onPieceDownloaded` calls them, and `Overshot` one that takes it below, after which
it is "over" for good. An answer that lists peers schedules the next request
whether or not anything is missing (`TorrentDownloader.cpp:296`), so a client that
only shares sends regular requests too, and schedules them in any order with its
completion.

### Tracker

`Accept` is the accepting thread; `Started`, `Regular`, `Completed`, `Stopped`
and `ReadEnd` are what the reading thread does with one epoll event. They
interleave freely. A handler is one action although the other thread runs
beside it: of what a handler reads the accepting thread writes only
`clientAddress`, and reads it once per request. `Send`, `Finish` and `HangUp` are
the clients, which send what `TrackerConnection` can send. A connection is known by its descriptor, and
`accept()` gives the lowest free one. A write fails only when the client has hung
up. On one write `Respond` either answers or closes the connection in the middle
of the handler, as `sendResponse` does.

`overlapped` and `raced` are history variables: a client came back before its
previous connection was closed here; a connection was accepted before the
`started` of another was read. `Registered`, `OwnAddress` and `AnswerTellsAll` are
stated for behaviours without them and are false otherwise (section 4, defects).
`ListedIsAnnounced`, `ListedOnce` and `CountersCoverList` hold throughout.

Not modelled: requests no client of this repository sends (broken encoding,
another info_hash on the same connection, no `started`), and the shutdown.

### TorrentStore

What outlives the program: `config[h]`, the configuration file of a torrent with
the bitmap of its pieces, and `disk[h][p]`, the data file in directory `p`. What
does not: `torrent[o]`, a `Torrent` with its downloader, its tracker connection and
its `File`, whose `buffer` is what `QFile` has not passed on.

| Action | Code |
|---|---|
| `DownloadFile`, `OnFileCreated` (both `Append`) | the constructor of `Torrent` that makes a configuration, and `TorrentManager::append` |
| `SetFrag`, `CompleteRequest`, `UpdatePage` | `onPieceDownloaded`: seek and write, add to the total; tell the tracker if the total is that of the file; the page of the bitmap, flushed |
| `Upload` | reading a piece that is not cached, whose seek flushes the buffer |
| `Report` | a request is sent or answered: `onTrackerStatusChanged` and `File::readonly`, close and open in the other mode |
| `Lost` | the tracker connection is lost, which changes no file |
| `Remove`, then `Destroy` | `TorrentManager::remove`; the deletion it posted, `~Torrent` |
| `Stop`, `StopInWrite` | the program ends, at any time; in the constructor it leaves a blank configuration |
| `UpdateDownloadList` | the next start |

Decisions worth knowing:

- *What decides the mode of the file is the running total*, `downloadedSinceStart`,
  compared with the size of the file (`TorrentDownloader.cpp:133`), not the pieces. A
  piece that was given back twice is downloaded twice: `wanted` is what may ever be
  downloaded since the start, `SetFrag` may store an owned piece again, and its
  size is added again. The total may then reach the size of the file with pieces
  missing, so that the file is closed for writing, or pass it, so that the
  torrent is never complete. `doubled` is the history of it.
- *A handler is up to three actions* here, since a stop may come between its two
  files. Other handlers do not come in between (`storing`), but `completeRequest` is
  called from the handler (`telling`), and reopens the file when the tracker is idle,
  or waits without end for an answer that is awaited (`blocked`).
- *The write buffer* of `QFile` holds a piece below 16 KB (`Small`) and passes a
  larger one on. It is emptied by the next seek or close. A deletion and the end of
  the program lose it: no destructor closes the `File`.
- *A deletion is posted*: `Remove` takes the torrent from the list and its
  configuration from the disk, and the object, `going`, downloads and reports until
  `Destroy`. Its destructor waits as well if an answer is awaited.
- *A start* may fail to read some torrent files. Depending on the exception their
  configuration is dropped or kept (`TorrentManager.cpp:38`); both are allowed.
- *History variable `readded`*: a torrent that is added while it has a
  configuration overwrites its bitmap, and two objects then write one file.
  `BitmapSurvives` and `NothingForgotten` are claims about the others,
  `StoredIsWritten` and `CompleteIsFlushed` about torrents that are not `doubled`,
  and `ClaimedIsWritten` about those that are neither.
- `CompleteIsFlushed` also leaves out a torrent the tracker never found incomplete
  (`mIsReadonly` still as it was at the start, `File.h:23`) and one whose connection
  is down: nothing reopens their file, so nothing flushes it.

### TorrentList

What a user sees and does: `TorrentManager::fileList`, the table of `Window` and
the thread that hashes a shared file. `window` has the two containers that
`Window` keeps (`idToRow`, `rowStatus`), the current row, what the bar shows, and
whether the delete button is enabled. `calls` and `created` are the signals queued
in either direction between the threads. A handler is one action again: it may make
a `Torrent`, put it in the list, and report its status to the window.

Decisions worth knowing:

- *A deletion is posted* (`TorrentManager.cpp:83`). Until `Destroy` the object is
  `doomed`, and a socket or a timer that was ready in the same round of the event loop
  still makes it report (`StatusChanged`). Its row is gone by then, so that
  `torrentStatusUpdated` gives it a new one, which stays when the object goes:
  `ghosts`. The user acts in a later round (`UserActs`).
- *A wait for the tracker* may block the event loop (`Block`). The hashing thread goes
  on; nothing else does but the end of the program.
- *`removeRow`* changes the current row before the row is gone, so that
  `updateBottomBar` runs inside `deleteFile` with row numbers of the old table;
  `RowRemoved` does what Qt documents.
- *`MovedUp` is the identity*, since the loop at `Window.cpp:164` changes copies. The
  history variable `holed` marks the deletion of a row that is not the last.
- *A row past the end* of the vector writes where nothing reads: the report is
  dropped.
- *Terminating the thread* drops the file that is being hashed, if one is.
- *Identities of objects* are the least that can tell two of them apart: which one
  is new does not matter, so `Fresh` is chosen.

### Bencode, MessageStream and MessageChannel

`Bencode` is the codec, as operators: `ToUtf8`, `FromUtf8`, `Code`, and the decoders
with the outcome of a call as a value (`"value"`, `"eof"` for a text that may go
on, `"wrong"`). Characters and bytes are numbers. `MessageStream` has the bytes
under way in both directions and what either side has not decoded yet. One action
is one read: any number of the bytes that are under way, decoded, added to the
buffer, and one message taken from it. What was learnt from the code:

- *UTF-8 is decoded read by read and outside of any `try`*, so a read that ends inside
  a character ends the program (`PartIsWaitedFor`, violated).
- *A text that ends where a type is expected* is "wrong" and not "eof", because the
  end of the stream reads as no known type. The tracker then answers a request that
  is not whole (`hasty`), and answers it again when it is.
- *The client keeps its buffer* over a reconnection; `stale` marks that it held
  part of an answer then.
- *Counters* that went below zero are printed as `uint64_t`, and `stoll` refuses
  them: the message stays in the buffer and so does all that follows. `Fits` says that
  a message has no such number, `Unreadable` that one was sent that has. `IntLimit`
  stands for 2^63 and `WrappedInt` for such a number.

The properties name the events among these four that break them. Neither an answer
that came too early nor a number that cannot be read changes the order or the wholeness
of what is taken, and the properties do not exempt them there.

`MessageChannel` says what one direction of a connection promises: `Give`, `Take` the
next one, `Renew` (the connection is made again, and what it held is gone). A channel is
`broken` if it was renewed with something under way and part of that stayed with the
taker; from then on it promises nothing. `RequestsDelivered` maps `sent` and `handled`
to it with `broken <- FALSE`: the tracker makes a new `Connection` with an empty buffer.
`AnswersDelivered` maps `answers` and `seen` with `broken <- stale`: the client keeps its
buffer.

The decoders call each other; their calls are one recursive function per text, from a
type and a position (`Calls`) to an outcome, so that they can be proved about.

## 4. Runs

| Run | Instance | Question | Result |
|---|---|---|---|
| `bitset` | 7 bits in pages of 4 | do count, padding, complement and draw stay right under all operations? | yes |
| `bitset_full_page` | 8 bits in pages of 4 | is the complement exact when the last page is full? | **no** |
| `downloader_pieces` | 2 pieces, the first of 2 blocks, the last shorter; 2 connections, 1 peer | are pieces never lost or doubled, totals and file right? | yes |
| `downloader_pool` | 3 connections, 2 peers, limit 2, 1 piece | are counters and lists of peers right? | yes |
| `downloader_progress` | 2 pieces, 2 connections | does a download with stable sources end? | yes |
| `downloader_left` | same | is what is left reported right after a disconnection? | **no** |
| `tracker_connection` | 2 lost connections | in step, announced, restored, told? | yes |
| `tracker` | 2 clients, 3 descriptors, limit 1, counters modulo 4 | list, counters and answers right? | yes |
| `torrent_store` | 1 torrent of 2 pieces of 2 and 1 bytes, a total of up to 5, 2 objects, 2 stops | what does the bitmap on disk claim, and is it true, is a complete file flushed? | yes |
| `torrent_list` | 2 torrents, 3 objects, 3 jobs, 1 odd torrent | are list, table, objects and configurations the same torrents? | yes |
| `message_stream` | 3 requests, 2 cuts anywhere, 1 lost connection | is each direction a channel, is an idle client up to date, are bytes under way while it waits, does an answer come? | yes |
| `message_stream_cut` | 1 request, 1 cut | does a cut only delay a message? | **no** |

The three "no" are findings, each against a sentence of the source:

1. `~` and `set()` of a bit set whose size is a multiple of 8 leave the last page
   empty: those pieces are never wanted.
2. A piece given back twice is downloaded twice, and the bytes left are wrong.
3. A read that ends inside a two-byte character ends the tracker, or the client.

**Defects without a run of their own.** They follow from an action as it is written,
and each property above names the condition under which it does not apply.

- Incoming connections are not limited by `maxConn` (`TorrentDownloader.cpp:155`).
- A download that completes, or is removed, while an answer of the tracker is
  awaited waits for it on the thread that would read it
  (`TrackerConnection.cpp:190`, `:157`): status "blocked", and the client is frozen.
- After a piece was downloaded twice the running total is not the size of what is
  owned. If it meets the size of the file with pieces missing, the file is reopened for
  reading only, and each further piece is claimed by the bitmap and not written; if it
  passes it, a complete file is never reopened (`TorrentDownloader.cpp:133`): `doubled`.
- A torrent that reports between its removal and its deletion leaves a row that points
  at a freed status (`TorrentManager.cpp:83`, `Window.cpp:48`): `ghosts`.
- A client that has every piece goes on asking the tracker for peers and dialling
  them (`TorrentDownloader.cpp:296`).
- Each lost tracker connection wires `reconnect` once more
  (`TrackerConnection.cpp:111`). After the third, each retry aborts its own attempt:
  attempts go on for ever (`NeverGivesUp` is a theorem for any number of losses), but
  `Restored` fails with `MaxLost` 3.
- A client that reconnects before the tracker saw its old connection end is dropped
  from the list when it does (`TorrentInstanceInfo.cpp:21`): `overlapped`.
- Two connections accepted before the first `started` is read share one address
  (`Server.cpp:90`): `raced`.
- After a row that is not the last is deleted, reports and deletions hit other rows
  (`Window.cpp:164`): `holed`.
- A torrent that is added again runs twice (`TorrentManager.cpp:75`): `readded`. A second
  share while one is hashed may be dropped (`Client.cpp:106`): `overlapped`.
- A stop may leave one claimed piece that the file lacks (`Torrent.cpp:203`), which is
  the bound that `ClaimedIsWritten` states and `OneLostPerStop` proves.

**Bounds.** Two connections suffice for one to give back what the other takes,
and three for a duplicate and a reconnection beside a live connection. `CountCap`
stops accepting (the code has no limit), `DownloadCap` stops finishing pieces, so
that a piece that is downloaded again cannot grow the total forever. Both are one
or more steps above the values where the properties could fail, and are
parameters: the proofs hold for all of them. `MaxRetransmissions` is 0, so giving
up takes two wrong hashes in place of five. `MaxLost` bounds the tracker's closing;
two is the largest number after which the code recovers. Three descriptors and two
clients are enough for an old and a new connection of one client beside another
client; `PeerLimit` 1 then is met exactly and never exceeded. `Width` 4 makes the
counters wrap within reach. In `torrent_store` torrents share nothing but the
program's stops, and two directories nothing but a bitmap that is written over, which
no property is about, so that one of each is enough; two objects are what adding it
again needs; both pieces are in one page, so that a page mixed up shows;
two stops let a second one follow a restart. With pieces of 2 and 1 bytes, a total of
up to 5 can meet the size of the file with the longer piece missing, and pass it by one
piece or by two. In `torrent_list` two torrents are the
least with a row below a deleted one, and three objects let one be added again while
both run. `MaxOdd` 1 lets one torrent be added again, or report late, beside another
one that the properties are about, and `UserActs` keeps the user from acting while
a deletion is due. In `message_stream` the requests are a string with a two-byte character, a
number, and a number that wraps; two cuts put a part in the middle of a message,
and one loss lets a partial answer meet a new connection. Symmetry is used for
safety runs only. Deadlock is checked except in `TrackerConnection`, where a
destroyed or blocked object stops, `TorrentStore`, where a blocked program that may
not be stopped again does, and `MessageStream`, where everything may have
been sent and read.

**Fairness.** `downloader_progress`: weak fairness of `Block(c)` alone, a peer that
was asked answers. Announcements are not fair; that sources stay is a premise.
`tracker_connection`: weak fairness of the two timers and of the answer to a
request, strong fairness of `OnConnection`, since attempts fail in between: of
infinitely many attempts one is accepted. `torrent_store`: none; its properties are
safety, since an event loop that may block and a tracker that may be out of reach
justify nothing more. `torrent_list`: weak fairness of
`CreateFile` and `OnFileCreated`, the hashing thread runs and the event loop takes
its signals. `message_stream`: what arrived is read while the reader lives, in
pieces of any size, stated on the bytes that a read takes. All of it is about the
environment, Qt's timers and schedulers, and none of it about how slots are
ordered. A blocked object, or a program that ended, is an accepted end of the
liveness properties.

## 5. Proofs

For every value of the constants that the named assumptions admit:

- `BitSetProofs`: `ComplementExact` and `AllOnesExact`, `~` and `set()` are exact
  when the size is **not** a multiple of the page size, the case that the run
  `bitset_full_page` excludes. `CountExact` and `ComplementAlwaysExact` lift them to every
  sequence of operations of the object, under the same premise. `DrawAlwaysCovers`: the draw
  can give each set bit and nothing else. The n-th set bit is the least position
  with n set bits up to it; `LeastOf` finds it by the well-foundedness of `<`.
- `TorrentDownloaderProofs`: `TypeCorrect` and `PoolCounted`, `Spec => []TypeOK` and
  `Spec => []CountCovers`. TypeOK says
  that the unsigned count never wraps, which is not inductive: the count goes down by
  what an erase returns, so it has to cover the accepted peers and also the
  objects before their handshake, which a refused duplicate subtracts. The
  inductive invariant is `PoolInv == TypeOK /\ FreeIsFresh /\ CountCovers`, where
  `FreeIsFresh` says that the slot of an object that does not exist holds a
  constructor's values. `LifeStep`, `TaskTypeStep` and `FileTypeStep` give the types
  step by step, `CountStep` the count with one case per action, by four lemmas on
  what an action erases and counts.
- `NothingLost`: `Spec => []NoPieceLost` if `NumPieces % PageBits # 0`. The initial
  complement is where the premise is used. The invariant "every piece is owned,
  wanted or in somebody's task" is kept by each action (`PlacedStep`): a task
  only ends by finishing or giving back.
- `NothingTwice`: `Spec => []NoPieceTwice`. The invariant `Once` states that the
  three places are disjoint while `returned` is not "dirty", and `DirtyStays` that
  "dirty" is for good.
- The rest of the downloader's safety, in the same module, each on top of
  `PoolInv`: `BufferIsClean`; `GainedFromPeer`, from `TaskAdvertised` (a task is a piece
  that its peer has); `NobodyIdles`, from `UnconnectedHasNone` (no object has
  advertised pieces before its socket is open); `NobodyLockedOut`, from
  `DoomedIsKnown` (an object that waits to be deleted with its socket open is one
  that was refused by its peer's id); `OwnedIsCounted` and `OwnedIsWritten`, from
  `Tally`, which needs `NothingTwice`: a total is the size of a set only if no piece
  is counted twice.
- `TrackerConnectionProofs`: `OneRequestAtATime`, `NeverConnectedInSilence` and `NeverGivesUp`, for any number of lost
  connections, while the run has two. How often a slot is called grows with each loss, so
  the proof is an induction over `Times`. `SetInduction` gets it from the
  well-foundedness of `<`, as an induction over a set of numbers, and
  `IterationExists` gives the function that `Times` chooses. `Attempted` is what any number of
  `reconnect` calls leaves, `Startable` what any number of `connectToTracker` calls
  keeps. The invariant `LinkInv` has two halves: `Up(link)`, nothing is
  wired that would start another attempt, and `Due(link)`, a timer runs that leads to
  one, and an attempt under way will be followed by "started".
- `TrackerProofs`. The basis is `TrackerInv == TypeOK /\ ConnInv /\ InfoInv /\
  ListedIsAnnounced`: a descriptor in use has a client and a torrent, a free one
  nothing to read, and of every torrent `GoodInfo` says that no id is listed twice
  and that the counters add up to the list modulo `Width`. None of it is inductive
  alone: removing by id keeps `ListedIsAnnounced` only because ids are unique, and
  two counters that go down one by one add up only modulo `Width`. From it,
  without premises: `TypeCorrect`, `NobodyLeftBehind`, `ListIsCounted`.
- `ListedUnderOwnAddress`: `Spec => []OwnAddress`. While no connection was accepted
  before another's "started" was handled, the shared address is the one of the
  only connection in state "NEW" (`AddressInv`).
- `RegisteredExactly` and `AnswerIsComplete`: `Registered` and `AnswerTellsAll` if `MaxConn < Width`,
  so that a counter does not wrap. `RequestInv` ties what a client may send to the
  tracker's state of its connection; `RegInv` adds that a client that did not come
  back early has one connection per torrent (`Alone`), and `Right` that ids and
  counters are those of the announcing connections.
- `TorrentStoreProofs`, for any numbers and sizes of pieces, and any numbers of torrents,
  directories, objects and stops. The invariant is `DiskInv == TypeOK /\ SoundInv /\ StoringInv /\
  ConfigInv /\ ListInv`. `Sound(o)` says of one object that at most one piece is in its
  write buffer and none if its file is open for reading only; unless its torrent was
  added again or is being deleted, that it is the one in the list and its bitmap is the one on
  disk but for the piece being stored (`Backed`); and, unless a piece of it was stored
  again, that the running total is the size of what it owns, that its file is open for
  reading only when nothing is missing, and that from the first answer of the tracker the mode
  of the file follows the total (`Exact`). The total meets the size of the file only with
  every piece owned, since each piece has a size (`SizeIsFull`): that is what ties the
  code's test to the pieces. `StoringInv` says that the piece being stored is set in
  memory and written or buffered; `ListInv` that the list names living objects, which
  `Remove` relies on. From it: `TypeCorrect`, `StopLosesNoBit`, `PieceReachesFile`,
  `BitmapGrows`, and `CompletionFlushes` (`Spec => []CompleteIsFlushed`), from `Exact` and
  "none if for reading only". `OneLostPerStop` is a counting argument on top: a step either
  keeps the set of missing pieces within what it was, or is a stop, and a buffer holds one
  piece at most.
- `TorrentListProofs`, for any numbers of torrents, objects and hashing jobs. The invariant
  is `ListInv == ListTypeOK /\ NamesInv /\ TableInv /\ StoppedInv /\ ListIsWhatRuns`. `RowsMatch` counts
  rows and torrents, and a count is not inductive, so `RowsOf` says instead that every row
  is one torrent's, and every torrent that did not report late has a row with a status
  of its own that stays: a bijection, from which `RowsAlwaysMatch` gets the count. `OneShown`
  needs that a deleted object is the one that was shown: `Seen` says that the bar shows the
  current row or nothing, apart from what is going, and `ListIsWhatRuns` that a hash has one
  object that stays. `NamesInv` says that the list names objects of the right torrent that stay;
  without it a deletion could end another one. `RowRemovedIs` is what `deleteFile` leaves of the
  table. From these: `RowsAlwaysMatch`, `OneAlwaysShown`, `ListIsAlwaysWhatRuns`,
  `OnlyTheRightOneDeleted`.

- `BencodeProofs`, for every text and every value of `IntLimit`. Three results, which
  hold whatever the bytes mean:
  `Utf8Read`: bytes that decode without an exception are those of whole characters, and
  what stays of the stream are the bytes of the others (`LeadByte`: a first byte tells how many
  follow).
  `DecodeStable`: a call that returned a value returns the same one when more text has
  arrived. A call looks only at what is behind its position, so this is an induction from
  the end of the text to its beginning (`KeepsCore`, `KeepsList`, `KeepsDict`, one for each
  decoder), and so is that the recursive function of the calls exists at all
  (`DecodeExists`). It is not true of failures: "eof" may become a value, and "wrong" too.
  `RoundTrip`: a text that starts with the code of a message is decoded as that message,
  and its code is what was taken, if the numbers in it are below `IntLimit` (`Fits`). If one
  is not, nothing else is ever decoded. The code of a list is read by an induction over its
  items from the last to the first (`EndsAll`); that a printed number is read back is an
  induction over its digits (`ReadBack`).
  Induction over numbers is an induction over a set of numbers, by the well-foundedness
  of `<` (`SetInduction`, `Upwards`); the library's theorems take an operator, which the
  provers cannot instantiate.
- `MessageStreamProofs`, for any requests, numbers of cuts and of losses, from
  `RequestAssumption` (a request is a message, a peer's description a string) and
  `LimitAssumption`. The invariant is `IInv == Histories /\ TrackerHolds /\ ClientHolds
  /\ Counts`. `TrackerHolds` says that there is a sequence `todo` of messages such that
  `sent = handled \o todo`, and that the buffer of the tracker, followed by the characters
  whose bytes are under way, is the code of `todo`; `ClientHolds` the same of answers unless
  `stale`. A read moves whole characters from one part to the other (`Utf8Read`). A call that
  returns a value from the buffer would return it from the whole text (`DecodeStable`), which
  starts with the code of the first of `todo`, so that it is that message and what follows
  is the code of the others (`RoundTrip`). From it: `RequestChannel` (`Spec =>
  RequestsDelivered`) and `AnswerChannel` (`Spec => AnswersDelivered`), each step a step of
  the channel or a stutter, and `IdleIsUpToDate`, which also needs `Counts`: one answer per
  handled request, one request more than answers while one is awaited. `AlwaysUnderWay`
  (`Spec => []NothingStuck`) is the safety half of `AwaitedComes`: the read that takes the
  last bytes under way takes a message (`LastRead`, from the half of `RoundTrip` that says
  that a whole message *is* decoded), so that somebody else's bytes are under way then, or
  nothing is awaited any more.

Model-checked only: all liveness (fairness and ENABLED are out of the prover's
reach), which is `EventuallyComplete`, `Restored`, `CompletionIsTold`, `ScheduledIsSent`,
`ShareCompletes` and `AwaitedComes`. Every invariant that a passing run checks is also a
theorem; the type invariants that no run lists, the tracker's among them, are theorems only.

## 6. Not modelled

- The cache of fragments in memory and its credit (`BufferManager`). It changes when
  a read goes to the file, not what is written, and `Upload` allows both.
- Two clients as one system. A peer is an environment that sends any message of the
  protocol in any order that a client of this repository could; what two
  simultaneous dials do to *both* sides is listed as a hazard without a property.
- Forms, paths and the formatting of sizes; `SocketManager`, which nothing uses;
  hashing and encoding a torrent file, a sequential computation.
- Shutdown of the tracker, and signals such as SIGPIPE.
- Requests and answers that no program of this repository sends.

## 7. Running

`tlc -config Tracker.cfg MCTracker.tla`, and likewise for each run of `PROJECT.json`;
`tlapm BitSetProofs.tla`, and likewise for each module whose name ends in `Proofs`.
Operators with a comment "A mutation" are not part of the models: each is a
plausible bug that can stand in for the definition after it, to see that a property
notices.
