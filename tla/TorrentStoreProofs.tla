-------------------------- MODULE TorrentStoreProofs --------------------------
(***************************************************************************)
(* What a stop of the program can and cannot do to the torrents on disk,   *)
(* for any number of torrents, directories, pieces and stops.              *)
(***************************************************************************)
EXTENDS TorrentStore, FiniteSetTheorems, TLAPS

\* What holds of an object whose torrent was not added twice, until it is to be
\* deleted: it is the one in the list, and its bitmap is the one on disk, the
\* piece being stored apart.
Backed(o) ==
    LET h == torrent[o].hash
    IN  /\ fileList[h] = o
        /\ torrent[o].linked
        /\ config[h].place = torrent[o].place
        /\ config[h].pieces \subseteq torrent[o].pieces
        /\ torrent[o].pieces \ config[h].pieces \subseteq {i \in Piece : <<o, i>> \in storing}

\* The handler of the last piece of o has yet to tell the tracker.
Untold(o) == telling /\ \E i \in Piece : <<o, i>> \in storing

\* A file is open for reading only exactly when the total is that of the file.
Fits(ro, total) == IF total = FileSize THEN ro ELSE ~ro

\* What holds of an object none of whose pieces was stored again: the total is
\* the size of what it owns, only a complete torrent is open for reading only, and
\* from the first answer of the tracker the mode of the file follows the total.
Exact(o) ==
    /\ torrent[o].total = SizeOf(torrent[o].pieces)
    /\ torrent[o].writable \/ torrent[o].pieces = Piece
    /\ torrent[o].link # "down" /\ ~Untold(o) => Fits(torrent[o].mIsReadonly, torrent[o].total)

\* What holds of every object: at most one piece is in its write buffer, and none
\* where the file is open for reading only.
Sound(o) ==
    torrent[o].live =>
        /\ running
        /\ torrent[o].buffer = {} \/ \E i \in Piece : torrent[o].buffer = {i}
        /\ torrent[o].writable \/ torrent[o].buffer = {}
        /\ torrent[o].linked => config[torrent[o].hash].kind = "written"
        /\ torrent[o].going => ~torrent[o].linked
        /\ torrent[o].hash \notin readded /\ ~torrent[o].going => Backed(o)
        /\ torrent[o].hash \notin doubled => Exact(o)

\* One handler runs at a time, of a piece that is in the file or in its buffer,
\* unless pieces of the torrent were stored again.
Stored(o, i) ==
    /\ storing = {<<o, i>>}
    /\ torrent[o].live
    /\ i \in torrent[o].pieces
    /\ torrent[o].hash \notin doubled =>
          i \in disk[torrent[o].hash][torrent[o].place] \cup torrent[o].buffer

StoringInv == storing = {} \/ \E o \in Object, i \in Piece : Stored(o, i)
ConfigInv  == \A h \in Hash : config[h].kind # "written" => config[h].pieces = {}

\* The list names objects of the right torrent, that are not to be deleted.
Lists(h) ==
    LET t == torrent[fileList[h]]
    IN  t.live /\ ~t.going /\ t.hash = h
ListInv == \A h \in Hash : fileList[h] # NoObject => Lists(h)

\* The inductive invariant.
SoundInv == \A o \in Object : Sound(o)
DiskInv  == TypeOK /\ SoundInv /\ StoringInv /\ ConfigInv /\ ListInv

-----------------------------------------------------------------------------
(* Sizes.                                                                  *)

\* Pieces have a size, and there are finitely many of them.
LEMMA Sizes ==
  /\ LastPiece \in Piece /\ LastSize \in Nat \ {0} /\ LastSize <= PieceSize
  /\ \A i \in Piece : PieceLen(i) \in Nat \ {0}
  /\ \A S \in SUBSET Piece : IsFiniteSet(S)
<1>1. PieceCount - 1 \in Nat /\ LastPiece \in Piece
  BY StoreAssumption DEF LastPiece, Piece
<1>2. (PieceCount - 1) * PieceSize \in Nat
  BY <1>1, StoreAssumption
<1>3. LastSize \in Nat \ {0} /\ LastSize <= PieceSize
  BY <1>2, StoreAssumption DEF LastSize, LastPiece
<1>4. IsFiniteSet(Piece)
  BY <1>1, FS_Interval DEF Piece
<1>5. \A S \in SUBSET Piece : IsFiniteSet(S)
  BY <1>4, FS_Subset
<1>6. QED
  BY <1>1, <1>3, <1>5, StoreAssumption DEF PieceLen

\* What a set of pieces owes to the full ones, and to the last.
LEMMA SizeSplits ==
  ASSUME NEW S \in SUBSET Piece
  PROVE  /\ SizeOf(S) \in Nat
         /\ Cardinality(S \ {LastPiece}) \in Nat
         /\ SizeOf(S) = Cardinality(S \ {LastPiece}) * PieceSize
                        + (IF LastPiece \in S THEN LastSize ELSE 0)
<1>1. Cardinality(S \ {LastPiece}) \in Nat
  BY Sizes, FS_CardinalityType
<1>2. Cardinality(S \ {LastPiece}) * PieceSize \in Nat
  BY <1>1, StoreAssumption
<1>3. QED
  BY <1>1, <1>2, Sizes DEF SizeOf

\* A piece that was not owned adds its size.
LEMMA SizeAdds ==
  ASSUME NEW S \in SUBSET Piece, NEW i \in Piece, i \notin S
  PROVE  SizeOf(S \cup {i}) = SizeOf(S) + PieceLen(i)
<1> DEFINE T == S \cup {i}
           n == Cardinality(S \ {LastPiece})
           m == Cardinality(T \ {LastPiece})
<1>1. /\ n \in Nat /\ SizeOf(S) = n * PieceSize + (IF LastPiece \in S THEN LastSize ELSE 0)
      /\ m \in Nat /\ SizeOf(T) = m * PieceSize + (IF LastPiece \in T THEN LastSize ELSE 0)
  BY SizeSplits
<1>2. CASE i = LastPiece
  <2>1. T \ {LastPiece} = S \ {LastPiece} /\ LastPiece \in T /\ LastPiece \notin S
    BY <1>2
  <2>2. m = n
    BY <2>1
  <2> HIDE DEF n, m, T
  <2>3. n * PieceSize \in Nat
    BY <1>1, StoreAssumption
  <2>4. QED
    BY <1>1, <1>2, <2>1, <2>2, <2>3, Sizes DEF PieceLen, T
<1>3. CASE i # LastPiece
  <2>1. /\ T \ {LastPiece} = (S \ {LastPiece}) \cup {i} /\ i \notin S \ {LastPiece}
        /\ LastPiece \in T <=> LastPiece \in S
    BY <1>3
  <2>2. m = n + 1
    BY <2>1, Sizes, FS_AddElement
  <2> HIDE DEF n, m, T
  <2>3. m * PieceSize = n * PieceSize + PieceSize /\ n * PieceSize \in Nat
    BY <1>1, <2>2, StoreAssumption
  <2>4. QED
    BY <1>1, <1>3, <2>1, <2>3, Sizes, StoreAssumption DEF PieceLen, T
<1>4. QED
  BY <1>2, <1>3

\* The total is that of the file exactly when every piece is owned.
LEMMA SizeIsFull ==
  ASSUME NEW S \in SUBSET Piece
  PROVE  SizeOf(S) = FileSize <=> S = Piece
<1> DEFINE n == Cardinality(S \ {LastPiece})
           all == Piece \ {LastPiece}
<1>1. n \in Nat /\ SizeOf(S) = n * PieceSize + (IF LastPiece \in S THEN LastSize ELSE 0)
  BY SizeSplits
<1>2. Cardinality(all) = LastPiece /\ LastPiece \in Nat
  <2>1. Cardinality(Piece) = PieceCount
    BY FS_Interval, StoreAssumption DEF Piece
  <2>2. Cardinality(all) = Cardinality(Piece) - 1
    BY Sizes, FS_RemoveElement
  <2>3. QED
    BY <2>1, <2>2, StoreAssumption DEF LastPiece
<1>3. n <= LastPiece /\ (n = LastPiece => S \ {LastPiece} = all)
  <2>1. IsFiniteSet(all) /\ S \ {LastPiece} \in SUBSET all
    BY Sizes
  <2>2. QED
    BY <1>2, <2>1, FS_Subset
<1>4. FileSize = LastPiece * PieceSize + LastSize /\ LastPiece * PieceSize \in Nat
  BY <1>2, StoreAssumption DEF LastSize
<1>5. ASSUME S = Piece PROVE SizeOf(S) = FileSize
  <2>1. LastPiece \in S /\ n = LastPiece
    BY <1>2, <1>5, Sizes
  <2> HIDE DEF n
  <2>2. QED
    BY <1>1, <1>4, <2>1
<1>6. ASSUME SizeOf(S) = FileSize PROVE S = Piece
  <2>1. n = LastPiece /\ LastPiece \in S
    <3> HIDE DEF n
    <3>1. CASE n = LastPiece
      <4>1. n * PieceSize = LastPiece * PieceSize
        BY <3>1
      <4>2. QED
        BY <1>1, <1>4, <1>6, <3>1, <4>1, Sizes
    <3>2. CASE n < LastPiece
      <4>1. n * PieceSize + PieceSize <= LastPiece * PieceSize
        <5>1. PICK k \in Nat : LastPiece = n + 1 + k
          <6>1. LastPiece - n - 1 \in Nat
            BY <1>1, <1>2, <3>2
          <6>2. LastPiece = n + 1 + (LastPiece - n - 1)
            BY <1>1, <1>2
          <6>3. QED
            BY <6>1, <6>2
        <5>2. LastPiece * PieceSize = n * PieceSize + PieceSize + k * PieceSize
          BY <1>1, <5>1, StoreAssumption
        <5>3. n * PieceSize \in Nat /\ k * PieceSize \in Nat
          BY <1>1, <5>1, StoreAssumption
        <5>4. QED
          BY <5>2, <5>3, StoreAssumption
      <4>2. n * PieceSize \in Nat
        BY <1>1, StoreAssumption
      <4>3. QED
        BY <1>1, <1>4, <1>6, <4>1, <4>2, Sizes, StoreAssumption
    <3>3. QED
      BY <1>1, <1>2, <1>3, <3>1, <3>2
  <2>2. QED
    BY <1>3, <2>1, Sizes
<1>7. QED
  BY <1>5, <1>6

-----------------------------------------------------------------------------
\* The records that objects start as.
LEMMA OpenedIsTyped ==
  ASSUME NEW h \in Hash, NEW p \in Place, NEW pieces \in SUBSET Piece
  PROVE  /\ Opened(h, p, pieces) \in TorrentType
         /\ Opened(h, p, pieces) =
              [live |-> TRUE, hash |-> h, place |-> p, pieces |-> pieces,
               wanted |-> Piece \ pieces, total |-> SizeOf(pieces), buffer |-> {},
               mIsReadonly |-> TRUE, writable |-> TRUE, linked |-> TRUE,
               link |-> "down", going |-> FALSE]
<1>1. SizeOf(pieces) \in Nat
  BY SizeSplits
<1>2. QED
  BY <1>1 DEF Opened, TorrentType

LEMMA NoTorrentIsTyped == NoTorrent \in TorrentType /\ ~NoTorrent.live /\ ~NoTorrent.going
<1>1. (CHOOSE h \in Hash : TRUE) \in Hash /\ (CHOOSE p \in Place : TRUE) \in Place
  BY StoreAssumption
<1> DEFINE t == Opened(CHOOSE h \in Hash : TRUE, CHOOSE p \in Place : TRUE, {})
<1>2. t \in TorrentType /\ ~t.going
  BY <1>1, OpenedIsTyped
<1> HIDE DEF t
<1>3. NoTorrent = [t EXCEPT !.live = FALSE]
  BY DEF NoTorrent, t
<1>4. QED
  BY <1>2, <1>3 DEF TorrentType

LEMMA NoConfigIsTyped ==
  LET type == [kind : {"absent", "blank", "written"}, pieces : SUBSET Piece, place : Place]
  IN  /\ NoConfig \in type /\ NoConfig.kind = "absent" /\ NoConfig.pieces = {}
      /\ Blank \in type /\ Blank.kind = "blank" /\ Blank.pieces = {}
      /\ \A pieces \in SUBSET Piece, place \in Place : Written(pieces, place) \in type
<1>1. (CHOOSE p \in Place : TRUE) \in Place
  BY StoreAssumption
<1>2. QED
  BY <1>1 DEF NoConfig, Blank, Written

\* Writing out a buffer only adds to the files.
LEMMA FlushAdds ==
  ASSUME TypeOK, NEW o \in Object
  PROVE  /\ Flush(o) \in [Hash -> [Place -> SUBSET Piece]]
         /\ \A h \in Hash, p \in Place : disk[h][p] \subseteq Flush(o)[h][p]
         /\ torrent[o].buffer \subseteq Flush(o)[torrent[o].hash][torrent[o].place]
<1>1. torrent[o] \in TorrentType
  BY DEF TypeOK
<1>2. QED
  BY <1>1 DEF TypeOK, Flush, TorrentType

-----------------------------------------------------------------------------
LEMMA InitDisk == Init => DiskInv
<1> SUFFICES ASSUME Init PROVE DiskInv
  OBVIOUS
<1> USE DEF Init
<1>1. TypeOK
  <2>1. config \in [Hash -> [kind : {"absent", "blank", "written"},
                             pieces : SUBSET Piece, place : Place]]
    BY NoConfigIsTyped
  <2>2. disk \in [Hash -> [Place -> SUBSET Piece]]
    <3>1. {{}, Piece} \subseteq SUBSET Piece
      OBVIOUS
    <3>2. QED
      BY <3>1
  <2>3. torrent \in [Object -> TorrentType]
    BY NoTorrentIsTyped
  <2>4. /\ stops \in Nat /\ readded \subseteq Hash /\ doubled \subseteq Hash
        /\ running \in BOOLEAN /\ telling \in BOOLEAN /\ blocked \in BOOLEAN
    OBVIOUS
  <2>5. fileList \in [Hash -> Object \cup {NoObject}] /\ storing \subseteq Object \X Piece
    OBVIOUS
  <2>6. QED
    BY <2>1, <2>2, <2>3, <2>4, <2>5 DEF TypeOK
<1>2. SoundInv
  BY NoTorrentIsTyped DEF Sound, SoundInv
<1>3. StoringInv /\ ConfigInv /\ ListInv
  BY NoConfigIsTyped DEF StoringInv, ConfigInv, ListInv
<1>4. QED
  BY <1>1, <1>2, <1>3 DEF DiskInv

-----------------------------------------------------------------------------
(* Types.                                                                  *)
ConfigType == [kind : {"absent", "blank", "written"}, pieces : SUBSET Piece, place : Place]

\* What a step does to the objects it changes keeps their type.
LEMMA TorrentChanges ==
  ASSUME TypeOK, NEW o \in Object, NEW r \in TorrentType
  PROVE  [torrent EXCEPT ![o] = r] \in [Object -> TorrentType]
BY DEF TypeOK

LEMMA AppendTypes ==
  ASSUME TypeOK, NEW h \in Hash, NEW o \in Object, NEW place \in Place,
         NEW pieces \in SUBSET Piece, Append(h, o, place, pieces)
  PROVE  TypeOK'
<1>1. torrent' \in [Object -> TorrentType]
  BY OpenedIsTyped, TorrentChanges DEF Append
<1>2. config' \in [Hash -> ConfigType]
  BY NoConfigIsTyped DEF Append, TypeOK, ConfigType
<1>3. QED
  BY <1>1, <1>2 DEF Append, Idle, TypeOK, ConfigType

\* What SetFrag does to all but the objects and the files.
LEMMA SetFragFrame ==
  ASSUME NEW o \in Object, NEW i \in Piece, SetFrag(o, i)
  PROVE  /\ torrent[o].live /\ running /\ storing = {} /\ storing' = {<<o, i>>}
         /\ doubled' = IF i \in torrent[o].pieces THEN doubled \cup {torrent[o].hash} ELSE doubled
         /\ telling' \in BOOLEAN
         /\ telling' \/ torrent[o].total + PieceLen(i) # FileSize
         /\ UNCHANGED <<running, config, fileList, blocked, stops, readded>>
BY DEF SetFrag, Idle

\* What it does to those.
LEMMA SetFragDoes ==
  ASSUME TypeOK, NEW o \in Object, NEW i \in Piece, SetFrag(o, i)
  PROVE  /\ \A x \in Object : x # o => torrent'[x] = torrent[x]
         /\ \E buffer \in SUBSET {i} :
               /\ torrent'[o] = [torrent[o] EXCEPT !.buffer = buffer, !.pieces = @ \cup {i},
                                                   !.total = @ + PieceLen(i)]
               /\ torrent[o].writable =>
                     i \in buffer \cup disk'[torrent[o].hash][torrent[o].place]
               /\ ~torrent[o].writable => buffer = {}
         /\ \A h \in Hash, p \in Place : Flush(o)[h][p] \subseteq disk'[h][p]
         /\ torrent' \in [Object -> TorrentType]
         /\ disk' \in [Hash -> [Place -> SUBSET Piece]]
<1> DEFINE taken == IF torrent[o].writable THEN {i} ELSE {}
           total == torrent[o].total + PieceLen(i)
           r == [torrent[o] EXCEPT !.buffer = taken \cap Small, !.pieces = @ \cup {i},
                                   !.total = total]
<1>1. torrent[o] \in TorrentType /\ torrent[o].hash \in Hash /\ torrent[o].place \in Place
  BY DEF TypeOK, TorrentType
<1>2. /\ Flush(o) \in [Hash -> [Place -> SUBSET Piece]] /\ taken \in SUBSET {i}
      /\ taken \cap Small \in SUBSET Piece /\ taken \ Small \in SUBSET Piece
  BY FlushAdds
<1>3. disk' = [Flush(o) EXCEPT ![torrent[o].hash][torrent[o].place] = @ \cup (taken \ Small)]
  BY DEF SetFrag
<1>4. torrent' = [torrent EXCEPT ![o].buffer = taken \cap Small, ![o].pieces = @ \cup {i},
                                 ![o].total = total]
  BY DEF SetFrag
<1> HIDE DEF taken
<1>5. torrent' = [torrent EXCEPT ![o] = r]
  BY <1>1, <1>4 DEF TypeOK, TorrentType
<1>6. r \in TorrentType
  <2>1. total \in Nat
    BY <1>1, Sizes DEF TorrentType
  <2> HIDE DEF total
  <2>2. QED
    BY <1>1, <1>2, <2>1 DEF TorrentType
<1>7. torrent' \in [Object -> TorrentType]
  BY <1>5, <1>6 DEF TypeOK
<1>8. torrent'[o] = [torrent[o] EXCEPT !.buffer = taken \cap Small, !.pieces = @ \cup {i},
                                      !.total = @ + PieceLen(i)]
  BY <1>1, <1>5 DEF TypeOK, TorrentType
<1>9. \A x \in Object : x # o => torrent'[x] = torrent[x]
  BY <1>5 DEF TypeOK
<1>10. disk' \in [Hash -> [Place -> SUBSET Piece]]
  BY <1>1, <1>2, <1>3
<1>11. \A h \in Hash, p \in Place : Flush(o)[h][p] \subseteq disk'[h][p]
  BY <1>1, <1>2, <1>3
<1>12. taken \ Small \subseteq disk'[torrent[o].hash][torrent[o].place]
  BY <1>1, <1>2, <1>3
<1>13. /\ taken \cap Small \in SUBSET {i}
       /\ torrent[o].writable =>
             i \in (taken \cap Small) \cup disk'[torrent[o].hash][torrent[o].place]
       /\ ~torrent[o].writable => taken \cap Small = {}
  BY <1>12 DEF taken
<1>14. QED
  BY <1>7, <1>8, <1>9, <1>10, <1>11, <1>13

LEMMA SetFragTypes ==
  ASSUME TypeOK, NEW o \in Object, NEW i \in Piece, SetFrag(o, i)
  PROVE  TypeOK'
<1>1. torrent[o].hash \in Hash
  BY DEF TypeOK, TorrentType
<1>2. doubled' \in {doubled, doubled \cup {torrent[o].hash}} /\ storing' = {<<o, i>>}
  BY DEF SetFrag
<1>3. storing' \subseteq Object \X Piece /\ doubled' \subseteq Hash
  BY <1>1, <1>2 DEF TypeOK
<1>4. QED
  BY <1>3, SetFragDoes, SetFragFrame DEF TypeOK

\* An object whose file is flushed or left as it is, and reopened for writing
\* unless the torrent is complete; the mode follows the total where it must.
Settles(o, buffer, ro, rw, link) ==
    /\ torrent[o].live
    /\ torrent' = [torrent EXCEPT ![o] =
                     [torrent[o] EXCEPT !.buffer = buffer, !.mIsReadonly = ro,
                                        !.writable = rw, !.link = link]]
    /\ \/ disk' = disk /\ buffer = torrent[o].buffer
       \/ disk' = Flush(o) /\ buffer = {}
    /\ rw \/ buffer = {}
    /\ torrent[o].hash \notin doubled =>
          /\ rw \/ torrent[o].pieces = Piece
          /\ link # "down" /\ ~Untold(o)' => Fits(ro, torrent[o].total)
    /\ telling' \in BOOLEAN
    /\ telling' = telling \/ \E i \in Piece : <<o, i>> \in storing
    /\ UNCHANGED <<running, config, fileList, storing, blocked, stops, readded, doubled>>

Links == {"down", "awaiting", "active"}

LEMMA SettleTypes ==
  ASSUME TypeOK, NEW o \in Object, NEW buffer \in SUBSET Piece, NEW ro \in BOOLEAN,
         NEW rw \in BOOLEAN, NEW link \in Links, Settles(o, buffer, ro, rw, link)
  PROVE  TypeOK'
<1>1. [torrent[o] EXCEPT !.buffer = buffer, !.mIsReadonly = ro, !.writable = rw, !.link = link]
         \in TorrentType
  <2>1. torrent[o] \in TorrentType
    BY DEF TypeOK
  <2>2. QED
    BY <2>1 DEF TorrentType, Links
<1>2. torrent' \in [Object -> TorrentType]
  BY <1>1, TorrentChanges DEF Settles
<1>3. disk' \in [Hash -> [Place -> SUBSET Piece]]
  BY FlushAdds DEF Settles, TypeOK
<1>4. QED
  BY <1>2, <1>3 DEF Settles, TypeOK

LEMMA UpdatePageTypes ==
  ASSUME TypeOK, NEW o \in Object, NEW i \in Piece, UpdatePage(o, i)
  PROVE  TypeOK'
<1>1. torrent[o] \in TorrentType
  BY DEF TypeOK
<1>2. config' \in [Hash -> ConfigType]
  <2>1. config \in [Hash -> ConfigType] /\ torrent[o].hash \in Hash
    BY <1>1 DEF TypeOK, ConfigType, TorrentType
  <2>2. PICK pieces \in SUBSET Piece :
           config' \in {config, [config EXCEPT ![torrent[o].hash].pieces = pieces]}
    <3>1. (config[torrent[o].hash].pieces \ PageOf(i)) \cup Page(o, i) \in SUBSET Piece
      BY <2>1, <1>1 DEF ConfigType, TorrentType, Page
    <3>2. QED
      BY <3>1 DEF UpdatePage
  <2>3. QED
    BY <2>1, <2>2 DEF ConfigType
<1>3. QED
  BY <1>2 DEF UpdatePage, TypeOK, ConfigType

LEMMA RemoveTypes ==
  ASSUME TypeOK, NEW h \in Hash, Remove(h)
  PROVE  TypeOK'
<1>1. \A o \in Object : /\ [torrent[o] EXCEPT !.linked = FALSE] \in TorrentType
                          /\ [torrent[o] EXCEPT !.linked = FALSE, !.going = TRUE] \in TorrentType
  BY DEF TypeOK, TorrentType
<1>2. torrent' \in [Object -> TorrentType]
  <2>1. \A o \in Object : torrent'[o] \in TorrentType
    BY <1>1 DEF Remove, TypeOK
  <2>2. torrent' = [o \in Object |-> torrent'[o]]
    BY DEF Remove
  <2>3. QED
    BY <2>1, <2>2
<1>3. config' \in [Hash -> ConfigType]
  BY NoConfigIsTyped DEF Remove, TypeOK, ConfigType
<1>4. QED
  BY <1>2, <1>3 DEF Remove, Idle, TypeOK, ConfigType

LEMMA DestroyTypes ==
  ASSUME TypeOK, NEW o \in Object, Destroy(o)
  PROVE  TypeOK'
<1>1. torrent' \in [Object -> TorrentType] /\ blocked' \in BOOLEAN
  BY NoTorrentIsTyped, TorrentChanges DEF Destroy, TypeOK
<1>2. QED
  BY <1>1 DEF Destroy, TypeOK

LEMMA StopTypes ==
  ASSUME TypeOK, AllGone, config' \in [Hash -> ConfigType]
  PROVE  TypeOK'
<1>1. torrent' \in [Object -> TorrentType]
  BY NoTorrentIsTyped DEF AllGone
<1>2. /\ running' \in BOOLEAN /\ stops' \in Nat /\ storing' \subseteq Object \X Piece
      /\ fileList' \in [Hash -> Object \cup {NoObject}]
  <2>1. running' = FALSE /\ storing' = {} /\ fileList' = [h \in Hash |-> NoObject]
    BY DEF AllGone
  <2>2. stops' \in Nat
    BY DEF AllGone, TypeOK
  <2>3. QED
    BY <2>1, <2>2
<1>3. disk' = disk /\ readded' = readded /\ doubled' = doubled /\ ~telling' /\ ~blocked'
      /\ telling' \in BOOLEAN /\ blocked' \in BOOLEAN
  BY DEF AllGone
<1>4. QED
  BY <1>1, <1>2, <1>3 DEF TypeOK, ConfigType

\* The torrents that UpdateDownloadList opens.
Kept(unreadable) == {h \in Hash : config[h].kind = "written"} \ unreadable
FromDisk(o, unreadable) ==
    \E h \in Kept(unreadable) : fileList'[h] = o /\ torrent'[o] = Reopened(h)

LEMMA StartOpens ==
  ASSUME TypeOK, NEW unreadable \in SUBSET Hash, NEW dropped \in SUBSET unreadable, NEW slot,
         UpdateDownloadList(unreadable, dropped, slot)
  PROVE  /\ \A o \in Object :
               torrent'[o] = NoTorrent \/ FromDisk(o, unreadable)
         /\ \A h \in Hash :
               \/ fileList'[h] = NoObject
               \/ /\ h \in Kept(unreadable) /\ fileList'[h] \in Object
                  /\ torrent'[fileList'[h]] = Reopened(h)
         /\ \A h \in Hash : Reopened(h) \in TorrentType
         /\ \A h \in Hash : config'[h] = config[h] \/ config'[h] = NoConfig
         /\ \A h \in Kept(unreadable) : config'[h] = config[h]
<1> DEFINE stored == Kept(unreadable)
<1>1. /\ slot \in [stored -> Object]
      /\ \A a, b \in stored : slot[a] = slot[b] => a = b
  BY DEF UpdateDownloadList, Kept, Injection, IsInjective
<1>2. torrent' = [o \in Object |->
                    IF \E h \in stored : slot[h] = o
                    THEN Reopened(CHOOSE h \in stored : slot[h] = o)
                    ELSE NoTorrent]
  BY DEF UpdateDownloadList, Kept
<1>3. fileList' = [h \in Hash |-> IF h \in stored THEN slot[h] ELSE NoObject]
  BY DEF UpdateDownloadList, Kept
<1>4. \A h \in stored : h \in Hash /\ (CHOOSE x \in stored : slot[x] = slot[h]) = h
  BY <1>1 DEF Kept
<1> HIDE DEF stored
<1>5. \A o \in Object :
         \/ torrent'[o] = NoTorrent
         \/ \E h \in stored : fileList'[h] = o /\ torrent'[o] = Reopened(h)
  <2> SUFFICES ASSUME NEW o \in Object, torrent'[o] # NoTorrent
               PROVE  \E h \in stored : fileList'[h] = o /\ torrent'[o] = Reopened(h)
    OBVIOUS
  <2>1. PICK h \in stored : slot[h] = o
    BY <1>2
  <2>2. torrent'[o] = Reopened(h)
    BY <1>2, <1>4, <2>1
  <2>3. QED
    BY <1>3, <1>4, <2>1, <2>2
<1>6. \A h \in stored : slot[h] \in Object /\ torrent'[slot[h]] = Reopened(h)
  BY <1>1, <1>2, <1>4
<1>7. \A h \in Hash : Reopened(h) \in TorrentType
  BY OpenedIsTyped DEF Reopened, TypeOK
<1>8. /\ \A h \in Hash : config'[h] = config[h] \/ config'[h] = NoConfig
      /\ \A h \in stored : config'[h] = config[h]
  BY DEF UpdateDownloadList, Without, Kept, stored
<1>9. \A h \in Hash :
         \/ fileList'[h] = NoObject
         \/ h \in stored /\ fileList'[h] \in Object /\ torrent'[fileList'[h]] = Reopened(h)
  BY <1>3, <1>6
<1>10. QED
  BY <1>5, <1>7, <1>8, <1>9 DEF stored, FromDisk

LEMMA StartTypes ==
  ASSUME TypeOK, NEW unreadable \in SUBSET Hash, NEW dropped \in SUBSET unreadable, NEW slot,
         UpdateDownloadList(unreadable, dropped, slot)
  PROVE  TypeOK'
<1>1. \A o \in Object : torrent'[o] \in TorrentType
  <2>1. Kept(unreadable) \subseteq Hash
    BY DEF Kept
  <2>2. \A o \in Object : torrent'[o] = NoTorrent \/ FromDisk(o, unreadable)
    BY StartOpens, Zenon
  <2>3. \A h \in Hash : Reopened(h) \in TorrentType
    BY StartOpens, Zenon
  <2>4. QED
    BY <2>1, <2>2, <2>3, NoTorrentIsTyped DEF FromDisk
<1>2. torrent' \in [Object -> TorrentType]
  <2>1. torrent' = [o \in Object |-> torrent'[o]]
    BY DEF UpdateDownloadList
  <2>2. QED
    BY <1>1, <2>1
<1>3. fileList' \in [Hash -> Object \cup {NoObject}]
  <2>1. \A h \in Hash : fileList'[h] \in Object \cup {NoObject}
    BY StartOpens
  <2>2. fileList' = [h \in Hash |-> fileList'[h]]
    BY DEF UpdateDownloadList
  <2>3. QED
    BY <2>1, <2>2
<1>4. config' \in [Hash -> ConfigType]
  <2>1. \A h \in Hash : config'[h] \in ConfigType
    BY StartOpens, NoConfigIsTyped DEF TypeOK, ConfigType
  <2>2. config' = [h \in Hash |-> config'[h]]
    BY DEF UpdateDownloadList, Without
  <2>3. QED
    BY <2>1, <2>2
<1>5. running' = TRUE /\ UNCHANGED <<disk, storing, telling, blocked, stops, readded, doubled>>
  BY DEF UpdateDownloadList
<1>6. QED
  BY <1>2, <1>3, <1>4, <1>5 DEF TypeOK, ConfigType

-----------------------------------------------------------------------------
(* Each action keeps the invariant.                                        *)
RestInv == SoundInv /\ StoringInv /\ ConfigInv /\ ListInv

LEMMA AppendKeeps ==
  ASSUME DiskInv, NEW h \in Hash, NEW o \in Object, NEW place \in Place,
         NEW pieces \in SUBSET Piece, Append(h, o, place, pieces)
  PROVE  RestInv'
<1> USE DEF DiskInv
<1>1. /\ running /\ running' = running /\ storing = {} /\ storing' = {}
      /\ doubled' = doubled
      /\ config' = [config EXCEPT ![h] = Written(pieces, place)]
      /\ fileList' = [fileList EXCEPT ![h] = o]
      /\ readded \subseteq readded'
      /\ config[h].kind = "written" => h \in readded'
      /\ \A x \in Object : x # o => torrent'[x] = torrent[x]
  BY DEF Append, Idle, TypeOK
<1>2. torrent'[o] = [live |-> TRUE, hash |-> h, place |-> place, pieces |-> pieces,
                     wanted |-> Piece \ pieces, total |-> SizeOf(pieces), buffer |-> {},
                     mIsReadonly |-> TRUE, writable |-> TRUE, linked |-> TRUE,
                     link |-> "down", going |-> FALSE]
  BY OpenedIsTyped DEF Append, TypeOK
<1>u. \A x \in Object : ~Untold(x)' /\ ~Untold(x)
  BY <1>1 DEF Untold
<1>3. /\ config'[h] = Written(pieces, place) /\ fileList'[h] = o
      /\ \A g \in Hash : g # h => config'[g] = config[g] /\ fileList'[g] = fileList[g]
  BY <1>1 DEF TypeOK
<1>4. SoundInv'
  <2> SUFFICES ASSUME NEW x \in Object, torrent'[x].live PROVE Sound(x)'
    BY DEF SoundInv, Sound
  <2>1. CASE x = o
    BY <1>1, <1>2, <1>3, <2>1 DEF Sound, Backed, Exact, Written
  <2>2. CASE x # o
    <3>1. torrent'[x] = torrent[x] /\ torrent[x].hash \in Hash /\ Sound(x)
      BY <1>1, <2>2 DEF SoundInv, TypeOK, TorrentType
    <3>2. CASE torrent[x].hash = h
      BY <1>1, <1>3, <1>u, <3>1, <3>2 DEF Sound, Backed, Exact, Written
    <3>3. CASE torrent[x].hash # h
      BY <1>1, <1>3, <1>u, <3>1, <3>3 DEF Sound, Backed, Exact
    <3>4. QED
      BY <3>2, <3>3
  <2>3. QED
    BY <2>1, <2>2
<1>5. StoringInv'
  BY <1>1 DEF StoringInv
<1>6. ConfigInv'
  BY <1>3 DEF ConfigInv, Written
<1>7. ListInv'
  <2> SUFFICES ASSUME NEW g \in Hash, fileList'[g] # NoObject PROVE Lists(g)'
    BY DEF ListInv
  <2>1. CASE g = h
    BY <1>2, <1>3, <2>1 DEF Lists
  <2>2. CASE g # h
    <3>1. fileList'[g] = fileList[g] /\ fileList[g] \in Object
      BY <1>3, <2>2 DEF TypeOK
    <3>2. Lists(g) /\ ~torrent[o].live
      BY <3>1 DEF ListInv, Append
    <3>3. QED
      BY <1>1, <3>1, <3>2 DEF Lists
  <2>3. QED
    BY <2>1, <2>2
<1>8. QED
  BY <1>4, <1>5, <1>6, <1>7 DEF RestInv

\* A piece that is stored for the first time keeps the total exact.
LEMMA SetFragExact ==
  ASSUME DiskInv, NEW o \in Object, NEW i \in Piece, SetFrag(o, i),
         torrent[o].hash \notin doubled'
  PROVE  Exact(o)' /\ torrent[o].writable /\ torrent[o].hash \notin doubled
<1> USE DEF DiskInv
<1>1. torrent[o] \in TorrentType
  BY DEF TypeOK
<1>2. i \notin torrent[o].pieces /\ torrent[o].hash \notin doubled
  BY SetFragFrame
<1>3. ~Untold(o) /\ torrent[o].live
  BY SetFragFrame DEF Untold
<1>4. Exact(o)
  BY <1>2, <1>3 DEF SoundInv, Sound
<1>5. torrent[o].writable /\ torrent[o].total # FileSize
  <2>1. torrent[o].pieces \in SUBSET Piece /\ torrent[o].pieces # Piece
    BY <1>1, <1>2 DEF TorrentType
  <2>2. SizeOf(torrent[o].pieces) # FileSize
    BY <2>1, SizeIsFull
  <2>3. QED
    BY <1>4, <2>1, <2>2 DEF Exact
<1>6. /\ torrent'[o].pieces = torrent[o].pieces \cup {i}
      /\ torrent'[o].total = torrent[o].total + PieceLen(i)
      /\ torrent'[o].writable = torrent[o].writable
      /\ torrent'[o].link = torrent[o].link
      /\ torrent'[o].mIsReadonly = torrent[o].mIsReadonly
  <2>1. PICK buffer : torrent'[o] = [torrent[o] EXCEPT !.buffer = buffer, !.pieces = @ \cup {i},
                                                       !.total = @ + PieceLen(i)]
    BY SetFragDoes
  <2>2. QED
    BY <1>1, <2>1 DEF TorrentType
<1>7. torrent'[o].total = SizeOf(torrent'[o].pieces)
  <2>1. torrent[o].pieces \in SUBSET Piece
    BY <1>1 DEF TorrentType
  <2>2. QED
    BY <1>2, <1>4, <1>6, <2>1, SizeAdds DEF Exact
<1>8. ~Untold(o)' => torrent'[o].total # FileSize
  BY <1>6, SetFragFrame DEF Untold
<1>9. torrent[o].link # "down" => ~torrent[o].mIsReadonly
  BY <1>3, <1>4, <1>5 DEF Exact, Fits
<1>10. QED
  BY <1>2, <1>5, <1>6, <1>7, <1>8, <1>9 DEF Exact, Fits

LEMMA SetFragKeeps ==
  ASSUME DiskInv, NEW o \in Object, NEW i \in Piece, SetFrag(o, i)
  PROVE  RestInv'
<1> USE DEF DiskInv
<1>1. /\ running /\ running' = running /\ storing = {} /\ storing' = {<<o, i>>}
      /\ config' = config /\ fileList' = fileList /\ readded' = readded
      /\ torrent[o].live /\ doubled \subseteq doubled'
  BY SetFragFrame
<1>2. \A x \in Object : x # o => torrent'[x] = torrent[x]
  BY SetFragDoes
<1>3. PICK buffer \in SUBSET {i} :
         /\ torrent'[o] = [torrent[o] EXCEPT !.buffer = buffer, !.pieces = @ \cup {i},
                                             !.total = @ + PieceLen(i)]
         /\ torrent[o].writable => i \in buffer \cup disk'[torrent[o].hash][torrent[o].place]
         /\ ~torrent[o].writable => buffer = {}
  BY SetFragDoes
<1>4. torrent[o] \in TorrentType
  BY DEF TypeOK
<1>5. /\ torrent'[o].live /\ torrent'[o].hash = torrent[o].hash
      /\ torrent'[o].place = torrent[o].place /\ torrent'[o].linked = torrent[o].linked
      /\ torrent'[o].going = torrent[o].going
      /\ torrent'[o].pieces = torrent[o].pieces \cup {i}
      /\ torrent'[o].buffer = buffer /\ torrent'[o].writable = torrent[o].writable
  BY <1>1, <1>3, <1>4 DEF TorrentType
<1>6. SoundInv'
  <2> SUFFICES ASSUME NEW x \in Object, torrent'[x].live PROVE Sound(x)'
    BY DEF SoundInv, Sound
  <2>1. CASE x = o
    <3>1. buffer = {} \/ \E j \in Piece : buffer = {j}
      OBVIOUS
    <3>2. {j \in Piece : <<o, j>> \in storing'} = {i} /\ {j \in Piece : <<o, j>> \in storing} = {}
      BY <1>1
    <3>3. Sound(o)
      BY DEF SoundInv
    <3>4. Backed(o) => Backed(o)'
      BY <1>1, <1>5, <3>2 DEF Backed
    <3>5. torrent[o].hash \notin doubled' => Exact(o)'
      BY SetFragExact
    <3>6. QED
      BY <1>1, <1>3, <1>5, <2>1, <3>1, <3>3, <3>4, <3>5 DEF Sound
  <2>2. CASE x # o
    <3>1. torrent'[x] = torrent[x] /\ Sound(x)
      BY <1>2, <2>2 DEF SoundInv
    <3>2. {j \in Piece : <<x, j>> \in storing'} = {j \in Piece : <<x, j>> \in storing}
      BY <1>1, <2>2
    <3>3. ~Untold(x)
      BY <1>1 DEF Untold
    <3>4. QED
      BY <1>1, <3>1, <3>2, <3>3 DEF Sound, Backed, Exact
  <2>3. QED
    BY <2>1, <2>2
<1>7. StoringInv'
  <2>1. torrent[o].hash \notin doubled' => torrent[o].writable
    BY SetFragExact
  <2>2. Stored(o, i)'
    BY <1>1, <1>3, <1>4, <1>5, <2>1 DEF Stored
  <2>3. QED
    BY <2>2 DEF StoringInv
<1>8. ConfigInv'
  BY <1>1 DEF ConfigInv
<1>9. ListInv'
  BY <1>1, <1>2, <1>5 DEF ListInv, Lists, TypeOK
<1>10. QED
  BY <1>6, <1>7, <1>8, <1>9 DEF RestInv

LEMMA SettleKeeps ==
  ASSUME DiskInv, NEW o \in Object, NEW buffer \in SUBSET Piece, NEW ro \in BOOLEAN,
         NEW rw \in BOOLEAN, NEW link \in Links, Settles(o, buffer, ro, rw, link)
  PROVE  RestInv'
<1> USE DEF DiskInv
<1>1. torrent[o] \in TorrentType
  BY DEF TypeOK
<1>2. /\ torrent[o].live /\ torrent'[o].live /\ torrent'[o].hash = torrent[o].hash
      /\ torrent'[o].place = torrent[o].place /\ torrent'[o].linked = torrent[o].linked
      /\ torrent'[o].pieces = torrent[o].pieces /\ torrent'[o].total = torrent[o].total
      /\ torrent'[o].going = torrent[o].going
      /\ torrent'[o].buffer = buffer /\ torrent'[o].mIsReadonly = ro
      /\ torrent'[o].writable = rw /\ torrent'[o].link = link
  BY <1>1 DEF Settles, TypeOK, TorrentType
<1>3. \A x \in Object : x # o => torrent'[x] = torrent[x]
  BY DEF Settles, TypeOK
<1>a. /\ running' = running /\ config' = config /\ fileList' = fileList
      /\ storing' = storing /\ readded' = readded /\ doubled' = doubled
  BY DEF Settles
<1>b. buffer = {} \/ buffer = torrent[o].buffer
  BY DEF Settles
<1>4. SoundInv'
  <2> SUFFICES ASSUME NEW x \in Object, torrent'[x].live PROVE Sound(x)'
    BY DEF SoundInv, Sound
  <2>1. Sound(x)
    BY DEF SoundInv
  <2>a. {j \in Piece : <<x, j>> \in storing'} = {j \in Piece : <<x, j>> \in storing}
    BY <1>a
  <2>2. CASE x = o
    <3>1. Backed(o) => Backed(o)'
      BY <1>2, <1>a, <2>2, <2>a DEF Backed
    <3>2. torrent[o].hash \notin doubled => Exact(o)'
      <4>1. torrent[o].hash \notin doubled => torrent[o].total = SizeOf(torrent[o].pieces)
        BY <1>2, <2>1, <2>2 DEF Sound, Exact
      <4>2. QED
        BY <1>2, <4>1 DEF Settles, Exact
    <3>3. rw \/ buffer = {}
      BY DEF Settles
    <3>4. QED
      BY <1>2, <1>a, <1>b, <2>1, <2>2, <3>1, <3>2, <3>3 DEF Sound
  <2>3. CASE x # o
    <3>1. Untold(x) => Untold(x)'
      <4>1. CASE telling' = telling
        BY <1>a, <4>1 DEF Untold
      <4>2. CASE \E i \in Piece : <<o, i>> \in storing
        BY <2>3, <4>2 DEF StoringInv, Stored, Untold
      <4>3. QED
        BY <4>1, <4>2 DEF Settles
    <3>2. QED
      BY <1>3, <1>a, <2>1, <2>a, <2>3, <3>1 DEF Sound, Backed, Exact
  <2>4. QED
    BY <2>2, <2>3
<1>5. StoringInv'
  <2>1. ASSUME NEW x \in Object, NEW i \in Piece, Stored(x, i) PROVE Stored(x, i)'
    <3>1. torrent[o].buffer \subseteq buffer \cup disk'[torrent[o].hash][torrent[o].place]
      BY FlushAdds DEF Settles
    <3>2. disk[torrent[x].hash][torrent[x].place] \subseteq disk'[torrent[x].hash][torrent[x].place]
      BY FlushAdds DEF Settles, TypeOK, TorrentType
    <3>3. CASE x = o
      BY <1>2, <1>a, <2>1, <3>1, <3>2, <3>3 DEF Stored
    <3>4. CASE x # o
      BY <1>3, <1>a, <2>1, <3>2, <3>4 DEF Stored
    <3>5. QED
      BY <3>3, <3>4
  <2>2. QED
    BY <1>a, <2>1 DEF StoringInv
<1>6. ConfigInv'
  BY <1>a DEF ConfigInv
<1>7. ListInv'
  BY <1>2, <1>3, <1>a DEF ListInv, Lists, TypeOK
<1>8. QED
  BY <1>4, <1>5, <1>6, <1>7 DEF RestInv

\* A change of the tracker's status, from the event loop or from the handler of
\* the last piece.
LEMMA StatusSettles ==
  ASSUME DiskInv, NEW o \in Object, NEW link \in Links,
         torrent[o].live, OnTrackerStatusChanged(o, link),
         telling' \in BOOLEAN,
         telling' = telling \/ \E i \in Piece : <<o, i>> \in storing,
         UNCHANGED <<running, config, fileList, storing, blocked, stops, readded, doubled>>
  PROVE  \E buffer \in SUBSET Piece, ro \in BOOLEAN, rw \in BOOLEAN :
            Settles(o, buffer, ro, rw, link)
<1> DEFINE t == torrent[o]
           complete == t.total = FileSize
<1>1. t \in TorrentType /\ TypeOK /\ Sound(o)
  BY DEF DiskInv, TypeOK, SoundInv
<1>2. t.hash \notin doubled => (complete => t.pieces = Piece)
  <2>1. t.pieces \in SUBSET Piece
    BY <1>1 DEF TorrentType
  <2>2. QED
    BY <1>1, <2>1, SizeIsFull DEF Sound, Exact
<1>3. CASE t.mIsReadonly # complete
  <2> DEFINE ro == complete
             rw == ~complete
  <2>1. /\ disk' = Flush(o)
        /\ torrent' = [torrent EXCEPT ![o].buffer = {}, ![o].mIsReadonly = ro,
                                      ![o].writable = rw, ![o].link = link]
    BY <1>3 DEF OnTrackerStatusChanged
  <2>2. ro \in BOOLEAN /\ rw \in BOOLEAN /\ {} \in SUBSET Piece
    OBVIOUS
  <2>3. torrent' = [torrent EXCEPT ![o] = [torrent[o] EXCEPT !.buffer = {}, !.mIsReadonly = ro,
                                                             !.writable = rw, !.link = link]]
    BY <1>1, <2>1 DEF TypeOK, TorrentType
  <2>4. Fits(ro, t.total)
    BY DEF Fits
  <2>5. t.hash \notin doubled => rw \/ t.pieces = Piece
    BY <1>2
  <2> HIDE DEF ro, rw
  <2>6. Settles(o, {}, ro, rw, link)
    BY <2>1, <2>3, <2>4, <2>5 DEF Settles
  <2>7. QED
    BY <2>2, <2>6
<1>4. CASE t.mIsReadonly = complete
  <2> DEFINE ro == t.mIsReadonly
             rw == t.writable
             buffer == t.buffer
  <2>1. disk' = disk /\ torrent' = [torrent EXCEPT ![o].link = link]
    BY <1>4 DEF OnTrackerStatusChanged
  <2>2. ro \in BOOLEAN /\ rw \in BOOLEAN /\ buffer \in SUBSET Piece
    BY <1>1 DEF TorrentType
  <2>3. torrent' = [torrent EXCEPT ![o] = [torrent[o] EXCEPT !.buffer = buffer,
                                 !.mIsReadonly = ro, !.writable = rw, !.link = link]]
    BY <1>1, <2>1 DEF TypeOK, TorrentType
  <2>4. Fits(ro, t.total)
    BY <1>4 DEF Fits
  <2>5. (t.hash \notin doubled => rw \/ t.pieces = Piece) /\ (rw \/ buffer = {})
    BY <1>1 DEF Sound, Exact
  <2>6. Settles(o, buffer, ro, rw, link)
    <3> HIDE DEF ro, rw
    <3>1. QED
      BY <2>1, <2>3, <2>4, <2>5 DEF Settles
  <2>7. QED
    BY <2>2, <2>6
<1>5. QED
  BY <1>3, <1>4

LEMMA ReportSettles ==
  ASSUME DiskInv, NEW o \in Object, Report(o)
  PROVE  \E buffer \in SUBSET Piece, ro \in BOOLEAN, rw \in BOOLEAN, link \in Links :
            Settles(o, buffer, ro, rw, link)
<1> DEFINE link == IF torrent[o].link = "awaiting" THEN "active" ELSE "awaiting"
<1>1. link \in Links /\ OnTrackerStatusChanged(o, link) /\ torrent[o].live
  BY DEF Links, Report
<1>2. /\ storing = {} /\ telling' = telling /\ telling' \in BOOLEAN
      /\ UNCHANGED <<running, config, fileList, storing, blocked, stops, readded, doubled>>
  BY DEF Report, Idle, DiskInv, TypeOK
<1> HIDE DEF link
<1>3. QED
  BY <1>1, <1>2, StatusSettles

\* Telling the tracker of the completion, unless it never returns.
LEMMA CompleteSettles ==
  ASSUME DiskInv, NEW o \in Object, NEW i \in Piece, CompleteRequest(o, i),
         torrent[o].link # "awaiting"
  PROVE  \E buffer \in SUBSET Piece, ro \in BOOLEAN, rw \in BOOLEAN, link \in Links :
            Settles(o, buffer, ro, rw, link)
<1>1. /\ <<o, i>> \in storing /\ telling' = FALSE /\ torrent[o].live
      /\ UNCHANGED <<running, config, fileList, storing, blocked, stops, readded, doubled>>
  <2>1. <<o, i>> \in storing
    BY DEF CompleteRequest
  <2>2. torrent[o].live
    BY <2>1 DEF DiskInv, StoringInv, Stored
  <2>3. QED
    BY <2>1, <2>2 DEF CompleteRequest
<1>2. torrent[o] \in TorrentType /\ Sound(o) /\ TypeOK
  BY DEF DiskInv, TypeOK, SoundInv
<1>3. CASE torrent[o].link = "active"
  <2>1. OnTrackerStatusChanged(o, "awaiting") /\ "awaiting" \in Links
    BY <1>3 DEF CompleteRequest, Links
  <2>2. QED
    BY <1>1, <2>1, StatusSettles
<1>4. CASE torrent[o].link = "down"
  <2> DEFINE ro == torrent[o].mIsReadonly
             rw == torrent[o].writable
             buffer == torrent[o].buffer
  <2>1. ro \in BOOLEAN /\ rw \in BOOLEAN /\ buffer \in SUBSET Piece /\ "down" \in Links
    BY <1>2 DEF TorrentType, Links
  <2>2. disk' = disk /\ torrent' = torrent
    BY <1>4 DEF CompleteRequest
  <2>3. torrent' = [torrent EXCEPT ![o] = [torrent[o] EXCEPT !.buffer = buffer,
                                 !.mIsReadonly = ro, !.writable = rw, !.link = "down"]]
    BY <1>2, <1>4, <2>2 DEF TypeOK, TorrentType
  <2>4. (torrent[o].hash \notin doubled => rw \/ torrent[o].pieces = Piece) /\ (rw \/ buffer = {})
    BY <1>1, <1>2 DEF Sound, Exact
  <2>5. Settles(o, buffer, ro, rw, "down")
    <3> HIDE DEF ro, rw
    <3>1. QED
      BY <1>1, <2>2, <2>3, <2>4 DEF Settles
  <2>6. QED
    BY <2>1, <2>5
<1>5. QED
  BY <1>2, <1>3, <1>4 DEF TorrentType

\* Losing the connection, or reading for a peer: neither reopens the file.
LEMMA LostSettles ==
  ASSUME DiskInv, NEW o \in Object, Lost(o) \/ \E i \in Piece : Upload(o, i)
  PROVE  \E buffer \in SUBSET Piece, ro \in BOOLEAN, rw \in BOOLEAN, link \in Links :
            Settles(o, buffer, ro, rw, link)
<1> DEFINE ro == torrent[o].mIsReadonly
           rw == torrent[o].writable
<1>1. torrent[o] \in TorrentType /\ Sound(o) /\ TypeOK
  BY DEF DiskInv, TypeOK, SoundInv
<1>2. /\ ro \in BOOLEAN /\ rw \in BOOLEAN /\ torrent[o].buffer \in SUBSET Piece
      /\ torrent[o].link \in Links /\ "down" \in Links /\ {} \in SUBSET Piece
  BY <1>1 DEF TorrentType, Links
<1>3. /\ torrent[o].live /\ storing = {} /\ telling' = telling /\ telling' \in BOOLEAN
      /\ UNCHANGED <<running, config, fileList, storing, blocked, stops, readded, doubled>>
  BY <1>1 DEF Lost, Upload, Idle, TypeOK
<1>4. ~Untold(o)
  BY <1>3 DEF Untold
<1>5. /\ torrent[o].hash \notin doubled => Exact(o)
      /\ rw \/ torrent[o].buffer = {}
  BY <1>1, <1>3 DEF Sound
<1>6. CASE Lost(o)
  <2>1. disk' = disk /\ torrent' = [torrent EXCEPT ![o].link = "down"]
    BY <1>6 DEF Lost
  <2>2. torrent' = [torrent EXCEPT ![o] = [torrent[o] EXCEPT !.buffer = torrent[o].buffer,
                                 !.mIsReadonly = ro, !.writable = rw, !.link = "down"]]
    BY <1>1, <2>1 DEF TypeOK, TorrentType
  <2>3. torrent[o].hash \notin doubled => rw \/ torrent[o].pieces = Piece
    BY <1>5 DEF Exact
  <2> HIDE DEF ro, rw
  <2>4. Settles(o, torrent[o].buffer, ro, rw, "down")
    BY <1>3, <1>5, <2>1, <2>2, <2>3 DEF Settles
  <2>5. QED
    BY <1>2, <2>4
<1>7. CASE \E i \in Piece : Upload(o, i)
  <2> DEFINE link == torrent[o].link
  <2>1. disk' = Flush(o) /\ torrent' = [torrent EXCEPT ![o].buffer = {}]
    BY <1>7 DEF Upload
  <2>2. torrent' = [torrent EXCEPT ![o] = [torrent[o] EXCEPT !.buffer = {},
                                 !.mIsReadonly = ro, !.writable = rw, !.link = link]]
    BY <1>1, <2>1 DEF TypeOK, TorrentType
  <2>3. torrent[o].hash \notin doubled =>
           /\ rw \/ torrent[o].pieces = Piece
           /\ link # "down" => Fits(ro, torrent[o].total)
    BY <1>4, <1>5 DEF Exact
  <2>4. link \in Links
    BY <1>2
  <2> HIDE DEF ro, rw, link
  <2>5. Settles(o, {}, ro, rw, link)
    BY <1>3, <2>1, <2>2, <2>3 DEF Settles
  <2>6. QED
    BY <1>2, <2>4, <2>5
<1>8. QED
  BY <1>6, <1>7

\* The end of a handler makes the bitmap on disk that of the object.
LEMMA UpdatePageDoes ==
  ASSUME DiskInv, NEW o \in Object, NEW i \in Piece, UpdatePage(o, i)
  PROVE  /\ Stored(o, i)
         /\ \A h \in Hash : h # torrent[o].hash => config'[h] = config[h]
         /\ LET h == torrent[o].hash
            IN  \/ /\ torrent[o].linked /\ ~torrent[o].going
                   /\ config'[h].kind = "written" /\ config[h].kind = "written"
                   /\ config'[h].place = config[h].place
                   /\ h \notin readded => /\ config[h].pieces \subseteq torrent[o].pieces
                                          /\ torrent[o].pieces \ config[h].pieces \subseteq {i}
                                          /\ config'[h].pieces = torrent[o].pieces
                \/ config' = config /\ ~torrent[o].linked
<1> USE DEF DiskInv
<1> DEFINE h == torrent[o].hash
<1>1. torrent[o] \in TorrentType /\ h \in Hash
  BY DEF TypeOK, TorrentType
<1>2. Stored(o, i)
  BY DEF UpdatePage, StoringInv, Stored
<1>3. {j \in Piece : <<o, j>> \in storing} = {i}
  BY <1>2 DEF Stored
<1>4. Sound(o) /\ torrent[o].live
  BY <1>2 DEF SoundInv, Stored
<1>5. CASE torrent[o].linked
  <2>1. config' = [config EXCEPT ![h].pieces = (@ \ PageOf(i)) \cup Page(o, i)]
    BY <1>5 DEF UpdatePage
  <2>2. config'[h] = [config[h] EXCEPT !.pieces = (@ \ PageOf(i)) \cup Page(o, i)]
    BY <2>1, <1>1 DEF TypeOK
  <2>3. /\ config'[h].kind = config[h].kind /\ config'[h].place = config[h].place
        /\ config'[h].pieces = (config[h].pieces \ PageOf(i)) \cup Page(o, i)
    BY <2>2, <1>1 DEF TypeOK
  <2>4. config[h].kind = "written" /\ ~torrent[o].going
    BY <1>4, <1>5 DEF Sound
  <2>5. h \notin readded => /\ config[h].pieces \subseteq torrent[o].pieces
                            /\ torrent[o].pieces \ config[h].pieces \subseteq {i}
    BY <1>3, <1>4, <2>4 DEF Sound, Backed
  <2>6. i \in PageOf(i) /\ i \in torrent[o].pieces
    BY <1>2 DEF PageOf, Stored
  <2>7. h \notin readded => config'[h].pieces = torrent[o].pieces
    <3>1. torrent[o].pieces \subseteq Piece
      BY <1>1 DEF TorrentType
    <3>2. QED
      BY <2>3, <2>5, <2>6, <3>1 DEF Page
  <2>8. \A g \in Hash : g # h => config'[g] = config[g]
    BY <2>1 DEF TypeOK
  <2>9. QED
    BY <1>2, <1>5, <2>3, <2>4, <2>5, <2>7, <2>8
<1>6. CASE ~torrent[o].linked
  BY <1>2, <1>6 DEF UpdatePage
<1>7. QED
  BY <1>5, <1>6

LEMMA UpdatePageKeeps ==
  ASSUME DiskInv, NEW o \in Object, NEW i \in Piece, UpdatePage(o, i)
  PROVE  RestInv'
<1> USE DEF DiskInv
<1>1. /\ running' = running /\ storing' = {} /\ storing = {<<o, i>>} /\ ~telling
      /\ torrent' = torrent /\ fileList' = fileList /\ readded' = readded /\ doubled' = doubled
  BY UpdatePageDoes DEF UpdatePage, Stored
<1>2. SoundInv'
  <2> SUFFICES ASSUME NEW x \in Object, torrent[x].live PROVE Sound(x)'
    BY <1>1 DEF SoundInv, Sound
  <2>1. Sound(x) /\ torrent[x].hash \in Hash /\ torrent[x] \in TorrentType
    BY DEF SoundInv, TypeOK, TorrentType
  <2>e. Exact(x) => Exact(x)'
    BY <1>1 DEF Exact, Untold
  <2>2. CASE x = o
    <3>1. torrent[o].hash \notin readded /\ ~torrent[o].going => Backed(o)'
      BY <1>1, <2>1, <2>2, UpdatePageDoes DEF Sound, Backed
    <3>2. torrent[o].linked => config'[torrent[o].hash].kind = "written"
      BY UpdatePageDoes
    <3>3. QED
      BY <1>1, <2>1, <2>e, <2>2, <3>1, <3>2 DEF Sound
  <2>3. CASE x # o
    <3>1. {j \in Piece : <<x, j>> \in storing'} = {j \in Piece : <<x, j>> \in storing}
      BY <1>1, <2>3
    <3>2. config'[torrent[x].hash].kind = config[torrent[x].hash].kind
      BY <2>1, UpdatePageDoes
    <3>3. torrent[x].hash \notin readded /\ ~torrent[x].going
             => config'[torrent[x].hash] = config[torrent[x].hash]
      <4> SUFFICES ASSUME torrent[x].hash \notin readded, ~torrent[x].going,
                          config'[torrent[x].hash] # config[torrent[x].hash]
                   PROVE  FALSE
        OBVIOUS
      <4>1. torrent[o].linked /\ ~torrent[o].going /\ torrent[x].hash = torrent[o].hash
        BY <2>1, UpdatePageDoes
      <4>2. Sound(o) /\ torrent[o].live
        BY UpdatePageDoes DEF SoundInv, Stored
      <4>3. QED
        BY <2>1, <2>3, <4>1, <4>2 DEF Sound, Backed
    <3>4. torrent[x].hash \notin readded /\ ~torrent[x].going => Backed(x)'
      BY <1>1, <2>1, <3>1, <3>3 DEF Sound, Backed
    <3>5. QED
      BY <1>1, <2>1, <2>e, <3>2, <3>4 DEF Sound
  <2>4. QED
    BY <2>2, <2>3
<1>3. StoringInv' /\ ListInv'
  BY <1>1 DEF StoringInv, ListInv, Lists
<1>4. ConfigInv'
  <2> SUFFICES ASSUME NEW h \in Hash, config'[h].kind # "written" PROVE config'[h].pieces = {}
    BY DEF ConfigInv
  <2>1. config'[h] = config[h]
    BY UpdatePageDoes
  <2>2. QED
    BY <2>1 DEF ConfigInv
<1>5. QED
  BY <1>2, <1>3, <1>4 DEF RestInv

LEMMA RemoveKeeps ==
  ASSUME DiskInv, NEW h \in Hash, Remove(h)
  PROVE  RestInv'
<1> USE DEF DiskInv
<1>1. /\ running /\ running' = running /\ storing = {} /\ storing' = {}
      /\ readded' = readded /\ doubled' = doubled
      /\ config' = [config EXCEPT ![h] = NoConfig]
      /\ fileList' = [fileList EXCEPT ![h] = NoObject] /\ fileList[h] # NoObject
  BY DEF Remove, Idle
<1>2. /\ config'[h] = NoConfig /\ fileList'[h] = NoObject
      /\ \A g \in Hash : g # h => config'[g] = config[g] /\ fileList'[g] = fileList[g]
  BY <1>1 DEF TypeOK
<1>3. torrent[fileList[h]].live /\ torrent[fileList[h]].hash = h /\ fileList[h] \in Object
  BY <1>1 DEF ListInv, Lists, TypeOK
<1>4. \A x \in Object :
         /\ torrent[x] \in TorrentType
         /\ \/ /\ torrent[x].live /\ torrent[x].hash = h /\ x = fileList[h]
               /\ torrent'[x] = [torrent[x] EXCEPT !.linked = FALSE, !.going = TRUE]
            \/ /\ torrent[x].live /\ torrent[x].hash = h /\ x # fileList[h]
               /\ torrent'[x] = [torrent[x] EXCEPT !.linked = FALSE]
            \/ torrent'[x] = torrent[x] /\ (torrent[x].live => torrent[x].hash # h)
  <2> TAKE x \in Object
  <2>1. torrent[x] \in TorrentType
    BY DEF TypeOK
  <2>2. torrent'[x] = IF x = fileList[h]
                      THEN [torrent[x] EXCEPT !.linked = FALSE, !.going = TRUE]
                      ELSE IF torrent[x].live /\ torrent[x].hash = h
                           THEN [torrent[x] EXCEPT !.linked = FALSE]
                           ELSE torrent[x]
    BY DEF Remove
  <2>3. CASE x = fileList[h]
    BY <1>3, <2>1, <2>2, <2>3
  <2>4. CASE x # fileList[h] /\ torrent[x].live /\ torrent[x].hash = h
    BY <2>1, <2>2, <2>4
  <2>5. CASE x # fileList[h] /\ ~(torrent[x].live /\ torrent[x].hash = h)
    BY <2>1, <2>2, <2>5
  <2>6. QED
    BY <2>3, <2>4, <2>5
<1>5. SoundInv'
  <2> SUFFICES ASSUME NEW x \in Object, torrent'[x].live PROVE Sound(x)'
    BY DEF SoundInv, Sound
  <2>e. ~Untold(x) /\ ~Untold(x)'
    BY <1>1 DEF Untold
  <2>1. CASE /\ torrent[x].live /\ torrent[x].hash = h /\ x = fileList[h]
             /\ torrent'[x] = [torrent[x] EXCEPT !.linked = FALSE, !.going = TRUE]
    <3>1. Sound(x) /\ torrent[x] \in TorrentType
      BY <1>4 DEF SoundInv
    <3>2. /\ torrent'[x].going /\ ~torrent'[x].linked /\ torrent'[x].hash = h
          /\ torrent'[x].pieces = torrent[x].pieces /\ torrent'[x].total = torrent[x].total
          /\ torrent'[x].buffer = torrent[x].buffer /\ torrent'[x].link = torrent[x].link
          /\ torrent'[x].writable = torrent[x].writable
          /\ torrent'[x].mIsReadonly = torrent[x].mIsReadonly
      BY <2>1, <3>1 DEF TorrentType
    <3>3. QED
      BY <1>1, <2>1, <2>e, <3>1, <3>2 DEF Sound, Exact
  <2>2. CASE /\ torrent[x].live /\ torrent[x].hash = h /\ x # fileList[h]
             /\ torrent'[x] = [torrent[x] EXCEPT !.linked = FALSE]
    <3>1. Sound(x) /\ torrent[x] \in TorrentType
      BY <1>4 DEF SoundInv
    <3>2. h \in readded \/ torrent[x].going
      BY <2>2, <3>1 DEF Sound, Backed
    <3>3. /\ torrent'[x].going = torrent[x].going /\ ~torrent'[x].linked /\ torrent'[x].hash = h
          /\ torrent'[x].pieces = torrent[x].pieces /\ torrent'[x].total = torrent[x].total
          /\ torrent'[x].buffer = torrent[x].buffer /\ torrent'[x].link = torrent[x].link
          /\ torrent'[x].writable = torrent[x].writable
          /\ torrent'[x].mIsReadonly = torrent[x].mIsReadonly
      BY <2>2, <3>1 DEF TorrentType
    <3>4. QED
      BY <1>1, <2>2, <2>e, <3>1, <3>2, <3>3 DEF Sound, Exact
  <2>3. CASE torrent'[x] = torrent[x] /\ (torrent[x].live => torrent[x].hash # h)
    <3>1. Sound(x) /\ torrent[x].hash \in Hash
      BY <1>4 DEF SoundInv, TorrentType
    <3>2. {j \in Piece : <<x, j>> \in storing'} = {j \in Piece : <<x, j>> \in storing}
      BY <1>1
    <3>3. QED
      BY <1>1, <1>2, <2>e, <2>3, <3>1, <3>2 DEF Sound, Backed, Exact
  <2>4. QED
    BY <1>4, <2>1, <2>2, <2>3
<1>6. StoringInv'
  BY <1>1 DEF StoringInv
<1>7. ConfigInv'
  BY <1>2, NoConfigIsTyped DEF ConfigInv
<1>8. ListInv'
  <2> SUFFICES ASSUME NEW g \in Hash, fileList'[g] # NoObject PROVE Lists(g)'
    BY DEF ListInv
  <2>1. g # h /\ fileList'[g] = fileList[g] /\ fileList[g] \in Object
    BY <1>2 DEF TypeOK
  <2>2. Lists(g)
    BY <2>1 DEF ListInv
  <2>3. torrent'[fileList[g]] = torrent[fileList[g]]
    BY <1>3, <1>4, <2>1, <2>2 DEF Lists
  <2>4. QED
    BY <2>1, <2>2, <2>3 DEF Lists
<1>9. QED
  BY <1>5, <1>6, <1>7, <1>8 DEF RestInv

LEMMA DestroyKeeps ==
  ASSUME DiskInv, NEW o \in Object, Destroy(o)
  PROVE  RestInv'
<1> USE DEF DiskInv
<1>1. /\ storing = {} /\ torrent[o].going
      /\ UNCHANGED <<running, config, disk, fileList, storing, telling, readded, doubled>>
  BY DEF Destroy, Idle
<1>2. \A x \in Object : torrent'[x] = torrent[x] \/ (x = o /\ torrent'[x] = NoTorrent)
  BY DEF Destroy, TypeOK
<1>3. SoundInv'
  <2> SUFFICES ASSUME NEW x \in Object, torrent'[x].live PROVE Sound(x)'
    BY DEF SoundInv, Sound
  <2>1. torrent'[x] = torrent[x] /\ Sound(x)
    BY <1>2, NoTorrentIsTyped DEF SoundInv
  <2>2. QED
    BY <1>1, <2>1 DEF Sound, Backed, Exact, Untold
<1>4. StoringInv' /\ ConfigInv'
  BY <1>1 DEF StoringInv, ConfigInv
<1>5. ListInv'
  <2> SUFFICES ASSUME NEW g \in Hash, fileList[g] # NoObject PROVE Lists(g)'
    BY <1>1 DEF ListInv
  <2>1. Lists(g) /\ fileList[g] \in Object
    BY DEF ListInv, TypeOK
  <2>2. torrent'[fileList[g]] = torrent[fileList[g]]
    BY <1>1, <1>2, <2>1 DEF Lists
  <2>3. QED
    BY <1>1, <2>1, <2>2 DEF Lists
<1>6. QED
  BY <1>3, <1>4, <1>5 DEF RestInv

LEMMA StopKeeps ==
  ASSUME DiskInv, AllGone, NEW h \in Hash, config' \in {config, [config EXCEPT ![h] = Blank]}
  PROVE  RestInv'
<1> USE DEF DiskInv
<1>1. /\ storing' = {} /\ \A x \in Object : torrent'[x] = NoTorrent
      /\ \A g \in Hash : fileList'[g] = NoObject
  BY DEF AllGone
<1>2. SoundInv'
  BY <1>1, NoTorrentIsTyped DEF SoundInv, Sound
<1>3. StoringInv' /\ ListInv'
  BY <1>1 DEF StoringInv, ListInv
<1>4. \A g \in Hash : config'[g] = config[g] \/ config'[g] = Blank
  BY DEF TypeOK
<1>5. ConfigInv'
  BY <1>4, NoConfigIsTyped DEF ConfigInv
<1>6. QED
  BY <1>2, <1>3, <1>5 DEF RestInv

\* While the program does not run there are no objects.
LEMMA NothingRuns ==
  ASSUME DiskInv, ~running
  PROVE  storing = {} /\ \A x \in Object : ~torrent[x].live
<1>1. \A x \in Object : ~torrent[x].live
  BY DEF DiskInv, SoundInv, Sound
<1>2. QED
  BY <1>1 DEF DiskInv, StoringInv, Stored

LEMMA StartKeeps ==
  ASSUME DiskInv, NEW unreadable \in SUBSET Hash, NEW dropped \in SUBSET unreadable, NEW slot,
         UpdateDownloadList(unreadable, dropped, slot)
  PROVE  RestInv'
<1> USE DEF DiskInv
<1>t. TypeOK
  OBVIOUS
<1>1. /\ running' /\ storing' = {} /\ readded' = readded /\ doubled' = doubled
  BY NothingRuns DEF UpdateDownloadList
<1>2. \A h \in Hash :
         /\ config[h].pieces \in SUBSET Piece
         /\ Reopened(h) = [live |-> TRUE, hash |-> h, place |-> config[h].place,
                           pieces |-> config[h].pieces, wanted |-> Piece \ config[h].pieces,
                           total |-> SizeOf(config[h].pieces), buffer |-> {},
                           mIsReadonly |-> TRUE, writable |-> TRUE, linked |-> TRUE,
                           link |-> "down", going |-> FALSE]
  BY OpenedIsTyped DEF Reopened, TypeOK
<1>3. SoundInv'
  <2> SUFFICES ASSUME NEW x \in Object, torrent'[x].live PROVE Sound(x)'
    BY DEF SoundInv, Sound
  <2>1. PICK h \in Kept(unreadable) : fileList'[h] = x /\ torrent'[x] = Reopened(h)
    <3>1. torrent'[x] = NoTorrent \/ FromDisk(x, unreadable)
      BY StartOpens, <1>t, Zenon
    <3>2. QED
      BY <3>1, NoTorrentIsTyped DEF FromDisk
  <2>2. h \in Hash /\ config[h].kind = "written" /\ config'[h] = config[h]
    BY StartOpens DEF Kept
  <2>3. {j \in Piece : <<x, j>> \in storing'} = {}
    BY <1>1
  <2>4. QED
    BY <1>1, <1>2, <2>1, <2>2, <2>3 DEF Sound, Backed, Exact
<1>4. StoringInv'
  BY <1>1 DEF StoringInv
<1>5. ConfigInv'
  BY StartOpens, NoConfigIsTyped DEF ConfigInv
<1>6. ListInv'
  <2>1. \A h \in Hash :
           \/ fileList'[h] = NoObject
           \/ /\ h \in Kept(unreadable) /\ fileList'[h] \in Object
              /\ torrent'[fileList'[h]] = Reopened(h)
    BY StartOpens, <1>t, Zenon
  <2>2. QED
    BY <1>2, <2>1 DEF ListInv, Lists
<1>7. QED
  BY <1>3, <1>4, <1>5, <1>6 DEF RestInv

LEMMA StepDisk ==
  ASSUME DiskInv, [Next]_vars
  PROVE  DiskInv'
<1> SUFFICES TypeOK' /\ RestInv'
  BY DEF DiskInv, RestInv
<1>t. TypeOK
  BY DEF DiskInv
<1>1. ASSUME NEW h \in Hash, NEW o \in Object, NEW p \in Place,
             DownloadFile(h, o, p) \/ OnFileCreated(h, o, p)
      PROVE  TypeOK' /\ RestInv'
  <2>1. PICK pieces \in SUBSET Piece : Append(h, o, p, pieces)
    <3>1. {} \in SUBSET Piece /\ Piece \in SUBSET Piece
      OBVIOUS
    <3>2. QED
      BY <1>1, <3>1 DEF DownloadFile, OnFileCreated
  <2>2. QED
    BY <1>t, <2>1, AppendTypes, AppendKeeps
<1>2. ASSUME NEW o \in Object, NEW i \in Piece, SetFrag(o, i)
      PROVE  TypeOK' /\ RestInv'
  BY <1>t, <1>2, SetFragTypes, SetFragKeeps
<1>3. ASSUME NEW o \in Object, NEW i \in Piece, UpdatePage(o, i)
      PROVE  TypeOK' /\ RestInv'
  BY <1>t, <1>3, UpdatePageTypes, UpdatePageKeeps
<1>4. ASSUME NEW o \in Object, NEW buffer \in SUBSET Piece, NEW ro \in BOOLEAN,
             NEW rw \in BOOLEAN, NEW link \in Links, Settles(o, buffer, ro, rw, link)
      PROVE  TypeOK' /\ RestInv'
  BY <1>t, <1>4, SettleTypes, SettleKeeps
<1>5. ASSUME NEW o \in Object, Report(o) \/ Lost(o) \/ \E i \in Piece : Upload(o, i)
      PROVE  TypeOK' /\ RestInv'
  BY <1>4, <1>5, ReportSettles, LostSettles
<1>b. ASSUME UNCHANGED <<running, config, disk, torrent, fileList, storing, telling, stops,
                         readded, doubled>>,
             blocked' \in BOOLEAN
      PROVE  TypeOK' /\ RestInv'
  <2>1. TypeOK'
    BY <1>t, <1>b DEF TypeOK
  <2>2. SoundInv'
    BY <1>b DEF DiskInv, SoundInv, Sound, Backed, Exact, Untold
  <2>3. StoringInv'
    BY <1>b DEF DiskInv, StoringInv, Stored
  <2>4. ConfigInv' /\ ListInv'
    BY <1>b DEF DiskInv, ConfigInv, ListInv, Lists
  <2>5. QED
    BY <2>1, <2>2, <2>3, <2>4 DEF RestInv
<1>c. ASSUME NEW o \in Object, NEW i \in Piece, CompleteRequest(o, i)
      PROVE  TypeOK' /\ RestInv'
  <2>1. CASE torrent[o].link = "awaiting"
    BY <1>b, <1>c, <2>1 DEF CompleteRequest
  <2>2. CASE torrent[o].link # "awaiting"
    BY <1>4, <1>c, <2>2, CompleteSettles
  <2>3. QED
    BY <2>1, <2>2
<1>d. ASSUME NEW o \in Object, Destroy(o)
      PROVE  TypeOK' /\ RestInv'
  BY <1>t, <1>d, DestroyTypes, DestroyKeeps
<1>6. ASSUME NEW h \in Hash, Remove(h)
      PROVE  TypeOK' /\ RestInv'
  BY <1>t, <1>6, RemoveTypes, RemoveKeeps
<1>7. ASSUME AllGone, NEW h \in Hash, config' \in {config, [config EXCEPT ![h] = Blank]}
      PROVE  TypeOK' /\ RestInv'
  <2>1. config' \in [Hash -> ConfigType]
    BY <1>t, <1>7, NoConfigIsTyped DEF TypeOK, ConfigType
  <2>2. QED
    BY <1>t, <1>7, <2>1, StopTypes, StopKeeps
<1>8. ASSUME NEW unreadable \in SUBSET Hash, NEW dropped \in SUBSET unreadable, NEW slot,
             UpdateDownloadList(unreadable, dropped, slot)
      PROVE  TypeOK' /\ RestInv'
  BY <1>t, <1>8, StartTypes, StartKeeps
<1>9. CASE UNCHANGED vars
  <2>1. blocked' \in BOOLEAN
    BY <1>t, <1>9 DEF vars, TypeOK
  <2>2. QED
    BY <1>b, <1>9, <2>1 DEF vars
<1>10. QED
  <2>1. CASE Stop
    BY <1>7, <2>1, StoreAssumption DEF Stop
  <2>2. ASSUME NEW h \in Hash, StopInWrite(h) PROVE TypeOK' /\ RestInv'
    BY <1>7, <2>2 DEF StopInWrite
  <2>3. QED
    BY <1>1, <1>2, <1>3, <1>5, <1>6, <1>8, <1>9, <1>c, <1>d, <2>1, <2>2 DEF Next

-----------------------------------------------------------------------------
(* The pieces that are claimed and missing.                                *)

\* Piece i of torrent h is in its file in directory p, or on its way there.
Held(h, p, i) ==
    \/ i \in disk[h][p]
    \/ \E x \in Object : /\ torrent[x].live /\ ~torrent[x].going
                         /\ torrent[x].hash = h /\ torrent[x].place = p
                         /\ i \in torrent[x].buffer

LEMMA MissingIs ==
  ASSUME NEW h
  PROVE  /\ \A p, i : p = config[h].place =>
               (i \in Missing(h) <=> i \in config[h].pieces /\ ~Held(h, p, i))
         /\ \A p, i : p = config'[h].place =>
               (i \in Missing(h)' <=> i \in config'[h].pieces /\ ~Held(h, p, i)')
<1>1. ASSUME NEW p, NEW i, p = config[h].place
      PROVE  i \in Missing(h) <=> i \in config[h].pieces /\ ~Held(h, p, i)
  BY <1>1 DEF Missing, InBuffers, Held
<1>2. ASSUME NEW p, NEW i, p = config'[h].place
      PROVE  i \in Missing(h)' <=> i \in config'[h].pieces /\ ~Held(h, p, i)'
  BY <1>2 DEF Missing, InBuffers, Held
<1>3. QED
  BY <1>1, <1>2

LEMMA Fewer ==
  ASSUME NEW S \in SUBSET Piece, NEW T \in SUBSET S, NEW n \in Nat, Cardinality(S) <= n
  PROVE  Cardinality(T) <= n
<1>1. IsFiniteSet(S)
  BY Sizes
<1>2. Cardinality(T) \in Nat /\ Cardinality(S) \in Nat /\ Cardinality(T) <= Cardinality(S)
  BY <1>1, FS_Subset, FS_CardinalityType
<1>3. QED
  BY <1>2

LEMMA OneMore ==
  ASSUME NEW S \in SUBSET Piece, NEW i, NEW T \in SUBSET (S \cup {i}), NEW n \in Nat,
         Cardinality(S) <= n
  PROVE  Cardinality(T) <= n + 1
<1>1. IsFiniteSet(S)
  BY Sizes
<1>2. IsFiniteSet(S \cup {i}) /\ Cardinality(S \cup {i}) <= n + 1
  <2>1. Cardinality(S) \in Nat
    BY <1>1, FS_CardinalityType
  <2>2. /\ IsFiniteSet(S \cup {i})
        /\ Cardinality(S \cup {i}) = IF i \in S THEN Cardinality(S) ELSE Cardinality(S) + 1
    BY <1>1, FS_AddElement
  <2>3. QED
    BY <2>1, <2>2
<1>3. Cardinality(T) \in Nat /\ Cardinality(T) <= Cardinality(S \cup {i})
      /\ Cardinality(S \cup {i}) \in Nat
  BY <1>2, FS_Subset, FS_CardinalityType
<1>4. QED
  BY <1>2, <1>3

\* Torrent h does not come to miss a piece.
NoWorse(h) == Missing(h)' \subseteq Missing(h)
NoneLost(h) == \A p \in Place : \A i : Held(h, p, i) => Held(h, p, i)'

LEMMA KeptClaims ==
  ASSUME TypeOK, NEW h \in Hash, config'[h] = config[h], NoneLost(h)
  PROVE  NoWorse(h)
<1> SUFFICES ASSUME NEW i \in Missing(h)' PROVE i \in Missing(h)
  BY DEF NoWorse
<1>1. PICK p \in Place : p = config[h].place /\ p = config'[h].place
  BY DEF TypeOK
<1>2. i \in config'[h].pieces /\ ~Held(h, p, i)'
  BY <1>1, MissingIs
<1>3. ~Held(h, p, i)
  BY <1>1, <1>2 DEF NoneLost
<1>4. QED
  BY <1>1, <1>2, <1>3, MissingIs

LEMMA NoClaims ==
  ASSUME NEW h \in Hash, config'[h].pieces = {}
  PROVE  NoWorse(h)
<1>1. \A i : i \notin Missing(h)'
  BY MissingIs
<1>2. QED
  BY <1>1 DEF NoWorse

LEMMA AppendMisses ==
  ASSUME DiskInv, NEW h \in Hash, NEW o \in Object, NEW place \in Place,
         NEW pieces \in SUBSET Piece, Append(h, o, place, pieces), pieces \subseteq disk[h][place],
         NEW g \in Hash
  PROVE  NoWorse(g)
<1>1. /\ config' = [config EXCEPT ![h] = Written(pieces, place)] /\ disk' = disk
      /\ ~torrent[o].live /\ \A x \in Object : x # o => torrent'[x] = torrent[x]
  BY DEF Append, DiskInv, TypeOK
<1>2. CASE g = h
  <2>1. config'[h].pieces = pieces /\ config'[h].place = place
    BY <1>1 DEF DiskInv, TypeOK, Written
  <2>2. \A i \in pieces : Held(h, place, i)'
    BY <1>1 DEF Held
  <2>3. \A i : i \notin Missing(h)'
    BY <2>1, <2>2, MissingIs
  <2>4. QED
    BY <1>2, <2>3 DEF NoWorse
<1>3. CASE g # h
  <2>1. config'[g] = config[g]
    BY <1>1, <1>3 DEF DiskInv, TypeOK
  <2>2. NoneLost(g)
    BY <1>1 DEF NoneLost, Held
  <2>3. QED
    BY <2>1, <2>2, KeptClaims DEF DiskInv
<1>4. QED
  BY <1>2, <1>3

\* Writing out the buffer of o, and more, loses nothing.
LEMMA FlushMisses ==
  ASSUME DiskInv, NEW o \in Object, config' = config,
         \A h \in Hash, p \in Place : Flush(o)[h][p] \subseteq disk'[h][p],
         \A x \in Object : x # o => torrent'[x] = torrent[x],
         NEW g \in Hash
  PROVE  NoWorse(g)
<1>1. TypeOK
  BY DEF DiskInv
<1>2. ASSUME NEW p \in Place, NEW i, Held(g, p, i) PROVE Held(g, p, i)'
  <2>1. \A h \in Hash, q \in Place : disk[h][q] \subseteq disk'[h][q]
    BY <1>1, FlushAdds
  <2>2. torrent[o].hash \in Hash /\ torrent[o].place \in Place
    BY <1>1 DEF TypeOK, TorrentType
  <2>3. torrent[o].buffer \subseteq disk'[torrent[o].hash][torrent[o].place]
    BY <1>1, <2>2, FlushAdds
  <2>4. QED
    BY <1>2, <2>1, <2>3 DEF Held
<1>3. QED
  BY <1>1, <1>2, KeptClaims DEF NoneLost

LEMMA SettleMisses ==
  ASSUME DiskInv, NEW o \in Object, NEW buffer \in SUBSET Piece, NEW ro \in BOOLEAN,
         NEW rw \in BOOLEAN, NEW link \in Links, Settles(o, buffer, ro, rw, link),
         NEW g \in Hash
  PROVE  NoWorse(g)
<1>1. TypeOK /\ torrent[o] \in TorrentType
  BY DEF DiskInv, TypeOK
<1>2. config' = config /\ \A x \in Object : x # o => torrent'[x] = torrent[x]
  BY <1>1 DEF Settles, TypeOK
<1>3. CASE disk' = Flush(o)
  <2>1. \A h \in Hash, p \in Place : Flush(o)[h][p] \subseteq disk'[h][p]
    BY <1>3
  <2>2. QED
    BY <1>2, <2>1, FlushMisses
<1>4. CASE disk' = disk /\ buffer = torrent[o].buffer
  <2>1. /\ torrent'[o].live = torrent[o].live /\ torrent'[o].going = torrent[o].going
        /\ torrent'[o].hash = torrent[o].hash /\ torrent'[o].place = torrent[o].place
        /\ torrent'[o].buffer = torrent[o].buffer
    BY <1>1, <1>4 DEF Settles, TypeOK, TorrentType
  <2>2. NoneLost(g)
    BY <1>2, <1>4, <2>1 DEF NoneLost, Held
  <2>3. QED
    BY <1>1, <1>2, <2>2, KeptClaims
<1>5. QED
  BY <1>3, <1>4 DEF Settles

LEMMA UpdatePageMisses ==
  ASSUME DiskInv, NEW o \in Object, NEW i \in Piece, UpdatePage(o, i),
         NEW g \in Hash, g \notin readded, g \notin doubled
  PROVE  NoWorse(g)
<1>1. disk' = disk /\ torrent' = torrent
  BY DEF UpdatePage
<1>2. NoneLost(g) /\ \A p, j : Held(g, p, j)' <=> Held(g, p, j)
  BY <1>1 DEF NoneLost, Held
<1>3. CASE config'[g] = config[g]
  BY <1>2, <1>3, KeptClaims DEF DiskInv
<1>4. CASE config'[g] # config[g]
  <2>0. g = torrent[o].hash
    BY <1>4, UpdatePageDoes
  <2>1. /\ config'[g].place = config[g].place /\ ~torrent[o].going
        /\ torrent[o].pieces \ config[g].pieces \subseteq {i}
        /\ config'[g].pieces = torrent[o].pieces
        /\ Stored(o, i)
    BY <1>4, <2>0, UpdatePageDoes
  <2>2. config[g].place = torrent[o].place
    BY <2>0, <2>1 DEF DiskInv, SoundInv, Sound, Backed, Stored
  <2>3. Held(g, config[g].place, i)
    BY <2>0, <2>1, <2>2 DEF Stored, Held
  <2>4. ASSUME NEW j \in Missing(g)' PROVE j \in Missing(g)
    <3>1. PICK p : p = config[g].place /\ p = config'[g].place
      BY <2>1
    <3>2. j \in config'[g].pieces /\ ~Held(g, p, j)'
      BY <2>4, <3>1, MissingIs
    <3>3. ~Held(g, p, j) /\ Held(g, p, i)
      BY <1>2, <2>3, <3>1, <3>2
    <3>4. j \in config[g].pieces
      BY <2>1, <3>2, <3>3
    <3>5. QED
      BY <3>1, <3>3, <3>4, MissingIs
  <2>5. QED
    BY <2>4 DEF NoWorse
<1>5. QED
  BY <1>3, <1>4

LEMMA RemoveMisses ==
  ASSUME DiskInv, NEW h \in Hash, Remove(h), NEW g \in Hash
  PROVE  NoWorse(g)
<1>1. config' = [config EXCEPT ![h] = NoConfig] /\ disk' = disk /\ fileList[h] # NoObject
  BY DEF Remove
<1>2. CASE g = h
  <2>1. config'[g].pieces = {}
    BY <1>1, <1>2, NoConfigIsTyped DEF DiskInv, TypeOK
  <2>2. QED
    BY <2>1, NoClaims
<1>3. CASE g # h
  <2>1. config'[g] = config[g]
    BY <1>1, <1>3 DEF DiskInv, TypeOK
  <2>2. torrent[fileList[h]].hash = h /\ fileList[h] \in Object
    BY <1>1 DEF DiskInv, ListInv, Lists, TypeOK
  <2>3. \A x \in Object : torrent[x].live /\ torrent[x].hash = g => torrent'[x] = torrent[x]
    BY <1>3, <2>2 DEF Remove
  <2>4. NoneLost(g)
    BY <1>1, <2>3 DEF NoneLost, Held
  <2>5. QED
    BY <2>1, <2>4, KeptClaims DEF DiskInv
<1>4. QED
  BY <1>2, <1>3

\* What a destructor does not write was of a torrent that is not claimed.
LEMMA DestroyMisses ==
  ASSUME DiskInv, NEW o \in Object, Destroy(o), NEW g \in Hash
  PROVE  NoWorse(g)
<1>1. config' = config /\ disk' = disk /\ torrent[o].going
  BY DEF Destroy
<1>2. \A x \in Object : ~torrent[x].going => torrent'[x] = torrent[x]
  BY <1>1 DEF Destroy, DiskInv, TypeOK
<1>3. NoneLost(g)
  BY <1>1, <1>2 DEF NoneLost, Held
<1>4. QED
  BY <1>1, <1>3, KeptClaims DEF DiskInv

LEMMA StartMisses ==
  ASSUME DiskInv, NEW unreadable \in SUBSET Hash, NEW dropped \in SUBSET unreadable, NEW slot,
         UpdateDownloadList(unreadable, dropped, slot), NEW g \in Hash
  PROVE  NoWorse(g)
<1>1. TypeOK
  BY DEF DiskInv
<1>2. disk' = disk /\ ~running
  BY DEF UpdateDownloadList
<1>3. NoneLost(g)
  BY <1>2, NothingRuns DEF NoneLost, Held
<1>4. config'[g] = config[g] \/ config'[g] = NoConfig
  BY <1>1, StartOpens, Zenon
<1>5. QED
  BY <1>1, <1>3, <1>4, KeptClaims, NoClaims, NoConfigIsTyped

\* A stop loses what is in the buffer of the one object of a torrent.
LEMMA StopMisses ==
  ASSUME DiskInv, ClaimedIsWritten, AllGone, NEW g \in Hash, g \notin readded, g \notin doubled,
         config'[g] = config[g] \/ config'[g] = Blank
  PROVE  Cardinality(Missing(g)') <= stops'
<1>1. stops \in Nat /\ stops' = stops + 1 /\ disk' = disk
  BY DEF AllGone, DiskInv, TypeOK
<1>2. Missing(g) \in SUBSET Piece /\ Cardinality(Missing(g)) <= stops
  BY DEF ClaimedIsWritten, DiskInv, TypeOK, Missing
<1> DEFINE Counts(x) == torrent[x].live /\ ~torrent[x].going /\ torrent[x].hash = g
<1>3. PICK i : \A x \in Object : Counts(x) => torrent[x].buffer \subseteq {i}
  <2>1. \A x \in Object : Counts(x) => x = fileList[g]
    BY DEF DiskInv, SoundInv, Sound, Backed
  <2>2. CASE \E x \in Object : Counts(x)
    <3>1. PICK y \in Object : Counts(y)
      BY <2>2
    <3>2. \A x \in Object : Counts(x) => x = y
      BY <2>1, <3>1
    <3>3. PICK i : torrent[y].buffer \subseteq {i}
      BY <3>1 DEF DiskInv, SoundInv, Sound
    <3>4. QED
      BY <3>2, <3>3
  <2>3. CASE ~\E x \in Object : Counts(x)
    BY <2>3
  <2>4. QED
    BY <2>2, <2>3
<1>4. Missing(g)' \subseteq Missing(g) \cup {i}
  <2> SUFFICES ASSUME NEW j \in Missing(g)', j # i PROVE j \in Missing(g)
    OBVIOUS
  <2>1. PICK p : p = config'[g].place
    OBVIOUS
  <2>2. j \in config'[g].pieces /\ ~Held(g, p, j)'
    BY <2>1, MissingIs
  <2>3. config'[g] = config[g]
    BY <2>2, NoConfigIsTyped
  <2>4. j \notin disk[g][p]
    BY <1>1, <2>2 DEF Held
  <2>5. ~Held(g, p, j)
    BY <1>3, <2>4 DEF Held
  <2>6. QED
    BY <2>1, <2>2, <2>3, <2>5, MissingIs
<1>5. QED
  BY <1>1, <1>2, <1>4, OneMore

LEMMA StepClaims ==
  ASSUME DiskInv, ClaimedIsWritten, [Next]_vars
  PROVE  ClaimedIsWritten'
<1> SUFFICES ASSUME NEW g \in Hash, g \notin readded', g \notin doubled'
             PROVE  Cardinality(Missing(g)') <= stops'
  BY DEF ClaimedIsWritten
<1>1. /\ stops \in Nat /\ Missing(g) \in SUBSET Piece
      /\ g \notin readded /\ g \notin doubled => Cardinality(Missing(g)) <= stops
  BY DEF DiskInv, TypeOK, ClaimedIsWritten, Missing
<1>2. readded \subseteq readded' /\ doubled \subseteq doubled'
  BY DEF Next, vars, DownloadFile, OnFileCreated, Append, SetFrag, CompleteRequest, UpdatePage,
         Upload, Report, Lost, Remove, Destroy, StopInWrite, Stop, AllGone, UpdateDownloadList
<1>3. g \notin readded /\ g \notin doubled
  BY <1>2
<1>4. ASSUME NoWorse(g), stops' = stops
      PROVE  Cardinality(Missing(g)') <= stops'
  BY <1>1, <1>3, <1>4, Fewer DEF NoWorse
<1>5. ASSUME NEW h \in Hash, NEW o \in Object, NEW p \in Place,
             DownloadFile(h, o, p) \/ OnFileCreated(h, o, p)
      PROVE  NoWorse(g) /\ stops' = stops
  <2>1. CASE DownloadFile(h, o, p)
    <3>1. {} \in SUBSET Piece /\ Append(h, o, p, {}) /\ {} \subseteq disk[h][p]
      BY <2>1 DEF DownloadFile
    <3>2. stops' = stops
      BY <3>1 DEF Append
    <3>3. QED
      BY <3>1, <3>2, AppendMisses
  <2>2. CASE OnFileCreated(h, o, p)
    <3>1. Piece \in SUBSET Piece /\ Append(h, o, p, Piece) /\ Piece \subseteq disk[h][p]
      BY <2>2 DEF OnFileCreated
    <3>2. stops' = stops
      BY <3>1 DEF Append
    <3>3. QED
      BY <3>1, <3>2, AppendMisses
  <2>3. QED
    BY <1>5, <2>1, <2>2
<1>6. ASSUME NEW o \in Object, NEW i \in Piece, SetFrag(o, i)
      PROVE  NoWorse(g) /\ stops' = stops
  <2>1. config' = config /\ stops' = stops
    BY <1>6 DEF SetFrag
  <2>2. QED
    BY <1>6, <2>1, SetFragDoes, FlushMisses DEF DiskInv
<1>7. ASSUME NEW o \in Object, NEW i \in Piece, UpdatePage(o, i)
      PROVE  NoWorse(g) /\ stops' = stops
  BY <1>3, <1>7, UpdatePageMisses DEF UpdatePage
<1>8. ASSUME NEW o \in Object, NEW buffer \in SUBSET Piece, NEW ro \in BOOLEAN,
             NEW rw \in BOOLEAN, NEW link \in Links, Settles(o, buffer, ro, rw, link)
      PROVE  NoWorse(g) /\ stops' = stops
  BY <1>8, SettleMisses DEF Settles
<1>9. ASSUME NEW o \in Object, Report(o) \/ Lost(o) \/ \E i \in Piece : Upload(o, i)
      PROVE  NoWorse(g) /\ stops' = stops
  BY <1>8, <1>9, ReportSettles, LostSettles
<1>b. ASSUME UNCHANGED <<config, disk, torrent, stops>>
      PROVE  NoWorse(g) /\ stops' = stops
  BY <1>b DEF NoWorse, Missing, InBuffers
<1>10. ASSUME NEW o \in Object, NEW i \in Piece, CompleteRequest(o, i)
       PROVE  NoWorse(g) /\ stops' = stops
  <2>1. CASE torrent[o].link = "awaiting"
    BY <1>b, <1>10, <2>1 DEF CompleteRequest
  <2>2. CASE torrent[o].link # "awaiting"
    BY <1>8, <1>10, <2>2, CompleteSettles
  <2>3. QED
    BY <2>1, <2>2
<1>d. ASSUME NEW o \in Object, Destroy(o)
      PROVE  NoWorse(g) /\ stops' = stops
  BY <1>d, DestroyMisses DEF Destroy
<1>11. ASSUME NEW h \in Hash, Remove(h)
       PROVE  NoWorse(g) /\ stops' = stops
  BY <1>11, RemoveMisses DEF Remove
<1>12. ASSUME NEW unreadable \in SUBSET Hash, NEW dropped \in SUBSET unreadable, NEW slot,
              UpdateDownloadList(unreadable, dropped, slot)
       PROVE  NoWorse(g) /\ stops' = stops
  <2>1. stops' = stops
    BY <1>12 DEF UpdateDownloadList
  <2>2. QED
    BY <1>12, <2>1, StartMisses
<1>13. CASE Stop
  BY <1>3, <1>13, StopMisses DEF Stop
<1>14. ASSUME NEW h \in Hash, StopInWrite(h)
       PROVE  Cardinality(Missing(g)') <= stops'
  <2>1. AllGone /\ config' = [config EXCEPT ![h] = Blank]
    BY <1>14 DEF StopInWrite
  <2>2. config'[g] = config[g] \/ config'[g] = Blank
    BY <2>1 DEF DiskInv, TypeOK
  <2>3. QED
    BY <1>3, <2>1, <2>2, StopMisses
<1>15. CASE UNCHANGED vars
  BY <1>4, <1>b, <1>15 DEF vars
<1>16. QED
  BY <1>4, <1>5, <1>6, <1>7, <1>9, <1>10, <1>d, <1>11, <1>12, <1>13, <1>14, <1>15 DEF Next

LEMMA InitClaims == Init => ClaimedIsWritten
<1> SUFFICES ASSUME Init, NEW h \in Hash PROVE Cardinality(Missing(h)) <= stops
  BY DEF ClaimedIsWritten
<1>1. Missing(h) = {}
  BY NoConfigIsTyped DEF Init, Missing
<1>2. QED
  BY <1>1, FS_EmptySet DEF Init

-----------------------------------------------------------------------------
(* The theorems.                                                           *)

LEMMA DiskAlways == Spec => []DiskInv
<1>1. DiskInv /\ [Next]_vars => DiskInv'
  BY StepDisk
<1>2. QED
  BY <1>1, InitDisk, PTL DEF Spec

\* Every variable keeps its type.
THEOREM TypeCorrect == Spec => []TypeOK
<1>1. DiskInv => TypeOK
  BY DEF DiskInv
<1>2. QED
  BY <1>1, DiskAlways, PTL

\* The bitmap on disk is the one in memory, apart from the piece being stored,
\* for any number of torrents and whatever the order of events: a stop loses no
\* bit (Torrent::updatePage).
THEOREM StopLosesNoBit == Spec => []BitmapSurvives
<1>1. DiskInv => BitmapSurvives
  BY DEF DiskInv, SoundInv, Sound, Backed, BitmapSurvives
<1>2. QED
  BY <1>1, DiskAlways, PTL

\* No piece is written to a file open for reading only, unless a piece of the
\* torrent was downloaded again: until then the running total of the downloader
\* is the size of what is owned (File::readonly, TorrentDownloader).
THEOREM PieceReachesFile == Spec => []StoredIsWritten
<1>1. DiskInv => StoredIsWritten
  <2> SUFFICES ASSUME DiskInv, NEW o \in Object, NEW i \in Piece, <<o, i>> \in storing,
                      torrent[o].hash \notin doubled
               PROVE  i \in disk[torrent[o].hash][torrent[o].place] \cup torrent[o].buffer
    BY DEF StoredIsWritten
  <2>1. PICK x \in Object, j \in Piece : Stored(x, j)
    BY DEF DiskInv, StoringInv
  <2>2. x = o /\ j = i
    BY <2>1 DEF Stored
  <2>3. QED
    BY <2>1, <2>2 DEF Stored
<1>2. QED
  BY <1>1, DiskAlways, PTL

\* A complete torrent that the tracker knew as incomplete, and whose connection
\* works, has nothing in its write buffer (TrackerConnection::completeRequest,
\* File::readonly).
THEOREM CompletionFlushes == Spec => []CompleteIsFlushed
<1>1. DiskInv => CompleteIsFlushed
  <2> SUFFICES ASSUME DiskInv, NEW o \in Object, FlushedAtCompletion(o)
               PROVE  torrent[o].buffer = {}
    BY DEF CompleteIsFlushed
  <2>1. Sound(o) /\ Exact(o) /\ torrent[o].link # "down"
    BY DEF DiskInv, SoundInv, Sound, FlushedAtCompletion
  <2>2. ~Untold(o)
    BY DEF FlushedAtCompletion, Untold
  <2>3. torrent[o].total = FileSize
    <3>1. torrent[o].pieces = Piece /\ Piece \in SUBSET Piece
      BY DEF FlushedAtCompletion
    <3>2. QED
      BY <2>1, <3>1, SizeIsFull DEF Exact
  <2>4. torrent[o].mIsReadonly
    BY <2>1, <2>2, <2>3 DEF Exact, Fits
  <2>5. QED
    BY <2>1, <2>4 DEF FlushedAtCompletion, Sound
<1>2. QED
  BY <1>1, DiskAlways, PTL

\* The bitmap claims at most as many missing pieces as the program stopped, for
\* any number of pieces and stops, unless a piece of the torrent was downloaded
\* again or the torrent was added twice (Torrent::updatePage, FileFrag::setData).
THEOREM OneLostPerStop == Spec => []ClaimedIsWritten
<1>1. DiskInv /\ ClaimedIsWritten /\ [Next]_vars => ClaimedIsWritten'
  BY StepClaims
<1>2. QED
  BY <1>1, InitClaims, DiskAlways, PTL DEF Spec

\* A configuration that stays loses no piece (Torrent::updatePage,
\* TorrentManager::updateDownloadList).
THEOREM BitmapGrows == Spec => NothingForgotten
<1> DEFINE Grows ==
      \A h \in Hash \ readded' :
         config[h].kind = "written" /\ config'[h].kind = "written"
            => config[h].pieces \subseteq config'[h].pieces
<1>1. ASSUME DiskInv, Next PROVE Grows
  <2> SUFFICES ASSUME NEW h \in Hash, h \notin readded',
                      config[h].kind = "written", config'[h].kind = "written"
               PROVE  config[h].pieces \subseteq config'[h].pieces
    OBVIOUS
  <2>t. TypeOK
    BY <1>1 DEF DiskInv
  <2>1. CASE config'[h] = config[h]
    BY <2>1
  <2>2. CASE config'[h] # config[h]
    <3>1. ASSUME NEW g \in Hash, NEW o \in Object, NEW p \in Place,
                 DownloadFile(g, o, p) \/ OnFileCreated(g, o, p)
          PROVE  FALSE
      <4>1. PICK pieces : Append(g, o, p, pieces)
        BY <3>1 DEF DownloadFile, OnFileCreated
      <4>2. g = h
        BY <4>1, <2>t, <2>2 DEF Append, TypeOK
      <4>3. QED
        BY <4>1, <4>2 DEF Append
    <3>2. ASSUME NEW o \in Object, NEW i \in Piece, UpdatePage(o, i)
          PROVE  config[h].pieces \subseteq config'[h].pieces
      <4>1. h = torrent[o].hash /\ readded' = readded
        BY <1>1, <2>2, <3>2, UpdatePageDoes DEF UpdatePage
      <4>2. config[h].pieces \subseteq torrent[o].pieces /\ config'[h].pieces = torrent[o].pieces
        BY <1>1, <2>2, <3>2, <4>1, UpdatePageDoes
      <4>3. QED
        BY <4>2
    <3>3. ASSUME NEW g \in Hash, Remove(g) \/ StopInWrite(g)
          PROVE  FALSE
      BY <2>t, <2>2, <3>3, NoConfigIsTyped DEF Remove, StopInWrite, TypeOK
    <3>4. ASSUME NEW unreadable \in SUBSET Hash, NEW dropped \in SUBSET unreadable, NEW slot,
                 UpdateDownloadList(unreadable, dropped, slot)
          PROVE  FALSE
      <4>1. config'[h] = config[h] \/ config'[h] = NoConfig
        BY <2>t, <3>4, StartOpens, Zenon
      <4>2. QED
        BY <2>2, <4>1, NoConfigIsTyped
    <3>5. ASSUME NEW o \in Object, NEW i \in Piece,
                 SetFrag(o, i) \/ CompleteRequest(o, i) \/ Upload(o, i)
          PROVE  FALSE
      BY <2>2, <3>5 DEF SetFrag, CompleteRequest, Upload
    <3>6. ASSUME NEW o \in Object, Report(o) \/ Lost(o) \/ Destroy(o)
          PROVE  FALSE
      BY <2>2, <3>6 DEF Report, Lost, Destroy
    <3>7. ~Stop
      BY <2>2 DEF Stop
    <3>8. QED
      BY <1>1, <3>1, <3>2, <3>3, <3>4, <3>5, <3>6, <3>7 DEF Next
  <2>3. QED
    BY <2>1, <2>2
<1>2. DiskInv /\ [Next]_vars => [Grows]_vars
  BY <1>1
<1>3. QED
  BY <1>2, DiskAlways, PTL DEF Spec, NothingForgotten
=============================================================================
