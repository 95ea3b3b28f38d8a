-------------------------- MODULE TorrentListProofs --------------------------
(***************************************************************************)
(* List, table and running torrents of a client stay the same torrents, for*)
(* any number of torrents, objects and hashing jobs.                       *)
(***************************************************************************)
EXTENDS TorrentList, FiniteSetTheorems, FunctionTheorems, SequenceTheorems,
        WellFoundedInduction, TLAPS

-----------------------------------------------------------------------------
(***************************************************************************)
(* Maps from some of the hashes.                                           *)
(***************************************************************************)
Maps(T) == UNION {[S -> T] : S \in SUBSET Hash}

LEMMA MapIs ==
  ASSUME NEW T, NEW f
  PROVE  f \in Maps(T) <=> /\ DOMAIN f \subseteq Hash
                           /\ f \in [DOMAIN f -> T]
BY DEF Maps

LEMMA PutIs ==
  ASSUME NEW T, NEW f \in Maps(T), NEW h \in Hash, NEW v \in T
  PROVE  /\ Put(f, h, v) \in Maps(T)
         /\ DOMAIN Put(f, h, v) = DOMAIN f \cup {h}
         /\ Put(f, h, v)[h] = v
         /\ \A g \in DOMAIN f : g # h => Put(f, h, v)[g] = f[g]
<1>1. DOMAIN f \subseteq Hash /\ f \in [DOMAIN f -> T]
  BY MapIs
<1>2. Put(f, h, v) \in [DOMAIN f \cup {h} -> T]
  BY <1>1 DEF Put
<1>3. Put(f, h, v) \in Maps(T)
  BY <1>1, <1>2, MapIs
<1>4. QED
  BY <1>3 DEF Put

\* The same for rows.
LEMMA PutRow ==
  ASSUME NEW f \in Maps(Nat), NEW h \in Hash, NEW v \in Nat
  PROVE  /\ Put(f, h, v) \in Maps(Nat)
         /\ DOMAIN Put(f, h, v) = DOMAIN f \cup {h}
         /\ Put(f, h, v)[h] = v
         /\ \A g \in DOMAIN f : g # h => Put(f, h, v)[g] = f[g]
<1>1. PICK T : T = Nat
  OBVIOUS
<1>2. f \in Maps(T) /\ v \in T
  BY <1>1
<1>3. /\ Put(f, h, v) \in Maps(T)
      /\ DOMAIN Put(f, h, v) = DOMAIN f \cup {h}
      /\ Put(f, h, v)[h] = v
      /\ \A g \in DOMAIN f : g # h => Put(f, h, v)[g] = f[g]
  BY <1>2, PutIs
<1>4. QED
  BY <1>1, <1>3

\* The same for lists of torrents.
LEMMA PutNull ==
  ASSUME NEW f \in Maps(Object \cup {NoObject}), NEW h \in Hash
  PROVE  /\ Put(f, h, NoObject) \in Maps(Object \cup {NoObject})
         /\ DOMAIN Put(f, h, NoObject) = DOMAIN f \cup {h}
         /\ Put(f, h, NoObject)[h] = NoObject
         /\ \A g \in DOMAIN f : g # h => Put(f, h, NoObject)[g] = f[g]
<1>1. PICK T, v : T = Object \cup {NoObject} /\ v = NoObject
  OBVIOUS
<1>2. f \in Maps(T) /\ v \in T
  BY <1>1
<1>3. Put(f, h, v) \in Maps(T)
  BY <1>2, PutIs
<1>4. /\ DOMAIN Put(f, h, v) = DOMAIN f \cup {h}
      /\ Put(f, h, v)[h] = v
      /\ \A g \in DOMAIN f : g # h => Put(f, h, v)[g] = f[g]
  BY DEF Put
<1>5. QED
  BY <1>1, <1>3, <1>4

LEMMA ErasedIs ==
  ASSUME NEW T, NEW f \in Maps(T), NEW h
  PROVE  /\ Erased(f, h) \in Maps(T)
         /\ DOMAIN Erased(f, h) = DOMAIN f \ {h}
         /\ \A g \in DOMAIN f : g # h => Erased(f, h)[g] = f[g]
<1>1. DOMAIN f \subseteq Hash /\ f \in [DOMAIN f -> T]
  BY MapIs
<1>2. Erased(f, h) \in [DOMAIN f \ {h} -> T]
  BY <1>1 DEF Erased
<1>3. Erased(f, h) \in Maps(T)
  BY <1>1, <1>2, MapIs
<1>4. QED
  BY <1>3 DEF Erased

LEMMA EmptyMap ==
  ASSUME NEW T
  PROVE  <<>> \in Maps(T) /\ DOMAIN <<>> = {}
<1>1. DOMAIN <<>> = {}
  OBVIOUS
<1>2. <<>> = [x \in {} |-> 0]
  OBVIOUS
<1>3. <<>> \in [{} -> T]
  BY <1>2
<1>4. QED
  BY <1>1, <1>3, MapIs

Below == {pair \in Nat \X Nat : pair[1] < pair[2]}

\* A set of natural numbers has a least one.
LEMMA LeastOf ==
  ASSUME NEW T, T \subseteq Nat, T # {}
  PROVE  \E x \in T : \A y \in T : x <= y
<1>1. IsWellFoundedOn(Below, Nat)
  <2>1. Below = OpToRel(<, Nat)
    BY DEF Below, OpToRel
  <2>2. QED
    BY <2>1, NatLessThanWellFounded
<1>2. PICK x \in T : \A y \in T : ~(<<y, x>> \in Below)
  BY <1>1, WFMin
<1>3. ASSUME NEW y \in T PROVE x <= y
  <2>1. x \in Nat /\ y \in Nat /\ <<y, x>> \in Nat \X Nat
        /\ <<y, x>>[1] = y /\ <<y, x>>[2] = x
    OBVIOUS
  <2>2. ~(y < x)
    BY <1>2, <2>1 DEF Below
  <2>3. QED
    BY <2>1, <2>2
<1>4. QED
  BY <1>3

-----------------------------------------------------------------------------
(***************************************************************************)
(* The table.                                                              *)
(***************************************************************************)
WindowType ==
  [idToRow : Maps(Nat), rowStatus : Seq(Object), shown : SUBSET Object,
   current : Int, deletable : BOOLEAN]

\* Every torrent has a row of its own, with the status of one of its objects that
\* stay, unless it reported after its removal, and every row is the row of a torrent.
RowsOf(w, hashes, going, gone) ==
  /\ \A h \in DOMAIN w.idToRow :
        /\ w.idToRow[h] \in Rows(w)
        /\ h \notin gone => /\ hashes[StatusAt(w, w.idToRow[h])] = h
                           /\ StatusAt(w, w.idToRow[h]) \notin going
  /\ \A r \in Rows(w) : \E h \in DOMAIN w.idToRow : w.idToRow[h] = r
  /\ \A g, h \in DOMAIN w.idToRow : w.idToRow[g] = w.idToRow[h] => g = h

\* The current row is a row, if there is one.
Current(w) ==
  w.current \in Rows(w) \cup {-1} /\ (w.deletable => w.current \in Rows(w))

\* The bar shows the torrent of the current row or nothing, apart from torrents
\* that are going.
Pointed(w) == {StatusAt(w, r) : r \in Rows(w) \cap {w.current}}
Seen(w, going) ==
  /\ w.shown \ going \subseteq Pointed(w)
  /\ w.deletable => w.shown \ going = Pointed(w)

LEMMA StatusIsObject ==
  ASSUME NEW w \in WindowType
  PROVE  /\ Len(w.rowStatus) \in Nat
         /\ \A r \in Rows(w) : r \in Nat /\ r + 1 \in 1 .. Len(w.rowStatus)
                               /\ StatusAt(w, r) \in Object
<1>1. w.rowStatus \in Seq(Object)
  BY DEF WindowType
<1>2. Len(w.rowStatus) \in Nat /\ \A k \in 1 .. Len(w.rowStatus) : w.rowStatus[k] \in Object
  BY <1>1, ElementOfSeq
<1>3. QED
  BY <1>2 DEF Rows, StatusAt

LEMMA EmptyIsWindow ==
  /\ EmptyWindow \in WindowType /\ Rows(EmptyWindow) = {}
  /\ DOMAIN EmptyWindow.idToRow = {}
  /\ EmptyWindow.shown = {} /\ ~EmptyWindow.deletable /\ EmptyWindow.current = -1
<1>1. <<>> \in Maps(Nat) /\ <<>> \in Seq(Object) /\ Len(<<>>) = 0 /\ DOMAIN <<>> = {}
  BY EmptyMap
<1>2. QED
  BY <1>1 DEF EmptyWindow, WindowType, Rows

\* What a report of a torrent leaves alone.
LEMMA ReportKeeps ==
  ASSUME NEW w \in WindowType, NEW h \in Hash, NEW o \in Object
  PROVE  LET v == TorrentStatusUpdated(w, h, o)
         IN  /\ v \in WindowType
             /\ DOMAIN v.idToRow = DOMAIN w.idToRow \cup {h}
             /\ v.current = w.current /\ v.shown = w.shown /\ v.deletable = w.deletable
             /\ Rows(w) \subseteq Rows(v)
<1> DEFINE v == TorrentStatusUpdated(w, h, o)
<1>1. w.rowStatus \in Seq(Object) /\ w.idToRow \in Maps(Nat) /\ Len(w.rowStatus) \in Nat
  BY StatusIsObject DEF WindowType
<1>2. CASE h \notin DOMAIN w.idToRow
  <2>1. PICK m : m = Put(w.idToRow, h, Len(w.rowStatus))
    OBVIOUS
  <2>2. PICK s : s = Append(w.rowStatus, o)
    OBVIOUS
  <2>3. v = [w EXCEPT !.idToRow = m, !.rowStatus = s]
    BY <1>2, <2>1, <2>2 DEF TorrentStatusUpdated
  <2>4. m \in Maps(Nat) /\ DOMAIN m = DOMAIN w.idToRow \cup {h}
    <3>1. PICK n : n = Len(w.rowStatus)
      OBVIOUS
    <3>2. m = Put(w.idToRow, h, n) /\ n \in Nat
      BY <1>1, <2>1, <3>1
    <3>3. QED
      BY <1>1, <3>2, PutRow
  <2>5. s \in Seq(Object) /\ Len(s) = Len(w.rowStatus) + 1
    BY <1>1, <2>2, AppendProperties
  <2>6. /\ v \in WindowType /\ v.idToRow = m /\ v.rowStatus = s
        /\ v.current = w.current /\ v.shown = w.shown /\ v.deletable = w.deletable
    BY <2>3, <2>4, <2>5 DEF WindowType
  <2>7. QED
    BY <1>1, <2>4, <2>5, <2>6 DEF Rows
<1>3. CASE h \in DOMAIN w.idToRow /\ w.idToRow[h] \in Rows(w)
  <2>1. PICK s : s = [w.rowStatus EXCEPT ![w.idToRow[h] + 1] = o]
    OBVIOUS
  <2>2. v = [w EXCEPT !.rowStatus = s]
    BY <1>3, <2>1 DEF TorrentStatusUpdated, WindowType
  <2>3. s \in Seq(Object) /\ Len(s) = Len(w.rowStatus)
    BY <1>1, <1>3, <2>1, ExceptSeq, StatusIsObject
  <2> HIDE DEF v
  <2>4. QED
    BY <1>1, <1>3, <2>2, <2>3 DEF WindowType, Rows, v
<1>4. CASE h \in DOMAIN w.idToRow /\ w.idToRow[h] \notin Rows(w)
  BY <1>4 DEF TorrentStatusUpdated
<1>5. QED
  BY <1>2, <1>3, <1>4

\* When the rows were right, a report changes or adds the row of its torrent.
LEMMA ReportRows ==
  ASSUME NEW w \in WindowType, NEW h \in Hash, NEW o \in Object,
         NEW f, NEW going, NEW gone, RowsOf(w, f, going, gone)
  PROVE  LET v == TorrentStatusUpdated(w, h, o)
         IN  /\ \A g \in DOMAIN w.idToRow : v.idToRow[g] = w.idToRow[g]
             /\ \A r \in Rows(v) \ Rows(w) : r = v.idToRow[h]
             /\ v.idToRow[h] \in Rows(v) /\ StatusAt(v, v.idToRow[h]) = o
             /\ \A r \in Rows(w) : r # v.idToRow[h] => StatusAt(v, r) = StatusAt(w, r)
             /\ h \notin DOMAIN w.idToRow => v.idToRow[h] \notin Rows(w)
<1> DEFINE v == TorrentStatusUpdated(w, h, o)
<1>1. w.rowStatus \in Seq(Object) /\ w.idToRow \in Maps(Nat) /\ Len(w.rowStatus) \in Nat
  BY StatusIsObject DEF WindowType
<1>2. CASE h \notin DOMAIN w.idToRow
  <2>1. PICK m : m = Put(w.idToRow, h, Len(w.rowStatus))
    OBVIOUS
  <2>2. PICK s : s = Append(w.rowStatus, o)
    OBVIOUS
  <2>3. v = [w EXCEPT !.idToRow = m, !.rowStatus = s]
    BY <1>2, <2>1, <2>2 DEF TorrentStatusUpdated
  <2>4. m[h] = Len(w.rowStatus) /\ \A g \in DOMAIN w.idToRow : m[g] = w.idToRow[g]
    <3>1. PICK n : n = Len(w.rowStatus)
      OBVIOUS
    <3>2. m = Put(w.idToRow, h, n) /\ n \in Nat
      BY <1>1, <2>1, <3>1
    <3>3. m[h] = n /\ \A g \in DOMAIN w.idToRow : g # h => m[g] = w.idToRow[g]
      BY <1>1, <3>2, PutRow
    <3>4. QED
      BY <1>2, <3>1, <3>3
  <2>5. /\ Len(s) = Len(w.rowStatus) + 1 /\ s[Len(w.rowStatus) + 1] = o
        /\ \A i \in 1 .. Len(w.rowStatus) : s[i] = w.rowStatus[i]
    BY <1>1, <2>2, AppendProperties
  <2>6. v.idToRow = m /\ v.rowStatus = s
    BY <2>3 DEF WindowType
  <2>7. v.idToRow[h] = Len(w.rowStatus) /\ \A g \in DOMAIN w.idToRow : v.idToRow[g] = w.idToRow[g]
    BY <2>4, <2>6
  <2>8. /\ Rows(w) = 0 .. Len(w.rowStatus) - 1 /\ Rows(v) = 0 .. Len(w.rowStatus)
    BY <1>1, <2>5, <2>6 DEF Rows
  <2>9. StatusAt(v, v.idToRow[h]) = o
    BY <2>5, <2>6, <2>7 DEF StatusAt
  <2>10. \A r \in Rows(w) : StatusAt(v, r) = StatusAt(w, r)
    BY <2>5, <2>6, StatusIsObject DEF StatusAt
  <2> HIDE DEF v
  <2>11. QED
    BY <1>1, <2>7, <2>8, <2>9, <2>10 DEF v
<1>3. CASE h \in DOMAIN w.idToRow
  <2>1. PICK s : s = [w.rowStatus EXCEPT ![w.idToRow[h] + 1] = o]
    OBVIOUS
  <2>2. w.idToRow[h] \in Rows(w)
    BY <1>3 DEF RowsOf
  <2>3. v = [w EXCEPT !.rowStatus = s]
    BY <1>3, <2>1, <2>2 DEF TorrentStatusUpdated, WindowType
  <2>4. /\ Len(s) = Len(w.rowStatus)
        /\ \A j \in 1 .. Len(w.rowStatus) :
              s[j] = IF j = w.idToRow[h] + 1 THEN o ELSE w.rowStatus[j]
    BY <1>1, <2>1, <2>2, ExceptSeq, StatusIsObject
  <2>5. v.idToRow = w.idToRow /\ v.rowStatus = s
    BY <2>3 DEF WindowType
  <2>6. Rows(v) = Rows(w) /\ v.idToRow[h] \in Rows(w)
    BY <2>2, <2>4, <2>5 DEF Rows
  <2>7. \A r \in Rows(w) : StatusAt(v, r) = IF r = v.idToRow[h] THEN o ELSE StatusAt(w, r)
    <3>1. \A r \in Rows(w) : r \in Nat /\ r + 1 \in 1 .. Len(w.rowStatus)
      BY StatusIsObject
    <3>2. v.idToRow[h] \in Nat
      BY <2>6, <3>1
    <3>3. QED
      BY <2>4, <2>5, <3>1, <3>2 DEF StatusAt
  <2> HIDE DEF v
  <2>8. QED
    BY <1>3, <2>5, <2>6, <2>7 DEF v
<1>4. QED
  BY <1>2, <1>3

\* A report of an object that stays, or of one that goes and is a ghost from then on.
LEMMA ReportTable ==
  ASSUME NEW w \in WindowType, Current(w), NEW h \in Hash, NEW o \in Object,
         NEW f \in [Object -> Hash \cup {0}], NEW g \in [Object -> Hash \cup {0}],
         g[o] = h, \A x \in Object : f[x] # 0 => g[x] = f[x],
         NEW going, NEW gone, NEW after, gone \subseteq after, o \in going => h \in after
  PROVE  LET v == TorrentStatusUpdated(w, h, o)
         IN  /\ Current(v)
             /\ RowsOf(w, f, going, gone) => RowsOf(v, g, going, after)
             /\ RowsOf(w, f, going, gone) /\ Seen(w, going)
                /\ (h \in DOMAIN w.idToRow => StatusAt(w, w.idToRow[h]) = o)
                => Seen(v, going)
<1>1. PICK v : v = TorrentStatusUpdated(w, h, o)
  OBVIOUS
<1>2. /\ v \in WindowType /\ DOMAIN v.idToRow = DOMAIN w.idToRow \cup {h}
      /\ v.current = w.current /\ v.shown = w.shown /\ v.deletable = w.deletable
      /\ Rows(w) \subseteq Rows(v)
  BY <1>1, ReportKeeps
<1>3. Current(v)
  BY <1>2 DEF Current
<1>4. ASSUME RowsOf(w, f, going, gone)
      PROVE  /\ \A k \in DOMAIN w.idToRow : v.idToRow[k] = w.idToRow[k]
             /\ \A r \in Rows(v) \ Rows(w) : r = v.idToRow[h]
             /\ v.idToRow[h] \in Rows(v) /\ StatusAt(v, v.idToRow[h]) = o
             /\ \A r \in Rows(w) : r # v.idToRow[h] => StatusAt(v, r) = StatusAt(w, r)
             /\ h \notin DOMAIN w.idToRow => v.idToRow[h] \notin Rows(w)
  BY <1>1, <1>4, ReportRows
<1>5. ASSUME RowsOf(w, f, going, gone) PROVE RowsOf(v, g, going, after)
  <2>1. ASSUME NEW k \in DOMAIN w.idToRow, k # h
        PROVE  /\ v.idToRow[k] = w.idToRow[k] /\ w.idToRow[k] \in Rows(w)
               /\ v.idToRow[k] # v.idToRow[h]
    <3>1. v.idToRow[k] = w.idToRow[k] /\ w.idToRow[k] \in Rows(w)
      BY <1>4, <1>5 DEF RowsOf
    <3>2. CASE h \in DOMAIN w.idToRow
      <4>1. v.idToRow[h] = w.idToRow[h]
        BY <1>4, <1>5, <3>2
      <4>2. QED
        BY <1>5, <2>1, <3>1, <3>2, <4>1 DEF RowsOf
    <3>3. CASE h \notin DOMAIN w.idToRow
      BY <1>4, <1>5, <3>1, <3>3
    <3>4. QED
      BY <3>1, <3>2, <3>3
  <2>2. ASSUME NEW k \in DOMAIN v.idToRow
        PROVE  /\ v.idToRow[k] \in Rows(v)
               /\ k \notin after => /\ g[StatusAt(v, v.idToRow[k])] = k
                                   /\ StatusAt(v, v.idToRow[k]) \notin going
    <3>1. CASE k = h
      BY <1>4, <1>5, <3>1
    <3>2. CASE k # h
      <4>1. /\ k \in DOMAIN w.idToRow /\ v.idToRow[k] = w.idToRow[k]
            /\ w.idToRow[k] \in Rows(w) /\ v.idToRow[k] # v.idToRow[h]
        BY <1>2, <2>1, <3>2
      <4>2. StatusAt(v, v.idToRow[k]) = StatusAt(w, w.idToRow[k])
        BY <1>4, <1>5, <4>1
      <4>3. k \in Hash /\ k # 0 /\ StatusAt(w, w.idToRow[k]) \in Object
        BY <1>2, <4>1, MapIs, StatusIsObject, ListAssumption DEF WindowType, Maps
      <4>4. k \notin after => /\ f[StatusAt(w, w.idToRow[k])] = k
                             /\ StatusAt(w, w.idToRow[k]) \notin going
        BY <1>5, <4>1 DEF RowsOf
      <4>5. QED
        BY <1>2, <4>1, <4>2, <4>3, <4>4
    <3>3. QED
      BY <3>1, <3>2
  <2>3. ASSUME NEW r \in Rows(v) PROVE \E k \in DOMAIN v.idToRow : v.idToRow[k] = r
    BY <1>2, <1>4, <1>5 DEF RowsOf
  <2>4. ASSUME NEW j \in DOMAIN v.idToRow, NEW k \in DOMAIN v.idToRow,
               v.idToRow[j] = v.idToRow[k]
        PROVE  j = k
    <3>1. CASE j = h \/ k = h
      BY <1>2, <2>1, <2>4, <3>1
    <3>2. CASE j # h /\ k # h
      <4>1. /\ j \in DOMAIN w.idToRow /\ k \in DOMAIN w.idToRow
            /\ w.idToRow[j] = w.idToRow[k]
        BY <1>2, <2>1, <2>4, <3>2
      <4>2. QED
        BY <1>5, <4>1 DEF RowsOf
    <3>3. QED
      BY <3>1, <3>2
  <2>5. QED
    BY <2>2, <2>3, <2>4 DEF RowsOf
<1>6. ASSUME RowsOf(w, f, going, gone), Seen(w, going),
             h \in DOMAIN w.idToRow => StatusAt(w, w.idToRow[h]) = o
      PROVE  Seen(v, going)
  <2>1. ASSUME NEW r \in Rows(w) PROVE StatusAt(v, r) = StatusAt(w, r)
    BY <1>4, <1>6
  <2>2. \A r \in Rows(v) \ Rows(w) : r # v.current
    BY <1>2, StatusIsObject DEF Current
  <2>3. Pointed(v) = Pointed(w)
    BY <1>2, <2>1, <2>2 DEF Pointed
  <2>4. QED
    BY <1>2, <1>6, <2>3 DEF Seen
<1>7. QED
  BY <1>1, <1>3, <1>5, <1>6

\* The bar follows the current row.
LEMMA BarFollows ==
  ASSUME NEW w \in WindowType, NEW row \in Rows(w), NEW going
  PROVE  LET v == [UpdateBottomBar(w, row, w.current) EXCEPT !.current = row]
         IN  /\ v \in WindowType
             /\ v.idToRow = w.idToRow /\ v.rowStatus = w.rowStatus /\ Rows(v) = Rows(w)
             /\ Current(v)
             /\ w.shown \ going \subseteq Pointed(w) /\ StatusAt(w, row) \notin going
                => Seen(v, going)
<1> DEFINE hidden == IF w.current \in Rows(w) THEN {StatusAt(w, w.current)} ELSE {}
<1>1. PICK s : s = (w.shown \ hidden) \cup {StatusAt(w, row)}
  OBVIOUS
<1>2. PICK v : v = [UpdateBottomBar(w, row, w.current) EXCEPT !.current = row]
  OBVIOUS
<1>3. v = [w EXCEPT !.shown = s, !.deletable = TRUE, !.current = row]
  BY <1>1, <1>2 DEF UpdateBottomBar, WindowType
<1>4. s \subseteq Object /\ row \in Int
  BY <1>1, StatusIsObject DEF WindowType
<1>5. /\ v \in WindowType /\ v.idToRow = w.idToRow /\ v.rowStatus = w.rowStatus
      /\ v.shown = s /\ v.deletable /\ v.current = row /\ Rows(v) = Rows(w)
  BY <1>3, <1>4 DEF WindowType, Rows
<1>6. Current(v)
  BY <1>5 DEF Current
<1>7. ASSUME w.shown \ going \subseteq Pointed(w), StatusAt(w, row) \notin going
      PROVE  Seen(v, going)
  <2>1. Pointed(w) = hidden
    BY DEF Pointed
  <2>2. s \ going = {StatusAt(w, row)}
    BY <1>1, <1>7, <2>1
  <2>3. Pointed(v) = {StatusAt(w, row)}
    BY <1>5 DEF Pointed, StatusAt
  <2>4. QED
    BY <1>5, <2>2, <2>3 DEF Seen
<1>8. QED
  BY <1>2, <1>5, <1>6, <1>7

-----------------------------------------------------------------------------
(***************************************************************************)
(* The invariant.                                                          *)
(***************************************************************************)
ListTypeOK ==
  /\ running \in BOOLEAN /\ blocked \in BOOLEAN /\ config \subseteq Hash
  /\ hashOf \in [Object -> Hash \cup {0}] /\ doomed \subseteq Live
  /\ fileList \in Maps(Object \cup {NoObject})
  /\ window \in WindowType
  /\ holed \in BOOLEAN /\ readded \subseteq Hash /\ ghosts \subseteq Hash

\* The list names objects of the right torrent, which stay.
NamesInv ==
  \A h \in DOMAIN fileList :
     fileList[h] # NoObject => hashOf[fileList[h]] = h /\ fileList[h] \notin doomed

TableInv ==
  /\ Current(window)
  /\ ~holed => RowsOf(window, hashOf, doomed, ghosts)
  /\ ~holed /\ readded = {} /\ ghosts = {} => Seen(window, doomed)

\* No deletion is posted while the program does not run.
StoppedInv == ~running => doomed = {}

ListInv == ListTypeOK /\ NamesInv /\ TableInv /\ StoppedInv /\ ListIsWhatRuns

\* What has not to do with list and table keeps the invariant.
LEMMA UnchangedInv ==
  ASSUME ListInv, running' = running, blocked' \in BOOLEAN,
         UNCHANGED <<config, hashOf, doomed, fileList, window, history>>
  PROVE  ListInv'
BY DEF ListInv, history, ListTypeOK, NamesInv, TableInv, StoppedInv, ListIsWhatRuns, Kept, Live

LEMMA InitList == Init => ListInv
<1> SUFFICES ASSUME Init PROVE ListInv
  OBVIOUS
<1>1. /\ window = EmptyWindow /\ fileList = <<>> /\ hashOf = [o \in Object |-> 0]
      /\ config = {} /\ readded = {} /\ ghosts = {} /\ doomed = {}
      /\ holed = FALSE /\ running = FALSE /\ blocked = FALSE
  BY DEF Init
<1>2. /\ fileList \in Maps(Object \cup {NoObject}) /\ DOMAIN fileList = {}
      /\ window \in WindowType /\ Rows(window) = {} /\ DOMAIN window.idToRow = {}
      /\ window.shown = {} /\ ~window.deletable /\ window.current = -1
  BY <1>1, EmptyMap, EmptyIsWindow
<1>3. ListTypeOK /\ NamesInv
  BY <1>1, <1>2 DEF ListTypeOK, NamesInv
<1>4. TableInv
  BY <1>2 DEF TableInv, Current, RowsOf, Seen
<1>5. ListIsWhatRuns
  BY <1>1, <1>2 DEF ListIsWhatRuns, Kept, Live
<1>6. QED
  BY <1>1, <1>3, <1>4, <1>5 DEF ListInv, StoppedInv

-----------------------------------------------------------------------------
(***************************************************************************)
(* Torrents that come, and reports.                                        *)
(***************************************************************************)
LEMMA NewTorrentKeeps ==
  ASSUME ListInv, NEW h \in Hash, NewTorrent(h), running' = running, blocked' \in BOOLEAN,
         UNCHANGED <<doomed, holed, ghosts>>
  PROVE  ListInv'
<1> USE DEF ListInv
<1>1. ListTypeOK /\ window \in WindowType /\ Current(window)
  BY DEF ListTypeOK, TableInv
<1>2. PICK o : o = Fresh
  OBVIOUS
<1>3. o \in Object /\ hashOf[o] = 0
  BY <1>2 DEF NewTorrent, Live, Fresh
<1>4. /\ hashOf' = [hashOf EXCEPT ![o] = h] /\ config' = config \cup {h}
      /\ fileList' = Put(fileList, h, o)
      /\ window' = TorrentStatusUpdated(window, h, o)
      /\ readded' = IF \E x \in Kept : hashOf[x] = h THEN readded \cup {h} ELSE readded
  BY <1>2 DEF NewTorrent
<1>5. /\ hashOf' \in [Object -> Hash \cup {0}] /\ hashOf'[o] = h
      /\ \A x \in Object : x # o => hashOf'[x] = hashOf[x]
      /\ \A x \in Object : hashOf[x] # 0 => x # o /\ hashOf'[x] = hashOf[x]
      /\ o \notin doomed
  BY <1>1, <1>3, <1>4 DEF ListTypeOK, Live
<1>6. /\ fileList' \in Maps(Object \cup {NoObject}) /\ DOMAIN fileList' = DOMAIN fileList \cup {h}
      /\ fileList'[h] = o
      /\ \A g \in DOMAIN fileList : g # h => fileList'[g] = fileList[g]
  <2>1. PICK T : T = Object \cup {NoObject}
    OBVIOUS
  <2>2. fileList \in Maps(T) /\ o \in T
    BY <1>1, <1>3, <2>1 DEF ListTypeOK
  <2>3. /\ fileList' \in Maps(T) /\ DOMAIN fileList' = DOMAIN fileList \cup {h}
        /\ fileList'[h] = o
        /\ \A g \in DOMAIN fileList : g # h => fileList'[g] = fileList[g]
    BY <1>4, <2>2, PutIs
  <2>4. QED
    BY <2>1, <2>3
<1>7. /\ window' \in WindowType
      /\ DOMAIN window'.idToRow = DOMAIN window.idToRow \cup {h}
  BY <1>1, <1>3, <1>4, ReportKeeps
<1>8. h # 0 /\ 0 \notin Hash
  BY ListAssumption
<1>9. ListTypeOK'
  <2>1. doomed' \subseteq Live'
    BY <1>1, <1>5 DEF ListTypeOK, Live
  <2>2. QED
    BY <1>1, <1>4, <1>5, <1>6, <1>7, <2>1 DEF ListTypeOK
<1>10. NamesInv'
  <2>1. ASSUME NEW g \in DOMAIN fileList', fileList'[g] # NoObject
        PROVE  hashOf'[fileList'[g]] = g /\ fileList'[g] \notin doomed'
    <3>1. CASE g = h
      BY <1>5, <1>6, <3>1
    <3>2. CASE g # h
      <4>1. g \in DOMAIN fileList /\ fileList'[g] = fileList[g]
            /\ hashOf[fileList[g]] = g /\ fileList[g] \notin doomed
        BY <1>6, <2>1, <3>2 DEF NamesInv
      <4>2. fileList[g] \in Object /\ g \in Hash
        BY <1>1, <2>1, <4>1, MapIs DEF ListTypeOK
      <4>3. QED
        BY <1>5, <1>8, <4>1, <4>2
    <3>3. QED
      BY <3>1, <3>2
  <2>2. QED
    BY <2>1 DEF NamesInv
<1>11. TableInv'
  <2>1. /\ Current(window')
        /\ RowsOf(window, hashOf, doomed, ghosts) => RowsOf(window', hashOf', doomed, ghosts)
        /\ RowsOf(window, hashOf, doomed, ghosts) /\ Seen(window, doomed)
           /\ (h \in DOMAIN window.idToRow => StatusAt(window, window.idToRow[h]) = o)
           => Seen(window', doomed)
    BY <1>1, <1>3, <1>4, <1>5, ReportTable DEF ListTypeOK
  <2>2. ASSUME ~holed, readded' = {}, ghosts = {} PROVE Seen(window', doomed)
    <3>1. /\ RowsOf(window, hashOf, doomed, ghosts) /\ readded = {}
          /\ ~(\E x \in Kept : hashOf[x] = h)
      BY <1>4, <2>2 DEF TableInv
    <3>2. h \notin DOMAIN window.idToRow
      <4> SUFFICES ASSUME h \in DOMAIN window.idToRow PROVE FALSE
        OBVIOUS
      <4>1. PICK x : x = StatusAt(window, window.idToRow[h])
        OBVIOUS
      <4>2. hashOf[x] = h /\ x \in Object \ doomed
        BY <1>1, <2>2, <3>1, <4>1, StatusIsObject DEF RowsOf
      <4>3. QED
        BY <1>8, <3>1, <4>2 DEF Kept, Live
    <3>3. QED
      BY <2>1, <2>2, <3>1, <3>2 DEF TableInv
  <2>3. QED
    BY <2>1, <2>2 DEF TableInv
<1>12. ListIsWhatRuns'
  <2>1. ASSUME NEW g \in Hash \ readded', g # h
        PROVE  /\ g \in Hash \ readded
               /\ {x \in Kept' : hashOf'[x] = g} = {x \in Kept : hashOf[x] = g}
               /\ g \in DOMAIN fileList' <=> g \in DOMAIN fileList
               /\ g \in DOMAIN fileList => fileList'[g] = fileList[g]
               /\ g \in DOMAIN window'.idToRow <=> g \in DOMAIN window.idToRow
               /\ g \in config' <=> g \in config
    BY <1>1, <1>3, <1>4, <1>5, <1>6, <1>7, <1>8, <2>1 DEF Kept, Live
  <2>2. ASSUME h \notin readded' PROVE {x \in Kept' : hashOf'[x] = h} = {o}
    BY <1>3, <1>4, <1>5, <1>8, <2>2 DEF Kept, Live
  <2>3. ASSUME NEW g \in Hash \ (readded' \cup ghosts')
        PROVE  LET runs == {x \in Kept' : hashOf'[x] = g}
               IN  IF runs = {}
                   THEN g \notin DOMAIN fileList' /\ g \notin DOMAIN window'.idToRow
                   ELSE /\ g \in DOMAIN fileList' /\ runs = {fileList'[g]}
                        /\ g \in DOMAIN window'.idToRow
                        /\ g \in config'
    <3>1. CASE g = h
      BY <1>4, <1>6, <1>7, <2>2, <2>3, <3>1
    <3>2. CASE g # h
      BY <2>1, <2>3, <3>2 DEF ListIsWhatRuns
    <3>3. QED
      BY <3>1, <3>2
  <2>4. QED
    BY <2>3 DEF ListIsWhatRuns
<1>13. QED
  BY <1>9, <1>10, <1>11, <1>12 DEF StoppedInv

LEMMA ReportStep ==
  ASSUME ListInv, NEW o \in Object, StatusChanged(o)
  PROVE  ListInv'
<1> USE DEF ListInv
<1>1. ListTypeOK /\ window \in WindowType /\ Current(window)
  BY DEF ListTypeOK, TableInv
<1>2. PICK h : h = hashOf[o]
  OBVIOUS
<1>3. /\ h \in Hash /\ o \in Live
      /\ window' = TorrentStatusUpdated(window, h, o)
      /\ ghosts' = IF o \in doomed THEN ghosts \cup {h} ELSE ghosts
      /\ UNCHANGED <<running, blocked, config, hashOf, doomed, fileList, holed, readded>>
  BY <1>1, <1>2 DEF StatusChanged, Live, ListTypeOK, torrents
<1>4. /\ window' \in WindowType
      /\ DOMAIN window'.idToRow = DOMAIN window.idToRow \cup {h}
  BY <1>1, <1>3, ReportKeeps
<1>5. ListTypeOK' /\ NamesInv'
  BY <1>1, <1>3, <1>4 DEF ListTypeOK, NamesInv, Live
<1>6. h \notin readded \cup ghosts' =>
        /\ o \notin doomed /\ ghosts' = ghosts
        /\ h \in DOMAIN window.idToRow /\ \A x \in Kept : hashOf[x] = h => x = o
  <2>1. ASSUME h \notin readded \cup ghosts'
        PROVE  o \in Kept /\ ghosts' = ghosts
    BY <1>3, <2>1 DEF Kept
  <2>2. QED
    BY <1>2, <1>3, <2>1 DEF ListIsWhatRuns, Kept
<1>7. TableInv'
  <2>1. /\ Current(window')
        /\ RowsOf(window, hashOf, doomed, ghosts) => RowsOf(window', hashOf, doomed, ghosts')
        /\ RowsOf(window, hashOf, doomed, ghosts) /\ Seen(window, doomed)
           /\ (h \in DOMAIN window.idToRow => StatusAt(window, window.idToRow[h]) = o)
           => Seen(window', doomed)
    <3>1. ghosts \subseteq ghosts' /\ (o \in doomed => h \in ghosts')
      BY <1>3
    <3>2. QED
      BY <1>1, <1>2, <1>3, <3>1, ReportTable DEF ListTypeOK
  <2>2. ASSUME ~holed, readded = {}, ghosts' = {} PROVE Seen(window', doomed)
    <3>1. /\ RowsOf(window, hashOf, doomed, ghosts) /\ Seen(window, doomed)
          /\ h \in DOMAIN window.idToRow /\ ghosts = {}
      BY <1>6, <2>2 DEF TableInv
    <3>2. PICK x : x = StatusAt(window, window.idToRow[h])
      OBVIOUS
    <3>3. hashOf[x] = h /\ x \in Object \ doomed
      BY <1>1, <3>1, <3>2, StatusIsObject DEF RowsOf
    <3>4. x = o
      BY <1>3, <1>6, <2>2, <3>3, ListAssumption DEF Kept, Live
    <3>5. QED
      BY <2>1, <3>1, <3>2, <3>4
  <2>3. QED
    BY <1>3, <2>1, <2>2 DEF TableInv
<1>8. ListIsWhatRuns'
  <2>1. \A g \in Hash \ (readded \cup ghosts') :
           g \notin ghosts /\ (g \in DOMAIN window'.idToRow <=> g \in DOMAIN window.idToRow)
    BY <1>3, <1>4, <1>6
  <2>2. QED
    BY <1>3, <2>1 DEF ListIsWhatRuns, Kept, Live
<1>9. QED
  BY <1>3, <1>5, <1>7, <1>8 DEF StoppedInv

LEMMA SelectStep ==
  ASSUME ListInv, NEW row, SelectRow(row)
  PROVE  ListInv'
<1> USE DEF ListInv
<1>1. window \in WindowType /\ row \in Rows(window)
  BY DEF ListTypeOK, SelectRow
<1>2. /\ window' = [UpdateBottomBar(window, row, window.current) EXCEPT !.current = row]
      /\ UNCHANGED <<running, blocked, config, hashOf, doomed, fileList, holed, readded, ghosts>>
  BY DEF SelectRow, torrents, history
<1>3. /\ window' \in WindowType /\ window'.idToRow = window.idToRow
      /\ window'.rowStatus = window.rowStatus /\ Rows(window') = Rows(window)
      /\ Current(window')
      /\ window.shown \ doomed \subseteq Pointed(window) /\ StatusAt(window, row) \notin doomed
         => Seen(window', doomed)
  BY <1>1, <1>2, BarFollows
<1>4. TableInv'
  <2>1. RowsOf(window, hashOf, doomed, ghosts) => RowsOf(window', hashOf, doomed, ghosts)
    BY <1>3 DEF RowsOf, StatusAt
  <2>2. ASSUME ~holed, readded = {}, ghosts = {} PROVE Seen(window', doomed)
    <3>1. RowsOf(window, hashOf, doomed, ghosts) /\ Seen(window, doomed)
      BY <2>2 DEF TableInv
    <3>2. StatusAt(window, row) \notin doomed
      BY <1>1, <2>2, <3>1 DEF RowsOf
    <3>3. QED
      BY <1>3, <3>1, <3>2 DEF Seen
  <2>3. QED
    BY <1>2, <1>3, <2>1, <2>2 DEF TableInv
<1>5. QED
  BY <1>2, <1>3, <1>4 DEF ListTypeOK, NamesInv, StoppedInv, ListIsWhatRuns, Kept, Live

LEMMA QuitStep ==
  ASSUME ListInv, Quit
  PROVE  ListInv'
<1>1. /\ window' = EmptyWindow /\ fileList' = <<>> /\ hashOf' = [o \in Object |-> 0]
      /\ config' = config /\ readded' = {} /\ ghosts' = {} /\ doomed' = {}
      /\ holed' = FALSE /\ running' = FALSE /\ blocked' = FALSE
  BY DEF Quit
<1>2. /\ fileList' \in Maps(Object \cup {NoObject}) /\ DOMAIN fileList' = {}
      /\ window' \in WindowType /\ Rows(window') = {} /\ DOMAIN window'.idToRow = {}
      /\ window'.shown = {} /\ ~window'.deletable /\ window'.current = -1
  BY <1>1, EmptyMap, EmptyIsWindow
<1>3. ListTypeOK' /\ NamesInv'
  BY <1>1, <1>2 DEF ListTypeOK, NamesInv, ListInv, Live
<1>4. TableInv'
  BY <1>2 DEF TableInv, Current, RowsOf, Seen
<1>5. ListIsWhatRuns'
  BY <1>1, <1>2 DEF ListIsWhatRuns, Kept, Live
<1>6. QED
  BY <1>1, <1>3, <1>4, <1>5 DEF ListInv, StoppedInv

-----------------------------------------------------------------------------
(***************************************************************************)
(* Starting.                                                               *)
(***************************************************************************)
LEMMA StartStep ==
  ASSUME ListInv, NEW kept \in SUBSET config, NEW n \in Nat, NEW order \in [1 .. n -> kept],
         UpdateDownloadList(order, kept)
  PROVE  ListInv'
<1>0. doomed = {}
  BY DEF ListInv, StoppedInv, UpdateDownloadList
<1> DEFINE loaded == Range(order)
           Row(h) == CHOOSE k \in 1 .. n : order[k] = h
<1>1. PICK slot : slot = CHOOSE f \in Injection(loaded, Object) : TRUE
  OBVIOUS
<1>2. slot \in [loaded -> Object] /\ \A g, h \in loaded : slot[g] = slot[h] => g = h
  <2>1. slot \in Injection(loaded, Object)
    BY <1>1 DEF UpdateDownloadList
  <2>2. QED
    BY <2>1 DEF Injection, IsInjective
<1>3. /\ running' = TRUE /\ config' = kept /\ fileList' = slot
      /\ hashOf' = [o \in Object |->
              IF \E h \in loaded : slot[h] = o THEN CHOOSE h \in loaded : slot[h] = o ELSE 0]
      /\ window' = Filled(order, slot)
      /\ blocked' = blocked /\ doomed' = {}
      /\ holed' = holed /\ readded' = readded /\ ghosts' = ghosts
  BY <1>0, <1>1 DEF UpdateDownloadList, history
<1>4. loaded \subseteq kept /\ kept \subseteq Hash /\ config \subseteq Hash
  BY DEF ListInv, ListTypeOK, Range
<1>5. ASSUME NEW h \in loaded
      PROVE  Row(h) \in 1 .. n /\ order[Row(h)] = h
  BY <1>5 DEF Range
<1>6. \A j, k \in 1 .. n : order[j] = order[k] => j = k
  <2>1. \A j, k \in 1 .. n : j < k => order[j] < order[k]
    BY DEF UpdateDownloadList
  <2>2. \A j \in 1 .. n : order[j] \in Nat
    BY <1>4, ListAssumption
  <2>3. QED
    BY <2>1, <2>2
<1>7. ASSUME NEW k \in 1 .. n
      PROVE  order[k] \in loaded /\ Row(order[k]) = k
  <2>1. order[k] \in loaded
    BY DEF Range
  <2>2. QED
    BY <1>5, <1>6, <2>1
<1> HIDE DEF loaded
<1>8. /\ \A o \in Object : hashOf'[o] \in loaded \cup {0}
      /\ \A h \in loaded : slot[h] \in Object /\ hashOf'[slot[h]] = h
      /\ \A o \in Object : \A h \in loaded : hashOf'[o] = h => o = slot[h]
  <2>1. 0 \notin loaded
    BY <1>4, ListAssumption
  <2>2. ASSUME NEW o \in Object
        PROVE  \/ hashOf'[o] \in loaded /\ slot[hashOf'[o]] = o
               \/ hashOf'[o] = 0 /\ \A h \in loaded : slot[h] # o
    BY <1>3
  <2>3. ASSUME NEW h \in loaded PROVE slot[h] \in Object /\ hashOf'[slot[h]] = h
    BY <1>2, <2>2
  <2>4. QED
    BY <2>1, <2>2, <2>3
<1>9. hashOf' \in [Object -> Hash \cup {0}]
  BY <1>3, <1>4, <1>8
<1>10. fileList' \in Maps(Object \cup {NoObject}) /\ DOMAIN fileList' = loaded
  BY <1>2, <1>3, <1>4 DEF Maps
<1>11. PICK m : m = [h \in loaded |-> Row(h) - 1]
  OBVIOUS
<1>12. PICK s : s = [k \in 1 .. n |-> slot[order[k]]]
  OBVIOUS
<1>13. /\ m \in Maps(Nat) /\ DOMAIN m = loaded /\ \A h \in loaded : m[h] = Row(h) - 1
       /\ \A h \in loaded : m[h] \in 0 .. n - 1
  <2>1. \A h \in loaded : Row(h) - 1 \in Nat /\ Row(h) - 1 \in 0 .. n - 1
    BY <1>5
  <2>2. m \in [loaded -> Nat] /\ DOMAIN m = loaded /\ \A h \in loaded : m[h] = Row(h) - 1
    BY <1>11, <2>1
  <2>3. QED
    BY <1>4, <2>1, <2>2 DEF Maps
<1>14. s \in Seq(Object) /\ Len(s) = n /\ \A k \in 1 .. n : s[k] = slot[order[k]]
  <2>1. \A k \in 1 .. n : slot[order[k]] \in Object
    BY <1>2, <1>7
  <2>2. s \in [1 .. n -> Object]
    BY <1>12, <2>1
  <2>3. QED
    BY <1>12, <2>2
<1>15. /\ window' \in WindowType /\ window'.idToRow = m /\ window'.rowStatus = s
       /\ window'.shown = {} /\ ~window'.deletable /\ window'.current = -1
  <2>1. window' = [EmptyWindow EXCEPT !.idToRow = m, !.rowStatus = s]
    BY <1>3, <1>11, <1>12 DEF Filled, loaded
  <2>2. QED
    BY <1>13, <1>14, <2>1, EmptyIsWindow DEF WindowType
<1>15a. doomed' = {} /\ Kept' = Live' /\ Live' = {o \in Object : hashOf'[o] # 0}
  BY <1>3 DEF Kept, Live
<1>16. RowsOf(window', hashOf', doomed', ghosts')
  <2>1. Rows(window') = 0 .. n - 1 /\ \A r \in 0 .. n - 1 : StatusAt(window', r) = slot[order[r + 1]]
    BY <1>14, <1>15 DEF Rows, StatusAt
  <2>2. ASSUME NEW h \in loaded
        PROVE  m[h] \in Rows(window') /\ hashOf'[StatusAt(window', m[h])] = h
    <3>1. m[h] \in 0 .. n - 1 /\ m[h] + 1 = Row(h)
      BY <1>5, <1>13
    <3>2. StatusAt(window', m[h]) = slot[h]
      BY <1>5, <2>1, <3>1
    <3>3. QED
      BY <1>8, <2>1, <3>1, <3>2
  <2>3. ASSUME NEW r \in Rows(window') PROVE \E h \in loaded : m[h] = r
    <3>1. r + 1 \in 1 .. n /\ r \in Int
      BY <2>1
    <3>2. PICK k \in 1 .. n : k = r + 1
      BY <3>1
    <3>3. PICK h : h = order[k]
      OBVIOUS
    <3>4. h \in loaded /\ Row(h) = k
      BY <1>7, <3>3
    <3>5. m[h] = k - 1
      BY <1>13, <3>4
    <3>6. QED
      BY <3>1, <3>2, <3>4, <3>5
  <2>4. \A g, h \in loaded : m[g] = m[h] => g = h
    <3>1. \A h \in loaded : m[h] = Row(h) - 1 /\ Row(h) \in 1 .. n /\ order[Row(h)] = h
      BY <1>5, <1>13
    <3>2. QED
      BY <3>1
  <2>5. QED
    BY <1>13, <1>15, <1>15a, <2>2, <2>3, <2>4 DEF RowsOf
<1>17. TableInv'
  <2>1. -1 \notin Rows(window')
    BY <1>14, <1>15 DEF Rows
  <2>2. QED
    BY <1>3, <1>15, <1>16, <2>1 DEF TableInv, Current, Seen, Pointed
<1>18. ListTypeOK'
  BY <1>3, <1>4, <1>9, <1>10, <1>15 DEF ListInv, ListTypeOK, Live
<1>19. NamesInv'
  BY <1>3, <1>8, <1>10 DEF NamesInv
<1>20. ListIsWhatRuns'
  <2>1. ASSUME NEW h \in Hash
        PROVE  IF h \in loaded THEN {o \in Kept' : hashOf'[o] = h} = {slot[h]}
               ELSE {o \in Kept' : hashOf'[o] = h} = {}
    BY <1>8, <1>15a, ListAssumption
  <2>2. QED
    <3>1. fileList' = slot /\ config' = kept /\ DOMAIN window'.idToRow = loaded
      BY <1>3, <1>13, <1>15
    <3>2. ASSUME NEW h \in Hash
          PROVE  LET runs == {o \in Kept' : hashOf'[o] = h}
                 IN  IF runs = {}
                     THEN h \notin DOMAIN fileList' /\ h \notin DOMAIN window'.idToRow
                     ELSE /\ h \in DOMAIN fileList' /\ runs = {fileList'[h]}
                          /\ h \in DOMAIN window'.idToRow
                          /\ h \in config'
      BY <1>4, <1>10, <2>1, <3>1
    <3>3. QED
      BY <3>2 DEF ListIsWhatRuns
<1>21. QED
  BY <1>3, <1>17, <1>18, <1>19, <1>20 DEF ListInv, StoppedInv

-----------------------------------------------------------------------------
(***************************************************************************)
(* Deletion.                                                               *)
(***************************************************************************)

\* The torrent that deleteFile takes has the number of the current row.
LEMMA DeletedHasRow ==
  ASSUME ListInv, IdsAt(window, window.current) # {}
  PROVE  LET ids == IdsAt(window, window.current)
             h   == CHOOSE x \in ids : \A y \in ids : x <= y
         IN  /\ h \in DOMAIN window.idToRow /\ h \in Hash
             /\ window.idToRow[h] = window.current
             /\ window.current \in Rows(window)
<1> DEFINE ids == IdsAt(window, window.current)
<1>1. window \in WindowType /\ Current(window) /\ window.idToRow \in Maps(Nat)
  BY DEF ListInv, ListTypeOK, TableInv, WindowType
<1>2. DOMAIN window.idToRow \subseteq Hash /\ \A h \in DOMAIN window.idToRow : window.idToRow[h] \in Nat
  BY <1>1 DEF Maps
<1>3. ids \subseteq Nat /\ ids # {}
  BY <1>2, ListAssumption DEF IdsAt
<1>4. \E x \in ids : \A y \in ids : x <= y
  <2> HIDE DEF ids
  <2>1. QED
    BY <1>3, LeastOf
<1>5. PICK h : h = CHOOSE x \in ids : \A y \in ids : x <= y
  OBVIOUS
<1>6. h \in ids
  <2> HIDE DEF ids
  <2>1. QED
    BY <1>4, <1>5
<1>7. h \in DOMAIN window.idToRow /\ window.idToRow[h] = window.current
  BY <1>6 DEF IdsAt
<1>8. QED
  BY <1>1, <1>2, <1>5, <1>7 DEF Current

\* The torrent of h leaves the list; the deletion of its object, if it is listed,
\* is posted.
LEMMA RemovedIs ==
  ASSUME ListInv, NEW h \in Hash, RemoveTorrent(h), hashOf' = hashOf
  PROVE  /\ config' \subseteq Hash /\ doomed \subseteq doomed' /\ doomed' \subseteq Live
         /\ fileList' \in Maps(Object \cup {NoObject})
         /\ NamesInv'
         /\ \A x \in doomed' \ doomed : h \in DOMAIN fileList /\ x = fileList[h] /\ hashOf[x] = h
         /\ \A g \in Hash : g # h =>
               /\ g \in DOMAIN fileList' <=> g \in DOMAIN fileList
               /\ g \in DOMAIN fileList => fileList'[g] = fileList[g]
               /\ g \in config' <=> g \in config
         /\ h \in DOMAIN fileList /\ fileList[h] # NoObject =>
               h \notin DOMAIN fileList' /\ fileList[h] \in doomed'
<1>1. /\ ListTypeOK /\ NamesInv /\ fileList \in Maps(Object \cup {NoObject})
      /\ DOMAIN fileList \subseteq Hash
      /\ \A g \in DOMAIN fileList : fileList[g] \in Object \cup {NoObject}
  BY DEF ListInv, ListTypeOK, Maps
<1>2. PICK T : T = Object \cup {NoObject}
  OBVIOUS
<1>3. h # 0 /\ 0 \notin Hash /\ NoObject \notin Object
  BY ListAssumption
<1>4. CASE At(fileList, h) = NoObject
  <2>1. /\ fileList' = Put(fileList, h, NoObject) /\ config' = config /\ doomed' = doomed
    BY <1>4 DEF RemoveTorrent
  <2>3. /\ fileList' \in Maps(Object \cup {NoObject})
        /\ DOMAIN fileList' = DOMAIN fileList \cup {h}
        /\ fileList'[h] = NoObject
        /\ \A g \in DOMAIN fileList : g # h => fileList'[g] = fileList[g]
    BY <1>1, <2>1, PutNull
  <2>4. ~(h \in DOMAIN fileList /\ fileList[h] # NoObject)
    BY <1>4 DEF At
  <2>5. NamesInv'
    BY <1>1, <2>1, <2>3 DEF NamesInv
  <2>6. QED
    BY <1>1, <1>2, <2>1, <2>3, <2>4, <2>5 DEF ListTypeOK
<1>5. CASE At(fileList, h) # NoObject
  <2>1. PICK o : o = At(fileList, h)
    OBVIOUS
  <2>2. h \in DOMAIN fileList /\ o = fileList[h] /\ o \in Object /\ hashOf[o] = h
    BY <1>1, <1>5, <2>1 DEF At, NamesInv
  <2>3. /\ fileList' = Erased(fileList, h) /\ config' = config \ {h}
        /\ doomed' = doomed \cup {o}
    BY <1>5, <2>1 DEF RemoveTorrent
  <2>4. fileList \in Maps(T)
    BY <1>1, <1>2
  <2>5. /\ fileList' \in Maps(T) /\ DOMAIN fileList' = DOMAIN fileList \ {h}
        /\ \A g \in DOMAIN fileList : g # h => fileList'[g] = fileList[g]
    BY <2>3, <2>4, ErasedIs
  <2>6. doomed' \subseteq Live
    BY <1>1, <1>3, <2>2, <2>3 DEF ListTypeOK, Live
  <2>7. NamesInv'
    <3>1. ASSUME NEW g \in DOMAIN fileList', fileList'[g] # NoObject
          PROVE  hashOf'[fileList'[g]] = g /\ fileList'[g] \notin doomed'
      <4>1. /\ g \in DOMAIN fileList /\ g # h /\ fileList'[g] = fileList[g]
            /\ hashOf[fileList[g]] = g /\ fileList[g] \notin doomed
        BY <1>1, <2>5, <3>1 DEF NamesInv
      <4>2. QED
        BY <2>2, <2>3, <4>1
    <3>2. QED
      BY <3>1 DEF NamesInv
  <2>8. QED
    BY <1>1, <1>2, <2>2, <2>3, <2>5, <2>6, <2>7 DEF ListTypeOK
<1>6. QED
  BY <1>4, <1>5

LEMMA RemoveAtIs ==
  ASSUME NEW T, NEW s \in Seq(T), NEW i \in 1 .. Len(s)
  PROVE  /\ RemoveAt(s, i) \in Seq(T)
         /\ Len(RemoveAt(s, i)) = Len(s) - 1
         /\ \A k \in 1 .. i - 1 : RemoveAt(s, i)[k] = s[k]
<1>1. PICK a : a = SubSeq(s, 1, i - 1)
  OBVIOUS
<1>2. PICK b : b = SubSeq(s, i + 1, Len(s))
  OBVIOUS
<1>3. Len(s) \in Nat /\ i \in Nat /\ 1 <= i /\ i <= Len(s)
  BY LenProperties
<1>4. a \in Seq(T) /\ Len(a) = i - 1 /\ \A k \in 1 .. i - 1 : a[k] = s[k]
  <2>1. PICK j : j = i - 1
    OBVIOUS
  <2>2. \A k \in 1 .. j : s[k] \in T
    BY <1>3, <2>1, ElementOfSeq
  <2>3. a \in Seq(T) /\ Len(a) = IF 1 <= j THEN j - 1 + 1 ELSE 0
    BY <1>1, <1>3, <2>1, <2>2, SubSeqProperties
  <2>4. \A k \in 1 .. j : a[k] = s[k]
    BY <1>1, <1>3, <2>1, <2>2, SubSeqProperties
  <2>5. QED
    BY <1>3, <2>1, <2>3, <2>4
<1>5. b \in Seq(T) /\ Len(b) = Len(s) - i
  BY <1>2, <1>3, ElementOfSeq, SubSeqProperties
<1>6. RemoveAt(s, i) = a \o b
  BY <1>1, <1>2 DEF RemoveAt
<1>7. /\ a \o b \in Seq(T) /\ Len(a \o b) = Len(a) + Len(b)
      /\ \A k \in 1 .. Len(a) : (a \o b)[k] = a[k]
  <2>1. a \in Seq(T) /\ b \in Seq(T) /\ Len(a) \in Nat /\ Len(b) \in Nat
    BY <1>4, <1>5, LenProperties
  <2>2. /\ a \o b \in Seq(T) /\ Len(a \o b) = Len(a) + Len(b)
        /\ \A k \in 1 .. Len(a) + Len(b) :
              (a \o b)[k] = IF k <= Len(a) THEN a[k] ELSE b[k - Len(a)]
    BY <2>1, ConcatProperties
  <2>3. QED
    BY <2>1, <2>2
<1>8. QED
  BY <1>3, <1>4, <1>5, <1>6, <1>7

\* Without the current row, before the table and after.
RowErased(w, h) ==
  [w EXCEPT !.idToRow = MovedUp(Erased(@, h), w.current),
            !.rowStatus = RemoveAt(@, w.current + 1)]
AfterRemoval(w, h) == [RowRemoved(RowErased(w, h), w.current) EXCEPT !.deletable = FALSE]

\* The table when the current row is gone.
LEMMA RowRemovedIs ==
  ASSUME NEW w \in WindowType, w.current \in Rows(w), NEW h \in Hash, NEW v,
         v = AfterRemoval(w, h)
  PROVE  /\ v \in WindowType /\ v.idToRow = Erased(w.idToRow, h)
         /\ ~v.deletable /\ Current(v)
         /\ Rows(v) = 0 .. Len(w.rowStatus) - 2
         /\ \A r \in Rows(v) : r < w.current => StatusAt(v, r) = StatusAt(w, r)
         /\ w.current = Len(w.rowStatus) - 1 =>
               v.shown \subseteq w.shown \cup Pointed(v)
<1>1. PICK row : row = w.current
  OBVIOUS
<1>2. PICK n : n = Len(w.rowStatus) - 1
  OBVIOUS
<1>3. /\ n \in Nat /\ row \in 0 .. n /\ row + 1 \in 1 .. Len(w.rowStatus)
      /\ w.rowStatus \in Seq(Object) /\ w.idToRow \in Maps(Nat)
      /\ w.shown \subseteq Object /\ Len(w.rowStatus) = n + 1
  BY <1>1, <1>2, StatusIsObject DEF WindowType, Rows
<1>4. PICK m : m = Erased(w.idToRow, h)
  OBVIOUS
<1>5. PICK s : s = RemoveAt(w.rowStatus, row + 1)
  OBVIOUS
<1>6. m \in Maps(Nat)
  BY <1>3, <1>4, ErasedIs
<1>7. s \in Seq(Object) /\ Len(s) = n /\ \A k \in 1 .. row : s[k] = w.rowStatus[k]
  BY <1>3, <1>5, RemoveAtIs
<1>0. PICK e : e = RowErased(w, h)
  OBVIOUS
<1>8. e = [w EXCEPT !.idToRow = m, !.rowStatus = s]
  BY <1>0, <1>1, <1>4, <1>5 DEF RowErased, MovedUp, WindowType
<1>9. /\ e \in WindowType /\ e.idToRow = m /\ e.rowStatus = s /\ e.shown = w.shown
      /\ Rows(e) = 0 .. n - 1
  BY <1>6, <1>7, <1>8 DEF WindowType, Rows
<1>10. PICK next : next = IF row < n THEN row + 1 ELSE row - 1
  OBVIOUS
<1>11. PICK u : u = UpdateBottomBar(e, next, row)
  OBVIOUS
<1>12. /\ u \in WindowType /\ u.idToRow = m /\ u.rowStatus = s
       /\ row = n => \A o \in u.shown :
             o \in w.shown \/ (next \in Rows(e) /\ o = StatusAt(e, next))
  <2>1. CASE next \notin Rows(e)
    BY <1>9, <1>11, <2>1 DEF UpdateBottomBar
  <2>2. CASE next \in Rows(e)
    <3>1. PICK x : x = (e.shown \ (IF row \in Rows(e) THEN {StatusAt(e, row)} ELSE {}))
                          \cup {StatusAt(e, next)}
      OBVIOUS
    <3>2. u = [e EXCEPT !.shown = x, !.deletable = TRUE]
      BY <1>11, <2>2, <3>1 DEF UpdateBottomBar, WindowType
    <3>3. x \subseteq Object
      BY <1>3, <1>9, <2>2, <3>1, StatusIsObject
    <3>4. /\ u \in WindowType /\ u.idToRow = m /\ u.rowStatus = s /\ u.shown = x
      BY <1>9, <3>2, <3>3 DEF WindowType
    <3>5. \A o \in x : o \in w.shown \/ o = StatusAt(e, next)
      BY <1>9, <3>1
    <3>6. QED
      BY <2>2, <3>4, <3>5
  <2>3. QED
    BY <2>1, <2>2
<1>13. PICK c : c = IF row < n THEN row ELSE row - 1
  OBVIOUS
<1>14. PICK y : y = u.shown
  OBVIOUS
<1>15. v = [u EXCEPT !.current = c, !.deletable = FALSE]
  <2>1. RowRemoved(e, row) = [u EXCEPT !.current = c]
    BY <1>7, <1>9, <1>10, <1>11, <1>13 DEF RowRemoved
  <2>2. QED
    BY <1>0, <1>1, <1>12, <2>1 DEF AfterRemoval, WindowType
<1>16. c \in Int /\ y \subseteq Object
  BY <1>3, <1>12, <1>13, <1>14 DEF WindowType
<1>17. /\ v \in WindowType /\ v.idToRow = m /\ v.rowStatus = s /\ v.current = c
       /\ ~v.deletable /\ v.shown = y /\ Rows(v) = 0 .. n - 1
  BY <1>7, <1>12, <1>14, <1>15, <1>16 DEF WindowType, Rows
<1>18. Current(v)
  BY <1>3, <1>13, <1>17 DEF Current
<1>19. ASSUME NEW r \in Rows(v), r < row PROVE StatusAt(v, r) = StatusAt(w, r)
  <2>1. PICK k : k = r + 1
    OBVIOUS
  <2>2. k \in 1 .. row
    BY <1>3, <1>17, <1>19, <2>1
  <2>3. s[k] = w.rowStatus[k]
    BY <1>7, <2>2
  <2>4. QED
    BY <1>17, <2>1, <2>3 DEF StatusAt
<1>20. ASSUME row = n, NEW o \in v.shown PROVE o \in w.shown \cup Pointed(v)
  <2>1. o \in w.shown \/ (next \in Rows(e) /\ o = StatusAt(e, next))
    BY <1>12, <1>14, <1>17, <1>20
  <2>2. next = c
    BY <1>3, <1>10, <1>13, <1>20
  <2>3. next \in Rows(e) => StatusAt(e, next) \in Pointed(v)
    BY <1>9, <1>17, <2>2 DEF Pointed, StatusAt
  <2>4. QED
    BY <2>1, <2>3
<1>21. Rows(v) = 0 .. Len(w.rowStatus) - 2
  BY <1>3, <1>17
<1>15a. w.current = Len(w.rowStatus) - 1 =>
         v.shown \subseteq w.shown \cup Pointed(v)
  BY <1>1, <1>2, <1>20
<1>23. QED
  BY <1>1, <1>4, <1>17, <1>18, <1>19, <1>21, <1>15a

\* No torrent has the number of the current row: only the button goes grey.
LEMMA NothingDeletedStep ==
  ASSUME ListInv, DeleteFile, IdsAt(window, window.current) = {}
  PROVE  ListInv' /\ UNCHANGED <<hashOf, doomed>>
<1> USE DEF ListInv
<1>1. window \in WindowType
  BY DEF ListTypeOK
<1>2. /\ window' = [window EXCEPT !.deletable = FALSE]
      /\ UNCHANGED <<running, blocked, config, hashOf, doomed, fileList, holed, readded, ghosts>>
  BY DEF DeleteFile
<1>3. /\ window' \in WindowType /\ window'.idToRow = window.idToRow
      /\ window'.rowStatus = window.rowStatus /\ window'.shown = window.shown
      /\ window'.current = window.current /\ ~window'.deletable
      /\ Rows(window') = Rows(window)
  BY <1>1, <1>2 DEF WindowType, Rows
<1>4. TableInv'
  <2>1. \A r : StatusAt(window', r) = StatusAt(window, r)
    BY <1>3 DEF StatusAt
  <2>2. Current(window')
    BY <1>3 DEF TableInv, Current
  <2>3. RowsOf(window, hashOf, doomed, ghosts) => RowsOf(window', hashOf', doomed', ghosts')
    <3>1. ASSUME NEW g \in DOMAIN window.idToRow, RowsOf(window, hashOf, doomed, ghosts)
          PROVE  /\ window'.idToRow[g] \in Rows(window')
                 /\ g \notin ghosts' =>
                      /\ hashOf'[StatusAt(window', window'.idToRow[g])] = g
                      /\ StatusAt(window', window'.idToRow[g]) \notin doomed'
      <4>1. PICK r : r = window.idToRow[g]
        OBVIOUS
      <4>2. /\ r \in Rows(window)
            /\ g \notin ghosts => hashOf[StatusAt(window, r)] = g /\ StatusAt(window, r) \notin doomed
        BY <3>1, <4>1 DEF RowsOf
      <4>3. StatusAt(window', r) = StatusAt(window, r)
        BY <2>1
      <4>4. QED
        BY <1>2, <1>3, <4>1, <4>2, <4>3
    <3>2. ASSUME NEW r \in Rows(window'), RowsOf(window, hashOf, doomed, ghosts)
          PROVE  \E g \in DOMAIN window'.idToRow : window'.idToRow[g] = r
      BY <1>3, <3>2 DEF RowsOf
    <3>3. QED
      BY <1>3, <3>1, <3>2 DEF RowsOf
  <2>4. Seen(window, doomed) => Seen(window', doomed)
    <3>1. Pointed(window') = Pointed(window)
      BY <1>3, <2>1 DEF Pointed
    <3>2. QED
      BY <1>3, <3>1 DEF Seen
  <2>5. QED
    BY <1>2, <2>2, <2>3, <2>4 DEF TableInv
<1>5. QED
  BY <1>2, <1>3, <1>4 DEF ListTypeOK, NamesInv, StoppedInv, ListIsWhatRuns, Kept, Live

\* A torrent with the number of the current row is deleted.
LEMMA DeletedStep ==
  ASSUME ListInv, DeleteFile, IdsAt(window, window.current) # {}
  PROVE  /\ ListInv'
         /\ ~holed => \A x \in Kept : x \notin Kept' /\ hashOf[x] \notin readded \cup ghosts =>
                          window.deletable /\ StatusAt(window, window.current) = x
<1>1. PICK h : h = CHOOSE x \in IdsAt(window, window.current) :
                      \A y \in IdsAt(window, window.current) : x <= y
  OBVIOUS
<1>3. /\ RemoveTorrent(h)
      /\ window' = AfterRemoval(window, h)
      /\ holed' = (holed \/ window.current # Len(window.rowStatus) - 1)
      /\ UNCHANGED <<running, blocked, hashOf, readded, ghosts>>
      /\ window.deletable /\ running
  BY <1>1 DEF DeleteFile, AfterRemoval, RowErased, UserActs, Serving
<1>4. /\ h \in DOMAIN window.idToRow /\ h \in Hash /\ h # 0
      /\ window.idToRow[h] = window.current /\ window.current \in Rows(window)
  BY <1>1, DeletedHasRow, ListAssumption
<1>5. /\ window \in WindowType /\ TableInv /\ ListIsWhatRuns /\ ListTypeOK
      /\ window.idToRow \in Maps(Nat) /\ DOMAIN window.idToRow \subseteq Hash
      /\ \A g \in DOMAIN window.idToRow : window.idToRow[g] \in Nat
  BY DEF ListInv, ListTypeOK, WindowType, Maps
<1>6. /\ config' \subseteq Hash /\ doomed \subseteq doomed' /\ doomed' \subseteq Live
      /\ fileList' \in Maps(Object \cup {NoObject})
      /\ NamesInv'
      /\ \A x \in doomed' \ doomed : h \in DOMAIN fileList /\ x = fileList[h] /\ hashOf[x] = h
      /\ \A g \in Hash : g # h =>
            /\ g \in DOMAIN fileList' <=> g \in DOMAIN fileList
            /\ g \in DOMAIN fileList => fileList'[g] = fileList[g]
            /\ g \in config' <=> g \in config
      /\ h \in DOMAIN fileList /\ fileList[h] # NoObject =>
            h \notin DOMAIN fileList' /\ fileList[h] \in doomed'
  BY <1>3, <1>4, RemovedIs
<1>7. /\ window' \in WindowType /\ window'.idToRow = Erased(window.idToRow, h)
      /\ ~window'.deletable /\ Current(window')
      /\ Rows(window') = 0 .. Len(window.rowStatus) - 2
      /\ \A r \in Rows(window') : r < window.current =>
            StatusAt(window', r) = StatusAt(window, r)
      /\ window.current = Len(window.rowStatus) - 1 =>
            window'.shown \subseteq window.shown \cup Pointed(window')
  <2>1. PICK w, v : w = window /\ v = window'
    OBVIOUS
  <2>2. w \in WindowType /\ w.current \in Rows(w)
    BY <1>4, <1>5, <2>1
  <2>3. v = AfterRemoval(w, h)
    BY <1>3, <2>1
  <2>4. /\ v \in WindowType /\ v.idToRow = Erased(w.idToRow, h)
        /\ ~v.deletable /\ Current(v)
        /\ Rows(v) = 0 .. Len(w.rowStatus) - 2
        /\ \A r \in Rows(v) : r < w.current => StatusAt(v, r) = StatusAt(w, r)
        /\ w.current = Len(w.rowStatus) - 1 => v.shown \subseteq w.shown \cup Pointed(v)
    BY <1>4, <2>2, <2>3, RowRemovedIs
  <2>5. QED
    BY <2>1, <2>4
<1>8. /\ DOMAIN window'.idToRow = DOMAIN window.idToRow \ {h}
      /\ \A g \in DOMAIN window.idToRow : g # h => window'.idToRow[g] = window.idToRow[g]
  BY <1>7 DEF Erased
<1>9. ListTypeOK' /\ Live' = Live
  BY <1>3, <1>5, <1>6, <1>7 DEF ListTypeOK, Live
\* What ran under h, when it was added once, is going.
<1>10. ASSUME h \notin readded \cup ghosts
       PROVE  /\ h \notin DOMAIN fileList'
              /\ \A x \in Kept : hashOf[x] = h => x = fileList[h] /\ x \in doomed'
              /\ \A x \in Kept' : hashOf[x] # h
  <2>1. PICK runs : runs = {x \in Kept : hashOf[x] = h}
    OBVIOUS
  <2>2. h \in DOMAIN fileList /\ runs = {fileList[h]}
    BY <1>4, <1>5, <1>10, <2>1 DEF ListIsWhatRuns
  <2>3. \A x \in Kept : hashOf[x] = h => x = fileList[h]
    BY <2>1, <2>2
  <2>4. fileList[h] \in Object
    BY <2>1, <2>2 DEF Kept, Live
  <2>5. fileList[h] # NoObject
    BY <2>4, ListAssumption
  <2>6. h \notin DOMAIN fileList' /\ fileList[h] \in doomed'
    BY <1>6, <2>2, <2>5
  <2>7. \A x \in Kept' : x \in Kept /\ x \notin doomed'
    BY <1>6, <1>9 DEF Kept
  <2>8. QED
    BY <2>3, <2>6, <2>7
<1>11. ListIsWhatRuns'
  <2>1. ASSUME NEW g \in Hash \ (readded \cup ghosts), g # h
        PROVE  /\ {x \in Kept' : hashOf'[x] = g} = {x \in Kept : hashOf[x] = g}
               /\ g \in DOMAIN fileList' <=> g \in DOMAIN fileList
               /\ g \in DOMAIN fileList => fileList'[g] = fileList[g]
               /\ g \in DOMAIN window'.idToRow <=> g \in DOMAIN window.idToRow
               /\ g \in config' <=> g \in config
    <3>1. \A x \in Object : hashOf[x] = g => (x \in doomed' <=> x \in doomed)
      BY <1>6, <2>1
    <3>2. \A x \in Live : hashOf[x] = g => (x \in Kept' <=> x \in Kept)
      BY <1>9, <3>1 DEF Kept, Live
    <3>3. Kept \subseteq Live /\ Kept' \subseteq Live
      BY <1>9 DEF Kept
    <3>4. {x \in Kept' : hashOf'[x] = g} = {x \in Kept : hashOf[x] = g}
      BY <1>3, <3>2, <3>3
    <3>5. QED
      BY <1>6, <1>8, <2>1, <3>4
  <2>2. ASSUME h \notin readded \cup ghosts
        PROVE  {x \in Kept' : hashOf'[x] = h} = {} /\ h \notin DOMAIN window'.idToRow
    BY <1>3, <1>8, <1>10, <2>2
  <2>3. ASSUME NEW g \in Hash \ (readded' \cup ghosts')
        PROVE  LET runs == {x \in Kept' : hashOf'[x] = g}
               IN  IF runs = {}
                   THEN g \notin DOMAIN fileList' /\ g \notin DOMAIN window'.idToRow
                   ELSE /\ g \in DOMAIN fileList' /\ runs = {fileList'[g]}
                        /\ g \in DOMAIN window'.idToRow
                        /\ g \in config'
    <3>1. CASE g = h
      BY <1>3, <1>10, <2>2, <2>3, <3>1
    <3>2. CASE g # h
      BY <1>3, <1>5, <2>1, <2>3, <3>2 DEF ListIsWhatRuns
    <3>3. QED
      BY <3>1, <3>2
  <2>4. QED
    BY <2>3 DEF ListIsWhatRuns
\* No other torrent has the row.
<1>12. ASSUME ~holed
       PROVE  /\ RowsOf(window, hashOf, doomed, ghosts)
              /\ StatusAt(window, window.current) \in Object
              /\ h \notin ghosts => /\ StatusAt(window, window.current) \in Kept
                                    /\ hashOf[StatusAt(window, window.current)] = h
              /\ \A g \in DOMAIN window.idToRow :
                    g # h => window.idToRow[g] # window.current
  <2>1. RowsOf(window, hashOf, doomed, ghosts)
    BY <1>5, <1>12 DEF TableInv
  <2>2. QED
    BY <1>4, <1>5, <2>1, StatusIsObject DEF RowsOf, Kept, Live
<1>13. ASSUME ~holed' PROVE RowsOf(window', hashOf', doomed', ghosts')
  <2>1. ~holed /\ window.current = Len(window.rowStatus) - 1
    BY <1>3, <1>13
  <2>2. PICK n : n = window.current
    OBVIOUS
  <2>3. /\ n \in Nat /\ Rows(window) = 0 .. n /\ Rows(window') = 0 .. n - 1
    BY <1>4, <1>5, <1>7, <2>1, <2>2, StatusIsObject DEF Rows
  <2>4. /\ RowsOf(window, hashOf, doomed, ghosts)
        /\ \A g \in DOMAIN window.idToRow : g # h => window.idToRow[g] # n
    BY <1>12, <2>1, <2>2
  <2>5. ASSUME NEW g \in DOMAIN window'.idToRow
        PROVE  /\ window'.idToRow[g] \in Rows(window')
               /\ g \notin ghosts' => /\ hashOf'[StatusAt(window', window'.idToRow[g])] = g
                                      /\ StatusAt(window', window'.idToRow[g]) \notin doomed'
    <3>1. g \in DOMAIN window.idToRow /\ g # h /\ window'.idToRow[g] = window.idToRow[g]
      BY <1>8
    <3>2. PICK r : r = window.idToRow[g]
      OBVIOUS
    <3>3. /\ r \in 0 .. n /\ r # n /\ StatusAt(window, r) \in Object
          /\ g \notin ghosts => hashOf[StatusAt(window, r)] = g /\ StatusAt(window, r) \notin doomed
      BY <1>5, <2>3, <2>4, <3>1, <3>2, StatusIsObject DEF RowsOf
    <3>4. r \in Rows(window') /\ r < n
      BY <2>3, <3>3
    <3>5. StatusAt(window', r) = StatusAt(window, r)
      BY <1>7, <2>2, <3>4
    <3>6. g \notin ghosts => StatusAt(window, r) \notin doomed'
      BY <1>6, <3>1, <3>3
    <3>7. QED
      BY <1>3, <3>1, <3>2, <3>3, <3>4, <3>5, <3>6
  <2>6. ASSUME NEW r \in Rows(window')
        PROVE  \E g \in DOMAIN window'.idToRow : window'.idToRow[g] = r
    <3>1. r \in Rows(window) /\ r # n
      BY <2>3
    <3>2. PICK g \in DOMAIN window.idToRow : window.idToRow[g] = r
      BY <2>4, <3>1 DEF RowsOf
    <3>3. g # h
      BY <1>4, <2>2, <3>1, <3>2
    <3>4. QED
      BY <1>8, <3>2, <3>3
  <2>7. \A j, k \in DOMAIN window'.idToRow : window'.idToRow[j] = window'.idToRow[k] => j = k
    BY <1>8, <2>4 DEF RowsOf
  <2>8. QED
    BY <2>5, <2>6, <2>7 DEF RowsOf
<1>14. ASSUME ~holed', readded' = {}, ghosts' = {} PROVE Seen(window', doomed')
  <2>1. ~holed /\ window.current = Len(window.rowStatus) - 1 /\ readded = {} /\ ghosts = {}
    BY <1>3, <1>14
  <2>2. Seen(window, doomed)
    BY <1>5, <2>1 DEF TableInv
  <2>3. \A o \in window.shown \ doomed : o = StatusAt(window, window.current)
    BY <2>2 DEF Seen, Pointed
  <2>4. \A o \in window.shown : o \in doomed'
    BY <1>6, <1>10, <1>12, <2>1, <2>3
  <2>5. window'.shown \ doomed' \subseteq Pointed(window')
    BY <1>7, <2>1, <2>4
  <2>6. QED
    BY <1>7, <2>5 DEF Seen
<1>15. TableInv'
  BY <1>7, <1>13, <1>14 DEF TableInv
<1>16. ASSUME ~holed, NEW x \in Kept, x \notin Kept', hashOf[x] \notin readded \cup ghosts
       PROVE  window.deletable /\ StatusAt(window, window.current) = x
  <2>1. x \in doomed' \ doomed
    BY <1>9, <1>16 DEF Kept
  <2>2. hashOf[x] = h
    BY <1>6, <2>1
  <2>3. QED
    BY <1>3, <1>10, <1>12, <1>16, <2>2
<1>17. QED
  BY <1>3, <1>6, <1>9, <1>11, <1>15, <1>16 DEF ListInv, StoppedInv

\* The posted deletion changes what is going, not what stays.
LEMMA DestroyStep ==
  ASSUME ListInv, NEW o \in Object, Destroy(o)
  PROVE  ListInv' /\ Kept' = Kept
<1> USE DEF ListInv
<1>1. ListTypeOK /\ window \in WindowType /\ Current(window)
  BY DEF ListTypeOK, TableInv
<1>2. /\ o \in doomed /\ doomed' = doomed \ {o}
      /\ hashOf' = [hashOf EXCEPT ![o] = 0]
      /\ window' = [window EXCEPT !.shown = @ \ {o}]
      /\ UNCHANGED <<running, blocked, config, fileList, holed, readded, ghosts>>
  BY DEF Destroy, history
<1>3. /\ hashOf' \in [Object -> Hash \cup {0}] /\ hashOf'[o] = 0
      /\ \A x \in Object : x # o => hashOf'[x] = hashOf[x]
  BY <1>1, <1>2 DEF ListTypeOK
<1>4. Live' = Live \ {o} /\ Kept' = Kept /\ doomed' \subseteq Live' /\ o \notin Kept
  <2>1. Live' = Live \ {o}
    BY <1>3 DEF Live
  <2>2. QED
    BY <1>1, <1>2, <2>1 DEF ListTypeOK, Kept
<1>5. /\ window' \in WindowType /\ window'.idToRow = window.idToRow
      /\ window'.rowStatus = window.rowStatus /\ window'.shown = window.shown \ {o}
      /\ window'.current = window.current /\ window'.deletable = window.deletable
      /\ Rows(window') = Rows(window)
  BY <1>1, <1>2 DEF WindowType, Rows
<1>6. ListTypeOK'
  BY <1>1, <1>2, <1>3, <1>4, <1>5 DEF ListTypeOK
<1>7. NamesInv'
  <2>1. ASSUME NEW g \in DOMAIN fileList, fileList[g] # NoObject
        PROVE  hashOf'[fileList[g]] = g /\ fileList[g] \notin doomed'
    <3>1. hashOf[fileList[g]] = g /\ fileList[g] \notin doomed /\ fileList[g] \in Object
      BY <1>1, <2>1, MapIs DEF NamesInv, ListTypeOK
    <3>2. QED
      BY <1>2, <1>3, <3>1
  <2>2. QED
    BY <1>2, <2>1 DEF NamesInv
<1>8. TableInv'
  <2>1. Current(window')
    BY <1>1, <1>5 DEF Current
  <2>2. \A r : StatusAt(window', r) = StatusAt(window, r)
    BY <1>5 DEF StatusAt
  <2>3. ASSUME RowsOf(window, hashOf, doomed, ghosts)
        PROVE  RowsOf(window', hashOf', doomed', ghosts')
    <3>1. ASSUME NEW h \in DOMAIN window.idToRow
          PROVE  /\ window.idToRow[h] \in Rows(window)
                 /\ h \notin ghosts => /\ hashOf'[StatusAt(window, window.idToRow[h])] = h
                                       /\ StatusAt(window, window.idToRow[h]) \notin doomed'
      <4>1. PICK x : x = StatusAt(window, window.idToRow[h])
        OBVIOUS
      <4>2. window.idToRow[h] \in Rows(window) /\ (h \notin ghosts => hashOf[x] = h /\ x \notin doomed)
        BY <2>3, <4>1 DEF RowsOf
      <4>3. x \in Object
        BY <1>1, <4>1, <4>2, StatusIsObject
      <4>4. QED
        BY <1>2, <1>3, <4>1, <4>2, <4>3
    <3>2. QED
      BY <1>2, <1>5, <2>2, <2>3, <3>1 DEF RowsOf
  <2>4. ASSUME Seen(window, doomed) PROVE Seen(window', doomed')
    <3>1. Pointed(window') = Pointed(window)
      BY <1>5, <2>2 DEF Pointed
    <3>2. window'.shown \ doomed' = window.shown \ doomed
      BY <1>2, <1>5
    <3>3. QED
      BY <1>5, <2>4, <3>1, <3>2 DEF Seen
  <2>5. QED
    BY <1>2, <2>1, <2>3, <2>4 DEF TableInv
<1>9. ListIsWhatRuns'
  <2>1. \A x \in Kept : hashOf'[x] = hashOf[x]
    BY <1>3, <1>4 DEF Kept, Live
  <2>2. ASSUME NEW h PROVE {x \in Kept' : hashOf'[x] = h} = {x \in Kept : hashOf[x] = h}
    BY <1>4, <2>1
  <2>3. QED
    BY <1>2, <1>5, <2>2 DEF ListIsWhatRuns
<1>10. StoppedInv'
  BY <1>2 DEF StoppedInv
<1>11. QED
  BY <1>4, <1>6, <1>7, <1>8, <1>9, <1>10

-----------------------------------------------------------------------------
(***************************************************************************)
(* The theorems.                                                           *)
(***************************************************************************)
LEMMA ListStep == ListInv /\ [Next]_vars => ListInv'
<1> SUFFICES ASSUME ListInv, [Next]_vars PROVE ListInv'
  OBVIOUS
<1>1. blocked \in BOOLEAN
  BY DEF ListInv, ListTypeOK
<1>2. ASSUME NEW h \in Hash, DownloadFile(h) PROVE ListInv'
  BY <1>1, <1>2, NewTorrentKeeps DEF DownloadFile
<1>3. ASSUME NEW h \in Hash, OnFileCreated(h) PROVE ListInv'
  BY <1>1, <1>3, NewTorrentKeeps DEF OnFileCreated
<1>4. ASSUME NEW h \in Hash, ShareFile(h) PROVE ListInv'
  BY <1>1, <1>4, UnchangedInv DEF ShareFile, torrents
<1>5. ASSUME NEW o \in Object, StatusChanged(o) PROVE ListInv'
  BY <1>5, ReportStep
<1>6. ASSUME NEW row \in Rows(window), SelectRow(row) PROVE ListInv'
  BY <1>6, SelectStep
<1>7. CASE DeleteFile
  BY <1>7, NothingDeletedStep, DeletedStep
<1>8. CASE CloseDialog
  BY <1>1, <1>8, UnchangedInv DEF CloseDialog, torrents
<1>9. CASE CreateFile
  BY <1>1, <1>9, UnchangedInv DEF CreateFile, torrents
<1>10. CASE Quit
  BY <1>10, QuitStep
<1>11. ASSUME NEW kept \in SUBSET config, NEW n \in 0 .. Cardinality(kept),
              NEW order \in [1 .. n -> kept], UpdateDownloadList(order, kept)
       PROVE  ListInv'
  <2>1. n \in Nat
    OBVIOUS
  <2>2. QED
    BY <1>11, <2>1, StartStep
<1>12. CASE UNCHANGED vars
  BY <1>1, <1>12, UnchangedInv DEF vars, torrents
<1>13. ASSUME NEW o \in Object, Destroy(o) PROVE ListInv'
  BY <1>13, DestroyStep
<1>14. CASE Block
  BY <1>14, UnchangedInv DEF Block
<1>15. QED
  BY <1>2, <1>3, <1>4, <1>5, <1>6, <1>7, <1>8, <1>9, <1>10, <1>11, <1>12,
     <1>13, <1>14 DEF Next

LEMMA ListHolds == Spec => []ListInv
  BY InitList, ListStep, PTL DEF Spec

\* As long as only the last row was deleted, every row is the row of one torrent
\* and every torrent has its own; it shows an object that stays, but for torrents that
\* reported between their removal and their deletion (Window::torrentStatusUpdated,
\* Window::deleteFile).
THEOREM RowsAlwaysMatch == Spec => []RowsMatch
<1>1. ASSUME ListInv, ~holed
      PROVE  /\ window.current \in Rows(window) \cup {-1}
             /\ Cardinality(DOMAIN window.idToRow) = Len(window.rowStatus)
             /\ \A h \in DOMAIN window.idToRow :
                   /\ window.idToRow[h] \in Rows(window)
                   /\ h \notin ghosts =>
                        /\ hashOf[StatusAt(window, window.idToRow[h])] = h
                        /\ StatusAt(window, window.idToRow[h]) \notin doomed
  <2>1. RowsOf(window, hashOf, doomed, ghosts) /\ Current(window) /\ window \in WindowType
    BY <1>1 DEF ListInv, TableInv, ListTypeOK
  <2>2. PICK f : f = window.idToRow
    OBVIOUS
  <2>3. PICK n : n = Len(window.rowStatus)
    OBVIOUS
  <2>4. n \in Nat /\ Rows(window) = 0 .. n - 1
    BY <2>1, <2>3, StatusIsObject DEF Rows
  <2>5. f \in Maps(Nat)
    BY <2>1, <2>2 DEF WindowType
  <2>6. f \in [DOMAIN f -> 0 .. n - 1]
    BY <2>1, <2>2, <2>4, <2>5 DEF Maps, RowsOf
  <2>7. \A g, h \in DOMAIN f : f[g] = f[h] => g = h
    BY <2>1, <2>2 DEF RowsOf
  <2>8. \A r \in 0 .. n - 1 : \E h \in DOMAIN f : f[h] = r
    BY <2>1, <2>2, <2>4 DEF RowsOf
  <2>9. IsFiniteSet(0 .. n - 1) /\ Cardinality(0 .. n - 1) = n
    BY <2>4, FS_Interval
  <2>10. ExistsBijection(0 .. n - 1, DOMAIN f)
    <3>1. f \in Bijection(DOMAIN f, 0 .. n - 1)
      BY <2>6, <2>7, <2>8, Fun_IsBij
    <3>2. QED
      BY <3>1, Fun_ExistsBijSymmetric DEF ExistsBijection
  <2>11. Cardinality(DOMAIN f) = n
    BY <2>9, <2>10, FS_Bijection
  <2>12. QED
    BY <2>1, <2>2, <2>3, <2>11 DEF RowsOf, Current
<1>2. ListInv => RowsMatch
  BY <1>1 DEF RowsMatch
<1>3. QED
  BY <1>2, ListHolds, PTL

\* The bar shows at most one torrent, the one whose button it is
\* (Window::updateBottomBar).
THEOREM OneAlwaysShown == Spec => []OneShown
<1>1. ASSUME ListInv, ~holed, readded = {}, ghosts = {}
      PROVE  /\ Cardinality(window.shown \ doomed) <= 1
             /\ window.deletable => window.shown \ doomed = {StatusAt(window, window.current)}
  <2>1. Seen(window, doomed) /\ Current(window)
    BY <1>1 DEF ListInv, TableInv
  <2>2. PICK x : x = StatusAt(window, window.current)
    OBVIOUS
  <2>3. window.shown \ doomed \subseteq {x} /\ (window.deletable => window.shown \ doomed = {x})
    BY <2>1, <2>2 DEF Seen, Pointed, Current
  <2>4. IsFiniteSet({x}) /\ Cardinality({x}) = 1
    BY FS_Singleton
  <2>5. Cardinality(window.shown \ doomed) <= Cardinality({x})
    BY <2>3, <2>4, FS_Subset
  <2>6. QED
    BY <2>2, <2>3, <2>4, <2>5
<1>2. ListInv => OneShown
  BY <1>1 DEF OneShown
<1>3. QED
  BY <1>2, ListHolds, PTL

\* List, table, configuration and what runs are the same torrents, also after
\* the numbers of the rows went wrong (TorrentManager::append and remove).
THEOREM ListIsAlwaysWhatRuns == Spec => []ListIsWhatRuns
<1>1. ListInv => ListIsWhatRuns
  BY DEF ListInv
<1>2. QED
  BY <1>1, ListHolds, PTL

\* No step but the deletion of the current row ends a torrent that runs, and that
\* one ends no other (Window::deleteFile, TorrentManager::remove).
THEOREM OnlyTheRightOneDeleted == Spec => RightOneDeleted
<1> DEFINE Right == running /\ running' /\ ~holed =>
                      \A o \in Kept : o \notin Kept' /\ hashOf[o] \notin readded \cup ghosts =>
                         window.deletable /\ StatusAt(window, window.current) = o
<1>1. ASSUME ListInv, [Next]_vars PROVE Right
  <2>1. hashOf \in [Object -> Hash \cup {0}]
    BY <1>1 DEF ListInv, ListTypeOK
  <2>2. ASSUME UNCHANGED <<hashOf, doomed>> PROVE Right
    BY <2>2 DEF Kept, Live
  <2>3. ASSUME NEW h \in Hash, NewTorrent(h), doomed' = doomed PROVE Right
    <3>1. PICK x : x = Fresh
      OBVIOUS
    <3>2. x \in Object /\ hashOf[x] = 0 /\ hashOf' = [hashOf EXCEPT ![x] = h]
      BY <2>3, <3>1 DEF NewTorrent, Live, Fresh
    <3>3. Kept \subseteq Kept'
      BY <2>1, <2>3, <3>2 DEF Kept, Live
    <3>4. QED
      BY <3>3
  <2>4. CASE DeleteFile
    <3>1. CASE IdsAt(window, window.current) = {}
      BY <1>1, <2>2, <2>4, <3>1, NothingDeletedStep
    <3>2. CASE IdsAt(window, window.current) # {}
      BY <1>1, <2>4, <3>2, DeletedStep
    <3>3. QED
      BY <3>1, <3>2
  <2>5. ASSUME NEW o \in Object, Destroy(o) PROVE Right
    BY <1>1, <2>5, DestroyStep
  <2>6. \/ UNCHANGED <<hashOf, doomed>> \/ ~running \/ ~running'
        \/ DeleteFile \/ \E h \in Hash : NewTorrent(h) /\ doomed' = doomed
        \/ \E o \in Object : Destroy(o)
    BY <1>1 DEF Next, vars, DownloadFile, ShareFile, StatusChanged, OnFileCreated, SelectRow,
                Block, CloseDialog, CreateFile, Quit, UpdateDownloadList, torrents
  <2>7. QED
    BY <2>2, <2>3, <2>4, <2>5, <2>6
<1>2. ListInv /\ [Next]_vars => [Right]_vars
  BY <1>1
<1>3. QED
  BY <1>2, ListHolds, PTL DEF Spec, RightOneDeleted
=============================================================================
