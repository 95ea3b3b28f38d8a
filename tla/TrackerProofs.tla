---------------------------- MODULE TrackerProofs ----------------------------
(***************************************************************************)
(* What holds of the tracker for any sets of clients and torrents, any     *)
(* number of connections, any limit of an answer and any counter width.    *)
(***************************************************************************)
EXTENDS Tracker, FiniteSetTheorems, TLAPS

-----------------------------------------------------------------------------
(***************************************************************************)
(* Counters modulo Width.                                                  *)
(***************************************************************************)

\* A remainder is the only one.
LEMMA ModUnique ==
  ASSUME NEW a \in Int, NEW w \in Nat \ {0}, NEW q \in Int, NEW r \in Int,
         a = w * q + r, 0 <= r, r < w
  PROVE  a % w = r
OBVIOUS

LEMMA ModDef ==
  ASSUME NEW a \in Int, NEW w \in Nat \ {0}
  PROVE  /\ a \div w \in Int /\ a % w \in Int
         /\ a = w * (a \div w) + (a % w)
         /\ 0 <= a % w /\ a % w < w
OBVIOUS

\* Reducing one summand first makes no difference.
LEMMA ModAdd ==
  ASSUME NEW a \in Int, NEW b \in Int, NEW w \in Nat \ {0}
  PROVE  ((a % w) + b) % w = (a + b) % w
<1> DEFINE k == a \div w
           m == (a + b) \div w
           r == (a + b) % w
<1>1. /\ k \in Int /\ a % w \in Int /\ a = w * k + (a % w)
      /\ m \in Int /\ r \in Int /\ a + b = w * m + r /\ 0 <= r /\ r < w
  BY ModDef
<1> HIDE DEF k, m, r
<1>2. (a % w) + b = w * (m - k) + r
  <2>1. w * (m - k) = w * m - w * k
    BY <1>1
  <2>2. QED
    BY <1>1, <2>1
<1>3. ((a % w) + b) % w = r
  <2>1. (a % w) + b \in Int /\ m - k \in Int /\ r \in Int /\ 0 <= r /\ r < w
    BY <1>1
  <2> DEFINE x == (a % w) + b
             q == m - k
  <2>2. x \in Int /\ q \in Int /\ x = w * q + r
    BY <1>2, <2>1
  <2> HIDE DEF x, q
  <2>3. x % w = r
    BY <2>1, <2>2, ModUnique
  <2>4. QED
    BY <2>3 DEF x
<1>4. QED
  BY <1>3 DEF r

LEMMA CounterTypes ==
  ASSUME NEW n \in 0 .. Width - 1
  PROVE  Inc(n) \in 0 .. Width - 1 /\ Dec(n) \in 0 .. Width - 1
<1>1. n \in Int /\ n + 1 \in Int /\ n - 1 \in Int /\ Width \in Nat \ {0}
  BY TrackerAssumption
<1>2. QED
  BY <1>1, ModDef DEF Inc, Dec

\* One counter up or down moves the sum modulo Width by one.
LEMMA CounterSums ==
  ASSUME NEW m \in 0 .. Width - 1, NEW n \in 0 .. Width - 1, NEW k \in Int,
         (m + n) % Width = k % Width
  PROVE  /\ (Inc(m) + n) % Width = (k + 1) % Width
         /\ (m + Inc(n)) % Width = (k + 1) % Width
         /\ (Dec(m) + n) % Width = (k - 1) % Width
         /\ (m + Dec(n)) % Width = (k - 1) % Width
         /\ (Inc(m) + Dec(n)) % Width = k % Width
<1>1. m \in Int /\ n \in Int /\ Width \in Nat \ {0}
  BY TrackerAssumption
<1>2. ASSUME NEW a \in Int, NEW b \in Int
      PROVE  ((a % Width) + b) % Width = (a + b) % Width
  BY <1>1, ModAdd
<1>3. ASSUME NEW d \in Int
      PROVE  ((m + n) + d) % Width = (k + d) % Width
  <2>1. m + n \in Int
    BY <1>1
  <2>2. (((m + n) % Width) + d) % Width = ((m + n) + d) % Width
    BY <1>2, <2>1, Zenon
  <2>3. ((k % Width) + d) % Width = (k + d) % Width
    BY <1>2, Zenon
  <2>4. QED
    BY <2>2, <2>3, Zenon
<1> DEFINE up(x) == (x + 1) % Width
           down(x) == (x - 1) % Width
<1>4. ASSUME NEW x \in Int, NEW y \in Int
      PROVE  /\ up(x) \in Int /\ down(x) \in Int
             /\ (up(x) + y) % Width = ((x + y) + 1) % Width
             /\ (down(x) + y) % Width = ((x + y) + (-1)) % Width
  <2>1. x + 1 \in Int /\ x - 1 \in Int
    BY <1>1
  <2>2. /\ (up(x) + y) % Width = ((x + 1) + y) % Width
        /\ (down(x) + y) % Width = ((x - 1) + y) % Width
    BY <1>2, <2>1, Zenon
  <2>3. (x + 1) + y = (x + y) + 1 /\ (x - 1) + y = (x + y) + (-1)
    OBVIOUS
  <2>4. up(x) \in Int /\ down(x) \in Int
    BY <1>1, <2>1, ModDef
  <2>5. QED
    BY <2>2, <2>3, <2>4, Zenon
<1> HIDE DEF up, down
<1>5. /\ up(m) \in Int /\ up(n) \in Int /\ down(m) \in Int /\ down(n) \in Int
      /\ (up(m) + n) % Width = ((m + n) + 1) % Width
      /\ (up(n) + m) % Width = ((n + m) + 1) % Width
      /\ (down(m) + n) % Width = ((m + n) + (-1)) % Width
      /\ (down(n) + m) % Width = ((n + m) + (-1)) % Width
  BY <1>1, <1>4, Zenon
<1>6. (up(m) + down(n)) % Width = (m + n) % Width
  <2>1. (up(m) + down(n)) % Width = ((m + down(n)) + 1) % Width
    BY <1>1, <1>4, <1>5, Zenon
  <2>2. (m + down(n)) + 1 = down(n) + (m + 1) /\ m + 1 \in Int
    BY <1>1, <1>5
  <2>3. (down(n) + (m + 1)) % Width = ((n + (m + 1)) + (-1)) % Width
    BY <1>1, <1>4, <2>2, Zenon
  <2>4. (n + (m + 1)) + (-1) = m + n
    BY <1>1
  <2>5. QED
    BY <2>1, <2>2, <2>3, <2>4, Zenon
<1>7. /\ ((m + n) + 1) % Width = (k + 1) % Width
      /\ ((m + n) + (-1)) % Width = (k + (-1)) % Width
  BY <1>3
<1>8. /\ n + m = m + n /\ k + (-1) = k - 1
      /\ up(n) + m = m + up(n) /\ down(n) + m = m + down(n)
  BY <1>1, <1>5
<1>9. QED
  BY <1>5, <1>6, <1>7, <1>8 DEF Inc, Dec, up, down

-----------------------------------------------------------------------------
(***************************************************************************)
(* One torrent's list and counters.                                        *)
(***************************************************************************)

InfoType == [peers : SUBSET [id : Client, address : Client],
             num_completed : 0 .. Width - 1, num_incompleted : 0 .. Width - 1]

\* No id is listed twice, and the counters count the list modulo Width.
GoodInfo(i) ==
  /\ i \in InfoType
  /\ IsFiniteSet(i.peers)
  /\ \A q, r \in i.peers : q.id = r.id => q = r
  /\ (i.num_completed + i.num_incompleted) % Width = Cardinality(i.peers) % Width

LEMMA AddPeerGood ==
  ASSUME NEW i, GoodInfo(i), NEW peer \in [id : Client, address : Client],
         NEW whole \in BOOLEAN
  PROVE  /\ GoodInfo(AddPeer(i, peer, whole))
         /\ Ids(AddPeer(i, peer, whole)) = Ids(i) \cup {peer.id}
<1>1. CASE peer.id \in Ids(i)
  BY <1>1 DEF AddPeer
<1>2. CASE peer.id \notin Ids(i)
  <2> DEFINE j == AddPeer(i, peer, whole)
  <2>1. /\ j.peers = i.peers \cup {peer}
        /\ j.num_completed = IF whole THEN Inc(i.num_completed) ELSE i.num_completed
        /\ j.num_incompleted = IF whole THEN i.num_incompleted ELSE Inc(i.num_incompleted)
        /\ j = [peers |-> j.peers, num_completed |-> j.num_completed,
                num_incompleted |-> j.num_incompleted]
    BY <1>2 DEF AddPeer
  <2>2. /\ i.num_completed \in 0 .. Width - 1 /\ i.num_incompleted \in 0 .. Width - 1
        /\ i.peers \subseteq [id : Client, address : Client]
        /\ IsFiniteSet(i.peers) /\ \A q, r \in i.peers : q.id = r.id => q = r
        /\ (i.num_completed + i.num_incompleted) % Width = Cardinality(i.peers) % Width
    BY DEF GoodInfo, InfoType
  <2>3. peer \notin i.peers
    BY <1>2 DEF Ids
  <2>4. /\ IsFiniteSet(j.peers) /\ Cardinality(i.peers) \in Int
        /\ Cardinality(j.peers) = Cardinality(i.peers) + 1
    BY <2>1, <2>2, <2>3, FS_AddElement, FS_CardinalityType
  <2>5. j.num_completed \in 0 .. Width - 1 /\ j.num_incompleted \in 0 .. Width - 1
    BY <2>1, <2>2, CounterTypes
  <2>6. (j.num_completed + j.num_incompleted) % Width = Cardinality(j.peers) % Width
    BY <2>1, <2>2, <2>4, CounterSums
  <2>7. \A q, r \in j.peers : q.id = r.id => q = r
    BY <1>2, <2>1, <2>2 DEF Ids
  <2>8. Ids(j) = Ids(i) \cup {peer.id}
    BY <2>1 DEF Ids
  <2> HIDE DEF j
  <2>9. j \in InfoType
    BY <2>1, <2>2, <2>5 DEF InfoType
  <2>10. QED
    BY <2>4, <2>6, <2>7, <2>8, <2>9 DEF GoodInfo, j
<1>3. QED
  BY <1>1, <1>2

LEMMA RemovePeerGood ==
  ASSUME NEW i, GoodInfo(i), NEW id, NEW whole \in BOOLEAN
  PROVE  /\ GoodInfo(RemovePeer(i, id, whole))
         /\ Ids(RemovePeer(i, id, whole)) = Ids(i) \ {id}
<1>1. CASE id \notin Ids(i)
  BY <1>1 DEF RemovePeer
<1>2. CASE id \in Ids(i)
  <2> DEFINE j == RemovePeer(i, id, whole)
  <2>1. /\ j.peers = {q \in i.peers : q.id # id}
        /\ j.num_completed = IF whole THEN Dec(i.num_completed) ELSE i.num_completed
        /\ j.num_incompleted = IF whole THEN i.num_incompleted ELSE Dec(i.num_incompleted)
        /\ j = [peers |-> j.peers, num_completed |-> j.num_completed,
                num_incompleted |-> j.num_incompleted]
    BY <1>2 DEF RemovePeer
  <2>2. /\ i.num_completed \in 0 .. Width - 1 /\ i.num_incompleted \in 0 .. Width - 1
        /\ i.peers \subseteq [id : Client, address : Client]
        /\ IsFiniteSet(i.peers) /\ \A q, r \in i.peers : q.id = r.id => q = r
        /\ (i.num_completed + i.num_incompleted) % Width = Cardinality(i.peers) % Width
    BY DEF GoodInfo, InfoType
  <2>3. PICK peer \in i.peers : peer.id = id
    BY <1>2 DEF Ids
  <2>4. j.peers = i.peers \ {peer}
    BY <2>1, <2>2, <2>3
  <2>5. /\ IsFiniteSet(j.peers) /\ Cardinality(i.peers) \in Int
        /\ Cardinality(j.peers) = Cardinality(i.peers) - 1
    BY <2>2, <2>3, <2>4, FS_RemoveElement, FS_CardinalityType
  <2>6. j.num_completed \in 0 .. Width - 1 /\ j.num_incompleted \in 0 .. Width - 1
    BY <2>1, <2>2, CounterTypes
  <2>7. (j.num_completed + j.num_incompleted) % Width = Cardinality(j.peers) % Width
    BY <2>1, <2>2, <2>5, CounterSums
  <2>8. \A q, r \in j.peers : q.id = r.id => q = r
    BY <2>2, <2>4
  <2>9. Ids(j) = Ids(i) \ {id}
    BY <2>1 DEF Ids
  <2> HIDE DEF j
  <2>10. j \in InfoType
    BY <2>1, <2>2, <2>6 DEF InfoType
  <2>11. QED
    BY <2>5, <2>7, <2>8, <2>9, <2>10 DEF GoodInfo, j
<1>3. QED
  BY <1>1, <1>2

LEMMA SetCompletedGood ==
  ASSUME NEW i, GoodInfo(i)
  PROVE  GoodInfo(SetCompleted(i)) /\ Ids(SetCompleted(i)) = Ids(i)
<1> DEFINE j == SetCompleted(i)
<1>1. /\ i.num_completed \in 0 .. Width - 1 /\ i.num_incompleted \in 0 .. Width - 1
      /\ IsFiniteSet(i.peers) /\ \A q, r \in i.peers : q.id = r.id => q = r
      /\ i.peers \subseteq [id : Client, address : Client]
      /\ (i.num_completed + i.num_incompleted) % Width = Cardinality(i.peers) % Width
  BY DEF GoodInfo, InfoType
<1>2. /\ j.peers = i.peers /\ j.num_completed = Inc(i.num_completed)
      /\ j.num_incompleted = Dec(i.num_incompleted)
      /\ j = [peers |-> j.peers, num_completed |-> j.num_completed,
              num_incompleted |-> j.num_incompleted]
  <2>1. i \in InfoType
    BY DEF GoodInfo
  <2>2. j = [i EXCEPT !.num_completed = Inc(i.num_completed),
                      !.num_incompleted = Dec(i.num_incompleted)]
    BY DEF SetCompleted
  <2>3. j = [peers |-> i.peers, num_completed |-> Inc(i.num_completed),
             num_incompleted |-> Dec(i.num_incompleted)]
    BY <2>1, <2>2 DEF InfoType
  <2>4. QED
    BY <2>3
<1>3. j.num_completed \in 0 .. Width - 1 /\ j.num_incompleted \in 0 .. Width - 1
  BY <1>1, <1>2, CounterTypes
<1>4. (j.num_completed + j.num_incompleted) % Width = Cardinality(j.peers) % Width
  <2>1. Cardinality(i.peers) \in Int
    BY <1>1, FS_CardinalityType
  <2>2. QED
    BY <1>1, <1>2, <2>1, CounterSums
<1>5. Ids(j) = Ids(i)
  BY <1>2 DEF Ids
<1> HIDE DEF j
<1>6. j \in InfoType
  BY <1>1, <1>2, <1>3 DEF InfoType
<1>7. QED
  BY <1>1, <1>2, <1>4, <1>5, <1>6 DEF GoodInfo, j

-----------------------------------------------------------------------------
(***************************************************************************)
(* The connections and the lists.                                          *)
(***************************************************************************)

\* A descriptor in use belongs to a client, one that is free is new.
ConnInv ==
  \A c \in Conn :
    /\ socket[c] # "free" => /\ owner[c] \in Client /\ info_hash[c] \in Torrent
                             /\ clientAddress \in Client
    /\ socket[c] = "free" => state[c] = "NEW" /\ inbox[c] = "none"

InfoInv == \A t \in Torrent : GoodInfo(info[t])

TrackerInv == TypeOK /\ ConnInv /\ InfoInv /\ ListedIsAnnounced

\* The part of the type that says nothing of a torrent's info.
EndsTypeOK ==
  /\ socket \in [Conn -> {"free", "open", "hungup"}]
  /\ owner \in [Conn -> Client \cup {None}]
  /\ info_hash \in [Conn -> Torrent \cup {None}]
  /\ inbox \in [Conn -> Request \cup {"none"}]
  /\ state \in [Conn -> {"NEW", "CONNECTED"}]
  /\ completed \in [Conn -> BOOLEAN]

LEMMA IdsAreClients ==
  ASSUME NEW i, GoodInfo(i)
  PROVE  Ids(i) \subseteq Client
BY DEF GoodInfo, InfoType, Ids

\* A connection is closed, when what is left of its torrent's list does not
\* rely on it.
LEMMA CloseStep ==
  ASSUME TrackerInv, NEW c \in Conn, socket[c] # "free",
         NEW i, GoodInfo(i), Ids(i) \subseteq Ids(Info(c)),
         state[c] = "CONNECTED" => owner[c] \notin Ids(i),
         CloseConnection(c, i), answer' = NoAnswer
  PROVE  TrackerInv'
<1>1. /\ TypeOK /\ EndsTypeOK /\ ConnInv /\ InfoInv /\ ListedIsAnnounced
      /\ info_hash[c] \in Torrent /\ info \in [Torrent -> InfoType]
  BY DEF TrackerInv, TypeOK, ConnInv, EndsTypeOK, InfoType
<1>2. /\ info' = [info EXCEPT ![info_hash[c]] = i]
      /\ socket' = [socket EXCEPT ![c] = "free"]
      /\ owner' = [owner EXCEPT ![c] = None]
      /\ info_hash' = [info_hash EXCEPT ![c] = None]
      /\ state' = [state EXCEPT ![c] = "NEW"]
      /\ completed' = [completed EXCEPT ![c] = FALSE]
      /\ inbox' = [inbox EXCEPT ![c] = "none"]
      /\ UNCHANGED <<clientAddress, finished, overlapped, raced>>
  BY DEF CloseConnection
<1>3. i \in InfoType
  BY DEF GoodInfo
<1>4. TypeOK'
  <2>1. info' \in [Torrent -> InfoType]
    BY <1>1, <1>2, <1>3
  <2>2. EndsTypeOK'
    BY <1>1, <1>2 DEF EndsTypeOK
  <2>3. answer' \in [to : Client \cup {None}, torrent : Torrent \cup {None},
                     peers : SUBSET Client]
    BY DEF NoAnswer
  <2>4. QED
    BY <1>1, <1>2, <2>1, <2>2, <2>3 DEF TypeOK, EndsTypeOK, InfoType
<1>5. ConnInv'
  BY <1>1, <1>2 DEF ConnInv, EndsTypeOK
<1>6. InfoInv'
  BY <1>1, <1>2 DEF InfoInv
<1>7. ListedIsAnnounced'
  <2> SUFFICES ASSUME NEW t \in Torrent, NEW x \in Ids(info'[t])
               PROVE  \E d \in Conn : /\ state'[d] = "CONNECTED" /\ info_hash'[d] = t
                                      /\ owner'[d] = x
    BY DEF ListedIsAnnounced, Announced, Ids
  <2>1. x \in Ids(info[t])
    BY <1>1, <1>2 DEF Info
  <2>2. PICK d \in Conn : state[d] = "CONNECTED" /\ info_hash[d] = t /\ owner[d] = x
    BY <1>1, <2>1 DEF ListedIsAnnounced, Announced
  <2>3. d # c
    BY <1>1, <1>2, <2>2
  <2>4. QED
    BY <1>1, <1>2, <2>2, <2>3 DEF EndsTypeOK
<1>8. QED
  BY <1>4, <1>5, <1>6, <1>7 DEF TrackerInv

\* A request is handled that lists nobody but the client who sends it.
LEMMA RespondStep ==
  ASSUME TrackerInv, NEW c \in Conn, socket[c] # "free",
         NEW whole \in BOOLEAN, NEW i, GoodInfo(i),
         Ids(i) \subseteq Ids(Info(c)) \cup {owner[c]},
         Respond(c, i, whole)
  PROVE  TrackerInv'
<1>1. /\ TypeOK /\ EndsTypeOK /\ ConnInv /\ InfoInv /\ ListedIsAnnounced
      /\ owner[c] \in Client /\ info_hash[c] \in Torrent /\ info \in [Torrent -> InfoType]
  BY DEF TrackerInv, TypeOK, ConnInv, EndsTypeOK, InfoType
<1>2. CASE /\ info' = [info EXCEPT ![info_hash[c]] = i]
           /\ state' = [state EXCEPT ![c] = "CONNECTED"]
           /\ completed' = [completed EXCEPT ![c] = whole]
           /\ \E S \in IF whole THEN {{}} ELSE GetRandomPeers(i, owner[c]) :
                answer' = [to |-> owner[c], torrent |-> info_hash[c], peers |-> S]
           /\ inbox' = [inbox EXCEPT ![c] = "none"]
           /\ UNCHANGED <<clientAddress, socket, owner, info_hash, finished,
                          overlapped, raced>>
  <2>1. info' \in [Torrent -> InfoType]
    BY <1>1, <1>2 DEF GoodInfo
  <2>2. EndsTypeOK'
    BY <1>1, <1>2 DEF EndsTypeOK
  <2>3. answer' \in [to : Client \cup {None}, torrent : Torrent \cup {None},
                     peers : SUBSET Client]
    <3>1. PICK S \in IF whole THEN {{}} ELSE GetRandomPeers(i, owner[c]) :
            answer' = [to |-> owner[c], torrent |-> info_hash[c], peers |-> S]
      BY <1>2
    <3>2. S \subseteq Client
      BY IdsAreClients DEF GetRandomPeers
    <3>3. QED
      BY <1>1, <3>1, <3>2
  <2>4. TypeOK'
    BY <1>1, <1>2, <2>1, <2>2, <2>3 DEF TypeOK, EndsTypeOK, InfoType
  <2>5. ConnInv'
    BY <1>1, <1>2 DEF ConnInv, EndsTypeOK
  <2>6. InfoInv'
    BY <1>1, <1>2 DEF InfoInv
  <2>7. ListedIsAnnounced'
    <3> SUFFICES ASSUME NEW t \in Torrent, NEW x \in Ids(info'[t])
                 PROVE  \E d \in Conn : /\ state'[d] = "CONNECTED" /\ info_hash'[d] = t
                                        /\ owner'[d] = x
      BY DEF ListedIsAnnounced, Announced, Ids
    <3>1. CASE x = owner[c] /\ t = info_hash[c]
      BY <1>1, <1>2, <3>1 DEF EndsTypeOK
    <3>2. CASE ~(x = owner[c] /\ t = info_hash[c])
      <4>1. x \in Ids(info[t])
        BY <1>1, <1>2, <3>2 DEF Info
      <4>2. PICK d \in Conn : state[d] = "CONNECTED" /\ info_hash[d] = t /\ owner[d] = x
        BY <1>1, <4>1 DEF ListedIsAnnounced, Announced
      <4>3. QED
        BY <1>1, <1>2, <4>2 DEF EndsTypeOK
    <3>3. QED
      BY <3>1, <3>2
  <2>8. QED
    BY <2>4, <2>5, <2>6, <2>7 DEF TrackerInv
<1>3. CASE CloseConnection(c, RemovePeer(i, owner[c], whole)) /\ answer' = NoAnswer
  <2>1. /\ GoodInfo(RemovePeer(i, owner[c], whole))
        /\ Ids(RemovePeer(i, owner[c], whole)) = Ids(i) \ {owner[c]}
    BY RemovePeerGood
  <2>2. QED
    BY <1>3, <2>1, CloseStep
<1>4. QED
  BY <1>2, <1>3 DEF Respond

\* Each action of the reading thread is one of the two.
LEMMA ReadStep ==
  ASSUME TrackerInv, NEW c \in Conn, Read(c)
  PROVE  TrackerInv'
<1>1. /\ inbox[c] # "none" => socket[c] # "free"
      /\ socket[c] # "free" => /\ owner[c] \in Client /\ GoodInfo(Info(c))
                               /\ clientAddress \in Client
      /\ completed[c] \in BOOLEAN
  BY DEF TrackerInv, TypeOK, ConnInv, InfoInv, Info
<1>2. CASE Started(c)
  <2> DEFINE whole == inbox[c] = "seeding"
             peer == [id |-> owner[c], address |-> clientAddress]
             i == AddPeer(Info(c), peer, whole)
  <2>1. socket[c] # "free" /\ Respond(c, i, whole)
    BY <1>1, <1>2 DEF Started
  <2>2. whole \in BOOLEAN /\ peer \in [id : Client, address : Client] /\ peer.id = owner[c]
    BY <1>1, <2>1
  <2> HIDE DEF whole, peer
  <2>3. GoodInfo(i) /\ Ids(i) = Ids(Info(c)) \cup {owner[c]}
    BY <1>1, <2>1, <2>2, AddPeerGood
  <2> HIDE DEF i
  <2>4. QED
    BY <2>1, <2>2, <2>3, RespondStep
<1>3. CASE Regular(c)
  BY <1>1, <1>3, RespondStep DEF Regular
<1>4. CASE Completed(c)
  <2>1. GoodInfo(SetCompleted(Info(c))) /\ Ids(SetCompleted(Info(c))) = Ids(Info(c))
    BY <1>1, <1>4, SetCompletedGood DEF Completed
  <2>2. QED
    BY <1>1, <1>4, <2>1, RespondStep DEF Completed
<1>5. CASE Stopped(c)
  <2> DEFINE i == RemovePeer(Info(c), owner[c], completed[c])
  <2>1. GoodInfo(i) /\ Ids(i) = Ids(Info(c)) \ {owner[c]}
    BY <1>1, <1>5, RemovePeerGood DEF Stopped
  <2>2. socket[c] # "free" /\ CloseConnection(c, i) /\ answer' = NoAnswer
    BY <1>1, <1>5 DEF Stopped
  <2> HIDE DEF i
  <2>3. QED
    BY <2>1, <2>2, CloseStep
<1>6. CASE ReadEnd(c)
  <2> DEFINE i == IF state[c] = "NEW" THEN Info(c)
                  ELSE RemovePeer(Info(c), owner[c], completed[c])
  <2>1. socket[c] # "free" /\ CloseConnection(c, i) /\ answer' = NoAnswer
    BY <1>6 DEF ReadEnd
  <2>2. /\ GoodInfo(i) /\ Ids(i) \subseteq Ids(Info(c))
        /\ state[c] # "NEW" => owner[c] \notin Ids(i)
    BY <1>1, <2>1, RemovePeerGood
  <2> HIDE DEF i
  <2>3. QED
    BY <2>1, <2>2, CloseStep
<1>7. QED
  BY <1>2, <1>3, <1>4, <1>5, <1>6 DEF Read

\* What the clients and the accepting thread do leaves the lists alone, and
\* what is announced too.
LEMMA OtherStep ==
  ASSUME TrackerInv,
         \/ \E c \in Conn : \/ \E p \in Client, t \in Torrent : Accept(c, p, t)
                            \/ Send(c) \/ HangUp(c)
         \/ \E p \in Client, t \in Torrent : Finish(p, t)
         \/ UNCHANGED vars
  PROVE  TrackerInv'
<1>1. /\ TypeOK /\ EndsTypeOK /\ ConnInv /\ InfoInv /\ ListedIsAnnounced
      /\ NoAnswer \in [to : Client \cup {None}, torrent : Torrent \cup {None},
                       peers : SUBSET Client]
  BY DEF TrackerInv, TypeOK, EndsTypeOK, NoAnswer
<1>2. ASSUME UNCHANGED <<info, state>>,
             \A d \in Conn : state[d] = "CONNECTED" =>
               info_hash'[d] = info_hash[d] /\ owner'[d] = owner[d]
      PROVE  InfoInv' /\ ListedIsAnnounced'
  <2>1. InfoInv'
    BY <1>1, <1>2 DEF InfoInv
  <2> SUFFICES ASSUME NEW t \in Torrent, NEW x \in Ids(info'[t])
               PROVE  \E d \in Conn : /\ state'[d] = "CONNECTED" /\ info_hash'[d] = t
                                      /\ owner'[d] = x
    BY <2>1 DEF ListedIsAnnounced, Announced, Ids
  <2>2. PICK d \in Conn : state[d] = "CONNECTED" /\ info_hash[d] = t /\ owner[d] = x
    BY <1>1, <1>2 DEF ListedIsAnnounced, Announced
  <2>3. QED
    BY <1>2, <2>2
<1>3. ASSUME NEW c \in Conn, NEW p \in Client, NEW t \in Torrent, Accept(c, p, t)
      PROVE  TrackerInv'
  <2>1. TypeOK' /\ ConnInv'
    BY <1>1, <1>3 DEF Accept, TypeOK, EndsTypeOK, ConnInv
  <2>2. InfoInv' /\ ListedIsAnnounced'
    <3>1. UNCHANGED <<info, state>> /\ state[c] = "NEW"
      BY <1>1, <1>3 DEF Accept, ConnInv
    <3>2. \A d \in Conn : state[d] = "CONNECTED" =>
            info_hash'[d] = info_hash[d] /\ owner'[d] = owner[d]
      BY <1>1, <1>3, <3>1 DEF Accept, EndsTypeOK
    <3>3. QED
      BY <1>2, <3>1, <3>2
  <2>3. QED
    BY <2>1, <2>2 DEF TrackerInv
<1>4. ASSUME NEW c \in Conn, Send(c)
      PROVE  TrackerInv'
  <2>1. PICK request \in Request : inbox' = [inbox EXCEPT ![c] = request]
    BY <1>4 DEF Send, Request
  <2>2. TypeOK' /\ ConnInv'
    BY <1>1, <1>4, <2>1 DEF Send, ends, TypeOK, EndsTypeOK, ConnInv
  <2>3. QED
    BY <1>2, <1>4, <2>2 DEF Send, ends, TrackerInv
<1>5. ASSUME NEW c \in Conn, HangUp(c)
      PROVE  TrackerInv'
  <2>1. TypeOK' /\ ConnInv'
    BY <1>1, <1>5 DEF HangUp, TypeOK, EndsTypeOK, ConnInv
  <2>2. QED
    BY <1>2, <1>5, <2>1 DEF HangUp, TrackerInv
<1>6. ASSUME NEW p \in Client, NEW t \in Torrent, Finish(p, t)
      PROVE  TrackerInv'
  <2>1. TypeOK' /\ ConnInv'
    BY <1>1, <1>6 DEF Finish, Live, ends, Request, TypeOK, EndsTypeOK, ConnInv
  <2>2. QED
    BY <1>2, <1>6, <2>1 DEF Finish, ends, TrackerInv
<1>7. CASE UNCHANGED vars
  <2>1. TypeOK' /\ ConnInv'
    BY <1>1, <1>7 DEF vars, ends, TypeOK, EndsTypeOK, ConnInv
  <2>2. QED
    BY <1>2, <1>7, <2>1 DEF vars, ends, TrackerInv
<1>8. QED
  BY <1>3, <1>4, <1>5, <1>6, <1>7

LEMMA TrackerInductive == Spec => []TrackerInv
<1>1. Init => TrackerInv
  <2> SUFFICES ASSUME Init PROVE TrackerInv
    OBVIOUS
  <2> DEFINE empty == [peers |-> {}, num_completed |-> 0, num_incompleted |-> 0]
  <2>1. GoodInfo(empty) /\ Ids(empty) = {}
    BY FS_EmptySet, TrackerAssumption DEF GoodInfo, InfoType, Ids
  <2>2. \A t \in Torrent : info[t] = empty
    BY DEF Init
  <2>3. info \in [Torrent -> InfoType]
    BY <2>1 DEF Init, GoodInfo
  <2>4. TypeOK
    BY <2>3 DEF Init, TypeOK, InfoType, NoAnswer
  <2> HIDE DEF empty
  <2>5. InfoInv /\ ListedIsAnnounced
    BY <2>1, <2>2 DEF InfoInv, ListedIsAnnounced
  <2>6. ConnInv
    BY DEF Init, ConnInv
  <2>7. QED
    BY <2>4, <2>5, <2>6 DEF TrackerInv
<1>2. TrackerInv /\ [Next]_vars => TrackerInv'
  BY ReadStep, OtherStep DEF Next
<1>3. QED
  BY <1>1, <1>2, PTL DEF Spec

-----------------------------------------------------------------------------
(***************************************************************************)
(* What follows from the invariant.                                        *)
(***************************************************************************)

\* A list without two entries for an id is as long as its ids.
LEMMA DistinctIds ==
  ASSUME NEW i, GoodInfo(i)
  PROVE  Cardinality(i.peers) = Cardinality(Ids(i))
<1> DEFINE f == [q \in i.peers |-> q.id]
<1>1. IsFiniteSet(i.peers) /\ \A q, r \in i.peers : q.id = r.id => q = r
  BY DEF GoodInfo
<1>2. f \in Bijection(i.peers, Ids(i))
  BY <1>1 DEF Ids, Bijection, Injection, Surjection, IsInjective
<1>3. ExistsBijection(i.peers, Ids(i))
  BY <1>2 DEF ExistsBijection
<1>4. QED
  BY <1>1, <1>3, FS_Bijection

\* Every variable keeps its type: a counter is never below zero or at Width,
\* and a listed address is a client's, whatever the accepting thread does
\* between two requests.
THEOREM TypeCorrect == Spec => []TypeOK
<1>1. TrackerInv => TypeOK
  BY DEF TrackerInv
<1>2. QED
  BY <1>1, TrackerInductive, PTL

\* Nobody stays listed without a connection that is announced and that the
\* tracker has not closed, in every order of overlapping connections, closed
\* ends, failed writes and requests.
THEOREM NobodyLeftBehind == Spec => []ListedIsAnnounced
<1>1. TrackerInv => ListedIsAnnounced
  BY DEF TrackerInv
<1>2. QED
  BY <1>1, TrackerInductive, PTL

\* Nobody is listed twice, and the counters, even when one of them wrapped,
\* add up to the length of the list.
THEOREM ListIsCounted == Spec => [](ListedOnce /\ CountersCoverList)
<1>1. TrackerInv => ListedOnce /\ CountersCoverList
  <2> SUFFICES ASSUME TrackerInv, NEW t \in Torrent
               PROVE  /\ Cardinality(info[t].peers) = Cardinality(Ids(info[t]))
                      /\ (info[t].num_completed + info[t].num_incompleted) % Width
                           = Cardinality(info[t].peers) % Width
    BY DEF ListedOnce, CountersCoverList
  <2>1. GoodInfo(info[t])
    BY DEF TrackerInv, InfoInv
  <2>2. QED
    BY <2>1, DistinctIds DEF GoodInfo
<1>2. QED
  BY <1>1, TrackerInductive, PTL

-----------------------------------------------------------------------------
(***************************************************************************)
(* The requests: which one can be read when, and what it claims.           *)
(***************************************************************************)

RequestInv ==
  \A c \in Conn :
    /\ inbox[c] \in {"started", "seeding"} => state[c] = "NEW"
    /\ inbox[c] \in {"regular", "completed", "stopped"} => state[c] = "CONNECTED"
    /\ inbox[c] \in {"seeding", "completed"} => <<owner[c], info_hash[c]>> \in finished
    /\ completed[c] => <<owner[c], info_hash[c]>> \in finished
    /\ inbox[c] = "completed" \/ socket[c] = "free" => ~completed[c]

LEMMA RequestClose ==
  ASSUME TrackerInv, RequestInv, NEW c \in Conn, NEW i, CloseConnection(c, i)
  PROVE  RequestInv'
BY DEF TrackerInv, TypeOK, RequestInv, CloseConnection

LEMMA RequestRespond ==
  ASSUME TrackerInv, RequestInv, NEW c \in Conn, NEW i, NEW whole \in BOOLEAN,
         socket[c] # "free",
         whole => <<owner[c], info_hash[c]>> \in finished,
         Respond(c, i, whole)
  PROVE  RequestInv'
<1>1. CASE /\ state' = [state EXCEPT ![c] = "CONNECTED"]
           /\ completed' = [completed EXCEPT ![c] = whole]
           /\ inbox' = [inbox EXCEPT ![c] = "none"]
           /\ UNCHANGED <<socket, owner, info_hash, finished>>
  BY <1>1 DEF TrackerInv, TypeOK, RequestInv
<1>2. CASE CloseConnection(c, RemovePeer(i, owner[c], whole))
  BY <1>2, RequestClose
<1>3. QED
  BY <1>1, <1>2 DEF Respond

LEMMA RequestStep ==
  ASSUME TrackerInv, RequestInv, [Next]_vars
  PROVE  RequestInv'
<1>1. TypeOK /\ ConnInv
  BY DEF TrackerInv
<1>2. ASSUME NEW c \in Conn, NEW p \in Client, NEW t \in Torrent, Accept(c, p, t)
      PROVE  RequestInv'
  <2>1. inbox[c] = "none" /\ state[c] = "NEW" /\ ~completed[c]
    BY <1>1, <1>2 DEF Accept, ConnInv, RequestInv
  <2>2. QED
    BY <1>1, <1>2, <2>1 DEF Accept, TypeOK, RequestInv
<1>3. ASSUME NEW c \in Conn, Send(c)
      PROVE  RequestInv'
  BY <1>1, <1>3 DEF Send, ends, TypeOK, RequestInv
<1>4. ASSUME NEW c \in Conn, HangUp(c)
      PROVE  RequestInv'
  BY <1>1, <1>4 DEF HangUp, TypeOK, RequestInv
<1>5. ASSUME NEW p \in Client, NEW t \in Torrent, Finish(p, t)
      PROVE  RequestInv'
  BY <1>1, <1>5 DEF Finish, Live, ends, TypeOK, RequestInv
<1>6. ASSUME NEW c \in Conn, Read(c)
      PROVE  RequestInv'
  <2>1. /\ inbox[c] # "none" => socket[c] # "free"
        /\ inbox[c] \in {"seeding", "completed"} \/ completed[c] =>
             <<owner[c], info_hash[c]>> \in finished
        /\ completed[c] \in BOOLEAN
    BY <1>1 DEF ConnInv, TypeOK, RequestInv
  <2>2. CASE Started(c)
    <3> DEFINE whole == inbox[c] = "seeding"
               i == AddPeer(Info(c), [id |-> owner[c], address |-> clientAddress], whole)
    <3>1. Respond(c, i, whole) /\ whole \in BOOLEAN /\ socket[c] # "free"
      BY <2>1, <2>2 DEF Started
    <3>2. whole => <<owner[c], info_hash[c]>> \in finished
      BY <2>1
    <3> HIDE DEF i, whole
    <3>3. QED
      BY <3>1, <3>2, RequestRespond
  <2>3. CASE Regular(c)
    BY <2>1, <2>3, RequestRespond DEF Regular
  <2>4. CASE Completed(c)
    BY <2>1, <2>4, RequestRespond DEF Completed
  <2>5. CASE Stopped(c)
    BY <2>5, RequestClose DEF Stopped
  <2>6. CASE ReadEnd(c)
    BY <2>6, RequestClose DEF ReadEnd
  <2>7. QED
    BY <1>6, <2>2, <2>3, <2>4, <2>5, <2>6 DEF Read
<1>7. CASE UNCHANGED vars
  BY <1>7 DEF vars, ends, RequestInv
<1>8. QED
  BY <1>2, <1>3, <1>4, <1>5, <1>6, <1>7 DEF Next

LEMMA RequestInductive == Spec => []RequestInv
<1>1. Init => RequestInv
  BY DEF Init, RequestInv
<1>2. TrackerInv /\ RequestInv /\ [Next]_vars => RequestInv'
  BY RequestStep
<1>3. QED
  BY <1>1, <1>2, TrackerInductive, PTL DEF Spec

-----------------------------------------------------------------------------
(***************************************************************************)
(* The shared address.                                                     *)
(***************************************************************************)

\* As long as no "started" was overtaken by another client's accept, whoever
\* has still to send it is the one whose address the accepting thread holds.
AddressInv ==
  ~raced => /\ \A c \in Conn : socket[c] # "free" /\ state[c] = "NEW" =>
                 owner[c] = clientAddress
            /\ \A t \in Torrent : \A q \in info[t].peers : q.address = q.id

LEMMA AddressClose ==
  ASSUME TrackerInv, AddressInv, NEW c \in Conn, socket[c] # "free", NEW i,
         ~raced => \A q \in i.peers : q.address = q.id,
         CloseConnection(c, i)
  PROVE  AddressInv'
<1>1. TypeOK /\ info_hash[c] \in Torrent
  BY DEF TrackerInv, ConnInv
<1>2. QED
  BY <1>1 DEF TypeOK, AddressInv, CloseConnection

LEMMA AddressRespond ==
  ASSUME TrackerInv, AddressInv, NEW c \in Conn, socket[c] # "free", NEW i,
         NEW whole \in BOOLEAN,
         ~raced => \A q \in i.peers : q.address = q.id,
         Respond(c, i, whole)
  PROVE  AddressInv'
<1>1. TypeOK /\ info_hash[c] \in Torrent
  BY DEF TrackerInv, ConnInv
<1>2. CASE /\ info' = [info EXCEPT ![info_hash[c]] = i]
           /\ state' = [state EXCEPT ![c] = "CONNECTED"]
           /\ UNCHANGED <<clientAddress, socket, owner, raced>>
  BY <1>1, <1>2 DEF TypeOK, AddressInv
<1>3. CASE CloseConnection(c, RemovePeer(i, owner[c], whole))
  <2>1. RemovePeer(i, owner[c], whole).peers \subseteq i.peers
    BY DEF RemovePeer
  <2>2. ~raced => \A q \in RemovePeer(i, owner[c], whole).peers : q.address = q.id
    BY <2>1
  <2> DEFINE j == RemovePeer(i, owner[c], whole)
  <2> HIDE DEF j
  <2>3. QED
    BY <1>3, <2>2, AddressClose DEF j
<1>4. QED
  BY <1>2, <1>3 DEF Respond

LEMMA AddressRead ==
  ASSUME TrackerInv, RequestInv, AddressInv, NEW c \in Conn, Read(c)
  PROVE  AddressInv'
<1>1. /\ inbox[c] # "none" => socket[c] # "free"
      /\ socket[c] # "free" => info_hash[c] \in Torrent
      /\ completed[c] \in BOOLEAN
  BY DEF TrackerInv, TypeOK, ConnInv
<1>2. ~raced /\ socket[c] # "free" => \A q \in Info(c).peers : q.address = q.id
  BY <1>1 DEF AddressInv, Info
<1>3. \A id, whole : RemovePeer(Info(c), id, whole).peers \subseteq Info(c).peers
  BY DEF RemovePeer
<1>4. CASE Started(c)
  <2> DEFINE whole == inbox[c] = "seeding"
             peer == [id |-> owner[c], address |-> clientAddress]
             i == AddPeer(Info(c), peer, whole)
  <2>1. socket[c] # "free" /\ Respond(c, i, whole) /\ whole \in BOOLEAN
    BY <1>1, <1>4 DEF Started
  <2>2. ~raced => peer.address = peer.id
    BY <1>4, <2>1 DEF AddressInv, Started, RequestInv
  <2>3. i.peers \subseteq Info(c).peers \cup {peer}
    BY DEF AddPeer
  <2>4. ~raced => \A q \in i.peers : q.address = q.id
    BY <1>2, <2>1, <2>2, <2>3
  <2> HIDE DEF i, whole
  <2>5. QED
    BY <2>1, <2>4, AddressRespond
<1>5. CASE Regular(c)
  BY <1>1, <1>2, <1>5, AddressRespond DEF Regular
<1>6. CASE Completed(c)
  <2>1. GoodInfo(Info(c)) /\ socket[c] # "free"
    BY <1>1, <1>6 DEF Completed, TrackerInv, InfoInv, Info
  <2>2. SetCompleted(Info(c)).peers = Info(c).peers
    BY <2>1 DEF SetCompleted, GoodInfo, InfoType
  <2>3. QED
    BY <1>2, <1>6, <2>1, <2>2, AddressRespond DEF Completed
<1>7. CASE Stopped(c)
  <2>1. \A q \in RemovePeer(Info(c), owner[c], completed[c]).peers : q \in Info(c).peers
    BY <1>3
  <2>2. socket[c] # "free" /\ CloseConnection(c, RemovePeer(Info(c), owner[c], completed[c]))
    BY <1>1, <1>7 DEF Stopped
  <2>3. QED
    BY <1>2, <2>1, <2>2, AddressClose
<1>8. CASE ReadEnd(c)
  <2> DEFINE i == IF state[c] = "NEW" THEN Info(c)
                  ELSE RemovePeer(Info(c), owner[c], completed[c])
  <2>1. i.peers \subseteq Info(c).peers
    BY <1>3
  <2>2. socket[c] # "free" /\ CloseConnection(c, i)
    BY <1>8 DEF ReadEnd
  <2> HIDE DEF i
  <2>3. QED
    BY <1>2, <2>1, <2>2, AddressClose
<1>9. QED
  BY <1>4, <1>5, <1>6, <1>7, <1>8 DEF Read

\* A client whose "started" no other accept overtakes is listed with its own
\* address, although all Connections share one variable.
THEOREM ListedUnderOwnAddress == Spec => []OwnAddress
<1>1. Init => AddressInv
  <2>1. ASSUME Init PROVE \A t \in Torrent : info[t].peers = {}
    BY <2>1 DEF Init
  <2>2. QED
    BY <2>1 DEF Init, AddressInv
<1>2. ASSUME TrackerInv, RequestInv, AddressInv, [Next]_vars
      PROVE  AddressInv'
  <2>1. TypeOK /\ ConnInv
    BY <1>2 DEF TrackerInv
  <2>2. ASSUME NEW c \in Conn, NEW p \in Client, NEW t \in Torrent, Accept(c, p, t)
        PROVE  AddressInv'
    BY <1>2, <2>1, <2>2 DEF Accept, TypeOK, AddressInv
  <2>3. CASE \/ \E c \in Conn : Send(c) \/ HangUp(c)
             \/ \E p \in Client, t \in Torrent : Finish(p, t)
             \/ UNCHANGED vars
    <3>1. UNCHANGED <<clientAddress, info, owner, state, raced>>
      BY <2>3 DEF Send, HangUp, Finish, vars, ends
    <3>2. \A c \in Conn : socket'[c] # "free" => socket[c] # "free"
      BY <2>1, <2>3 DEF Send, HangUp, Finish, vars, ends, TypeOK
    <3>3. QED
      BY <1>2, <3>1, <3>2 DEF AddressInv
  <2>4. QED
    BY <1>2, <2>2, <2>3, AddressRead DEF Next
<1>3. AddressInv => OwnAddress
  BY DEF AddressInv, OwnAddress
<1>4. QED
  BY <1>1, <1>2, <1>3, TrackerInductive, RequestInductive, PTL DEF Spec

-----------------------------------------------------------------------------
(***************************************************************************)
(* The exact list and the exact counters, as long as the connections of a  *)
(* client do not overlap.                                                  *)
(***************************************************************************)

\* i lists the owners, by own, of the connections of A, and counts those of F
\* as complete.
Right(i, A, F, own) ==
  /\ Ids(i) = {own[c] : c \in A}
  /\ i.num_completed = Cardinality(A \cap F)
  /\ i.num_incompleted = Cardinality(A \ F)

\* Only the part of F in A, and of own on A, matters.
LEMMA RightElsewhere ==
  ASSUME NEW i, NEW A, NEW F, NEW own, NEW F2, NEW own2, Right(i, A, F, own),
         \A c \in A : own2[c] = own[c] /\ (c \in F2 <=> c \in F)
  PROVE  Right(i, A, F2, own2)
<1>1. {own2[c] : c \in A} = {own[c] : c \in A} /\ A \cap F2 = A \cap F /\ A \ F2 = A \ F
  OBVIOUS
<1>2. QED
  BY <1>1 DEF Right

\* With fewer connections than Width a set of them is counted exactly.
LEMMA SmallCounts ==
  ASSUME MaxConn < Width, NEW S \in SUBSET Conn
  PROVE  IsFiniteSet(S) /\ Cardinality(S) \in 0 .. Width - 1
<1>1. /\ IsFiniteSet(Conn) /\ MaxConn \in Nat /\ Width \in Nat
      /\ Cardinality(Conn) = MaxConn
  BY FS_Interval, TrackerAssumption DEF Conn
<1>2. /\ IsFiniteSet(S) /\ Cardinality(S) <= Cardinality(Conn)
      /\ Cardinality(S) \in Nat
  BY <1>1, FS_Subset, FS_CardinalityType
<1>3. QED
  BY <1>1, <1>2

LEMMA CountUpDown ==
  ASSUME MaxConn < Width, NEW S \in SUBSET Conn, NEW c \in Conn
  PROVE  /\ c \notin S => Inc(Cardinality(S)) = Cardinality(S \cup {c})
         /\ c \in S => Dec(Cardinality(S)) = Cardinality(S \ {c})
<1>1. /\ S \cup {c} \in SUBSET Conn /\ S \ {c} \in SUBSET Conn
      /\ Width \in Nat \ {0}
  BY TrackerAssumption
<1>2. /\ IsFiniteSet(S) /\ Cardinality(S) \in 0 .. Width - 1
      /\ Cardinality(S \cup {c}) \in 0 .. Width - 1
      /\ Cardinality(S \ {c}) \in 0 .. Width - 1
  BY <1>1, SmallCounts
<1>3. /\ c \notin S => Cardinality(S \cup {c}) = Cardinality(S) + 1
      /\ c \in S => Cardinality(S \ {c}) = Cardinality(S) - 1
  BY <1>2, FS_AddElement, FS_RemoveElement
<1>4. \A n \in 0 .. Width - 1 : n % Width = n
  <2> SUFFICES ASSUME NEW n \in 0 .. Width - 1 PROVE n % Width = n
    OBVIOUS
  <2>1. n = Width * 0 + n
    BY <1>1
  <2>2. QED
    BY <1>1, <2>1, ModUnique
<1>5. QED
  BY <1>2, <1>3, <1>4 DEF Inc, Dec

LEMMA AddPeerRight ==
  ASSUME MaxConn < Width, NEW A \in SUBSET Conn, NEW F \in SUBSET Conn,
         NEW own, NEW c \in Conn \ A, NEW i, Right(i, A, F, own),
         NEW peer, peer.id = own[c], \A d \in A : own[d] # own[c],
         NEW whole \in BOOLEAN
  PROVE  Right(AddPeer(i, peer, whole), A \cup {c},
               IF whole THEN F \cup {c} ELSE F \ {c}, own)
<1> DEFINE j == AddPeer(i, peer, whole)
           G == IF whole THEN F \cup {c} ELSE F \ {c}
<1>1. /\ j.peers = i.peers \cup {peer}
      /\ j.num_completed = IF whole THEN Inc(i.num_completed) ELSE i.num_completed
      /\ j.num_incompleted = IF whole THEN i.num_incompleted ELSE Inc(i.num_incompleted)
  <2>1. peer.id \notin Ids(i)
    BY DEF Right
  <2>2. QED
    BY <2>1 DEF AddPeer
<1>2. Ids(j) = {own[d] : d \in A \cup {c}}
  <2>1. Ids(j) = Ids(i) \cup {peer.id}
    BY <1>1 DEF Ids
  <2>2. QED
    BY <2>1 DEF Right
<1>3. /\ (A \cup {c}) \cap G = IF whole THEN (A \cap F) \cup {c} ELSE A \cap F
      /\ (A \cup {c}) \ G = IF whole THEN A \ F ELSE (A \ F) \cup {c}
  OBVIOUS
<1>4. /\ Inc(Cardinality(A \cap F)) = Cardinality((A \cap F) \cup {c})
      /\ Inc(Cardinality(A \ F)) = Cardinality((A \ F) \cup {c})
  BY CountUpDown
<1>5. QED
  BY <1>1, <1>2, <1>3, <1>4 DEF Right

LEMMA RemovePeerRight ==
  ASSUME MaxConn < Width, NEW A \in SUBSET Conn, NEW F \in SUBSET Conn,
         NEW own, NEW c \in A, NEW i, Right(i, A, F, own),
         \A d \in A \ {c} : own[d] # own[c]
  PROVE  Right(RemovePeer(i, own[c], c \in F), A \ {c}, F, own)
<1> DEFINE j == RemovePeer(i, own[c], c \in F)
<1>1. /\ j.peers = {q \in i.peers : q.id # own[c]}
      /\ j.num_completed = IF c \in F THEN Dec(i.num_completed) ELSE i.num_completed
      /\ j.num_incompleted = IF c \in F THEN i.num_incompleted ELSE Dec(i.num_incompleted)
  <2>1. own[c] \in Ids(i)
    BY DEF Right
  <2>2. QED
    BY <2>1 DEF RemovePeer
<1>2. Ids(j) = {own[d] : d \in A \ {c}}
  <2>1. Ids(j) = Ids(i) \ {own[c]}
    BY <1>1 DEF Ids
  <2>2. QED
    BY <2>1 DEF Right
<1>3. /\ (A \ {c}) \cap F = IF c \in F THEN (A \cap F) \ {c} ELSE A \cap F
      /\ (A \ {c}) \ F = IF c \in F THEN A \ F ELSE (A \ F) \ {c}
  OBVIOUS
<1>4. /\ c \in F => Dec(Cardinality(A \cap F)) = Cardinality((A \cap F) \ {c})
      /\ c \notin F => Dec(Cardinality(A \ F)) = Cardinality((A \ F) \ {c})
  BY CountUpDown
<1>5. QED
  BY <1>1, <1>2, <1>3, <1>4 DEF Right

LEMMA SetCompletedRight ==
  ASSUME MaxConn < Width, NEW A \in SUBSET Conn, NEW F \in SUBSET Conn,
         NEW own, NEW c \in A \ F, NEW i, GoodInfo(i), Right(i, A, F, own)
  PROVE  Right(SetCompleted(i), A, F \cup {c}, own)
<1> DEFINE j == SetCompleted(i)
<1>1. /\ j.peers = i.peers /\ j.num_completed = Inc(i.num_completed)
      /\ j.num_incompleted = Dec(i.num_incompleted)
  <2>1. i \in InfoType
    BY DEF GoodInfo
  <2>2. j = [i EXCEPT !.num_completed = Inc(i.num_completed),
                      !.num_incompleted = Dec(i.num_incompleted)]
    BY DEF SetCompleted
  <2> HIDE DEF j
  <2>3. QED
    BY <2>1, <2>2 DEF InfoType
<1>2. /\ A \cap (F \cup {c}) = (A \cap F) \cup {c}
      /\ A \ (F \cup {c}) = (A \ F) \ {c}
  OBVIOUS
<1>3. /\ Inc(Cardinality(A \cap F)) = Cardinality((A \cap F) \cup {c})
      /\ Dec(Cardinality(A \ F)) = Cardinality((A \ F) \ {c})
  BY CountUpDown
<1>4. Ids(j) = Ids(i)
  BY <1>1 DEF Ids
<1>5. QED
  BY <1>1, <1>2, <1>3, <1>4 DEF Right

Wholes == {c \in Conn : completed[c]}

\* No client has two connections for a torrent.
Alone ==
  \A c, d \in Conn :
    socket[c] # "free" /\ socket[d] # "free" /\ owner[c] = owner[d]
      /\ info_hash[c] = info_hash[d] => c = d

RegInv ==
  ~overlapped => /\ Alone
                 /\ \A t \in Torrent : Right(info[t], Announced(t), Wholes, owner)
                 /\ AnswerTellsAll

\* The other connections that announce a torrent belong to other clients.
LEMMA OthersDiffer ==
  ASSUME TrackerInv, Alone, NEW c \in Conn, socket[c] # "free"
  PROVE  /\ Announced(info_hash[c]) \in SUBSET Conn
         /\ \A d \in Announced(info_hash[c]) : d # c => owner[d] # owner[c]
BY DEF TrackerInv, ConnInv, Alone, Announced

LEMMA RegClose ==
  ASSUME TrackerInv, RegInv, NEW c \in Conn, socket[c] # "free", NEW i,
         ~overlapped => Right(i, Announced(info_hash[c]) \ {c}, Wholes, owner),
         CloseConnection(c, i), answer' = NoAnswer
  PROVE  RegInv'
<1>1. TypeOK /\ info_hash[c] \in Torrent
  BY DEF TrackerInv, ConnInv
<1>2. /\ info' = [info EXCEPT ![info_hash[c]] = i]
      /\ socket' = [socket EXCEPT ![c] = "free"]
      /\ owner' = [owner EXCEPT ![c] = None]
      /\ info_hash' = [info_hash EXCEPT ![c] = None]
      /\ state' = [state EXCEPT ![c] = "NEW"]
      /\ completed' = [completed EXCEPT ![c] = FALSE]
      /\ overlapped' = overlapped
  BY DEF CloseConnection
<1> SUFFICES ASSUME ~overlapped
             PROVE  /\ Alone'
                    /\ \A t \in Torrent : Right(info'[t], Announced(t)', Wholes', owner')
                    /\ AnswerTellsAll'
  BY <1>2 DEF RegInv
<1>3. Alone'
  <2> SUFFICES ASSUME NEW d \in Conn, NEW e \in Conn,
                      socket'[d] # "free", socket'[e] # "free",
                      owner'[d] = owner'[e], info_hash'[d] = info_hash'[e]
               PROVE  d = e
    BY DEF Alone
  <2>1. d # c /\ e # c
    BY <1>1, <1>2 DEF TypeOK
  <2>2. /\ socket'[d] = socket[d] /\ owner'[d] = owner[d] /\ info_hash'[d] = info_hash[d]
        /\ socket'[e] = socket[e] /\ owner'[e] = owner[e] /\ info_hash'[e] = info_hash[e]
    BY <1>1, <1>2, <2>1 DEF TypeOK
  <2>3. QED
    BY <2>2 DEF RegInv, Alone
<1>4. AnswerTellsAll'
  BY DEF AnswerTellsAll, NoAnswer
<1>5. ASSUME NEW t \in Torrent
      PROVE  Right(info'[t], Announced(t)', Wholes', owner')
  <2>1. Announced(t)' = Announced(t) \ {c}
    BY <1>1, <1>2 DEF TypeOK, Announced
  <2>2. info_hash[c] # t => Announced(t) \ {c} = Announced(t)
    BY DEF Announced
  <2>3. Right(info'[t], Announced(t) \ {c}, Wholes, owner)
    BY <1>1, <1>2, <2>2 DEF RegInv, TypeOK
  <2>4. \A d \in Announced(t) \ {c} :
          owner'[d] = owner[d] /\ (d \in Wholes' <=> d \in Wholes)
    BY <1>1, <1>2 DEF TypeOK, Announced, Wholes
  <2>5. QED
    BY <2>1, <2>3, <2>4, RightElsewhere
<1>6. QED
  BY <1>3, <1>4, <1>5

LEMMA RegRespond ==
  ASSUME MaxConn < Width, TrackerInv, RegInv,
         NEW c \in Conn, socket[c] # "free", NEW i, NEW whole \in BOOLEAN,
         whole => <<owner[c], info_hash[c]>> \in finished,
         ~overlapped => Right(i, Announced(info_hash[c]) \cup {c},
                              IF whole THEN Wholes \cup {c} ELSE Wholes \ {c}, owner),
         Respond(c, i, whole)
  PROVE  RegInv'
<1> DEFINE A == Announced(info_hash[c]) \cup {c}
           F == IF whole THEN Wholes \cup {c} ELSE Wholes \ {c}
<1>1. TypeOK /\ info_hash[c] \in Torrent
  BY DEF TrackerInv, ConnInv
<1>2. CASE /\ info' = [info EXCEPT ![info_hash[c]] = i]
           /\ state' = [state EXCEPT ![c] = "CONNECTED"]
           /\ completed' = [completed EXCEPT ![c] = whole]
           /\ \E S \in IF whole THEN {{}} ELSE GetRandomPeers(i, owner[c]) :
                answer' = [to |-> owner[c], torrent |-> info_hash[c], peers |-> S]
           /\ UNCHANGED <<socket, owner, info_hash, finished, overlapped>>
  <2> SUFFICES ASSUME ~overlapped
               PROVE  /\ Alone'
                      /\ \A t \in Torrent : Right(info'[t], Announced(t)', Wholes', owner')
                      /\ AnswerTellsAll'
    BY <1>2 DEF RegInv
  <2>1. Alone'
    BY <1>2 DEF RegInv, Alone
  <2>2. Wholes' = F
    BY <1>1, <1>2 DEF TypeOK, Wholes
  <2>3. Announced(info_hash[c])' = A
    BY <1>1, <1>2 DEF TypeOK, Announced
  <2>4. ASSUME NEW t \in Torrent
        PROVE  Right(info'[t], Announced(t)', Wholes', owner')
    <3>1. CASE t = info_hash[c]
      BY <1>1, <1>2, <2>2, <2>3, <3>1 DEF TypeOK
    <3>2. CASE t # info_hash[c]
      <4>1. Announced(t)' = Announced(t) /\ info'[t] = info[t] /\ owner' = owner
        BY <1>1, <1>2, <3>2 DEF TypeOK, Announced
      <4>2. \A d \in Announced(t) : d \in Wholes' <=> d \in Wholes
        BY <2>2, <3>2 DEF Announced
      <4>3. Right(info[t], Announced(t), Wholes, owner)
        BY DEF RegInv
      <4>4. QED
        BY <4>1, <4>2, <4>3, RightElsewhere
    <3>3. QED
      BY <3>1, <3>2
  <2>5. AnswerTellsAll'
    <3>1. PICK S \in IF whole THEN {{}} ELSE GetRandomPeers(i, owner[c]) :
            answer' = [to |-> owner[c], torrent |-> info_hash[c], peers |-> S]
      BY <1>2
    <3>2. Others' = {owner[d] : d \in A} \ {owner[c]}
      BY <1>2, <2>3, <3>1 DEF Others
    <3>3. Others' = Ids(i) \ {owner[c]}
      BY <3>2 DEF Right
    <3>4. CASE whole
      BY <1>2, <3>1, <3>4 DEF AnswerTellsAll
    <3>5. CASE ~whole
      <4>1. S \subseteq Others' /\ (S = Others' \/ Cardinality(S) = PeerLimit)
        BY <3>1, <3>3, <3>5 DEF GetRandomPeers
      <4>2. QED
        BY <3>1, <4>1 DEF AnswerTellsAll
    <3>6. QED
      BY <3>4, <3>5
  <2>6. QED
    BY <2>1, <2>4, <2>5
<1>3. CASE CloseConnection(c, RemovePeer(i, owner[c], whole)) /\ answer' = NoAnswer
  <2> DEFINE j == RemovePeer(i, owner[c], whole)
  <2>1. ~overlapped => Right(j, Announced(info_hash[c]) \ {c}, Wholes, owner)
    <3> SUFFICES ASSUME ~overlapped
                 PROVE  Right(j, Announced(info_hash[c]) \ {c}, Wholes, owner)
      OBVIOUS
    <3>1. /\ A \in SUBSET Conn /\ c \in A /\ F \in SUBSET Conn
          /\ \A d \in A \ {c} : owner[d] # owner[c]
      BY OthersDiffer DEF RegInv, Wholes
    <3>2. whole = (c \in F) /\ A \ {c} = Announced(info_hash[c]) \ {c}
      OBVIOUS
    <3>3. Right(i, A, F, owner)
      OBVIOUS
    <3> HIDE DEF A, F
    <3>4. Right(RemovePeer(i, owner[c], c \in F), A \ {c}, F, owner)
      BY <3>1, <3>3, RemovePeerRight
    <3>5. \A d \in A \ {c} : d \in Wholes <=> d \in F
      BY DEF F
    <3>6. Right(j, A \ {c}, Wholes, owner)
      BY <3>2, <3>4, <3>5, RightElsewhere
    <3>7. QED
      BY <3>2, <3>6
  <2> HIDE DEF j
  <2>2. QED
    BY <1>3, <2>1, RegClose DEF j
<1>4. QED
  BY <1>2, <1>3 DEF Respond

LEMMA RegRead ==
  ASSUME MaxConn < Width, TrackerInv, RequestInv, RegInv, NEW c \in Conn, Read(c)
  PROVE  RegInv'
<1> DEFINE A == Announced(info_hash[c])
<1>1. /\ inbox[c] # "none" => socket[c] # "free"
      /\ socket[c] # "free" => /\ owner[c] \in Client /\ info_hash[c] \in Torrent
                               /\ GoodInfo(Info(c))
      /\ completed[c] \in BOOLEAN
      /\ inbox[c] \in {"seeding", "completed"} \/ completed[c] =>
           <<owner[c], info_hash[c]>> \in finished
      /\ Wholes \in SUBSET Conn /\ (completed[c] <=> c \in Wholes)
      /\ socket[c] # "free" => (state[c] = "CONNECTED" <=> c \in A)
  BY DEF TrackerInv, TypeOK, ConnInv, InfoInv, Info, RequestInv, Wholes, Announced
<1>2. ASSUME ~overlapped, socket[c] # "free"
      PROVE  /\ A \in SUBSET Conn /\ \A d \in A : d # c => owner[d] # owner[c]
             /\ Right(Info(c), A, Wholes, owner)
  BY <1>1, <1>2, OthersDiffer DEF RegInv, Info
<1>3. CASE Started(c)
  <2> DEFINE whole == inbox[c] = "seeding"
             peer == [id |-> owner[c], address |-> clientAddress]
             i == AddPeer(Info(c), peer, whole)
             F == IF whole THEN Wholes \cup {c} ELSE Wholes \ {c}
  <2>1. socket[c] # "free" /\ Respond(c, i, whole) /\ whole \in BOOLEAN /\ c \notin A
    BY <1>1, <1>3 DEF Started, RequestInv
  <2>2. whole => <<owner[c], info_hash[c]>> \in finished
    BY <1>1
  <2>3. ~overlapped => Right(i, A \cup {c}, F, owner)
    <3>1. peer.id = owner[c]
      OBVIOUS
    <3> HIDE DEF peer, whole, A
    <3>2. QED
      BY <1>1, <1>2, <2>1, <3>1, AddPeerRight
  <2> HIDE DEF i, whole
  <2>4. QED
    BY <2>1, <2>2, <2>3, RegRespond
<1>4. CASE Regular(c)
  <2>1. socket[c] # "free" /\ Respond(c, Info(c), completed[c]) /\ c \in A
    BY <1>1, <1>4 DEF Regular, RequestInv
  <2>2. /\ A \cup {c} = A
        /\ (IF completed[c] THEN Wholes \cup {c} ELSE Wholes \ {c}) = Wholes
    BY <1>1, <2>1
  <2>3. QED
    BY <1>1, <1>2, <2>1, <2>2, RegRespond
<1>5. CASE Completed(c)
  <2> DEFINE i == SetCompleted(Info(c))
  <2>1. /\ socket[c] # "free" /\ Respond(c, i, TRUE) /\ c \in A /\ c \notin Wholes
        /\ <<owner[c], info_hash[c]>> \in finished
    BY <1>1, <1>5 DEF Completed, RequestInv
  <2>2. ~overlapped => Right(i, A \cup {c}, Wholes \cup {c}, owner)
    <3>1. A \cup {c} = A
      BY <2>1
    <3> HIDE DEF A
    <3>2. QED
      BY <1>1, <1>2, <2>1, <3>1, SetCompletedRight
  <2> HIDE DEF i
  <2>3. QED
    BY <2>1, <2>2, RegRespond
<1>6. ASSUME socket[c] # "free", c \in A
      PROVE  ~overlapped =>
               Right(RemovePeer(Info(c), owner[c], completed[c]), A \ {c}, Wholes, owner)
  <2>1. completed[c] = (c \in Wholes)
    BY <1>1
  <2> HIDE DEF A
  <2>2. ~overlapped =>
          Right(RemovePeer(Info(c), owner[c], c \in Wholes), A \ {c}, Wholes, owner)
    BY <1>1, <1>2, <1>6, RemovePeerRight
  <2>3. QED
    BY <2>1, <2>2
<1>7. CASE Stopped(c)
  <2>1. /\ socket[c] # "free" /\ c \in A /\ answer' = NoAnswer
        /\ CloseConnection(c, RemovePeer(Info(c), owner[c], completed[c]))
    BY <1>1, <1>7 DEF Stopped, RequestInv
  <2>2. QED
    BY <1>6, <2>1, RegClose
<1>8. CASE ReadEnd(c)
  <2> DEFINE i == IF state[c] = "NEW" THEN Info(c)
                  ELSE RemovePeer(Info(c), owner[c], completed[c])
  <2>1. socket[c] # "free" /\ CloseConnection(c, i) /\ answer' = NoAnswer
    BY <1>8 DEF ReadEnd
  <2>2. CASE state[c] = "NEW"
    <3>1. A \ {c} = A
      BY <1>1, <2>1, <2>2
    <3>2. QED
      BY <1>2, <2>1, <2>2, <3>1, RegClose
  <2>3. CASE state[c] # "NEW"
    <3>1. c \in A
      BY <1>1, <2>1, <2>3 DEF TrackerInv, TypeOK
    <3>2. QED
      BY <1>6, <2>1, <2>3, <3>1, RegClose
  <2>4. QED
    BY <2>2, <2>3
<1>9. QED
  BY <1>3, <1>4, <1>5, <1>7, <1>8 DEF Read

LEMMA RegAccept ==
  ASSUME TrackerInv, RegInv, NEW c \in Conn, NEW p \in Client, NEW t \in Torrent,
         Accept(c, p, t)
  PROVE  RegInv'
<1>1. /\ TypeOK /\ socket[c] = "free" /\ state[c] = "NEW"
      /\ socket' = [socket EXCEPT ![c] = "open"]
      /\ owner' = [owner EXCEPT ![c] = p]
      /\ info_hash' = [info_hash EXCEPT ![c] = t]
      /\ overlapped' = (overlapped \/ \E d \in Conn : owner[d] = p /\ info_hash[d] = t)
      /\ answer' = NoAnswer
      /\ info' = info /\ state' = state /\ completed' = completed
  BY DEF TrackerInv, ConnInv, Accept
<1> SUFFICES ASSUME ~overlapped'
             PROVE  /\ Alone'
                    /\ \A u \in Torrent : Right(info'[u], Announced(u)', Wholes', owner')
                    /\ AnswerTellsAll'
  BY DEF RegInv
<1>2. ~overlapped /\ \A d \in Conn : ~(owner[d] = p /\ info_hash[d] = t)
  BY <1>1
<1>3. \A d \in Conn : d # c => /\ socket'[d] = socket[d]
                               /\ owner'[d] = owner[d] /\ info_hash'[d] = info_hash[d]
  BY <1>1 DEF TypeOK
<1>4. owner'[c] = p /\ info_hash'[c] = t
  BY <1>1 DEF TypeOK
<1>5. Alone'
  <2> SUFFICES ASSUME NEW d \in Conn, NEW e \in Conn,
                      socket'[d] # "free", socket'[e] # "free",
                      owner'[d] = owner'[e], info_hash'[d] = info_hash'[e], d # e
               PROVE  FALSE
    BY DEF Alone
  <2>1. CASE d # c /\ e # c
    BY <1>2, <1>3, <2>1 DEF RegInv, Alone
  <2>2. CASE d = c \/ e = c
    BY <1>2, <1>3, <1>4, <2>2
  <2>3. QED
    BY <2>1, <2>2
<1>6. AnswerTellsAll'
  BY <1>1 DEF AnswerTellsAll, NoAnswer
<1>7. ASSUME NEW u \in Torrent
      PROVE  Right(info'[u], Announced(u)', Wholes', owner')
  <2>1. Announced(u)' = Announced(u) /\ c \notin Announced(u)
    BY <1>1, <1>3 DEF Announced
  <2>2. \A d \in Announced(u) : owner'[d] = owner[d] /\ (d \in Wholes' <=> d \in Wholes)
    BY <1>1, <1>3, <2>1 DEF Announced, Wholes
  <2>3. Right(info'[u], Announced(u), Wholes, owner)
    BY <1>1, <1>2 DEF RegInv
  <2>4. QED
    BY <2>1, <2>2, <2>3, RightElsewhere
<1>8. QED
  BY <1>5, <1>6, <1>7

\* A step that only lets connections hang up and sends no answer.
LEMMA RegElsewhere ==
  ASSUME RegInv,
         UNCHANGED <<info, owner, info_hash, state, completed, overlapped>>,
         \A c \in Conn : socket'[c] # "free" => socket[c] # "free",
         \/ answer' = NoAnswer
         \/ answer' = answer /\ finished' = finished
  PROVE  RegInv'
<1> SUFFICES ASSUME ~overlapped
             PROVE  /\ Alone'
                    /\ \A t \in Torrent : Right(info'[t], Announced(t)', Wholes', owner')
                    /\ AnswerTellsAll'
  BY DEF RegInv
<1>1. Alone'
  BY DEF RegInv, Alone
<1>2. ASSUME NEW t \in Torrent
      PROVE  Right(info'[t], Announced(t)', Wholes', owner')
  <2>1. Announced(t)' = Announced(t) /\ Wholes' = Wholes
    BY DEF Announced, Wholes
  <2>2. QED
    BY <2>1 DEF RegInv
<1>3. CASE answer' = NoAnswer
  BY <1>1, <1>2, <1>3 DEF AnswerTellsAll, NoAnswer
<1>4. CASE answer' = answer /\ finished' = finished
  <2>1. Others' = Others
    BY <1>4 DEF Others, Announced
  <2>2. AnswerTellsAll'
    BY <1>4, <2>1 DEF RegInv, AnswerTellsAll
  <2>3. QED
    BY <1>1, <1>2, <2>2
<1>5. QED
  BY <1>3, <1>4

LEMMA RegInit == Init => RegInv
<1> SUFFICES ASSUME Init PROVE RegInv
  OBVIOUS
<1>1. Alone /\ AnswerTellsAll
  BY DEF Init, Alone, AnswerTellsAll, NoAnswer
<1>2. ASSUME NEW t \in Torrent
      PROVE  Right(info[t], Announced(t), Wholes, owner)
  <2>1. Announced(t) = {}
    BY DEF Init, Announced
  <2>2. info[t] = [peers |-> {}, num_completed |-> 0, num_incompleted |-> 0]
    BY DEF Init
  <2>3. Ids(info[t]) = {}
    BY <2>2 DEF Ids
  <2>4. /\ Announced(t) \cap Wholes = {} /\ Announced(t) \ Wholes = {}
        /\ {owner[c] : c \in Announced(t)} = {}
    BY <2>1
  <2>5. Cardinality({}) = 0
    BY FS_EmptySet
  <2>6. QED
    BY <2>2, <2>3, <2>4, <2>5 DEF Right
<1>3. QED
  BY <1>1, <1>2 DEF RegInv

LEMMA RegStep ==
  ASSUME MaxConn < Width, TrackerInv, RequestInv, RegInv, [Next]_vars
  PROVE  RegInv'
<1>1. CASE UNCHANGED vars
  BY <1>1, RegElsewhere DEF vars, ends
<1>2. ASSUME NEW c \in Conn, Read(c) PROVE RegInv'
  BY <1>2, RegRead
<1>3. ASSUME NEW c \in Conn, NEW p \in Client, NEW t \in Torrent, Accept(c, p, t)
      PROVE  RegInv'
  BY <1>3, RegAccept
<1>4. ASSUME NEW c \in Conn, Send(c) PROVE RegInv'
  BY <1>4, RegElsewhere DEF Send, ends
<1>5. ASSUME NEW c \in Conn, HangUp(c) PROVE RegInv'
  <2>1. \A d \in Conn : socket'[d] # "free" => socket[d] # "free"
    BY <1>5 DEF HangUp, TrackerInv, TypeOK
  <2>2. QED
    BY <1>5, <2>1, RegElsewhere DEF HangUp
<1>6. ASSUME NEW p \in Client, NEW t \in Torrent, Finish(p, t) PROVE RegInv'
  BY <1>6, RegElsewhere DEF Finish, ends
<1>7. QED
  BY <1>1, <1>2, <1>3, <1>4, <1>5, <1>6 DEF Next

\* The invariant and what it needs of the others, by induction.
LEMMA RegInductive ==
  ASSUME MaxConn < Width
  PROVE  Spec => []RegInv
<1>1. Init => RegInv
  BY RegInit
<1>2. TrackerInv /\ RequestInv /\ RegInv /\ [Next]_vars => RegInv'
  BY RegStep
<1>3. Spec => []TrackerInv /\ []RequestInv
  BY TrackerInductive, RequestInductive
<1>4. QED
  BY <1>1, <1>2, <1>3, PTL DEF Spec

\* While no client came back before its previous connection was closed by the
\* tracker, a torrent's list is the announced clients, and the counters count
\* them by their flag without wrapping (addPeer, removePeer, setCompleted).
THEOREM RegisteredExactly ==
  ASSUME MaxConn < Width
  PROVE  Spec => []Registered
<1>1. RegInv => Registered
  <2> SUFFICES ASSUME RegInv PROVE Registered
    OBVIOUS
  <2>1. \A t \in Torrent :
          /\ {c \in Announced(t) : completed[c]} = Announced(t) \cap Wholes
          /\ {c \in Announced(t) : ~completed[c]} = Announced(t) \ Wholes
    BY DEF Announced, Wholes
  <2>2. QED
    BY <2>1 DEF RegInv, Registered, Right
<1>2. QED
  BY <1>1, RegInductive, PTL

\* Under the same condition an answer tells a client of peers that are announced
\* for the torrent and of no others, and of all of them unless they are more
\* than an answer lists (createResponse).
THEOREM AnswerIsComplete ==
  ASSUME MaxConn < Width
  PROVE  Spec => []AnswerTellsAll
<1>1. RegInv => AnswerTellsAll
  BY DEF RegInv, AnswerTellsAll
<1>2. QED
  BY <1>1, RegInductive, PTL
=============================================================================
