------------------------------- MODULE Tracker -------------------------------
(***************************************************************************)
(* The tracker: the thread that accepts connections (Tracker/Server.cpp),  *)
(* the thread that reads requests and answers them (Tracker/Connection.    *)
(* cpp), and what it keeps of every torrent (Tracker/TorrentInstanceInfo.  *)
(* cpp).                                                                   *)
(*                                                                         *)
(* External: the clients.  One sends what Client/TrackerConnection.cpp     *)
(* sends: "started" on every new connection, then one request at a time,   *)
(* "completed" if it was not complete before, "stopped" last; its end of a *)
(* connection may close at any time, which the tracker reads later.        *)
(*                                                                         *)
(* A connection is known by its descriptor, 1 .. MaxConn.  One that was    *)
(* closed is "free": its Connection is deleted, or never used again.  Every*)
(* client has an address of its own, for which the client stands.          *)
(***************************************************************************)
EXTENDS Integers, FiniteSets

CONSTANTS
  Client, Torrent,
  None,       \* no client, no torrent
  MaxConn,    \* bound: the connections that are open at once
  PeerLimit,  \* the most peers an answer lists, 50 in the program
  Width       \* the counters are numbers modulo Width, 2^64 in the program

ASSUME TrackerAssumption ==
  /\ IsFiniteSet(Client) /\ MaxConn \in Nat
  /\ None \notin Client \cup Torrent
  /\ PeerLimit \in Nat /\ Width \in Nat \ {0}

VARIABLES
  clientAddress,  \* the accepting thread's variable, to which the address of
                  \*   every Connection points: whose address it holds
  info,           \* per torrent: its TorrentInstanceInfo
  socket,         \* per connection: "free", "open", or "hungup" by the client
  owner,          \* per connection: the client at the other end
  info_hash,      \* per connection: the torrent its client announces on it
  inbox,          \* per connection: the request that was sent and not read
  state,          \* per connection: "NEW" or "CONNECTED"
  completed,      \* per connection: the tracker's flag
  answer,         \* the answer that the last step sent: to whom, on which
                  \*   torrent, and the ids that it lists; or NoAnswer
  finished,       \* the clients that have the whole file, with the torrent
  overlapped,     \* history: did a client come back before its previous
                  \*   connection was closed here?
  raced           \* history: was a connection accepted before the "started"
                  \*   of another one was handled?

ends == <<socket, owner, info_hash, state, completed>>
vars == <<clientAddress, info, ends, inbox, answer, finished, overlapped, raced>>

NoAnswer == [to |-> None, torrent |-> None, peers |-> {}]

Conn == 1 .. MaxConn

\* "left" is 0 in "seeding", which is a "started" too.
Request == {"started", "seeding", "regular", "completed", "stopped"}

-----------------------------------------------------------------------------
(***************************************************************************)
(* TorrentInstanceInfo.                                                    *)
(***************************************************************************)

Ids(i) == {q.id : q \in i.peers}

Inc(n) == (n + 1) % Width

Dec(n) == (n - 1) % Width

\* addPeer
AddPeer(i, peer, whole) ==
  IF peer.id \in Ids(i) THEN i
  ELSE [peers |-> i.peers \cup {peer},
        num_completed |-> IF whole THEN Inc(i.num_completed) ELSE i.num_completed,
        num_incompleted |-> IF whole THEN i.num_incompleted ELSE Inc(i.num_incompleted)]

\* A mutation: the counters go down also for a peer that is not listed.
RemovePeerCounted(i, id, whole) ==
  [peers |-> {q \in i.peers : q.id # id},
   num_completed |-> IF whole THEN Dec(i.num_completed) ELSE i.num_completed,
   num_incompleted |-> IF whole THEN i.num_incompleted ELSE Dec(i.num_incompleted)]

\* A mutation: the peer stays listed.
RemovePeerKept(i, id, whole) == i

\* removePeer
RemovePeer(i, id, whole) ==
  IF id \notin Ids(i) THEN i
  ELSE [peers |-> {q \in i.peers : q.id # id},
        num_completed |-> IF whole THEN Dec(i.num_completed) ELSE i.num_completed,
        num_incompleted |-> IF whole THEN i.num_incompleted ELSE Dec(i.num_incompleted)]

\* A mutation: the peer is not taken from the incomplete ones.
SetCompletedTwice(i) == [i EXCEPT !.num_completed = Inc(@)]

\* setCompleted(peer, true), which does not look for the peer.
SetCompleted(i) == [i EXCEPT !.num_completed = Inc(@), !.num_incompleted = Dec(@)]

\* A mutation: also the peer that asks.
GetRandomPeersAll(i, id) ==
  {S \in SUBSET Ids(i) : \/ S = Ids(i) /\ Cardinality(S) <= PeerLimit
                         \/ Cardinality(S) = PeerLimit}

\* getRandomPeers: any peers but the one that asks, as many as the limit.
GetRandomPeers(i, id) ==
  LET others == Ids(i) \ {id} IN
  {S \in SUBSET others : \/ S = others /\ Cardinality(S) <= PeerLimit
                         \/ Cardinality(S) = PeerLimit}

-----------------------------------------------------------------------------
Init ==
  /\ clientAddress = None
  /\ info = [t \in Torrent |-> [peers |-> {}, num_completed |-> 0, num_incompleted |-> 0]]
  /\ socket = [c \in Conn |-> "free"]
  /\ owner = [c \in Conn |-> None]
  /\ info_hash = [c \in Conn |-> None]
  /\ inbox = [c \in Conn |-> "none"]
  /\ state = [c \in Conn |-> "NEW"]
  /\ completed = [c \in Conn |-> FALSE]
  /\ answer = NoAnswer
  /\ finished = {}
  /\ overlapped = FALSE
  /\ raced = FALSE

(***************************************************************************)
(* The clients.                                                            *)
(***************************************************************************)

\* The connection on which p announces t, as p sees it.
Live(p, t) == {c \in Conn : socket[c] = "open" /\ owner[c] = p /\ info_hash[c] = t}

\* The first request says whether the client has the whole file; another one
\* waits for the answer to the one before.
Send(c) ==
  /\ socket[c] = "open" /\ inbox[c] = "none"
  /\ \E request \in IF state[c] = "CONNECTED" THEN {"regular", "stopped"}
                    ELSE IF <<owner[c], info_hash[c]>> \in finished THEN {"seeding"}
                    ELSE {"started"} :
       inbox' = [inbox EXCEPT ![c] = request]
  /\ answer' = NoAnswer
  /\ UNCHANGED <<clientAddress, info, ends, finished, overlapped, raced>>

\* The client finishes the file, and says so on a connection it has.  While it
\* waits for an answer it cannot.
Finish(p, t) ==
  /\ <<p, t>> \notin finished
  /\ \A c \in Live(p, t) : state[c] = "CONNECTED" /\ inbox[c] = "none"
  /\ finished' = finished \cup {<<p, t>>}
  /\ inbox' = [c \in Conn |-> IF c \in Live(p, t) THEN "completed" ELSE inbox[c]]
  /\ answer' = NoAnswer
  /\ UNCHANGED <<clientAddress, info, ends, overlapped, raced>>

\* The client's end closes; what it sent can still be read.
HangUp(c) ==
  /\ socket[c] = "open"
  /\ socket' = [socket EXCEPT ![c] = "hungup"]
  /\ answer' = NoAnswer
  /\ UNCHANGED <<clientAddress, info, owner, info_hash, state, completed, inbox,
                 finished, overlapped, raced>>

-----------------------------------------------------------------------------
(***************************************************************************)
(* The accepting thread.                                                   *)
(***************************************************************************)

\* A mutation: a Connection keeps the address of the first client.
AcceptFirst(c, p, t) ==
  /\ socket[c] = "free" /\ \A d \in 1 .. c - 1 : socket[d] # "free"
  /\ Live(p, t) = {}
  /\ clientAddress' = IF clientAddress = None THEN p ELSE clientAddress
  /\ socket' = [socket EXCEPT ![c] = "open"]
  /\ owner' = [owner EXCEPT ![c] = p]
  /\ info_hash' = [info_hash EXCEPT ![c] = t]
  /\ overlapped' = (overlapped \/ \E d \in Conn : owner[d] = p /\ info_hash[d] = t)
  /\ raced' = (raced \/ \E d \in Conn : socket[d] # "free" /\ state[d] = "NEW")
  /\ answer' = NoAnswer
  /\ UNCHANGED <<info, state, completed, inbox, finished>>

\* accept() gives the lowest free descriptor, and overwrites the address that
\* the Connections share.
Accept(c, p, t) ==
  /\ socket[c] = "free" /\ \A d \in 1 .. c - 1 : socket[d] # "free"
  /\ Live(p, t) = {}
  /\ clientAddress' = p
  /\ socket' = [socket EXCEPT ![c] = "open"]
  /\ owner' = [owner EXCEPT ![c] = p]
  /\ info_hash' = [info_hash EXCEPT ![c] = t]
  /\ overlapped' = (overlapped \/ \E d \in Conn : owner[d] = p /\ info_hash[d] = t)
  /\ raced' = (raced \/ \E d \in Conn : socket[d] # "free" /\ state[d] = "NEW")
  /\ answer' = NoAnswer
  /\ UNCHANGED <<info, state, completed, inbox, finished>>

-----------------------------------------------------------------------------
(***************************************************************************)
(* The reading thread.                                                     *)
(***************************************************************************)

\* The torrent announced on c.
Info(c) == info[info_hash[c]]

\* closeConnection, which leaves the torrent's info as i.
CloseConnection(c, i) ==
  /\ info' = [info EXCEPT ![info_hash[c]] = i]
  /\ socket' = [socket EXCEPT ![c] = "free"]
  /\ owner' = [owner EXCEPT ![c] = None]
  /\ info_hash' = [info_hash EXCEPT ![c] = None]
  /\ state' = [state EXCEPT ![c] = "NEW"]
  /\ completed' = [completed EXCEPT ![c] = FALSE]
  /\ inbox' = [inbox EXCEPT ![c] = "none"]
  /\ UNCHANGED <<clientAddress, finished, overlapped, raced>>

\* The rest of createResponse, when the torrent's info is i and the flag is
\* whole: the answer is written, or the write fails and closes the connection.
Respond(c, i, whole) ==
  \/ /\ info' = [info EXCEPT ![info_hash[c]] = i]
     /\ state' = [state EXCEPT ![c] = "CONNECTED"]
     /\ completed' = [completed EXCEPT ![c] = whole]
     /\ \E S \in IF whole THEN {{}} ELSE GetRandomPeers(i, owner[c]) :
          answer' = [to |-> owner[c], torrent |-> info_hash[c], peers |-> S]
     /\ inbox' = [inbox EXCEPT ![c] = "none"]
     /\ UNCHANGED <<clientAddress, socket, owner, info_hash, finished,
                    overlapped, raced>>
  \/ /\ socket[c] = "hungup"
     /\ CloseConnection(c, RemovePeer(i, owner[c], whole))
     /\ answer' = NoAnswer

\* "started": the address that is listed is the shared one.
Started(c) ==
  /\ inbox[c] \in {"started", "seeding"}
  /\ LET whole == inbox[c] = "seeding"
         peer == [id |-> owner[c], address |-> clientAddress]
     IN  Respond(c, AddPeer(Info(c), peer, whole), whole)

Regular(c) ==
  /\ inbox[c] = "regular"
  /\ Respond(c, Info(c), completed[c])

Completed(c) ==
  /\ inbox[c] = "completed"
  /\ Respond(c, SetCompleted(Info(c)), TRUE)

\* "stopped" is not answered.
Stopped(c) ==
  /\ inbox[c] = "stopped"
  /\ CloseConnection(c, RemovePeer(Info(c), owner[c], completed[c]))
  /\ answer' = NoAnswer

\* The end of the stream is read, and the Connection deleted.  A peer is
\* removed only if a request has been read, which gave the info_hash.
ReadEnd(c) ==
  /\ socket[c] = "hungup" /\ inbox[c] = "none"
  /\ CloseConnection(c, IF state[c] = "NEW" THEN Info(c)
                        ELSE RemovePeer(Info(c), owner[c], completed[c]))
  /\ answer' = NoAnswer

Read(c) == Started(c) \/ Regular(c) \/ Completed(c) \/ Stopped(c) \/ ReadEnd(c)

Next ==
  \/ \E c \in Conn :
       \/ \E p \in Client, t \in Torrent : Accept(c, p, t)
       \/ Send(c) \/ HangUp(c) \/ Read(c)
  \/ \E p \in Client, t \in Torrent : Finish(p, t)

Spec == Init /\ [][Next]_vars

-----------------------------------------------------------------------------
(***************************************************************************)
(* Properties.                                                             *)
(***************************************************************************)

\* The Connections on which a client is announced to the tracker.
Announced(t) == {c \in Conn : state[c] = "CONNECTED" /\ info_hash[c] = t}

TypeOK ==
  /\ clientAddress \in Client \cup {None}
  /\ info \in [Torrent -> [peers : SUBSET [id : Client, address : Client],
                           num_completed : 0 .. Width - 1,
                           num_incompleted : 0 .. Width - 1]]
  /\ socket \in [Conn -> {"free", "open", "hungup"}]
  /\ owner \in [Conn -> Client \cup {None}]
  /\ info_hash \in [Conn -> Torrent \cup {None}]
  /\ inbox \in [Conn -> Request \cup {"none"}]
  /\ state \in [Conn -> {"NEW", "CONNECTED"}]
  /\ completed \in [Conn -> BOOLEAN]
  /\ answer \in [to : Client \cup {None}, torrent : Torrent \cup {None},
                 peers : SUBSET Client]
  /\ finished \subseteq Client \X Torrent
  /\ overlapped \in BOOLEAN /\ raced \in BOOLEAN

\* No peer stays listed without a connection that the tracker has not closed,
\* however its connections overlapped and whichever failed first.
ListedIsAnnounced ==
  \A t \in Torrent : Ids(info[t]) \subseteq {owner[c] : c \in Announced(t)}

\* A peer is listed once: no two entries of a torrent have the same id, however
\* often a client announced itself, on one connection or on several (addPeer).
ListedOnce ==
  \A t \in Torrent : Cardinality(info[t].peers) = Cardinality(Ids(info[t]))

\* The two unsigned counters together count the peers in the list, each of them
\* once, even after one of them wrapped (addPeer, removePeer, setCompleted).
CountersCoverList ==
  \A t \in Torrent :
    (info[t].num_completed + info[t].num_incompleted) % Width
      = Cardinality(Ids(info[t])) % Width

\* If no client came back before its previous connection was closed here, the
\* list is the announced clients, and the counters count them by their flag.
Registered ==
  ~overlapped => \A t \in Torrent :
    /\ Ids(info[t]) = {owner[c] : c \in Announced(t)}
    /\ info[t].num_completed = Cardinality({c \in Announced(t) : completed[c]})
    /\ info[t].num_incompleted = Cardinality({c \in Announced(t) : ~completed[c]})

\* If every "started" was handled before the next connection was accepted,
\* each peer is listed with its own address.
OwnAddress ==
  ~raced => \A t \in Torrent : \A q \in info[t].peers : q.address = q.id

\* The clients that the answer could tell of.
Others == {owner[c] : c \in Announced(answer.torrent)} \ {answer.to}

\* An answer to a client that misses pieces lists the other announced clients,
\* never the client itself, and all of them unless the limit cuts them down.
AnswerTellsAll ==
  answer.to # None /\ <<answer.to, answer.torrent>> \notin finished /\ ~overlapped =>
    /\ answer.peers \subseteq Others
    /\ answer.peers = Others \/ Cardinality(answer.peers) = PeerLimit
=============================================================================
