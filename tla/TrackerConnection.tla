-------------------------- MODULE TrackerConnection --------------------------
(***************************************************************************)
(* The connection of one torrent to its tracker (Client/TrackerConnection. *)
(* cpp): the socket, the timer of a connection attempt, the timer that is  *)
(* shared by retries and regular requests, and the slots that are wired to *)
(* them while the program runs.  Everything runs on the event loop; a slot *)
(* that the socket calls in the middle of another one is part of the same  *)
(* action, so the variables such slots touch are the fields of one record. *)
(*                                                                         *)
(* External, modelled from how the code uses it: the tracker, which answers*)
(* or closes the connection, and Qt's QTcpSocket.  connectToHost() on a    *)
(* socket that is not unconnected reports an error.  A socket whose peer   *)
(* closed reports the error first and drops what it holds afterwards, also *)
(* the attempt that was started while it reported: that one is "dead".     *)
(***************************************************************************)
EXTENDS Integers

CONSTANT MaxLost  \* bound: how often the tracker closes a connection

ASSUME LostAssumption == MaxLost \in Nat

VARIABLES
  link,              \* what nested slots touch, see LinkType
  outstanding,       \* requests sent on this connection and not answered
  isUpdateSheduled,  \* is a regular request to be sent when the timer runs out?
  isTimerTimeouted,  \* did it run out with no request to be sent?
  missing,           \* are there pieces that the downloader does not have?
  left,              \* what setLeft was told is left: "some", "none" or, when more
                     \*   was downloaded than the file holds, a wrapped number, "over"
  status,            \* "running", "blocked" in a wait, or "destroyed"
  told,              \* history: what the tracker was told on this connection,
                     \*   "nothing", "incomplete" or "complete"
  lost               \* how often the tracker closed a connection

flags == <<isUpdateSheduled, isTimerTimeouted>>
pieces == <<missing, left>>
vars == <<link, outstanding, flags, pieces, status, told, lost>>

\* retrySlots and intervalSlots are the connections from requestTimer to
\* connectToTracker() and to interval(), reconnectSlots those from the
\* socket's disconnected() to reconnect().
LinkType ==
  [state : {"INIT", "REFUSED", "AWAITING", "ACTIVE", "CLOSED"},
   socket : {"unconnected", "connecting", "dead", "connected"},
   connectTimer : BOOLEAN, requestTimer : BOOLEAN, firstConnectionTry : BOOLEAN,
   retrySlots : Nat, intervalSlots : Nat, reconnectSlots : Nat]

-----------------------------------------------------------------------------
(***************************************************************************)
(* Connecting.                                                             *)
(***************************************************************************)

\* A mutation: the timer of the next attempt is not started.
RefusedForGood(l) ==
  [l EXCEPT !.state = "REFUSED",
            !.retrySlots = IF l.firstConnectionTry THEN @ + 1 ELSE @,
            !.firstConnectionTry = FALSE]

\* retryConnect, after its abort().
Refused(l) ==
  [l EXCEPT !.state = "REFUSED",
            !.retrySlots = IF l.firstConnectionTry THEN @ + 1 ELSE @,
            !.requestTimer = TRUE,
            !.firstConnectionTry = FALSE]

\* A mutation: the state is not set.
ConnectToTrackerSilent(l) ==
  IF l.socket = "unconnected"
  THEN [l EXCEPT !.socket = "connecting", !.connectTimer = TRUE]
  ELSE [Refused([l EXCEPT !.socket = "unconnected"]) EXCEPT !.connectTimer = TRUE]

\* connectToTracker.  When connectToHost() reports an error it calls
\* retryConnect, whose abort() drops the attempt that was under way.
ConnectToTracker(l) ==
  LET init == [l EXCEPT !.state = "INIT"] IN
  IF l.socket = "unconnected"
  THEN [init EXCEPT !.socket = "connecting", !.connectTimer = TRUE]
  ELSE [Refused([init EXCEPT !.socket = "unconnected"]) EXCEPT !.connectTimer = TRUE]

\* reconnect, which wires itself to disconnected() once more.
Reconnect(l) ==
  ConnectToTracker([l EXCEPT !.reconnectSlots = @ + 1,
                             !.intervalSlots = 0,
                             !.firstConnectionTry = TRUE])

\* Op applied n times.
Times(Op(_), n, l) ==
  LET f[k \in 0 .. n] == IF k = 0 THEN l ELSE Op(f[k - 1]) IN f[n]

\* retryConnect.  The abort() of a connected socket emits disconnected().
RetryConnect(l) ==
  LET aborted == [l EXCEPT !.socket = "unconnected"] IN
  Refused(IF l.socket = "connected"
          THEN Times(Reconnect, l.reconnectSlots, aborted)
          ELSE aborted)

Running == status = "running"

Init ==
  /\ link = ConnectToTracker(
              [state |-> "INIT", socket |-> "unconnected", connectTimer |-> FALSE,
               requestTimer |-> FALSE, firstConnectionTry |-> TRUE,
               retrySlots |-> 0, intervalSlots |-> 0, reconnectSlots |-> 1])
  /\ outstanding = 0
  /\ missing \in BOOLEAN
  /\ left = IF missing THEN "some" ELSE "none"
  /\ isUpdateSheduled = missing
  /\ isTimerTimeouted = FALSE
  /\ status = "running"
  /\ told = "nothing"
  /\ lost = 0

\* sendRequest, what tells the tracker what is.
SendRequest(l, tells) ==
  /\ link' = [l EXCEPT !.state = "AWAITING"]
  /\ outstanding' = outstanding + (IF l.socket = "connected" THEN 1 ELSE 0)
  /\ told' = IF l.socket = "connected" THEN tells ELSE told

NoRequest(l) == link' = l /\ UNCHANGED <<outstanding, told>>

\* A mutation: the slots that retry stay wired to requestTimer.
StopRetryingKept(l) ==
  IF l.firstConnectionTry THEN l ELSE [l EXCEPT !.requestTimer = FALSE]

\* onConnection's first part.
StopRetrying(l) ==
  IF l.firstConnectionTry THEN l
  ELSE [l EXCEPT !.requestTimer = FALSE, !.retrySlots = 0]

\* onConnection, with its startRequest.
OnConnection ==
  /\ Running /\ link.socket = "connecting"
  /\ LET l == [StopRetrying(link) EXCEPT !.socket = "connected",
                                         !.connectTimer = FALSE,
                                         !.intervalSlots = @ + 1]
     IN IF l.state = "INIT"
        THEN SendRequest(l, IF left = "none" THEN "complete" ELSE "incomplete")
        ELSE NoRequest(l)
  /\ UNCHANGED <<flags, pieces, status, lost>>

\* The attempt fails, or its timer runs out.
ConnectFailed ==
  /\ Running /\ link.socket = "connecting"
  /\ NoRequest(RetryConnect(link))
  /\ UNCHANGED <<flags, pieces, status, lost>>

ConnectTimeout ==
  /\ Running /\ link.connectTimer
  /\ NoRequest(RetryConnect([link EXCEPT !.connectTimer = FALSE]))
  /\ UNCHANGED <<flags, pieces, status, lost>>

\* The tracker closes the connection.  What was sent may not have been read.
ConnectionLost ==
  /\ Running /\ link.socket = "connected" /\ lost < MaxLost
  /\ link' = LET l == RetryConnect(link)
             IN  IF l.socket = "connecting" THEN [l EXCEPT !.socket = "dead"] ELSE l
  /\ outstanding' = 0 /\ told' = "nothing"
  /\ lost' = lost + 1
  /\ UNCHANGED <<flags, pieces, status>>

-----------------------------------------------------------------------------
(***************************************************************************)
(* Requests and answers.                                                   *)
(***************************************************************************)

\* A mutation: also while an answer is awaited.
RegularRequestAlways(l) == SendRequest(l, told)

\* regularRequest
RegularRequest(l) ==
  IF l.state = "ACTIVE" THEN SendRequest(l, told) ELSE NoRequest(l)

\* interval
Interval(l) ==
  IF isUpdateSheduled
  THEN RegularRequest(l) /\ UNCHANGED isTimerTimeouted
  ELSE NoRequest(l) /\ isTimerTimeouted' = TRUE

\* requestTimer runs out, and calls what is wired to it.  A retry is due 30
\* seconds after the failure, when the 10 seconds of connectTimer are over.
RequestTimeout ==
  /\ Running /\ link.requestTimer /\ ~link.connectTimer
  /\ LET l == Times(ConnectToTracker, link.retrySlots,
                    [link EXCEPT !.requestTimer = FALSE])
     IN IF l.intervalSlots > 0
        THEN Interval(l)
        ELSE NoRequest(l) /\ UNCHANGED isTimerTimeouted
  /\ UNCHANGED <<isUpdateSheduled, pieces, status, lost>>

\* A mutation: the request waits for the timer, which has run out.
UpdatePeerListLater ==
  /\ Running /\ missing
  /\ isUpdateSheduled' = TRUE
  /\ NoRequest(link)
  /\ UNCHANGED <<isTimerTimeouted, pieces, status, lost>>

\* updatePeerList, called for a connection that ends while pieces are missing.
UpdatePeerList ==
  /\ Running /\ missing
  /\ IF isTimerTimeouted
     THEN RegularRequest(link) /\ UNCHANGED isUpdateSheduled
     ELSE NoRequest(link) /\ isUpdateSheduled' = TRUE
  /\ UNCHANGED <<isTimerTimeouted, pieces, status, lost>>

\* decodeResponse of a whole answer.  When it lists peers the downloader dials
\* them and, if it has room for more, calls updatePeerList, also when it has every
\* piece: a client that only shares asks for peers as well.
DecodeResponse(peers, more) ==
  /\ Running /\ outstanding > 0
  /\ more => peers
  /\ link' = [link EXCEPT !.requestTimer = TRUE, !.state = "ACTIVE"]
  /\ outstanding' = outstanding - 1
  /\ isTimerTimeouted' = FALSE
  /\ isUpdateSheduled' = IF peers THEN more ELSE isUpdateSheduled
  /\ UNCHANGED <<pieces, status, told, lost>>

\* A mutation: a client that is connected does not tell.
CompleteRequestSilent ==
  IF link.state = "AWAITING"
  THEN status' = "blocked" /\ NoRequest(link)
  ELSE UNCHANGED status /\ NoRequest(link)

\* completeRequest.  The wait for the answer is on the thread that would read
\* the answer, so it does not end.
CompleteRequest ==
  IF link.state = "AWAITING"
  THEN status' = "blocked" /\ NoRequest(link)
  ELSE /\ UNCHANGED status
       /\ IF link.state = "ACTIVE" THEN SendRequest(link, "complete") ELSE NoRequest(link)

\* A piece after which nothing is left, by the running total: setLeft(0), then
\* completeRequest().  Pieces may be missing if one was downloaded twice.
Completed ==
  /\ Running /\ left = "some"
  /\ left' = "none" /\ missing' \in {FALSE, missing}
  /\ isUpdateSheduled' = FALSE
  /\ CompleteRequest
  /\ UNCHANGED <<isTimerTimeouted, lost>>

\* A piece takes the total past the size of the file; setLeft() wraps, and nothing
\* is ever complete again.
Overshot ==
  /\ Running
  /\ left' = "over" /\ missing' \in {FALSE, missing}
  /\ NoRequest(link)
  /\ UNCHANGED <<flags, status, lost>>

\* The destructor, with its stopRequest.
StopRequest ==
  /\ Running
  /\ CASE link.state = "AWAITING" -> status' = "blocked" /\ UNCHANGED <<link, told>>
       [] link.state = "ACTIVE" -> /\ status' = "destroyed" /\ told' = "nothing"
                                   /\ link' = [link EXCEPT !.state = "CLOSED",
                                                           !.socket = "unconnected",
                                                           !.requestTimer = FALSE]
       [] OTHER -> status' = "destroyed" /\ UNCHANGED <<link, told>>
  /\ UNCHANGED <<outstanding, flags, pieces, lost>>

Answered == \E peers, more \in BOOLEAN : DecodeResponse(peers, more)

Next == \/ OnConnection \/ ConnectFailed \/ ConnectTimeout \/ ConnectionLost
        \/ RequestTimeout \/ UpdatePeerList \/ Answered \/ Completed \/ Overshot
        \/ StopRequest

Spec == Init /\ [][Next]_vars

\* Timers run out, the tracker answers a request unless it closes the
\* connection, and accepts one of infinitely many attempts.
Fairness == /\ WF_vars(ConnectTimeout) /\ WF_vars(RequestTimeout)
            /\ WF_vars(Answered) /\ SF_vars(OnConnection)

FairSpec == Spec /\ Fairness

-----------------------------------------------------------------------------
(***************************************************************************)
(* Properties.                                                             *)
(***************************************************************************)

\* A request is sent only when the one before it has been answered: either
\* side decodes one message from what a single read delivers.
OneOutstanding ==
  status # "destroyed" => outstanding = IF link.state = "AWAITING" THEN 1 ELSE 0

\* A connection that was established has been announced with "started", whichever
\* slots were wired to what on the way there.
ConnectedIsAnnounced ==
  link \in LinkType /\
  (link.socket = "connected" => link.state \in {"AWAITING", "ACTIVE"} /\ told # "nothing")

\* Without a connection a timer is running that leads to the next attempt, and
\* it is wired to connectToTracker.
AttemptIsDue ==
  Running /\ link.socket # "connected" =>
    \/ link.connectTimer
    \/ link.requestTimer /\ link.retrySlots > 0

\* "Klasa odpowiedzialna za nawiazanie i utrzymanie polaczenia z trackerem"
\* (TrackerConnection.h:1): the connection is established, and established
\* again when it was lost.
Restored == []<>(link.state = "ACTIVE" \/ ~Running)

\* The tracker learns that the download is complete, by "completed" or, when
\* there was no connection, by the "left" of the next "started", unless a piece
\* that is downloaded twice takes the total past the size of the file before.
CompletionIsTold == (left = "none") ~> (told = "complete" \/ left = "over" \/ ~Running)

\* A request that was scheduled, by a client that downloads or one that has it all,
\* is sent, unless the answer to another one
\* lists peers, or the download completes, before.
ScheduledIsSent ==
  isUpdateSheduled ~> (~isUpdateSheduled \/ link.state = "AWAITING" \/ ~Running)
=============================================================================
