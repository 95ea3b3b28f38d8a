---------------------------- MODULE MessageStream ----------------------------
(***************************************************************************)
(* The byte streams between a client (Client/TrackerConnection) and the    *)
(* tracker (Tracker/Server, Tracker/Connection).  Each side reads what has *)
(* arrived, cut anywhere, adds it to what it could not decode before, and  *)
(* takes one message from it.  An exception that leaves a slot or a thread *)
(* ends the program.                                                       *)
(***************************************************************************)
EXTENDS Bencode

CONSTANTS
    Request,     \* requests a client may send, as values
    PeerId,      \* what an answer says of other peers: a string
    WrappedInt,  \* a counter of the tracker that went below zero, printed
    MaxRequests, \* bound: requests sent
    MaxCuts,     \* bound: reads that leave something of what has arrived
    MaxLost      \* bound: connections lost

ASSUME RequestAssumption ==
    /\ Request \subseteq Message
    /\ PeerId \in Seq(Char)
    /\ WrappedInt \in Nat

VARIABLES
    up,         \* bytes under way to the tracker
    down,       \* bytes under way to the client
    trackerBuf, \* what the tracker has not decoded
    clientBuf,  \* what the client has not decoded
    awaiting,   \* the client has sent a request and got no answer
    dead,       \* programs that ended
    sent,       \* history: requests sent on this connection
    handled,    \* history: requests the tracker handled on this connection
    answers,    \* history: answers it sent on this connection
    seen,       \* history: answers the client took on this connection
    hasty,      \* history: the tracker answered before a request was whole
    stale,      \* history: a connection was lost with part of an answer read
    cuts,       \* history: reads that left something
    lost        \* history: connections lost

vars == <<up, down, trackerBuf, clientBuf, awaiting, dead, sent, handled, answers,
          seen, hasty, stale, cuts, lost>>

-----------------------------------------------------------------------------
Key(c)  == <<c>>
IntOf(n)  == [int |-> n]
StrOf(s)  == [str |-> s]

\* The keys "failure reason", "interval", "complete" and "peers", in the order
\* of a std::map (TrackerResponse::getResponse); complete is wrapped when the
\* counter of the torrent is.
Failure  == 102
Complete == 99
Interval == 105
Peers    == 112

Answer(number, complete, failure) ==
    [dict |-> <<<<Key(Complete), IntOf(complete)>>>>
              \o (IF failure THEN <<<<Key(Failure), StrOf(<<119>>)>>>> ELSE <<>>)
              \o <<<<Key(Interval), IntOf(number)>>,
                   <<Key(Peers), [list |-> IF failure THEN <<>> ELSE <<StrOf(PeerId)>>]>>>>]

Sends(v) == Bytes(Code(v))

\* What was decoded is a message only if it is a dictionary (dynamic_cast).
Taken(outcome) == outcome.kind = "value" /\ "dict" \in DOMAIN outcome.value

Init ==
    /\ up = <<>> /\ down = <<>>
    /\ trackerBuf = <<>> /\ clientBuf = <<>>
    /\ awaiting = FALSE
    /\ dead = {}
    /\ sent = <<>> /\ handled = <<>> /\ answers = <<>> /\ seen = <<>>
    /\ hasty = FALSE /\ stale = FALSE
    /\ cuts = 0 /\ lost = 0

\* A mutation: also while an answer is awaited.
SendRequestAlways(request) ==
    /\ "client" \notin dead
    /\ Len(sent) + lost < MaxRequests
    /\ up' = up \o Sends(request)
    /\ sent' = Append(sent, request)
    /\ awaiting' = TRUE
    /\ UNCHANGED <<down, trackerBuf, clientBuf, dead, handled, answers, seen, hasty,
                   stale, cuts, lost>>

\* The client sends a request; it waits for the answer before the next one.
SendRequest(request) ==
    /\ "client" \notin dead
    /\ ~awaiting
    /\ Len(sent) + lost < MaxRequests
    /\ up' = up \o Sends(request)
    /\ sent' = Append(sent, request)
    /\ awaiting' = TRUE
    /\ UNCHANGED <<down, trackerBuf, clientBuf, dead, handled, answers, seen, hasty,
                   stale, cuts, lost>>

\* A read takes this many of the bytes under way, all that have arrived so far.
Arrives(bytes, size) ==
    /\ size \in 1 .. Len(bytes)
    /\ size < Len(bytes) => cuts < MaxCuts
    /\ cuts' = IF size < Len(bytes) THEN cuts + 1 ELSE cuts

\* readData: what arrived is decoded, outside of any try, and joins the buffer;
\* a request is taken from it if there is a whole one.  A text that may go on is
\* waited for; any other exception is answered, and the buffer left as it is.
TrackerReads(size, complete) ==
    LET decoded == FromUtf8(SubSeq(up, 1, size))
        buf     == trackerBuf \o decoded.result
        outcome == Decode(buf)
        answer  == Answer(Len(answers) + 1, complete, outcome.kind = "wrong")
    IN  /\ "tracker" \notin dead
        /\ Arrives(up, size)
        /\ up' = SubSeq(up, size + 1, Len(up))
        /\ IF Throws(decoded)
           THEN /\ dead' = dead \cup {"tracker"}
                /\ UNCHANGED <<down, trackerBuf, handled, answers, hasty>>
           ELSE /\ trackerBuf' = Rest(buf, outcome)
                /\ handled' = IF Taken(outcome)
                              THEN Append(handled, outcome.value) ELSE handled
                /\ hasty' = (hasty \/ outcome.kind = "wrong")
                /\ IF Taken(outcome) \/ outcome.kind = "wrong"
                   THEN /\ answers' = Append(answers, answer)
                        /\ down' = down \o Sends(answer)
                   ELSE UNCHANGED <<down, answers>>
                /\ UNCHANGED dead
        /\ UNCHANGED <<clientBuf, awaiting, sent, seen, stale, lost>>

\* TrackerConnection::read, decodeResponse: any exception of the decoder means
\* that the answer is not whole; one of the UTF-8 decoder leaves the slot.  The
\* reason of a failure is looked up under another name, so that every answer
\* counts as one.
ClientReads(size) ==
    LET decoded == FromUtf8(SubSeq(down, 1, size))
        buf     == clientBuf \o decoded.result
        outcome == Decode(buf)
    IN  /\ "client" \notin dead
        /\ Arrives(down, size)
        /\ down' = SubSeq(down, size + 1, Len(down))
        /\ IF Throws(decoded)
           THEN /\ dead' = dead \cup {"client"}
                /\ UNCHANGED <<clientBuf, seen, awaiting>>
           ELSE /\ clientBuf' = Rest(buf, outcome)
                /\ IF Taken(outcome)
                   THEN seen' = Append(seen, outcome.value) /\ awaiting' = FALSE
                   ELSE UNCHANGED <<seen, awaiting>>
                /\ UNCHANGED dead
        /\ UNCHANGED <<up, trackerBuf, sent, handled, answers, hasty, stale, lost>>

\* The connection is lost and made again: the tracker starts with a Connection
\* of its own, the client keeps what it has.
Reconnect ==
    /\ "client" \notin dead
    /\ lost < MaxLost
    /\ lost' = lost + 1
    /\ up' = <<>> /\ down' = <<>>
    /\ trackerBuf' = <<>>
    /\ awaiting' = FALSE
    /\ sent' = <<>> /\ handled' = <<>> /\ answers' = <<>> /\ seen' = <<>>
    /\ stale' = (stale \/ clientBuf # <<>>)
    /\ UNCHANGED <<clientBuf, dead, hasty, cuts>>

Next ==
    \/ \E request \in Request : SendRequest(request)
    \/ \E size \in 1 .. Len(up), complete \in {0, WrappedInt} : TrackerReads(size, complete)
    \/ \E size \in 1 .. Len(down) : ClientReads(size)
    \/ Reconnect

Spec == Init /\ [][Next]_vars

\* What arrived is read, in pieces of any size, while the reader lives: fairness
\* of the two actions that read, stated of the bytes they take.
Reads(bytes, next) == \E size \in 1 .. Len(bytes) : next = SubSeq(bytes, size + 1, Len(bytes))

FairSpec ==
    /\ Spec
    /\ WF_up("tracker" \notin dead /\ Reads(up, up'))
    /\ WF_down("client" \notin dead /\ Reads(down, down'))

-----------------------------------------------------------------------------
\* The requests of a connection, and the answers, each as a channel.
Requests == INSTANCE MessageChannel WITH given <- sent, taken <- handled, broken <- FALSE
Answers == INSTANCE MessageChannel WITH given <- answers, taken <- seen, broken <- stale

\* However the stream is cut, and even when requests overlap because one was
\* answered too early, the tracker handles the requests that were sent, in
\* their order, whole and once (Connection::getRequest).
RequestsDelivered == Requests!Spec

\* The client takes the answers the tracker sent, in their order, whole and once,
\* until a connection is lost while an answer is under way and part of it stays
\* behind (TrackerConnection::decodeResponse).
AnswersDelivered == Answers!Spec

\* A client that waits for nothing has been answered what it asked, and has
\* read the last answer there is, unless a request was answered before it was
\* whole: from then on it may be one answer behind (Connection::createResponse).
UpToDate ==
    ~awaiting /\ ~hasty /\ ~stale
       => handled = sent /\ Len(answers) = Len(sent) /\ seen = answers

\* A number that the other side refuses to read was sent: a counter that went
\* below zero is printed as a number of 64 bits (Int::code).
Unreadable == \E message \in Range(sent) \cup Range(answers) : ~Fits(message)

\* The client and the tracker never wait for each other: while the client waits for an
\* answer, bytes are under way to one of them, so that neither buffer keeps a whole
\* message back, unless it is refused (TrackerConnection::decodeResponse,
\* Connection::getRequest).
NothingStuck ==
    awaiting /\ ~stale => up # <<>> \/ down # <<>> \/ dead # {} \/ Unreadable

\* No part of a message, however short, ends a program: it waits for the rest.
PartIsWaitedFor == dead = {}

\* Each request is answered and the answer read, if both programs live and no
\* number is refused.
AwaitedComes == awaiting ~> (~awaiting \/ dead # {} \/ stale \/ Unreadable)
=============================================================================
