----------------------- MODULE TrackerConnectionProofs -----------------------
(***************************************************************************)
(* What slots that are wired, unwired and called any number of times keep  *)
(* true of a client's connection to its tracker, however often it is lost. *)
(***************************************************************************)
EXTENDS TrackerConnection, WellFoundedInduction, TLAPS

-----------------------------------------------------------------------------
(***************************************************************************)
(* Iteration.  Induction is over sets of natural numbers.                  *)
(***************************************************************************)
Below == {pair \in Nat \X Nat : pair[1] < pair[2]}

LEMMA SetInduction ==
  ASSUME NEW S, 0 \in S, \A n \in Nat : n \in S => n + 1 \in S
  PROVE  Nat \subseteq S
<1> SUFFICES ASSUME Nat \ S # {} PROVE FALSE
  OBVIOUS
<1>1. IsWellFoundedOn(Below, Nat)
  <2>1. Below = OpToRel(<, Nat)
    BY DEF Below, OpToRel
  <2>2. QED
    BY <2>1, NatLessThanWellFounded
<1>2. PICK x \in Nat \ S : \A y \in Nat \ S : ~(<<y, x>> \in Below)
  BY <1>1, WFMin
<1>3. x # 0 /\ x - 1 \in Nat
  BY <1>2
<1>4. x - 1 \notin S
  BY <1>2, <1>3
<1>5. <<x - 1, x>> \in Below
  BY <1>3 DEF Below
<1>6. QED
  BY <1>2, <1>3, <1>4, <1>5

\* What holds at one place of a sequence of steps, and is kept by each of them,
\* holds at the end.
LEMMA AlongSteps ==
  ASSUME NEW a \in Nat, NEW n \in Nat, a <= n, NEW f, NEW G, f[a] \in G,
         \A k \in a + 1 .. n : f[k - 1] \in G => f[k] \in G
  PROVE  f[n] \in G
<1> DEFINE S == {m \in Nat : a <= m /\ m <= n => f[m] \in G}
<1>1. 0 \in S
  OBVIOUS
<1>2. ASSUME NEW m \in Nat, m \in S PROVE m + 1 \in S
  <2>1. CASE m + 1 = a
    BY <2>1
  <2>2. CASE a <= m /\ m + 1 <= n
    <3>1. m + 1 \in a + 1 .. n /\ (m + 1) - 1 = m /\ f[m] \in G
      BY <1>2, <2>2
    <3>2. f[m + 1] \in G
      BY <3>1
    <3>3. QED
      BY <3>2
  <2>3. QED
    BY <2>1, <2>2
<1>3. n \in S
  <2> HIDE DEF S
  <2>1. QED
    BY <1>1, <1>2, SetInduction
<1>4. QED
  BY <1>3

\* f[k] is what R makes of l in k steps.
IsIteration(f, n, l, R) == f = [k \in 0 .. n |-> IF k = 0 THEN l ELSE R[f[k - 1]]]

LEMMA IterationExists ==
  ASSUME NEW l, NEW R, NEW n \in Nat
  PROVE  \E f : IsIteration(f, n, l, R)
<1> DEFINE S == {m \in Nat : \E f : IsIteration(f, m, l, R)}
<1>1. 0 \in S
  <2>1. IsIteration([k \in 0 .. 0 |-> l], 0, l, R)
    BY DEF IsIteration
  <2>2. QED
    BY <2>1
<1>2. ASSUME NEW m \in Nat, m \in S PROVE m + 1 \in S
  <2>1. PICK f : IsIteration(f, m, l, R)
    BY <1>2
  <2> DEFINE g == [k \in 0 .. m + 1 |-> IF k = m + 1 THEN R[f[m]] ELSE f[k]]
  <2>2. IsIteration(g, m + 1, l, R)
    <3>1. ASSUME NEW k \in 0 .. m + 1
          PROVE  g[k] = IF k = 0 THEN l ELSE R[g[k - 1]]
      <4>1. CASE k = m + 1
        BY <4>1
      <4>2. CASE k # m + 1
        <5>1. k \in 0 .. m /\ g[k] = f[k] /\ (k # 0 => g[k - 1] = f[k - 1])
          BY <4>2
        <5>2. f[k] = IF k = 0 THEN l ELSE R[f[k - 1]]
          BY <2>1, <5>1 DEF IsIteration
        <5> HIDE DEF g
        <5>3. QED
          BY <5>1, <5>2
      <4>3. QED
        BY <4>1, <4>2
    <3>2. g = [k \in 0 .. m + 1 |-> g[k]]
      OBVIOUS
    <3> HIDE DEF g
    <3>3. QED
      BY <3>1, <3>2 DEF IsIteration
  <2>3. QED
    BY <2>2
<1>3. n \in S
  <2> HIDE DEF S
  <2>1. QED
    BY <1>1, <1>2, SetInduction
<1>4. QED
  BY <1>3

-----------------------------------------------------------------------------
(***************************************************************************)
(* The slots that are called once for each time they are wired.            *)
(***************************************************************************)

\* A link whose socket is given up, and from which connecting starts.
Aborted == {l \in LinkType : l.socket # "connected" /\ l.reconnectSlots > 0}

\* What is true of a link without a connection before and after every slot: once
\* an attempt was refused, the timer of requests is wired to connectToTracker.
Startable ==
  {l \in Aborted : IF l.firstConnectionTry THEN l.retrySlots = 0 ELSE l.retrySlots > 0}

\* What connectToTracker leaves: its timer runs, and an attempt that is under way
\* will be followed by "started".
Attempted ==
  {l \in Aborted : /\ l.connectTimer /\ l.state \in {"INIT", "REFUSED"}
                   /\ l.socket # "dead"
                   /\ l.socket = "connecting" => l.state = "INIT"
                   /\ ~l.firstConnectionTry => l.retrySlots > 0}

LEMMA RefusedFields ==
  ASSUME NEW l \in LinkType
  PROVE  /\ Refused(l) \in LinkType
         /\ Refused(l).state = "REFUSED" /\ Refused(l).requestTimer
         /\ ~Refused(l).firstConnectionTry
         /\ Refused(l).retrySlots = IF l.firstConnectionTry THEN l.retrySlots + 1
                                    ELSE l.retrySlots
         /\ Refused(l).socket = l.socket /\ Refused(l).connectTimer = l.connectTimer
         /\ Refused(l).reconnectSlots = l.reconnectSlots
<1>1. CASE l.firstConnectionTry
  <2>1. Refused(l) = [l EXCEPT !.state = "REFUSED", !.retrySlots = l.retrySlots + 1,
                               !.requestTimer = TRUE, !.firstConnectionTry = FALSE]
    BY <1>1 DEF Refused, LinkType
  <2>2. l.retrySlots + 1 \in Nat
    BY DEF LinkType
  <2>3. QED
    BY <1>1, <2>1, <2>2 DEF LinkType
<1>2. CASE ~l.firstConnectionTry
  <2>1. Refused(l) = [l EXCEPT !.state = "REFUSED", !.requestTimer = TRUE,
                               !.firstConnectionTry = FALSE]
    BY <1>2 DEF Refused, LinkType
  <2>2. QED
    BY <1>2, <2>1 DEF LinkType
<1>3. QED
  BY <1>1, <1>2

LEMMA ConnectToTrackerAttempts ==
  ASSUME NEW l \in Aborted, ~l.firstConnectionTry => l.retrySlots > 0
  PROVE  /\ ConnectToTracker(l) \in Attempted
         /\ l \in Startable => ConnectToTracker(l) \in Startable
<1> DEFINE init == [l EXCEPT !.state = "INIT"]
           gone == [init EXCEPT !.socket = "unconnected"]
<1>1. /\ l \in LinkType /\ init \in LinkType /\ gone \in LinkType
      /\ gone.socket = "unconnected" /\ gone.reconnectSlots = l.reconnectSlots
      /\ gone.firstConnectionTry = l.firstConnectionTry /\ gone.retrySlots = l.retrySlots
  BY DEF Aborted, LinkType
<1>2. CASE l.socket = "unconnected"
  BY <1>1, <1>2 DEF ConnectToTracker, Attempted, Startable, Aborted, LinkType
<1>3. CASE l.socket # "unconnected"
  <2>1. ConnectToTracker(l) = [Refused(gone) EXCEPT !.connectTimer = TRUE]
    BY <1>3 DEF ConnectToTracker
  <2> HIDE DEF gone
  <2>2. PICK r : r = Refused(gone)
    OBVIOUS
  <2>3. /\ r \in LinkType /\ r.state = "REFUSED" /\ ~r.firstConnectionTry
        /\ r.socket = "unconnected" /\ r.reconnectSlots > 0 /\ r.retrySlots > 0
    BY <1>1, <2>2, RefusedFields DEF Aborted, LinkType
  <2>4. ConnectToTracker(l) = [r EXCEPT !.connectTimer = TRUE]
    BY <2>1, <2>2
  <2>5. QED
    BY <2>3, <2>4 DEF Attempted, Startable, Aborted, LinkType
<1>4. QED
  BY <1>2, <1>3

LEMMA ReconnectAttempts ==
  ASSUME NEW l \in Aborted
  PROVE  Reconnect(l) \in Attempted
<1> DEFINE r == [l EXCEPT !.reconnectSlots = @ + 1, !.intervalSlots = 0,
                          !.firstConnectionTry = TRUE]
<1>1. r \in Aborted /\ r.firstConnectionTry
  <2>1. l \in LinkType /\ l.reconnectSlots + 1 \in Nat /\ l.reconnectSlots + 1 > 0
    BY DEF Aborted, LinkType
  <2>2. /\ r \in LinkType /\ r.socket = l.socket /\ r.firstConnectionTry
        /\ r.reconnectSlots = l.reconnectSlots + 1
    BY <2>1 DEF LinkType
  <2>3. QED
    BY <2>1, <2>2 DEF Aborted
<1>2. Reconnect(l) = ConnectToTracker(r)
  BY DEF Reconnect
<1>3. QED
  BY <1>1, <1>2, ConnectToTrackerAttempts

\* reconnect called once or more: an attempt is made, or was refused.
LEMMA TimesReconnect ==
  ASSUME NEW l \in Aborted, NEW n \in Nat \ {0}
  PROVE  Times(Reconnect, n, l) \in Attempted
<1> DEFINE R == [x \in Aborted |-> Reconnect(x)]
           Steps(f) == f = [k \in 0 .. n |-> IF k = 0 THEN l ELSE Reconnect(f[k - 1])]
<1>1. Attempted \subseteq Aborted
  BY DEF Attempted
<1>2. \A x \in Aborted : R[x] = Reconnect(x) /\ Reconnect(x) \in Attempted
  BY ReconnectAttempts
<1>3. \E f : Steps(f)
  <2>1. PICK f : IsIteration(f, n, l, R)
    BY IterationExists
  <2>2. /\ f = [k \in 0 .. n |-> IF k = 0 THEN l ELSE R[f[k - 1]]]
        /\ f[0] \in Aborted
    BY <2>1 DEF IsIteration
  <2> HIDE DEF R
  <2>3. ASSUME NEW m \in 0 .. n PROVE f[m] \in Aborted
    <3>1. \A k \in 0 + 1 .. m : k \in 0 .. n /\ k # 0 /\ f[k] = R[f[k - 1]]
      BY <2>2
    <3>2. \A k \in 0 + 1 .. m : f[k - 1] \in Aborted => f[k] \in Aborted
      BY <1>1, <1>2, <3>1
    <3>3. m \in Nat /\ 0 \in Nat /\ 0 <= m
      OBVIOUS
    <3>4. QED
      BY <2>2, <3>2, <3>3, AlongSteps
  <2>4. \A k \in 1 .. n : R[f[k - 1]] = Reconnect(f[k - 1])
    BY <1>2, <2>3
  <2>5. Steps(f)
    <3>1. ASSUME NEW k \in 0 .. n PROVE f[k] = IF k = 0 THEN l ELSE Reconnect(f[k - 1])
      <4>1. CASE k = 0
        BY <2>2, <4>1
      <4>2. CASE k # 0
        <5>1. k \in 1 .. n
          BY <4>2
        <5>2. f[k] = R[f[k - 1]]
          BY <2>2, <5>1
        <5>3. QED
          BY <2>4, <4>2, <5>1, <5>2
      <4>3. QED
        BY <4>1, <4>2
    <3>2. f = [k \in 0 .. n |-> f[k]]
      BY <2>2
    <3>3. QED
      BY <3>1, <3>2
  <2>6. QED
    BY <2>5
<1>4. PICK f : f = CHOOSE g : Steps(g)
  OBVIOUS
<1>5. Steps(f)
  BY <1>3, <1>4
<1>6. Times(Reconnect, n, l) = f[n]
  BY <1>4 DEF Times
<1>7. f[1] \in Attempted
  <2>1. f[0] = l /\ f[1] = Reconnect(f[0])
    BY <1>5
  <2>2. QED
    BY <1>2, <2>1
<1>8. \A k \in 1 + 1 .. n : f[k - 1] \in Attempted => f[k] \in Attempted
  <2>1. \A k \in 1 + 1 .. n : f[k] = Reconnect(f[k - 1])
    BY <1>5
  <2>2. QED
    BY <1>1, <1>2, <2>1
<1>9. f[n] \in Attempted
  BY <1>7, <1>8, AlongSteps
<1>10. QED
  BY <1>6, <1>9

\* So does connectToTracker called once or more, and a retry stays wired.
LEMMA TimesConnect ==
  ASSUME NEW l \in Startable, NEW n \in Nat \ {0}
  PROVE  Times(ConnectToTracker, n, l) \in Attempted \cap Startable
<1> DEFINE R == [x \in Startable |-> ConnectToTracker(x)]
           Steps(f) == f = [k \in 0 .. n |-> IF k = 0 THEN l ELSE ConnectToTracker(f[k - 1])]
<1>1. Attempted \cap Startable \subseteq Startable
  OBVIOUS
<1>2. \A x \in Startable : R[x] = ConnectToTracker(x) /\ ConnectToTracker(x) \in Attempted \cap Startable
  <2>1. \A x \in Startable : x \in Aborted /\ (~x.firstConnectionTry => x.retrySlots > 0)
    BY DEF Startable
  <2>2. QED
    BY <2>1, ConnectToTrackerAttempts
<1>3. \E f : Steps(f)
  <2>1. PICK f : IsIteration(f, n, l, R)
    BY IterationExists
  <2>2. /\ f = [k \in 0 .. n |-> IF k = 0 THEN l ELSE R[f[k - 1]]]
        /\ f[0] \in Startable
    BY <2>1 DEF IsIteration
  <2> HIDE DEF R
  <2>3. ASSUME NEW m \in 0 .. n PROVE f[m] \in Startable
    <3>1. \A k \in 0 + 1 .. m : k \in 0 .. n /\ k # 0 /\ f[k] = R[f[k - 1]]
      BY <2>2
    <3>2. \A k \in 0 + 1 .. m : f[k - 1] \in Startable => f[k] \in Startable
      BY <1>1, <1>2, <3>1
    <3>3. m \in Nat /\ 0 \in Nat /\ 0 <= m
      OBVIOUS
    <3>4. QED
      BY <2>2, <3>2, <3>3, AlongSteps
  <2>4. \A k \in 1 .. n : R[f[k - 1]] = ConnectToTracker(f[k - 1])
    BY <1>2, <2>3
  <2>5. Steps(f)
    <3>1. ASSUME NEW k \in 0 .. n PROVE f[k] = IF k = 0 THEN l ELSE ConnectToTracker(f[k - 1])
      <4>1. CASE k = 0
        BY <2>2, <4>1
      <4>2. CASE k # 0
        <5>1. k \in 1 .. n
          BY <4>2
        <5>2. f[k] = R[f[k - 1]]
          BY <2>2, <5>1
        <5>3. QED
          BY <2>4, <4>2, <5>1, <5>2
      <4>3. QED
        BY <4>1, <4>2
    <3>2. f = [k \in 0 .. n |-> f[k]]
      BY <2>2
    <3>3. QED
      BY <3>1, <3>2
  <2>6. QED
    BY <2>5
<1>4. PICK f : f = CHOOSE g : Steps(g)
  OBVIOUS
<1>5. Steps(f)
  BY <1>3, <1>4
<1>6. Times(ConnectToTracker, n, l) = f[n]
  BY <1>4 DEF Times
<1>7. f[1] \in Attempted \cap Startable
  <2>1. f[0] = l /\ f[1] = ConnectToTracker(f[0]) /\ l \in Startable
    BY <1>5
  <2>2. QED
    BY <1>2, <2>1
<1>8. \A k \in 1 + 1 .. n : f[k - 1] \in Attempted \cap Startable => f[k] \in Attempted \cap Startable
  <2>1. \A k \in 1 + 1 .. n : f[k] = ConnectToTracker(f[k - 1])
    BY <1>5
  <2>2. QED
    BY <1>1, <1>2, <2>1
<1>9. f[n] \in Attempted \cap Startable
  <2>1. PICK G : G = Attempted \cap Startable
    OBVIOUS
  <2>2. f[1] \in G /\ \A k \in 1 + 1 .. n : f[k - 1] \in G => f[k] \in G
    BY <1>7, <1>8, <2>1
  <2>3. 1 \in Nat /\ n \in Nat /\ 1 <= n
    OBVIOUS
  <2>4. f[n] \in G
    BY <2>2, <2>3, AlongSteps
  <2>5. QED
    BY <2>1, <2>4
<1>10. QED
  BY <1>6, <1>9

LEMMA TimesNone ==
  ASSUME NEW l
  PROVE  Times(ConnectToTracker, 0, l) = l
<1> DEFINE Steps(f) == f = [k \in 0 .. 0 |-> IF k = 0 THEN l ELSE ConnectToTracker(f[k - 1])]
<1>1. Steps([k \in 0 .. 0 |-> l])
  OBVIOUS
<1>2. PICK f : f = CHOOSE g : Steps(g)
  OBVIOUS
<1>3. Steps(f)
  <2> HIDE DEF Steps
  <2>1. QED
    BY <1>1, <1>2
<1>4. Times(ConnectToTracker, 0, l) = f[0]
  BY <1>2 DEF Times
<1>5. QED
  BY <1>3, <1>4

-----------------------------------------------------------------------------
(***************************************************************************)
(* The invariant.                                                          *)
(***************************************************************************)

\* Without a connection: an attempt that is under way will be followed by
\* "started", and a timer runs that leads to the next attempt.
Due(l) ==
  /\ l \in Startable /\ l.state \in {"INIT", "REFUSED"}
  /\ l.socket = "connecting" => l.state = "INIT"
  /\ l.connectTimer \/ (l.requestTimer /\ l.retrySlots > 0)

\* With one: nothing is wired that would start another.
Up(l) ==
  /\ l.socket = "connected" /\ l.state \in {"AWAITING", "ACTIVE"}
  /\ ~l.connectTimer /\ l.retrySlots = 0 /\ l.reconnectSlots > 0

LinkInv ==
  /\ link \in LinkType
  /\ OneOutstanding /\ ConnectedIsAnnounced
  /\ Running => \/ Up(link) /\ told # "nothing"
                \/ Due(link)

LEMMA LinkInvImplies == LinkInv => OneOutstanding /\ ConnectedIsAnnounced /\ AttemptIsDue
BY DEF LinkInv, Up, Due, AttemptIsDue

LEMMA InitLink == Init => LinkInv
<1> SUFFICES ASSUME Init PROVE LinkInv
  OBVIOUS
<1> DEFINE l == [state |-> "INIT", socket |-> "unconnected", connectTimer |-> FALSE,
                 requestTimer |-> FALSE, firstConnectionTry |-> TRUE,
                 retrySlots |-> 0, intervalSlots |-> 0, reconnectSlots |-> 1]
<1>1. l \in LinkType
  BY DEF LinkType
<1>2. link = [l EXCEPT !.state = "INIT", !.socket = "connecting", !.connectTimer = TRUE]
  BY DEF Init, ConnectToTracker
<1>3. link \in LinkType /\ Due(link)
  <2>1. link = [state |-> "INIT", socket |-> "connecting", connectTimer |-> TRUE,
                requestTimer |-> FALSE, firstConnectionTry |-> TRUE,
                retrySlots |-> 0, intervalSlots |-> 0, reconnectSlots |-> 1]
    BY <1>2
  <2>2. link \in LinkType
    BY <2>1 DEF LinkType
  <2>3. /\ link.socket = "connecting" /\ link.state = "INIT" /\ link.connectTimer
        /\ link.firstConnectionTry /\ link.retrySlots = 0 /\ link.reconnectSlots = 1
    BY <2>1
  <2>4. link \in Startable
    BY <2>2, <2>3 DEF Startable, Aborted
  <2>5. QED
    BY <2>2, <2>3, <2>4 DEF Due
<1>4. status = "running" /\ outstanding = 0 /\ link.state = "INIT" /\ link.socket = "connecting"
  BY <1>1, <1>2 DEF Init
<1>5. QED
  BY <1>3, <1>4 DEF LinkInv, OneOutstanding, ConnectedIsAnnounced

\* retryConnect of a link without a connection.
LEMMA RetryIsDue ==
  ASSUME NEW l \in Startable
  PROVE  Due(RetryConnect(l)) /\ RetryConnect(l).socket = "unconnected"
<1> DEFINE aborted == [l EXCEPT !.socket = "unconnected"]
<1>1. aborted \in Startable /\ aborted.socket = "unconnected"
  BY DEF Startable, Aborted, LinkType
<1>2. RetryConnect(l) = Refused(aborted)
  BY DEF RetryConnect, Startable, Aborted
<1> HIDE DEF aborted
<1>3. aborted \in LinkType /\ aborted.retrySlots \in Nat
  BY <1>1 DEF Startable, Aborted, LinkType
<1>4. PICK r : r = Refused(aborted)
  OBVIOUS
<1>5. /\ r \in LinkType /\ r.state = "REFUSED" /\ r.requestTimer /\ ~r.firstConnectionTry
      /\ r.socket = "unconnected" /\ r.reconnectSlots > 0 /\ r.retrySlots > 0
  BY <1>1, <1>3, <1>4, RefusedFields DEF Startable, Aborted
<1>6. QED
  BY <1>2, <1>4, <1>5 DEF Due, Startable, Aborted

\* retryConnect of a connection: whatever the slots of disconnected() started,
\* an attempt is due, and one that is under way is the one that will be dropped.
LEMMA LostIsDue ==
  ASSUME NEW l \in LinkType, Up(l)
  PROVE  LET r == RetryConnect(l)
             d == IF r.socket = "connecting" THEN [r EXCEPT !.socket = "dead"] ELSE r
         IN  Due(d) /\ d \in LinkType /\ d.state = "REFUSED" /\ d.socket # "connected"
<1> DEFINE aborted == [l EXCEPT !.socket = "unconnected"]
<1>1. PICK t : t = Times(Reconnect, l.reconnectSlots, aborted)
  OBVIOUS
<1>2. aborted \in Aborted /\ l.reconnectSlots \in Nat \ {0}
  BY DEF Aborted, LinkType, Up
<1>3. t \in Attempted
  BY <1>1, <1>2, TimesReconnect
<1>4. RetryConnect(l) = Refused(t)
  BY <1>1 DEF RetryConnect, Up
<1>5. PICK r : r = Refused(t)
  OBVIOUS
<1>6. t \in LinkType /\ t.retrySlots \in Nat
  BY <1>3 DEF Attempted, Aborted, LinkType
<1>7. /\ r \in LinkType /\ r.state = "REFUSED" /\ r.requestTimer /\ ~r.firstConnectionTry
      /\ r.reconnectSlots > 0 /\ r.retrySlots > 0 /\ r.socket # "connected"
  BY <1>3, <1>5, <1>6, RefusedFields DEF Attempted, Aborted
<1>8. PICK d : d = IF r.socket = "connecting" THEN [r EXCEPT !.socket = "dead"] ELSE r
  OBVIOUS
<1>9. /\ d \in LinkType /\ d.state = "REFUSED" /\ d.requestTimer /\ ~d.firstConnectionTry
      /\ d.reconnectSlots > 0 /\ d.retrySlots > 0
      /\ d.socket # "connected" /\ d.socket # "connecting"
  BY <1>7, <1>8 DEF LinkType
<1>10. Due(d)
  BY <1>9 DEF Due, Startable, Aborted
<1>11. QED
  BY <1>4, <1>5, <1>8, <1>9, <1>10

\* A request sent by the slots of a link that is up or due.
LEMMA SentInv ==
  ASSUME LinkInv, Running, Running', NEW l, NEW tells, tells # "nothing",
         Up(l), l \in LinkType, outstanding = 0, SendRequest(l, tells)
  PROVE  LinkInv'
<1>1. /\ link' = [l EXCEPT !.state = "AWAITING"]
      /\ outstanding' = 1 /\ told' = tells
  BY DEF SendRequest, Up
<1>2. link' \in LinkType /\ link'.state = "AWAITING" /\ Up(link')
  BY <1>1 DEF Up, LinkType
<1>3. QED
  BY <1>1, <1>2 DEF LinkInv, OneOutstanding, ConnectedIsAnnounced, Up

\* A link on which nothing is sent: one that stays up, or one that is due.
LEMMA UnsentInv ==
  ASSUME LinkInv, Running, Running', NEW l \in LinkType, NoRequest(l),
         \/ Up(l) /\ told # "nothing" /\ l.state = link.state
         \/ Due(l) /\ outstanding = 0 /\ l.state # "AWAITING" /\ l.socket # "connected"
  PROVE  LinkInv'
<1>1. link' = l /\ outstanding' = outstanding /\ told' = told
  BY DEF NoRequest
<1>2. QED
  BY <1>1 DEF LinkInv, OneOutstanding, ConnectedIsAnnounced, Up, Due, Running

\* Nothing is awaited without a connection, and nothing but an active
\* connection sends a request.
LEMMA DueIsSilent ==
  ASSUME LinkInv, Running, Due(link)
  PROVE  /\ outstanding = 0 /\ link.socket # "connected"
         /\ link.state \in {"INIT", "REFUSED"}
BY DEF LinkInv, Due, OneOutstanding, Running, Startable, Aborted

\* What onConnection makes of a link.
LEMMA FieldsOfConnected ==
  ASSUME NEW s \in LinkType
  PROVE  LET l == [s EXCEPT !.socket = "connected", !.connectTimer = FALSE,
                            !.intervalSlots = @ + 1]
         IN /\ l \in LinkType /\ l.socket = "connected" /\ ~l.connectTimer
            /\ l.state = s.state /\ l.retrySlots = s.retrySlots
            /\ l.reconnectSlots = s.reconnectSlots
<1>1. s.intervalSlots + 1 \in Nat
  BY DEF LinkType
<1>2. QED
  BY <1>1 DEF LinkType

LEMMA ConnectionKeepsLink == LinkInv /\ OnConnection => LinkInv'
<1> SUFFICES ASSUME LinkInv, OnConnection PROVE LinkInv'
  OBVIOUS
<1>1. Running /\ link.socket = "connecting" /\ Running'
  BY DEF OnConnection, Running
<1>2. Due(link) /\ link.state = "INIT" /\ link \in LinkType
  BY <1>1 DEF LinkInv, Up, Due
<1>3. PICK l : l = [StopRetrying(link) EXCEPT !.socket = "connected",
                                              !.connectTimer = FALSE,
                                              !.intervalSlots = @ + 1]
  OBVIOUS
<1>4. /\ l \in LinkType /\ l.state = "INIT" /\ l.socket = "connected"
      /\ ~l.connectTimer /\ l.retrySlots = 0 /\ l.reconnectSlots > 0
  <2>1. PICK s : s = StopRetrying(link)
    OBVIOUS
  <2>2. CASE link.firstConnectionTry
    <3>1. /\ s \in LinkType /\ s.retrySlots = 0 /\ s.state = "INIT"
          /\ s.reconnectSlots > 0
      BY <1>2, <2>1, <2>2 DEF StopRetrying, Due, Startable, Aborted
    <3>2. QED
      BY <1>3, <2>1, <3>1, FieldsOfConnected
  <2>3. CASE ~link.firstConnectionTry
    <3>1. s = [link EXCEPT !.requestTimer = FALSE, !.retrySlots = 0]
      BY <1>2, <2>1, <2>3 DEF StopRetrying
    <3>2. s \in LinkType /\ s.retrySlots = 0 /\ s.state = "INIT" /\ s.reconnectSlots > 0
      BY <1>2, <3>1 DEF LinkType, Due, Startable, Aborted
    <3>3. QED
      BY <1>3, <2>1, <3>2, FieldsOfConnected
  <2>4. QED
    BY <2>2, <2>3
<1>5. SendRequest(l, IF left = "none" THEN "complete" ELSE "incomplete")
  BY <1>3, <1>4 DEF OnConnection
<1>6. /\ link' = [l EXCEPT !.state = "AWAITING"] /\ told' # "nothing"
      /\ outstanding' = 1
  BY <1>1, <1>2, <1>4, <1>5, DueIsSilent DEF SendRequest
<1>7. link' \in LinkType /\ link'.state = "AWAITING" /\ Up(link')
  BY <1>4, <1>6 DEF LinkType, Up
<1>8. QED
  BY <1>6, <1>7 DEF LinkInv, OneOutstanding, ConnectedIsAnnounced

LEMMA RefusalKeepsLink == LinkInv /\ (ConnectFailed \/ ConnectTimeout) => LinkInv'
<1> SUFFICES ASSUME LinkInv, ConnectFailed \/ ConnectTimeout PROVE LinkInv'
  OBVIOUS
<1>1. Running /\ Running' /\ (link.socket = "connecting" \/ link.connectTimer)
  BY DEF ConnectFailed, ConnectTimeout, Running
<1>2. Due(link) /\ link \in LinkType
  BY <1>1 DEF LinkInv, Up
<1>3. PICK l : l \in Startable /\ NoRequest(RetryConnect(l))
  <2>1. link \in Startable /\ [link EXCEPT !.connectTimer = FALSE] \in Startable
    BY <1>2 DEF Due, Startable, Aborted, LinkType
  <2>2. QED
    BY <2>1 DEF ConnectFailed, ConnectTimeout
<1>4. PICK r : r = RetryConnect(l)
  OBVIOUS
<1>5. Due(r) /\ r \in LinkType /\ r.state # "AWAITING" /\ r.socket # "connected" /\ NoRequest(r)
  BY <1>3, <1>4, RetryIsDue DEF Due, Startable, Aborted
<1>6. QED
  BY <1>1, <1>2, <1>5, DueIsSilent, UnsentInv

LEMMA LossKeepsLink == LinkInv /\ ConnectionLost => LinkInv'
<1> SUFFICES ASSUME LinkInv, ConnectionLost PROVE LinkInv'
  OBVIOUS
<1>1. Running /\ link.socket = "connected" /\ Running'
  BY DEF ConnectionLost, Running
<1>2. Up(link) /\ link \in LinkType
  BY <1>1 DEF LinkInv, Due, Startable, Aborted
<1>3. Due(link') /\ link' \in LinkType /\ link'.state = "REFUSED" /\ link'.socket # "connected"
  BY <1>2, LostIsDue DEF ConnectionLost
<1>4. outstanding' = 0
  BY DEF ConnectionLost
<1>5. QED
  BY <1>3, <1>4 DEF LinkInv, OneOutstanding, ConnectedIsAnnounced

LEMMA TimerKeepsLink == LinkInv /\ RequestTimeout => LinkInv'
<1> SUFFICES ASSUME LinkInv, RequestTimeout PROVE LinkInv'
  OBVIOUS
<1>1. /\ Running /\ Running' /\ link \in LinkType
      /\ link.requestTimer /\ ~link.connectTimer
  BY DEF RequestTimeout, Running, LinkInv
<1>2. PICK stopped : stopped = [link EXCEPT !.requestTimer = FALSE]
  OBVIOUS
<1>3. PICK l : l = Times(ConnectToTracker, link.retrySlots, stopped)
  OBVIOUS
<1>4. (l.intervalSlots > 0 /\ Interval(l)) \/ NoRequest(l)
  BY <1>2, <1>3 DEF RequestTimeout
<1>5. RegularRequest(l) \/ NoRequest(l)
  BY <1>4 DEF Interval
<1>6. CASE Up(link) /\ told # "nothing"
  <2>1. l = stopped
    <3>1. link.retrySlots = 0
      BY <1>6 DEF Up
    <3>2. l = Times(ConnectToTracker, 0, stopped)
      BY <1>3, <3>1
    <3>3. QED
      BY <3>2, TimesNone
  <2>2. Up(l) /\ l \in LinkType /\ l.state = link.state
    BY <1>1, <1>2, <1>6, <2>1 DEF Up, LinkType
  <2>3. CASE NoRequest(l)
    BY <1>1, <1>6, <2>2, <2>3, UnsentInv
  <2>4. CASE l.state = "ACTIVE" /\ SendRequest(l, told)
    <3>1. outstanding = 0
      BY <1>1, <2>2, <2>4 DEF LinkInv, OneOutstanding, Running
    <3>2. QED
      BY <1>1, <1>6, <2>2, <2>4, <3>1, SentInv
  <2>5. QED
    BY <1>5, <2>3, <2>4 DEF RegularRequest
<1>7. CASE Due(link)
  <2>1. stopped \in Startable /\ link.retrySlots \in Nat \ {0}
    <3>1. /\ stopped \in LinkType /\ stopped.socket = link.socket
          /\ stopped.reconnectSlots = link.reconnectSlots
          /\ stopped.retrySlots = link.retrySlots
          /\ stopped.firstConnectionTry = link.firstConnectionTry
      BY <1>1, <1>2 DEF LinkType
    <3>2. link \in Startable /\ link.retrySlots > 0 /\ link.retrySlots \in Nat
      BY <1>1, <1>7 DEF Due, LinkType
    <3>3. QED
      BY <3>1, <3>2 DEF Startable, Aborted
  <2>2. l \in Attempted \cap Startable
    BY <1>3, <2>1, TimesConnect
  <2>3. Due(l) /\ l \in LinkType /\ l.state \in {"INIT", "REFUSED"} /\ l.socket # "connected"
    <3>1. /\ l \in LinkType /\ l \in Startable /\ l.socket # "connected"
          /\ l.connectTimer /\ l.state \in {"INIT", "REFUSED"}
          /\ l.socket = "connecting" => l.state = "INIT"
      BY <2>2 DEF Attempted, Aborted
    <3>2. QED
      BY <3>1 DEF Due
  <2>4. NoRequest(l)
    BY <1>5, <2>3 DEF RegularRequest
  <2>5. QED
    BY <1>1, <1>7, <2>3, <2>4, DueIsSilent, UnsentInv
<1>8. QED
  BY <1>1, <1>6, <1>7 DEF LinkInv

\* The slots that leave the socket as it is.
LEMMA RequestKeepsLink == LinkInv /\ UpdatePeerList => LinkInv'
<1> SUFFICES ASSUME LinkInv, UpdatePeerList PROVE LinkInv'
  OBVIOUS
<1>1. Running /\ Running' /\ link \in LinkType
  BY DEF UpdatePeerList, Running, LinkInv
<1>2. NoRequest(link) \/ (link.state = "ACTIVE" /\ SendRequest(link, told))
  BY DEF UpdatePeerList, RegularRequest
<1>3. CASE NoRequest(link)
  <2>1. CASE Up(link) /\ told # "nothing"
    BY <1>1, <1>3, <2>1, UnsentInv
  <2>2. CASE Due(link)
    BY <1>1, <1>3, <2>2, DueIsSilent, UnsentInv
  <2>3. QED
    BY <1>1, <2>1, <2>2 DEF LinkInv
<1>4. CASE link.state = "ACTIVE" /\ SendRequest(link, told)
  <2>1. Up(link) /\ told # "nothing" /\ outstanding = 0
    BY <1>1, <1>4 DEF LinkInv, Due, OneOutstanding, Running
  <2>2. QED
    BY <1>1, <1>4, <2>1, SentInv
<1>5. QED
  BY <1>2, <1>3, <1>4

LEMMA OvershotKeepsLink == LinkInv /\ Overshot => LinkInv'
<1> SUFFICES ASSUME LinkInv, Overshot PROVE LinkInv'
  OBVIOUS
<1>1. Running /\ Running' /\ link \in LinkType /\ NoRequest(link)
  BY DEF Overshot, Running, LinkInv
<1>2. CASE Up(link) /\ told # "nothing"
  BY <1>1, <1>2, UnsentInv
<1>3. CASE Due(link)
  BY <1>1, <1>3, DueIsSilent, UnsentInv
<1>4. QED
  BY <1>1, <1>2, <1>3 DEF LinkInv

LEMMA AnswerKeepsLink == LinkInv /\ Answered => LinkInv'
<1> SUFFICES ASSUME LinkInv, NEW peers \in BOOLEAN, NEW more \in BOOLEAN,
                    DecodeResponse(peers, more)
             PROVE  LinkInv'
  BY DEF Answered
<1>1. /\ Running /\ Running' /\ link \in LinkType /\ outstanding > 0
      /\ link' = [link EXCEPT !.requestTimer = TRUE, !.state = "ACTIVE"]
      /\ outstanding' = outstanding - 1 /\ told' = told
  BY DEF DecodeResponse, Running, LinkInv
<1>2. link.state = "AWAITING" /\ outstanding = 1
  BY <1>1 DEF LinkInv, OneOutstanding, Running
<1>3. Up(link) /\ told # "nothing"
  BY <1>1, <1>2 DEF LinkInv, Due
<1>4. link' \in LinkType /\ Up(link') /\ link'.state = "ACTIVE"
  BY <1>1, <1>3 DEF Up, LinkType
<1>5. QED
  BY <1>1, <1>2, <1>3, <1>4 DEF LinkInv, OneOutstanding, ConnectedIsAnnounced

LEMMA CompletionKeepsLink == LinkInv /\ Completed => LinkInv'
<1> SUFFICES ASSUME LinkInv, Completed PROVE LinkInv'
  OBVIOUS
<1>1. Running /\ link \in LinkType
  BY DEF Completed, LinkInv
<1>2. CASE link.state = "AWAITING"
  <2>1. status' = "blocked" /\ link' = link /\ outstanding' = outstanding /\ told' = told
    BY <1>2 DEF Completed, CompleteRequest, NoRequest
  <2>2. QED
    BY <1>1, <2>1 DEF LinkInv, OneOutstanding, ConnectedIsAnnounced, Running
<1>3. CASE link.state = "ACTIVE"
  <2>1. Running' /\ SendRequest(link, "complete")
    BY <1>1, <1>3 DEF Completed, CompleteRequest, Running
  <2>2. Up(link) /\ outstanding = 0
    BY <1>1, <1>3 DEF LinkInv, Due, OneOutstanding, Running
  <2>3. QED
    BY <1>1, <2>1, <2>2, SentInv
<1>4. CASE link.state \notin {"AWAITING", "ACTIVE"}
  <2>1. Running' /\ NoRequest(link)
    BY <1>1, <1>4 DEF Completed, CompleteRequest, Running
  <2>2. Due(link)
    BY <1>1, <1>4 DEF LinkInv, Up
  <2>3. QED
    BY <1>1, <2>1, <2>2, DueIsSilent, UnsentInv
<1>5. QED
  BY <1>2, <1>3, <1>4

LEMMA StopKeepsLink == LinkInv /\ StopRequest => LinkInv'
<1> SUFFICES ASSUME LinkInv, StopRequest PROVE LinkInv'
  OBVIOUS
<1>1. Running /\ link \in LinkType /\ outstanding' = outstanding
  BY DEF StopRequest, LinkInv
<1>2. CASE link.state = "AWAITING"
  <2>1. status' = "blocked" /\ link' = link /\ told' = told
    BY <1>2 DEF StopRequest
  <2>2. QED
    BY <1>1, <2>1 DEF LinkInv, OneOutstanding, ConnectedIsAnnounced, Running
<1>3. CASE link.state = "ACTIVE"
  <2>1. /\ status' = "destroyed"
        /\ link' = [link EXCEPT !.state = "CLOSED", !.socket = "unconnected",
                                !.requestTimer = FALSE]
    BY <1>3 DEF StopRequest
  <2>2. link' \in LinkType /\ link'.socket = "unconnected"
    BY <1>1, <2>1 DEF LinkType
  <2>3. QED
    BY <2>1, <2>2 DEF LinkInv, OneOutstanding, ConnectedIsAnnounced, Running
<1>4. CASE link.state \notin {"AWAITING", "ACTIVE"}
  <2>1. status' = "destroyed" /\ link' = link /\ told' = told
    BY <1>4 DEF StopRequest
  <2>2. QED
    BY <1>1, <2>1 DEF LinkInv, OneOutstanding, ConnectedIsAnnounced, Running
<1>5. QED
  BY <1>2, <1>3, <1>4

LEMMA LinkHolds == Spec => []LinkInv
<1>1. LinkInv /\ [Next]_vars => LinkInv'
  <2> SUFFICES ASSUME LinkInv, [Next]_vars PROVE LinkInv'
    OBVIOUS
  <2>1. CASE Next
    BY <2>1, ConnectionKeepsLink, RefusalKeepsLink, LossKeepsLink, TimerKeepsLink,
       RequestKeepsLink, AnswerKeepsLink, CompletionKeepsLink, OvershotKeepsLink,
       StopKeepsLink DEF Next
  <2>2. CASE UNCHANGED vars
    BY <2>2 DEF vars, LinkInv, OneOutstanding, ConnectedIsAnnounced, Running
  <2>3. QED
    BY <2>1, <2>2
<1>2. QED
  BY <1>1, InitLink, PTL DEF Spec

-----------------------------------------------------------------------------
(***************************************************************************)
(* The theorems.                                                           *)
(***************************************************************************)

\* However often the tracker closes the connection, and however many slots that
\* leaves wired (TrackerConnection.cpp:111), a request is sent only when the one
\* before it has been answered.
THEOREM OneRequestAtATime == Spec => []OneOutstanding
<1>1. LinkInv => OneOutstanding
  BY LinkInvImplies
<1>2. QED
  BY <1>1, LinkHolds, PTL

\* A connection that was established has been announced with "started", however
\* often onConnected ran for it (TrackerConnection.cpp:111 and 146).
THEOREM NeverConnectedInSilence == Spec => []ConnectedIsAnnounced
<1>1. LinkInv => ConnectedIsAnnounced
  BY LinkInvImplies
<1>2. QED
  BY <1>1, LinkHolds, PTL

\* A client without a connection never stops trying: a timer runs that leads to
\* the next attempt, and requestTimer is wired to connectToTracker
\* (TrackerConnection.cpp:95).
THEOREM NeverGivesUp == Spec => []AttemptIsDue
<1>1. LinkInv => AttemptIsDue
  BY LinkInvImplies
<1>2. QED
  BY <1>1, LinkHolds, PTL
=============================================================================
