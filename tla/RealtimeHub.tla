----------------------------- MODULE RealtimeHub -----------------------------
(***************************************************************************)
(* The realtime manager and the clients of one room: who is subscribed,    *)
(* what has been put into the bounded channel of each client, and what the *)
(* manager remembers having sent.  A goroutine is the sequence of the      *)
(* steps it has still to take; a step is what happens under one hold of    *)
(* the mutex, or one send on a channel.  A step may push others in front   *)
(* of the rest, which is how the calls of the code nest.                   *)
(*                                                                         *)
(* The room is the version of its state, which changes from outside.       *)
(* Definitions marked "Bug:" are not part of the model.                    *)
(***************************************************************************)
EXTENDS Integers, Sequences, FiniteSets

CONSTANTS
  Clients,     \* connections to the room, each used once; also their reader goroutines
  Early,       \* those that are there, up to date and idle, to begin with
  Requests,    \* goroutines of HTTP handlers that broadcast when they are done
  Poll,        \* the goroutine of Start
  Capacity,    \* make(chan []byte, 8)
  MaxVersion,  \* bound: changes of the room
  MaxWork,     \* bound: polls, requests, connections and messages of clients
  PhaseOf,     \* the phase of the game in each version
  Presenting, Revealing,  \* the phases with an event of their own
  ThreeLies    \* whether the room plays "three lies"

ASSUME HubGoroutinesAssumption ==
  /\ IsFiniteSet(Clients) /\ IsFiniteSet(Requests) /\ Early \subseteq Clients
  /\ Clients \cap Requests = {} /\ Poll \notin Clients \cup Requests
ASSUME HubLimitsAssumption ==
  /\ Capacity \in Nat \ {0} /\ MaxVersion \in Nat /\ MaxWork \in Nat
  /\ PhaseOf \in [0..MaxVersion -> Nat] /\ ThreeLies \in BOOLEAN
  /\ Presenting \subseteq Nat /\ Revealing \subseteq Nat /\ Presenting \cap Revealing = {}

Goroutines == {Poll} \cup Requests \cup Clients

\* Kinds of events that are sent once for each value of their key.  The key of
\* "state" is a version, those of the others are phases.  The start of the
\* commentary and the final ranking are announced as "revealed" is.
Kinds == {"state", "phase", "presented", "revealed"}
None  == -1

VARIABLES
  version, expired,  \* the room as GetRoomState answers
  registered,        \* clientsByRoom[code]
  conn,              \* a connection: new, serving (ServeHTTP, for good if it gave up),
                     \* pumping, shut (by the writer), closed (the reader has ended)
  queued,            \* number of events in client.send
  closes,            \* number of times client.send has been closed
  last,              \* lastRoomState, lastPhaseKey, lastTruthSetKey, lastRevealKey
  todo,              \* the steps a goroutine has still to take
  work,              \* polls, requests, connections and messages so far
  up,                \* FALSE once a panic has ended the process
  owed,              \* history: who has not been sent what "last" remembers
  cut                \* history: a broadcast has been given up half-way

rows == <<version, expired, registered, conn, queued, closes, last, owed>>
vars == <<rows, todo, work, up, cut>>

Closed(c) == closes[c] > 0

-----------------------------------------------------------------------------
(* Steps, and the programs made of them.                                   *)

\* Look the key up, and remember and broadcast it if it is a new one.
Once(kind, key) == [do |-> "once", kind |-> kind, key |-> key]

\* told: who has been sent the event already.
Remember(kind, key, told) == [do |-> "remember", kind |-> kind, key |-> key, told |-> told]

\* Send to each of some clients, in any order; a client whose channel is full
\* is unregistered ("drop") or passed over ("skip"), or the goroutine turns to
\* an error path: the connection is refused ("refuse"), an error reported to
\* the client ("report"), or the broadcast given up ("give up").
Send(kind, key, to, full) ==
  [do |-> "send", kind |-> kind, key |-> key, to |-> to, full |-> full]

\* Copy the set of clients, then send to each.
List(kind, key, full) == [do |-> "list", kind |-> kind, key |-> key, full |-> full]

Broadcast(kind, key) == List(kind, key, "drop")

Unregister(c) == [do |-> "unregister", client |-> c]

Announce(kind, key) ==
  <<Remember(kind, key, {}),
    List(kind, key, IF kind = "presented" THEN "give up" ELSE "drop")>>

\* broadcastThreeLiesRealtime; "other" stands for events without a key, here
\* the ticks of a countdown and the progress of a vote.
Derived(v) ==
  LET phase == PhaseOf[v]
  IN  CASE ~ThreeLies -> <<>>
        [] ThreeLies /\ phase \in Presenting ->
             <<Once("phase", phase), Once("presented", phase), Broadcast("other", 0)>>
        [] ThreeLies /\ phase \in Revealing -> <<Once("phase", phase), Once("revealed", phase)>>
        [] ThreeLies /\ phase \notin Presenting \cup Revealing -> <<Once("phase", phase)>>

\* broadcastRoomState once it has read the room; force: whatever was sent last.
Sharing(force) ==
  CASE expired -> <<Broadcast("other", 0)>>
    [] ~expired /\ force -> Announce("state", version) \o Derived(version)
    [] ~expired /\ ~force -> <<Once("state", version)>> \o Derived(version)

\* ServeHTTP once it has upgraded the connection: the state of the room, the
\* snapshot, "connection.ready" and "presence.joined".
Serving(c, v) ==
  <<[do |-> "register", client |-> c],
    Send("state", v, {c}, "refuse"), Remember("state", v, {c}),
    Send("state", v, {c}, "skip"), Send("other", 0, {c}, "skip"),
    Broadcast("other", 0),
    [do |-> "pump", client |-> c]>>

\* The answer to "room.sync": the state and the snapshot.
Syncing(c, v) ==
  <<Send("state", v, {c}, "report"), Remember("state", v, {c}), Send("state", v, {c}, "report")>>

ErrorTo(c) == <<Send("other", 0, {c}, "skip")>>

-----------------------------------------------------------------------------
Init ==
  /\ version = 0 /\ expired = FALSE
  /\ registered = Early
  /\ conn = [c \in Clients |-> IF c \in Early THEN "pumping" ELSE "new"]
  /\ queued = [c \in Clients |-> 0] /\ closes = [c \in Clients |-> 0]
  /\ last = [k \in Kinds |-> IF k = "state" /\ Early # {} THEN version ELSE None]
  /\ todo = [t \in Goroutines |-> <<>>]
  /\ work = 0 /\ up = TRUE
  /\ owed = [k \in Kinds |-> {}] /\ cut = FALSE

\* Some request, or time, changes the room.
Change ==
  /\ up /\ ~expired /\ version < MaxVersion
  /\ version' = version + 1
  /\ UNCHANGED <<expired, registered, conn, queued, closes, last, owed, todo, work, up, cut>>

Expire ==
  /\ up /\ ~expired
  /\ expired' = TRUE
  /\ UNCHANGED <<version, registered, conn, queued, closes, last, owed, todo, work, up, cut>>

-----------------------------------------------------------------------------
(* Goroutines begin a piece of work ...                                    *)

Idle(t) == up /\ todo[t] = <<>>

Begin(t, steps) == Idle(t) /\ todo' = [todo EXCEPT ![t] = steps]

Count == work < MaxWork /\ work' = work + 1

\* syncActiveRooms, for a room with a client.
Tick ==
  /\ registered # {} /\ Begin(Poll, Sharing(FALSE))
  /\ Count
  /\ UNCHANGED <<rows, up, cut>>

\* BroadcastRoomState, and BroadcastStoryProgress, BroadcastVoteProgress and
\* BroadcastTopStory.
Notify(r) ==
  /\ Begin(r, Sharing(TRUE)) \/ Begin(r, <<Broadcast("other", 0)>>)
  /\ Count
  /\ UNCHANGED <<rows, up, cut>>

Connect(c) ==
  /\ conn[c] = "new" /\ ~expired
  /\ Begin(c, Serving(c, version))
  /\ conn' = [conn EXCEPT ![c] = "serving"]
  /\ Count
  /\ UNCHANGED <<version, expired, registered, queued, closes, last, owed, up, cut>>

\* handleMessage: "room.sync", and "ping" or a request for progress, which are
\* answered with one event.
Receive(c) ==
  /\ conn[c] = "pumping"
  /\ \/ Begin(c, IF expired THEN ErrorTo(c) ELSE Syncing(c, version))
     \/ Begin(c, <<Send("other", 0, {c}, "report")>>)
  /\ Count
  /\ UNCHANGED <<rows, up, cut>>

\* The connection is lost, or the writer has shut it: readPump ends.
HangUp(c) ==
  /\ conn[c] \in {"pumping", "shut"}
  /\ Begin(c, <<Unregister(c)>>)
  /\ conn' = [conn EXCEPT ![c] = "closed"]
  /\ UNCHANGED <<version, expired, registered, queued, closes, last, owed, work, up, cut>>

-----------------------------------------------------------------------------
(* ... and take their steps.                                               *)

Next1(t, do) == up /\ todo[t] # <<>> /\ Head(todo[t]).do = do

\* The first step of t becomes these.
Become(t, steps) == todo' = [todo EXCEPT ![t] = steps \o Tail(@)]

\* An error ends what t was doing.
Turn(t, steps) == todo' = [todo EXCEPT ![t] = steps]

LookUp(t) ==
  /\ Next1(t, "once")
  /\ LET s == Head(todo[t])
     IN  Become(t, IF last[s.kind] = s.key THEN <<>> ELSE Announce(s.kind, s.key))
  /\ UNCHANGED <<rows, work, up, cut>>

SetLast(t) ==
  /\ Next1(t, "remember")
  /\ LET s == Head(todo[t])
     IN  /\ last' = [last EXCEPT ![s.kind] = s.key]
         /\ owed' = [owed EXCEPT ![s.kind] =
                       (IF s.told = {} \/ last[s.kind] # s.key THEN registered ELSE @) \ s.told]
  /\ Become(t, <<>>)
  /\ UNCHANGED <<version, expired, registered, conn, queued, closes, work, up, cut>>

ListClients(t) ==
  /\ Next1(t, "list")
  /\ LET s == Head(todo[t])
     IN  Become(t, IF registered = {} THEN <<>>
                   ELSE <<Send(s.kind, s.key, registered, s.full)>>)
  /\ UNCHANGED <<rows, work, up, cut>>

\* What is left of a send once c has been dealt with.
Others(s, c) ==
  IF s.to = {c} THEN <<>> ELSE <<Send(s.kind, s.key, s.to \ {c}, s.full)>>

\* Bug: off by one.
HasRoomForOne(c) == queued[c] <= Capacity

HasRoom(c) == queued[c] < Capacity

Enqueue(t) ==
  /\ Next1(t, "send")
  /\ LET s == Head(todo[t])
     IN  \E c \in s.to :
           /\ ~Closed(c) /\ HasRoom(c)
           /\ queued' = [queued EXCEPT ![c] = @ + 1]
           /\ owed' = [k \in Kinds |-> IF k = s.kind /\ last[k] = s.key THEN owed[k] \ {c} ELSE owed[k]]
           /\ Become(t, Others(s, c))
  /\ UNCHANGED <<version, expired, registered, conn, closes, last, work, up, cut>>

\* Bug: a client whose channel is full is passed over, and stays.
WhenFullSkip(s, c) == Others(s, c)

\* Bug: the goroutine waits until there is room.
WhenFullWait(s, c) == <<s>>

WhenFull(s, c) ==
  CASE s.full = "drop" -> <<Unregister(c)>> \o Others(s, c)
    [] s.full = "skip" -> Others(s, c)
    [] s.full = "refuse" -> <<Unregister(c)>>
    [] s.full = "report" -> ErrorTo(c)
    [] s.full = "give up" -> <<>>

\* There is none: the default branch of the select.
Overflow(t) ==
  /\ Next1(t, "send")
  /\ LET s == Head(todo[t])
     IN  \E c \in s.to :
           /\ ~Closed(c) /\ ~HasRoom(c)
           /\ IF s.full \in {"drop", "skip"}
                THEN Become(t, WhenFull(s, c))
                ELSE Turn(t, WhenFull(s, c))
           /\ cut' = (cut \/ s.full = "give up")
  /\ UNCHANGED <<rows, work, up>>

\* A send on a closed channel panics, in a select with a default too.  The HTTP
\* server recovers the panic of a handler; any other ends the process.
Panic(t) ==
  /\ Next1(t, "send")
  /\ \E c \in Head(todo[t]).to : Closed(c)
  /\ cut' = TRUE
  /\ IF t \in Requests \/ (t \in Clients /\ conn[t] = "serving")
       THEN Turn(t, <<>>) /\ UNCHANGED up
       ELSE up' = FALSE /\ UNCHANGED todo
  /\ UNCHANGED <<rows, work>>

Register(t) ==
  /\ Next1(t, "register")
  /\ registered' = registered \cup {Head(todo[t]).client}
  /\ Become(t, <<>>)
  /\ UNCHANGED <<version, expired, conn, queued, closes, last, owed, work, up, cut>>

\* Bug: whether the client is still there is not asked.
StillThereUnasked(c) == TRUE

StillThere(c) == c \in registered

\* The last client takes what is remembered of the room along; the others are
\* told that it has left.
UnregisterClient(t) ==
  /\ Next1(t, "unregister")
  /\ LET c == Head(todo[t]).client
     IN  \/ /\ StillThere(c)
            /\ registered' = registered \ {c}
            /\ closes' = [closes EXCEPT ![c] = @ + 1]
            /\ last' = IF registered \subseteq {c} THEN [k \in Kinds |-> None] ELSE last
            /\ owed' = [k \in Kinds |-> owed[k] \ {c}]
            /\ Become(t, <<Broadcast("other", 0)>>)
         \/ /\ ~StillThere(c)
            /\ Become(t, <<>>) /\ UNCHANGED <<registered, closes, last, owed>>
  /\ UNCHANGED <<version, expired, conn, queued, work, up, cut>>

\* ServeHTTP starts the pumps of the client and returns.
StartPumps(t) ==
  /\ Next1(t, "pump")
  /\ conn' = [conn EXCEPT ![Head(todo[t]).client] = "pumping"]
  /\ Become(t, <<>>)
  /\ UNCHANGED <<version, expired, registered, queued, closes, last, owed, work, up, cut>>

Step(t) ==
  \/ LookUp(t) \/ SetLast(t) \/ ListClients(t)
  \/ Enqueue(t) \/ Overflow(t) \/ Panic(t)
  \/ Register(t) \/ UnregisterClient(t) \/ StartPumps(t)

\* writePump takes an event out of the channel (what is left in it when the
\* connection is lost goes nowhere) ...
Write(c) ==
  /\ up /\ conn[c] = "pumping" /\ queued[c] > 0
  /\ queued' = [queued EXCEPT ![c] = @ - 1]
  /\ UNCHANGED <<version, expired, registered, conn, closes, last, owed, todo, work, up, cut>>

\* ... and shuts the connection when the channel is closed and empty.
EndWriter(c) ==
  /\ up /\ conn[c] = "pumping" /\ queued[c] = 0 /\ Closed(c)
  /\ conn' = [conn EXCEPT ![c] = "shut"]
  /\ UNCHANGED <<version, expired, registered, queued, closes, last, owed, todo, work, up, cut>>

Next ==
  \/ Change \/ Expire \/ Tick
  \/ \E r \in Requests : Notify(r)
  \/ \E c \in Clients : Connect(c) \/ Receive(c) \/ HangUp(c) \/ Write(c) \/ EndWriter(c)
  \/ \E t \in Goroutines : Step(t)

Spec == Init /\ [][Next]_vars

\* As long as a goroutine can run, one does; nothing is assumed of the clients,
\* who may never read.
FairSpec == Spec /\ WF_vars(\E t \in Goroutines : Step(t))

-----------------------------------------------------------------------------
(* Properties.                                                             *)

Steps ==
  [do : {"once"}, kind : Kinds, key : Nat]
    \cup [do : {"remember"}, kind : Kinds, key : Nat, told : SUBSET Clients]
    \cup [do : {"list"}, kind : Kinds \cup {"other"}, key : Nat, full : {"drop", "give up"}]
    \cup [do : {"send"}, kind : Kinds \cup {"other"}, key : Nat, to : SUBSET Clients,
          full : {"drop", "skip", "refuse", "report", "give up"}]
    \cup [do : {"register", "unregister", "pump"}, client : Clients]

\* Types; a channel never holds more than its capacity.
HubTypeOK ==
  /\ version \in 0..MaxVersion /\ work \in 0..MaxWork /\ {expired, up, cut} \subseteq BOOLEAN
  /\ registered \subseteq Clients
  /\ conn \in [Clients -> {"new", "serving", "pumping", "shut", "closed"}]
  /\ queued \in [Clients -> 0..Capacity] /\ closes \in [Clients -> Nat]
  /\ last \in [Kinds -> Nat \cup {None}]
  /\ owed \in [Kinds -> SUBSET Clients]
  /\ todo \in [Goroutines -> Seq(Steps)]

\* The channel of a client is closed once, by whoever takes the client out of
\* the room first: a full channel met by any broadcast, the end of its reader,
\* or a refused connection (closing it twice would panic).
ClosedOnce ==
  \A c \in Clients : closes[c] <= 1 /\ (c \in registered => closes[c] = 0)

SeesTo(s, kind, key, c) ==
  \/ s.do = "list" /\ s.kind = kind /\ s.key = key
  \/ s.do = "send" /\ s.kind = kind /\ s.key = key /\ c \in s.to
  \/ s.do = "unregister" /\ s.client = c

\* An event announced once for a phase has reached the channel of every client
\* that was there, or some goroutine is still about to put it in, or to take the
\* client out of the room: unless a panic, or a full channel during a
\* presentation, has cut a broadcast short.
AnnouncedToAll ==
  cut \/ \A k \in Kinds \ {"state"} : \A c \in owed[k] :
           \E t \in Goroutines : \E i \in DOMAIN todo[t] : SeesTo(todo[t][i], k, last[k], c)

Quiet == \A t \in Goroutines : todo[t] = <<>>

\* When nothing is under way and the manager takes the newest state for sent, so
\* that the next poll will be silent, every client has been sent it.
\* "WebSocket para sincronizacao de sala em tempo real" (README.md:13).
InSync ==
  Quiet /\ ~expired /\ last["state"] = version =>
    owed["state"] = {}

\* The manager finishes what it begins: no goroutine waits for a client that does
\* not read or for another goroutine, and clients that unregister each other do
\* so once.
WorkEnds == <>[](Quiet \/ ~up)

=============================================================================
