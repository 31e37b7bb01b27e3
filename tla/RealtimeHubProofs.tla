------------------------- MODULE RealtimeHubProofs -------------------------
(***************************************************************************)
(* The types of RealtimeHub, and that every channel is closed once, for    *)
(* any number of clients and goroutines.                                   *)
(*                                                                         *)
(* Two things together keep a closed channel out of the room: a client is  *)
(* registered by the first step of its own goroutine only, and until then  *)
(* nobody can unregister it.                                               *)
(*                                                                         *)
(* Further down: an event announced once for a phase reaches every client  *)
(* of the room, unless a broadcast is cut short.                           *)
(***************************************************************************)
EXTENDS RealtimeHub, SequenceTheorems, TLAPS

\* Steps that register nobody.
Plain == Steps \ [do : {"register"}, client : Clients]

\* t is about to register its client, and will not do so again.
Registering(t) ==
  /\ todo[t] # <<>>
  /\ Head(todo[t]) = [do |-> "register", client |-> t]
  /\ Tail(todo[t]) \in Seq(Plain)
  /\ t \in Clients /\ conn[t] # "new"
  /\ t \notin registered /\ closes[t] = 0

Orderly == \A t \in Goroutines : todo[t] \in Seq(Plain) \/ Registering(t)

NewUnknown == \A c \in Clients : conn[c] = "new" => c \notin registered /\ closes[c] = 0

Inv == HubTypeOK /\ Orderly /\ NewUnknown /\ ClosedOnce

-----------------------------------------------------------------------------
(* The programs of the goroutines are made of plain steps.                 *)

LEMMA PlainSteps ==
  ASSUME NEW key \in Nat, NEW to \in SUBSET Clients, NEW c \in Clients
  PROVE  /\ \A kind \in Kinds : Once(kind, key) \in Plain /\ Remember(kind, key, to) \in Plain
         /\ \A kind \in Kinds \cup {"other"} :
              /\ \A full \in {"drop", "give up"} : List(kind, key, full) \in Plain
              /\ \A full \in {"drop", "skip", "refuse", "report", "give up"} :
                   Send(kind, key, to, full) \in Plain
         /\ Unregister(c) \in Plain
         /\ [do |-> "pump", client |-> c] \in Plain
  <1>1. \A kind \in Kinds : Once(kind, key) \in Plain /\ Remember(kind, key, to) \in Plain
    BY DEF Once, Remember, Plain, Steps
  <1>2. \A kind \in Kinds \cup {"other"}, full \in {"drop", "give up"} :
          List(kind, key, full) \in Plain
    BY DEF List, Plain, Steps
  <1>3. \A kind \in Kinds \cup {"other"}, full \in {"drop", "skip", "refuse", "report", "give up"} :
          Send(kind, key, to, full) \in Plain
    BY DEF Send, Plain, Steps
  <1>4. Unregister(c) \in Plain /\ [do |-> "pump", client |-> c] \in Plain
    BY DEF Unregister, Plain, Steps
  <1>. QED
    BY <1>1, <1>2, <1>3, <1>4

LEMMA BroadcastPlain ==
  ASSUME NEW kind \in Kinds \cup {"other"}, NEW key \in Nat
  PROVE  Broadcast(kind, key) \in Plain
  BY PlainSteps DEF Broadcast, List, Plain, Steps

\* A program of a few plain steps is a sequence of plain steps.
LEMMA Few ==
  ASSUME NEW a \in Plain, NEW b \in Plain, NEW d \in Plain
  PROVE  /\ <<>> \in Seq(Plain) /\ <<a>> \in Seq(Plain)
         /\ <<a, b>> \in Seq(Plain) /\ <<a, b, d>> \in Seq(Plain)
  OBVIOUS

LEMMA AnnouncePlain ==
  ASSUME NEW kind \in Kinds, NEW key \in Nat
  PROVE  Announce(kind, key) \in Seq(Plain)
  <1>1. Remember(kind, key, {}) \in Plain
    BY DEF Remember, Plain, Steps
  <1>2. List(kind, key, IF kind = "presented" THEN "give up" ELSE "drop") \in Plain
    BY DEF List, Plain, Steps
  <1>. QED
    BY <1>1, <1>2, Few DEF Announce

LEMMA DerivedPlain ==
  ASSUME NEW v \in 0..MaxVersion
  PROVE  Derived(v) \in Seq(Plain)
  <1>1. PhaseOf[v] \in Nat
    BY HubLimitsAssumption
  <1>2. \A kind \in Kinds : Once(kind, PhaseOf[v]) \in Plain
    BY <1>1 DEF Once, Plain, Steps
  <1>3. Once("phase", PhaseOf[v]) \in Plain /\ Once("presented", PhaseOf[v]) \in Plain
        /\ Once("revealed", PhaseOf[v]) \in Plain
    BY <1>2 DEF Kinds
  <1>4. Broadcast("other", 0) \in Plain
    BY BroadcastPlain
  <1>5. /\ <<>> \in Seq(Plain)
        /\ <<Once("phase", PhaseOf[v])>> \in Seq(Plain)
        /\ <<Once("phase", PhaseOf[v]), Once("revealed", PhaseOf[v])>> \in Seq(Plain)
        /\ <<Once("phase", PhaseOf[v]), Once("presented", PhaseOf[v]), Broadcast("other", 0)>>
             \in Seq(Plain)
    BY <1>3, <1>4, Few
  <1>6. \/ ~ThreeLies
        \/ ThreeLies /\ PhaseOf[v] \in Presenting
        \/ ThreeLies /\ PhaseOf[v] \in Revealing /\ PhaseOf[v] \notin Presenting
        \/ ThreeLies /\ PhaseOf[v] \notin Presenting \cup Revealing
    BY HubLimitsAssumption
  <1>. QED
    BY <1>5, <1>6, HubLimitsAssumption DEF Derived

LEMMA SharingPlain ==
  ASSUME version \in 0..MaxVersion, expired \in BOOLEAN, NEW force \in BOOLEAN
  PROVE  Sharing(force) \in Seq(Plain)
  <1>1. version \in Nat /\ "state" \in Kinds
    BY HubLimitsAssumption DEF Kinds
  <1>2. Announce("state", version) \in Seq(Plain) /\ Derived(version) \in Seq(Plain)
    BY <1>1, AnnouncePlain, DerivedPlain
  <1>3. Once("state", version) \in Plain
    BY <1>1 DEF Once, Plain, Steps
  <1>4. <<Once("state", version)>> \in Seq(Plain) /\ <<Broadcast("other", 0)>> \in Seq(Plain)
    BY <1>3, BroadcastPlain, Few
  <1>5. /\ Announce("state", version) \o Derived(version) \in Seq(Plain)
        /\ <<Once("state", version)>> \o Derived(version) \in Seq(Plain)
    BY <1>2, <1>4, ConcatProperties
  <1>. QED
    BY <1>4, <1>5 DEF Sharing

\* The program of ServeHTTP: one registration, then plain steps.
LEMMA ServingRegistersFirst ==
  ASSUME NEW c \in Clients, NEW v \in Nat
  PROVE  /\ Serving(c, v) \in Seq(Steps) /\ Serving(c, v) # <<>>
         /\ Head(Serving(c, v)) = [do |-> "register", client |-> c]
         /\ Tail(Serving(c, v)) \in Seq(Plain)
  <1> DEFINE first == [do |-> "register", client |-> c]
             rest == <<Send("state", v, {c}, "refuse"), Remember("state", v, {c}),
                       Send("state", v, {c}, "skip"), Send("other", 0, {c}, "skip"),
                       Broadcast("other", 0), [do |-> "pump", client |-> c]>>
  <1>1. /\ Send("state", v, {c}, "refuse") \in Plain
        /\ Send("state", v, {c}, "skip") \in Plain
        /\ Send("other", 0, {c}, "skip") \in Plain
    BY DEF Send, Plain, Steps, Kinds
  <1>2. Remember("state", v, {c}) \in Plain
    BY DEF Remember, Plain, Steps, Kinds
  <1>3. Broadcast("other", 0) \in Plain
    BY BroadcastPlain
  <1>4. [do |-> "pump", client |-> c] \in Plain
    BY DEF Plain, Steps
  <1>5. first \in Steps
    BY DEF Steps
  <1>6. rest \in Seq(Plain) /\ Plain \subseteq Steps
    BY <1>1, <1>2, <1>3, <1>4 DEF Plain
  <1>7. rest \in Seq(Steps)
    BY <1>6, SeqMonotonic
  <1>8. Serving(c, v) = <<first>> \o rest
    BY DEF Serving
  <1>. HIDE DEF first, rest
  <1>9. <<first>> \o rest \in Seq(Steps) /\ <<first>> \o rest # <<>>
    BY <1>5, <1>7
  <1>10. Head(<<first>> \o rest) = first
    BY <1>5, <1>7
  <1>11. Tail(<<first>> \o rest) = rest
    BY <1>5, <1>7
  <1>. QED
    BY <1>6, <1>8, <1>9, <1>10, <1>11 DEF first

LEMMA SyncingPlain ==
  ASSUME NEW c \in Clients, NEW v \in Nat
  PROVE  Syncing(c, v) \in Seq(Plain)
  <1>1. Send("state", v, {c}, "report") \in Plain
    BY DEF Send, Plain, Steps, Kinds
  <1>2. Remember("state", v, {c}) \in Plain
    BY DEF Remember, Plain, Steps, Kinds
  <1>. QED
    BY <1>1, <1>2, Few DEF Syncing

LEMMA ErrorToPlain ==
  ASSUME NEW c \in Clients
  PROVE  ErrorTo(c) \in Seq(Plain)
  <1>1. Send("other", 0, {c}, "skip") \in Plain
    BY DEF Send, Plain, Steps
  <1>. QED
    BY <1>1, Few DEF ErrorTo

\* What each kind of step carries.
LEMMA SendTyped ==
  ASSUME NEW s \in Steps, s.do = "send"
  PROVE  /\ s.to \in SUBSET Clients /\ s.kind \in Kinds \cup {"other"} /\ s.key \in Nat
         /\ s.full \in {"drop", "skip", "refuse", "report", "give up"}
  BY DEF Steps

LEMMA OthersPlain ==
  ASSUME NEW s \in Steps, s.do = "send", NEW c \in Clients
  PROVE  Others(s, c) \in Seq(Plain)
  <1>1. Send(s.kind, s.key, s.to \ {c}, s.full) \in Plain
    BY SendTyped DEF Send, Plain, Steps
  <1>. QED
    BY <1>1, Few DEF Others

LEMMA WhenFullPlain ==
  ASSUME NEW s \in Steps, s.do = "send", NEW c \in Clients
  PROVE  WhenFull(s, c) \in Seq(Plain)
  <1>1. <<Unregister(c)>> \in Seq(Plain)
    BY Few DEF Unregister, Plain, Steps
  <1>2. Others(s, c) \in Seq(Plain) /\ ErrorTo(c) \in Seq(Plain) /\ <<>> \in Seq(Plain)
    BY OthersPlain, ErrorToPlain
  <1>3. <<Unregister(c)>> \o Others(s, c) \in Seq(Plain)
    BY <1>1, <1>2, ConcatProperties
  <1>4. s.full \in {"drop", "skip", "refuse", "report", "give up"}
    BY SendTyped
  <1>. QED
    BY <1>1, <1>2, <1>3, <1>4 DEF WhenFull

-----------------------------------------------------------------------------
(* What a step of a goroutine does to the programs.                        *)

LEMMA HeadTyped ==
  ASSUME HubTypeOK, NEW t \in Goroutines, todo[t] # <<>>
  PROVE  /\ Head(todo[t]) \in Steps /\ Tail(todo[t]) \in Seq(Steps)
         /\ Head(todo[t]).do \in {"register", "unregister", "pump"} =>
              Head(todo[t]).client \in Clients
         /\ Head(todo[t]).do \in {"once", "remember"} =>
              Head(todo[t]).kind \in Kinds /\ Head(todo[t]).key \in Nat
         /\ Head(todo[t]).do = "remember" => Head(todo[t]).told \in SUBSET Clients
         /\ Head(todo[t]).do = "list" =>
              /\ Head(todo[t]).kind \in Kinds \cup {"other"} /\ Head(todo[t]).key \in Nat
              /\ Head(todo[t]).full \in {"drop", "give up"}
         /\ Head(todo[t]).do = "send" => Head(todo[t]).to \in SUBSET Clients
  <1>1. todo[t] \in Seq(Steps)
    BY DEF HubTypeOK
  <1>2. Head(todo[t]) \in Steps /\ Tail(todo[t]) \in Seq(Steps)
    BY <1>1, HeadTailProperties
  <1>. QED
    BY <1>2 DEF Steps

\* Behind its first step a goroutine has plain steps only.
LEMMA TailPlain ==
  ASSUME Inv, NEW t \in Goroutines, todo[t] # <<>>
  PROVE  Tail(todo[t]) \in Seq(Plain)
  <1>1. CASE todo[t] \in Seq(Plain)
    BY <1>1, HeadTailProperties
  <1>2. CASE Registering(t)
    BY <1>2 DEF Registering
  <1>. QED
    BY <1>1, <1>2 DEF Inv, Orderly

\* Who registers a client is that client's goroutine, for the first time.
LEMMA RegistersItself ==
  ASSUME Inv, NEW t \in Goroutines, Next1(t, "register")
  PROVE  Registering(t)
  <1>1. ASSUME NEW s \in Plain PROVE s.do # "register"
    BY DEF Plain, Steps
  <1>2. todo[t] # <<>> /\ Head(todo[t]).do = "register"
    BY DEF Next1
  <1>3. ASSUME todo[t] \in Seq(Plain) PROVE FALSE
    <2>1. Head(todo[t]) \in Plain
      BY <1>2, <1>3, HeadTailProperties
    <2>. QED
      BY <1>1, <1>2, <2>1
  <1>. QED
    BY <1>3 DEF Inv, Orderly

LEMMA SetTodo ==
  ASSUME Inv, NEW t \in Goroutines, NEW p \in Seq(Plain), todo' = [todo EXCEPT ![t] = p]
  PROVE  /\ todo' \in [Goroutines -> Seq(Steps)]
         /\ todo'[t] \in Seq(Plain)
         /\ \A u \in Goroutines \ {t} : todo'[u] = todo[u]
  <1>1. p \in Seq(Steps)
    BY SeqMonotonic DEF Plain
  <1>2. todo \in [Goroutines -> Seq(Steps)]
    BY DEF Inv, HubTypeOK
  <1>. QED
    BY <1>1, <1>2

LEMMA BecomeTodo ==
  ASSUME Inv, NEW t \in Goroutines, todo[t] # <<>>, NEW p \in Seq(Plain), Become(t, p)
  PROVE  /\ todo' \in [Goroutines -> Seq(Steps)]
         /\ todo'[t] \in Seq(Plain)
         /\ \A u \in Goroutines \ {t} : todo'[u] = todo[u]
  <1>1. p \o Tail(todo[t]) \in Seq(Plain)
    BY TailPlain, ConcatProperties
  <1>2. todo' = [todo EXCEPT ![t] = p \o Tail(todo[t])]
    BY DEF Become
  <1>. QED
    BY <1>1, <1>2, SetTodo

\* The programs stay in order if one goroutine goes on with plain steps and the
\* clients of the others are left out of the room.
LEMMA OrderlyKept ==
  ASSUME Inv, NEW t \in Goroutines,
         todo'[t] \in Seq(Plain), \A u \in Goroutines \ {t} : todo'[u] = todo[u],
         \A u \in Clients \ {t} : u \notin registered /\ conn[u] # "new" =>
           u \notin registered' /\ conn'[u] # "new" /\ closes'[u] = closes[u]
  PROVE  Orderly'
  <1>1. ASSUME NEW u \in Goroutines \ {t}, Registering(u) PROVE Registering(u)'
    BY <1>1 DEF Registering
  <1>. QED
    BY <1>1 DEF Inv, Orderly

LEMMA OrderlyStill ==
  ASSUME Inv, UNCHANGED <<todo, registered, closes>>,
         \A u \in Clients : conn[u] # "new" => conn'[u] # "new"
  PROVE  Orderly'
  <1>1. ASSUME NEW u \in Goroutines, Registering(u) PROVE Registering(u)'
    BY <1>1 DEF Registering
  <1>. QED
    BY <1>1 DEF Inv, Orderly

-----------------------------------------------------------------------------
(* The invariant.                                                          *)

LEMMA InitInv == Init => Inv
  <1> SUFFICES ASSUME Init PROVE Inv
    OBVIOUS
  <1>1. ASSUME NEW S PROVE <<>> \in Seq(S)
    OBVIOUS
  <1>2. todo \in [Goroutines -> Seq(Steps)]
    BY <1>1 DEF Init
  <1>3. HubTypeOK
    <2>1. version \in 0..MaxVersion /\ work \in 0..MaxWork /\ version \in Nat
      BY HubLimitsAssumption DEF Init
    <2>2. {expired, up, cut} \subseteq BOOLEAN
      BY DEF Init
    <2>3. registered \subseteq Clients
      BY HubGoroutinesAssumption DEF Init
    <2>4. conn \in [Clients -> {"new", "serving", "pumping", "shut", "closed"}]
      BY DEF Init
    <2>5. queued \in [Clients -> 0..Capacity] /\ closes \in [Clients -> Nat]
      BY HubLimitsAssumption DEF Init
    <2>6. last \in [Kinds -> Nat \cup {None}]
      BY <2>1 DEF Init
    <2>7. owed \in [Kinds -> SUBSET Clients]
      BY DEF Init
    <2>. QED
      BY <1>2, <2>1, <2>2, <2>3, <2>4, <2>5, <2>6, <2>7 DEF HubTypeOK
  <1>4. Orderly
    BY <1>1 DEF Init, Orderly
  <1>5. NewUnknown /\ ClosedOnce
    BY HubGoroutinesAssumption DEF Init, NewUnknown, ClosedOnce
  <1>. QED
    BY <1>3, <1>4, <1>5 DEF Inv

\* Steps that are not those of a goroutine of the manager.
LEMMA OutsideInv ==
  ASSUME Inv,
         Change \/ Expire \/ (\E c \in Clients : Write(c) \/ EndWriter(c)) \/ UNCHANGED vars
  PROVE  Inv'
  <1> USE DEF Inv
  <1>1. CASE Change
    <2>1. HubTypeOK'
      BY <1>1, HubLimitsAssumption DEF Change, HubTypeOK
    <2>2. Orderly'
      BY <1>1, OrderlyStill DEF Change
    <2>. QED
      BY <1>1, <2>1, <2>2 DEF Change, NewUnknown, ClosedOnce
  <1>2. CASE Expire
    <2>1. HubTypeOK'
      BY <1>2 DEF Expire, HubTypeOK
    <2>2. Orderly'
      BY <1>2, OrderlyStill DEF Expire
    <2>. QED
      BY <1>2, <2>1, <2>2 DEF Expire, NewUnknown, ClosedOnce
  <1>3. ASSUME NEW c \in Clients, Write(c) PROVE Inv'
    <2>1. HubTypeOK'
      BY <1>3, HubLimitsAssumption DEF Write, HubTypeOK
    <2>2. Orderly'
      BY <1>3, OrderlyStill DEF Write
    <2>. QED
      BY <1>3, <2>1, <2>2 DEF Write, NewUnknown, ClosedOnce
  <1>4. ASSUME NEW c \in Clients, EndWriter(c) PROVE Inv'
    <2>1. HubTypeOK'
      BY <1>4 DEF EndWriter, HubTypeOK
    <2>2. \A u \in Clients : conn'[u] = "new" => conn[u] = "new"
      BY <1>4 DEF EndWriter, HubTypeOK
    <2>3. Orderly'
      BY <1>4, <2>2, OrderlyStill DEF EndWriter
    <2>. QED
      BY <1>4, <2>1, <2>2, <2>3 DEF EndWriter, NewUnknown, ClosedOnce
  <1>5. CASE UNCHANGED vars
    <2>1. HubTypeOK'
      BY <1>5 DEF vars, rows, HubTypeOK
    <2>2. Orderly'
      BY <1>5, OrderlyStill DEF vars, rows
    <2>. QED
      BY <1>5, <2>1, <2>2 DEF vars, rows, NewUnknown, ClosedOnce
  <1>. QED
    BY <1>1, <1>2, <1>3, <1>4, <1>5

\* A goroutine begins a piece of work.
LEMMA BeginInv ==
  ASSUME Inv,
         \/ Tick
         \/ \E r \in Requests : Notify(r)
         \/ \E c \in Clients : Connect(c) \/ Receive(c) \/ HangUp(c)
  PROVE  Inv'
  <1> USE DEF Inv
  <1>0. /\ version \in 0..MaxVersion /\ version \in Nat /\ expired \in BOOLEAN
        /\ \A force \in BOOLEAN : Sharing(force) \in Seq(Plain)
        /\ <<Broadcast("other", 0)>> \in Seq(Plain)
    <2>1. version \in 0..MaxVersion /\ version \in Nat /\ expired \in BOOLEAN
      BY HubLimitsAssumption DEF HubTypeOK
    <2>2. Broadcast("other", 0) \in Plain
      BY BroadcastPlain
    <2>. QED
      BY <2>1, <2>2, SharingPlain, Few
  <1>1. ASSUME NEW t \in Goroutines, NEW p \in Seq(Plain), Begin(t, p), Count,
               UNCHANGED <<rows, up, cut>>
        PROVE  Inv'
    <2>1. todo' = [todo EXCEPT ![t] = p]
      BY <1>1 DEF Begin
    <2>2. /\ todo' \in [Goroutines -> Seq(Steps)] /\ todo'[t] \in Seq(Plain)
          /\ \A u \in Goroutines \ {t} : todo'[u] = todo[u]
      BY <2>1, SetTodo
    <2>3. HubTypeOK'
      BY <1>1, <2>2, HubLimitsAssumption DEF Count, rows, HubTypeOK
    <2>4. Orderly'
      BY <1>1, <2>2, OrderlyKept DEF rows
    <2>. QED
      BY <1>1, <2>3, <2>4 DEF rows, NewUnknown, ClosedOnce
  <1>2. CASE Tick
    BY <1>0, <1>1, <1>2 DEF Tick, Goroutines
  <1>3. ASSUME NEW r \in Requests, Notify(r) PROVE Inv'
    BY <1>0, <1>1, <1>3 DEF Notify, Goroutines
  <1>4. ASSUME NEW c \in Clients, Receive(c) PROVE Inv'
    <2>1. ErrorTo(c) \in Seq(Plain) /\ Syncing(c, version) \in Seq(Plain)
      BY <1>0, ErrorToPlain, SyncingPlain
    <2>2. <<Send("other", 0, {c}, "report")>> \in Seq(Plain)
      <3>1. Send("other", 0, {c}, "report") \in Plain
        BY DEF Send, Plain, Steps
      <3>. QED
        BY <3>1, Few
    <2>. QED
      BY <1>1, <1>4, <2>1, <2>2 DEF Receive, Goroutines
  <1>5. ASSUME NEW c \in Clients, HangUp(c) PROVE Inv'
    <2>1. <<Unregister(c)>> \in Seq(Plain)
      <3>1. Unregister(c) \in Plain
        BY DEF Unregister, Plain, Steps
      <3>. QED
        BY <3>1, Few
    <2>2. /\ todo' \in [Goroutines -> Seq(Steps)] /\ todo'[c] \in Seq(Plain)
          /\ \A u \in Goroutines \ {c} : todo'[u] = todo[u]
      BY <1>5, <2>1, SetTodo DEF HangUp, Begin, Goroutines
    <2>3. HubTypeOK'
      BY <1>5, <2>2 DEF HangUp, HubTypeOK
    <2>4. \A u \in Clients : conn'[u] = "new" => conn[u] = "new"
      BY <1>5 DEF HangUp, HubTypeOK
    <2>5. Orderly'
      BY <1>5, <2>2, <2>4, OrderlyKept DEF HangUp, Goroutines
    <2>. QED
      BY <1>5, <2>3, <2>4, <2>5 DEF HangUp, NewUnknown, ClosedOnce
  <1>6. ASSUME NEW c \in Clients, Connect(c) PROVE Inv'
    <2>1. /\ todo' = [todo EXCEPT ![c] = Serving(c, version)]
          /\ conn[c] = "new" /\ conn' = [conn EXCEPT ![c] = "serving"]
          /\ UNCHANGED <<version, expired, registered, queued, closes, last, owed, up, cut>>
      BY <1>6 DEF Connect, Begin
    <2>2. /\ Serving(c, version) \in Seq(Steps) /\ Serving(c, version) # <<>>
          /\ Head(Serving(c, version)) = [do |-> "register", client |-> c]
          /\ Tail(Serving(c, version)) \in Seq(Plain)
      BY <1>0, ServingRegistersFirst
    <2>3. c \in Goroutines /\ conn \in [Clients -> {"new", "serving", "pumping", "shut", "closed"}]
          /\ todo \in [Goroutines -> Seq(Steps)]
      BY DEF Goroutines, HubTypeOK
    <2>4. /\ todo' \in [Goroutines -> Seq(Steps)] /\ todo'[c] = Serving(c, version)
          /\ \A u \in Goroutines \ {c} : todo'[u] = todo[u]
      BY <2>1, <2>2, <2>3
    <2>5. HubTypeOK'
      BY <1>6, <2>1, <2>4, HubLimitsAssumption DEF Connect, Count, HubTypeOK
    <2>6. \A u \in Clients : conn'[u] = "new" => conn[u] = "new"
      BY <2>1, <2>3
    <2>7. Registering(c)'
      BY <2>1, <2>2, <2>3, <2>4 DEF Registering, NewUnknown
    <2>8. ASSUME NEW u \in Goroutines \ {c}, Registering(u) PROVE Registering(u)'
      BY <2>1, <2>4, <2>6, <2>8 DEF Registering
    <2>9. Orderly'
      BY <2>4, <2>7, <2>8 DEF Orderly
    <2>. QED
      BY <2>1, <2>5, <2>6, <2>9 DEF NewUnknown, ClosedOnce
  <1>. QED
    BY <1>2, <1>3, <1>4, <1>5, <1>6

\* A step that leaves the room and the connections alone.
LEMMA ProgramInv ==
  ASSUME Inv, NEW t \in Goroutines,
         todo' \in [Goroutines -> Seq(Steps)], todo'[t] \in Seq(Plain),
         \A u \in Goroutines \ {t} : todo'[u] = todo[u],
         UNCHANGED <<version, expired, registered, conn, closes, work>>,
         queued' \in [Clients -> 0..Capacity], owed' \in [Kinds -> SUBSET Clients],
         last' \in [Kinds -> Nat \cup {None}], up' \in BOOLEAN, cut' \in BOOLEAN
  PROVE  Inv'
  <1> USE DEF Inv
  <1>1. HubTypeOK'
    BY DEF HubTypeOK
  <1>2. Orderly'
    BY OrderlyKept
  <1>. QED
    BY <1>1, <1>2 DEF NewUnknown, ClosedOnce

\* A goroutine takes a step.
LEMMA StepInv ==
  ASSUME Inv, NEW t \in Goroutines, Step(t)
  PROVE  Inv'
  <1> USE DEF Inv
  <1>0. /\ todo[t] # <<>>
        /\ queued \in [Clients -> 0..Capacity] /\ closes \in [Clients -> Nat]
        /\ owed \in [Kinds -> SUBSET Clients] /\ last \in [Kinds -> Nat \cup {None}]
        /\ up \in BOOLEAN /\ cut \in BOOLEAN /\ registered \subseteq Clients
        /\ conn \in [Clients -> {"new", "serving", "pumping", "shut", "closed"}]
        /\ todo \in [Goroutines -> Seq(Steps)] /\ <<>> \in Seq(Plain)
    <2>1. todo[t] # <<>>
      BY DEF Step, LookUp, SetLast, ListClients, Enqueue, Overflow, Panic, Register,
             UnregisterClient, StartPumps, Next1
    <2>2. <<>> \in Seq(Plain)
      OBVIOUS
    <2>. QED
      BY <2>1, <2>2 DEF HubTypeOK
  <1> DEFINE s == Head(todo[t])
  <1>1. CASE LookUp(t)
    <2>1. s.do = "once"
      BY <1>1 DEF LookUp, Next1
    <2>2. Announce(s.kind, s.key) \in Seq(Plain)
      BY <1>0, <2>1, HeadTyped, AnnouncePlain
    <2>3. Become(t, IF last[s.kind] = s.key THEN <<>> ELSE Announce(s.kind, s.key))
      BY <1>1 DEF LookUp
    <2>. QED
      BY <1>0, <1>1, <2>2, <2>3, BecomeTodo, ProgramInv DEF LookUp, rows
  <1>2. CASE SetLast(t)
    <2>1. s.do = "remember" /\ Become(t, <<>>)
      BY <1>2 DEF SetLast, Next1
    <2>2. s.kind \in Kinds /\ s.key \in Nat /\ s.told \in SUBSET Clients
      BY <1>0, <2>1, HeadTyped
    <2>3. last' \in [Kinds -> Nat \cup {None}]
      BY <1>0, <1>2, <2>2 DEF SetLast
    <2>4. owed' \in [Kinds -> SUBSET Clients]
      BY <1>0, <1>2, <2>2 DEF SetLast
    <2>. QED
      BY <1>0, <1>2, <2>1, <2>3, <2>4, BecomeTodo, ProgramInv DEF SetLast
  <1>3. CASE ListClients(t)
    <2>1. s.do = "list"
      BY <1>3 DEF ListClients, Next1
    <2>2. /\ s.kind \in Kinds \cup {"other"} /\ s.key \in Nat
          /\ s.full \in {"drop", "skip", "refuse", "report", "give up"}
      BY <1>0, <2>1, HeadTyped
    <2>3. Send(s.kind, s.key, registered, s.full) \in Plain
      BY <1>0, <2>2 DEF Send, Plain, Steps
    <2>4. <<Send(s.kind, s.key, registered, s.full)>> \in Seq(Plain)
      BY <2>3, Few
    <2>5. Become(t, IF registered = {} THEN <<>>
                    ELSE <<Send(s.kind, s.key, registered, s.full)>>)
      BY <1>3 DEF ListClients
    <2>. QED
      BY <1>0, <1>3, <2>4, <2>5, BecomeTodo, ProgramInv DEF ListClients, rows
  <1>4. CASE Enqueue(t)
    <2>1. s.do = "send" /\ s \in Steps /\ s.to \in SUBSET Clients
      BY <1>0, <1>4, HeadTyped DEF Enqueue, Next1
    <2>2. PICK c \in s.to :
            /\ HasRoom(c) /\ queued' = [queued EXCEPT ![c] = @ + 1]
            /\ owed' = [k \in Kinds |-> IF k = s.kind /\ last[k] = s.key
                                         THEN owed[k] \ {c} ELSE owed[k]]
            /\ Become(t, Others(s, c))
      BY <1>4 DEF Enqueue
    <2>3. c \in Clients /\ Others(s, c) \in Seq(Plain)
      BY <2>1, OthersPlain
    <2>4. queued' \in [Clients -> 0..Capacity]
      BY <1>0, <2>2, <2>3, HubLimitsAssumption DEF HasRoom
    <2>5. owed' \in [Kinds -> SUBSET Clients]
      BY <1>0, <2>2
    <2>. QED
      BY <1>0, <1>4, <2>2, <2>3, <2>4, <2>5, BecomeTodo, ProgramInv DEF Enqueue
  <1>5. CASE Overflow(t)
    <2>1. s.do = "send" /\ s \in Steps /\ s.to \in SUBSET Clients
      BY <1>0, <1>5, HeadTyped DEF Overflow, Next1
    <2>2. PICK c \in s.to : \/ Become(t, WhenFull(s, c))
                            \/ Turn(t, WhenFull(s, c))
      BY <1>5 DEF Overflow
    <2>3. WhenFull(s, c) \in Seq(Plain)
      BY <2>1, WhenFullPlain
    <2>4. /\ todo' \in [Goroutines -> Seq(Steps)] /\ todo'[t] \in Seq(Plain)
          /\ \A u \in Goroutines \ {t} : todo'[u] = todo[u]
      BY <1>0, <2>2, <2>3, BecomeTodo, SetTodo DEF Turn
    <2>5. cut' \in BOOLEAN /\ UNCHANGED <<rows, work, up>>
      BY <1>5 DEF Overflow
    <2>. QED
      BY <1>0, <2>4, <2>5, ProgramInv DEF rows
  <1>6. CASE Panic(t)
    <2>1. CASE Turn(t, <<>>) /\ UNCHANGED up
      BY <1>0, <1>6, <2>1, SetTodo, ProgramInv DEF Panic, Turn, rows
    <2>2. CASE up' = FALSE /\ UNCHANGED todo
      <3>1. HubTypeOK'
        BY <1>6, <2>2 DEF Panic, rows, HubTypeOK
      <3>2. Orderly'
        BY <1>6, <2>2, OrderlyStill DEF Panic, rows
      <3>. QED
        BY <1>6, <3>1, <3>2 DEF Panic, rows, NewUnknown, ClosedOnce
    <2>. QED
      BY <1>6, <2>1, <2>2 DEF Panic
  <1>7. CASE Register(t)
    <2>1. Registering(t) /\ s.client = t /\ t \in Clients
      BY <1>7, RegistersItself DEF Register, Registering
    <2>2. /\ registered' = registered \cup {t} /\ Become(t, <<>>)
          /\ UNCHANGED <<version, expired, conn, queued, closes, last, owed, work, up, cut>>
      BY <1>7, <2>1 DEF Register
    <2>3. /\ todo' \in [Goroutines -> Seq(Steps)] /\ todo'[t] \in Seq(Plain)
          /\ \A u \in Goroutines \ {t} : todo'[u] = todo[u]
      BY <1>0, <2>2, BecomeTodo
    <2>4. HubTypeOK'
      BY <2>1, <2>2, <2>3 DEF HubTypeOK
    <2>5. Orderly'
      BY <2>2, <2>3, OrderlyKept
    <2>6. NewUnknown' /\ ClosedOnce'
      BY <2>1, <2>2 DEF NewUnknown, ClosedOnce, Registering
    <2>. QED
      BY <2>4, <2>5, <2>6
  <1>8. CASE UnregisterClient(t)
    <2>1. s.do = "unregister" /\ s.client \in Clients
      BY <1>0, <1>8, HeadTyped DEF UnregisterClient, Next1
    <2>2. <<Broadcast("other", 0)>> \in Seq(Plain)
      BY BroadcastPlain, Few
    <2>3. UNCHANGED <<version, expired, conn, queued, work, up, cut>>
      BY <1>8 DEF UnregisterClient
    <2>4. CASE /\ StillThere(s.client) /\ Become(t, <<Broadcast("other", 0)>>)
               /\ registered' = registered \ {s.client}
               /\ closes' = [closes EXCEPT ![s.client] = @ + 1]
               /\ last' = IF registered \subseteq {s.client}
                            THEN [k \in Kinds |-> None] ELSE last
               /\ owed' = [k \in Kinds |-> owed[k] \ {s.client}]
      <3>1. s.client \in registered
        BY <2>4 DEF StillThere
      <3>2. /\ todo' \in [Goroutines -> Seq(Steps)] /\ todo'[t] \in Seq(Plain)
            /\ \A u \in Goroutines \ {t} : todo'[u] = todo[u]
        BY <1>0, <2>2, <2>4, BecomeTodo
      <3>3. closes' \in [Clients -> Nat] /\ owed' \in [Kinds -> SUBSET Clients]
        <4>1. closes[s.client] + 1 \in Nat
          BY <1>0, <2>1
        <4>2. closes' \in [Clients -> Nat]
          BY <1>0, <2>4, <4>1
        <4>3. \A k \in Kinds : owed[k] \ {s.client} \in SUBSET Clients
          BY <1>0
        <4>4. owed' \in [Kinds -> SUBSET Clients]
          BY <2>4, <4>3
        <4>. QED
          BY <4>2, <4>4
      <3>4. last' \in [Kinds -> Nat \cup {None}]
        BY <1>0, <2>4
      <3>5. HubTypeOK'
        BY <2>3, <2>4, <3>2, <3>3, <3>4 DEF HubTypeOK
      <3>6. \A u \in Clients \ {s.client} : closes'[u] = closes[u]
        BY <1>0, <2>1, <2>4
      <3>7. Orderly'
        BY <2>3, <2>4, <3>1, <3>2, <3>6, OrderlyKept
      <3>8. closes[s.client] = 0 /\ closes'[s.client] = 1
        BY <1>0, <2>1, <2>4, <3>1 DEF ClosedOnce
      <3>9. NewUnknown' /\ ClosedOnce'
        BY <2>1, <2>3, <2>4, <3>1, <3>6, <3>8 DEF NewUnknown, ClosedOnce
      <3>. QED
        BY <3>5, <3>7, <3>9
    <2>5. CASE Become(t, <<>>) /\ UNCHANGED <<registered, closes, last, owed>>
      BY <1>0, <2>3, <2>5, BecomeTodo, ProgramInv
    <2>. QED
      BY <1>8, <2>4, <2>5 DEF UnregisterClient
  <1>9. CASE StartPumps(t)
    <2>1. s.do = "pump" /\ s.client \in Clients
      BY <1>0, <1>9, HeadTyped DEF StartPumps, Next1
    <2>2. /\ conn' = [conn EXCEPT ![s.client] = "pumping"] /\ Become(t, <<>>)
          /\ UNCHANGED <<version, expired, registered, queued, closes, last, owed, work, up, cut>>
      BY <1>9 DEF StartPumps
    <2>3. /\ todo' \in [Goroutines -> Seq(Steps)] /\ todo'[t] \in Seq(Plain)
          /\ \A u \in Goroutines \ {t} : todo'[u] = todo[u]
      BY <1>0, <2>2, BecomeTodo
    <2>4. \A u \in Clients : conn'[u] = "new" => conn[u] = "new"
      BY <1>0, <2>2
    <2>5. HubTypeOK'
      BY <1>0, <2>2, <2>3 DEF HubTypeOK
    <2>6. Orderly'
      BY <2>2, <2>3, <2>4, OrderlyKept
    <2>. QED
      BY <2>2, <2>4, <2>5, <2>6 DEF NewUnknown, ClosedOnce
  <1>. QED
    BY <1>1, <1>2, <1>3, <1>4, <1>5, <1>6, <1>7, <1>8, <1>9 DEF Step

LEMMA NextInv == Inv /\ [Next]_vars => Inv'
  BY OutsideInv, BeginInv, StepInv DEF Next

LEMMA InvHolds == Spec => []Inv
  BY InitInv, NextInv, PTL DEF Spec

-----------------------------------------------------------------------------

\* The rows, the channels and the programs of the goroutines keep their types;
\* no channel holds more events than it has room for.
THEOREM HubTypeCorrect == Spec => []HubTypeOK
  <1>1. Inv => HubTypeOK
    BY DEF Inv
  <1>. QED
    BY <1>1, InvHolds, PTL

\* However many broadcasts, readers and refused connections unregister a client,
\* its channel is closed once, and no client of the room has a closed channel.
THEOREM ChannelsCloseOnce == Spec => []ClosedOnce
  <1>1. Inv => ClosedOnce
    BY DEF Inv
  <1>. QED
    BY <1>1, InvHolds, PTL

-----------------------------------------------------------------------------
(* Whoever is owed an event is covered by a step that some goroutine has   *)
(* still to take.  That such a step is never thrown away depends on the    *)
(* form of the programs: an event is remembered just before its broadcast, *)
(* and a send whose failure ends a program has nothing of the kind behind  *)
(* it.                                                                     *)


\* A step that neither carries an event of a phase nor unregisters anybody.
Silent(s) == s.do # "unregister" /\ (s.do \in {"list", "send"} => s.kind \in {"state", "other"})

Quits(s) == s.do = "send" /\ s.full \in {"refuse", "report"}

Broadcasts(s, r) == s.do = "list" /\ s.kind = r.kind /\ s.key = r.key

WellFormed(q) ==
  \A i \in 1..Len(q) :
    /\ q[i].do = "remember" /\ q[i].kind # "state" =>
         q[i].told = {} /\ i < Len(q) /\ Broadcasts(q[i + 1], q[i])
    /\ q[i].do = "send" /\ q[i].kind \notin {"state", "other"} =>
         q[i].full \in {"drop", "give up"}
    /\ Quits(q[i]) => \A j \in (i + 1)..Len(q) : Silent(q[j])

Covers(q, kind, key, c) == \E i \in 1..Len(q) : SeesTo(q[i], kind, key, c)

Covered(kind, key, c) == \E t \in Goroutines : Covers(todo[t], kind, key, c)

Programs == \A t \in Goroutines : WellFormed(todo[t])

OwedHere == \A k \in Kinds : owed[k] \subseteq registered

Announced == cut \/ \A k \in Kinds \ {"state"} : \A c \in owed[k] : Covered(k, last[k], c)

AnnounceInv == Inv /\ Programs /\ OwedHere /\ Announced

-----------------------------------------------------------------------------
(* Programs that are put together or lose their first step.                *)

LEMMA ConcatWellFormed ==
  ASSUME NEW p \in Seq(Steps), NEW q \in Seq(Steps), WellFormed(p), WellFormed(q),
         \A i \in 1..Len(p) : ~Quits(p[i])
  PROVE  WellFormed(p \o q)
  <1>1. /\ Len(p) \in Nat /\ Len(q) \in Nat /\ Len(p \o q) = Len(p) + Len(q)
        /\ \A i \in 1..Len(p) + Len(q) :
             (p \o q)[i] = IF i <= Len(p) THEN p[i] ELSE q[i - Len(p)]
    BY ConcatProperties, LenProperties
  <1> DEFINE r == p \o q
  <1> SUFFICES ASSUME NEW i \in 1..Len(r)
               PROVE  /\ r[i].do = "remember" /\ r[i].kind # "state" =>
                           r[i].told = {} /\ i < Len(r) /\ Broadcasts(r[i + 1], r[i])
                      /\ r[i].do = "send" /\ r[i].kind \notin {"state", "other"} =>
                           r[i].full \in {"drop", "give up"}
                      /\ Quits(r[i]) => \A j \in (i + 1)..Len(r) : Silent(r[j])
    BY DEF WellFormed
  <1>2. CASE i <= Len(p)
    <2>1. i \in 1..Len(p) /\ r[i] = p[i]
      BY <1>1, <1>2
    <2>2. i < Len(p) => i < Len(r) /\ r[i + 1] = p[i + 1]
      BY <1>1, <1>2
    <2>. HIDE DEF r
    <2>3. ~Quits(r[i])
      BY <2>1
    <2>4. r[i].do = "remember" /\ r[i].kind # "state" =>
            r[i].told = {} /\ i < Len(r) /\ Broadcasts(r[i + 1], r[i])
      BY <2>1, <2>2 DEF WellFormed
    <2>5. r[i].do = "send" /\ r[i].kind \notin {"state", "other"} =>
            r[i].full \in {"drop", "give up"}
      BY <2>1 DEF WellFormed
    <2>. QED
      BY <2>3, <2>4, <2>5
  <1>3. CASE i > Len(p)
    <2>1. i - Len(p) \in 1..Len(q) /\ r[i] = q[i - Len(p)]
      BY <1>1, <1>3
    <2>2. i - Len(p) < Len(q) => i < Len(r) /\ r[i + 1] = q[(i - Len(p)) + 1]
      BY <1>1, <1>3
    <2>3. ASSUME NEW j \in (i + 1)..Len(r)
          PROVE  j - Len(p) \in ((i - Len(p)) + 1)..Len(q) /\ r[j] = q[j - Len(p)]
      BY <1>1, <1>3
    <2>. HIDE DEF r
    <2>4. Quits(r[i]) => \A j \in (i + 1)..Len(r) : Silent(r[j])
      BY <2>1, <2>3 DEF WellFormed
    <2>5. r[i].do = "remember" /\ r[i].kind # "state" =>
            r[i].told = {} /\ i < Len(r) /\ Broadcasts(r[i + 1], r[i])
      BY <2>1, <2>2 DEF WellFormed
    <2>6. r[i].do = "send" /\ r[i].kind \notin {"state", "other"} =>
            r[i].full \in {"drop", "give up"}
      BY <2>1 DEF WellFormed
    <2>. QED
      BY <2>4, <2>5, <2>6
  <1>4. i <= Len(p) \/ i > Len(p)
    BY <1>1
  <1>. QED
    BY ONLY <1>2, <1>3, <1>4

LEMMA TailAt ==
  ASSUME NEW q \in Seq(Steps), q # <<>>
  PROVE  /\ Len(q) \in Nat /\ Len(q) >= 1 /\ q[1] = Head(q)
         /\ Tail(q) \in Seq(Steps) /\ Len(Tail(q)) = Len(q) - 1
         /\ \A i \in 1..Len(q) - 1 : Tail(q)[i] = q[i + 1]
  OBVIOUS

LEMMA TailWellFormed ==
  ASSUME NEW q \in Seq(Steps), q # <<>>, WellFormed(q)
  PROVE  WellFormed(Tail(q))
  <1> DEFINE r == Tail(q)
  <1>1. /\ Len(q) \in Nat /\ Len(r) = Len(q) - 1
        /\ \A i \in 1..Len(r) : i + 1 \in 1..Len(q) /\ r[i] = q[i + 1]
    BY TailAt
  <1>. HIDE DEF r
  <1> SUFFICES WellFormed(r)
    BY DEF r
  <1> SUFFICES ASSUME NEW i \in 1..Len(r)
               PROVE  /\ r[i].do = "remember" /\ r[i].kind # "state" =>
                           r[i].told = {} /\ i < Len(r) /\ Broadcasts(r[i + 1], r[i])
                      /\ r[i].do = "send" /\ r[i].kind \notin {"state", "other"} =>
                           r[i].full \in {"drop", "give up"}
                      /\ Quits(r[i]) => \A j \in (i + 1)..Len(r) : Silent(r[j])
    BY DEF WellFormed
  <1>2. i + 1 \in 1..Len(q) /\ r[i] = q[i + 1]
    BY <1>1
  <1>3. i + 1 < Len(q) => i < Len(r) /\ r[i + 1] = q[(i + 1) + 1]
    BY <1>1
  <1>4. ASSUME NEW j \in (i + 1)..Len(r)
        PROVE  j + 1 \in ((i + 1) + 1)..Len(q) /\ r[j] = q[j + 1]
    BY <1>1
  <1>5. Quits(r[i]) => \A j \in (i + 1)..Len(r) : Silent(r[j])
    BY <1>2, <1>4 DEF WellFormed
  <1>. QED
    BY <1>2, <1>3, <1>5 DEF WellFormed

LEMMA ConcatCovers ==
  ASSUME NEW p \in Seq(Steps), NEW q \in Seq(Steps), NEW kind, NEW key, NEW c
  PROVE  Covers(p \o q, kind, key, c) <=> Covers(p, kind, key, c) \/ Covers(q, kind, key, c)
  <1>1. /\ Len(p) \in Nat /\ Len(q) \in Nat /\ Len(p \o q) = Len(p) + Len(q)
        /\ \A i \in 1..Len(p) + Len(q) :
             (p \o q)[i] = IF i <= Len(p) THEN p[i] ELSE q[i - Len(p)]
    BY ConcatProperties, LenProperties
  <1>2. ASSUME Covers(p \o q, kind, key, c)
        PROVE  Covers(p, kind, key, c) \/ Covers(q, kind, key, c)
    <2>1. PICK i \in 1..Len(p) + Len(q) : SeesTo((p \o q)[i], kind, key, c)
      BY <1>1, <1>2 DEF Covers
    <2>2. \/ i \in 1..Len(p) /\ (p \o q)[i] = p[i]
          \/ i - Len(p) \in 1..Len(q) /\ (p \o q)[i] = q[i - Len(p)]
      BY <1>1
    <2>. QED
      BY <2>1, <2>2 DEF Covers
  <1>3. ASSUME Covers(p, kind, key, c) PROVE Covers(p \o q, kind, key, c)
    <2>1. PICK i \in 1..Len(p) : SeesTo(p[i], kind, key, c)
      BY <1>3 DEF Covers
    <2>2. i \in 1..Len(p \o q) /\ (p \o q)[i] = p[i]
      BY <1>1
    <2>. QED
      BY <2>1, <2>2 DEF Covers
  <1>4. ASSUME Covers(q, kind, key, c) PROVE Covers(p \o q, kind, key, c)
    <2>1. PICK i \in 1..Len(q) : SeesTo(q[i], kind, key, c)
      BY <1>4 DEF Covers
    <2>2. i + Len(p) \in 1..Len(p \o q) /\ (p \o q)[i + Len(p)] = q[i]
      BY <1>1
    <2>. QED
      BY <2>1, <2>2 DEF Covers
  <1>. QED
    BY <1>2, <1>3, <1>4

LEMMA CoversBehind ==
  ASSUME NEW q \in Seq(Steps), q # <<>>, NEW kind, NEW key, NEW c
  PROVE  Covers(q, kind, key, c) <=>
           SeesTo(Head(q), kind, key, c) \/ Covers(Tail(q), kind, key, c)
  <1>1. ASSUME NEW i \in 1..Len(q), SeesTo(q[i], kind, key, c), i # 1
        PROVE  Covers(Tail(q), kind, key, c)
    <2>1. i - 1 \in 1..Len(Tail(q)) /\ Tail(q)[i - 1] = q[i]
      BY <1>1, TailAt
    <2>. QED
      BY <1>1, <2>1 DEF Covers
  <1>2. ASSUME NEW i \in 1..Len(Tail(q)), SeesTo(Tail(q)[i], kind, key, c)
        PROVE  Covers(q, kind, key, c)
    <2>1. i + 1 \in 1..Len(q) /\ q[i + 1] = Tail(q)[i]
      BY TailAt
    <2>. QED
      BY <1>2, <2>1 DEF Covers
  <1>3. 1 \in 1..Len(q) /\ q[1] = Head(q)
    BY TailAt
  <1>. QED
    BY <1>1, <1>2, <1>3 DEF Covers

-----------------------------------------------------------------------------
(* The programs of the code are well formed.                               *)

\* Programs that keep nothing of what they announce to themselves, and do not quit.
Simple(s) == ~Quits(s) /\ s.do # "remember" /\
             (s.do = "send" => s.kind \in {"state", "other"} \/ s.full \in {"drop", "give up"})

LEMMA SimpleWellFormed ==
  ASSUME NEW q \in Seq(Steps), \A i \in 1..Len(q) : Simple(q[i])
  PROVE  WellFormed(q) /\ \A i \in 1..Len(q) : ~Quits(q[i])
  <1>1. ASSUME NEW i \in 1..Len(q)
        PROVE  /\ ~Quits(q[i]) /\ q[i].do # "remember"
               /\ q[i].do = "send" /\ q[i].kind \notin {"state", "other"} =>
                    q[i].full \in {"drop", "give up"}
    BY DEF Simple
  <1>2. ASSUME NEW i \in 1..Len(q)
        PROVE  /\ q[i].do = "remember" /\ q[i].kind # "state" =>
                    q[i].told = {} /\ i < Len(q) /\ Broadcasts(q[i + 1], q[i])
               /\ q[i].do = "send" /\ q[i].kind \notin {"state", "other"} =>
                    q[i].full \in {"drop", "give up"}
               /\ Quits(q[i]) => \A j \in (i + 1)..Len(q) : Silent(q[j])
    BY <1>1
  <1>3. WellFormed(q)
    BY ONLY <1>2 DEF WellFormed
  <1>. QED
    BY <1>1, <1>3

LEMMA OneSimple ==
  ASSUME NEW s \in Steps, Simple(s)
  PROVE  /\ <<s>> \in Seq(Steps) /\ WellFormed(<<s>>)
         /\ \A i \in 1..Len(<<s>>) : ~Quits(<<s>>[i])
  <1>1. <<s>> \in Seq(Steps) /\ \A i \in 1..Len(<<s>>) : Simple(<<s>>[i])
    OBVIOUS
  <1>. QED
    BY <1>1, SimpleWellFormed

LEMMA NoneWellFormed ==
  /\ <<>> \in Seq(Steps) /\ WellFormed(<<>>)
  /\ \A i \in 1..Len(<<>>) : ~Quits(<<>>[i])
  BY DEF WellFormed

LEMMA AnnounceWellFormed ==
  ASSUME NEW kind \in Kinds, NEW key \in Nat
  PROVE  /\ WellFormed(Announce(kind, key))
         /\ \A i \in 1..Len(Announce(kind, key)) : ~Quits(Announce(kind, key)[i])
         /\ \A c : Covers(Announce(kind, key), kind, key, c)
  <1> DEFINE a == Remember(kind, key, {})
             b == List(kind, key, IF kind = "presented" THEN "give up" ELSE "drop")
  <1>1. a.do = "remember" /\ a.told = {} /\ Broadcasts(b, a) /\ b.do = "list"
        /\ b.kind = kind /\ b.key = key
    BY DEF Remember, List, Broadcasts
  <1>2. ~Quits(a) /\ ~Quits(b)
    BY <1>1 DEF Quits
  <1>3. Announce(kind, key) = <<a, b>>
    BY DEF Announce
  <1>. HIDE DEF a, b
  <1>4. Len(<<a, b>>) = 2 /\ <<a, b>>[1] = a /\ <<a, b>>[2] = b
    OBVIOUS
  <1> DEFINE q == <<a, b>>
  <1>. HIDE DEF q
  <1>5. Len(q) = 2 /\ q[1] = a /\ q[2] = b
    BY <1>4 DEF q
  <1>6. \A i \in 1..Len(q) : i = 1 \/ i = 2
    BY <1>5
  <1>7. WellFormed(q) /\ \A i \in 1..Len(q) : ~Quits(q[i])
    <2>1. ASSUME NEW i \in 1..Len(q) PROVE ~Quits(q[i])
      BY <1>2, <1>5, <1>6
    <2>2. ASSUME NEW i \in 1..Len(q), q[i].do = "remember"
          PROVE  q[i].told = {} /\ i < Len(q) /\ Broadcasts(q[i + 1], q[i])
      <3>1. i = 1
        BY <1>1, <1>5, <1>6, <2>2
      <3>. QED
        BY <1>1, <1>5, <3>1
    <2>3. ASSUME NEW i \in 1..Len(q) PROVE q[i].do # "send"
      BY <1>1, <1>5, <1>6
    <2>. QED
      BY <2>1, <2>2, <2>3 DEF WellFormed
  <1>8. \A c : Covers(q, kind, key, c)
    BY <1>1, <1>5 DEF Covers, SeesTo
  <1>. QED
    BY <1>3, <1>7, <1>8 DEF q

\* What is not an event of a phase.
LEMMA OtherSimple ==
  ASSUME NEW key, NEW to, NEW c
  PROVE  /\ Simple(Broadcast("other", key)) /\ Simple(Unregister(c))
         /\ Simple([do |-> "pump", client |-> c]) /\ Simple([do |-> "register", client |-> c])
         /\ \A kind : Simple(Once(kind, key)) /\ Simple(Broadcast(kind, key))
         /\ \A kind : Simple(Send(kind, key, to, "drop")) /\ Simple(Send(kind, key, to, "give up"))
         /\ Simple(Send("state", key, to, "skip")) /\ Simple(Send("other", key, to, "skip"))
  BY DEF Simple, Quits, Broadcast, List, Unregister, Once, Send

LEMMA DerivedWellFormed ==
  ASSUME NEW v \in 0..MaxVersion
  PROVE  /\ Derived(v) \in Seq(Steps) /\ WellFormed(Derived(v))
         /\ \A i \in 1..Len(Derived(v)) : ~Quits(Derived(v)[i])
  <1>1. Derived(v) \in Seq(Steps)
    BY DerivedPlain, SeqMonotonic DEF Plain
  <1> DEFINE x == Once("phase", PhaseOf[v])
             y == Once("presented", PhaseOf[v])
             z == Broadcast("other", 0)
             w == Once("revealed", PhaseOf[v])
  <1>2. Simple(x) /\ Simple(y) /\ Simple(z) /\ Simple(w)
    BY OtherSimple
  <1>3. Derived(v) \in {<<>>, <<x>>, <<x, w>>, <<x, y, z>>}
    <2>1. \/ ~ThreeLies
          \/ ThreeLies /\ PhaseOf[v] \in Presenting
          \/ ThreeLies /\ PhaseOf[v] \in Revealing /\ PhaseOf[v] \notin Presenting
          \/ ThreeLies /\ PhaseOf[v] \notin Presenting \cup Revealing
      BY HubLimitsAssumption
    <2>. HIDE DEF x, y, z, w
    <2>. QED
      BY <2>1, HubLimitsAssumption DEF Derived, x, y, z, w
  <1>. HIDE DEF x, y, z, w
  <1>4. ASSUME NEW q \in {<<>>, <<x>>, <<x, w>>, <<x, y, z>>}, NEW i \in 1..Len(q)
        PROVE  Simple(q[i])
    <2>1. CASE q = <<>>
      BY <2>1
    <2>2. CASE q = <<x>>
      BY <1>2, <2>2
    <2>3. CASE q = <<x, w>>
      BY <1>2, <2>3
    <2>4. CASE q = <<x, y, z>>
      BY <1>2, <2>4
    <2>. QED
      BY <2>1, <2>2, <2>3, <2>4
  <1>5. \A i \in 1..Len(Derived(v)) : Simple(Derived(v)[i])
    BY <1>3, <1>4
  <1>. QED
    BY <1>1, <1>5, SimpleWellFormed

LEMMA SharingWellFormed ==
  ASSUME HubTypeOK, NEW force \in BOOLEAN
  PROVE  Sharing(force) \in Seq(Steps) /\ WellFormed(Sharing(force))
  <1>1. version \in 0..MaxVersion /\ version \in Nat /\ expired \in BOOLEAN
    BY HubLimitsAssumption DEF HubTypeOK
  <1>2. Sharing(force) \in Seq(Steps)
    BY <1>1, SharingPlain, SeqMonotonic DEF Plain
  <1>3. "state" \in Kinds
    BY DEF Kinds
  <1>4. /\ Announce("state", version) \in Seq(Steps) /\ WellFormed(Announce("state", version))
        /\ \A i \in 1..Len(Announce("state", version)) : ~Quits(Announce("state", version)[i])
    BY <1>1, <1>3, AnnouncePlain, AnnounceWellFormed, SeqMonotonic DEF Plain
  <1>5. Derived(version) \in Seq(Steps) /\ WellFormed(Derived(version))
    BY <1>1, DerivedWellFormed
  <1>6. Once("state", version) \in Steps /\ Broadcast("other", 0) \in Steps
    BY <1>1, <1>3 DEF Once, Broadcast, List, Steps
  <1>7. /\ <<Once("state", version)>> \in Seq(Steps) /\ WellFormed(<<Once("state", version)>>)
        /\ \A i \in 1..Len(<<Once("state", version)>>) : ~Quits(<<Once("state", version)>>[i])
        /\ WellFormed(<<Broadcast("other", 0)>>)
    BY <1>6, OneSimple, OtherSimple
  <1>8. WellFormed(Announce("state", version) \o Derived(version))
    BY <1>4, <1>5, ConcatWellFormed
  <1>9. WellFormed(<<Once("state", version)>> \o Derived(version))
    BY <1>5, <1>7, ConcatWellFormed
  <1>. QED
    BY <1>1, <1>2, <1>7, <1>8, <1>9 DEF Sharing

LEMMA ServingWellFormed ==
  ASSUME NEW c \in Clients, NEW v \in Nat
  PROVE  WellFormed(Serving(c, v))
  <1> DEFINE q == Serving(c, v)
  <1>1. /\ Len(q) = 7
        /\ q[1] = [do |-> "register", client |-> c] /\ q[2] = Send("state", v, {c}, "refuse")
        /\ q[3] = Remember("state", v, {c}) /\ q[4] = Send("state", v, {c}, "skip")
        /\ q[5] = Send("other", 0, {c}, "skip") /\ q[6] = Broadcast("other", 0)
        /\ q[7] = [do |-> "pump", client |-> c]
    BY DEF Serving
  <1>. HIDE DEF q
  <1>2. \A i \in 1..Len(q) : i \in {1, 2, 3, 4, 5, 6, 7}
    BY <1>1
  <1>3. /\ Simple(q[1]) /\ Simple(q[4]) /\ Simple(q[5]) /\ Simple(q[6]) /\ Simple(q[7])
    BY <1>1, OtherSimple
  <1>4. /\ q[3].do = "remember" /\ q[3].kind = "state" /\ q[2].do = "send" /\ q[2].kind = "state"
    BY <1>1 DEF Remember, Send
  <1>5. /\ Silent(q[3]) /\ Silent(q[4]) /\ Silent(q[5]) /\ Silent(q[6]) /\ Silent(q[7])
    BY <1>1 DEF Silent, Remember, Send, Broadcast, List
  <1>6. ASSUME NEW i \in 1..Len(q), q[i].do = "remember" PROVE q[i].kind = "state"
    BY <1>2, <1>3, <1>4, <1>6 DEF Simple
  <1>7. ASSUME NEW i \in 1..Len(q), q[i].do = "send", q[i].kind \notin {"state", "other"}
        PROVE  q[i].full \in {"drop", "give up"}
    BY <1>2, <1>3, <1>4, <1>7 DEF Simple
  <1>8. ASSUME NEW i \in 1..Len(q), Quits(q[i]), NEW j \in (i + 1)..Len(q)
        PROVE  Silent(q[j])
    <2>1. i = 2
      BY <1>2, <1>3, <1>4, <1>8 DEF Simple, Quits
    <2>2. j \in {3, 4, 5, 6, 7}
      BY <1>1, <2>1
    <2>. QED
      BY <1>5, <2>2
  <1>. QED
    BY <1>6, <1>7, <1>8 DEF WellFormed, q

LEMMA SyncingWellFormed ==
  ASSUME NEW c \in Clients, NEW v \in Nat
  PROVE  WellFormed(Syncing(c, v))
  <1> DEFINE q == Syncing(c, v)
  <1>1. /\ Len(q) = 3
        /\ q[1] = Send("state", v, {c}, "report") /\ q[2] = Remember("state", v, {c})
        /\ q[3] = Send("state", v, {c}, "report")
    BY DEF Syncing
  <1>. HIDE DEF q
  <1>2. \A i \in 1..Len(q) : i \in {1, 2, 3}
    BY <1>1
  <1>3. \A i \in {1, 2, 3} : q[i].kind = "state" /\ Silent(q[i])
    BY <1>1 DEF Silent, Remember, Send
  <1>4. \A i \in 1..Len(q) : q[i].kind = "state" /\ \A j \in (i + 1)..Len(q) : Silent(q[j])
    BY <1>1, <1>2, <1>3
  <1>. QED
    BY <1>4 DEF WellFormed, q

LEMMA AnswerWellFormed ==
  ASSUME NEW c \in Clients
  PROVE  /\ WellFormed(<<Send("other", 0, {c}, "report")>>)
         /\ WellFormed(ErrorTo(c)) /\ ErrorTo(c) \in Seq(Steps)
         /\ WellFormed(<<Unregister(c)>>) /\ <<Unregister(c)>> \in Seq(Steps)
         /\ \A i \in 1..Len(<<Unregister(c)>>) : ~Quits(<<Unregister(c)>>[i])
  <1> DEFINE s == Send("other", 0, {c}, "report")
  <1>1. s.do = "send" /\ s.kind = "other"
    BY DEF Send
  <1>. HIDE DEF s
  <1>2. WellFormed(<<s>>)
    <2> DEFINE q == <<s>>
    <2>1. Len(q) = 1 /\ q[1] = s
      OBVIOUS
    <2>. HIDE DEF q
    <2>2. \A i \in 1..Len(q) : q[i] = s /\ (i + 1)..Len(q) = {}
      BY <2>1
    <2>. QED
      BY <1>1, <2>2 DEF WellFormed, q
  <1>3. Unregister(c) \in Steps /\ Send("other", 0, {c}, "skip") \in Steps
    BY DEF Unregister, Send, Steps
  <1>. QED
    BY <1>2, <1>3, OneSimple, OtherSimple DEF s, ErrorTo

-----------------------------------------------------------------------------
(* What a step does to the programs and to those who are owed an event.    *)

LEMMA StepsAhead ==
  ASSUME AnnounceInv, NEW t \in Goroutines
  PROVE  /\ todo[t] \in Seq(Steps) /\ WellFormed(todo[t])
         /\ todo \in [Goroutines -> Seq(Steps)]
  BY DEF AnnounceInv, Inv, HubTypeOK, Programs

LEMMA BecomePrograms ==
  ASSUME AnnounceInv, NEW t \in Goroutines, todo[t] # <<>>, NEW p \in Seq(Steps), Become(t, p),
         WellFormed(p), \A i \in 1..Len(p) : ~Quits(p[i])
  PROVE  Programs'
  <1>1. Tail(todo[t]) \in Seq(Steps) /\ WellFormed(Tail(todo[t]))
    BY StepsAhead, TailAt, TailWellFormed
  <1>2. WellFormed(p \o Tail(todo[t]))
    BY <1>1, ConcatWellFormed
  <1>3. /\ todo'[t] = p \o Tail(todo[t])
        /\ \A u \in Goroutines \ {t} : todo'[u] = todo[u]
    BY StepsAhead DEF Become
  <1>. QED
    BY <1>2, <1>3 DEF Programs, AnnounceInv

LEMMA StartPrograms ==
  ASSUME AnnounceInv, NEW t \in Goroutines, NEW p, todo' = [todo EXCEPT ![t] = p], WellFormed(p)
  PROVE  Programs'
  <1>1. todo'[t] = p /\ \A u \in Goroutines \ {t} : todo'[u] = todo[u]
    BY StepsAhead
  <1>. QED
    BY <1>1 DEF Programs, AnnounceInv

\* A send that has fewer clients left keeps the form of its program.
LEMMA FewerWellFormed ==
  ASSUME NEW q \in Seq(Steps), q # <<>>, WellFormed(q), NEW s \in Steps,
         s.do = "send", Head(q).do = "send", s.kind = Head(q).kind, s.full = Head(q).full
  PROVE  WellFormed(<<s>> \o Tail(q))
  <1> DEFINE r == <<s>> \o Tail(q)
  <1>1. /\ Len(q) \in Nat /\ Len(q) >= 1 /\ q[1] = Head(q)
        /\ Len(r) = Len(q) /\ r[1] = s /\ \A i \in 2..Len(q) : r[i] = q[i]
    <2>1. <<s>> \in Seq(Steps) /\ Len(<<s>>) = 1 /\ <<s>>[1] = s
      OBVIOUS
    <2>2. /\ Len(q) \in Nat /\ Len(q) >= 1 /\ q[1] = Head(q)
          /\ Tail(q) \in Seq(Steps) /\ Len(Tail(q)) = Len(q) - 1
          /\ \A i \in 1..Len(q) - 1 : Tail(q)[i] = q[i + 1]
      BY TailAt
    <2>3. /\ Len(r) = 1 + Len(Tail(q))
          /\ \A i \in 1..1 + Len(Tail(q)) : r[i] = IF i <= 1 THEN <<s>>[i] ELSE Tail(q)[i - 1]
      BY <2>1, <2>2, ConcatProperties
    <2>. HIDE DEF r
    <2>4. ASSUME NEW i \in 2..Len(q) PROVE r[i] = q[i]
      <3>1. i - 1 \in 1..Len(q) - 1 /\ r[i] = Tail(q)[i - 1]
        BY <2>2, <2>3
      <3>2. Tail(q)[i - 1] = q[(i - 1) + 1]
        BY <2>2, <3>1
      <3>. QED
        BY <3>1, <3>2
    <2>. QED
      BY <2>1, <2>2, <2>3, <2>4
  <1>. HIDE DEF r
  <1>2. ASSUME NEW i \in 1..Len(r)
        PROVE  /\ i \in 1..Len(q) /\ (i = 1 \/ r[i] = q[i])
               /\ i < Len(q) => r[i + 1] = q[i + 1]
               /\ \A j \in (i + 1)..Len(r) : j \in (i + 1)..Len(q) /\ r[j] = q[j]
    BY <1>1
  <1>3. ASSUME NEW i \in 1..Len(r), r[i].do = "remember", r[i].kind # "state"
        PROVE  r[i].told = {} /\ i < Len(r) /\ Broadcasts(r[i + 1], r[i])
    <2>1. i \in 1..Len(q) /\ r[i] = q[i]
      BY <1>1, <1>2, <1>3
    <2>. QED
      BY <1>1, <1>2, <1>3, <2>1 DEF WellFormed
  <1>4. ASSUME NEW i \in 1..Len(r), r[i].do = "send", r[i].kind \notin {"state", "other"}
        PROVE  r[i].full \in {"drop", "give up"}
    <2>1. i \in 1..Len(q) /\ q[i].do = "send" /\ q[i].kind = r[i].kind /\ q[i].full = r[i].full
      BY <1>1, <1>2, <1>4
    <2>. QED
      BY <1>4, <2>1 DEF WellFormed
  <1>5. ASSUME NEW i \in 1..Len(r), Quits(r[i]), NEW j \in (i + 1)..Len(r) PROVE Silent(r[j])
    <2>1. i \in 1..Len(q) /\ Quits(q[i])
      BY <1>1, <1>2, <1>5 DEF Quits
    <2>. QED
      BY <1>2, <2>1 DEF WellFormed
  <1>. QED
    BY <1>3, <1>4, <1>5 DEF WellFormed, r

\* Nobody is forgotten if those still owed an event are covered by the goroutine
\* that has taken the step, or were covered by it no better before.
LEMMA AnnouncedKept ==
  ASSUME AnnounceInv, NEW t \in Goroutines, \A u \in Goroutines \ {t} : todo'[u] = todo[u],
         cut => cut',
         \A k \in Kinds \ {"state"} : \A c \in owed'[k] :
           \/ Covers(todo'[t], k, last'[k], c)
           \/ /\ last'[k] = last[k] /\ c \in owed[k]
              /\ Covers(todo[t], k, last[k], c) => Covers(todo'[t], k, last[k], c)
  PROVE  Announced'
  <1> SUFFICES ASSUME ~cut', NEW k \in Kinds \ {"state"}, NEW c \in owed'[k]
               PROVE  Covered(k, last[k], c)'
    BY DEF Announced
  <1>1. CASE Covers(todo'[t], k, last'[k], c)
    BY <1>1 DEF Covered
  <1>2. CASE /\ last'[k] = last[k] /\ c \in owed[k]
             /\ Covers(todo[t], k, last[k], c) => Covers(todo'[t], k, last[k], c)
    <2>1. PICK u \in Goroutines : Covers(todo[u], k, last[k], c)
      BY <1>2 DEF AnnounceInv, Announced, Covered
    <2>2. Covers(todo'[u], k, last'[k], c)
      BY <1>2, <2>1
    <2>. QED
      BY <2>2 DEF Covered
  <1>. QED
    BY <1>1, <1>2

LEMMA BecomeAnnounced ==
  ASSUME AnnounceInv, NEW t \in Goroutines, todo[t] # <<>>, NEW p \in Seq(Steps), Become(t, p),
         cut => cut', last' = last, \A k \in Kinds : owed'[k] \subseteq owed[k],
         \A k \in Kinds \ {"state"} : \A c \in owed'[k] :
           SeesTo(Head(todo[t]), k, last[k], c) => Covers(p, k, last[k], c)
  PROVE  Announced'
  <1>1. /\ todo'[t] = p \o Tail(todo[t])
        /\ \A u \in Goroutines \ {t} : todo'[u] = todo[u]
    BY StepsAhead DEF Become
  <1>2. Tail(todo[t]) \in Seq(Steps) /\ todo[t] \in Seq(Steps)
    BY StepsAhead, TailAt
  <1>3. ASSUME NEW k \in Kinds \ {"state"}, NEW c \in owed'[k], Covers(todo[t], k, last[k], c)
        PROVE  Covers(todo'[t], k, last[k], c)
    <2>1. SeesTo(Head(todo[t]), k, last[k], c) \/ Covers(Tail(todo[t]), k, last[k], c)
      BY <1>2, <1>3, CoversBehind
    <2>2. Covers(p, k, last[k], c) \/ Covers(Tail(todo[t]), k, last[k], c)
      BY <2>1
    <2>3. Covers(p \o Tail(todo[t]), k, last[k], c)
      BY <1>2, <2>2, ConcatCovers
    <2>. QED
      BY <1>1, <2>3
  <1>. QED
    BY <1>1, <1>3, AnnouncedKept

-----------------------------------------------------------------------------
(* The invariant.                                                          *)

LEMMA InitAnnounce == Init => AnnounceInv
  <1> SUFFICES ASSUME Init PROVE AnnounceInv
    OBVIOUS
  <1>1. Programs
    BY NoneWellFormed DEF Init, Programs
  <1>2. OwedHere /\ Announced
    BY DEF Init, OwedHere, Announced
  <1>. QED
    BY <1>1, <1>2, InitInv DEF AnnounceInv

LEMMA OutsideAnnounce ==
  ASSUME AnnounceInv, UNCHANGED <<todo, owed, last, registered, cut>>
  PROVE  Programs' /\ OwedHere' /\ Announced'
  BY DEF AnnounceInv, Programs, OwedHere, Announced, Covered

LEMMA BeginAnnounce ==
  ASSUME AnnounceInv, NEW t \in Goroutines, NEW p, WellFormed(p), Begin(t, p),
         UNCHANGED <<owed, last, registered, cut>>
  PROVE  Programs' /\ OwedHere' /\ Announced'
  <1>1. todo[t] = <<>> /\ todo' = [todo EXCEPT ![t] = p]
    BY DEF Begin, Idle
  <1>2. Programs'
    BY <1>1, StartPrograms
  <1>3. OwedHere'
    BY DEF AnnounceInv, OwedHere
  <1>4. \A u \in Goroutines \ {t} : todo'[u] = todo[u]
    BY <1>1, StepsAhead
  <1>5. \A k, c : ~Covers(todo[t], k, last[k], c)
    BY <1>1 DEF Covers
  <1>6. Announced'
    BY <1>4, <1>5, AnnouncedKept
  <1>. QED
    BY <1>2, <1>3, <1>6

\* The first step of a program is replaced by simple ones.
LEMMA QuietStep ==
  ASSUME AnnounceInv, NEW t \in Goroutines, todo[t] # <<>>, NEW p \in Seq(Steps), Become(t, p),
         WellFormed(p), \A i \in 1..Len(p) : ~Quits(p[i]),
         cut => cut', last' = last, registered \subseteq registered',
         \A k \in Kinds : owed'[k] \subseteq owed[k],
         \A k \in Kinds \ {"state"} : \A c \in owed'[k] :
           SeesTo(Head(todo[t]), k, last[k], c) => Covers(p, k, last[k], c)
  PROVE  Programs' /\ OwedHere' /\ Announced'
  <1>1. Programs'
    BY BecomePrograms
  <1>2. OwedHere'
    BY DEF AnnounceInv, OwedHere
  <1>3. Announced'
    BY BecomeAnnounced
  <1>. QED
    BY <1>1, <1>2, <1>3

LEMMA CoversOne ==
  ASSUME NEW s \in Steps, NEW k, NEW key, NEW c, SeesTo(s, k, key, c)
  PROVE  Covers(<<s>>, k, key, c)
  <1>1. Len(<<s>>) = 1 /\ <<s>>[1] = s
    OBVIOUS
  <1>. QED
    BY <1>1 DEF Covers

LEMMA LookUpAnnounce ==
  ASSUME AnnounceInv, NEW t \in Goroutines, LookUp(t)
  PROVE  Programs' /\ OwedHere' /\ Announced'
  <1> DEFINE s == Head(todo[t])
             p == IF last[s.kind] = s.key THEN <<>> ELSE Announce(s.kind, s.key)
  <1>1. /\ todo[t] # <<>> /\ s.do = "once" /\ Become(t, p)
        /\ UNCHANGED <<owed, last, registered, cut>>
    BY DEF LookUp, Next1, rows
  <1>2. s.kind \in Kinds /\ s.key \in Nat
    BY <1>1, HeadTyped DEF AnnounceInv, Inv
  <1>3. Announce(s.kind, s.key) \in Seq(Steps)
    BY <1>2, AnnouncePlain, SeqMonotonic DEF Plain
  <1>4. p \in Seq(Steps) /\ WellFormed(p) /\ \A i \in 1..Len(p) : ~Quits(p[i])
    BY <1>2, <1>3, AnnounceWellFormed, NoneWellFormed
  <1>5. \A k, c : ~SeesTo(s, k, last[k], c)
    BY <1>1 DEF SeesTo
  <1>. HIDE DEF p
  <1>. QED
    BY <1>1, <1>4, <1>5, QuietStep

LEMMA SetLastAnnounce ==
  ASSUME AnnounceInv, NEW t \in Goroutines, SetLast(t)
  PROVE  Programs' /\ OwedHere' /\ Announced'
  <1> DEFINE s == Head(todo[t])
  <1>1. /\ todo[t] # <<>> /\ s.do = "remember" /\ Become(t, <<>>)
        /\ last' = [last EXCEPT ![s.kind] = s.key]
        /\ owed' = [owed EXCEPT ![s.kind] =
                      (IF s.told = {} \/ last[s.kind] # s.key THEN registered ELSE @) \ s.told]
        /\ UNCHANGED <<registered, cut>>
    BY DEF SetLast, Next1
  <1>2. s.kind \in Kinds /\ s.key \in Nat
    BY <1>1, HeadTyped DEF AnnounceInv, Inv
  <1>3. owed \in [Kinds -> SUBSET Clients] /\ last \in [Kinds -> Nat \cup {None}]
    BY DEF AnnounceInv, Inv, HubTypeOK
  <1>4. Programs'
    BY <1>1, NoneWellFormed, BecomePrograms
  <1>5. OwedHere'
    BY <1>1, <1>2, <1>3 DEF AnnounceInv, OwedHere
  <1>6. /\ todo'[t] = Tail(todo[t])
        /\ \A u \in Goroutines \ {t} : todo'[u] = todo[u]
    <2>1. todo' = [todo EXCEPT ![t] = <<>> \o Tail(todo[t])]
      BY <1>1 DEF Become
    <2>2. <<>> \o Tail(todo[t]) = Tail(todo[t])
      BY <1>1, StepsAhead, TailAt, ConcatEmptySeq
    <2>. QED
      BY <2>1, <2>2, StepsAhead
  <1>7. ASSUME NEW k \in Kinds \ {"state"}, NEW c \in owed'[k]
        PROVE  \/ Covers(todo'[t], k, last'[k], c)
               \/ /\ last'[k] = last[k] /\ c \in owed[k]
                  /\ Covers(todo[t], k, last[k], c) => Covers(todo'[t], k, last[k], c)
    <2>1. CASE k = s.kind
      <3>1. todo[t] \in Seq(Steps) /\ 1 \in 1..Len(todo[t]) /\ todo[t][1] = s
        BY <1>1, StepsAhead, TailAt
      <3>2. 1 < Len(todo[t]) /\ Broadcasts(todo[t][2], s)
        <4>1. \A i \in 1..Len(todo[t]) :
                todo[t][i].do = "remember" /\ todo[t][i].kind # "state" =>
                  i < Len(todo[t]) /\ Broadcasts(todo[t][i + 1], todo[t][i])
          BY StepsAhead DEF WellFormed
        <4>2. 1 < Len(todo[t]) /\ Broadcasts(todo[t][1 + 1], todo[t][1])
          BY <1>1, <2>1, <3>1, <4>1
        <4>3. 1 + 1 = 2
          OBVIOUS
        <4>. QED
          BY <3>1, <4>2, <4>3
      <3>3. 1 \in 1..Len(Tail(todo[t])) /\ Tail(todo[t])[1] = todo[t][2]
        BY <1>1, <3>1, <3>2, TailAt
      <3>4. last'[k] = s.key
        BY <1>1, <1>2, <1>3, <2>1
      <3>5. SeesTo(Tail(todo[t])[1], k, last'[k], c)
        BY <2>1, <3>2, <3>3, <3>4 DEF Broadcasts, SeesTo
      <3>. QED
        BY <1>6, <3>3, <3>5 DEF Covers
    <2>2. CASE k # s.kind
      <3>1. last'[k] = last[k] /\ owed'[k] = owed[k]
        BY <1>1, <1>3, <2>2
      <3>2. ~SeesTo(s, k, last[k], c)
        BY <1>1 DEF SeesTo
      <3>3. Covers(todo[t], k, last[k], c) => Covers(Tail(todo[t]), k, last[k], c)
        BY <1>1, <3>2, StepsAhead, CoversBehind
      <3>. QED
        BY <1>6, <1>7, <3>1, <3>3
    <2>. QED
      BY <2>1, <2>2
  <1>8. Announced'
    BY <1>1, <1>6, <1>7, AnnouncedKept
  <1>. QED
    BY <1>4, <1>5, <1>8

LEMMA ListAnnounce ==
  ASSUME AnnounceInv, NEW t \in Goroutines, ListClients(t)
  PROVE  Programs' /\ OwedHere' /\ Announced'
  <1> DEFINE s == Head(todo[t])
             d == Send(s.kind, s.key, registered, s.full)
             p == IF registered = {} THEN <<>> ELSE <<d>>
  <1>1. /\ todo[t] # <<>> /\ s.do = "list" /\ Become(t, p)
        /\ UNCHANGED <<owed, last, registered, cut>>
    BY DEF ListClients, Next1, rows
  <1>2. /\ s.kind \in Kinds \cup {"other"} /\ s.key \in Nat /\ s.full \in {"drop", "give up"}
        /\ registered \in SUBSET Clients
    BY <1>1, HeadTyped DEF AnnounceInv, Inv, HubTypeOK
  <1>3. d \in Steps /\ Simple(d)
    <2>1. d \in Steps
      BY <1>2 DEF Send, Steps
    <2>2. Simple(d)
      BY <1>2, OtherSimple
    <2>. QED
      BY <2>1, <2>2
  <1>4. p \in Seq(Steps) /\ WellFormed(p) /\ \A i \in 1..Len(p) : ~Quits(p[i])
    <2>. HIDE DEF d
    <2>. QED
      BY <1>3, OneSimple, NoneWellFormed
  <1>5. ASSUME NEW k \in Kinds \ {"state"}, NEW c \in owed'[k], SeesTo(s, k, last[k], c)
        PROVE  Covers(p, k, last[k], c)
    <2>1. c \in registered /\ p = <<d>>
      BY <1>1 DEF AnnounceInv, OwedHere
    <2>2. SeesTo(d, k, last[k], c)
      BY <1>1, <1>5, <2>1 DEF SeesTo, Send
    <2>3. Covers(<<d>>, k, last[k], c)
      BY <1>3, <2>2, CoversOne
    <2>. QED
      BY <2>1, <2>3
  <1>. HIDE DEF p
  <1>. QED
    BY <1>1, <1>4, <1>5, QuietStep

\* What is left of a send once c has been dealt with covers the others.
LEMMA OthersCover ==
  ASSUME NEW s \in Steps, s.do = "send", NEW c \in Clients, NEW d \in Clients, d # c,
         NEW k, NEW key, SeesTo(s, k, key, d)
  PROVE  Covers(Others(s, c), k, key, d)
  <1> DEFINE r == Send(s.kind, s.key, s.to \ {c}, s.full)
  <1>1. s.kind = k /\ s.key = key /\ d \in s.to
    BY DEF SeesTo
  <1>2. r \in Steps
    BY SendTyped DEF Send, Steps
  <1>3. SeesTo(r, k, key, d)
    BY <1>1 DEF SeesTo, Send
  <1>4. Others(s, c) = <<r>>
    BY <1>1 DEF Others
  <1>. HIDE DEF r
  <1>. QED
    BY <1>2, <1>3, <1>4, CoversOne

LEMMA EnqueueAnnounce ==
  ASSUME AnnounceInv, NEW t \in Goroutines, Enqueue(t)
  PROVE  Programs' /\ OwedHere' /\ Announced'
  <1> DEFINE s == Head(todo[t])
  <1>1. /\ todo[t] # <<>> /\ s.do = "send" /\ s \in Steps /\ s.to \in SUBSET Clients
        /\ UNCHANGED <<last, registered, cut>>
    BY HeadTyped DEF Enqueue, Next1, AnnounceInv, Inv
  <1>2. PICK c \in s.to :
          /\ owed' = [k \in Kinds |-> IF k = s.kind /\ last[k] = s.key
                                       THEN owed[k] \ {c} ELSE owed[k]]
          /\ Become(t, Others(s, c))
    BY DEF Enqueue
  <1>3. c \in Clients /\ Others(s, c) \in Seq(Steps)
    BY <1>1, OthersPlain, SeqMonotonic DEF Plain
  <1>4. \A k \in Kinds : owed'[k] \subseteq owed[k]
    BY <1>2
  <1>5. Programs'
    <2>1. CASE s.to = {c}
      BY <1>1, <1>2, <2>1, NoneWellFormed, BecomePrograms DEF Others
    <2>2. CASE s.to # {c}
      <3> DEFINE r == Send(s.kind, s.key, s.to \ {c}, s.full)
      <3>1. r \in Steps /\ r.do = "send" /\ r.kind = s.kind /\ r.full = s.full
        BY <1>1, SendTyped DEF Send, Steps
      <3>2. todo' = [todo EXCEPT ![t] = <<r>> \o Tail(todo[t])]
        BY <1>2, <2>2 DEF Become, Others
      <3>. HIDE DEF r
      <3>3. WellFormed(<<r>> \o Tail(todo[t]))
        BY <1>1, <3>1, StepsAhead, FewerWellFormed
      <3>. QED
        BY <3>2, <3>3, StartPrograms
    <2>. QED
      BY <2>1, <2>2
  <1>6. OwedHere'
    BY <1>1, <1>4 DEF AnnounceInv, OwedHere
  <1>7. ASSUME NEW k \in Kinds \ {"state"}, NEW d \in owed'[k], SeesTo(s, k, last[k], d)
        PROVE  Covers(Others(s, c), k, last[k], d)
    <2>1. s.kind = k /\ s.key = last[k] /\ d \in s.to
      BY <1>1, <1>7 DEF SeesTo
    <2>2. d # c /\ d \in Clients
      BY <1>1, <1>2, <1>7, <2>1
    <2>. QED
      BY <1>1, <1>3, <1>7, <2>2, OthersCover
  <1>8. Announced'
    BY <1>1, <1>2, <1>3, <1>4, <1>7, BecomeAnnounced
  <1>. QED
    BY <1>5, <1>6, <1>8

\* What the form of a program says of its first step.
LEMMA FirstWellFormed ==
  ASSUME NEW q \in Seq(Steps), q # <<>>, WellFormed(q), Head(q).do = "send"
  PROVE  /\ Head(q).kind \notin {"state", "other"} => Head(q).full \in {"drop", "give up"}
         /\ Quits(Head(q)) => \A kind \in Kinds \ {"state"} : \A key, c : ~Covers(q, kind, key, c)
  <1>1. 1 \in 1..Len(q) /\ q[1] = Head(q) /\ Len(q) \in Nat
    BY TailAt
  <1>2. Head(q).kind \notin {"state", "other"} => Head(q).full \in {"drop", "give up"}
    BY <1>1 DEF WellFormed
  <1>3. ASSUME Quits(Head(q)), NEW kind \in Kinds \ {"state"}, NEW key, NEW c, NEW i \in 1..Len(q)
        PROVE  ~SeesTo(q[i], kind, key, c)
    <2>1. kind \notin {"state", "other"}
      BY DEF Kinds
    <2>2. CASE i = 1
      <3>1. Head(q).kind \in {"state", "other"}
        BY <1>2, <1>3 DEF Quits
      <3>. QED
        BY <1>1, <2>1, <2>2, <3>1 DEF SeesTo
    <2>3. CASE i # 1
      <3>1. i \in (1 + 1)..Len(q)
        BY <1>1, <2>3
      <3>2. \A j \in (1 + 1)..Len(q) : Silent(q[j])
        BY <1>1, <1>3 DEF WellFormed
      <3>3. Silent(q[i])
        BY <3>1, <3>2
      <3>. QED
        BY <2>1, <3>3 DEF Silent, SeesTo
    <2>. QED
      BY <2>2, <2>3
  <1>. QED
    BY <1>2, <1>3 DEF Covers

LEMMA OverflowAnnounce ==
  ASSUME AnnounceInv, NEW t \in Goroutines, Overflow(t)
  PROVE  Programs' /\ OwedHere' /\ Announced'
  <1> DEFINE s == Head(todo[t])
  <1>1. /\ todo[t] # <<>> /\ s.do = "send" /\ s \in Steps /\ s.to \in SUBSET Clients
        /\ s.full \in {"drop", "skip", "refuse", "report", "give up"}
        /\ UNCHANGED <<owed, last, registered>>
    BY HeadTyped, SendTyped DEF Overflow, Next1, rows, AnnounceInv, Inv
  <1>2. PICK c \in s.to :
          /\ IF s.full \in {"drop", "skip"}
               THEN Become(t, WhenFull(s, c)) ELSE Turn(t, WhenFull(s, c))
          /\ cut' = (cut \/ s.full = "give up")
    BY DEF Overflow
  <1>3. c \in Clients /\ Others(s, c) \in Seq(Steps)
    <2>1. c \in Clients
      BY <1>1
    <2>2. Others(s, c) \in Seq(Plain) /\ Plain \subseteq Steps
      BY <1>1, <2>1, OthersPlain DEF Plain
    <2>. QED
      BY <2>1, <2>2, SeqMonotonic
  <1>4. /\ s.kind \notin {"state", "other"} => s.full \in {"drop", "give up"}
        /\ Quits(s) => \A k \in Kinds \ {"state"} : \A key, d : ~Covers(todo[t], k, key, d)
    BY <1>1, StepsAhead, FirstWellFormed
  <1>5. OwedHere'
    BY <1>1 DEF AnnounceInv, OwedHere
  <1>6. ASSUME s.full \in {"drop", "skip"}
        PROVE  /\ WellFormed(Others(s, c))
               /\ \A i \in 1..Len(Others(s, c)) : ~Quits(Others(s, c)[i])
    <2>1. CASE s.to = {c}
      BY <2>1, NoneWellFormed DEF Others
    <2>2. CASE s.to # {c}
      <3> DEFINE r == Send(s.kind, s.key, s.to \ {c}, s.full)
      <3>1. r \in Steps
        BY <1>1, SendTyped DEF Send, Steps
      <3>2. Simple(r)
        BY <1>4, <1>6 DEF Simple, Quits, Send
      <3>3. Others(s, c) = <<r>>
        BY <2>2 DEF Others
      <3>. HIDE DEF r
      <3>. QED
        BY <3>1, <3>2, <3>3, OneSimple
    <2>. QED
      BY <2>1, <2>2
  <1>7. CASE s.full = "drop"
    <2> DEFINE p == <<Unregister(c)>> \o Others(s, c)
    <2>1. Become(t, p)
      BY <1>2, <1>7 DEF WhenFull
    <2>2. /\ <<Unregister(c)>> \in Seq(Steps) /\ WellFormed(<<Unregister(c)>>)
          /\ \A i \in 1..Len(<<Unregister(c)>>) : ~Quits(<<Unregister(c)>>[i])
      BY <1>3, AnswerWellFormed
    <2>3. p \in Seq(Steps) /\ WellFormed(p)
      BY <1>3, <1>6, <1>7, <2>2, ConcatProperties, ConcatWellFormed
    <2>4. \A i \in 1..Len(p) : ~Quits(p[i])
      <3>1. /\ Len(p) = Len(<<Unregister(c)>>) + Len(Others(s, c))
            /\ \A i \in 1..Len(<<Unregister(c)>>) + Len(Others(s, c)) :
                 p[i] = IF i <= Len(<<Unregister(c)>>) THEN <<Unregister(c)>>[i]
                        ELSE Others(s, c)[i - Len(<<Unregister(c)>>)]
        BY <1>3, <2>2, ConcatProperties
      <3>2. Len(<<Unregister(c)>>) = 1 /\ Len(Others(s, c)) \in Nat
        BY <1>3
      <3>. HIDE DEF p
      <3>3. ASSUME NEW i \in 1..Len(p) PROVE ~Quits(p[i])
        <4>1. CASE i = 1
          BY <2>2, <3>1, <3>2, <4>1
        <4>2. CASE i # 1
          <5>1. i - 1 \in 1..Len(Others(s, c)) /\ p[i] = Others(s, c)[i - 1]
            BY <3>1, <3>2, <4>2
          <5>. QED
            BY <1>6, <1>7, <5>1
        <4>. QED
          BY <4>1, <4>2
      <3>. QED
        BY <3>3
    <2>5. ASSUME NEW k \in Kinds \ {"state"}, NEW d \in owed'[k], SeesTo(s, k, last[k], d)
          PROVE  Covers(p, k, last[k], d)
      <3>1. d \in Clients
        BY <1>1 DEF AnnounceInv, OwedHere, Inv, HubTypeOK
      <3>2. Covers(<<Unregister(c)>>, k, last[k], d) \/ Covers(Others(s, c), k, last[k], d)
        <4>1. CASE d = c
          <5>1. Unregister(c) \in Steps /\ SeesTo(Unregister(c), k, last[k], d)
            BY <1>3, <4>1 DEF Unregister, Steps, SeesTo
          <5>. QED
            BY <5>1, CoversOne
        <4>2. CASE d # c
          BY <1>1, <1>3, <2>5, <3>1, <4>2, OthersCover
        <4>. QED
          BY <4>1, <4>2
      <3>. QED
        BY <1>3, <2>2, <3>2, ConcatCovers
    <2>6. (cut => cut') /\ registered \subseteq registered' /\ last' = last
          /\ \A k \in Kinds : owed'[k] \subseteq owed[k]
      BY <1>1, <1>2
    <2>. HIDE DEF p
    <2>. QED
      BY <1>1, <2>1, <2>3, <2>4, <2>5, <2>6, QuietStep
  <1>8. CASE s.full = "skip"
    <2>1. Become(t, Others(s, c))
      BY <1>2, <1>8 DEF WhenFull
    <2>2. \A k \in Kinds \ {"state"} : \A d : ~SeesTo(s, k, last[k], d)
      BY <1>1, <1>4, <1>8 DEF SeesTo, Kinds
    <2>3. (cut => cut') /\ registered \subseteq registered' /\ last' = last
          /\ \A k \in Kinds : owed'[k] \subseteq owed[k]
      BY <1>1, <1>2
    <2>. QED
      BY <1>1, <1>3, <1>6, <1>8, <2>1, <2>2, <2>3, QuietStep
  <1>9. CASE s.full \in {"refuse", "report", "give up"}
    <2>1. todo' = [todo EXCEPT ![t] = WhenFull(s, c)]
      BY <1>2, <1>9 DEF Turn
    <2>2. WellFormed(WhenFull(s, c))
      BY <1>3, <1>9, AnswerWellFormed, NoneWellFormed DEF WhenFull
    <2>3. Programs'
      BY <2>1, <2>2, StartPrograms
    <2>4. CASE s.full = "give up"
      BY <1>2, <1>5, <2>3, <2>4 DEF Announced
    <2>5. CASE s.full # "give up"
      <3>1. \A k \in Kinds \ {"state"} : \A d : ~Covers(todo[t], k, last[k], d)
        BY <1>1, <1>4, <1>9, <2>5 DEF Quits
      <3>2. \A u \in Goroutines \ {t} : todo'[u] = todo[u]
        BY <2>1, StepsAhead
      <3>3. Announced'
        BY <1>1, <1>2, <3>1, <3>2, AnnouncedKept
      <3>. QED
        BY <1>5, <2>3, <3>3
    <2>. QED
      BY <2>4, <2>5
  <1>. QED
    BY <1>1, <1>7, <1>8, <1>9

LEMMA PanicAnnounce ==
  ASSUME AnnounceInv, NEW t \in Goroutines, Panic(t)
  PROVE  Programs' /\ OwedHere' /\ Announced'
  <1>1. cut' = TRUE /\ UNCHANGED <<owed, registered>>
    BY DEF Panic, rows
  <1>2. OwedHere' /\ Announced'
    BY <1>1 DEF AnnounceInv, OwedHere, Announced
  <1>3. CASE Turn(t, <<>>)
    BY <1>2, <1>3, NoneWellFormed, StartPrograms DEF Turn
  <1>4. CASE UNCHANGED todo
    BY <1>2, <1>4 DEF AnnounceInv, Programs
  <1>. QED
    BY <1>3, <1>4 DEF Panic

\* Steps with a client: to register, to unregister or to start its pumps.
LEMMA ClientStepAnnounce ==
  ASSUME AnnounceInv, NEW t \in Goroutines,
         Register(t) \/ UnregisterClient(t) \/ StartPumps(t)
  PROVE  Programs' /\ OwedHere' /\ Announced'
  <1> DEFINE s == Head(todo[t])
  <1>0. <<>> \in Seq(Steps) /\ WellFormed(<<>>) /\ \A i \in 1..Len(<<>>) : ~Quits(<<>>[i])
    BY NoneWellFormed
  <1>1. CASE Register(t) \/ StartPumps(t)
    <2>1. /\ todo[t] # <<>> /\ s.do \in {"register", "pump"} /\ Become(t, <<>>)
          /\ UNCHANGED <<last, owed, cut>> /\ registered \subseteq registered'
      BY <1>1 DEF Register, StartPumps, Next1
    <2>2. \A k, d : ~SeesTo(s, k, last[k], d)
      BY <2>1 DEF SeesTo
    <2>. QED
      BY <1>0, <2>1, <2>2, QuietStep
  <1>2. CASE UnregisterClient(t)
    <2>1. todo[t] # <<>> /\ s.do = "unregister" /\ UNCHANGED cut
      BY <1>2 DEF UnregisterClient, Next1
    <2>2. CASE /\ ~StillThere(s.client) /\ Become(t, <<>>)
               /\ UNCHANGED <<registered, closes, last, owed>>
      <3>1. ASSUME NEW k \in Kinds \ {"state"}, NEW d \in owed'[k] PROVE ~SeesTo(s, k, last[k], d)
        BY <2>1, <2>2 DEF SeesTo, StillThere, AnnounceInv, OwedHere
      <3>. QED
        BY <1>0, <2>1, <2>2, <3>1, QuietStep
    <2>3. CASE /\ Become(t, <<Broadcast("other", 0)>>)
               /\ registered' = registered \ {s.client}
               /\ last' = IF registered \subseteq {s.client}
                            THEN [k \in Kinds |-> None] ELSE last
               /\ owed' = [k \in Kinds |-> owed[k] \ {s.client}]
      <3> DEFINE b == Broadcast("other", 0)
      <3>1. b \in Steps /\ Simple(b)
        <4>1. b \in Steps
          BY DEF Broadcast, List, Steps
        <4>. QED
          BY <4>1, OtherSimple
      <3>. HIDE DEF b
      <3>2. /\ <<b>> \in Seq(Steps) /\ WellFormed(<<b>>)
            /\ \A i \in 1..Len(<<b>>) : ~Quits(<<b>>[i])
        BY <3>1, OneSimple
      <3>3. Become(t, <<b>>)
        BY <2>3 DEF b
      <3>4. Programs'
        BY <2>1, <3>2, <3>3, BecomePrograms
      <3>5. OwedHere'
        BY <2>3 DEF AnnounceInv, OwedHere
      <3>6. CASE registered \subseteq {s.client}
        <4>1. \A k \in Kinds : owed'[k] = {}
          BY <2>3, <3>6 DEF AnnounceInv, OwedHere
        <4>. QED
          BY <3>4, <3>5, <4>1 DEF Announced
      <3>7. CASE ~(registered \subseteq {s.client})
        <4>1. last' = last /\ \A k \in Kinds : owed'[k] \subseteq owed[k]
          BY <2>3, <3>7
        <4>2. \A k \in Kinds \ {"state"} : \A d \in owed'[k] : ~SeesTo(s, k, last[k], d)
          BY <2>1, <2>3 DEF SeesTo
        <4>3. Announced'
          BY <2>1, <3>2, <3>3, <4>1, <4>2, BecomeAnnounced
        <4>. QED
          BY <3>4, <3>5, <4>3
      <3>. QED
        BY <3>6, <3>7
    <2>. QED
      BY <1>2, <2>2, <2>3 DEF UnregisterClient
  <1>. QED
    BY <1>1, <1>2

LEMMA StepAnnounce ==
  ASSUME AnnounceInv, NEW t \in Goroutines, Step(t)
  PROVE  Programs' /\ OwedHere' /\ Announced'
  BY LookUpAnnounce, SetLastAnnounce, ListAnnounce, EnqueueAnnounce, OverflowAnnounce,
     PanicAnnounce, ClientStepAnnounce DEF Step

LEMMA WorkAnnounce ==
  ASSUME AnnounceInv,
         \/ Tick
         \/ \E r \in Requests : Notify(r)
         \/ \E c \in Clients : Connect(c) \/ Receive(c) \/ HangUp(c)
  PROVE  Programs' /\ OwedHere' /\ Announced'
  <1>0. /\ HubTypeOK /\ version \in Nat
        /\ WellFormed(<<Broadcast("other", 0)>>)
        /\ \A force \in BOOLEAN : WellFormed(Sharing(force))
    <2>1. HubTypeOK /\ version \in Nat
      BY HubLimitsAssumption DEF AnnounceInv, Inv, HubTypeOK
    <2>2. Broadcast("other", 0) \in Steps
      BY DEF Broadcast, List, Steps
    <2>3. WellFormed(<<Broadcast("other", 0)>>)
      BY <2>2, OneSimple, OtherSimple
    <2>4. ASSUME NEW force \in BOOLEAN PROVE WellFormed(Sharing(force))
      BY <2>1, SharingWellFormed
    <2>. QED
      BY <2>1, <2>3, <2>4
  <1>1. CASE Tick
    BY <1>0, <1>1, BeginAnnounce DEF Tick, Goroutines, rows
  <1>2. ASSUME NEW r \in Requests, Notify(r) PROVE Programs' /\ OwedHere' /\ Announced'
    BY <1>0, <1>2, BeginAnnounce DEF Notify, Goroutines, rows
  <1>3. ASSUME NEW c \in Clients, Connect(c) PROVE Programs' /\ OwedHere' /\ Announced'
    BY <1>0, <1>3, ServingWellFormed, BeginAnnounce DEF Connect, Goroutines
  <1>4. ASSUME NEW c \in Clients, Receive(c) PROVE Programs' /\ OwedHere' /\ Announced'
    BY <1>0, <1>4, SyncingWellFormed, AnswerWellFormed, BeginAnnounce DEF Receive, Goroutines, rows
  <1>5. ASSUME NEW c \in Clients, HangUp(c) PROVE Programs' /\ OwedHere' /\ Announced'
    BY <1>5, AnswerWellFormed, BeginAnnounce DEF HangUp, Goroutines
  <1>. QED
    BY <1>1, <1>2, <1>3, <1>4, <1>5

LEMMA NextAnnounce == AnnounceInv /\ [Next]_vars => AnnounceInv'
  <1> SUFFICES ASSUME AnnounceInv, [Next]_vars PROVE AnnounceInv'
    OBVIOUS
  <1>1. Inv'
    BY NextInv DEF AnnounceInv
  <1>2. Programs' /\ OwedHere' /\ Announced'
    <2>1. CASE Change \/ Expire \/ (\E c \in Clients : Write(c) \/ EndWriter(c)) \/ UNCHANGED vars
      BY <2>1, OutsideAnnounce DEF Change, Expire, Write, EndWriter, vars, rows
    <2>2. CASE \/ Tick
               \/ \E r \in Requests : Notify(r)
               \/ \E c \in Clients : Connect(c) \/ Receive(c) \/ HangUp(c)
      BY <2>2, WorkAnnounce
    <2>3. CASE \E t \in Goroutines : Step(t)
      BY <2>3, StepAnnounce
    <2>. QED
      BY <2>1, <2>2, <2>3 DEF Next
  <1>. QED
    BY <1>1, <1>2 DEF AnnounceInv

-----------------------------------------------------------------------------

\* Whoever was in the room when an event of a phase was remembered as announced
\* is sent it, or taken out of the room, or some goroutine has still to do one of
\* the two: nobody is forgotten because two goroutines announce the same event,
\* or because of whose channel is full.  The exceptions are a panic and the
\* presentation that is given up.
THEOREM NobodyForgotten == Spec => []AnnouncedToAll
  <1>1. AnnounceInv => AnnouncedToAll
    <2> SUFFICES ASSUME AnnounceInv, ~cut, NEW k \in Kinds \ {"state"}, NEW c \in owed[k]
                 PROVE  \E t \in Goroutines : \E i \in DOMAIN todo[t] :
                          SeesTo(todo[t][i], k, last[k], c)
      BY DEF AnnouncedToAll
    <2>1. PICK t \in Goroutines : Covers(todo[t], k, last[k], c)
      BY DEF AnnounceInv, Announced, Covered
    <2>2. DOMAIN todo[t] = 1..Len(todo[t])
      BY StepsAhead, LenProperties
    <2>. QED
      BY <2>1, <2>2 DEF Covers
  <1>2. Spec => []AnnounceInv
    BY InitAnnounce, NextAnnounce, PTL DEF Spec
  <1>. QED
    BY <1>1, <1>2, PTL

=============================================================================
