--------------------------- MODULE ClientProofs ---------------------------
(***************************************************************************)
(* Theorems about what runs in a client: ExecutorSession, for any          *)
(* executions, connections, slots and answers that are late, and any       *)
(* number of messages on their way; WaitGroup, for any finite set of       *)
(* guards; and JobHandle, for any number of executions of the job.         *)
(*                                                                         *)
(* Argument for ExecutorSession: what the server holds of an execution and *)
(* what the executor does with it are related by the messages between      *)
(* them, in their order (SidesMatch).  A run that is not to be cancelled   *)
(* has its acceptance on the way, or the server counts on it (RunIsKnown). *)
(* Unless answers are late, nothing is on the way that would let the       *)
(* executor drop an offer the server waits for (OfferStands), and what it  *)
(* has accepted runs until its result is on the way (AcceptedLives).  That *)
(* the connections before the current one are down (LinksFollowMain), and  *)
(* that all connections share the slots (SlotBound), needs no message.     *)
(*                                                                         *)
(* Argument for WaitGroup: NoLostWakeup is not inductive alone.  The       *)
(* waiter may only go to sleep after it has seen a guard, with the mutex   *)
(* held from the check to the registration (Mutex); and while a guard is   *)
(* left the waker stays registered (Awake), so that dropping the last one  *)
(* finds it.                                                               *)
(*                                                                         *)
(* Argument for JobHandle: what has ended stays as it is or is deleted     *)
(* (JobEnds), so whoever has seen the end has seen the last execution; and *)
(* who caches holds on to it before taking the result (EndIsSeen).         *)
(***************************************************************************)
EXTENDS ExecutorSession, WaitGroup, JobHandle, FiniteSetTheorems, SequenceTheorems, TLAPS

-----------------------------------------------------------------------------
(* The invariant of the session *)

Messages ==
  {[type |-> "properties"], [type |-> "capabilities"]}
    \cup {Ready(x) : x \in Executions} \cup {Cancelled(x) : x \in Executions}
    \cup {Accepted(x) : x \in Executions} \cup {Rejected(x) : x \in Executions}
    \cup {Result(x) : x \in Executions}

\* m is followed by n somewhere in s.
Followed(s, m, n) == \E i, j \in DOMAIN s : i < j /\ s[i] = m /\ s[j] = n

\* Whatever is m in s is followed by n.
AlwaysFollowed(s, m, n) == \A i \in DOMAIN s : s[i] = m => \E j \in DOMAIN s : i < j /\ s[j] = n

\* The executor reads what it gets over c, and is heard.
Talks(c) == link[c] = "up" /\ main # "stopping"

SessionTyped ==
  /\ SessionTypeOK
  /\ cancelled \in [Conns -> SUBSET Executions]
  /\ toClient \in [Conns -> Seq(Messages)] /\ toServer \in [Conns -> Seq(Messages)]

\* Only the current connection is up, and its loop runs; nothing has happened on a
\* connection that was not accepted yet.
LinksFollowMain ==
  /\ main \in {"connecting", "connected"} => loop[cur] = "running"
  /\ \A c \in Conns :
       /\ link[c] = "up" => c = cur /\ main \in {"connected", "stopping"}
       /\ pool[c] = "none" => /\ toClient[c] = <<>> /\ toServer[c] = <<>>
                              /\ \A x \in Executions : run[c][x] = "none"

\* No cancellation of x has reached the executor, or is going to.
Uncancelled(c, x) == x \notin cancelled[c] /\ ~InTransit(toClient[c], Cancelled(x))

\* x runs for the server as far as the executor knows, now and later.
Alive(c, x) == run[c][x] = "handling" /\ Uncancelled(c, x)

\* Of an execution that runs the acceptance is last, and once that has arrived
\* the server counts on the execution or has cancelled it.
RunIsKnown(c, x) ==
  Talks(c) /\ run[c][x] = "handling" =>
    /\ AlwaysFollowed(toServer[c], Result(x), Accepted(x))
    /\ Uncancelled(c, x) /\ ~InTransit(toServer[c], Accepted(x)) => held[c][x] = "accepted"

\* An offer without an answer is not cancelled behind the server's back.
OfferStands(c, x) ==
  Talks(c) /\ held[c][x] = "offered" =>
    /\ ~Followed(toClient[c], Ready(x), Cancelled(x))
    /\ run[c][x] \in {"spawned", "admitting"} => Uncancelled(c, x)
    /\ InTransit(toServer[c], Accepted(x)) => Alive(c, x) \/ InTransit(toServer[c], Result(x))

\* What the server counts on runs, or its result is on its way.
AcceptedLives(c, x) ==
  Talks(c) /\ held[c][x] = "accepted" => Alive(c, x) \/ InTransit(toServer[c], Result(x))

SidesMatch(c, x) == RunIsKnown(c, x) /\ (x \notin Late => OfferStands(c, x) /\ AcceptedLives(c, x))

SlotBound == Cardinality(Slots) <= MaxSlots

SessionInv ==
  /\ SessionTyped /\ LinksFollowMain /\ SlotBound
  /\ \A c \in Conns, x \in Executions : SidesMatch(c, x)

-----------------------------------------------------------------------------
(* Messages and channels *)

LEMMA MessageTypes ==
  ASSUME NEW m \in Messages
  PROVE  /\ m.type = "ready" => m.x \in Executions /\ m = Ready(m.x)
         /\ m.type = "cancelled" => m.x \in Executions /\ m = Cancelled(m.x)
         /\ m.type = "accepted" => m.x \in Executions /\ m = Accepted(m.x)
         /\ m.type = "rejected" => m.x \in Executions /\ m = Rejected(m.x)
         /\ m.type = "result" => m.x \in Executions /\ m = Result(m.x)
BY DEF Messages, Ready, Cancelled, Accepted, Rejected, Result

LEMMA MessagesDiffer ==
  ASSUME NEW x, NEW y
  PROVE  /\ Ready(x) = Ready(y) => x = y
         /\ Cancelled(x) = Cancelled(y) => x = y
         /\ Accepted(x) = Accepted(y) => x = y
         /\ Result(x) = Result(y) => x = y
         /\ Ready(x) # Cancelled(y)
         /\ Accepted(x) # Result(y) /\ Accepted(x) # Rejected(y) /\ Result(x) # Rejected(y)
         /\ [type |-> "properties"] # Ready(x) /\ [type |-> "properties"] # Cancelled(x)
         /\ [type |-> "capabilities"] # Accepted(x) /\ [type |-> "capabilities"] # Result(x)
BY DEF Ready, Cancelled, Accepted, Rejected, Result

LEMMA MessagesOf ==
  /\ \A x \in Executions :
       /\ Ready(x) \in Messages /\ Cancelled(x) \in Messages /\ Accepted(x) \in Messages
       /\ Rejected(x) \in Messages /\ Result(x) \in Messages
  /\ [type |-> "properties"] \in Messages /\ [type |-> "capabilities"] \in Messages
BY DEF Messages

\* A message is appended.
LEMMA Appended ==
  ASSUME NEW s \in Seq(Messages), NEW m \in Messages, NEW a, NEW b
  PROVE  /\ Append(s, m) \in Seq(Messages)
         /\ InTransit(Append(s, m), a) <=> InTransit(s, a) \/ m = a
         /\ AlwaysFollowed(s, a, b) /\ m # a => AlwaysFollowed(Append(s, m), a, b)
         /\ m = b /\ a # b => AlwaysFollowed(Append(s, m), a, b)
         /\ Followed(Append(s, m), a, b) => Followed(s, a, b) \/ (InTransit(s, a) /\ m = b)
<1> DEFINE t == Append(s, m)
<1>1. /\ t \in Seq(Messages) /\ Len(s) \in Nat
      /\ DOMAIN t = 1..(Len(s) + 1) /\ DOMAIN s = 1..Len(s)
      /\ \A i \in DOMAIN s : t[i] = s[i]
      /\ t[Len(s) + 1] = m
  BY AppendProperties, LenProperties
<1> HIDE DEF t
<1>2. InTransit(t, a) <=> InTransit(s, a) \/ m = a
  BY <1>1 DEF InTransit
<1>3. AlwaysFollowed(s, a, b) /\ m # a => AlwaysFollowed(t, a, b)
  BY <1>1 DEF AlwaysFollowed
<1>4. m = b /\ a # b => AlwaysFollowed(t, a, b)
  BY <1>1 DEF AlwaysFollowed
<1>5. Followed(t, a, b) => Followed(s, a, b) \/ (InTransit(s, a) /\ m = b)
  BY <1>1 DEF Followed, InTransit
<1> QED BY <1>1, <1>2, <1>3, <1>4, <1>5 DEF t

\* The first message is taken.
LEMMA Taken ==
  ASSUME NEW s \in Seq(Messages), s # <<>>, NEW a, NEW b
  PROVE  /\ Tail(s) \in Seq(Messages) /\ Head(s) \in Messages
         /\ InTransit(s, a) <=> InTransit(Tail(s), a) \/ Head(s) = a
         /\ AlwaysFollowed(s, a, b) => AlwaysFollowed(Tail(s), a, b)
         /\ AlwaysFollowed(s, a, b) /\ Head(s) = a => InTransit(Tail(s), b)
         /\ Followed(Tail(s), a, b) => Followed(s, a, b)
         /\ Head(s) = a /\ InTransit(Tail(s), b) => Followed(s, a, b)
<1> DEFINE t == Tail(s)
<1>1. /\ t \in Seq(Messages) /\ Head(s) \in Messages
      /\ Len(s) \in Nat \ {0} /\ DOMAIN t = 1..(Len(s) - 1) /\ DOMAIN s = 1..Len(s)
      /\ \A i \in DOMAIN t : i + 1 \in DOMAIN s /\ t[i] = s[i + 1]
      /\ \A i \in DOMAIN s \ {1} : i - 1 \in DOMAIN t /\ t[i - 1] = s[i]
      /\ 1 \in DOMAIN s /\ s[1] = Head(s)
  <2>1. t \in Seq(Messages) /\ Head(s) \in Messages /\ Len(t) = Len(s) - 1 /\ s[1] = Head(s)
        /\ \A i \in 1..Len(t) : t[i] = s[i + 1]
    BY HeadTailProperties
  <2>2. Len(s) \in Nat \ {0} /\ DOMAIN s = 1..Len(s) /\ DOMAIN t = 1..Len(t)
    BY <2>1, EmptySeq, LenProperties
  <2> QED BY <2>1, <2>2
<1> HIDE DEF t
<1>2. InTransit(s, a) <=> InTransit(t, a) \/ Head(s) = a
  BY <1>1 DEF InTransit
<1>3. AlwaysFollowed(s, a, b) => AlwaysFollowed(t, a, b)
  <2> SUFFICES ASSUME AlwaysFollowed(s, a, b), NEW i \in DOMAIN t, t[i] = a
               PROVE  \E j \in DOMAIN t : i < j /\ t[j] = b
    BY DEF AlwaysFollowed
  <2>1. PICK j \in DOMAIN s : i + 1 < j /\ s[j] = b
    BY <1>1 DEF AlwaysFollowed
  <2> QED BY <1>1, <2>1
<1>4. AlwaysFollowed(s, a, b) /\ Head(s) = a => InTransit(t, b)
  BY <1>1 DEF AlwaysFollowed, InTransit
<1>5. Followed(t, a, b) => Followed(s, a, b)
  <2> SUFFICES ASSUME NEW i \in DOMAIN t, NEW j \in DOMAIN t, i < j, t[i] = a, t[j] = b
               PROVE  Followed(s, a, b)
    BY DEF Followed
  <2> QED BY <1>1, i + 1 < j + 1 DEF Followed
<1>6. Head(s) = a /\ InTransit(t, b) => Followed(s, a, b)
  <2> SUFFICES ASSUME Head(s) = a, NEW j \in DOMAIN t, t[j] = b PROVE Followed(s, a, b)
    BY DEF InTransit
  <2> QED BY <1>1, 1 < j + 1 DEF Followed
<1> QED BY <1>1, <1>2, <1>3, <1>4, <1>5, <1>6 DEF t

\* Several messages are appended.
LEMMA Joined ==
  ASSUME NEW s \in Seq(Messages), NEW t \in Seq(Messages), NEW a, NEW b
  PROVE  /\ s \o t \in Seq(Messages)
         /\ InTransit(s \o t, a) <=> InTransit(s, a) \/ InTransit(t, a)
         /\ Followed(s \o t, a, b) => Followed(s, a, b) \/ InTransit(t, b)
<1> DEFINE u == s \o t
<1>1. /\ u \in Seq(Messages) /\ Len(s) \in Nat /\ Len(t) \in Nat
      /\ DOMAIN s = 1..Len(s) /\ DOMAIN t = 1..Len(t) /\ DOMAIN u = 1..(Len(s) + Len(t))
      /\ \A i \in DOMAIN s : u[i] = s[i]
      /\ \A i \in DOMAIN u : i \notin DOMAIN s => i - Len(s) \in DOMAIN t /\ u[i] = t[i - Len(s)]
      /\ \A i \in DOMAIN t : i + Len(s) \in DOMAIN u /\ u[i + Len(s)] = t[i]
  BY ConcatProperties, LenProperties
<1> HIDE DEF u
<1>2. InTransit(u, a) => InTransit(s, a) \/ InTransit(t, a)
  BY <1>1 DEF InTransit
<1>3. InTransit(s, a) \/ InTransit(t, a) => InTransit(u, a)
  BY <1>1 DEF InTransit
<1>4. Followed(u, a, b) => Followed(s, a, b) \/ InTransit(t, b)
  BY <1>1 DEF Followed, InTransit
<1> QED BY <1>1, <1>2, <1>3, <1>4 DEF u

\* The same, fact by fact.
LEMMA AppendIsSeq ==
  ASSUME NEW s \in Seq(Messages), NEW m \in Messages
  PROVE  Append(s, m) \in Seq(Messages)
BY Appended

LEMMA AppendIn ==
  ASSUME NEW s \in Seq(Messages), NEW m \in Messages, NEW a
  PROVE  InTransit(Append(s, m), a) <=> InTransit(s, a) \/ m = a
BY Appended

LEMMA AppendLast ==
  ASSUME NEW s \in Seq(Messages), NEW m \in Messages, NEW a, a # m
  PROVE  AlwaysFollowed(Append(s, m), a, m)
BY Appended

LEMMA AppendOther ==
  ASSUME NEW s \in Seq(Messages), NEW m \in Messages, NEW a, NEW b, m # a,
         AlwaysFollowed(s, a, b)
  PROVE  AlwaysFollowed(Append(s, m), a, b)
BY Appended

LEMMA TailIsSeq ==
  ASSUME NEW s \in Seq(Messages), s # <<>>
  PROVE  Tail(s) \in Seq(Messages) /\ Head(s) \in Messages
BY Taken

LEMMA TailIn ==
  ASSUME NEW s \in Seq(Messages), s # <<>>, NEW a
  PROVE  InTransit(s, a) <=> InTransit(Tail(s), a) \/ Head(s) = a
BY Taken

LEMMA TailFollowed ==
  ASSUME NEW s \in Seq(Messages), s # <<>>, NEW a, NEW b
  PROVE  /\ Followed(Tail(s), a, b) => Followed(s, a, b)
         /\ Head(s) = a /\ InTransit(Tail(s), b) => Followed(s, a, b)
         /\ AlwaysFollowed(s, a, b) => AlwaysFollowed(Tail(s), a, b)
         /\ AlwaysFollowed(s, a, b) /\ Head(s) = a => InTransit(Tail(s), b)
BY Taken

LEMMA JoinedIn ==
  ASSUME NEW s \in Seq(Messages), NEW t \in Seq(Messages), NEW a
  PROVE  InTransit(s \o t, a) <=> InTransit(s, a) \/ InTransit(t, a)
BY Joined

LEMMA JoinedFollowed ==
  ASSUME NEW s \in Seq(Messages), NEW t \in Seq(Messages), NEW a, NEW b, ~InTransit(t, b)
  PROVE  Followed(s \o t, a, b) => Followed(s, a, b)
BY Joined

LEMMA OneMessage ==
  ASSUME NEW m \in Messages, NEW a
  PROVE  <<m>> \in Seq(Messages) /\ (InTransit(<<m>>, a) <=> m = a)
BY DEF InTransit

-----------------------------------------------------------------------------
(* Slots *)

LEMMA SlotsAreFinite == IsFiniteSet(Slots)
<1>1. IsFiniteSet(Conns)
  BY ClientAssumption, FS_Interval DEF Conns
<1>2. IsFiniteSet(Conns \X Executions)
  BY <1>1, ClientAssumption, FS_Product
<1> QED BY <1>2, FS_Subset DEF Slots

LEMMA MaxSlotsType == MaxSlots \in Nat /\ MaxSlots > 0
BY ClientAssumption DEF MaxSlots

LEMMA SlotsShrink ==
  ASSUME SlotBound, Slots' \subseteq Slots
  PROVE  SlotBound'
<1>1. /\ IsFiniteSet(Slots') /\ Cardinality(Slots') <= Cardinality(Slots)
      /\ Cardinality(Slots) \in Nat /\ Cardinality(Slots') \in Nat
  BY SlotsAreFinite, FS_Subset, FS_CardinalityType
<1>2. MaxSlots' = MaxSlots
  BY DEF MaxSlots
<1> QED BY <1>1, <1>2, MaxSlotsType DEF SlotBound

LEMMA SlotsGrow ==
  ASSUME Cardinality(Slots) < MaxSlots, NEW r, Slots' \subseteq Slots \cup {r}
  PROVE  SlotBound'
<1>1. /\ IsFiniteSet(Slots \cup {r}) /\ Cardinality(Slots) \in Nat
      /\ Cardinality(Slots \cup {r}) <= Cardinality(Slots) + 1
      /\ Cardinality(Slots \cup {r}) \in Nat
  BY SlotsAreFinite, FS_AddElement, FS_CardinalityType
<1>2. Cardinality(Slots') <= Cardinality(Slots \cup {r}) /\ Cardinality(Slots') \in Nat
  BY <1>1, FS_Subset, FS_CardinalityType
<1>3. MaxSlots' = MaxSlots
  BY DEF MaxSlots
<1> QED BY <1>1, <1>2, <1>3, MaxSlotsType DEF SlotBound

-----------------------------------------------------------------------------
(* The initial state, and what a step leaves alone *)

THEOREM SessionInitInv == SessionInit => SessionInv
<1> SUFFICES ASSUME SessionInit PROVE SessionInv
  OBVIOUS
<1> USE DEF SessionInit, ClientInit
<1>1. 1 \in Conns
  BY ClientAssumption DEF Conns
<1>2. Slots = {}
  BY DEF Slots
<1>3. SlotBound
  BY <1>2, FS_EmptySet, MaxSlotsType DEF SlotBound
<1>4. SessionTyped
  <2>1. <<>> \in Seq(Messages)
    OBVIOUS
  <2>2. \A c \in Conns : ActiveExecutions(c) = {}
    BY DEF ActiveExecutions
  <2> QED BY <1>1, <2>1, <2>2 DEF SessionTyped, SessionTypeOK, RunStates
<1>5. LinksFollowMain
  BY <1>1 DEF LinksFollowMain
<1>6. \A c \in Conns, x \in Executions : SidesMatch(c, x)
  BY DEF SidesMatch, RunIsKnown, OfferStands, AcceptedLives, Talks
<1> QED BY <1>3, <1>4, <1>5, <1>6 DEF SessionInv

\* A step that talks to nobody new and leaves x on c alone.
LEMMA Untouched ==
  ASSUME NEW c \in Conns, NEW x \in Executions, SidesMatch(c, x),
         Talks(c)' => Talks(c),
         run[c][x]' = run[c][x], held[c][x]' = held[c][x],
         x \in cancelled'[c] <=> x \in cancelled[c],
         toClient'[c] = toClient[c], toServer'[c] = toServer[c]
  PROVE  SidesMatch(c, x)'
BY DEF SidesMatch, RunIsKnown, OfferStands, AcceptedLives, Alive, Uncancelled

\* Nothing matters on a connection that does not talk.
LEMMA Silent ==
  ASSUME NEW c \in Conns, NEW x \in Executions, ~Talks(c)'
  PROVE  SidesMatch(c, x)'
BY DEF SidesMatch, RunIsKnown, OfferStands, AcceptedLives

-----------------------------------------------------------------------------
(* The steps of the main loop, and of the network *)

LEMMA ConnectStep ==
  ASSUME SessionInv, Connect
  PROVE  SessionInv'
<1> USE DEF SessionInv, SessionTyped, SessionTypeOK
<1>1. /\ toClient' = [toClient EXCEPT ![cur] = @ \o <<[type |-> "properties"]>>]
      /\ loop[cur] = "running"
  BY DEF Connect, Tell, LinksFollowMain
<1>2. /\ toClient[cur] = <<>> /\ toServer[cur] = <<>>
      /\ \A x \in Executions : run[cur][x] = "none" /\ held[cur][x] = "none"
  BY DEF Connect, LinksFollowMain
<1>3. <<[type |-> "properties"]>> \in Seq(Messages)
  BY MessagesOf
<1>4. toClient' \in [Conns -> Seq(Messages)]
  BY <1>1, <1>3, Joined
<1>5. SessionTyped'
  <2>1. \A c \in Conns : cancelled'[c] \subseteq ActiveExecutions(c)'
    BY DEF Connect, ActiveExecutions
  <2>2. \A c \in Conns, x \in Executions : held'[c][x] # "none" =>
          /\ pool'[c] = "ready"
          /\ held'[c][x] = "offered" => x \in pending'
          /\ \A d \in Conns \ {c} : held'[d][x] = "none"
    BY DEF Connect
  <2> QED BY <1>4, <2>1, <2>2 DEF Connect
<1>6. LinksFollowMain'
  BY <1>1 DEF Connect, LinksFollowMain
<1>7. SlotBound'
  BY SlotsShrink DEF Connect, Slots
<1>8. ASSUME NEW c \in Conns, NEW x \in Executions PROVE SidesMatch(c, x)'
  <2>1. CASE c = cur
    BY <1>2, <2>1 DEF Connect, SidesMatch, RunIsKnown, OfferStands, AcceptedLives
  <2>2. CASE c # cur
    BY <1>1, <2>2, Untouched DEF Connect, Talks
  <2> QED BY <2>1, <2>2
<1> QED BY <1>5, <1>6, <1>7, <1>8

LEMMA MainStep ==
  ASSUME SessionInv, Main \/ AskToStop, UNCHANGED <<pool, held, pending>>
  PROVE  SessionInv'
<1> USE DEF SessionInv, SessionTyped, SessionTypeOK
<1>1. /\ run' = run /\ cancelled' = cancelled /\ toServer' = toServer
      /\ asked' \in BOOLEAN
  BY DEF Main, ConnectionEnds, Reconnect, ShutDown, Stopped, AskToStop
<1>2. /\ toClient' \in [Conns -> Seq(Messages)]
      /\ \A c \in Conns : toClient[c] = <<>> => toClient'[c] = <<>>
  <2>1. CASE ConnectionEnds
    <3>1. PICK n \in 0..Len(toClient[cur]) :
            toClient' = [toClient EXCEPT ![cur] = SubSeq(@, 1, n)]
      BY <2>1 DEF ConnectionEnds
    <3>2. /\ toClient[cur] \in Seq(Messages)
          /\ SubSeq(toClient[cur], 1, n) \in Seq(Messages)
          /\ Len(SubSeq(toClient[cur], 1, n)) = n
      BY <3>1, SubSeqProperties, LenProperties
    <3>3. toClient[cur] = <<>> => SubSeq(toClient[cur], 1, n) = <<>>
      BY <3>1, <3>2, EmptySeq
    <3> QED BY <3>1, <3>2, <3>3
  <2>2. CASE ~ConnectionEnds
    BY <2>2 DEF Main, Reconnect, ShutDown, Stopped, AskToStop
  <2> QED BY <2>1, <2>2
<1>3. SlotBound'
  BY <1>1, SlotsShrink DEF Slots
<1>4. /\ main' \in {"connecting", "connected", "backoff", "stopping", "stopped"}
      /\ cur' \in Conns
      /\ link' \in [Conns -> {"none", "up", "down"}]
      /\ loop' \in [Conns -> {"none", "running", "ended"}]
  <2>1. CASE ConnectionEnds
    BY <2>1 DEF ConnectionEnds
  <2>2. CASE Reconnect
    <3>1. cur + 1 \in Conns
      BY <2>2, ClientAssumption DEF Reconnect, Conns
    <3> QED BY <2>2, <3>1 DEF Reconnect
  <2>3. CASE ShutDown \/ AskToStop
    BY <2>3 DEF ShutDown, AskToStop
  <2>4. CASE Stopped
    BY <2>4 DEF Stopped
  <2> QED BY <2>1, <2>2, <2>3, <2>4 DEF Main
<1>5. SessionTyped'
  BY <1>1, <1>2, <1>4 DEF ActiveExecutions
<1>6. LinksFollowMain'
  <2>1. main' \in {"connecting", "connected"} => loop'[cur'] = "running"
    BY <1>4 DEF LinksFollowMain, Main, ConnectionEnds, Reconnect, ShutDown, Stopped, AskToStop
  <2>2. ASSUME NEW c \in Conns, link'[c] = "up"
        PROVE  c = cur' /\ main' \in {"connected", "stopping"}
    BY <2>2 DEF LinksFollowMain, Main, ConnectionEnds, Reconnect, ShutDown, Stopped, AskToStop
  <2>3. ASSUME NEW c \in Conns, pool[c] = "none"
        PROVE  /\ toClient'[c] = <<>> /\ toServer'[c] = <<>>
               /\ \A x \in Executions : run'[c][x] = "none"
    BY <1>1, <1>2, <2>3 DEF LinksFollowMain
  <2> QED BY <2>1, <2>2, <2>3 DEF LinksFollowMain
<1>7. ASSUME NEW c \in Conns, NEW x \in Executions PROVE SidesMatch(c, x)'
  <2>1. CASE ConnectionEnds
    <3>1. ~Talks(c)'
      BY <2>1 DEF ConnectionEnds, Talks, LinksFollowMain
    <3> QED BY <3>1, Silent
  <2>2. CASE ~ConnectionEnds
    <3>1. toClient' = toClient /\ (Talks(c)' => Talks(c))
      BY <2>2 DEF Main, Reconnect, ShutDown, Stopped, AskToStop, Talks, LinksFollowMain
    <3> QED BY <1>1, <3>1, Untouched
  <2> QED BY <2>1, <2>2
<1> QED BY <1>3, <1>5, <1>6, <1>7

LEMMA BreakStep ==
  ASSUME SessionInv, NEW c \in Conns, Break(c)
  PROVE  SessionInv'
<1> USE DEF SessionInv, SessionTyped, SessionTypeOK, Break
<1>1. SessionTyped'
  BY DEF ActiveExecutions
<1>2. LinksFollowMain'
  BY DEF LinksFollowMain
<1>3. SlotBound'
  BY SlotsShrink DEF Slots
<1>4. ASSUME NEW d \in Conns, NEW x \in Executions PROVE SidesMatch(d, x)'
  BY Untouched DEF Talks
<1> QED BY <1>1, <1>2, <1>3, <1>4

LEMMA DropStep ==
  ASSUME SessionInv, NEW c \in Conns, Drop(c)
  PROVE  SessionInv'
<1> USE DEF SessionInv, SessionTyped, SessionTypeOK, Drop
<1>1. SessionTyped'
  BY DEF ActiveExecutions
<1>2. LinksFollowMain'
  BY DEF LinksFollowMain
<1>3. SlotBound'
  BY SlotsShrink DEF Slots
<1>4. ASSUME NEW d \in Conns, NEW x \in Executions PROVE SidesMatch(d, x)'
  <2>1. CASE d = c
    BY <2>1, Silent DEF Talks
  <2>2. CASE d # c
    BY <2>2, Untouched DEF Talks
  <2> QED BY <2>1, <2>2
<1> QED BY <1>1, <1>2, <1>3, <1>4

-----------------------------------------------------------------------------
(* The steps of the executor's loop and of its executions *)

\* What travels on c is not about x.
LEMMA Elsewhere ==
  ASSUME NEW c \in Conns, NEW x \in Executions, SidesMatch(c, x),
         Talks(c)' => Talks(c),
         run[c][x]' = run[c][x], held[c][x]' = held[c][x],
         x \in cancelled'[c] <=> x \in cancelled[c],
         InTransit(toClient'[c], Cancelled(x)) <=> InTransit(toClient[c], Cancelled(x)),
         Followed(toClient'[c], Ready(x), Cancelled(x)) =>
           Followed(toClient[c], Ready(x), Cancelled(x)),
         InTransit(toServer'[c], Accepted(x)) <=> InTransit(toServer[c], Accepted(x)),
         InTransit(toServer'[c], Result(x)) <=> InTransit(toServer[c], Result(x)),
         AlwaysFollowed(toServer[c], Result(x), Accepted(x)) =>
           AlwaysFollowed(toServer'[c], Result(x), Accepted(x))
  PROVE  SidesMatch(c, x)'
<1>1. Uncancelled(c, x)' <=> Uncancelled(c, x)
  BY DEF Uncancelled
<1>2. RunIsKnown(c, x)'
  BY <1>1 DEF SidesMatch, RunIsKnown
<1>3. ASSUME x \notin Late PROVE OfferStands(c, x)' /\ AcceptedLives(c, x)'
  BY <1>1, <1>3 DEF SidesMatch, OfferStands, AcceptedLives, Alive
<1> QED BY <1>2, <1>3 DEF SidesMatch

\* The executor sends something about one of its executions.
LEMMA SentElsewhere ==
  ASSUME SessionTyped, NEW c \in Conns, NEW x \in Executions, NEW y \in Executions, x # y,
         NEW m \in {Accepted(x), Rejected(x), Result(x), [type |-> "capabilities"]},
         toServer'[c] = toServer[c] \/ toServer'[c] = Append(toServer[c], m)
  PROVE  /\ InTransit(toServer'[c], Accepted(y)) <=> InTransit(toServer[c], Accepted(y))
         /\ InTransit(toServer'[c], Result(y)) <=> InTransit(toServer[c], Result(y))
         /\ AlwaysFollowed(toServer[c], Result(y), Accepted(y)) =>
              AlwaysFollowed(toServer'[c], Result(y), Accepted(y))
<1>1. m \in Messages /\ m # Accepted(y) /\ m # Result(y)
  BY MessagesOf, MessagesDiffer DEF Accepted, Rejected, Result
<1>2. toServer[c] \in Seq(Messages)
  BY DEF SessionTyped
<1>3. CASE toServer'[c] = Append(toServer[c], m)
  <2>1. InTransit(toServer'[c], Accepted(y)) <=> InTransit(toServer[c], Accepted(y))
    BY <1>1, <1>2, <1>3, AppendIn
  <2>2. InTransit(toServer'[c], Result(y)) <=> InTransit(toServer[c], Result(y))
    BY <1>1, <1>2, <1>3, AppendIn
  <2>3. AlwaysFollowed(toServer[c], Result(y), Accepted(y)) =>
          AlwaysFollowed(toServer'[c], Result(y), Accepted(y))
    BY <1>1, <1>2, <1>3, AppendOther
  <2> QED BY <2>1, <2>2, <2>3
<1> QED BY <1>3

LEMMA RunExecutionStep ==
  ASSUME SessionInv, NEW c \in Conns, NEW x \in Executions, RunExecution(c, x),
         UNCHANGED <<pool, held, pending>>
  PROVE  SessionInv'
<1> USE DEF SessionInv, SessionTyped, SessionTypeOK
<1> DEFINE Actions == {"spawned", "admitting", "handling", "leaving"}
<1>1. /\ UNCHANGED <<main, cur, asked, link, loop, toClient>>
      /\ run[c][x] \in Actions
      /\ \E to \in RunStates : run' = [run EXCEPT ![c][x] = to]
      /\ \/ cancelled' = cancelled /\ run'[c][x] # "none"
         \/ cancelled' = [cancelled EXCEPT ![c] = @ \ {x}]
      /\ \/ toServer' = toServer
         \/ \E m \in {Accepted(x), Rejected(x), Result(x)} :
              toServer' = [toServer EXCEPT ![c] = IF link[c] = "up" THEN Append(@, m) ELSE @]
  <2> USE DEF Step, Send, RunStates
  <2>1. CASE Reserve(c, x)
    BY <2>1 DEF Reserve
  <2>2. CASE RejectAtOnce(c, x)
    BY <2>2 DEF RejectAtOnce
  <2>3. CASE Accept(c, x)
    BY <2>3 DEF Accept
  <2>4. CASE Reject(c, x)
    BY <2>4 DEF Reject
  <2>5. CASE GiveUp(c, x)
    BY <2>5 DEF GiveUp
  <2>6. CASE HandlerReturns(c, x)
    BY <2>6 DEF HandlerReturns
  <2>7. CASE DropHandler(c, x)
    BY <2>7 DEF DropHandler
  <2>8. CASE Leave(c, x)
    BY <2>8 DEF Leave
  <2> QED BY <2>1, <2>2, <2>3, <2>4, <2>5, <2>6, <2>7, <2>8 DEF RunExecution
<1>2. PICK m \in {Accepted(x), Rejected(x), Result(x)} :
        \/ toServer' = toServer
        \/ toServer' = [toServer EXCEPT ![c] = IF link[c] = "up" THEN Append(@, m) ELSE @]
  BY <1>1
<1>3. /\ \A d \in Conns, y \in Executions : d # c \/ y # x =>
           run'[d][y] = run[d][y] /\ (y \in cancelled'[d] <=> y \in cancelled[d])
      /\ \A d \in Conns : d # c => toServer'[d] = toServer[d]
      /\ toServer'[c] = toServer[c] \/ toServer'[c] = Append(toServer[c], m)
  BY <1>1, <1>2
<1>4. toServer' \in [Conns -> Seq(Messages)]
  <2>1. m \in Messages
    BY MessagesOf
  <2>2. Append(toServer[c], m) \in Seq(Messages)
    BY <2>1, AppendIsSeq
  <2>3. toServer \in [Conns -> Seq(Messages)]
    OBVIOUS
  <2> HIDE DEF SessionInv, SessionTyped, SessionTypeOK
  <2> QED BY <1>2, <2>2, <2>3
<1>5. run' \in [Conns -> [Executions -> RunStates]] /\ cancelled' \in [Conns -> SUBSET Executions]
  <2>1. run' \in [Conns -> [Executions -> RunStates]]
    <3>1. PICK to \in RunStates : run' = [run EXCEPT ![c][x] = to]
      BY <1>1
    <3> QED BY <3>1
  <2>2. cancelled' \in [Conns -> SUBSET Executions]
    BY <1>1
  <2> QED BY <2>1, <2>2
<1>6. \A d \in Conns : cancelled'[d] \subseteq ActiveExecutions(d)'
  BY <1>1, <1>3, <1>5 DEF ActiveExecutions
<1>7. SessionTyped'
  BY <1>1, <1>4, <1>5, <1>6
<1>8. pool[c] # "none"
  BY <1>1 DEF LinksFollowMain
<1>9. LinksFollowMain'
  BY <1>1, <1>3, <1>8 DEF LinksFollowMain
<1>10. SlotBound'
  <2>1. CASE Reserve(c, x)
    <3>1. Slots' \subseteq Slots \cup {<<c, x>>}
      <4> SUFFICES ASSUME NEW d \in Conns, NEW y \in Executions, <<d, y>> \in Slots', <<d, y>> # <<c, x>>
                   PROVE  <<d, y>> \in Slots
        BY DEF Slots
      <4>1. d # c \/ y # x
        OBVIOUS
      <4>2. run'[d][y] \in {"admitting", "handling", "leaving"}
        BY DEF Slots
      <4> QED BY <1>3, <4>1, <4>2 DEF Slots
    <3> QED BY <2>1, <3>1, SlotsGrow DEF Reserve
  <2>2. CASE ~Reserve(c, x)
    <3>1. run'[c][x] \in {"admitting", "handling", "leaving"} =>
            run[c][x] \in {"admitting", "handling", "leaving"}
      BY <2>2 DEF RunExecution, RejectAtOnce, Accept, Reject, GiveUp, HandlerReturns, DropHandler,
                  Leave, Step
    <3>2. Slots' \subseteq Slots
      <4> SUFFICES ASSUME NEW d \in Conns, NEW y \in Executions,
                          run'[d][y] \in {"admitting", "handling", "leaving"}
                   PROVE  run[d][y] \in {"admitting", "handling", "leaving"}
        BY DEF Slots
      <4>1. CASE d = c /\ y = x
        BY <3>1, <4>1
      <4>2. CASE d # c \/ y # x
        BY <1>3, <4>2
      <4> QED BY <4>1, <4>2
    <3> QED BY <3>2, SlotsShrink
  <2> QED BY <2>1, <2>2
<1>11. ASSUME NEW d \in Conns, NEW y \in Executions, d # c \/ y # x PROVE SidesMatch(d, y)'
  <2>1. CASE d # c
    BY <1>1, <1>3, <2>1, Untouched DEF Talks
  <2>2. CASE d = c
    BY <1>1, <1>3, <1>11, <2>2, SentElsewhere, Elsewhere DEF Talks
  <2> QED BY <2>1, <2>2
<1>12. SidesMatch(c, x)'
  <2> SUFFICES ASSUME Talks(c)' PROVE SidesMatch(c, x)'
    BY Silent
  <2> DEFINE s == toServer[c]
  <2>0. /\ s \in Seq(Messages) /\ Talks(c) /\ link[c] = "up" /\ SidesMatch(c, x)
        /\ Accepted(x) \in Messages /\ Rejected(x) \in Messages /\ Result(x) \in Messages
        /\ Accepted(x) # Result(x) /\ Accepted(x) # Rejected(x) /\ Result(x) # Rejected(x)
    BY <1>1, MessagesOf, MessagesDiffer DEF Talks
  <2>1. CASE Reserve(c, x)
    BY <2>0, <2>1 DEF Reserve, Step, SidesMatch, RunIsKnown, OfferStands, AcceptedLives, Alive, Uncancelled
  <2>2. CASE RejectAtOnce(c, x) \/ Reject(c, x)
    <3>1. /\ toServer'[c] = Append(s, Rejected(x)) /\ run'[c][x] \in {"none", "leaving"}
          /\ run[c][x] \in {"spawned", "admitting"}
      BY <2>0, <2>2 DEF RejectAtOnce, Reject, Step, Send
    <3>2. /\ InTransit(toServer'[c], Accepted(x)) <=> InTransit(s, Accepted(x))
          /\ InTransit(toServer'[c], Result(x)) <=> InTransit(s, Result(x))
      BY <2>0, <3>1, AppendIn
    <3> QED BY <1>1, <2>0, <3>1, <3>2
            DEF SidesMatch, RunIsKnown, OfferStands, AcceptedLives, Alive
  <2>3. CASE Accept(c, x)
    <3>1. /\ toServer'[c] = Append(s, Accepted(x)) /\ run'[c][x] = "handling"
          /\ run[c][x] = "admitting" /\ cancelled' = cancelled
      BY <2>0, <2>3 DEF Accept, Step, Send
    <3>2. /\ InTransit(toServer'[c], Accepted(x))
          /\ InTransit(toServer'[c], Result(x)) <=> InTransit(s, Result(x))
          /\ AlwaysFollowed(toServer'[c], Result(x), Accepted(x))
      BY <2>0, <3>1, AppendIn, AppendLast
    <3> QED BY <1>1, <2>0, <3>1, <3>2
            DEF SidesMatch, RunIsKnown, OfferStands, AcceptedLives, Alive, Uncancelled
  <2>4. CASE HandlerReturns(c, x)
    <3>1. toServer'[c] = Append(s, Result(x)) /\ run'[c][x] = "leaving"
      BY <2>0, <2>4 DEF HandlerReturns, Step, Send
    <3>2. InTransit(toServer'[c], Result(x))
      BY <2>0, <3>1, AppendIn
    <3> QED BY <1>1, <2>0, <3>1, <3>2 DEF SidesMatch, RunIsKnown, OfferStands, AcceptedLives
  <2>5. CASE GiveUp(c, x)
    <3>1. /\ run[c][x] = "admitting" /\ run'[c][x] = "leaving" /\ toServer' = toServer
      BY <2>5 DEF GiveUp, Step
    <3> QED BY <1>1, <2>0, <3>1 DEF SidesMatch, RunIsKnown, OfferStands, AcceptedLives, Alive
  <2>6. CASE DropHandler(c, x)
    <3>1. /\ run'[c][x] = "leaving" /\ toServer' = toServer /\ ~Uncancelled(c, x)
      BY <2>6 DEF DropHandler, Step, Uncancelled
    <3> QED BY <1>1, <2>0, <3>1 DEF SidesMatch, RunIsKnown, OfferStands, AcceptedLives, Alive
  <2>7. CASE Leave(c, x)
    <3>1. /\ run[c][x] = "leaving" /\ run'[c][x] = "none" /\ toServer' = toServer
      BY <2>7 DEF Leave
    <3> QED BY <1>1, <2>0, <3>1 DEF SidesMatch, RunIsKnown, OfferStands, AcceptedLives, Alive
  <2> QED BY <2>1, <2>2, <2>3, <2>4, <2>5, <2>6, <2>7 DEF RunExecution
<1> QED BY <1>7, <1>9, <1>10, <1>11, <1>12

\* The executor's loop reads a message and sends another one, which is no answer
\* the server waits for.
LEMMA ReplyStep ==
  ASSUME SessionInv, NEW c \in Conns, NEW m \in Messages,
         \A y \in Executions : m # Accepted(y) /\ m # Result(y),
         UNCHANGED <<main, cur, asked, link, loop, pool, held, pending, run, cancelled>>,
         Send(c, m), pool[c] # "none",
         toClient' \in [Conns -> Seq(Messages)],
         \A d \in Conns : d # c => toClient'[d] = toClient[d],
         \A x \in Executions :
           /\ InTransit(toClient'[c], Cancelled(x)) <=> InTransit(toClient[c], Cancelled(x))
           /\ Followed(toClient'[c], Ready(x), Cancelled(x)) =>
                Followed(toClient[c], Ready(x), Cancelled(x))
  PROVE  SessionInv'
<1> USE DEF SessionInv, SessionTyped, SessionTypeOK
<1>1. toServer[c] \in Seq(Messages) /\ Append(toServer[c], m) \in Seq(Messages)
  BY AppendIsSeq
<1>2. /\ toServer' \in [Conns -> Seq(Messages)]
      /\ \A d \in Conns : d # c => toServer'[d] = toServer[d]
      /\ toServer'[c] = toServer[c] \/ toServer'[c] = Append(toServer[c], m)
  BY <1>1 DEF Send
<1>3. SessionTyped'
  BY <1>2 DEF ActiveExecutions
<1>4. LinksFollowMain'
  BY <1>2 DEF LinksFollowMain
<1>5. SlotBound'
  BY SlotsShrink DEF Slots
<1>6. ASSUME NEW d \in Conns, NEW y \in Executions PROVE SidesMatch(d, y)'
  <2>1. CASE d # c
    BY <1>2, <2>1, Untouched DEF Talks
  <2>2. CASE d = c /\ toServer'[c] = Append(toServer[c], m)
    <3>1. InTransit(toServer'[c], Accepted(y)) <=> InTransit(toServer[c], Accepted(y))
      BY <1>1, <2>2, AppendIn
    <3>2. InTransit(toServer'[c], Result(y)) <=> InTransit(toServer[c], Result(y))
      BY <1>1, <2>2, AppendIn
    <3>3. AlwaysFollowed(toServer[c], Result(y), Accepted(y)) =>
            AlwaysFollowed(toServer'[c], Result(y), Accepted(y))
      BY <1>1, <2>2, AppendOther
    <3> QED BY <2>2, <3>1, <3>2, <3>3, Elsewhere DEF Talks
  <2>3. CASE d = c /\ toServer'[c] = toServer[c]
    BY <2>3, Elsewhere DEF Talks
  <2> QED BY <1>2, <2>1, <2>2, <2>3
<1> QED BY <1>3, <1>4, <1>5, <1>6

LEMMA ReceiveStep ==
  ASSUME SessionInv, NEW c \in Conns, Receive(c), UNCHANGED <<pool, held, pending>>
  PROVE  SessionInv'
<1> USE DEF SessionInv, SessionTyped, SessionTypeOK
<1> DEFINE s == toClient[c]
           m == Head(s)
           capabilities == [type |-> "capabilities"]
<1>1. /\ UNCHANGED <<main, cur, asked, link, loop, pool, held, pending>>
      /\ toClient' = [toClient EXCEPT ![c] = Tail(@)] /\ s # <<>> /\ s \in Seq(Messages)
  BY DEF Receive
<1>2. m \in Messages /\ Tail(s) \in Seq(Messages)
  BY <1>1, TailIsSeq
<1>3. /\ toClient'[c] = Tail(s) /\ \A d \in Conns : d # c => toClient'[d] = toClient[d]
      /\ toClient' \in [Conns -> Seq(Messages)]
  BY <1>1, <1>2
<1>4. pool[c] # "none"
  BY <1>1 DEF LinksFollowMain
<1>5. ASSUME NEW x \in Executions, m # Cancelled(x)
      PROVE  /\ InTransit(toClient'[c], Cancelled(x)) <=> InTransit(s, Cancelled(x))
             /\ Followed(toClient'[c], Ready(x), Cancelled(x)) => Followed(s, Ready(x), Cancelled(x))
  BY <1>1, <1>3, <1>5, TailIn, TailFollowed
<1>6. CASE m.type = "ready"
  <2>0. m.x \in Executions /\ m = Ready(m.x) /\ Offered(c, m.x)
    BY <1>2, <1>6, MessageTypes DEF Receive
  <2> HIDE DEF m
  <2>1. PICK x \in Executions : m = Ready(x) /\ Offered(c, x)
    BY <2>0
  <2>2. \A y \in Executions : m # Cancelled(y)
    BY <2>1, MessagesDiffer
  <2>3. CASE run[c][x] = "none"
    <3>1. run' = [run EXCEPT ![c][x] = "spawned"] /\ UNCHANGED <<cancelled, toServer>>
      BY <2>1, <2>3 DEF Offered
    <3>2. /\ run' \in [Conns -> [Executions -> RunStates]] /\ run'[c][x] = "spawned"
          /\ \A d \in Conns, y \in Executions : d # c \/ y # x => run'[d][y] = run[d][y]
      BY <2>1, <3>1 DEF RunStates
    <3>3. SessionTyped'
      <4>1. \A d \in Conns : cancelled'[d] \subseteq ActiveExecutions(d)'
        BY <3>1, <3>2 DEF ActiveExecutions
      <4> QED BY <1>1, <1>3, <3>1, <3>2, <4>1
    <3>4. LinksFollowMain'
      BY <1>1, <1>3, <1>4, <3>1, <3>2 DEF LinksFollowMain
    <3>5. SlotBound'
      <4>1. Slots' \subseteq Slots
        <5> SUFFICES ASSUME NEW d \in Conns, NEW y \in Executions,
                            run'[d][y] \in {"admitting", "handling", "leaving"}
                     PROVE  run[d][y] \in {"admitting", "handling", "leaving"}
          BY DEF Slots
        <5>1. d # c \/ y # x
          BY <3>2
        <5> QED BY <3>2, <5>1
      <4> QED BY <4>1, SlotsShrink
    <3>6. SidesMatch(c, x)'
      <4> SUFFICES ASSUME Talks(c)' PROVE SidesMatch(c, x)'
        BY <2>1, Silent
      <4>1. Talks(c) /\ SidesMatch(c, x) /\ x \notin cancelled[c]
        BY <1>1, <2>1, <2>3 DEF Talks, ActiveExecutions
      <4>2. ~Followed(s, Ready(x), Cancelled(x)) =>
              ~InTransit(toClient'[c], Cancelled(x)) /\ ~Followed(toClient'[c], Ready(x), Cancelled(x))
        BY <1>1, <1>3, <2>1, TailFollowed DEF m
      <4> QED BY <1>1, <2>1, <2>3, <3>1, <3>2, <4>1, <4>2
              DEF SidesMatch, RunIsKnown, OfferStands, AcceptedLives, Alive, Uncancelled
    <3>7. ASSUME NEW d \in Conns, NEW y \in Executions PROVE SidesMatch(d, y)'
      <4>1. CASE d = c /\ y = x
        BY <3>6, <4>1
      <4>2. CASE d = c /\ y # x
        BY <1>1, <1>3, <1>5, <2>2, <3>1, <3>2, <4>2, Elsewhere DEF Talks
      <4>3. CASE d # c
        BY <1>1, <1>3, <3>1, <3>2, <4>3, Untouched DEF Talks
      <4> QED BY <4>1, <4>2, <4>3
    <3> QED BY <3>3, <3>4, <3>5, <3>7
  <2>4. CASE run[c][x] # "none"
    <3>1. UNCHANGED <<run, cancelled>> /\ Send(c, Rejected(x))
      BY <2>1, <2>4 DEF Offered
    <3>2. ASSUME NEW y \in Executions
          PROVE  Rejected(x) \in Messages /\ Rejected(x) # Accepted(y) /\ Rejected(x) # Result(y)
      BY <2>1, MessagesOf DEF Rejected, Accepted, Result
    <3> QED BY <1>1, <1>3, <1>4, <1>5, <2>2, <3>1, <3>2, ReplyStep
  <2> QED BY <2>3, <2>4
<1>7. CASE m.type = "properties"
  <2>1. UNCHANGED <<run, cancelled>> /\ Send(c, capabilities)
    BY <1>7 DEF Receive
  <2>2. \A y \in Executions : m # Cancelled(y)
    BY <1>7 DEF Cancelled
  <2>3. /\ capabilities \in Messages
        /\ \A y \in Executions : capabilities # Accepted(y) /\ capabilities # Result(y)
    BY MessagesOf DEF Accepted, Result
  <2> HIDE DEF m, capabilities
  <2> QED BY <1>1, <1>3, <1>4, <1>5, <2>1, <2>2, <2>3, ReplyStep
<1>8. CASE m.type = "cancelled"
  <2>0. m.x \in Executions /\ m = Cancelled(m.x) /\ Cancel(c, m.x)
    BY <1>2, <1>8, MessageTypes DEF Receive
  <2> HIDE DEF m
  <2>1. PICK x \in Executions : m = Cancelled(x) /\ Cancel(c, x)
    BY <2>0
  <2>2. /\ cancelled' = [cancelled EXCEPT ![c] = @ \cup ({x} \cap ActiveExecutions(c))]
        /\ UNCHANGED <<run, toServer>>
        /\ \A y \in Executions : y # x => m # Cancelled(y)
    BY <2>1, MessagesDiffer DEF Cancel
  <2>3. /\ \A d \in Conns, y \in Executions : d # c \/ y # x => (y \in cancelled'[d] <=> y \in cancelled[d])
        /\ run[c][x] # "none" => x \in cancelled'[c]
        /\ cancelled' \in [Conns -> SUBSET Executions]
        /\ \A d \in Conns : cancelled'[d] \subseteq ActiveExecutions(d)
    BY <2>1, <2>2 DEF ActiveExecutions
  <2>4. SessionTyped'
    BY <1>1, <1>3, <2>2, <2>3 DEF ActiveExecutions
  <2>5. LinksFollowMain'
    BY <1>1, <1>3, <1>4, <2>2 DEF LinksFollowMain
  <2>6. SlotBound'
    BY <2>2, SlotsShrink DEF Slots
  <2>7. SidesMatch(c, x)'
    <3> SUFFICES ASSUME Talks(c)' PROVE SidesMatch(c, x)'
      BY <2>1, Silent
    <3>1. Talks(c) /\ SidesMatch(c, x)
      BY <1>1, <2>1 DEF Talks
    <3>2. /\ InTransit(s, Cancelled(x))
          /\ Followed(toClient'[c], Ready(x), Cancelled(x)) => Followed(s, Ready(x), Cancelled(x))
      BY <1>1, <1>3, <2>1, TailIn, TailFollowed DEF m
    <3>3. ~Uncancelled(c, x) /\ ~Alive(c, x) /\ (run[c][x] # "none" => ~Uncancelled(c, x)')
      BY <2>3, <3>2 DEF Uncancelled, Alive
    <3> QED BY <1>1, <2>2, <3>1, <3>2, <3>3 DEF SidesMatch, RunIsKnown, OfferStands, AcceptedLives
  <2>8. ASSUME NEW d \in Conns, NEW y \in Executions PROVE SidesMatch(d, y)'
    <3>1. CASE d = c /\ y = x
      BY <2>7, <3>1
    <3>2. CASE d = c /\ y # x
      BY <1>1, <1>3, <1>5, <2>1, <2>2, <2>3, <3>2, Elsewhere DEF Talks
    <3>3. CASE d # c
      BY <1>1, <1>3, <2>2, <2>3, <3>3, Untouched DEF Talks
    <3> QED BY <3>1, <3>2, <3>3
  <2> QED BY <2>4, <2>5, <2>6, <2>8
<1> QED BY <1>6, <1>7, <1>8 DEF Receive

LEMMA LoopEndsStep ==
  ASSUME SessionInv, NEW c \in Conns, LoopEnds(c), UNCHANGED <<pool, held, pending>>
  PROVE  SessionInv'
<1> USE DEF SessionInv, SessionTyped, SessionTypeOK
<1>1. /\ UNCHANGED <<main, cur, asked, link, run, toServer>>
      /\ loop' = [loop EXCEPT ![c] = "ended"] /\ toClient' = [toClient EXCEPT ![c] = <<>>]
      /\ cancelled' = [cancelled EXCEPT ![c] = @ \cup ActiveExecutions(c)]
      /\ main = "stopping" \/ c < cur \/ main = "backoff"
  BY DEF LoopEnds, CancelAll
<1>2. /\ <<>> \in Seq(Messages)
      /\ cancelled' \in [Conns -> SUBSET Executions]
      /\ \A d \in Conns : cancelled'[d] \subseteq ActiveExecutions(d)
  BY <1>1 DEF ActiveExecutions
<1>3. SessionTyped'
  BY <1>1, <1>2 DEF ActiveExecutions
<1>4. c # cur \/ main \notin {"connecting", "connected"}
  BY <1>1 DEF Conns
<1>5. LinksFollowMain'
  BY <1>1, <1>4 DEF LinksFollowMain
<1>6. SlotBound'
  BY <1>1, SlotsShrink DEF Slots
<1>7. ASSUME NEW d \in Conns, NEW x \in Executions PROVE SidesMatch(d, x)'
  <2>1. CASE d = c
    <3>1. ~Talks(c)'
      BY <1>1, <1>4 DEF Talks, LinksFollowMain
    <3> QED BY <2>1, <3>1, Silent
  <2>2. CASE d # c
    <3>1. /\ run[d][x]' = run[d][x] /\ held[d][x]' = held[d][x]
          /\ cancelled'[d] = cancelled[d] /\ toClient'[d] = toClient[d]
          /\ toServer'[d] = toServer[d] /\ Talks(d)' = Talks(d)
      BY <1>1, <2>2 DEF Talks
    <3>2. SidesMatch(d, x)
      OBVIOUS
    <3> QED BY <3>1, <3>2, Untouched
  <2> QED BY <2>1, <2>2
<1> QED BY <1>3, <1>5, <1>6, <1>7

-----------------------------------------------------------------------------
(* The steps of the server *)

\* What is told to an executor that listens arrives behind what is on its way.
LEMMA Told ==
  ASSUME SessionInv, NEW c \in Conns, NEW t \in Seq(Messages), Tell(c, t)
  PROVE  /\ toClient' \in [Conns -> Seq(Messages)]
         /\ \A d \in Conns : d # c => toClient'[d] = toClient[d]
         /\ Talks(c) => toClient'[c] = toClient[c] \o t
<1> USE DEF SessionInv, SessionTyped, SessionTypeOK
<1>1. toClient[c] \o t \in Seq(Messages) /\ <<>> \in Seq(Messages)
  BY Joined
<1>2. Talks(c) => loop[c] = "running"
  BY DEF Talks, LinksFollowMain
<1> QED BY <1>1, <1>2 DEF Tell

LEMMA ToldIn ==
  ASSUME SessionInv, NEW c \in Conns, NEW t \in Seq(Messages), Talks(c), Tell(c, t),
         NEW a, InTransit(t, a)
  PROVE  InTransit(toClient'[c], a)
<1>1. toClient'[c] = toClient[c] \o t /\ toClient[c] \in Seq(Messages)
  BY Told DEF SessionInv, SessionTyped
<1> QED BY <1>1, JoinedIn

\* The same for an execution that what is told is not about.
LEMMA ToldElsewhere ==
  ASSUME SessionInv, NEW c \in Conns, NEW y \in Executions, NEW t \in Seq(Messages),
         Talks(c), Tell(c, t), ~InTransit(t, Cancelled(y))
  PROVE  /\ InTransit(toClient'[c], Cancelled(y)) <=> InTransit(toClient[c], Cancelled(y))
         /\ Followed(toClient'[c], Ready(y), Cancelled(y)) =>
              Followed(toClient[c], Ready(y), Cancelled(y))
<1>1. toClient'[c] = toClient[c] \o t /\ toClient[c] \in Seq(Messages)
  BY Told DEF SessionInv, SessionTyped
<1> QED BY <1>1, JoinedIn, JoinedFollowed

LEMMA OfferStep ==
  ASSUME SessionInv, NEW c \in Conns, NEW x \in Executions, Offer(c, x)
  PROVE  SessionInv'
<1> USE DEF SessionInv, SessionTyped, SessionTypeOK
<1>1. /\ UNCHANGED <<main, cur, asked, link, loop, run, cancelled, toServer, pool, pending>>
      /\ held' = [held EXCEPT ![c][x] = "offered"]
      /\ x \in pending /\ pool[c] = "ready" /\ \A d \in Conns : held[d][x] = "none"
      /\ Tell(c, <<Ready(x)>>)
      /\ x \in Late \/ Settled(c, x)
  BY DEF Offer
<1>2. /\ <<Ready(x)>> \in Seq(Messages)
      /\ \A y \in Executions : ~InTransit(<<Ready(x)>>, Cancelled(y))
  BY MessagesOf, MessagesDiffer, OneMessage
<1>3. /\ toClient' \in [Conns -> Seq(Messages)]
      /\ \A d \in Conns : d # c => toClient'[d] = toClient[d]
  BY <1>1, <1>2, Told
<1>4. /\ held' \in [Conns -> [Executions -> {"none", "offered", "accepted"}]]
      /\ held'[c][x] = "offered"
      /\ \A d \in Conns, y \in Executions : d # c \/ y # x => held'[d][y] = held[d][y]
  BY <1>1
<1>5. SessionTyped'
  <2>1. \A d \in Conns, y \in Executions : held'[d][y] # "none" =>
          /\ pool'[d] = "ready"
          /\ held'[d][y] = "offered" => y \in pending'
          /\ \A b \in Conns \ {d} : held'[b][y] = "none"
    BY <1>1, <1>4
  <2>2. \A d \in Conns : cancelled'[d] \subseteq ActiveExecutions(d)'
    BY <1>1 DEF ActiveExecutions
  <2> QED BY <1>1, <1>3, <1>4, <2>1, <2>2
<1>6. LinksFollowMain'
  BY <1>1, <1>3 DEF LinksFollowMain
<1>7. SlotBound'
  BY <1>1, SlotsShrink DEF Slots
<1>8. ASSUME NEW d \in Conns, NEW y \in Executions PROVE SidesMatch(d, y)'
  <2> SUFFICES ASSUME Talks(d)' PROVE SidesMatch(d, y)'
    BY Silent
  <2>0. Talks(d)
    BY <1>1 DEF Talks
  <2>1. CASE d # c
    BY <1>1, <1>3, <1>4, <2>0, <2>1, Untouched
  <2>2. CASE d = c
    <3>1. /\ InTransit(toClient'[c], Cancelled(y)) <=> InTransit(toClient[c], Cancelled(y))
          /\ Followed(toClient'[c], Ready(y), Cancelled(y)) =>
               Followed(toClient[c], Ready(y), Cancelled(y))
      BY <1>1, <1>2, <2>0, <2>2, ToldElsewhere
    <3>2. CASE y # x
      BY <1>1, <1>4, <2>0, <2>2, <3>1, <3>2, Elsewhere
    <3>3. CASE y = x
      <4>1. RunIsKnown(c, x)'
        BY <1>1, <1>4, <2>0, <2>2, <3>1, <3>3 DEF SidesMatch, RunIsKnown, Uncancelled
      <4>2. ASSUME x \notin Late PROVE OfferStands(c, x)' /\ AcceptedLives(c, x)'
        <5>1. ~Followed(toClient[c], Ready(x), Cancelled(x))
          BY <1>1, <4>2 DEF Settled, Followed, InTransit
        <5> QED BY <1>1, <1>4, <3>1, <3>3, <4>2, <5>1 DEF Settled, OfferStands, AcceptedLives
      <4> QED BY <2>2, <3>3, <4>1, <4>2 DEF SidesMatch
    <3> QED BY <3>2, <3>3
  <2> QED BY <2>1, <2>2
<1> QED BY <1>5, <1>6, <1>7, <1>8

\* Offers are withdrawn in any order.
LEMMA CancellationsOf ==
  ASSUME NEW n \in Nat, NEW xs \in SUBSET Executions, NEW order \in [1..n -> xs],
         \A x \in xs : \E i \in DOMAIN order : order[i] = x,
         NEW t, t = [i \in DOMAIN order |-> Cancelled(order[i])]
  PROVE  t \in Seq(Messages) /\ \A y \in Executions : InTransit(t, Cancelled(y)) <=> y \in xs
<1>1. t \in [1..n -> Messages]
  BY MessagesOf
<1>2. DOMAIN t = 1..n /\ \A i \in 1..n : t[i] = Cancelled(order[i]) /\ order[i] \in xs
  OBVIOUS
<1>3. t \in Seq(Messages)
  BY <1>1, IsASeq
<1>4. ASSUME NEW y \in Executions, InTransit(t, Cancelled(y)) PROVE y \in xs
  BY <1>2, <1>4, MessagesDiffer DEF InTransit
<1>5. ASSUME NEW y \in xs PROVE InTransit(t, Cancelled(y))
  BY <1>2 DEF InTransit
<1> QED BY <1>3, <1>4, <1>5

LEMMA ExpireStep ==
  ASSUME SessionInv, NEW c \in Conns, NEW xs \in SUBSET Executions, Expire(c, xs)
  PROVE  SessionInv'
<1> USE DEF SessionInv, SessionTyped, SessionTypeOK
<1>1. /\ UNCHANGED <<main, cur, asked, link, loop, run, cancelled, toServer, pool, pending>>
      /\ held' = [held EXCEPT ![c] = [x \in Executions |-> IF x \in xs THEN "none" ELSE @[x]]]
  BY DEF Expire
<1>2. PICK order \in [1..Cardinality(xs) -> xs] :
        /\ \A x \in xs : \E i \in DOMAIN order : order[i] = x
        /\ Tell(c, [i \in DOMAIN order |-> Cancelled(order[i])])
  BY DEF Expire
<1> DEFINE t == [i \in DOMAIN order |-> Cancelled(order[i])]
<1>3. t \in Seq(Messages) /\ \A y \in Executions : InTransit(t, Cancelled(y)) <=> y \in xs
  <2>1. Cardinality(xs) \in Nat
    BY ClientAssumption, FS_Subset, FS_CardinalityType
  <2> DEFINE n == Cardinality(xs)
  <2>2. n \in Nat /\ order \in [1..n -> xs] /\ \A x \in xs : \E i \in DOMAIN order : order[i] = x
    BY <1>2, <2>1
  <2>3. t = [i \in DOMAIN order |-> Cancelled(order[i])]
    OBVIOUS
  <2> HIDE DEF n, t, SessionInv, SessionTyped, SessionTypeOK
  <2> QED BY <2>2, <2>3, CancellationsOf
<1>5. Tell(c, t)
  BY <1>2
<1> HIDE DEF t
<1>6. /\ toClient' \in [Conns -> Seq(Messages)]
      /\ \A d \in Conns : d # c => toClient'[d] = toClient[d]
  BY <1>3, <1>5, Told
<1>7. /\ held' \in [Conns -> [Executions -> {"none", "offered", "accepted"}]]
      /\ \A y \in xs : held'[c][y] = "none"
      /\ \A y \in Executions \ xs : held'[c][y] = held[c][y]
      /\ \A d \in Conns : d # c => held'[d] = held[d]
  BY <1>1
<1>8. pool[c] = "ready"
  BY DEF Expire
<1>9. SessionTyped'
  <2>1. \A d \in Conns, y \in Executions : held'[d][y] # "none" => held'[d][y] = held[d][y]
    BY <1>7
  <2>2. \A d \in Conns, y \in Executions : held'[d][y] # "none" =>
          /\ pool'[d] = "ready"
          /\ held'[d][y] = "offered" => y \in pending'
          /\ \A b \in Conns \ {d} : held'[b][y] = "none"
    BY <1>1, <1>7, <2>1
  <2>3. \A d \in Conns : cancelled'[d] \subseteq ActiveExecutions(d)'
    BY <1>1 DEF ActiveExecutions
  <2> QED BY <1>1, <1>6, <1>7, <2>2, <2>3
<1>10. LinksFollowMain'
  BY <1>1, <1>6, <1>8 DEF LinksFollowMain
<1>11. SlotBound'
  BY <1>1, SlotsShrink DEF Slots
<1>12. ASSUME NEW d \in Conns, NEW y \in Executions PROVE SidesMatch(d, y)'
  <2> SUFFICES ASSUME Talks(d)' PROVE SidesMatch(d, y)'
    BY Silent
  <2>0. Talks(d)
    BY <1>1 DEF Talks
  <2>1. CASE d # c
    BY <1>1, <1>6, <1>7, <2>0, <2>1, Untouched
  <2>2. CASE d = c /\ y \notin xs
    <3>1. /\ InTransit(toClient'[c], Cancelled(y)) <=> InTransit(toClient[c], Cancelled(y))
          /\ Followed(toClient'[c], Ready(y), Cancelled(y)) =>
               Followed(toClient[c], Ready(y), Cancelled(y))
      BY <1>3, <1>5, <2>0, <2>2, ToldElsewhere
    <3> QED BY <1>1, <1>7, <2>0, <2>2, <3>1, Elsewhere
  <2>3. CASE d = c /\ y \in xs
    <3>1. InTransit(toClient'[c], Cancelled(y))
      <4>1. toClient'[c] = toClient[c] \o t
        BY <1>3, <1>5, <2>0, <2>3, Told
      <4> QED BY <1>3, <2>3, <4>1, JoinedIn
    <3>2. SidesMatch(c, y)
      OBVIOUS
    <3> QED BY <1>1, <1>7, <2>0, <2>3, <3>1, <3>2
            DEF SidesMatch, RunIsKnown, OfferStands, AcceptedLives, Uncancelled
  <2> QED BY <2>1, <2>2, <2>3
<1> QED BY <1>9, <1>10, <1>11, <1>12

LEMMA CancelExecutionStep ==
  ASSUME SessionInv, NEW x \in Executions, CancelExecution(x)
  PROVE  SessionInv'
<1> USE DEF SessionInv, SessionTyped, SessionTypeOK
<1>1. /\ UNCHANGED <<main, cur, asked, link, loop, run, cancelled, toServer, pool>>
      /\ pending' = pending \ {x}
      /\ held' = [c \in Conns |-> [held[c] EXCEPT ![x] = "none"]]
  BY DEF CancelExecution
<1>2. Cancelled(x) \in Messages
  BY MessagesOf
<1>3. ASSUME NEW c \in Conns
      PROVE  /\ toClient[c] \in Seq(Messages) /\ Append(toClient[c], Cancelled(x)) \in Seq(Messages)
             /\ held[c][x] # "none" /\ loop[c] = "running" =>
                  toClient'[c] = Append(toClient[c], Cancelled(x))
             /\ ~(held[c][x] # "none" /\ loop[c] = "running") => toClient'[c] = toClient[c]
  BY <1>2, AppendIsSeq DEF CancelExecution
<1>4. toClient' \in [Conns -> Seq(Messages)]
  BY <1>2, <1>3 DEF CancelExecution
<1>5. /\ held' \in [Conns -> [Executions -> {"none", "offered", "accepted"}]]
      /\ \A c \in Conns : held'[c][x] = "none"
      /\ \A c \in Conns, y \in Executions : y # x => held'[c][y] = held[c][y]
  BY <1>1
<1>6. SessionTyped'
  <2>1. \A d \in Conns, y \in Executions : held'[d][y] # "none" =>
          /\ pool'[d] = "ready"
          /\ held'[d][y] = "offered" => y \in pending'
          /\ \A b \in Conns \ {d} : held'[b][y] = "none"
    BY <1>1, <1>5
  <2>2. \A d \in Conns : cancelled'[d] \subseteq ActiveExecutions(d)'
    BY <1>1 DEF ActiveExecutions
  <2> QED BY <1>1, <1>4, <1>5, <2>1, <2>2
<1>7. LinksFollowMain'
  <2>1. \A c \in Conns : pool[c] = "none" => toClient'[c] = toClient[c]
    BY <1>3
  <2> QED BY <1>1, <2>1 DEF LinksFollowMain
<1>8. SlotBound'
  BY <1>1, SlotsShrink DEF Slots
<1>9. ASSUME NEW c \in Conns, NEW y \in Executions PROVE SidesMatch(c, y)'
  <2> SUFFICES ASSUME Talks(c)' PROVE SidesMatch(c, y)'
    BY Silent
  <2>0. Talks(c) /\ loop[c] = "running" /\ SidesMatch(c, y)
    BY <1>1 DEF Talks, LinksFollowMain
  <2>1. CASE held[c][x] = "none"
    <3>1. held'[c][y] = held[c][y]
      BY <1>5, <2>1
    <3> QED BY <1>1, <1>3, <2>0, <2>1, <3>1, Untouched
  <2>2. CASE held[c][x] # "none" /\ y # x
    <3>1. Cancelled(x) # Cancelled(y) /\ toClient'[c] = Append(toClient[c], Cancelled(x))
      BY <1>3, <2>0, <2>2, MessagesDiffer
    <3>2. InTransit(toClient'[c], Cancelled(y)) <=> InTransit(toClient[c], Cancelled(y))
      BY <1>2, <1>3, <3>1, AppendIn
    <3>3. Followed(toClient'[c], Ready(y), Cancelled(y)) => Followed(toClient[c], Ready(y), Cancelled(y))
      BY <1>2, <1>3, <3>1, Appended
    <3> QED BY <1>1, <1>5, <2>0, <2>2, <3>2, <3>3, Elsewhere
  <2>3. CASE held[c][x] # "none" /\ y = x
    <3>1. InTransit(toClient'[c], Cancelled(x))
      <4>1. toClient'[c] = Append(toClient[c], Cancelled(x))
        BY <1>3, <2>0, <2>3
      <4> QED BY <1>2, <1>3, <4>1, AppendIn
    <3> QED BY <1>1, <1>5, <2>0, <2>3, <3>1
            DEF SidesMatch, RunIsKnown, OfferStands, AcceptedLives, Uncancelled
  <2> QED BY <2>1, <2>2, <2>3
<1> QED BY <1>6, <1>7, <1>8, <1>9

\* The server reads a message that is not about y.
LEMMA HeardElsewhere ==
  ASSUME SessionInv, NEW c \in Conns, toServer[c] # <<>>, toServer'[c] = Tail(toServer[c]),
         NEW y \in Executions,
         Head(toServer[c]) # Accepted(y), Head(toServer[c]) # Result(y)
  PROVE  /\ InTransit(toServer'[c], Accepted(y)) <=> InTransit(toServer[c], Accepted(y))
         /\ InTransit(toServer'[c], Result(y)) <=> InTransit(toServer[c], Result(y))
         /\ AlwaysFollowed(toServer[c], Result(y), Accepted(y)) =>
              AlwaysFollowed(toServer'[c], Result(y), Accepted(y))
<1>1. toServer[c] \in Seq(Messages)
  BY DEF SessionInv, SessionTyped
<1> QED BY <1>1, TailIn, TailFollowed

\* What changes when the server reads a message about x on c, and what is left to show.
LEMMA HearFrame ==
  ASSUME SessionInv, NEW c \in Conns, NEW x \in Executions,
         UNCHANGED <<main, cur, asked, link, loop, run, cancelled, pool>>,
         pool[c] \in {"connected", "ready"},
         toServer[c] # <<>>, toServer' = [toServer EXCEPT ![c] = Tail(@)],
         \A y \in Executions : y # x =>
           Head(toServer[c]) # Accepted(y) /\ Head(toServer[c]) # Result(y),
         NEW to \in {"none", "offered", "accepted"},
         held' = [held EXCEPT ![c][x] = to],
         to # "none" => held[c][x] # "none",
         to = "offered" => held[c][x] = "offered",
         pending' = pending \/ (to = "accepted" /\ pending' = pending \ {x}),
         toClient' = toClient \/ Tell(c, <<Cancelled(x)>>),
         Talks(c) => SidesMatch(c, x)'
  PROVE  SessionInv'
<1> USE DEF SessionInv, SessionTyped, SessionTypeOK
<1>1. /\ toServer[c] \in Seq(Messages) /\ Tail(toServer[c]) \in Seq(Messages)
      /\ <<Cancelled(x)>> \in Seq(Messages)
      /\ \A y \in Executions : y # x => ~InTransit(<<Cancelled(x)>>, Cancelled(y))
  BY MessagesOf, MessagesDiffer, OneMessage, TailIsSeq
<1>2. /\ toClient' \in [Conns -> Seq(Messages)]
      /\ \A d \in Conns : d # c => toClient'[d] = toClient[d]
  <2>1. CASE Tell(c, <<Cancelled(x)>>)
    <3> HIDE DEF SessionInv, SessionTyped, SessionTypeOK
    <3> QED BY <1>1, <2>1, Told
  <2> QED BY <2>1
<1>3. /\ toServer' \in [Conns -> Seq(Messages)]
      /\ toServer'[c] = Tail(toServer[c])
      /\ \A d \in Conns : d # c => toServer'[d] = toServer[d]
  BY <1>1
<1>4. /\ held' \in [Conns -> [Executions -> {"none", "offered", "accepted"}]]
      /\ held'[c][x] = to
      /\ \A d \in Conns, y \in Executions : d # c \/ y # x => held'[d][y] = held[d][y]
  OBVIOUS
<1>5. SessionTyped'
  <2>1. \A d \in Conns, y \in Executions : held'[d][y] # "none" =>
          /\ pool'[d] = "ready"
          /\ held'[d][y] = "offered" => y \in pending'
          /\ \A b \in Conns \ {d} : held'[b][y] = "none"
    BY <1>4
  <2>2. \A d \in Conns : cancelled'[d] \subseteq ActiveExecutions(d)'
    BY DEF ActiveExecutions
  <2>3. pending' \subseteq Executions
    OBVIOUS
  <2> QED BY <1>2, <1>3, <1>4, <2>1, <2>2, <2>3
<1>6. LinksFollowMain'
  BY <1>2, <1>3 DEF LinksFollowMain
<1>7. SlotBound'
  BY SlotsShrink DEF Slots
<1>8. ASSUME NEW d \in Conns, NEW y \in Executions PROVE SidesMatch(d, y)'
  <2> SUFFICES ASSUME Talks(d)' PROVE SidesMatch(d, y)'
    BY Silent
  <2>0. Talks(d) /\ SidesMatch(d, y)
    BY DEF Talks
  <2>1. CASE d # c
    BY <1>2, <1>3, <1>4, <2>0, <2>1, Untouched
  <2>2. CASE d = c /\ y # x
    <3>1. /\ InTransit(toServer'[c], Accepted(y)) <=> InTransit(toServer[c], Accepted(y))
          /\ InTransit(toServer'[c], Result(y)) <=> InTransit(toServer[c], Result(y))
          /\ AlwaysFollowed(toServer[c], Result(y), Accepted(y)) =>
               AlwaysFollowed(toServer'[c], Result(y), Accepted(y))
      BY <1>3, <2>2, HeardElsewhere
    <3>2. /\ InTransit(toClient'[c], Cancelled(y)) <=> InTransit(toClient[c], Cancelled(y))
          /\ Followed(toClient'[c], Ready(y), Cancelled(y)) =>
               Followed(toClient[c], Ready(y), Cancelled(y))
      BY <1>1, <2>0, <2>2, ToldElsewhere
    <3> QED BY <1>4, <2>0, <2>2, <3>1, <3>2, Elsewhere
  <2>3. CASE d = c /\ y = x
    BY <2>0, <2>3
  <2> QED BY <2>1, <2>2, <2>3
<1> QED BY <1>5, <1>6, <1>7, <1>8

LEMMA HearStep ==
  ASSUME SessionInv, NEW c \in Conns, Hear(c)
  PROVE  SessionInv'
<1> DEFINE s == toServer[c]
           m == Head(s)
<1>1. /\ UNCHANGED <<main, cur, asked, link, loop, run, cancelled>>
      /\ toServer' = [toServer EXCEPT ![c] = Tail(@)] /\ s # <<>> /\ s \in Seq(Messages)
      /\ pool[c] \in {"connected", "ready"} /\ toClient[c] \in Seq(Messages)
      /\ held \in [Conns -> [Executions -> {"none", "offered", "accepted"}]]
      /\ toServer \in [Conns -> Seq(Messages)] /\ \A x \in Executions : SidesMatch(c, x)
  BY DEF Hear, SessionInv, SessionTyped, SessionTypeOK
<1>2. m \in Messages /\ Tail(s) \in Seq(Messages)
  BY <1>1, TailIsSeq
<1>3. toServer'[c] = Tail(s) /\ \A d \in Conns : d # c => toServer'[d] = toServer[d]
  BY <1>1
<1>4. ASSUME NEW x \in Executions
      PROVE  /\ InTransit(s, Accepted(x)) <=> InTransit(toServer'[c], Accepted(x)) \/ m = Accepted(x)
             /\ InTransit(s, Result(x)) <=> InTransit(toServer'[c], Result(x)) \/ m = Result(x)
             /\ AlwaysFollowed(s, Result(x), Accepted(x)) =>
                  AlwaysFollowed(toServer'[c], Result(x), Accepted(x))
             /\ AlwaysFollowed(s, Result(x), Accepted(x)) /\ m = Result(x) =>
                  InTransit(toServer'[c], Accepted(x))
  BY <1>1, <1>3, TailIn, TailFollowed
<1>5. CASE m.type = "capabilities"
  <2>1. pool' = [pool EXCEPT ![c] = "ready"] /\ UNCHANGED <<held, pending, toClient>>
    BY <1>5 DEF Hear
  <2>2. \A y \in Executions : m # Accepted(y) /\ m # Result(y)
    BY <1>5 DEF Accepted, Result
  <2> USE DEF SessionInv, SessionTyped, SessionTypeOK
  <2>3. SessionTyped'
    <3>1. \A d \in Conns : cancelled'[d] \subseteq ActiveExecutions(d)'
      BY <1>1 DEF ActiveExecutions
    <3> QED BY <1>1, <1>2, <2>1, <3>1
  <2>4. LinksFollowMain'
    BY <1>1, <1>3, <2>1 DEF LinksFollowMain
  <2>5. SlotBound'
    BY <1>1, SlotsShrink DEF Slots
  <2>6. ASSUME NEW d \in Conns, NEW y \in Executions PROVE SidesMatch(d, y)'
    <3>1. CASE d # c
      BY <1>1, <1>3, <2>1, <3>1, Untouched DEF Talks
    <3>2. CASE d = c
      BY <1>1, <1>4, <2>1, <2>2, <3>2, Elsewhere DEF Talks
    <3> QED BY <3>1, <3>2
  <2> QED BY <2>3, <2>4, <2>5, <2>6
<1>6. CASE m.type = "accepted"
  <2>0. m.x \in Executions /\ m = Accepted(m.x) /\ HearAccepted(c, m.x) /\ UNCHANGED pool
    BY <1>2, <1>6, MessageTypes DEF Hear
  <2> HIDE DEF m
  <2>1. PICK x \in Executions : m = Accepted(x) /\ HearAccepted(c, x)
    BY <2>0
  <2>2. \A y \in Executions : m # Result(y) /\ (y # x => m # Accepted(y))
    BY <2>1, MessagesDiffer
  <2>3. CASE held[c][x] = "none"
    <3>1. Tell(c, <<Cancelled(x)>>) /\ UNCHANGED <<held, pending>>
      BY <2>1, <2>3 DEF HearAccepted
    <3>2. held' = [held EXCEPT ![c][x] = "none"]
      BY <1>1, <2>3, <3>1
    <3>3. Talks(c) => SidesMatch(c, x)'
      <4> SUFFICES ASSUME Talks(c) PROVE SidesMatch(c, x)'
        OBVIOUS
      <4>1. <<Cancelled(x)>> \in Seq(Messages) /\ InTransit(<<Cancelled(x)>>, Cancelled(x))
        BY MessagesOf, OneMessage
      <4>2. InTransit(toClient'[c], Cancelled(x))
        BY <3>1, <4>1, ToldIn
      <4>3. SidesMatch(c, x)
        BY <1>1
      <4> QED BY <1>1, <1>4, <2>3, <3>1, <4>2, <4>3
              DEF SidesMatch, RunIsKnown, OfferStands, AcceptedLives, Uncancelled, Talks
    <3> QED BY <1>1, <2>0, <2>2, <2>3, <3>1, <3>2, <3>3, HearFrame DEF m
  <2>4. CASE held[c][x] # "none"
    <3>1. /\ held' = [held EXCEPT ![c][x] = "accepted"] /\ held'[c][x] = "accepted"
          /\ pending' = pending \ {x} /\ UNCHANGED toClient
      BY <1>1, <2>1, <2>4 DEF HearAccepted
    <3>2. Talks(c) => SidesMatch(c, x)'
      <4> SUFFICES ASSUME Talks(c) PROVE SidesMatch(c, x)'
        OBVIOUS
      <4>1. SidesMatch(c, x) /\ InTransit(s, Accepted(x)) /\ held[c][x] \in {"offered", "accepted"}
        BY <1>1, <1>4, <2>1, <2>4
      <4>2. Alive(c, x)' <=> Alive(c, x)
        BY <1>1, <3>1 DEF Alive, Uncancelled
      <4> QED BY <1>1, <1>4, <2>2, <3>1, <4>1, <4>2
              DEF SidesMatch, RunIsKnown, OfferStands, AcceptedLives, Talks
    <3> QED BY <1>1, <2>0, <2>2, <2>4, <3>1, <3>2, HearFrame DEF m
  <2> QED BY <2>3, <2>4
<1>7. CASE m.type = "rejected"
  <2>0. m.x \in Executions /\ m = Rejected(m.x) /\ HearRejected(c, m.x) /\ UNCHANGED pool
    BY <1>2, <1>7, MessageTypes DEF Hear
  <2> HIDE DEF m
  <2>1. PICK x \in Executions : m = Rejected(x) /\ HearRejected(c, x)
    BY <2>0
  <2>2. \A y \in Executions : m # Result(y) /\ m # Accepted(y)
    BY <2>1, MessagesDiffer
  <2> DEFINE to == IF held[c][x] = "offered" THEN "none" ELSE held[c][x]
  <2>3. /\ to \in {"none", "accepted"} /\ held' = [held EXCEPT ![c][x] = to]
        /\ held'[c][x] = to /\ UNCHANGED <<toClient, pending>>
    BY <1>1, <2>1 DEF HearRejected
  <2>4. to = "accepted" => held[c][x] = "accepted"
    OBVIOUS
  <2>5. Alive(c, x)' <=> Alive(c, x)
    BY <1>1, <2>3 DEF Alive, Uncancelled
  <2>6. Talks(c) => SidesMatch(c, x)'
    <3> SUFFICES ASSUME Talks(c) PROVE SidesMatch(c, x)'
      OBVIOUS
    <3>1. SidesMatch(c, x) /\ (held[c][x] = "accepted" => to = "accepted")
      BY <1>1
    <3>2. Uncancelled(c, x)' <=> Uncancelled(c, x)
      BY <1>1, <2>3 DEF Uncancelled
    <3> HIDE DEF to
    <3> QED BY <1>1, <1>4, <2>2, <2>3, <2>4, <2>5, <3>1, <3>2
            DEF SidesMatch, RunIsKnown, OfferStands, AcceptedLives, Talks
  <2>7. CASE to = "none"
    BY <1>1, <2>0, <2>2, <2>3, <2>6, <2>7, HearFrame DEF m
  <2>8. CASE to = "accepted"
    BY <1>1, <2>0, <2>2, <2>3, <2>6, <2>8, HearFrame DEF m
  <2> QED BY <2>3, <2>7, <2>8
<1>8. CASE m.type = "result"
  <2>0. m.x \in Executions /\ m = Result(m.x) /\ HearResult(c, m.x) /\ UNCHANGED pool
    BY <1>2, <1>8, MessageTypes DEF Hear
  <2> HIDE DEF m
  <2>1. PICK x \in Executions : m = Result(x) /\ HearResult(c, x)
    BY <2>0
  <2>2. \A y \in Executions : m # Accepted(y) /\ (y # x => m # Result(y))
    BY <2>1, MessagesDiffer
  <2>3. /\ held' = [held EXCEPT ![c][x] = "none"] /\ held'[c][x] = "none"
        /\ UNCHANGED <<toClient, pending>>
    BY <1>1, <2>1 DEF HearResult
  <2>4. Talks(c) => SidesMatch(c, x)'
    <3>1. SidesMatch(c, x)
      BY <1>1
    <3> QED BY <1>1, <1>4, <2>1, <2>3, <3>1
            DEF SidesMatch, RunIsKnown, OfferStands, AcceptedLives, Talks
  <2> QED BY <1>1, <2>0, <2>2, <2>3, <2>4, HearFrame DEF m
<1> QED BY <1>5, <1>6, <1>7, <1>8 DEF Hear

-----------------------------------------------------------------------------
(* The theorem *)

LEMMA SessionStep == SessionInv /\ [SessionNext]_sessionVars => SessionInv'
<1> SUFFICES ASSUME SessionInv, [SessionNext]_sessionVars PROVE SessionInv'
  OBVIOUS
<1>1. CASE Connect
  BY <1>1, ConnectStep
<1>2. CASE (Main \/ AskToStop) /\ UNCHANGED <<pool, held, pending>>
  BY <1>2, MainStep
<1>3. ASSUME NEW c \in Conns, Client(c) /\ UNCHANGED <<pool, held, pending>> PROVE SessionInv'
  BY <1>3, ReceiveStep, LoopEndsStep, RunExecutionStep DEF Client
<1>4. ASSUME NEW c \in Conns, Server(c) \/ Break(c) PROVE SessionInv'
  BY <1>4, HearStep, DropStep, OfferStep, ExpireStep, BreakStep DEF Server
<1>5. ASSUME NEW x \in Executions, CancelExecution(x) PROVE SessionInv'
  BY <1>5, CancelExecutionStep
<1>6. CASE UNCHANGED sessionVars
  <2> USE <1>6 DEF sessionVars, clientVars
  <2>1. SessionTyped'
    BY DEF SessionInv, SessionTyped, SessionTypeOK, ActiveExecutions
  <2>2. LinksFollowMain'
    BY DEF SessionInv, LinksFollowMain
  <2>3. SlotBound'
    BY SlotsShrink DEF SessionInv, Slots
  <2>4. ASSUME NEW c \in Conns, NEW x \in Executions PROVE SidesMatch(c, x)'
    BY Untouched DEF SessionInv, Talks
  <2> QED BY <2>1, <2>2, <2>3, <2>4 DEF SessionInv
<1> QED BY <1>1, <1>2, <1>3, <1>4, <1>5, <1>6 DEF SessionNext

\* What holds in every state of the invariant.
LEMMA SessionInvImplies == SessionInv => SidesAgree
<1> SUFFICES ASSUME SessionInv PROVE SidesAgree
  OBVIOUS
<1>1. SessionTypeOK
  BY DEF SessionInv, SessionTyped
<1>2. SlotsWithinLimit
  <2> DEFINE running == {r \in Conns \X Executions : run[r[1]][r[2]] \in {"admitting", "handling"}}
  <2>1. running \subseteq Slots
    BY DEF Slots
  <2>2. Cardinality(running) <= Cardinality(Slots) /\ Cardinality(running) \in Nat
        /\ Cardinality(Slots) \in Nat
    BY <2>1, SlotsAreFinite, FS_Subset, FS_CardinalityType
  <2> QED BY <2>2, MaxSlotsType DEF SessionInv, SlotBound, SlotsWithinLimit
<1>3. StrayRunIsCancelled
  BY DEF SessionInv, SidesMatch, RunIsKnown, StrayRunIsCancelled, Talks, Uncancelled
<1>4. AcceptedIsRun
  BY DEF SessionInv, SidesMatch, AcceptedLives, AcceptedIsRun, Talks, Alive
<1> QED BY <1>1, <1>2, <1>3, <1>4 DEF SidesAgree

\* SidesAgree, for any number of executions, connections and slots, messages on
\* their way in any number, and streams that break at any moment.
THEOREM SessionCorrect == SessionSpec => []SidesAgree
BY SessionInitInv, SessionStep, SessionInvImplies, PTL DEF SessionSpec

-----------------------------------------------------------------------------
(* WaitGroup *)

\* The waiter holds the mutex from the check to the registration, and nothing
\* changes the guards it has seen in between.
Mutex == (locked <=> waiter = "checked") /\ (waiter = "checked" => ids # {})

\* A sleeping waiter is woken, or will be by a guard that is left or dropped.
Awake ==
  waiter = "pending" =>
    woken \/ (waker /\ (ids # {} \/ \E g \in Guards : guard[g] = "removed"))

Inv == WaitGroupTypeOK /\ Mutex /\ Awake /\ NobodyLeftBehind

\* The number of counted guards is a number.
LEMMA CountIsNat == ASSUME WaitGroupTypeOK PROVE Cardinality(ids) \in Nat
  <1>1. ids \subseteq Guards
    BY DEF WaitGroupTypeOK, Held
  <1>2. IsFiniteSet(ids)
    BY <1>1, WaitGroupAssumption, FS_Subset
  <1>3. QED
    BY <1>2, FS_CardinalityType

\* A guard that is added is counted, and handed on to later tasks only.
LEMMA InsertInv ==
  ASSUME Inv, NEW g \in Guards, AddByHandle(g) \/ AddByGuard(g)
  PROVE  Inv'
  <1>1. /\ guard[g] = "new" /\ ~locked
        /\ guard' = [guard EXCEPT ![g] = "held"]
        /\ ids' = ids \cup {g}
        /\ UNCHANGED <<locked, waiter, waker, woken, waiting, stream, lastCount>>
        /\ late' = late \/ late' = late \cup {g}
    BY DEF AddByHandle, AddByGuard, Insert
  <1>2. Held' = Held \cup {g}
    BY <1>1 DEF Held, Inv, WaitGroupTypeOK
  <1>3. WaitGroupTypeOK'
    BY <1>1, <1>2 DEF Inv, WaitGroupTypeOK
  <1>4. Mutex'
    BY <1>1 DEF Inv, Mutex
  <1>5. Awake'
    BY <1>1 DEF Inv, Awake
  <1>6. NobodyLeftBehind'
    BY <1>1, <1>2 DEF Inv, NobodyLeftBehind, AddByHandle, AddByGuard
  <1>7. QED
    BY <1>3, <1>4, <1>5, <1>6 DEF Inv

\* A guard that is dropped leaves the group first, and wakes the waiter then.
LEMMA DropInv ==
  ASSUME Inv, NEW g \in Guards, RemoveGuard(g) \/ Wake(g)
  PROVE  Inv'
  <1>1. CASE RemoveGuard(g)
    <2>1. Held' = Held \ {g} /\ guard'[g] = "removed"
      BY <1>1 DEF RemoveGuard, Held, Inv, WaitGroupTypeOK
    <2>2. WaitGroupTypeOK'
      BY <1>1, <2>1 DEF RemoveGuard, Inv, WaitGroupTypeOK
    <2>3. Mutex' /\ Awake'
      BY <1>1, <2>1 DEF RemoveGuard, Inv, Mutex, Awake
    <2>4. NobodyLeftBehind'
      BY <1>1, <2>1 DEF RemoveGuard, Inv, NobodyLeftBehind
    <2>5. QED
      BY <2>2, <2>3, <2>4 DEF Inv
  <1>2. CASE Wake(g)
    <2>1. Held' = Held
      BY <1>2 DEF Wake, Held, Inv, WaitGroupTypeOK
    <2>2. WaitGroupTypeOK'
      BY <1>2, <2>1 DEF Wake, Inv, WaitGroupTypeOK
    <2>3. Mutex' /\ Awake'
      BY <1>2 DEF Wake, Inv, Mutex, Awake, WaitGroupTypeOK
    <2>4. NobodyLeftBehind'
      BY <1>2, <2>1 DEF Wake, Inv, NobodyLeftBehind
    <2>5. QED
      BY <2>2, <2>3, <2>4 DEF Inv
  <1>3. QED
    BY <1>1, <1>2

\* The waiter's own steps.
LEMMA WaiterInv == ASSUME Inv, Waiter PROVE Inv'
  <1>1. Held' = Held
    BY DEF Waiter, AllDone, Check, Register, Repoll, Held
  <1>2. WaitGroupTypeOK'
    BY <1>1, CountIsNat DEF Waiter, AllDone, Check, Register, Repoll, Inv, WaitGroupTypeOK
  <1>3. Mutex'
    BY DEF Waiter, AllDone, Check, Register, Repoll, Inv, Mutex
  <1>4. Awake'
    BY DEF Waiter, AllDone, Check, Register, Repoll, Inv, Mutex, Awake
  <1>5. NobodyLeftBehind'
    BY <1>1 DEF Waiter, AllDone, Check, Register, Repoll, Inv, NobodyLeftBehind, WaitGroupTypeOK
  <1>6. QED
    BY <1>2, <1>3, <1>4, <1>5 DEF Inv

\* Every step keeps the invariant.
LEMMA NextInv == Inv /\ [Next]_vars => Inv'
  <1> SUFFICES ASSUME Inv, [Next]_vars PROVE Inv'
    OBVIOUS
  <1>1. CASE UNCHANGED vars
    BY <1>1 DEF Inv, WaitGroupTypeOK, Mutex, Awake, NobodyLeftBehind, Held, vars
  <1>2. QED
    BY <1>1, InsertInv, DropInv, WaiterInv DEF Next

\* The invariant holds of an empty group.
LEMMA InitInv == Init => Inv
  <1> SUFFICES ASSUME Init PROVE Inv
    OBVIOUS
  <1>1. Held = {}
    BY DEF Init, Held
  <1>2. WaitGroupTypeOK
    BY <1>1 DEF Init, WaitGroupTypeOK
  <1>3. Mutex /\ Awake /\ NobodyLeftBehind
    BY <1>1 DEF Init, Mutex, Awake, NobodyLeftBehind
  <1>4. QED
    BY <1>2, <1>3 DEF Inv

\* The waiter never sleeps over the last guard, however many there are.
THEOREM WakeupsAreNotLost == Spec => []NoLostWakeup
  <1>1. Inv => NoLostWakeup
    BY DEF Inv, Awake, NoLostWakeup
  <1>2. QED
    BY <1>1, InitInv, NextInv, PTL DEF Spec

\* When the waiter is done, so are all tasks that had a guard before.
THEOREM GroupIsDone == Spec => []NobodyLeftBehind
  <1>1. Inv => NobodyLeftBehind
    BY DEF Inv
  <1>2. QED
    BY <1>1, InitInv, NextInv, PTL DEF Spec

\* The guards that are counted are those somebody holds.
THEOREM GuardsAreCounted == Spec => []WaitGroupTypeOK
  <1>1. Inv => WaitGroupTypeOK
    BY DEF Inv
  <1>2. QED
    BY <1>1, InitInv, NextInv, PTL DEF Spec

-----------------------------------------------------------------------------
(* JobHandle *)

HandleTyped ==
  /\ job \in Seq(Statuses) \cup {Nothing} /\ job # <<>>
  /\ ended \in Seq(Statuses) \cup {Nothing} /\ ended # <<>>
  /\ client \in [op : Operations \cup {Nothing}, strategy : Strategies \cup {Nothing}, reading : BOOLEAN,
                 at : {"idle", "base", "poll", "check", "until", "final", "returned", "error"},
                 raw : Seq(Statuses) \cup {Nothing}, base : (Nat \X Statuses) \cup {Nothing},
                 result : Statuses \cup {Nothing}]

\* Once the job has ended it does not change, but may be deleted.
JobEnds ==
  IF ended = Nothing THEN job # Nothing /\ Last(job) \notin Terminal
  ELSE job \in {ended, Nothing} /\ Last(ended) \in Terminal

\* The client takes a result when it has seen the end, and holds on to what it has seen
\* if it caches; what is final is not fetched.
EndIsSeen ==
  /\ client.at = "final" => ended # Nothing
  /\ client.at = "final" /\ client.strategy = "Cache" => Final(client.raw)
  /\ client.reading => ~Final(client.raw) /\ client.at \notin {"idle", "returned", "error"}

HandleInv == HandleTyped /\ JobEnds /\ EndIsSeen /\ FrozenIsFinal /\ ResultIsFinal

\* The executions of a job are not the absence of one, and the last has a status.
LEMMA Executed ==
  ASSUME NEW e \in Seq(Statuses)
  PROVE  /\ e # Nothing
         /\ e # <<>> => Len(e) \in Nat \ {0} /\ Last(e) \in Statuses /\ Last(e) # Nothing /\ LastOf(e) = <<Len(e), Last(e)>>
         /\ LastOf(e) \in (Nat \X Statuses) \cup {Nothing}
<1>1. e # Nothing
  BY HandleAssumption DEF Statuses, Terminal
<1>2. ASSUME e # <<>> PROVE Len(e) \in Nat \ {0} /\ Last(e) \in Statuses
  BY <1>2 DEF Last
<1>3. Nothing \notin Statuses
  BY HandleAssumption DEF Statuses, Terminal
<1> QED
  BY <1>1, <1>2, <1>3 DEF LastOf

LEMMA NothingIsNoJob == Nothing # <<>>
<1>1. <<>> \in Seq(Statuses)
  OBVIOUS
<1> QED
  BY <1>1, Executed

LEMMA HandleInitHolds == HandleInit => HandleInv
<1> SUFFICES ASSUME HandleInit PROVE HandleInv
  OBVIOUS
<1>1. job \in Seq(Statuses) /\ job # <<>> /\ Last(job) \notin Terminal
  <2>1. {"Scheduled", "Ready"} \subseteq Statuses \ Terminal
    BY DEF Statuses, Terminal
  <2>2. PICK s \in {"Scheduled", "Ready"} : job = <<s>>
    BY DEF HandleInit
  <2> QED
    BY <2>1, <2>2 DEF Last
<1>2. HandleTyped
  BY <1>1, NothingIsNoJob DEF HandleInit, HandleTyped
<1>3. JobEnds /\ EndIsSeen /\ FrozenIsFinal /\ ResultIsFinal
  BY <1>1, Executed DEF HandleInit, JobEnds, EndIsSeen, FrozenIsFinal, ResultIsFinal, Final
<1> QED
  BY <1>2, <1>3 DEF HandleInv

\* An execution that has not ended changes its status.
LEMMA Becomes ==
  ASSUME HandleInv, job # Nothing, NEW s \in Statuses
  PROVE  LET e == [job EXCEPT ![Len(job)] = s]
         IN  e \in Seq(Statuses) /\ e # <<>> /\ Len(e) = Len(job) /\ Last(e) = s
<1>1. job \in Seq(Statuses) /\ job # <<>>
  BY DEF HandleInv, HandleTyped
<1> QED
  BY <1>1 DEF Last

LEMMA JobStepHolds ==
  ASSUME HandleInv, JobStep
  PROVE  HandleInv'
<1> USE DEF HandleInv
<1> DEFINE e(s) == [job EXCEPT ![Len(job)] = s]
<1>1. client' = client
  BY DEF JobStep, Due, Started, Retried, Ended, Deleted
\* The job goes on,
<1>2. ASSUME job # Nothing, Last(job) \notin Terminal, ended' = ended,
             job' \in Seq(Statuses), job' # <<>>, Last(job') \notin Terminal
      PROVE  HandleInv'
  <2>1. ended = Nothing
    BY <1>2 DEF JobEnds
  <2> QED
    BY <1>1, <1>2, <2>1, Executed DEF HandleTyped, JobEnds, EndIsSeen, FrozenIsFinal, ResultIsFinal, Final
\* it ends,
<1>3. ASSUME job # Nothing, Last(job) \notin Terminal, ended' = job',
             job' \in Seq(Statuses), job' # <<>>, Last(job') \in Terminal
      PROVE  HandleInv'
  <2>1. ended = Nothing
    BY <1>3 DEF JobEnds
  <2>2. ~Final(client.raw) /\ client.result = Nothing /\ client.at # "final"
    BY <2>1, Executed DEF FrozenIsFinal, ResultIsFinal, EndIsSeen, Final
  <2> QED
    BY <1>1, <1>3, <2>2, Executed DEF HandleTyped, JobEnds, EndIsSeen, FrozenIsFinal, ResultIsFinal, Final
\* or it is deleted.
<1>4. ASSUME Deleted PROVE HandleInv'
  <2>1. job' = Nothing /\ ended' = ended /\ ended # Nothing
    BY <1>4 DEF Deleted
  <2> QED
    BY <1>1, <2>1, NothingIsNoJob DEF HandleTyped, JobEnds, EndIsSeen, FrozenIsFinal, ResultIsFinal, Final
<1>5. ASSUME Due \/ Started PROVE HandleInv'
  <2>1. job # Nothing /\ Last(job) \notin Terminal /\ ended' = ended
        /\ (job' = e("Ready") \/ job' = e("InProgress"))
    BY <1>5 DEF Due, Started, Become, Terminal
  <2>2. {"Ready", "InProgress"} \subseteq Statuses \ Terminal
    BY DEF Statuses, Terminal
  <2> QED
    BY <2>1, <2>2, <1>2, Becomes
<1>6. ASSUME NEW s \in {"Scheduled", "Ready"}, Retried(s) PROVE HandleInv'
  <2>1. job # Nothing /\ Last(job) \notin Terminal /\ ended' = ended /\ job' = Append(e("Failed"), s)
    BY <1>6 DEF Retried, Terminal
  <2>2. "Failed" \in Statuses /\ s \in Statuses /\ s \notin Terminal
    BY DEF Statuses, Terminal
  <2>3. e("Failed") \in Seq(Statuses)
    BY <2>1, <2>2, Becomes
  <2> HIDE DEF e
  <2>4. job' \in Seq(Statuses) /\ job' # <<>> /\ Last(job') = s
    BY <2>1, <2>2, <2>3 DEF Last
  <2> QED
    BY <2>1, <2>2, <2>4, <1>2
<1>7. ASSUME NEW s \in Terminal, Ended(s) PROVE HandleInv'
  <2>1. job # Nothing /\ Last(job) \notin Terminal /\ job' = e(s) /\ ended' = job'
    BY <1>7 DEF Ended, Become
  <2>2. s \in Statuses
    BY DEF Statuses
  <2> QED
    BY <2>1, <2>2, <1>3, Becomes
<1> QED
  BY <1>4, <1>5, <1>6, <1>7 DEF JobStep

\* What the user does with executions that are read, or were when the job had ended.
LEMMA Used ==
  ASSUME HandleTyped, NEW c, NEW e \in Seq(Statuses),
         c \in [op : Operations \cup {Nothing}, strategy : Strategies \cup {Nothing}, reading : BOOLEAN,
                at : {"base", "poll", "check", "until", "final"},
                raw : Seq(Statuses) \cup {Nothing}, base : (Nat \X Statuses) \cup {Nothing},
                result : Statuses \cup {Nothing}]
  PROVE  LET d == Use(c, e)
         IN  /\ d \in [op : Operations \cup {Nothing}, strategy : Strategies \cup {Nothing}, reading : BOOLEAN,
                       at : {"idle", "base", "poll", "check", "until", "final", "returned", "error"},
                       raw : Seq(Statuses) \cup {Nothing}, base : (Nat \X Statuses) \cup {Nothing},
                       result : Statuses \cup {Nothing}]
             /\ d.raw = c.raw /\ d.strategy = c.strategy /\ d.reading = c.reading
             /\ d.at = "final" => Final(e)
             /\ d.result = c.result \/ (c.at = "final" /\ e # <<>> /\ d.result = Last(e))
             /\ c.at = "final" /\ e # <<>> => d.at # "error"
<1>1. e # Nothing /\ (e # <<>> => Last(e) \in Statuses) /\ LastOf(e) \in (Nat \X Statuses) \cup {Nothing}
  BY Executed
<1>2. CASE c.at = "base"
  BY <1>1, <1>2 DEF Use, Base
<1>3. CASE c.at = "poll"
  BY <1>1, <1>3 DEF Use, Poll
<1>4. CASE c.at = "check"
  BY <1>1, <1>4 DEF Use, CheckLast
<1>5. CASE c.at = "until"
  BY <1>1, <1>5 DEF Use, Until, Final
<1>6. CASE c.at = "final"
  BY <1>1, <1>6 DEF Use, WaitResult
<1> QED
  BY <1>2, <1>3, <1>4, <1>5, <1>6

\* The executions of a job that has ended are those of its end.
LEMMA FinalJob ==
  ASSUME HandleInv, job # Nothing, Final(job)
  PROVE  ended # Nothing /\ job = ended
BY DEF HandleInv, JobEnds, Final

LEMMA ClientStepHolds ==
  ASSUME HandleInv, ClientStep
  PROVE  HandleInv' /\ (client.at = "final" /\ client.strategy = "Cache" => client'.at # "error")
<1> USE DEF HandleInv
<1>1. job' = job /\ ended' = ended
  BY DEF ClientStep, ReadRow, ReadExecutions, UseCached
<1>2. CASE ReadRow
  <2>1. client' = [client EXCEPT !.at = "error"] \/ client' = [client EXCEPT !.reading = TRUE]
    BY <1>2 DEF ReadRow
  <2>2. ~Final(client.raw) /\ client.at \notin {"idle", "returned", "error"} /\ ~client.reading
    BY <1>2 DEF ReadRow
  <2> QED
    BY <1>1, <2>1, <2>2 DEF HandleTyped, JobEnds, EndIsSeen, FrozenIsFinal, ResultIsFinal
<1>3. CASE ReadExecutions
  <2> DEFINE e == IF job = Nothing THEN <<>> ELSE job
             c == Cached([client EXCEPT !.reading = FALSE], e)
  <2>1. client.reading /\ client' = Use(c, e)
    BY <1>3 DEF ReadExecutions
  <2>2. ~Final(client.raw) /\ ~(client.at = "final" /\ client.strategy = "Cache")
    BY <2>1 DEF EndIsSeen
  <2>3. e \in Seq(Statuses)
    BY DEF HandleTyped
  <2>4. Final(e) => ended # Nothing /\ e = ended
    BY FinalJob DEF Final
  <2>5. /\ c \in [op : Operations \cup {Nothing}, strategy : Strategies \cup {Nothing}, reading : BOOLEAN,
                  at : {"idle", "base", "poll", "check", "until", "final", "returned", "error"},
                  raw : Seq(Statuses) \cup {Nothing}, base : (Nat \X Statuses) \cup {Nothing},
                  result : Statuses \cup {Nothing}]
        /\ c.at = client.at /\ c.result = client.result /\ ~c.reading /\ c.strategy = client.strategy
        /\ c.raw = IF client.strategy = "Cache" THEN e ELSE client.raw
    BY <2>3 DEF HandleTyped, Cached
  <2> DEFINE d == Use(c, e)
  <2> HIDE DEF e, c
  <2>6. /\ d \in [op : Operations \cup {Nothing}, strategy : Strategies \cup {Nothing}, reading : BOOLEAN,
                  at : {"idle", "base", "poll", "check", "until", "final", "returned", "error"},
                  raw : Seq(Statuses) \cup {Nothing}, base : (Nat \X Statuses) \cup {Nothing},
                  result : Statuses \cup {Nothing}]
        /\ d.raw = c.raw /\ d.strategy = c.strategy /\ ~d.reading
        /\ d.at = "final" => Final(e)
        /\ d.result = client.result \/ (client.at = "final" /\ e # <<>> /\ d.result = Last(e))
    <3>1. client.at \in {"base", "poll", "check", "until", "final"}
      BY <2>1 DEF EndIsSeen, HandleTyped
    <3>2. c \in [op : Operations \cup {Nothing}, strategy : Strategies \cup {Nothing}, reading : BOOLEAN,
                 at : {"base", "poll", "check", "until", "final"},
                 raw : Seq(Statuses) \cup {Nothing}, base : (Nat \X Statuses) \cup {Nothing},
                 result : Statuses \cup {Nothing}]
      BY <2>5, <3>1
    <3> QED
      BY <2>3, <2>5, <3>2, Used
  <2> HIDE DEF d
  \* It is the last execution of the job that has ended.
  <2>7. client.at = "final" /\ e # <<>> => ended # Nothing /\ e = ended
    BY DEF e, EndIsSeen, JobEnds
  <2>8. client' = d
    BY <2>1 DEF d
  <2>9. HandleTyped'
    BY <1>1, <2>6, <2>8 DEF HandleTyped
  <2>10. JobEnds'
    BY <1>1 DEF JobEnds
  <2>11. EndIsSeen'
    BY <1>1, <2>4, <2>5, <2>6, <2>8 DEF EndIsSeen
  <2>12. FrozenIsFinal'
    BY <1>1, <2>2, <2>4, <2>5, <2>6, <2>8 DEF FrozenIsFinal
  <2>13. ResultIsFinal'
    BY <1>1, <2>6, <2>7, <2>8 DEF ResultIsFinal
  <2> QED
    BY <2>2, <2>9, <2>10, <2>11, <2>12, <2>13
<1>4. CASE UseCached
  <2> DEFINE d == Use(client, client.raw)
  <2>1. Final(client.raw) /\ client.at \notin {"idle", "returned", "error"} /\ ~client.reading /\ client' = d
    BY <1>4 DEF UseCached
  <2>2. client.raw \in Seq(Statuses) /\ client.raw # <<>> /\ client.raw = ended /\ ended # Nothing
    BY <2>1 DEF HandleTyped, Final, FrozenIsFinal
  <2>3. client \in [op : Operations \cup {Nothing}, strategy : Strategies \cup {Nothing}, reading : BOOLEAN,
                    at : {"base", "poll", "check", "until", "final"},
                    raw : Seq(Statuses) \cup {Nothing}, base : (Nat \X Statuses) \cup {Nothing},
                    result : Statuses \cup {Nothing}]
    BY <2>1 DEF HandleTyped
  <2>4. /\ d \in [op : Operations \cup {Nothing}, strategy : Strategies \cup {Nothing}, reading : BOOLEAN,
                  at : {"idle", "base", "poll", "check", "until", "final", "returned", "error"},
                  raw : Seq(Statuses) \cup {Nothing}, base : (Nat \X Statuses) \cup {Nothing},
                  result : Statuses \cup {Nothing}]
        /\ d.raw = client.raw /\ ~d.reading
        /\ d.result = client.result \/ d.result = Last(client.raw)
        /\ client.at = "final" => d.at # "error"
    BY <2>1, <2>2, <2>3, Used
  <2> HIDE DEF d
  <2>5. HandleTyped'
    BY <1>1, <2>1, <2>4 DEF HandleTyped
  <2>6. JobEnds'
    BY <1>1 DEF JobEnds
  <2>7. EndIsSeen' /\ FrozenIsFinal' /\ ResultIsFinal'
    BY <1>1, <2>1, <2>2, <2>4 DEF EndIsSeen, FrozenIsFinal, ResultIsFinal
  <2> QED
    BY <2>1, <2>4, <2>5, <2>6, <2>7
<1> QED
  BY <1>2, <1>3, <1>4 DEF ClientStep

LEMMA CallHolds ==
  ASSUME HandleInv, NEW op \in Operations, NEW strategy \in Strategies, NEW listed \in BOOLEAN,
         Call(op, strategy, listed)
  PROVE  HandleInv'
<1> USE DEF HandleInv
<1>1. job # Nothing /\ job' = job /\ ended' = ended
      /\ client' = [op |-> op, strategy |-> strategy, reading |-> FALSE,
                    at |-> IF op = "result" THEN "until" ELSE "base",
                    raw |-> IF listed THEN job ELSE Nothing, base |-> Nothing, result |-> Nothing]
  BY DEF Call
<1>2. HandleTyped'
  BY <1>1 DEF HandleTyped
<1>3. Final(job) => job = ended
  BY <1>1, FinalJob
<1> QED
  BY <1>1, <1>2, <1>3 DEF JobEnds, EndIsSeen, FrozenIsFinal, ResultIsFinal, Final

\* A result a client is given is that of the last execution of a job that has ended; the
\* client holds on to executions only when nothing of them can change, and with the cache
\* a deletion takes no result away (JobHandle, Job::wait_result and Job::fetch_raw).
THEOREM ResultCorrect == HandleSpec => ResultIsRight
<1>1. HandleInv /\ [HandleNext]_handleVars => HandleInv'
  <2> SUFFICES ASSUME HandleInv, [HandleNext]_handleVars PROVE HandleInv'
    OBVIOUS
  <2>1. CASE UNCHANGED handleVars
    BY <2>1 DEF handleVars, HandleInv, HandleTyped, JobEnds, EndIsSeen, FrozenIsFinal, ResultIsFinal
  <2>2. CASE HandleNext
    BY <2>2, JobStepHolds, ClientStepHolds, CallHolds DEF HandleNext
  <2> QED
    BY <2>1, <2>2
<1>2. HandleInv /\ [HandleNext]_handleVars =>
        [client.at = "final" /\ client.strategy = "Cache" => client'.at # "error"]_handleVars
  <2> SUFFICES ASSUME HandleInv, HandleNext, client.at = "final", client.strategy = "Cache"
               PROVE  client'.at # "error"
    BY DEF handleVars
  <2>1. CASE JobStep
    BY <2>1 DEF JobStep, Due, Started, Retried, Ended, Deleted
  <2>2. CASE ClientStep
    BY <2>2, ClientStepHolds
  <2> QED
    BY <2>1, <2>2 DEF HandleNext, Call
<1>3. HandleInv => ResultIsFinal /\ FrozenIsFinal
  BY DEF HandleInv
<1> QED
  BY <1>1, <1>2, <1>3, HandleInitHolds, PTL DEF HandleSpec, ResultIsRight, ResultSurvivesDeletion
============================================================================
