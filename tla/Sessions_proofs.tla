----------------------------- MODULE Sessions_proofs -----------------------------
(***************************************************************************)
(* What is proved about a socket and its sessions, for every number of     *)
(* sessions and messages and every application.                            *)
(***************************************************************************)
EXTENDS Sessions, DataTheorems

(***************************************************************************)
(* The invariant: the types, first.                                        *)
(***************************************************************************)
PeerTasks == {"ready", "disconnect", "disconnect_peer", "disconnected", "stop_endpoint",
              "destroy_endpoint", "send"}
Tasks == {<<"stop">>, <<"stop_protocol">>, <<"destroy_protocol">>}
         \union (PeerTasks \X Sessions) \union ({"dispatcher"} \X Messages \X Sessions)
Rests == {<<>>} \union ({"connected", "denied", "let_go"} \X Sessions)
         \union ({"completed"} \X Messages \X Sessions)

PeerRecord == [state : {"none", "requesting", "connected", "denied", "disconnecting", "disconnected"},
               extra : BOOLEAN]
SessionRecord == [life : {"fresh", "live", "released"}, state : {"CONNECTING", "CONNECTED", "DISCONNECTED"},
                  peer : BOOLEAN, endpoint : BOOLEAN, ready : BOOLEAN]
EndpointRecord == [life : {"fresh", "live", "released"}, extra : BOOLEAN, ready : BOOLEAN, scheduled : BOOLEAN]
BusRecord == [pending : Seq(Messages), current : Messages \union {None}, processing : BOOLEAN, stop : BOOLEAN]
SenderRecord == [phase : {"free", "summing", "dispatching", "done"}, records : SUBSET Sessions,
                 todo : Seq(Sessions), completed : Nat]
DispatcherRecord == [stage : {"none", "pending", "dispatch", "acking", "complete", "done"}, canceled : BOOLEAN]

\* session, peer, endpoint, what was told, the tasks, and what the callback's task has left
SlotOK(s, p, e, t, w, r, c) ==
    /\ s.life = "fresh" =>
          /\ ~ s.ready /\ e.life = "fresh" /\ ~ e.extra /\ ~ e.ready /\ ~ e.scheduled
          /\ t = <<>> /\ \A k \in PeerTasks : <<k, c>> \notin w
    /\ s.endpoint <=> s.life = "live"
    /\ s.peer <=> p.extra
    /\ p.extra => s.life = "live" /\ p.state = "connected"
    /\ p.state = "requesting" => s.life = "fresh"
    /\ s.life = "live" =>
          /\ e.life = "live" /\ e.extra /\ e.scheduled /\ <<"destroy_endpoint", c>> \notin w
          /\ s.peer \/ <<"disconnected", c>> \in w \/ r = <<"let_go", c>>
          /\ <<"stop_endpoint", c>> \in w => r = <<"let_go", c>>
          /\ e.ready <=> s.ready \/ <<"ready", c>> \in w
          /\ t = IF ~ s.ready THEN <<>>
                 ELSE IF r = <<"let_go", c>> THEN <<"connected", "disconnected">> ELSE <<"connected">>
    /\ s.life # "live" =>
          /\ e.scheduled => <<"stop_endpoint", c>> \in w \/ <<"destroy_endpoint", c>> \in w
          /\ e.life = "live" => <<"destroy_endpoint", c>> \in w
    /\ <<"disconnected", c>> \in w => ~ s.peer /\ r # <<"let_go", c>>
    /\ r = <<"let_go", c>> => s.life = "live" /\ ~ s.peer /\ s.ready /\ <<"stop_endpoint", c>> \in w
    /\ <<"ready", c>> \in w => s.life = "live" /\ s.peer /\ ~ s.ready
    /\ <<"disconnect_peer", c>> \in w => p.state # "none"
    /\ s.life = "fresh" /\ p.state = "connected" => r = <<"connected", c>>
    /\ r = <<"connected", c>> => s.life = "fresh" /\ p.state = "connected"
    /\ r = <<"denied", c>> => s.life = "fresh" /\ p.state = "denied"

Slots == \A c \in Sessions :
            SlotOK(session[c], peer[c], endpoint[c], told[c], ToSet(queue), frame.rest, c)

Protocol(w) ==
    /\ proto.state = "STOPPING" <=> <<"stop_protocol">> \in w
    /\ proto.state = "STOPPING" => \A c \in Sessions : ~ peer[c].extra
    /\ proto.state \in {"NONE", "STOPPED"} => \A c \in Sessions : peer[c].state = "none"
    /\ <<"destroy_protocol">> \in w => proto.state \in {"STOPPING", "STOPPED"} /\ api.state = "STOPPED"
    /\ proto.state = "RUNNING" => proto.mode # "NONE"
    /\ \A c \in Sessions : peer[c].state = "requesting" => proto.mode = "CLIENT"
    /\ proto.mode = "CLIENT" => \A c, d \in Sessions : peer[c].state # "none" /\ peer[d].state # "none" => c = d
    /\ api.state = "STOPPED" => /\ proto.state = "NONE" \/ <<"destroy_protocol">> \in w
                                /\ \A c \in Sessions : session[c].life # "live"
    /\ api.state = "STOPPING" <=> <<"stop">> \in w
    /\ proto.state = "NONE" => api.state = "STOPPED"
    /\ \A c \in Sessions : frame.rest \in {<<"connected", c>>, <<"denied", c>>} =>
                              proto.state = "RUNNING" /\ proto.mode = "CLIENT"

Orders ==
    /\ \A c \in Sessions : ~ Precedes(queue, <<"stop_protocol">>, <<"disconnect_peer", c>>)
    /\ ~ Precedes(queue, <<"destroy_protocol">>, <<"stop_protocol">>)
    /\ \A c \in Sessions : <<"ready", c>> \in ToSet(queue) => ToSet(queue) = {<<"ready", c>>} /\ frame = NoFrame

LifeTypeOK ==
    /\ api \in [state : {"STOPPED", "STOPPING", "RUNNING_CLIENT", "RUNNING_SERVER"}, starts : Nat]
    /\ proto \in [state : {"NONE", "RUNNING", "STOPPING", "STOPPED"}, mode : {"NONE", "SERVER", "CLIENT"}, extra : BOOLEAN]
    /\ listed \in Seq(Sessions) /\ IsInjective(listed)
    /\ ToSet(listed) = {c \in Sessions : session[c].life = "live"}
    /\ peer \in [Sessions -> PeerRecord]
    /\ session \in [Sessions -> SessionRecord]
    /\ endpoint \in [Sessions -> EndpointRecord]
    /\ queue \in Seq(Tasks) /\ IsInjective(queue)
    /\ frame \in [of : Callbacks, rest : Rests]
    /\ frame.of = "none" => frame = NoFrame
    /\ manner \in Manners
    /\ DOMAIN told = Sessions

LifeInv == LifeTypeOK /\ Slots /\ Protocol(ToSet(queue)) /\ Orders

BusOK(b, ds, w, life, c) ==   \* ds[m]: the dispatcher of each message
    /\ b.processing <=> <<"send", c>> \in w
    /\ b.stop => b.processing
    /\ IsInjective(b.pending)
    /\ b.pending # <<>> => b.processing \/ b.current # None
    /\ \A m \in Messages :
          /\ m \in ToSet(b.pending) <=> ds[m].stage = "pending"
          /\ b.current = m => ds[m].stage \in {"dispatch", "acking", "complete"} /\ ~ ds[m].canceled
          /\ ds[m].stage = "dispatch" /\ m \in Reliable => b.current = m
          /\ ds[m].stage = "acking" => b.current = m /\ (life = "live" \/ <<"stop_endpoint", c>> \in w \/ b.stop)

DispatcherOK(d, w, r, m, c) ==
    /\ <<"dispatcher", m, c>> \in w <=> d.stage \in {"dispatch", "complete"} /\ r # <<"completed", m, c>>
    /\ r = <<"completed", m, c>> => d.stage = "complete"
    /\ d.canceled => d.stage \in {"complete", "done"}

Counted(m) == {c \in Sessions : dispatcher[m][c].stage = "done" \/ frame.rest = <<"completed", m, c>>}

SenderOK(s, a, counted) ==
    /\ s.phase = "free" => s.records = {} /\ s.todo = <<>> /\ a = 0
    /\ s.phase = "summing" => s.records # {} /\ s.todo = <<>> /\ a = 0
    /\ s.phase = "dispatching" => a = 0 /\ counted # s.records
    /\ s.phase = "done" => a = 1 /\ s.todo = <<>> /\ counted = s.records
    /\ IsInjective(s.todo) /\ ToSet(s.todo) \subseteq s.records
    /\ s.completed = Cardinality(counted)

Expects(s, c) == c \in s.records /\ s.phase # "summing" /\ c \notin ToSet(s.todo)

SendTypeOK ==
    /\ bus \in [Sessions -> BusRecord]
    /\ sender \in [Messages -> SenderRecord]
    /\ dispatcher \in [Messages -> [Sessions -> DispatcherRecord]]
    /\ answered \in [Messages -> Nat]

SendInv ==
    /\ SendTypeOK
    /\ \A c \in Sessions : BusOK(bus[c], [m \in Messages |-> dispatcher[m][c]], ToSet(queue), session[c].life, c)
    /\ \A m \in Messages, c \in Sessions :
          /\ DispatcherOK(dispatcher[m][c], ToSet(queue), frame.rest, m, c)
          /\ dispatcher[m][c].stage = "none" <=> ~ Expects(sender[m], c)
          /\ c \in sender[m].records => session[c].life # "fresh"
    /\ \A m \in Messages : SenderOK(sender[m], answered[m], Counted(m))

CoreInv == LifeInv /\ SendInv


-----------------------------------------------------------------------------
(***************************************************************************)
(* What Among and Without do to the order of a list.                       *)
(***************************************************************************)
LEMMA AmongOrder ==
    ASSUME NEW S, NEW s \in Seq(S), NEW T
    PROVE  /\ Among(s, T) \in Seq(S \intersect T) /\ ToSet(Among(s, T)) = ToSet(s) \intersect T
           /\ \A x, y : Precedes(Among(s, T), x, y) <=> Precedes(s, x, y) /\ x \in T /\ y \in T
<1>1. \E f : Keeps(f, s, T)
  BY KeptExists
<1>2. \E f : Keeps(f, s, T) /\ Among(s, T) = f[Len(s)]
  BY <1>1 DEF Keeps, Among
<1> QED BY <1>2, KeptOrder

LEMMA AmongInjective ==
    ASSUME NEW S, NEW s \in Seq(S), NEW T, IsInjective(s)
    PROVE  IsInjective(Among(s, T)) /\ Among(s, T) \in Seq(S)
<1> DEFINE U == S \intersect T
<1>1. Among(s, T) \in Seq(U)
  BY AmongOrder
<1>2. \A x : ~ Precedes(Among(s, T), x, x)
  BY AmongOrder, InjectiveOrder
<1>3. IsInjective(Among(s, T))
  BY <1>1, <1>2, InjectiveOrder
<1>4. Seq(U) \subseteq Seq(S)
  OBVIOUS
<1> QED BY <1>1, <1>3, <1>4

LEMMA WithoutOrder ==
    ASSUME NEW S, NEW s \in Seq(S), NEW e
    PROVE  /\ Without(s, e) \in Seq(S) /\ ToSet(Without(s, e)) = ToSet(s) \ {e}
           /\ \A x, y : Precedes(Without(s, e), x, y) <=> Precedes(s, x, y) /\ x # e /\ y # e
           /\ IsInjective(s) => IsInjective(Without(s, e))
<1> DEFINE T == ToSet(s) \ {e}
<1>1. Without(s, e) = Among(s, T)
  BY DEF Without, ToSet
<1>2. \A x, y : Precedes(s, x, y) => x \in ToSet(s) /\ y \in ToSet(s)
  BY DEF Precedes, ToSet
<1>3. /\ Among(s, T) \in Seq(S \intersect T) /\ ToSet(Among(s, T)) = ToSet(s) \intersect T
      /\ \A x, y : Precedes(Among(s, T), x, y) <=> Precedes(s, x, y) /\ x \in T /\ y \in T
  BY AmongOrder
<1>4. Seq(S \intersect T) \subseteq Seq(S)
  OBVIOUS
<1>5. IsInjective(s) => IsInjective(Without(s, e))
  BY <1>1, AmongInjective
<1> QED BY <1>1, <1>2, <1>3, <1>4, <1>5


-----------------------------------------------------------------------------
(***************************************************************************)
(* The sequencer's queue holds no task twice; what the proofs need of it   *)
(* is which tasks it holds and which come before which.                    *)
(***************************************************************************)
QueueOK(q) == q \in Seq(Tasks) /\ IsInjective(q)

LEMMA SubmitOrder ==
    ASSUME NEW q, QueueOK(q), NEW t \in Tasks
    PROVE  /\ QueueOK(Submit(q, t)) /\ ToSet(Submit(q, t)) = ToSet(q) \union {t}
           /\ \A x, y : Precedes(Submit(q, t), x, y) <=>
                  \/ Precedes(q, x, y) /\ x # t /\ y # t
                  \/ x \in ToSet(q) /\ x # t /\ y = t
<1> DEFINE a == Without(q, t)
<1>1. /\ a \in Seq(Tasks) /\ IsInjective(a) /\ ToSet(a) = ToSet(q) \ {t}
      /\ \A x, y : Precedes(a, x, y) <=> Precedes(q, x, y) /\ x # t /\ y # t
  BY WithoutOrder DEF QueueOK
<1>2. Submit(q, t) = Append(a, t)
  BY DEF Submit
<1> HIDE DEF a
<1>3. /\ Append(a, t) \in Seq(Tasks) /\ ToSet(Append(a, t)) = ToSet(a) \union {t}
      /\ \A x, y : Precedes(Append(a, t), x, y) <=> Precedes(a, x, y) \/ (x \in ToSet(a) /\ y = t)
  BY <1>1, AppendOrder
<1>4. \A x : ~ Precedes(a, x, x)
  BY <1>1, InjectiveOrder
<1>5. \A x : ~ Precedes(Append(a, t), x, x)
  BY <1>1, <1>3, <1>4
<1>6. IsInjective(Append(a, t))
  BY <1>3, <1>5, InjectiveOrder
<1> QED
  BY <1>1, <1>2, <1>3, <1>6 DEF QueueOK

LEMMA SubmitAllOrder ==
    ASSUME NEW q, QueueOK(q), NEW more, QueueOK(more)
    PROVE  /\ QueueOK(SubmitAll(q, more)) /\ ToSet(SubmitAll(q, more)) = ToSet(q) \union ToSet(more)
           /\ \A x, y : Precedes(SubmitAll(q, more), x, y) <=>
                  \/ Precedes(q, x, y) /\ x \notin ToSet(more) /\ y \notin ToSet(more)
                  \/ Precedes(more, x, y)
                  \/ x \in ToSet(q) /\ x \notin ToSet(more) /\ y \in ToSet(more)
<1> DEFINE T == ToSet(q) \ ToSet(more)
           a == Among(q, T)
<1>0. q \in Seq(Tasks) /\ IsInjective(q) /\ more \in Seq(Tasks) /\ IsInjective(more)
  BY DEF QueueOK
<1>1. SubmitAll(q, more) = a \o more
  BY DEF SubmitAll
<1>a. \A x, y : Precedes(q, x, y) => x \in ToSet(q) /\ y \in ToSet(q)
  BY DEF Precedes, ToSet
<1> HIDE DEF T
<1>2. /\ a \in Seq(Tasks \intersect T) /\ ToSet(a) = ToSet(q) \intersect T
      /\ \A x, y : Precedes(a, x, y) <=> Precedes(q, x, y) /\ x \in T /\ y \in T
  BY <1>0, AmongOrder
<1>3. IsInjective(a) /\ a \in Seq(Tasks)
  BY <1>0, <1>2, AmongInjective
<1> HIDE DEF a
<1>4. /\ a \o more \in Seq(Tasks) /\ ToSet(a \o more) = ToSet(a) \union ToSet(more)
      /\ \A x, y : Precedes(a \o more, x, y) <=>
             Precedes(a, x, y) \/ Precedes(more, x, y) \/ (x \in ToSet(a) /\ y \in ToSet(more))
  BY <1>0, <1>3, ConcatOrder
<1>5. \A x : ~ Precedes(a, x, x) /\ ~ Precedes(more, x, x)
  BY <1>0, <1>3, InjectiveOrder
<1>6. \A x : ~ Precedes(a \o more, x, x)
  BY <1>2, <1>4, <1>5 DEF T
<1>7. IsInjective(a \o more)
  BY <1>4, <1>6, InjectiveOrder
<1>8. ToSet(a) \union ToSet(more) = ToSet(q) \union ToSet(more) /\ ToSet(a) = ToSet(q) \ ToSet(more)
  BY <1>2 DEF T
<1>9. ASSUME NEW x, NEW y
      PROVE  Precedes(a \o more, x, y) <=>
                  \/ Precedes(q, x, y) /\ x \notin ToSet(more) /\ y \notin ToSet(more)
                  \/ Precedes(more, x, y)
                  \/ x \in ToSet(q) /\ x \notin ToSet(more) /\ y \in ToSet(more)
  <2>1. Precedes(a, x, y) <=> Precedes(q, x, y) /\ x \notin ToSet(more) /\ y \notin ToSet(more)
    BY <1>2, <1>a DEF T
  <2> QED
    BY <1>4, <1>8, <2>1
<1> QED
  BY <1>1, <1>4, <1>7, <1>8, <1>9 DEF QueueOK

LEMMA RunningOrder ==
    ASSUME NEW q, QueueOK(q), q # <<>>
    PROVE  /\ QueueOK(Tail(q)) /\ Head(q) \in ToSet(q) /\ ToSet(Tail(q)) = ToSet(q) \ {Head(q)}
           /\ \A x, y : Precedes(Tail(q), x, y) <=> Precedes(q, x, y) /\ x # Head(q)
           /\ \A x : ~ Precedes(q, x, Head(q))
           /\ \A x \in ToSet(q) : x = Head(q) \/ Precedes(q, Head(q), x)
  BY TailOrder DEF QueueOK

LEMMA PrecedesMember ==
    ASSUME NEW q, NEW x, NEW y, Precedes(q, x, y) PROVE x \in ToSet(q) /\ y \in ToSet(q)
  BY DEF Precedes, ToSet

LEMMA OneTask ==
    ASSUME NEW t \in Tasks
    PROVE  /\ QueueOK(<<t>>) /\ ToSet(<<t>>) = {t} /\ \A x, y : ~ Precedes(<<t>>, x, y)
  BY DEF QueueOK, ToSet, Precedes, IsInjective

\* The tasks that are made of the elements of a list.
LEMMA MappedOrder ==
    ASSUME NEW S, NEW s \in Seq(S), IsInjective(s), NEW tasks, DOMAIN tasks = DOMAIN s,
           \A i \in DOMAIN s : tasks[i] \in Tasks, tasks = [i \in DOMAIN s |-> tasks[i]],
           \A i, j \in DOMAIN s : tasks[i] = tasks[j] => s[i] = s[j]
    PROVE  QueueOK(tasks)
<1>1. DOMAIN s = 1 .. Len(s) /\ Len(s) \in Nat
  OBVIOUS
<1>2. tasks \in Seq(Tasks)
  BY <1>1
<1>3. IsInjective(tasks)
  BY DEF IsInjective
<1> QED
  BY <1>2, <1>3 DEF QueueOK

-----------------------------------------------------------------------------
(***************************************************************************)
(* The life of a session.  A step about one slot leaves the others alone.  *)
(***************************************************************************)
SameTasks(v, w, c) == \A k \in PeerTasks : <<k, c>> \in v <=> <<k, c>> \in w
SameRest(q, r, c) == \A k \in {"connected", "denied", "let_go"} : q = <<k, c>> <=> r = <<k, c>>

LEMMA SlotSame ==
    ASSUME NEW s, NEW p, NEW e, NEW t, NEW w, NEW r, NEW c, NEW v, NEW q,
           SlotOK(s, p, e, t, w, r, c), SameTasks(v, w, c), SameRest(q, r, c)
    PROVE  SlotOK(s, p, e, t, v, q, c)
  BY DEF SlotOK, PeerTasks, SameTasks, SameRest

\* ... whichever step is about another slot.
LEMMA OtherSlot ==
    ASSUME LifeInv, NEW d \in Sessions,
           session'[d] = session[d], peer'[d] = peer[d], endpoint'[d] = endpoint[d], told'[d] = told[d],
           SameTasks(ToSet(queue'), ToSet(queue), d), SameRest(frame'.rest, frame.rest, d)
    PROVE  SlotOK(session'[d], peer'[d], endpoint'[d], told'[d], ToSet(queue'), frame'.rest, d)
<1>1. SlotOK(session[d], peer[d], endpoint[d], told[d], ToSet(queue), frame.rest, d)
  BY DEF LifeInv, Slots
<1>2. SlotOK(session[d], peer[d], endpoint[d], told[d], ToSet(queue'), frame'.rest, d)
  BY <1>1, SlotSame, Zenon
<1> QED
  BY <1>2, Zenon

\* A list of the sessions that live stays one as long as no session begins or ends to.
LEMMA ListedSame ==
    ASSUME LifeInv, UNCHANGED listed, \A d \in Sessions : session'[d].life = session[d].life
    PROVE  listed' \in Seq(Sessions) /\ IsInjective(listed') /\ ToSet(listed') = {c \in Sessions : session'[c].life = "live"}
  BY DEF LifeInv, LifeTypeOK

LEMMA LifeTypes ==
    ASSUME LifeInv
    PROVE  /\ QueueOK(queue) /\ frame.rest \in Rests /\ (frame.of = "none" => frame = NoFrame)
           /\ \A c \in Sessions : SlotOK(session[c], peer[c], endpoint[c], told[c], ToSet(queue), frame.rest, c)
           /\ \A c \in Sessions : session[c] \in SessionRecord /\ peer[c] \in PeerRecord
                                  /\ endpoint[c] \in EndpointRecord
  BY DEF LifeInv, LifeTypeOK, Slots, QueueOK

\* What is known of the task that runs, and of the tasks behind it.
LEMMA Runs ==
    ASSUME LifeInv, NEW t, Running(t)
    PROVE  /\ t \in Tasks /\ t \in ToSet(queue) /\ frame = NoFrame /\ frame.rest = <<>> /\ frame.of = "none"
           /\ QueueOK(Tail(queue)) /\ ToSet(Tail(queue)) = ToSet(queue) \ {t}
           /\ \A x, y : Precedes(Tail(queue), x, y) <=> Precedes(queue, x, y) /\ x # t
           /\ \A x : ~ Precedes(queue, x, t)
           /\ \A x \in ToSet(queue) : x = t \/ Precedes(queue, t, x)
<1>1. QueueOK(queue) /\ queue # <<>> /\ Head(queue) = t /\ frame = NoFrame
  BY LifeTypes DEF Running
<1>2. \A x \in ToSet(queue) : x \in Tasks
  BY <1>1 DEF QueueOK, ToSet
<1> QED
  BY <1>1, <1>2, RunningOrder DEF NoFrame

\* When nothing runs and nothing waits.
LEMMA Idles ==
    ASSUME LifeInv, Idle
    PROVE  /\ ToSet(queue) = {} /\ queue = <<>> /\ frame = NoFrame /\ frame.rest = <<>> /\ frame.of = "none"
           /\ \A x, y : ~ Precedes(queue, x, y)
  BY EmptyOrder DEF Idle, NoFrame

LEMMA LifeOnReady ==
    ASSUME LifeInv, NEW c \in Sessions, OnReady(c)
    PROVE  LifeInv'
<1>1. Running(<<"ready", c>>) /\ queue' = Tail(queue)
  BY DEF OnReady
<1>2. /\ <<"ready", c>> \in ToSet(queue) /\ frame.rest = <<>> /\ frame = NoFrame
      /\ QueueOK(Tail(queue)) /\ ToSet(queue') = ToSet(queue) \ {<<"ready", c>>}
  BY <1>1, Runs
<1>3. ToSet(queue) = {<<"ready", c>>}
  BY <1>2 DEF LifeInv, Orders
<1>4. ToSet(queue') = {}
  BY <1>2, <1>3
<1>5. \A x, y : ~ Precedes(queue', x, y)
  BY <1>4, PrecedesMember
<1>6. SlotOK(session[c], peer[c], endpoint[c], told[c], ToSet(queue), frame.rest, c)
  BY LifeTypes
<1>7. endpoint[c].extra /\ session[c].life = "live" /\ session[c].peer /\ ~ session[c].ready
  BY <1>2, <1>6 DEF SlotOK
<1>8. /\ session' = [session EXCEPT ![c].ready = TRUE, ![c].state = "CONNECTED"]
      /\ told' = [told EXCEPT ![c] = Append(@, "connected")]
      /\ frame' = [of |-> "connected", rest |-> <<>>]
      /\ UNCHANGED <<api, proto, listed, peer, endpoint, manner>>
  BY <1>7 DEF OnReady, Callback
<1>9. LifeTypeOK'
  <2>0. /\ session' = [d \in Sessions |-> IF d = c THEN [session[c] EXCEPT !.ready = TRUE, !.state = "CONNECTED"]
                                         ELSE session[d]]
        /\ session[c] \in SessionRecord
    BY <1>8 DEF LifeInv, LifeTypeOK
  <2>a. [session[c] EXCEPT !.ready = TRUE, !.state = "CONNECTED"] \in SessionRecord
    BY <2>0 DEF SessionRecord
  <2>b. [session[c] EXCEPT !.ready = TRUE, !.state = "CONNECTED"].life = session[c].life
    BY <2>0 DEF SessionRecord
  <2>1. session' \in [Sessions -> SessionRecord] /\ \A d \in Sessions : session'[d].life = session[d].life
    BY <2>0, <2>a, <2>b DEF LifeInv, LifeTypeOK
  <2>2. frame' \in [of : Callbacks, rest : Rests] /\ frame'.of # "none" /\ DOMAIN told' = Sessions
    BY <1>8 DEF LifeInv, LifeTypeOK, Callbacks, Rests
  <2> QED
    BY <1>1, <1>2, <1>8, <2>1, <2>2, ListedSame DEF LifeInv, LifeTypeOK, QueueOK
<1>10. Slots'
  <2> SUFFICES ASSUME NEW d \in Sessions
               PROVE  SlotOK(session'[d], peer'[d], endpoint'[d], told'[d], ToSet(queue'), frame'.rest, d)
    BY DEF Slots
  <2>1. SlotOK(session[d], peer[d], endpoint[d], told[d], ToSet(queue), frame.rest, d)
    BY LifeTypes
  <2>2. CASE d # c
    <3>1. session'[d] = session[d] /\ told'[d] = told[d] /\ frame'.rest = <<>>
      BY <1>8, <2>2 DEF LifeInv, LifeTypeOK
    <3>2. SameTasks(ToSet(queue'), ToSet(queue), d) /\ SameRest(frame'.rest, frame.rest, d)
      BY <1>2, <1>3, <1>4, <2>2, <3>1 DEF SameTasks, SameRest
    <3> QED
      BY <1>8, <3>1, <3>2, OtherSlot
  <2>3. CASE d = c
    <3>1. /\ session'[c] = [session[c] EXCEPT !.ready = TRUE, !.state = "CONNECTED"]
          /\ told'[c] = Append(told[c], "connected") /\ frame'.rest = <<>>
      BY <1>8 DEF LifeInv, LifeTypeOK
    <3>2. told[c] = <<>>
      BY <1>6, <1>7 DEF SlotOK
    <3>3. /\ session'[c].life = session[c].life /\ session'[c].peer = session[c].peer
          /\ session'[c].endpoint = session[c].endpoint /\ session'[c].ready = TRUE
      BY <3>1, LifeTypes DEF SessionRecord
    <3>4. told'[c] = <<"connected">>
      BY <3>1, <3>2
    <3>5. endpoint[c].ready
      BY <1>2, <1>6, <1>7 DEF SlotOK
    <3> QED
      BY <1>2, <1>3, <1>4, <1>7, <1>8, <2>3, <3>1, <3>3, <3>4, <3>5, <1>6 DEF SlotOK, PeerTasks
  <2> QED
    BY <2>2, <2>3
<1>11. Protocol(ToSet(queue))'
  BY <1>3, <1>4, <1>8, LifeTypes DEF LifeInv, Protocol, LifeTypeOK
<1>12. Orders'
  BY <1>4, <1>5 DEF Orders
<1> QED
  BY <1>9, <1>10, <1>11, <1>12 DEF LifeInv

LEMMA ProtoTypes ==
    ASSUME LifeInv
    PROVE  /\ api.state \in {"STOPPED", "STOPPING", "RUNNING_CLIENT", "RUNNING_SERVER"} /\ api.starts \in Nat
           /\ proto.state \in {"NONE", "RUNNING", "STOPPING", "STOPPED"}
           /\ proto.mode \in {"NONE", "SERVER", "CLIENT"} /\ proto.extra \in BOOLEAN
  BY DEF LifeInv, LifeTypeOK

LEMMA LifeListen == ASSUME LifeInv, Listen PROVE LifeInv'
<1>1. /\ Idle /\ api.state = "STOPPED"
      /\ api' = [state |-> "RUNNING_SERVER", starts |-> api.starts + 1]
      /\ proto' = [state |-> "RUNNING", mode |-> "SERVER", extra |-> TRUE]
      /\ UNCHANGED <<listed, peer, session, endpoint, queue, frame, manner, told>>
  BY DEF Listen, StartProtocol, objects
<1>2. ToSet(queue) = {} /\ frame.rest = <<>>
  BY <1>1, Idles
<1>3. \A c \in Sessions : peer[c].state = "none"
  BY <1>1, <1>2 DEF LifeInv, Protocol
<1>4. LifeTypeOK'
  BY <1>1, ProtoTypes DEF LifeInv, LifeTypeOK
<1>5. Protocol(ToSet(queue))'
  BY <1>1, <1>2, <1>3 DEF Protocol
<1> QED
  BY <1>1, <1>4, <1>5 DEF LifeInv, Slots, Orders

LEMMA LifeConnect == ASSUME LifeInv, NEW c \in Sessions, Connect(c) PROVE LifeInv'
<1>1. /\ Idle /\ api.state = "STOPPED" /\ peer[c].state = "none" /\ session[c].life = "fresh"
      /\ api' = [state |-> "RUNNING_CLIENT", starts |-> api.starts + 1]
      /\ proto' = [state |-> "RUNNING", mode |-> "CLIENT", extra |-> TRUE]
      /\ peer' = [peer EXCEPT ![c].state = "requesting"]
      /\ UNCHANGED <<listed, session, endpoint, queue, frame, manner, told>>
  BY DEF Connect, StartProtocol
<1>2. ToSet(queue) = {} /\ frame.rest = <<>>
  BY <1>1, Idles
<1>3. \A d \in Sessions : peer[d].state = "none"
  BY <1>1, <1>2 DEF LifeInv, Protocol
<1>4. /\ \A d \in Sessions : peer'[d] = IF d = c THEN [peer[c] EXCEPT !.state = "requesting"] ELSE peer[d]
      /\ [peer[c] EXCEPT !.state = "requesting"] \in PeerRecord
      /\ [peer[c] EXCEPT !.state = "requesting"].extra = peer[c].extra
      /\ [peer[c] EXCEPT !.state = "requesting"].state = "requesting"
      /\ DOMAIN peer' = Sessions
  BY <1>1 DEF LifeInv, LifeTypeOK, PeerRecord
<1>5. LifeTypeOK'
  <2>1. peer' \in [Sessions -> PeerRecord]
    BY <1>1, <1>4 DEF LifeInv, LifeTypeOK
  <2> QED
    BY <1>1, <2>1, ProtoTypes DEF LifeInv, LifeTypeOK
<1>6. Protocol(ToSet(queue))'
  BY <1>1, <1>2, <1>3, <1>4 DEF Protocol
<1>7. Slots'
  <2> SUFFICES ASSUME NEW d \in Sessions
               PROVE  SlotOK(session'[d], peer'[d], endpoint'[d], told'[d], ToSet(queue'), frame'.rest, d)
    BY DEF Slots
  <2>1. SlotOK(session[d], peer[d], endpoint[d], told[d], ToSet(queue), frame.rest, d)
    BY LifeTypes
  <2>2. CASE d # c
    BY <1>1, <1>4, <2>1, <2>2
  <2>3. CASE d = c
    BY <1>1, <1>2, <1>3, <1>4, <2>1, <2>3 DEF SlotOK
  <2> QED
    BY <2>2, <2>3
<1> QED
  BY <1>1, <1>5, <1>6, <1>7 DEF LifeInv, Orders

\* A session begins, on either side.
LEMMA LifeConnected ==
    ASSUME LifeInv, NEW c \in Sessions, OnConnected(c), session[c].life = "fresh",
           proto.state = "RUNNING", proto.mode = "SERVER" \/ peer[c].state # "none",
           UNCHANGED <<api, proto, queue, manner, told>>, frame' = frame \/ frame' = NoFrame,
           \A k \in {"connected", "denied", "let_go"} : frame'.rest # <<k, c>>,
           \A d \in Sessions \ {c} : SameRest(frame'.rest, frame.rest, d)
    PROVE  LifeInv'
<1>1. /\ peer' = [peer EXCEPT ![c] = [state |-> "connected", extra |-> TRUE]]
      /\ session' = [session EXCEPT ![c] = [life |-> "live", state |-> "CONNECTING", peer |-> TRUE,
                                            endpoint |-> TRUE, ready |-> FALSE]]
      /\ endpoint' = [endpoint EXCEPT ![c] = [life |-> "live", extra |-> TRUE, ready |-> FALSE,
                                              scheduled |-> TRUE]]
      /\ listed' = Append(listed, c)
  BY DEF OnConnected
<1>2. /\ peer'[c] = [state |-> "connected", extra |-> TRUE]
      /\ session'[c] = [life |-> "live", state |-> "CONNECTING", peer |-> TRUE, endpoint |-> TRUE, ready |-> FALSE]
      /\ endpoint'[c] = [life |-> "live", extra |-> TRUE, ready |-> FALSE, scheduled |-> TRUE]
      /\ \A d \in Sessions \ {c} : peer'[d] = peer[d] /\ session'[d] = session[d] /\ endpoint'[d] = endpoint[d]
  BY <1>1 DEF LifeInv, LifeTypeOK
<1>3. /\ listed' \in Seq(Sessions) /\ IsInjective(listed')
      /\ ToSet(listed') = {d \in Sessions : session'[d].life = "live"}
  <2>1. listed \in Seq(Sessions) /\ IsInjective(listed) /\ c \notin ToSet(listed)
        /\ ToSet(listed) = {d \in Sessions : session[d].life = "live"}
    BY DEF LifeInv, LifeTypeOK
  <2>2. /\ listed' \in Seq(Sessions) /\ ToSet(listed') = ToSet(listed) \union {c}
        /\ \A x, y : Precedes(listed', x, y) <=> Precedes(listed, x, y) \/ (x \in ToSet(listed) /\ y = c)
    BY <1>1, <2>1, AppendOrder
  <2>3. \A x : ~ Precedes(listed, x, x)
    BY <2>1, InjectiveOrder
  <2>4. IsInjective(listed')
    BY <2>1, <2>2, <2>3, InjectiveOrder
  <2> QED
    BY <1>2, <2>1, <2>2, <2>4
<1>4. LifeTypeOK'
  <2>1. peer' \in [Sessions -> PeerRecord] /\ endpoint' \in [Sessions -> EndpointRecord]
        /\ session' \in [Sessions -> SessionRecord]
    <3>1. peer' \in [Sessions -> PeerRecord]
      BY <1>1 DEF LifeInv, LifeTypeOK, PeerRecord
    <3>2. endpoint' \in [Sessions -> EndpointRecord]
      BY <1>1 DEF LifeInv, LifeTypeOK, EndpointRecord
    <3>3. session' \in [Sessions -> SessionRecord]
      BY <1>1 DEF LifeInv, LifeTypeOK, SessionRecord
    <3> QED
      BY <3>1, <3>2, <3>3
  <2>2. frame' \in [of : Callbacks, rest : Rests] /\ (frame'.of = "none" => frame' = NoFrame)
    BY DEF LifeInv, LifeTypeOK, NoFrame, Callbacks, Rests
  <2> QED
    BY <1>3, <2>1, <2>2 DEF LifeInv, LifeTypeOK
<1>5. Slots'
  <2> SUFFICES ASSUME NEW d \in Sessions
               PROVE  SlotOK(session'[d], peer'[d], endpoint'[d], told'[d], ToSet(queue'), frame'.rest, d)
    BY DEF Slots
  <2>1. SlotOK(session[d], peer[d], endpoint[d], told[d], ToSet(queue), frame.rest, d)
    BY LifeTypes
  <2>2. CASE d # c
    <3>1. SameTasks(ToSet(queue'), ToSet(queue), d)
      BY DEF SameTasks
    <3> QED
      BY <1>2, <2>2, <3>1, OtherSlot
  <2>3. CASE d = c
    BY <1>2, <2>1, <2>3 DEF SlotOK, PeerTasks
  <2> QED
    BY <2>2, <2>3
<1>6. Protocol(ToSet(queue))'
  <2>1. api.state # "STOPPED"
    BY DEF LifeInv, Protocol
  <2>2. \A d \in Sessions : frame'.rest \in {<<"connected", d>>, <<"denied", d>>} =>
                               frame.rest \in {<<"connected", d>>, <<"denied", d>>}
    BY DEF SameRest
  <2> QED
    BY <1>2, <2>1, <2>2 DEF LifeInv, Protocol
<1>7. Orders'
  BY DEF LifeInv, Orders
<1> QED
  BY <1>4, <1>5, <1>6, <1>7 DEF LifeInv

LEMMA LifePeerConnects == ASSUME LifeInv, NEW c \in Sessions, PeerConnects(c) PROVE LifeInv'
<1>1. /\ Idle /\ proto.state = "RUNNING" /\ proto.mode = "SERVER" /\ session[c].life = "fresh" /\ OnConnected(c)
      /\ UNCHANGED <<api, proto, queue, frame, manner, told>>
  BY DEF PeerConnects
<1>2. frame.rest = <<>>
  BY <1>1, Idles
<1>3. \A d \in Sessions : SameRest(frame'.rest, frame.rest, d)
  BY <1>1 DEF SameRest
<1> QED
  BY <1>1, <1>2, <1>3, LifeConnected

LEMMA LifeConnectResult ==
    ASSUME LifeInv, NEW c \in Sessions, NEW result \in {"connected", "denied"}, ConnectResult(c, result)
    PROVE  LifeInv'
<1>1. /\ Idle /\ proto.state = "RUNNING" /\ peer[c].state = "requesting"
      /\ peer' = [peer EXCEPT ![c].state = result]
      /\ frame' = [of |-> "connect_result", rest |-> <<result, c>>]
      /\ UNCHANGED <<api, proto, listed, session, endpoint, queue, manner, told>>
  BY DEF ConnectResult, Callback
<1>2. ToSet(queue) = {} /\ frame.rest = <<>>
  BY <1>1, Idles
<1>3. /\ proto.mode = "CLIENT"
      /\ \A d \in Sessions : peer[d].state # "none" => d = c
  BY <1>1 DEF LifeInv, Protocol
<1>4. /\ \A d \in Sessions : peer'[d] = IF d = c THEN [peer[c] EXCEPT !.state = result] ELSE peer[d]
      /\ [peer[c] EXCEPT !.state = result] \in PeerRecord
      /\ [peer[c] EXCEPT !.state = result].extra = peer[c].extra
      /\ [peer[c] EXCEPT !.state = result].state = result
      /\ DOMAIN peer' = Sessions
  BY <1>1 DEF LifeInv, LifeTypeOK, PeerRecord
<1>5. LifeTypeOK'
  <2>1. peer' \in [Sessions -> PeerRecord]
    BY <1>1, <1>4 DEF LifeInv, LifeTypeOK
  <2>2. frame' \in [of : Callbacks, rest : Rests] /\ frame'.of # "none"
    BY <1>1 DEF Callbacks, Rests
  <2> QED
    BY <1>1, <2>1, <2>2 DEF LifeInv, LifeTypeOK
<1>6. Protocol(ToSet(queue))'
  <2>1. \A d \in Sessions : peer'[d].state # "none" => d = c
    BY <1>1, <1>3, <1>4
  <2>2. \A d \in Sessions : peer'[d].state # "requesting"
    BY <1>1, <1>3, <1>4
  <2> QED
    BY <1>1, <1>2, <1>3, <2>1, <2>2 DEF LifeInv, Protocol
<1>7. Slots'
  <2> SUFFICES ASSUME NEW d \in Sessions
               PROVE  SlotOK(session'[d], peer'[d], endpoint'[d], told'[d], ToSet(queue'), frame'.rest, d)
    BY DEF Slots
  <2>1. SlotOK(session[d], peer[d], endpoint[d], told[d], ToSet(queue), frame.rest, d)
    BY LifeTypes
  <2>2. CASE d # c
    <3>1. SameTasks(ToSet(queue'), ToSet(queue), d) /\ SameRest(frame'.rest, frame.rest, d)
      BY <1>1, <1>2, <2>2 DEF SameTasks, SameRest
    <3> QED
      BY <1>1, <1>4, <2>2, <3>1, OtherSlot
  <2>3. CASE d = c
    BY <1>1, <1>2, <1>4, <2>1, <2>3 DEF SlotOK
  <2> QED
    BY <2>2, <2>3
<1>8. Orders'
  BY <1>1, <1>2 DEF LifeInv, Orders
<1> QED
  BY <1>1, <1>5, <1>6, <1>7, <1>8 DEF LifeInv

LEMMA LifeCheckReady == ASSUME LifeInv, NEW c \in Sessions, CheckReady(c) PROVE LifeInv'
<1>1. /\ Idle /\ peer[c].state = "connected" /\ peer[c].extra /\ ~ endpoint[c].ready
      /\ endpoint' = [endpoint EXCEPT ![c].ready = TRUE]
      /\ queue' = <<<<"ready", c>>>>
      /\ UNCHANGED <<api, proto, listed, peer, session, frame, manner, told>>
  BY DEF CheckReady
<1>2. ToSet(queue) = {} /\ frame.rest = <<>> /\ frame = NoFrame
  BY <1>1, Idles
<1>3. /\ QueueOK(queue') /\ ToSet(queue') = {<<"ready", c>>} /\ \A x, y : ~ Precedes(queue', x, y)
  <2>1. <<"ready", c>> \in Tasks
    BY DEF Tasks, PeerTasks
  <2> QED
    BY <1>1, <2>1, OneTask
<1>4. /\ \A d \in Sessions : endpoint'[d] = IF d = c THEN [endpoint[c] EXCEPT !.ready = TRUE] ELSE endpoint[d]
      /\ [endpoint[c] EXCEPT !.ready = TRUE] \in EndpointRecord
      /\ [endpoint[c] EXCEPT !.ready = TRUE].life = endpoint[c].life
      /\ [endpoint[c] EXCEPT !.ready = TRUE].extra = endpoint[c].extra
      /\ [endpoint[c] EXCEPT !.ready = TRUE].scheduled = endpoint[c].scheduled
      /\ [endpoint[c] EXCEPT !.ready = TRUE].ready = TRUE
      /\ DOMAIN endpoint' = Sessions
  <2> DEFINE e == [endpoint[c] EXCEPT !.ready = TRUE]
  <2>1. endpoint \in [Sessions -> EndpointRecord] /\ endpoint[c] \in EndpointRecord
    BY DEF LifeInv, LifeTypeOK
  <2>2. /\ e \in EndpointRecord /\ e.life = endpoint[c].life /\ e.extra = endpoint[c].extra
        /\ e.scheduled = endpoint[c].scheduled /\ e.ready = TRUE
    BY <2>1 DEF EndpointRecord
  <2>3. endpoint' = [d \in Sessions |-> IF d = c THEN e ELSE endpoint[d]]
    BY <1>1, <2>1
  <2>4. DOMAIN endpoint' = Sessions /\ \A d \in Sessions : endpoint'[d] = IF d = c THEN e ELSE endpoint[d]
    BY <2>3
  <2> QED
    BY <2>2, <2>4
<1>5. LifeTypeOK'
  <2>1. endpoint' \in [Sessions -> EndpointRecord]
    BY <1>1, <1>4 DEF LifeInv, LifeTypeOK
  <2> QED
    BY <1>1, <1>3, <2>1 DEF LifeInv, LifeTypeOK, QueueOK
<1>6. Protocol(ToSet(queue))'
  BY <1>1, <1>2, <1>3 DEF LifeInv, Protocol
<1>7. Slots'
  <2> SUFFICES ASSUME NEW d \in Sessions
               PROVE  SlotOK(session'[d], peer'[d], endpoint'[d], told'[d], ToSet(queue'), frame'.rest, d)
    BY DEF Slots
  <2>1. SlotOK(session[d], peer[d], endpoint[d], told[d], ToSet(queue), frame.rest, d)
    BY LifeTypes
  <2>2. CASE d # c
    <3>1. SameTasks(ToSet(queue'), ToSet(queue), d) /\ SameRest(frame'.rest, frame.rest, d)
      BY <1>1, <1>2, <1>3, <2>2 DEF SameTasks, SameRest
    <3> QED
      BY <1>1, <1>4, <2>2, <3>1, OtherSlot
  <2>3. CASE d = c
    BY <1>1, <1>2, <1>3, <1>4, <2>1, <2>3 DEF SlotOK, PeerTasks
  <2> QED
    BY <2>2, <2>3
<1>8. Orders'
  BY <1>1, <1>2, <1>3 DEF LifeInv, Orders
<1> QED
  BY <1>1, <1>5, <1>6, <1>7, <1>8 DEF LifeInv

LEMMA LifeOnReceived == ASSUME LifeInv, NEW c \in Sessions, OnReceived(c) PROVE LifeInv'
<1>1. /\ Idle /\ (UNCHANGED frame \/ frame' = [of |-> "received", rest |-> <<>>])
      /\ UNCHANGED <<api, proto, listed, peer, session, endpoint, queue, manner, told>>
  BY DEF OnReceived, Callback, objects
<1>2. ToSet(queue) = {} /\ frame.rest = <<>> /\ frame'.rest = <<>>
  BY <1>1, Idles
<1>3. LifeTypeOK'
  BY <1>1 DEF LifeInv, LifeTypeOK, Callbacks, Rests
<1> QED
  BY <1>1, <1>2, <1>3 DEF LifeInv, Slots, Protocol, Orders

-----------------------------------------------------------------------------
(***************************************************************************)
(* The ends of sessions.                                                   *)
(***************************************************************************)
LEMMA DisconnectedOrder ==
    ASSUME LifeInv, NEW C \in SUBSET Sessions
    PROVE  /\ QueueOK(DisconnectedTasks(C))
           /\ ToSet(DisconnectedTasks(C)) = {<<"disconnected", c>> : c \in {d \in C : peer[d].extra}}
<1> DEFINE T == {c \in C : peer[c].extra}
           known == Among(listed, T)
<1>1. listed \in Seq(Sessions) /\ IsInjective(listed) /\ T \subseteq ToSet(listed)
  BY DEF LifeInv, LifeTypeOK, Slots, SlotOK
<1>2. DisconnectedTasks(C) = [i \in DOMAIN known |-> <<"disconnected", known[i]>>]
  BY DEF DisconnectedTasks
<1>3. T = {d \in C : peer[d].extra}
  OBVIOUS
<1> HIDE DEF T
<1>4. known \in Seq(Sessions \intersect T) /\ ToSet(known) = ToSet(listed) \intersect T
  BY <1>1, AmongOrder
<1>5. known \in Seq(Sessions) /\ IsInjective(known)
  BY <1>1, <1>4, AmongInjective
<1>6. ToSet(known) = T
  BY <1>1, <1>4
<1> HIDE DEF known
<1>7. \A i \in DOMAIN known : known[i] \in Sessions /\ <<"disconnected", known[i]>> \in Tasks
  BY <1>5 DEF Tasks, PeerTasks
<1> DEFINE tasks == [i \in DOMAIN known |-> <<"disconnected", known[i]>>]
<1>8. /\ DOMAIN tasks = DOMAIN known /\ \A i \in DOMAIN known : tasks[i] \in Tasks
      /\ tasks = [i \in DOMAIN known |-> tasks[i]]
      /\ \A i, j \in DOMAIN known : tasks[i] = tasks[j] => known[i] = known[j]
  BY <1>7
<1>9. ToSet(tasks) = {<<"disconnected", c>> : c \in T}
  BY <1>6 DEF ToSet
<1> HIDE DEF tasks
<1>10. QueueOK(tasks)
  BY <1>5, <1>8, MappedOrder
<1> QED
  BY <1>2, <1>3, <1>9, <1>10 DEF tasks

LEMMA Disconnecting ==
    ASSUME LifeInv, NEW C \in SUBSET Sessions, NEW state \in {"none", "disconnecting", "disconnected"},
           OnDisconnected(C, state)
    PROVE  /\ peer' \in [Sessions -> PeerRecord] /\ session' \in [Sessions -> SessionRecord]
           /\ \A d \in C : peer'[d].state = state /\ ~ peer'[d].extra
           /\ \A d \in Sessions \ C : peer'[d] = peer[d] /\ session'[d] = session[d]
           /\ \A d \in C : ~ session'[d].peer
           /\ \A d \in Sessions : /\ session'[d].life = session[d].life /\ session'[d].ready = session[d].ready
                                  /\ session'[d].endpoint = session[d].endpoint
<1>1. /\ peer' = [c \in Sessions |-> IF c \in C THEN [state |-> state, extra |-> FALSE] ELSE peer[c]]
      /\ session' = [c \in Sessions |-> IF c \in C /\ peer[c].extra
                                        THEN [session[c] EXCEPT !.peer = FALSE, !.state = "DISCONNECTED"]
                                        ELSE session[c]]
  BY DEF OnDisconnected
<1>2. ASSUME NEW c \in Sessions
      PROVE  /\ [session[c] EXCEPT !.peer = FALSE, !.state = "DISCONNECTED"] \in SessionRecord
             /\ [session[c] EXCEPT !.peer = FALSE, !.state = "DISCONNECTED"].life = session[c].life
             /\ [session[c] EXCEPT !.peer = FALSE, !.state = "DISCONNECTED"].ready = session[c].ready
             /\ [session[c] EXCEPT !.peer = FALSE, !.state = "DISCONNECTED"].endpoint = session[c].endpoint
             /\ [session[c] EXCEPT !.peer = FALSE, !.state = "DISCONNECTED"].peer = FALSE
  BY LifeTypes DEF SessionRecord
<1>3. peer' \in [Sessions -> PeerRecord]
  BY <1>1, LifeTypes DEF PeerRecord
<1>4. session' \in [Sessions -> SessionRecord]
  BY <1>1, <1>2, LifeTypes
<1>5. \A d \in C : ~ session'[d].peer
  <2> TAKE d \in C
  <2>1. CASE peer[d].extra
    BY <1>1, <1>2, <2>1
  <2>2. CASE ~ peer[d].extra
    BY <1>1, <2>2, LifeTypes DEF SlotOK
  <2> QED
    BY <2>1, <2>2
<1>6. \A d \in Sessions : /\ session'[d].life = session[d].life /\ session'[d].ready = session[d].ready
                          /\ session'[d].endpoint = session[d].endpoint
  BY <1>1, <1>2
<1>7. \A d \in Sessions \ C : peer'[d] = peer[d] /\ session'[d] = session[d]
  BY <1>1
<1> QED
  BY <1>1, <1>3, <1>4, <1>5, <1>6, <1>7

LEMMA StopProtocolTasks ==
    ASSUME LifeInv, NEW tasks, QueueOK(tasks), StopProtocol(tasks), proto.state = "RUNNING"
    PROVE  /\ proto' = [proto EXCEPT !.state = "STOPPING"]
           /\ QueueOK(queue') /\ ToSet(queue') = ToSet(tasks) \union {<<"stop_protocol">>}
           /\ \A x, y : Precedes(queue', x, y) <=>
                  \/ Precedes(tasks, x, y) /\ x # <<"stop_protocol">> /\ y # <<"stop_protocol">>
                  \/ x \in ToSet(tasks) /\ x # <<"stop_protocol">> /\ y = <<"stop_protocol">>
<1>1. <<"stop_protocol">> \in Tasks
  BY DEF Tasks
<1> QED
  BY <1>1, SubmitOrder DEF StopProtocol

LEMMA StopProtocolTypes ==
    ASSUME LifeInv, proto' = [proto EXCEPT !.state = "STOPPING"]
    PROVE  /\ proto' \in [state : {"NONE", "RUNNING", "STOPPING", "STOPPED"}, mode : {"NONE", "SERVER", "CLIENT"},
                          extra : BOOLEAN]
           /\ proto'.state = "STOPPING" /\ proto'.mode = proto.mode
  BY DEF LifeInv, LifeTypeOK

LEMMA LifePeersLost == ASSUME LifeInv, NEW C \in SUBSET Sessions, C # {}, PeersLost(C) PROVE LifeInv'
<1>1. /\ Idle /\ proto.state = "RUNNING" /\ \A c \in C : peer[c].state = "connected"
      /\ UNCHANGED <<api, listed, endpoint, frame, manner, told>>
  BY DEF PeersLost
<1>2. ToSet(queue) = {} /\ frame.rest = <<>> /\ frame = NoFrame
  BY <1>1, Idles
<1>3. PICK state \in {"none", "disconnected"} : OnDisconnected(C, state)
  BY DEF PeersLost
<1>4. /\ peer' \in [Sessions -> PeerRecord] /\ session' \in [Sessions -> SessionRecord]
      /\ \A d \in C : peer'[d].state = state /\ ~ peer'[d].extra
      /\ \A d \in Sessions \ C : peer'[d] = peer[d] /\ session'[d] = session[d]
      /\ \A d \in C : ~ session'[d].peer
      /\ \A d \in Sessions : /\ session'[d].life = session[d].life /\ session'[d].ready = session[d].ready
                             /\ session'[d].endpoint = session[d].endpoint
  BY <1>3, Disconnecting
<1> DEFINE lost == {<<"disconnected", c>> : c \in {d \in C : peer[d].extra}}
<1>5. QueueOK(DisconnectedTasks(C)) /\ ToSet(DisconnectedTasks(C)) = lost
  BY DisconnectedOrder
<1>6. \A d \in Sessions : <<"disconnected", d>> \in lost <=> d \in C /\ peer[d].extra
  OBVIOUS
<1>7. \A t \in lost : \E d \in Sessions : t = <<"disconnected", d>>
  OBVIOUS
<1> HIDE DEF lost
<1>8. /\ QueueOK(queue')
      /\ \/ proto.mode # "CLIENT" /\ ToSet(queue') = lost /\ UNCHANGED proto
         \/ /\ proto.mode = "CLIENT" /\ ToSet(queue') = lost \union {<<"stop_protocol">>}
            /\ proto' = [proto EXCEPT !.state = "STOPPING"]
  <2>1. CASE proto.mode = "SERVER"
    BY <1>5, <2>1 DEF PeersLost
  <2>2. CASE proto.mode # "SERVER"
    <3>1. StopProtocol(DisconnectedTasks(C))
      BY <2>2 DEF PeersLost
    <3>2. proto.mode = "CLIENT"
      <4>1. PICK c \in C : TRUE
        OBVIOUS
      <4> QED
        BY <1>1, <2>2, <4>1, ProtoTypes DEF LifeInv, Protocol
    <3> QED
      BY <1>1, <1>5, <3>1, <3>2, StopProtocolTasks
  <2> QED
    BY <2>1, <2>2
<1>9. \A x \in ToSet(queue') : x = <<"stop_protocol">> \/ x \in lost
  BY <1>8
<1>10. proto' \in [state : {"NONE", "RUNNING", "STOPPING", "STOPPED"}, mode : {"NONE", "SERVER", "CLIENT"},
                   extra : BOOLEAN]
  BY <1>8, StopProtocolTypes DEF LifeInv, LifeTypeOK
<1>11. LifeTypeOK'
  BY <1>1, <1>4, <1>8, <1>10, ListedSame DEF LifeInv, LifeTypeOK, QueueOK
<1>12. Slots'
  <2> SUFFICES ASSUME NEW d \in Sessions
               PROVE  SlotOK(session'[d], peer'[d], endpoint'[d], told'[d], ToSet(queue'), frame'.rest, d)
    BY DEF Slots
  <2>1. SlotOK(session[d], peer[d], endpoint[d], told[d], ToSet(queue), frame.rest, d)
    BY LifeTypes
  <2>2. \A k \in PeerTasks : <<k, d>> \in ToSet(queue') <=> k = "disconnected" /\ d \in C /\ peer[d].extra
    BY <1>6, <1>7, <1>8 DEF PeerTasks
  <2>3. CASE d \notin C
    <3>1. SameTasks(ToSet(queue'), ToSet(queue), d) /\ SameRest(frame'.rest, frame.rest, d)
      BY <1>1, <1>2, <2>2, <2>3 DEF SameTasks, SameRest
    <3> QED
      BY <1>1, <1>4, <2>3, <3>1, OtherSlot
  <2>4. CASE d \in C
    BY <1>1, <1>2, <1>4, <2>1, <2>2, <2>4 DEF SlotOK, PeerTasks
  <2> QED
    BY <2>3, <2>4
<1>13. Protocol(ToSet(queue))'
  <2>1. <<"stop">> \notin lost /\ <<"stop_protocol">> \notin lost /\ <<"destroy_protocol">> \notin lost
    BY <1>7
  <2>2. api.state # "STOPPED" /\ api.state # "STOPPING"
    BY <1>1, <1>2 DEF LifeInv, Protocol
  <2>3. \A d \in Sessions : peer'[d].state # "none" => peer[d].state # "none"
    BY <1>1, <1>4
  <2>4. \A d \in Sessions : peer'[d].state = "requesting" => peer[d].state = "requesting"
    BY <1>3, <1>4
  <2>5. CASE proto.mode # "CLIENT" /\ ToSet(queue') = lost /\ UNCHANGED proto
    BY <1>1, <1>2, <2>1, <2>2, <2>3, <2>4, <2>5 DEF LifeInv, Protocol
  <2>6. CASE /\ proto.mode = "CLIENT" /\ ToSet(queue') = lost \union {<<"stop_protocol">>}
             /\ proto' = [proto EXCEPT !.state = "STOPPING"]
    <3>1. proto'.state = "STOPPING" /\ proto'.mode = "CLIENT"
      BY <2>6, StopProtocolTypes
    <3>2. \A d \in Sessions : ~ peer'[d].extra
      <4> TAKE d \in Sessions
      <4>1. SlotOK(session[d], peer[d], endpoint[d], told[d], ToSet(queue), frame.rest, d)
        BY LifeTypes
      <4>2. d \notin C => peer[d].state = "none"
        BY <1>1, <2>6 DEF LifeInv, Protocol
      <4> QED
        BY <1>4, <4>1, <4>2 DEF SlotOK
    <3>3. <<"stop_protocol">> \in ToSet(queue') /\ <<"stop">> \notin ToSet(queue')
          /\ <<"destroy_protocol">> \notin ToSet(queue')
      BY <2>1, <2>6
    <3> QED
      BY <1>1, <1>2, <2>2, <2>3, <2>4, <2>6, <3>1, <3>2, <3>3 DEF LifeInv, Protocol
  <2> QED
    BY <1>8, <2>5, <2>6
<1>14. Orders'
  <2>1. ASSUME NEW c \in Sessions
        PROVE  /\ <<"disconnect_peer", c>> \notin ToSet(queue') /\ <<"ready", c>> \notin ToSet(queue')
               /\ <<"destroy_protocol">> \notin ToSet(queue')
    BY <1>7, <1>9
  <2>2. <<"destroy_protocol">> \notin ToSet(queue')
    BY <1>7, <1>9
  <2> QED
    BY <2>1, <2>2, PrecedesMember DEF Orders
<1> QED
  BY <1>11, <1>12, <1>13, <1>14 DEF LifeInv

LEMMA LifeDisconnectSent == ASSUME LifeInv, NEW c \in Sessions, DisconnectSent(c) PROVE LifeInv'
<1>1. /\ Idle /\ proto.state = "RUNNING" /\ peer[c].state = "disconnecting"
      /\ UNCHANGED <<api, listed, session, endpoint, frame, manner, told>>
  BY DEF DisconnectSent
<1>2. ToSet(queue) = {} /\ frame.rest = <<>> /\ frame = NoFrame
  BY <1>1, Idles
<1>4. \A d \in Sessions : SlotOK(session[d], peer[d], endpoint[d], told[d], ToSet(queue), frame.rest, d)
  BY LifeTypes
<1>5. CASE proto.mode = "SERVER"
  <2>1. peer' = [peer EXCEPT ![c].state = "none"] /\ UNCHANGED <<proto, queue>>
    BY <1>5 DEF DisconnectSent
  <2>2. /\ \A d \in Sessions : peer'[d] = IF d = c THEN [peer[c] EXCEPT !.state = "none"] ELSE peer[d]
        /\ [peer[c] EXCEPT !.state = "none"] \in PeerRecord
        /\ [peer[c] EXCEPT !.state = "none"].extra = peer[c].extra
        /\ [peer[c] EXCEPT !.state = "none"].state = "none"
        /\ DOMAIN peer' = Sessions /\ peer' \in [Sessions -> PeerRecord]
    BY <2>1 DEF LifeInv, LifeTypeOK, PeerRecord
  <2>3. LifeTypeOK'
    BY <1>1, <2>1, <2>2 DEF LifeInv, LifeTypeOK
  <2>4. Slots'
    <3> SUFFICES ASSUME NEW d \in Sessions
                 PROVE  SlotOK(session'[d], peer'[d], endpoint'[d], told'[d], ToSet(queue'), frame'.rest, d)
      BY DEF Slots
    <3>1. CASE d # c
      BY <1>1, <1>4, <2>1, <2>2, <3>1
    <3>2. CASE d = c
      BY <1>1, <1>2, <1>4, <2>1, <2>2, <3>2 DEF SlotOK
    <3> QED
      BY <3>1, <3>2
  <2>5. Protocol(ToSet(queue))'
    <3>1. \A d \in Sessions : /\ peer'[d].state # "none" => peer'[d].state = peer[d].state
                              /\ peer'[d].extra = peer[d].extra
      BY <2>2
    <3> QED
      BY <1>1, <1>2, <1>5, <2>1, <3>1 DEF LifeInv, Protocol
  <2>6. Orders'
    BY <1>1, <2>1 DEF LifeInv, Orders
  <2> QED
    BY <2>3, <2>4, <2>5, <2>6 DEF LifeInv
<1>6. CASE proto.mode # "SERVER"
  <2>1. StopProtocol(<<>>) /\ UNCHANGED peer
    BY <1>6 DEF DisconnectSent
  <2>2. QueueOK(<<>>)
    BY EmptyOrder DEF QueueOK
  <2>3. /\ proto' = [proto EXCEPT !.state = "STOPPING"]
        /\ QueueOK(queue') /\ ToSet(queue') = {<<"stop_protocol">>}
    BY <1>1, <2>1, <2>2, StopProtocolTasks, EmptyOrder
  <2>4. proto.mode = "CLIENT"
    BY <1>1, <1>6, ProtoTypes DEF LifeInv, Protocol
  <2>5. /\ proto' \in [state : {"NONE", "RUNNING", "STOPPING", "STOPPED"}, mode : {"NONE", "SERVER", "CLIENT"},
                       extra : BOOLEAN]
        /\ proto'.state = "STOPPING" /\ proto'.mode = proto.mode
    BY <2>3, StopProtocolTypes
  <2>6. \A d \in Sessions : ~ peer[d].extra
    <3>1. \A d \in Sessions : d # c => peer[d].state = "none"
      BY <1>1, <2>4 DEF LifeInv, Protocol
    <3> QED
      BY <1>1, <1>4, <3>1 DEF SlotOK
  <2>7. LifeTypeOK'
    BY <1>1, <2>1, <2>3, <2>5 DEF LifeInv, LifeTypeOK, QueueOK
  <2>8. Slots'
    <3> SUFFICES ASSUME NEW d \in Sessions
                 PROVE  SlotOK(session'[d], peer'[d], endpoint'[d], told'[d], ToSet(queue'), frame'.rest, d)
      BY DEF Slots
    <3>1. SameTasks(ToSet(queue'), ToSet(queue), d) /\ SameRest(frame'.rest, frame.rest, d)
      BY <1>1, <1>2, <2>3 DEF SameTasks, SameRest
    <3> QED
      BY <1>1, <2>1, <3>1, OtherSlot
  <2>9. Protocol(ToSet(queue))'
    BY <1>1, <1>2, <2>1, <2>3, <2>5, <2>6 DEF LifeInv, Protocol
  <2>10. Orders'
    <3>1. \A x, y : Precedes(queue', x, y) => x = <<"stop_protocol">> /\ y = <<"stop_protocol">>
      BY <2>3, PrecedesMember
    <3> QED
      BY <2>3, <3>1 DEF Orders
  <2> QED
    BY <2>7, <2>8, <2>9, <2>10 DEF LifeInv
<1> QED
  BY <1>5, <1>6

LEMMA LifeSessionDisconnect == ASSUME LifeInv, NEW c \in Sessions, SessionDisconnect(c) PROVE LifeInv'
<1> DEFINE t == <<"disconnect", c>>
           u == <<"disconnect_peer", c>>
<1>1. /\ Running(t) /\ UNCHANGED <<api, proto, listed, peer, session, endpoint, frame, manner, told>>
      /\ queue' = IF session[c].life = "live" /\ session[c].peer THEN Submit(Tail(queue), u) ELSE Tail(queue)
  BY DEF SessionDisconnect, objects
<1>2. /\ t \in ToSet(queue) /\ frame.rest = <<>> /\ frame = NoFrame
      /\ QueueOK(Tail(queue)) /\ ToSet(Tail(queue)) = ToSet(queue) \ {t}
      /\ \A x, y : Precedes(Tail(queue), x, y) <=> Precedes(queue, x, y) /\ x # t
  BY <1>1, Runs
<1>3. \A d \in Sessions : <<"ready", d>> \notin ToSet(queue)
  BY <1>2 DEF LifeInv, Orders
<1>4. SlotOK(session[c], peer[c], endpoint[c], told[c], ToSet(queue), frame.rest, c)
  BY LifeTypes
<1>5. CASE ~ (session[c].life = "live" /\ session[c].peer)
  <2>1. queue' = Tail(queue)
    BY <1>1, <1>5
  <2>2. LifeTypeOK'
    BY <1>1, <1>2, <2>1 DEF LifeInv, LifeTypeOK, QueueOK
  <2>3. Slots'
    <3> SUFFICES ASSUME NEW d \in Sessions
                 PROVE  SlotOK(session'[d], peer'[d], endpoint'[d], told'[d], ToSet(queue'), frame'.rest, d)
      BY DEF Slots
    <3>1. SlotOK(session[d], peer[d], endpoint[d], told[d], ToSet(queue), frame.rest, d)
      BY LifeTypes
    <3>2. \A k \in PeerTasks \ {"disconnect"} : <<k, d>> \in ToSet(queue') <=> <<k, d>> \in ToSet(queue)
      BY <1>2, <2>1
    <3>3. <<"disconnect", d>> \in ToSet(queue') => <<"disconnect", d>> \in ToSet(queue)
      BY <1>2, <2>1
    <3> QED
      BY <1>1, <1>2, <3>1, <3>2, <3>3 DEF SlotOK, PeerTasks
  <2>4. Protocol(ToSet(queue))'
    BY <1>1, <1>2, <2>1 DEF LifeInv, Protocol
  <2>5. Orders'
    BY <1>2, <1>3, <2>1 DEF LifeInv, Orders
  <2> QED
    BY <2>2, <2>3, <2>4, <2>5 DEF LifeInv
<1>6. CASE session[c].life = "live" /\ session[c].peer
  <2>1. u \in Tasks
    BY DEF Tasks, PeerTasks
  <2>2. /\ QueueOK(queue') /\ ToSet(queue') = ToSet(Tail(queue)) \union {u}
        /\ \A x, y : Precedes(queue', x, y) <=>
               \/ Precedes(Tail(queue), x, y) /\ x # u /\ y # u
               \/ x \in ToSet(Tail(queue)) /\ x # u /\ y = u
    BY <1>1, <1>2, <1>6, <2>1, SubmitOrder
  <2>3. LifeTypeOK'
    BY <1>1, <2>2 DEF LifeInv, LifeTypeOK, QueueOK
  <2>4. Slots'
    <3> SUFFICES ASSUME NEW d \in Sessions
                 PROVE  SlotOK(session'[d], peer'[d], endpoint'[d], told'[d], ToSet(queue'), frame'.rest, d)
      BY DEF Slots
    <3>1. SlotOK(session[d], peer[d], endpoint[d], told[d], ToSet(queue), frame.rest, d)
      BY LifeTypes
    <3>2. CASE d # c
      <4>1. SameTasks(ToSet(queue'), ToSet(queue), d) /\ SameRest(frame'.rest, frame.rest, d)
        BY <1>1, <1>2, <2>2, <3>2 DEF SameTasks, SameRest
      <4> QED
        BY <1>1, <4>1, OtherSlot
    <3>3. CASE d = c
      <4>1. \A k \in PeerTasks \ {"disconnect", "disconnect_peer"} :
                <<k, c>> \in ToSet(queue') <=> <<k, c>> \in ToSet(queue)
        BY <1>2, <2>2
      <4> QED
        BY <1>1, <1>2, <1>6, <3>1, <3>3, <4>1 DEF SlotOK, PeerTasks
    <3> QED
      BY <3>2, <3>3
  <2>5. Protocol(ToSet(queue))'
    BY <1>1, <1>2, <2>2 DEF LifeInv, Protocol
  <2>6. <<"stop_protocol">> \notin ToSet(queue)
    BY <1>4, <1>6 DEF SlotOK, LifeInv, Protocol
  <2>7. Orders'
    <3>1. ASSUME NEW d \in Sessions PROVE ~ Precedes(queue', <<"stop_protocol">>, <<"disconnect_peer", d>>)
      BY <1>2, <2>2, <2>6 DEF LifeInv, Orders
    <3>2. ~ Precedes(queue', <<"destroy_protocol">>, <<"stop_protocol">>)
      BY <1>2, <2>2 DEF LifeInv, Orders
    <3>3. \A d \in Sessions : <<"ready", d>> \notin ToSet(queue')
      BY <1>2, <1>3, <2>2
    <3> QED
      BY <3>1, <3>2, <3>3 DEF Orders
  <2> QED
    BY <2>3, <2>4, <2>5, <2>7 DEF LifeInv
<1> QED
  BY <1>5, <1>6

LEMMA LifePeerDisconnect == ASSUME LifeInv, NEW c \in Sessions, PeerDisconnect(c) PROVE LifeInv'
<1> DEFINE t == <<"disconnect_peer", c>>
<1>1. Running(t) /\ UNCHANGED <<api, proto, listed, endpoint, frame, manner, told>>
  BY DEF PeerDisconnect
<1>2. /\ t \in ToSet(queue) /\ frame.rest = <<>> /\ frame = NoFrame
      /\ QueueOK(Tail(queue)) /\ ToSet(Tail(queue)) = ToSet(queue) \ {t}
      /\ \A x, y : Precedes(Tail(queue), x, y) <=> Precedes(queue, x, y) /\ x # t
  BY <1>1, Runs
<1>3. \A d \in Sessions : <<"ready", d>> \notin ToSet(queue)
  BY <1>2 DEF LifeInv, Orders
<1>4. \A d \in Sessions : SlotOK(session[d], peer[d], endpoint[d], told[d], ToSet(queue), frame.rest, d)
  BY LifeTypes
<1>5. CASE peer[c].state # "connected"
  <2>1. queue' = Tail(queue) /\ UNCHANGED <<peer, session>>
    BY <1>5 DEF PeerDisconnect
  <2>2. LifeTypeOK'
    BY <1>1, <1>2, <2>1 DEF LifeInv, LifeTypeOK, QueueOK
  <2>3. Slots'
    <3> SUFFICES ASSUME NEW d \in Sessions
                 PROVE  SlotOK(session'[d], peer'[d], endpoint'[d], told'[d], ToSet(queue'), frame'.rest, d)
      BY DEF Slots
    <3>1. \A k \in PeerTasks \ {"disconnect_peer"} : <<k, d>> \in ToSet(queue') <=> <<k, d>> \in ToSet(queue)
      BY <1>2, <2>1
    <3>2. <<"disconnect_peer", d>> \in ToSet(queue') => <<"disconnect_peer", d>> \in ToSet(queue)
      BY <1>2, <2>1
    <3> QED
      BY <1>1, <1>2, <1>4, <2>1, <3>1, <3>2 DEF SlotOK, PeerTasks
  <2>4. Protocol(ToSet(queue))'
    BY <1>1, <1>2, <2>1 DEF LifeInv, Protocol
  <2>5. Orders'
    BY <1>2, <1>3, <2>1 DEF LifeInv, Orders
  <2> QED
    BY <2>2, <2>3, <2>4, <2>5 DEF LifeInv
<1>6. CASE peer[c].state = "connected"
  <2>1. /\ OnDisconnected({c}, "disconnecting")
        /\ queue' = SubmitAll(Tail(queue), DisconnectedTasks({c}))
    BY <1>6 DEF PeerDisconnect
  <2>2. /\ peer' \in [Sessions -> PeerRecord] /\ session' \in [Sessions -> SessionRecord]
        /\ \A d \in {c} : peer'[d].state = "disconnecting" /\ ~ peer'[d].extra
        /\ \A d \in Sessions \ {c} : peer'[d] = peer[d] /\ session'[d] = session[d]
        /\ \A d \in {c} : ~ session'[d].peer
        /\ \A d \in Sessions : /\ session'[d].life = session[d].life /\ session'[d].ready = session[d].ready
                               /\ session'[d].endpoint = session[d].endpoint
    BY <2>1, Disconnecting
  <2> DEFINE more == DisconnectedTasks({c})
  <2>3. QueueOK(more) /\ ToSet(more) = {<<"disconnected", e>> : e \in {d \in {c} : peer[d].extra}}
    BY DisconnectedOrder
  <2>4. \A x : x \in ToSet(more) <=> x = <<"disconnected", c>> /\ peer[c].extra
    BY <2>3
  <2> HIDE DEF more
  <2>5. /\ QueueOK(queue') /\ ToSet(queue') = ToSet(Tail(queue)) \union ToSet(more)
        /\ \A x, y : Precedes(queue', x, y) <=>
               \/ Precedes(Tail(queue), x, y) /\ x \notin ToSet(more) /\ y \notin ToSet(more)
               \/ Precedes(more, x, y)
               \/ x \in ToSet(Tail(queue)) /\ x \notin ToSet(more) /\ y \in ToSet(more)
    BY <1>2, <2>1, <2>3, SubmitAllOrder DEF more
  <2>6. LifeTypeOK'
    BY <1>1, <2>2, <2>5, ListedSame DEF LifeInv, LifeTypeOK, QueueOK
  <2>7. Slots'
    <3> SUFFICES ASSUME NEW d \in Sessions
                 PROVE  SlotOK(session'[d], peer'[d], endpoint'[d], told'[d], ToSet(queue'), frame'.rest, d)
      BY DEF Slots
    <3>1. CASE d # c
      <4>1. SameTasks(ToSet(queue'), ToSet(queue), d) /\ SameRest(frame'.rest, frame.rest, d)
        BY <1>1, <1>2, <2>4, <2>5, <3>1 DEF SameTasks, SameRest
      <4> QED
        BY <1>1, <2>2, <3>1, <4>1, OtherSlot
    <3>2. CASE d = c
      <4>1. \A k \in PeerTasks \ {"disconnected", "disconnect_peer"} :
                <<k, c>> \in ToSet(queue') <=> <<k, c>> \in ToSet(queue)
        BY <1>2, <2>4, <2>5
      <4>2. <<"disconnected", c>> \in ToSet(queue') <=> <<"disconnected", c>> \in ToSet(queue) \/ peer[c].extra
        BY <1>2, <2>4, <2>5
      <4>3. <<"disconnect_peer", c>> \in ToSet(queue') => <<"disconnect_peer", c>> \in ToSet(queue)
        BY <1>2, <2>4, <2>5
      <4>4. /\ <<"ready", c>> \notin ToSet(queue') /\ <<"ready", c>> \notin ToSet(queue)
            /\ <<"destroy_endpoint", c>> \in ToSet(queue') <=> <<"destroy_endpoint", c>> \in ToSet(queue)
            /\ <<"stop_endpoint", c>> \in ToSet(queue') <=> <<"stop_endpoint", c>> \in ToSet(queue)
        BY <1>3, <4>1 DEF PeerTasks
      <4>a. SlotOK(session[c], peer[c], endpoint[c], told[c], ToSet(queue), <<>>, c)
        BY <1>2, <1>4
      <4>5. session[c].life # "fresh" /\ frame'.rest = <<>>
        <5>1. session[c].life # "fresh"
          BY <1>6, <4>a DEF SlotOK
        <5> QED
          BY <1>1, <1>2, <5>1
      <4>6. /\ peer'[c].state = "disconnecting" /\ ~ peer'[c].extra /\ ~ session'[c].peer
            /\ session'[c].life = session[c].life /\ session'[c].ready = session[c].ready
            /\ session'[c].endpoint = session[c].endpoint
        BY <2>2
      <4> QED
        BY <1>1, <1>2, <1>4, <3>2, <4>2, <4>3, <4>4, <4>5, <4>6 DEF SlotOK
    <3> QED
      BY <3>1, <3>2
  <2>8. Protocol(ToSet(queue))'
    <3>1. /\ \A d \in Sessions : peer'[d].state # "none" <=> peer[d].state # "none"
          /\ \A d \in Sessions : peer'[d].extra => peer[d].extra
          /\ \A d \in Sessions : peer'[d].state = "requesting" => peer[d].state = "requesting"
      BY <1>6, <2>2
    <3>2. /\ <<"stop">> \in ToSet(queue') <=> <<"stop">> \in ToSet(queue)
          /\ <<"stop_protocol">> \in ToSet(queue') <=> <<"stop_protocol">> \in ToSet(queue)
          /\ <<"destroy_protocol">> \in ToSet(queue') <=> <<"destroy_protocol">> \in ToSet(queue)
      BY <1>2, <2>4, <2>5
    <3> QED
      BY <1>1, <2>2, <3>1, <3>2 DEF LifeInv, Protocol
  <2>9. Orders'
    <3>1. \A x, y : Precedes(more, x, y) => x = y /\ x = <<"disconnected", c>>
      BY <2>4, PrecedesMember
    <3>2. ASSUME NEW d \in Sessions PROVE ~ Precedes(queue', <<"stop_protocol">>, <<"disconnect_peer", d>>)
      BY <1>2, <2>4, <2>5, <3>1 DEF LifeInv, Orders
    <3>3. ~ Precedes(queue', <<"destroy_protocol">>, <<"stop_protocol">>)
      BY <1>2, <2>4, <2>5, <3>1 DEF LifeInv, Orders
    <3>a. \A d \in Sessions : <<"ready", d>> \notin ToSet(more)
      BY <2>4
    <3>4. \A d \in Sessions : <<"ready", d>> \notin ToSet(queue')
      BY <1>2, <1>3, <2>5, <3>a
    <3> QED
      BY <3>2, <3>3, <3>4 DEF Orders
  <2> QED
    BY <2>6, <2>7, <2>8, <2>9 DEF LifeInv
<1> QED
  BY <1>5, <1>6

LEMMA AppendToOne == ASSUME NEW S, NEW x \in S, NEW y \in S PROVE Append(<<x>>, y) = <<x, y>>
<1> DEFINE s == <<x>>
           u == <<x, y>>
<1>1. s \in Seq(S) /\ Len(s) = 1 /\ s[1] = x
  OBVIOUS
<1>2. u \in Seq(S) /\ Len(u) = 2 /\ u[1] = x /\ u[2] = y
  OBVIOUS
<1> HIDE DEF s, u
<1> DEFINE a == Append(s, y)
<1>3. a \in Seq(S) /\ Len(a) = Len(s) + 1
  BY <1>1, AppendProperties
<1>4. a[1] = s[1]
  BY <1>1, AppendProperties
<1>5. a[Len(s) + 1] = y
  BY <1>1, AppendProperties
<1> HIDE DEF a
<1>6. a = u
  BY <1>1, <1>2, <1>3, <1>4, <1>5, SeqEqual
<1> QED
  BY <1>6 DEF a, s, u

\* The tasks that the life of sessions and of the protocol socket is made of.
LifeTasks == {<<"stop">>, <<"stop_protocol">>, <<"destroy_protocol">>} \union ((PeerTasks \ {"send"}) \X Sessions)

\* A session is let go of: in the task of its end, or when its callback returns.
LEMMA LifeLetGo ==
    ASSUME LifeInv, NEW c \in Sessions, NEW tasks, QueueOK(tasks), LetGo(c, tasks),
           session[c].life = "live", ~ session[c].peer, <<"stop_endpoint", c>> \in ToSet(tasks),
           \A d \in Sessions : <<"ready", d>> \notin ToSet(tasks),
           \A d \in Sessions \ {c} : SameTasks(ToSet(tasks), ToSet(queue), d),
           <<"disconnected", c>> \notin ToSet(tasks),
           <<"disconnect_peer", c>> \in ToSet(tasks) => <<"disconnect_peer", c>> \in ToSet(queue),
           \A t \in {<<"stop">>, <<"stop_protocol">>, <<"destroy_protocol">>} :
                t \in ToSet(tasks) <=> t \in ToSet(queue),
           \A d \in Sessions : ~ Precedes(tasks, <<"stop_protocol">>, <<"disconnect_peer", d>>),
           ~ Precedes(tasks, <<"destroy_protocol">>, <<"stop_protocol">>),
           frame' = NoFrame, \A d \in Sessions \ {c} : SameRest(<<>>, frame.rest, d),
           UNCHANGED <<api, proto, peer, manner, told>>
    PROVE  LifeInv'
<1> DEFINE u == <<"destroy_endpoint", c>>
<1>1. /\ endpoint' = [endpoint EXCEPT ![c].extra = FALSE]
      /\ session' = [session EXCEPT ![c].endpoint = FALSE, ![c].life = "released"]
      /\ listed' = Without(listed, c)
      /\ queue' = Submit(tasks, u)
  BY DEF LetGo
<1>2. u \in Tasks
  BY DEF Tasks, PeerTasks
<1>3. /\ QueueOK(queue') /\ ToSet(queue') = ToSet(tasks) \union {u}
      /\ \A x, y : Precedes(queue', x, y) <=>
             \/ Precedes(tasks, x, y) /\ x # u /\ y # u
             \/ x \in ToSet(tasks) /\ x # u /\ y = u
  BY <1>1, <1>2, SubmitOrder
<1>4. /\ session' = [d \in Sessions |-> IF d = c THEN [session[c] EXCEPT !.endpoint = FALSE, !.life = "released"]
                                        ELSE session[d]]
      /\ session[c] \in SessionRecord
  BY <1>1 DEF LifeInv, LifeTypeOK
<1>5. /\ [session[c] EXCEPT !.endpoint = FALSE, !.life = "released"] \in SessionRecord
      /\ [session[c] EXCEPT !.endpoint = FALSE, !.life = "released"].life = "released"
      /\ [session[c] EXCEPT !.endpoint = FALSE, !.life = "released"].endpoint = FALSE
      /\ [session[c] EXCEPT !.endpoint = FALSE, !.life = "released"].peer = session[c].peer
      /\ [session[c] EXCEPT !.endpoint = FALSE, !.life = "released"].ready = session[c].ready
  BY <1>4 DEF SessionRecord
<1>6. /\ session' \in [Sessions -> SessionRecord]
      /\ session'[c].life = "released" /\ ~ session'[c].endpoint /\ ~ session'[c].peer
      /\ \A d \in Sessions \ {c} : session'[d] = session[d]
  BY <1>4, <1>5 DEF LifeInv, LifeTypeOK
<1>7. /\ endpoint' \in [Sessions -> EndpointRecord]
      /\ endpoint'[c].life = endpoint[c].life /\ endpoint'[c].scheduled = endpoint[c].scheduled
      /\ \A d \in Sessions \ {c} : endpoint'[d] = endpoint[d]
  <2> DEFINE e == [endpoint[c] EXCEPT !.extra = FALSE]
  <2>1. endpoint \in [Sessions -> EndpointRecord] /\ endpoint[c] \in EndpointRecord
    BY DEF LifeInv, LifeTypeOK
  <2>2. e \in EndpointRecord /\ e.life = endpoint[c].life /\ e.scheduled = endpoint[c].scheduled
    BY <2>1 DEF EndpointRecord
  <2>3. endpoint' = [d \in Sessions |-> IF d = c THEN e ELSE endpoint[d]]
    BY <1>1, <2>1
  <2> HIDE DEF e
  <2> QED
    BY <2>1, <2>2, <2>3
<1>8. LifeTypeOK'
  <2>1. listed \in Seq(Sessions) /\ IsInjective(listed) /\ ToSet(listed) = {d \in Sessions : session[d].life = "live"}
    BY DEF LifeInv, LifeTypeOK
  <2>2. listed' \in Seq(Sessions) /\ IsInjective(listed') /\ ToSet(listed') = ToSet(listed) \ {c}
    BY <1>1, <2>1, WithoutOrder
  <2>3. ToSet(listed') = {d \in Sessions : session'[d].life = "live"}
    BY <1>6, <2>1, <2>2
  <2>4. frame' \in [of : Callbacks, rest : Rests]
    BY DEF NoFrame, Callbacks, Rests
  <2> QED
    BY <1>3, <1>6, <1>7, <2>2, <2>3, <2>4 DEF LifeInv, LifeTypeOK, QueueOK
<1>9. frame'.rest = <<>>
  BY DEF NoFrame
<1>10. Slots'
  <2> SUFFICES ASSUME NEW d \in Sessions
               PROVE  SlotOK(session'[d], peer'[d], endpoint'[d], told'[d], ToSet(queue'), frame'.rest, d)
    BY DEF Slots
  <2>1. SlotOK(session[d], peer[d], endpoint[d], told[d], ToSet(queue), frame.rest, d)
    BY LifeTypes
  <2>2. CASE d # c
    <3>1. SameTasks(ToSet(queue'), ToSet(queue), d) /\ SameRest(frame'.rest, frame.rest, d)
      BY <1>3, <1>9, <2>2 DEF SameTasks
    <3> QED
      BY <1>6, <1>7, <2>2, <3>1, OtherSlot
  <2>3. CASE d = c
    <3>1. u \in ToSet(queue') /\ <<"disconnected", c>> \notin ToSet(queue') /\ <<"ready", c>> \notin ToSet(queue')
          /\ (<<"disconnect_peer", c>> \in ToSet(queue') => <<"disconnect_peer", c>> \in ToSet(queue))
          /\ <<"stop_endpoint", c>> \in ToSet(queue')
      BY <1>3
    <3> HIDE DEF u
    <3>2. peer[c].state # "requesting" /\ ~ peer[c].extra
      BY <2>1, <2>3 DEF SlotOK
    <3> QED
      BY <1>6, <1>7, <1>9, <2>1, <2>3, <3>1, <3>2 DEF SlotOK, u
  <2> QED
    BY <2>2, <2>3
<1>11. Protocol(ToSet(queue))'
  <2>1. /\ <<"stop">> \in ToSet(queue') <=> <<"stop">> \in ToSet(queue)
        /\ <<"stop_protocol">> \in ToSet(queue') <=> <<"stop_protocol">> \in ToSet(queue)
        /\ <<"destroy_protocol">> \in ToSet(queue') <=> <<"destroy_protocol">> \in ToSet(queue)
    BY <1>3
  <2>2. \A d \in Sessions : session'[d].life = "live" => session[d].life = "live"
    BY <1>6
  <2> QED
    BY <1>9, <2>1, <2>2 DEF LifeInv, Protocol
<1>12. Orders'
  <2>1. \A d \in Sessions : <<"ready", d>> \notin ToSet(queue')
    BY <1>3
  <2>2. ASSUME NEW d \in Sessions PROVE ~ Precedes(queue', <<"stop_protocol">>, <<"disconnect_peer", d>>)
    BY <1>3
  <2>3. ~ Precedes(queue', <<"destroy_protocol">>, <<"stop_protocol">>)
    BY <1>3
  <2> QED
    BY <2>1, <2>2, <2>3 DEF Orders
<1> QED
  BY <1>8, <1>10, <1>11, <1>12 DEF LifeInv

LEMMA LifeSessionDisconnected == ASSUME LifeInv, NEW c \in Sessions, SessionDisconnected(c) PROVE LifeInv'
<1> DEFINE t == <<"disconnected", c>>
           u == <<"stop_endpoint", c>>
           after == Submit(Tail(queue), u)
<1>1. Running(t) /\ UNCHANGED <<api, proto, peer, manner>>
  BY DEF SessionDisconnected
<1>2. /\ t \in ToSet(queue) /\ frame.rest = <<>> /\ frame = NoFrame
      /\ QueueOK(Tail(queue)) /\ ToSet(Tail(queue)) = ToSet(queue) \ {t}
      /\ \A x, y : Precedes(Tail(queue), x, y) <=> Precedes(queue, x, y) /\ x # t
  BY <1>1, Runs
<1>3. \A d \in Sessions : <<"ready", d>> \notin ToSet(queue)
  BY <1>2 DEF LifeInv, Orders
<1>4. SlotOK(session[c], peer[c], endpoint[c], told[c], ToSet(queue), frame.rest, c)
  BY LifeTypes
<1>5. ~ session[c].peer
  BY <1>2, <1>4 DEF SlotOK
<1>6. u \in Tasks
  BY DEF Tasks, PeerTasks
<1>7. /\ QueueOK(after) /\ ToSet(after) = ToSet(Tail(queue)) \union {u}
      /\ \A x, y : Precedes(after, x, y) <=>
             \/ Precedes(Tail(queue), x, y) /\ x # u /\ y # u
             \/ x \in ToSet(Tail(queue)) /\ x # u /\ y = u
  BY <1>2, <1>6, SubmitOrder
<1> HIDE DEF after
<1>8. ASSUME NEW d \in Sessions \ {c} PROVE SameTasks(ToSet(after), ToSet(queue), d)
  BY <1>2, <1>7 DEF SameTasks
<1>9. /\ \A d \in Sessions : <<"ready", d>> \notin ToSet(after)
      /\ t \notin ToSet(after) /\ u \in ToSet(after)
      /\ \A k \in PeerTasks \ {"disconnected", "stop_endpoint"} : <<k, c>> \in ToSet(after) <=> <<k, c>> \in ToSet(queue)
      /\ \A x \in {<<"stop">>, <<"stop_protocol">>, <<"destroy_protocol">>} :
             x \in ToSet(after) <=> x \in ToSet(queue)
  BY <1>2, <1>3, <1>7
<1>10. /\ \A d \in Sessions : ~ Precedes(after, <<"stop_protocol">>, <<"disconnect_peer", d>>)
       /\ ~ Precedes(after, <<"destroy_protocol">>, <<"stop_protocol">>)
  <2>1. /\ \A d \in Sessions : ~ Precedes(queue, <<"stop_protocol">>, <<"disconnect_peer", d>>)
        /\ ~ Precedes(queue, <<"destroy_protocol">>, <<"stop_protocol">>)
    BY DEF LifeInv, Orders
  <2> QED
    BY <1>2, <1>7, <2>1
<1>11. CASE ~ session[c].endpoint
  <2>1. UNCHANGED <<listed, session, endpoint, queue, frame, told>>
    BY <1>11 DEF SessionDisconnected
  <2> QED
    BY <1>1, <2>1 DEF LifeInv, LifeTypeOK, Slots, Protocol, Orders
<1>12. CASE session[c].endpoint /\ session[c].ready
  <2>1. /\ queue' = after /\ told' = [told EXCEPT ![c] = Append(@, "disconnected")]
        /\ frame' = [of |-> "disconnected", rest |-> <<"let_go", c>>]
        /\ UNCHANGED <<listed, session, endpoint>>
    BY <1>12 DEF SessionDisconnected, Callback, after
  <2>2. frame' \in [of : Callbacks, rest : Rests] /\ frame'.of # "none" /\ frame'.rest = <<"let_go", c>>
    BY <2>1 DEF Callbacks, Rests
  <2>3. LifeTypeOK'
    BY <1>1, <1>7, <2>1, <2>2 DEF LifeInv, LifeTypeOK, QueueOK
  <2>4. Slots'
    <3> SUFFICES ASSUME NEW d \in Sessions
                 PROVE  SlotOK(session'[d], peer'[d], endpoint'[d], told'[d], ToSet(queue'), frame'.rest, d)
      BY DEF Slots
    <3>1. CASE d # c
      <4>1. SameTasks(ToSet(queue'), ToSet(queue), d) /\ SameRest(frame'.rest, frame.rest, d)
        BY <1>2, <1>8, <2>1, <2>2, <3>1 DEF SameRest
      <4>2. told'[d] = told[d]
        BY <2>1, <3>1 DEF LifeInv, LifeTypeOK
      <4> QED
        BY <1>1, <2>1, <3>1, <4>1, <4>2, OtherSlot
    <3>2. CASE d = c
      <4>1. /\ session[c].life = "live" /\ endpoint[c].life = "live" /\ endpoint[c].extra /\ endpoint[c].scheduled
            /\ <<"destroy_endpoint", c>> \notin ToSet(queue) /\ told[c] = <<"connected">>
            /\ endpoint[c].ready <=> session[c].ready
        BY <1>2, <1>3, <1>4, <1>12 DEF SlotOK
      <4>2. told'[c] = <<"connected", "disconnected">>
        <5>1. told'[c] = Append(told[c], "disconnected")
          BY <2>1 DEF LifeInv, LifeTypeOK
        <5>2. Append(<<"connected">>, "disconnected") = <<"connected", "disconnected">>
          <6> DEFINE x == "connected"
                     y == "disconnected"
          <6>1. x \in {x, y} /\ y \in {x, y}
            OBVIOUS
          <6> HIDE DEF x, y
          <6>2. Append(<<x>>, y) = <<x, y>>
            BY <6>1, AppendToOne
          <6> QED
            BY <6>2 DEF x, y
        <5> QED
          BY <4>1, <5>1, <5>2, Zenon
      <4>3. /\ <<"destroy_endpoint", c>> \notin ToSet(queue') /\ <<"disconnected", c>> \notin ToSet(queue')
            /\ <<"stop_endpoint", c>> \in ToSet(queue') /\ <<"ready", c>> \notin ToSet(queue')
            /\ <<"disconnect_peer", c>> \in ToSet(queue') <=> <<"disconnect_peer", c>> \in ToSet(queue)
        BY <1>9, <2>1, <4>1 DEF PeerTasks
      <4> QED
        BY <1>1, <1>4, <1>5, <1>12, <2>1, <2>2, <3>2, <4>1, <4>2, <4>3 DEF SlotOK
    <3> QED
      BY <3>1, <3>2
  <2>5. Protocol(ToSet(queue))'
    BY <1>1, <1>9, <2>1, <2>2 DEF LifeInv, Protocol
  <2>6. Orders'
    BY <1>9, <1>10, <2>1 DEF Orders
  <2> QED
    BY <2>3, <2>4, <2>5, <2>6 DEF LifeInv
<1>13. CASE session[c].endpoint /\ ~ session[c].ready
  <2>1. LetGo(c, after) /\ UNCHANGED <<frame, told>>
    BY <1>13 DEF SessionDisconnected, after
  <2>2. session[c].life = "live"
    BY <1>4, <1>13 DEF SlotOK
  <2>3. <<"disconnect_peer", c>> \in ToSet(after) => <<"disconnect_peer", c>> \in ToSet(queue)
    BY <1>9 DEF PeerTasks
  <2>4. frame' = NoFrame /\ \A d \in Sessions \ {c} : SameRest(<<>>, frame.rest, d)
    BY <1>2, <2>1 DEF SameRest
  <2> QED
    BY <1>1, <1>5, <1>7, <1>8, <1>9, <1>10, <2>1, <2>2, <2>3, <2>4, LifeLetGo
<1> QED
  BY <1>11, <1>12, <1>13

\* The tasks of sending, which the life of sessions does not depend on.
DispatcherTasks == {"dispatcher"} \X Messages \X Sessions
SendTasks == ({"send"} \X Sessions) \union DispatcherTasks

LEMMA TaskKinds ==
    /\ <<"stop">> \in LifeTasks /\ <<"stop_protocol">> \in LifeTasks /\ <<"destroy_protocol">> \in LifeTasks
    /\ \A k \in PeerTasks \ {"send"}, c \in Sessions : <<k, c>> \in LifeTasks
    /\ \A t \in SendTasks : t \notin LifeTasks /\ t \in Tasks
    /\ \A t \in LifeTasks : t \in Tasks
    /\ \A t \in DispatcherTasks : t \in SendTasks /\ \A c \in Sessions : t # <<"send", c>>
    /\ \A c \in Sessions : <<"send", c>> \in SendTasks /\ <<"send", c>> \notin DispatcherTasks
<1>1. <<"stop">> \in LifeTasks /\ <<"stop_protocol">> \in LifeTasks /\ <<"destroy_protocol">> \in LifeTasks
  BY DEF LifeTasks
<1>2. \A k \in PeerTasks \ {"send"}, c \in Sessions : <<k, c>> \in LifeTasks
  BY DEF LifeTasks
<1>3. ASSUME NEW t \in SendTasks PROVE t \notin LifeTasks /\ t \in Tasks
  BY <1>3 DEF SendTasks, DispatcherTasks, LifeTasks, Tasks, PeerTasks
<1>4. \A t \in LifeTasks : t \in Tasks
  BY DEF LifeTasks, Tasks
<1>5. \A t \in DispatcherTasks : t \in SendTasks /\ \A c \in Sessions : t # <<"send", c>>
  BY DEF SendTasks, DispatcherTasks
<1>6. \A c \in Sessions : <<"send", c>> \in SendTasks /\ <<"send", c>> \notin DispatcherTasks
  BY DEF SendTasks, DispatcherTasks
<1> QED
  BY <1>1, <1>2, <1>3, <1>4, <1>5, <1>6

LEMMA LifeStopEndpoint ==
    ASSUME LifeInv, NEW c \in Sessions, StopEndpoint(c),
           QueueOK(CanceledTasks(Held(bus[c]), c)), ToSet(CanceledTasks(Held(bus[c]), c)) \subseteq DispatcherTasks
    PROVE  LifeInv'
<1> DEFINE t == <<"stop_endpoint", c>>
           more == CanceledTasks(Held(bus[c]), c)
<1>1. /\ Running(t) /\ UNCHANGED <<api, proto, listed, peer, session, frame, manner, told>>
      /\ endpoint' = [endpoint EXCEPT ![c].scheduled = FALSE]
      /\ queue' = Tail(queue) \/ queue' = SubmitAll(Tail(queue), more)
  BY DEF StopEndpoint
<1>2. /\ t \in ToSet(queue) /\ frame.rest = <<>> /\ frame = NoFrame
      /\ QueueOK(Tail(queue)) /\ ToSet(Tail(queue)) = ToSet(queue) \ {t}
      /\ \A x, y : Precedes(Tail(queue), x, y) <=> Precedes(queue, x, y) /\ x # t
  BY <1>1, Runs
<1>a. QueueOK(more) /\ ToSet(more) \subseteq DispatcherTasks
  OBVIOUS
<1> HIDE DEF more
<1>3. /\ QueueOK(queue')
      /\ \A x \in Tasks \ DispatcherTasks : x \in ToSet(queue') <=> x \in ToSet(queue) /\ x # t
      /\ \A x, y \in Tasks \ DispatcherTasks : Precedes(queue', x, y) => Precedes(queue, x, y)
  <2>1. CASE queue' = Tail(queue)
    BY <1>2, <2>1
  <2>2. CASE queue' = SubmitAll(Tail(queue), more)
    <3>1. /\ QueueOK(queue') /\ ToSet(queue') = ToSet(Tail(queue)) \union ToSet(more)
          /\ \A x, y : Precedes(queue', x, y) <=>
                 \/ Precedes(Tail(queue), x, y) /\ x \notin ToSet(more) /\ y \notin ToSet(more)
                 \/ Precedes(more, x, y)
                 \/ x \in ToSet(Tail(queue)) /\ x \notin ToSet(more) /\ y \in ToSet(more)
      BY <1>2, <1>a, <2>2, SubmitAllOrder
    <3>2. \A x, y : Precedes(more, x, y) => x \in ToSet(more)
      BY PrecedesMember
    <3> QED
      BY <1>2, <1>a, <3>1, <3>2
  <2> QED
    BY <1>1, <2>1, <2>2
<1>4. /\ \A x \in LifeTasks : x \in Tasks \ DispatcherTasks
      /\ \A d \in Sessions : <<"send", d>> \in Tasks \ DispatcherTasks
  BY TaskKinds
<1>b. /\ <<"stop">> \in LifeTasks /\ <<"stop_protocol">> \in LifeTasks /\ <<"destroy_protocol">> \in LifeTasks
      /\ \A k \in PeerTasks \ {"send"}, d \in Sessions : <<k, d>> \in LifeTasks
  BY TaskKinds
<1>5. \A k \in PeerTasks, d \in Sessions : <<k, d>> \in ToSet(queue') <=> <<k, d>> \in ToSet(queue) /\ <<k, d>> # t
  BY <1>3, <1>4, <1>b
<1>6. /\ \A d \in Sessions \ {c} : endpoint'[d] = endpoint[d]
      /\ endpoint' \in [Sessions -> EndpointRecord]
      /\ endpoint'[c].life = endpoint[c].life /\ endpoint'[c].extra = endpoint[c].extra
      /\ endpoint'[c].ready = endpoint[c].ready /\ ~ endpoint'[c].scheduled
  <2>1. /\ endpoint' = [d \in Sessions |-> IF d = c THEN [endpoint[c] EXCEPT !.scheduled = FALSE] ELSE endpoint[d]]
        /\ endpoint[c] \in EndpointRecord
    BY <1>1 DEF LifeInv, LifeTypeOK
  <2>2. /\ [endpoint[c] EXCEPT !.scheduled = FALSE] \in EndpointRecord
        /\ [endpoint[c] EXCEPT !.scheduled = FALSE].life = endpoint[c].life
        /\ [endpoint[c] EXCEPT !.scheduled = FALSE].extra = endpoint[c].extra
        /\ [endpoint[c] EXCEPT !.scheduled = FALSE].ready = endpoint[c].ready
        /\ [endpoint[c] EXCEPT !.scheduled = FALSE].scheduled = FALSE
    BY <2>1 DEF EndpointRecord
  <2> QED
    BY <2>1, <2>2, LifeTypes
<1>7. LifeTypeOK'
  BY <1>1, <1>3, <1>6 DEF LifeInv, LifeTypeOK, QueueOK
<1>8. Slots'
  <2> SUFFICES ASSUME NEW d \in Sessions
               PROVE  SlotOK(session'[d], peer'[d], endpoint'[d], told'[d], ToSet(queue'), frame'.rest, d)
    BY DEF Slots
  <2>1. SlotOK(session[d], peer[d], endpoint[d], told[d], ToSet(queue), frame.rest, d)
    BY LifeTypes
  <2>2. CASE d # c
    <3>1. SameTasks(ToSet(queue'), ToSet(queue), d) /\ SameRest(frame'.rest, frame.rest, d)
      BY <1>1, <1>5, <2>2 DEF SameTasks, SameRest
    <3> QED
      BY <1>1, <1>6, <2>2, <3>1, OtherSlot
  <2>3. CASE d = c
    <3>a. SlotOK(session[c], peer[c], endpoint[c], told[c], ToSet(queue), <<>>, c)
      BY <1>2, <2>1, <2>3
    <3>b. session[c].life # "fresh" /\ session[c].life # "live"
      BY <1>2, <3>a DEF SlotOK, PeerTasks
    <3>1. session[c].life = "released"
      BY <3>b, LifeTypes DEF SessionRecord
    <3>2. /\ <<"ready", c>> \in ToSet(queue') <=> <<"ready", c>> \in ToSet(queue)
          /\ <<"disconnected", c>> \in ToSet(queue') <=> <<"disconnected", c>> \in ToSet(queue)
          /\ <<"disconnect_peer", c>> \in ToSet(queue') <=> <<"disconnect_peer", c>> \in ToSet(queue)
          /\ <<"destroy_endpoint", c>> \in ToSet(queue') <=> <<"destroy_endpoint", c>> \in ToSet(queue)
      BY <1>5 DEF PeerTasks
    <3> QED
      BY <1>1, <1>2, <1>6, <2>1, <2>3, <3>1, <3>2 DEF SlotOK
  <2> QED
    BY <2>2, <2>3
<1>9. /\ <<"stop">> \in ToSet(queue') <=> <<"stop">> \in ToSet(queue)
      /\ <<"stop_protocol">> \in ToSet(queue') <=> <<"stop_protocol">> \in ToSet(queue)
      /\ <<"destroy_protocol">> \in ToSet(queue') <=> <<"destroy_protocol">> \in ToSet(queue)
  BY <1>3, <1>4, <1>b
<1>10. Protocol(ToSet(queue))'
  BY <1>1, <1>9 DEF LifeInv, Protocol
<1>11. Orders'
  <2>1. /\ \A d \in Sessions : ~ Precedes(queue, <<"stop_protocol">>, <<"disconnect_peer", d>>)
        /\ ~ Precedes(queue, <<"destroy_protocol">>, <<"stop_protocol">>)
        /\ \A d \in Sessions : <<"ready", d>> \notin ToSet(queue)
    BY <1>2 DEF LifeInv, Orders
  <2>2. /\ \A d \in Sessions : ~ Precedes(queue', <<"stop_protocol">>, <<"disconnect_peer", d>>)
        /\ ~ Precedes(queue', <<"destroy_protocol">>, <<"stop_protocol">>)
    <3>1. \A d \in Sessions : <<"disconnect_peer", d>> \in Tasks \ DispatcherTasks
      BY <1>4, <1>b DEF PeerTasks
    <3>2. <<"stop_protocol">> \in Tasks \ DispatcherTasks /\ <<"destroy_protocol">> \in Tasks \ DispatcherTasks
      BY <1>4, <1>b
    <3> QED
      BY <1>3, <2>1, <3>1, <3>2
  <2>3. \A d \in Sessions : <<"ready", d>> \notin ToSet(queue')
    BY <1>5, <2>1 DEF PeerTasks
  <2> QED
    BY <2>2, <2>3 DEF Orders
<1> QED
  BY <1>7, <1>8, <1>10, <1>11 DEF LifeInv

LEMMA LifeDestroyEndpoint == ASSUME LifeInv, NEW c \in Sessions, DestroyEndpoint(c) PROVE LifeInv'
<1> DEFINE t == <<"destroy_endpoint", c>>
<1>1. /\ Running(t) /\ UNCHANGED <<api, proto, listed, peer, session, frame, manner, told>>
      /\ endpoint' = [endpoint EXCEPT ![c].life = "released", ![c].scheduled = FALSE]
      /\ queue' = Tail(queue)
  BY DEF DestroyEndpoint
<1>2. /\ t \in ToSet(queue) /\ frame.rest = <<>> /\ frame = NoFrame
      /\ QueueOK(queue') /\ ToSet(queue') = ToSet(queue) \ {t}
      /\ \A x, y : Precedes(queue', x, y) <=> Precedes(queue, x, y) /\ x # t
  BY <1>1, Runs
<1>3. /\ endpoint' = [d \in Sessions |-> IF d = c THEN [endpoint[c] EXCEPT !.life = "released", !.scheduled = FALSE]
                                         ELSE endpoint[d]]
      /\ endpoint[c] \in EndpointRecord
  BY <1>1 DEF LifeInv, LifeTypeOK
<1>4. /\ [endpoint[c] EXCEPT !.life = "released", !.scheduled = FALSE] \in EndpointRecord
      /\ [endpoint[c] EXCEPT !.life = "released", !.scheduled = FALSE].life = "released"
      /\ [endpoint[c] EXCEPT !.life = "released", !.scheduled = FALSE].scheduled = FALSE
  BY <1>3 DEF EndpointRecord
<1>5. /\ endpoint' \in [Sessions -> EndpointRecord] /\ \A d \in Sessions \ {c} : endpoint'[d] = endpoint[d]
      /\ endpoint'[c].life = "released" /\ ~ endpoint'[c].scheduled
  BY <1>3, <1>4, LifeTypes
<1>6. LifeTypeOK'
  BY <1>1, <1>2, <1>5 DEF LifeInv, LifeTypeOK, QueueOK
<1>7. Slots'
  <2> SUFFICES ASSUME NEW d \in Sessions
               PROVE  SlotOK(session'[d], peer'[d], endpoint'[d], told'[d], ToSet(queue'), frame'.rest, d)
    BY DEF Slots
  <2>1. SlotOK(session[d], peer[d], endpoint[d], told[d], ToSet(queue), frame.rest, d)
    BY LifeTypes
  <2>2. CASE d # c
    <3>1. SameTasks(ToSet(queue'), ToSet(queue), d) /\ SameRest(frame'.rest, frame.rest, d)
      BY <1>1, <1>2, <2>2 DEF SameTasks, SameRest
    <3> QED
      BY <1>1, <1>5, <2>2, <3>1, OtherSlot
  <2>3. CASE d = c
    <3>1. session[c].life = "released"
      BY <1>2, <2>1, <2>3, LifeTypes DEF SlotOK, PeerTasks, SessionRecord
    <3> QED
      BY <1>1, <1>2, <1>5, <2>1, <2>3, <3>1 DEF SlotOK
  <2> QED
    BY <2>2, <2>3
<1>8. Protocol(ToSet(queue))'
  BY <1>1, <1>2 DEF LifeInv, Protocol
<1>9. Orders'
  BY <1>1, <1>2 DEF LifeInv, Orders
<1> QED
  BY <1>6, <1>7, <1>8, <1>9 DEF LifeInv

LEMMA ConcatQueue ==
    ASSUME NEW a, QueueOK(a), NEW b, QueueOK(b), \A x \in ToSet(a) : x \notin ToSet(b)
    PROVE  /\ QueueOK(a \o b) /\ ToSet(a \o b) = ToSet(a) \union ToSet(b)
           /\ \A x, y : Precedes(a \o b, x, y) <=>
                  Precedes(a, x, y) \/ Precedes(b, x, y) \/ (x \in ToSet(a) /\ y \in ToSet(b))
<1>1. a \in Seq(Tasks) /\ IsInjective(a) /\ b \in Seq(Tasks) /\ IsInjective(b)
  BY DEF QueueOK
<1>2. /\ a \o b \in Seq(Tasks) /\ ToSet(a \o b) = ToSet(a) \union ToSet(b)
      /\ \A x, y : Precedes(a \o b, x, y) <=>
             Precedes(a, x, y) \/ Precedes(b, x, y) \/ (x \in ToSet(a) /\ y \in ToSet(b))
  BY <1>1, ConcatOrder
<1>3. \A x : ~ Precedes(a, x, x) /\ ~ Precedes(b, x, x)
  BY <1>1, InjectiveOrder
<1>4. \A x : ~ Precedes(a \o b, x, x)
  BY <1>2, <1>3
<1>5. IsInjective(a \o b)
  BY <1>2, <1>4, InjectiveOrder
<1> QED
  BY <1>2, <1>5 DEF QueueOK

\* The tasks of the endpoints that a stop releases, two for each listed session.
ReleasedTasks ==
    [i \in 1 .. 2 * Len(listed) |->
        <<IF i % 2 = 1 THEN "stop_endpoint" ELSE "destroy_endpoint", listed[(i + 1) \div 2]>>]

LEMMA ReleasedOrder ==
    ASSUME LifeInv
    PROVE  /\ QueueOK(ReleasedTasks)
           /\ \A x : x \in ToSet(ReleasedTasks) <=>
                  \E c \in ToSet(listed) : x = <<"stop_endpoint", c>> \/ x = <<"destroy_endpoint", c>>
<1> DEFINE n == Len(listed)
           r == ReleasedTasks
<1>1. listed \in Seq(Sessions) /\ IsInjective(listed) /\ n \in Nat /\ DOMAIN listed = 1 .. n
  BY DEF LifeInv, LifeTypeOK
<1>2. /\ DOMAIN r = 1 .. 2 * n
      /\ \A i \in 1 .. 2 * n : r[i] = <<IF i % 2 = 1 THEN "stop_endpoint" ELSE "destroy_endpoint",
                                        listed[(i + 1) \div 2]>>
  BY DEF ReleasedTasks
<1>3. r = [i \in 1 .. 2 * n |-> r[i]]
  BY DEF ReleasedTasks
<1> HIDE DEF r
<1>4. ASSUME NEW i \in 1 .. 2 * n
      PROVE  (i + 1) \div 2 \in 1 .. n /\ (i % 2 = 1 => i = 2 * ((i + 1) \div 2) - 1)
             /\ (i % 2 # 1 => i = 2 * ((i + 1) \div 2))
  BY <1>1, <1>4
<1> HIDE DEF n
<1>5. ASSUME NEW i \in 1 .. 2 * n PROVE r[i] \in Tasks
  <2>1. listed[(i + 1) \div 2] \in Sessions
    BY <1>1, <1>4
  <2>2. PICK d \in Sessions : d = listed[(i + 1) \div 2]
    BY <2>1
  <2>3. r[i] = <<"stop_endpoint", d>> \/ r[i] = <<"destroy_endpoint", d>>
    BY <1>2, <2>2
  <2> QED
    BY <2>3 DEF Tasks, PeerTasks
<1>6. ASSUME NEW i \in 1 .. 2 * n, NEW j \in 1 .. 2 * n, r[i] = r[j] PROVE i = j
  <2>1. PICK k \in 1 .. n : k = (i + 1) \div 2 /\ (i % 2 = 1 => i = 2 * k - 1) /\ (i % 2 # 1 => i = 2 * k)
    BY <1>4
  <2>2. PICK l \in 1 .. n : l = (j + 1) \div 2 /\ (j % 2 = 1 => j = 2 * l - 1) /\ (j % 2 # 1 => j = 2 * l)
    BY <1>4
  <2>3. (i % 2 = 1 <=> j % 2 = 1) /\ listed[k] = listed[l]
    BY <1>2, <1>6, <2>1, <2>2
  <2>4. k = l
    BY <1>1, <2>3 DEF IsInjective
  <2> QED
    BY <2>1, <2>2, <2>3, <2>4
<1>7. QueueOK(r)
  <2>1. r \in Seq(Tasks)
    BY <1>1, <1>3, <1>5
  <2>2. IsInjective(r)
    BY <1>2, <1>6 DEF IsInjective
  <2> QED
    BY <2>1, <2>2 DEF QueueOK
<1>8. ASSUME NEW c \in ToSet(listed) PROVE <<"stop_endpoint", c>> \in ToSet(r) /\ <<"destroy_endpoint", c>> \in ToSet(r)
  <2>1. PICK k \in 1 .. n : listed[k] = c
    BY <1>1 DEF ToSet
  <2>2. /\ 2 * k - 1 \in 1 .. 2 * n /\ 2 * k \in 1 .. 2 * n /\ (2 * k - 1) % 2 = 1 /\ (2 * k) % 2 # 1
        /\ (2 * k - 1 + 1) \div 2 = k /\ (2 * k + 1) \div 2 = k
    BY <1>1
  <2>3. r[2 * k - 1] = <<"stop_endpoint", c>>
    BY <1>2, <2>1, <2>2
  <2>4. r[2 * k] = <<"destroy_endpoint", c>>
    BY <1>2, <2>1, <2>2
  <2> QED
    BY <1>2, <2>2, <2>3, <2>4 DEF ToSet
<1>9. ASSUME NEW x \in ToSet(r)
      PROVE  \E c \in ToSet(listed) : x = <<"stop_endpoint", c>> \/ x = <<"destroy_endpoint", c>>
  <2>1. PICK i \in 1 .. 2 * n : r[i] = x
    BY <1>2 DEF ToSet
  <2>2. listed[(i + 1) \div 2] \in ToSet(listed)
    BY <1>1, <1>4 DEF ToSet
  <2> QED
    BY <1>2, <2>1, <2>2
<1> QED
  BY <1>7, <1>8, <1>9 DEF r

\* What the stop of a socket submits: the protocol's stop, if it runs, the ends
\* of the endpoints, and the protocol's end.
StopTasks ==
    (IF proto.state = "RUNNING" THEN <<<<"stop_protocol">>>> ELSE <<>>) \o ReleasedTasks \o <<<<"destroy_protocol">>>>

LEMMA StopTasksOrder ==
    ASSUME LifeInv
    PROVE  /\ QueueOK(StopTasks) /\ \A y : ~ Precedes(StopTasks, <<"destroy_protocol">>, y)
           /\ \A x : x \in ToSet(StopTasks) <=>
                  \/ proto.state = "RUNNING" /\ x = <<"stop_protocol">>
                  \/ \E c \in ToSet(listed) : x = <<"stop_endpoint", c>> \/ x = <<"destroy_endpoint", c>>
                  \/ x = <<"destroy_protocol">>
<1> DEFINE gone == ToSet(listed)
           p == <<"stop_protocol">>
           running == proto.state = "RUNNING"
           first == IF running THEN <<p>> ELSE <<>>
           u == <<"destroy_protocol">>
           more == first \o ReleasedTasks \o <<u>>
<1>1. /\ QueueOK(ReleasedTasks)
      /\ \A x : x \in ToSet(ReleasedTasks) <=>
             \E c \in gone : x = <<"stop_endpoint", c>> \/ x = <<"destroy_endpoint", c>>
  BY ReleasedOrder
<1>2. p \in Tasks /\ u \in Tasks /\ p # u /\ p \notin ToSet(ReleasedTasks) /\ u \notin ToSet(ReleasedTasks)
  BY <1>1 DEF Tasks
<1>3. /\ QueueOK(first) /\ \A x : x \in ToSet(first) <=> running /\ x = p
  BY <1>2, OneTask, EmptyOrder DEF QueueOK
<1>4. QueueOK(<<u>>) /\ ToSet(<<u>>) = {u} /\ \A x, y : ~ Precedes(<<u>>, x, y)
  BY <1>2, OneTask
<1> HIDE DEF first
<1> DEFINE begin == first \o ReleasedTasks
<1>5. /\ QueueOK(begin) /\ ToSet(begin) = ToSet(first) \union ToSet(ReleasedTasks)
  BY <1>1, <1>2, <1>3, ConcatQueue
<1>6. u \notin ToSet(begin)
  BY <1>2, <1>3, <1>5
<1> HIDE DEF begin
<1>7. /\ QueueOK(begin \o <<u>>) /\ ToSet(begin \o <<u>>) = ToSet(begin) \union {u}
       /\ \A x, y : Precedes(begin \o <<u>>, x, y) <=>
              Precedes(begin, x, y) \/ Precedes(<<u>>, x, y) \/ (x \in ToSet(begin) /\ y \in {u})
  BY <1>4, <1>5, <1>6, ConcatQueue
<1>8. /\ QueueOK(more) /\ \A y : ~ Precedes(more, u, y)
       /\ \A x : x \in ToSet(more) <=> \/ running /\ x = p
                                       \/ \E c \in gone : x = <<"stop_endpoint", c>> \/ x = <<"destroy_endpoint", c>>
                                       \/ x = u
  <2>1. more = begin \o <<u>>
    BY DEF begin
  <2>2. \A y : ~ Precedes(begin, u, y)
    BY <1>6, PrecedesMember
  <2>3. QueueOK(more)
    BY <1>7, <2>1
  <2>4. \A y : ~ Precedes(more, u, y)
    BY <1>4, <1>6, <1>7, <2>1, <2>2
  <2>5. ToSet(more) = ToSet(first) \union ToSet(ReleasedTasks) \union {u}
    BY <1>5, <1>7, <2>1
  <2> HIDE DEF more
  <2>6. ASSUME NEW x
        PROVE  x \in ToSet(more) <=> \/ running /\ x = p
                                     \/ \E c \in gone : x = <<"stop_endpoint", c>> \/ x = <<"destroy_endpoint", c>>
                                     \/ x = u
    <3>1. x \in ToSet(first) <=> running /\ x = p
      BY <1>3
    <3>2. x \in ToSet(ReleasedTasks) <=> \E c \in gone : x = <<"stop_endpoint", c>> \/ x = <<"destroy_endpoint", c>>
      BY <1>1
    <3> QED
      BY <2>5, <3>1, <3>2
  <2> QED
    BY <2>3, <2>4, <2>6
<1>9. more = StopTasks
  BY DEF StopTasks, first
<1> HIDE DEF more
<1> QED
  BY <1>8, <1>9

LEMMA LifeSocketStop == ASSUME LifeInv, SocketStop PROVE LifeInv'
<1> DEFINE t == <<"stop">>
           gone == ToSet(listed)
           p == <<"stop_protocol">>
           running == proto.state = "RUNNING"
           u == <<"destroy_protocol">>
           more == StopTasks
<1>1. /\ Running(t) /\ UNCHANGED <<endpoint, frame, manner, told>>
      /\ api' = [api EXCEPT !.state = "STOPPED"]
      /\ proto' = [proto EXCEPT !.state = IF running THEN "STOPPING" ELSE @, !.extra = FALSE]
      /\ queue' = SubmitAll(Tail(queue), more)
      /\ session' = [c \in Sessions |-> IF c \in gone THEN [session[c] EXCEPT !.life = "released",
                                                                 !.peer = FALSE, !.endpoint = FALSE]
                                        ELSE session[c]]
      /\ peer' = [c \in Sessions |-> IF c \in gone /\ session[c].peer
                                     THEN [peer[c] EXCEPT !.extra = FALSE] ELSE peer[c]]
      /\ listed' = <<>>
  BY DEF SocketStop, StopTasks, ReleasedTasks
<1>2. /\ t \in ToSet(queue) /\ frame.rest = <<>> /\ frame = NoFrame
      /\ QueueOK(Tail(queue)) /\ ToSet(Tail(queue)) = ToSet(queue) \ {t}
      /\ \A x, y : Precedes(Tail(queue), x, y) <=> Precedes(queue, x, y) /\ x # t
  BY <1>1, Runs
<1>3. \A d \in Sessions : <<"ready", d>> \notin ToSet(queue)
  BY <1>2 DEF LifeInv, Orders
<1>4. \A x : x \in gone <=> x \in Sessions /\ session[x].life = "live"
  BY DEF LifeInv, LifeTypeOK
<1>12. /\ QueueOK(more) /\ \A y : ~ Precedes(more, u, y)
       /\ \A x : x \in ToSet(more) <=> \/ running /\ x = p
                                       \/ \E c \in gone : x = <<"stop_endpoint", c>> \/ x = <<"destroy_endpoint", c>>
                                       \/ x = u
  BY StopTasksOrder
<1> HIDE DEF gone
<1> HIDE DEF more
<1>13. /\ QueueOK(queue') /\ ToSet(queue') = ToSet(Tail(queue)) \union ToSet(more)
       /\ \A x, y : Precedes(queue', x, y) <=>
              \/ Precedes(Tail(queue), x, y) /\ x \notin ToSet(more) /\ y \notin ToSet(more)
              \/ Precedes(more, x, y)
              \/ x \in ToSet(Tail(queue)) /\ x \notin ToSet(more) /\ y \in ToSet(more)
  BY <1>1, <1>2, <1>12, SubmitAllOrder
<1>14. ASSUME NEW c \in Sessions
       PROVE  /\ [session[c] EXCEPT !.life = "released", !.peer = FALSE, !.endpoint = FALSE] \in SessionRecord
              /\ [session[c] EXCEPT !.life = "released", !.peer = FALSE, !.endpoint = FALSE].life = "released"
              /\ [session[c] EXCEPT !.life = "released", !.peer = FALSE, !.endpoint = FALSE].peer = FALSE
              /\ [session[c] EXCEPT !.life = "released", !.peer = FALSE, !.endpoint = FALSE].endpoint = FALSE
              /\ [peer[c] EXCEPT !.extra = FALSE] \in PeerRecord /\ [peer[c] EXCEPT !.extra = FALSE].extra = FALSE
              /\ [peer[c] EXCEPT !.extra = FALSE].state = peer[c].state
  <2>1. session[c] \in SessionRecord /\ peer[c] \in PeerRecord
    BY LifeTypes
  <2> QED
    BY <2>1 DEF SessionRecord, PeerRecord
<1>15. /\ session' \in [Sessions -> SessionRecord] /\ peer' \in [Sessions -> PeerRecord]
       /\ \A c \in gone : /\ session'[c].life = "released" /\ ~ session'[c].peer /\ ~ session'[c].endpoint
       /\ \A c \in Sessions \ gone : session'[c] = session[c] /\ peer'[c] = peer[c]
       /\ \A c \in Sessions : ~ peer'[c].extra /\ peer'[c].state = peer[c].state
  <2>1. session' \in [Sessions -> SessionRecord]
    BY <1>1, <1>14, LifeTypes
  <2>2. peer' \in [Sessions -> PeerRecord]
    BY <1>1, <1>14, LifeTypes
  <2>3. \A c \in gone : /\ session'[c].life = "released" /\ ~ session'[c].peer /\ ~ session'[c].endpoint
    BY <1>1, <1>4, <1>14
  <2>4. \A c \in Sessions \ gone : session'[c] = session[c] /\ peer'[c] = peer[c]
    BY <1>1
  <2>5. ASSUME NEW c \in Sessions PROVE ~ peer'[c].extra /\ peer'[c].state = peer[c].state
    <3>1. SlotOK(session[c], peer[c], endpoint[c], told[c], ToSet(queue), frame.rest, c)
      BY LifeTypes
    <3>2. session[c].peer <=> peer[c].extra
      BY <3>1 DEF SlotOK
    <3>3. peer[c].extra => c \in gone
      BY <1>4, <3>1 DEF SlotOK
    <3> QED
      BY <1>1, <1>14, <3>2, <3>3
  <2> QED
    BY <2>1, <2>2, <2>3, <2>4, <2>5
<1>16. \A c \in Sessions : session'[c].life # "live"
  BY <1>4, <1>15
<1>17. /\ api' \in [state : {"STOPPED", "STOPPING", "RUNNING_CLIENT", "RUNNING_SERVER"}, starts : Nat]
       /\ api'.state = "STOPPED"
  BY <1>1 DEF LifeInv, LifeTypeOK
<1>18. /\ proto' \in [state : {"NONE", "RUNNING", "STOPPING", "STOPPED"}, mode : {"NONE", "SERVER", "CLIENT"},
                      extra : BOOLEAN]
       /\ proto'.state = IF running THEN "STOPPING" ELSE proto.state
       /\ proto'.mode = proto.mode
  <2> DEFINE next == IF running THEN "STOPPING" ELSE proto.state
  <2>1. next \in {"NONE", "RUNNING", "STOPPING", "STOPPED"}
    BY ProtoTypes
  <2>2. proto' = [proto EXCEPT !.state = next, !.extra = FALSE]
    BY <1>1
  <2> HIDE DEF next
  <2>3. /\ proto' \in [state : {"NONE", "RUNNING", "STOPPING", "STOPPED"}, mode : {"NONE", "SERVER", "CLIENT"},
                       extra : BOOLEAN]
        /\ proto'.state = next /\ proto'.mode = proto.mode
    BY <2>1, <2>2 DEF LifeInv, LifeTypeOK
  <2> QED
    BY <2>3 DEF next
<1>19. LifeTypeOK'
  <2>1. listed' \in Seq(Sessions) /\ IsInjective(listed') /\ ToSet(listed') = {}
    <3>1. <<>> \in Seq(Sessions)
      OBVIOUS
    <3> QED
      BY <1>1, <3>1, EmptyOrder
  <2> QED
    BY <1>1, <1>13, <1>15, <1>16, <1>17, <1>18, <2>1 DEF LifeInv, LifeTypeOK, QueueOK
<1>20. /\ \A k \in PeerTasks \ {"stop_endpoint", "destroy_endpoint"}, d \in Sessions :
              <<k, d>> \in ToSet(queue') <=> <<k, d>> \in ToSet(queue)
       /\ \A d \in Sessions \ gone : SameTasks(ToSet(queue'), ToSet(queue), d)
       /\ \A d \in gone : <<"stop_endpoint", d>> \in ToSet(queue') /\ <<"destroy_endpoint", d>> \in ToSet(queue')
       /\ u \in ToSet(queue') /\ t \notin ToSet(queue')
       /\ p \in ToSet(queue') <=> running \/ p \in ToSet(queue)
  <2>1. \A k \in PeerTasks \ {"stop_endpoint", "destroy_endpoint"}, d \in Sessions :
            <<k, d>> \in ToSet(queue') <=> <<k, d>> \in ToSet(queue)
    BY <1>2, <1>12, <1>13
  <2>2. ASSUME NEW d \in Sessions \ gone PROVE SameTasks(ToSet(queue'), ToSet(queue), d)
    BY <1>2, <1>12, <1>13 DEF SameTasks, PeerTasks
  <2>3. \A d \in gone : <<"stop_endpoint", d>> \in ToSet(queue') /\ <<"destroy_endpoint", d>> \in ToSet(queue')
    BY <1>12, <1>13
  <2>4. u \in ToSet(queue') /\ t \notin ToSet(queue')
    BY <1>2, <1>12, <1>13
  <2>5. p \in ToSet(queue') <=> running \/ p \in ToSet(queue)
    BY <1>2, <1>12, <1>13
  <2> QED
    BY <2>1, <2>2, <2>3, <2>4, <2>5
<1>21. Slots'
  <2> SUFFICES ASSUME NEW d \in Sessions
               PROVE  SlotOK(session'[d], peer'[d], endpoint'[d], told'[d], ToSet(queue'), frame'.rest, d)
    BY DEF Slots
  <2>1. SlotOK(session[d], peer[d], endpoint[d], told[d], ToSet(queue), frame.rest, d)
    BY LifeTypes
  <2>2. CASE d \notin gone
    <3>1. SameTasks(ToSet(queue'), ToSet(queue), d) /\ SameRest(frame'.rest, frame.rest, d)
      BY <1>1, <1>20, <2>2 DEF SameRest
    <3> QED
      BY <1>1, <1>15, <2>2, <3>1, OtherSlot
  <2>3. CASE d \in gone
    <3>1. /\ <<"ready", d>> \notin ToSet(queue')
          /\ <<"disconnect_peer", d>> \in ToSet(queue') => <<"disconnect_peer", d>> \in ToSet(queue)
      BY <1>3, <1>20 DEF PeerTasks
    <3>2. session[d].life = "live" /\ frame'.rest = <<>>
      BY <1>1, <1>2, <1>4, <2>3
    <3>3. <<"stop_endpoint", d>> \in ToSet(queue') /\ <<"destroy_endpoint", d>> \in ToSet(queue')
      BY <1>20, <2>3
    <3>4. /\ session'[d].life = "released" /\ ~ session'[d].peer /\ ~ session'[d].endpoint
          /\ ~ peer'[d].extra /\ peer'[d].state = peer[d].state
      BY <1>15, <2>3
    <3>5. endpoint'[d] = endpoint[d] /\ told'[d] = told[d]
      BY <1>1
    <3>6. peer[d].state # "requesting"
      BY <2>1, <3>2 DEF SlotOK
    <3> QED
      BY <3>1, <3>2, <3>3, <3>4, <3>5, <3>6, <2>1 DEF SlotOK
  <2> QED
    BY <2>2, <2>3
<1>22. proto.state # "NONE"
  <2>1. api.state = "STOPPING"
    BY <1>2 DEF LifeInv, Protocol
  <2> QED
    BY <2>1 DEF LifeInv, Protocol
<1>23. Protocol(ToSet(queue))'
  <2>1. proto'.state # "NONE" /\ proto'.state # "RUNNING"
        /\ (proto'.state = "STOPPED" <=> proto.state = "STOPPED")
        /\ (proto'.state = "STOPPING" <=> running \/ proto.state = "STOPPING")
    BY <1>18, <1>22
  <2>2. frame'.rest = <<>>
    BY <1>1, <1>2
  <2>3. proto.state = "STOPPING" <=> p \in ToSet(queue)
    BY DEF LifeInv, Protocol
  <2>4. /\ proto.state = "STOPPED" => \A c \in Sessions : peer[c].state = "none"
        /\ \A c \in Sessions : peer[c].state = "requesting" => proto.mode = "CLIENT"
        /\ proto.mode = "CLIENT" => \A c, d \in Sessions : peer[c].state # "none" /\ peer[d].state # "none" => c = d
    BY DEF LifeInv, Protocol
  <2>5. proto'.state \in {"STOPPING", "STOPPED"}
    BY <1>18, <2>1
  <2> QED
    BY <1>15, <1>16, <1>17, <1>18, <1>20, <2>1, <2>2, <2>3, <2>4, <2>5 DEF Protocol
<1>24. Orders'
  <2>1. /\ \A d \in Sessions : ~ Precedes(queue, p, <<"disconnect_peer", d>>)
        /\ ~ Precedes(queue, u, p)
    BY DEF LifeInv, Orders
  <2>2. \A x, y : Precedes(more, x, y) => x \in ToSet(more) /\ y \in ToSet(more)
    BY PrecedesMember
  <2>3. ASSUME NEW d \in Sessions PROVE ~ Precedes(queue', p, <<"disconnect_peer", d>>)
    <3>1. <<"disconnect_peer", d>> \notin ToSet(more)
      BY <1>12
    <3> QED
      BY <1>2, <1>13, <2>1, <2>2, <3>1
  <2>4. ~ Precedes(queue', u, p)
    <3>1. u \in ToSet(more) /\ ~ Precedes(more, u, p)
      BY <1>12
    <3> QED
      BY <1>13, <3>1
  <2>5. \A d \in Sessions : <<"ready", d>> \notin ToSet(queue')
    BY <1>3, <1>20 DEF PeerTasks
  <2> QED
    BY <2>3, <2>4, <2>5 DEF Orders
<1> QED
  BY <1>19, <1>21, <1>23, <1>24 DEF LifeInv

LEMMA LifeProtocolStop == ASSUME LifeInv, ProtocolStop PROVE LifeInv'
<1> DEFINE t == <<"stop_protocol">>
<1>1. /\ Running(t) /\ queue' = Tail(queue)
      /\ proto' = [proto EXCEPT !.state = "STOPPED"]
      /\ peer' = [c \in Sessions |-> [peer[c] EXCEPT !.state = "none"]]
      /\ UNCHANGED <<api, listed, session, endpoint, frame, manner, told>>
  BY DEF ProtocolStop
<1>2. /\ t \in ToSet(queue) /\ frame.rest = <<>> /\ frame = NoFrame
      /\ QueueOK(queue') /\ ToSet(queue') = ToSet(queue) \ {t}
      /\ \A x, y : Precedes(queue', x, y) <=> Precedes(queue, x, y) /\ x # t
      /\ \A x \in ToSet(queue) : x = t \/ Precedes(queue, t, x)
  BY <1>1, Runs
<1>3. proto.state = "STOPPING" /\ \A c \in Sessions : ~ peer[c].extra
  BY <1>2 DEF LifeInv, Protocol
<1>4. ASSUME NEW c \in Sessions PROVE <<"disconnect_peer", c>> \notin ToSet(queue)
  <2>1. ~ Precedes(queue, t, <<"disconnect_peer", c>>)
    BY DEF LifeInv, Orders
  <2> QED
    BY <1>2, <2>1
<1>5. /\ peer' \in [Sessions -> PeerRecord]
      /\ \A c \in Sessions : peer'[c].state = "none" /\ ~ peer'[c].extra
  <2>1. ASSUME NEW c \in Sessions
        PROVE  /\ [peer[c] EXCEPT !.state = "none"] \in PeerRecord /\ [peer[c] EXCEPT !.state = "none"].state = "none"
               /\ [peer[c] EXCEPT !.state = "none"].extra = peer[c].extra
    <3>1. peer[c] \in PeerRecord
      BY LifeTypes
    <3> QED
      BY <3>1 DEF PeerRecord
  <2> QED
    BY <1>1, <1>3, <2>1
<1>6. /\ proto' \in [state : {"NONE", "RUNNING", "STOPPING", "STOPPED"}, mode : {"NONE", "SERVER", "CLIENT"},
                     extra : BOOLEAN]
      /\ proto'.state = "STOPPED" /\ proto'.mode = proto.mode
  BY <1>1 DEF LifeInv, LifeTypeOK
<1>7. LifeTypeOK'
  BY <1>1, <1>2, <1>5, <1>6 DEF LifeInv, LifeTypeOK, QueueOK
<1>8. Slots'
  <2> SUFFICES ASSUME NEW d \in Sessions
               PROVE  SlotOK(session'[d], peer'[d], endpoint'[d], told'[d], ToSet(queue'), frame'.rest, d)
    BY DEF Slots
  <2>1. SlotOK(session[d], peer[d], endpoint[d], told[d], ToSet(queue), <<>>, d)
    BY <1>2, LifeTypes
  <2>2. SlotOK(session[d], peer'[d], endpoint[d], told[d], ToSet(queue), <<>>, d)
    BY <1>3, <1>4, <1>5, <2>1 DEF SlotOK
  <2>3. SameTasks(ToSet(queue'), ToSet(queue), d) /\ SameRest(<<>>, <<>>, d)
    BY <1>2 DEF SameTasks, SameRest
  <2>4. SlotOK(session[d], peer'[d], endpoint[d], told[d], ToSet(queue'), <<>>, d)
    BY <2>2, <2>3, SlotSame, Zenon
  <2> QED
    BY <1>1, <1>2, <2>4
<1>9. Protocol(ToSet(queue))'
  BY <1>1, <1>2, <1>5, <1>6 DEF LifeInv, Protocol
<1>10. Orders'
  BY <1>1, <1>2 DEF LifeInv, Orders
<1> QED
  BY <1>7, <1>8, <1>9, <1>10 DEF LifeInv

LEMMA LifeProtocolDestroy == ASSUME LifeInv, ProtocolDestroy PROVE LifeInv'
<1> DEFINE t == <<"destroy_protocol">>
<1>1. /\ Running(t) /\ queue' = Tail(queue)
      /\ proto' = [proto EXCEPT !.state = "NONE"]
      /\ UNCHANGED <<api, listed, peer, session, endpoint, frame, manner, told>>
  BY DEF ProtocolDestroy, objects
<1>2. /\ t \in ToSet(queue) /\ frame.rest = <<>> /\ frame = NoFrame
      /\ QueueOK(queue') /\ ToSet(queue') = ToSet(queue) \ {t}
      /\ \A x, y : Precedes(queue', x, y) <=> Precedes(queue, x, y) /\ x # t
      /\ \A x \in ToSet(queue) : x = t \/ Precedes(queue, t, x)
  BY <1>1, Runs
<1>3. api.state = "STOPPED" /\ proto.state \in {"STOPPING", "STOPPED"}
  BY <1>2 DEF LifeInv, Protocol
<1>4. <<"stop_protocol">> \notin ToSet(queue)
  <2>1. ~ Precedes(queue, t, <<"stop_protocol">>)
    BY DEF LifeInv, Orders
  <2> QED
    BY <1>2, <2>1
<1>5. \A c \in Sessions : peer[c].state = "none"
  BY <1>3, <1>4 DEF LifeInv, Protocol
<1>6. /\ proto' \in [state : {"NONE", "RUNNING", "STOPPING", "STOPPED"}, mode : {"NONE", "SERVER", "CLIENT"},
                     extra : BOOLEAN]
      /\ proto'.state = "NONE" /\ proto'.mode = proto.mode
  BY <1>1 DEF LifeInv, LifeTypeOK
<1>7. LifeTypeOK'
  BY <1>1, <1>2, <1>6 DEF LifeInv, LifeTypeOK, QueueOK
<1>8. Slots'
  <2> SUFFICES ASSUME NEW d \in Sessions
               PROVE  SlotOK(session'[d], peer'[d], endpoint'[d], told'[d], ToSet(queue'), frame'.rest, d)
    BY DEF Slots
  <2>1. SameTasks(ToSet(queue'), ToSet(queue), d) /\ SameRest(frame'.rest, frame.rest, d)
    BY <1>1, <1>2 DEF SameTasks, SameRest
  <2> QED
    BY <1>1, <2>1, OtherSlot
<1>9. Protocol(ToSet(queue))'
  BY <1>1, <1>2, <1>3, <1>4, <1>5, <1>6 DEF LifeInv, Protocol
<1>10. Orders'
  BY <1>1, <1>2 DEF LifeInv, Orders
<1> QED
  BY <1>7, <1>8, <1>9, <1>10 DEF LifeInv

\* While the application may call, no session is being announced.
LEMMA MayCallQueue ==
    ASSUME LifeInv, Idle \/ frame # NoFrame
    PROVE  \A d \in Sessions : <<"ready", d>> \notin ToSet(queue)
  BY Idles DEF LifeInv, Orders

LEMMA LifeDisconnect == ASSUME LifeInv, NEW c \in Sessions, Disconnect(c) PROVE LifeInv'
<1> DEFINE t == <<"disconnect", c>>
<1>1. /\ session[c].life = "live" /\ queue' = Submit(queue, t) /\ (Idle \/ frame # NoFrame)
      /\ UNCHANGED <<api, proto, listed, peer, session, endpoint, frame, manner, told>>
  BY DEF Disconnect, MayCall, objects
<1>2. QueueOK(queue) /\ t \in Tasks
  BY LifeTypes DEF Tasks, PeerTasks
<1>3. /\ QueueOK(queue') /\ ToSet(queue') = ToSet(queue) \union {t}
      /\ \A x, y : Precedes(queue', x, y) <=>
             \/ Precedes(queue, x, y) /\ x # t /\ y # t
             \/ x \in ToSet(queue) /\ x # t /\ y = t
  BY <1>1, <1>2, SubmitOrder
<1>4. \A d \in Sessions : <<"ready", d>> \notin ToSet(queue)
  BY <1>1, MayCallQueue
<1>5. LifeTypeOK'
  BY <1>1, <1>3 DEF LifeInv, LifeTypeOK, QueueOK
<1>6. Slots'
  <2> SUFFICES ASSUME NEW d \in Sessions
               PROVE  SlotOK(session'[d], peer'[d], endpoint'[d], told'[d], ToSet(queue'), frame'.rest, d)
    BY DEF Slots
  <2>1. SlotOK(session[d], peer[d], endpoint[d], told[d], ToSet(queue), frame.rest, d)
    BY LifeTypes
  <2>2. CASE d # c
    <3>1. SameTasks(ToSet(queue'), ToSet(queue), d) /\ SameRest(frame'.rest, frame.rest, d)
      BY <1>1, <1>3, <2>2 DEF SameTasks, SameRest
    <3> QED
      BY <1>1, <3>1, OtherSlot
  <2>3. CASE d = c
    <3>1. \A k \in PeerTasks \ {"disconnect"} : <<k, c>> \in ToSet(queue') <=> <<k, c>> \in ToSet(queue)
      BY <1>3
    <3>2. /\ <<"ready", c>> \in ToSet(queue') <=> <<"ready", c>> \in ToSet(queue)
          /\ <<"disconnected", c>> \in ToSet(queue') <=> <<"disconnected", c>> \in ToSet(queue)
          /\ <<"disconnect_peer", c>> \in ToSet(queue') <=> <<"disconnect_peer", c>> \in ToSet(queue)
          /\ <<"destroy_endpoint", c>> \in ToSet(queue') <=> <<"destroy_endpoint", c>> \in ToSet(queue)
          /\ <<"stop_endpoint", c>> \in ToSet(queue') <=> <<"stop_endpoint", c>> \in ToSet(queue)
      BY <3>1 DEF PeerTasks
    <3> QED
      BY <1>1, <2>1, <2>3, <3>2 DEF SlotOK
  <2> QED
    BY <2>2, <2>3
<1>7. Protocol(ToSet(queue))'
  BY <1>1, <1>3 DEF LifeInv, Protocol
<1>8. Orders'
  BY <1>1, <1>3, <1>4 DEF LifeInv, Orders
<1> QED
  BY <1>5, <1>6, <1>7, <1>8 DEF LifeInv

LEMMA LifeStop == ASSUME LifeInv, Stop PROVE LifeInv'
<1> DEFINE t == <<"stop">>
<1>1. /\ api.state \in {"RUNNING_CLIENT", "RUNNING_SERVER"} /\ queue' = Submit(queue, t) /\ (Idle \/ frame # NoFrame)
      /\ api' = [api EXCEPT !.state = "STOPPING"]
      /\ UNCHANGED <<proto, listed, peer, session, endpoint, frame, manner, told>>
  BY DEF Stop, MayCall, objects
<1>2. QueueOK(queue) /\ t \in Tasks
  BY LifeTypes DEF Tasks
<1>3. /\ QueueOK(queue') /\ ToSet(queue') = ToSet(queue) \union {t}
      /\ \A x, y : Precedes(queue', x, y) <=>
             \/ Precedes(queue, x, y) /\ x # t /\ y # t
             \/ x \in ToSet(queue) /\ x # t /\ y = t
  BY <1>1, <1>2, SubmitOrder
<1>4. \A d \in Sessions : <<"ready", d>> \notin ToSet(queue)
  BY <1>1, MayCallQueue
<1>5. /\ api' \in [state : {"STOPPED", "STOPPING", "RUNNING_CLIENT", "RUNNING_SERVER"}, starts : Nat]
      /\ api'.state = "STOPPING"
  BY <1>1 DEF LifeInv, LifeTypeOK
<1>6. LifeTypeOK'
  BY <1>1, <1>3, <1>5 DEF LifeInv, LifeTypeOK, QueueOK
<1>7. Slots'
  <2> SUFFICES ASSUME NEW d \in Sessions
               PROVE  SlotOK(session'[d], peer'[d], endpoint'[d], told'[d], ToSet(queue'), frame'.rest, d)
    BY DEF Slots
  <2>1. SameTasks(ToSet(queue'), ToSet(queue), d) /\ SameRest(frame'.rest, frame.rest, d)
    BY <1>1, <1>3 DEF SameTasks, SameRest
  <2> QED
    BY <1>1, <2>1, OtherSlot
<1>8. Protocol(ToSet(queue))'
  BY <1>1, <1>3, <1>5 DEF LifeInv, Protocol
<1>9. Orders'
  BY <1>1, <1>3, <1>4 DEF LifeInv, Orders
<1> QED
  BY <1>6, <1>7, <1>8, <1>9 DEF LifeInv

-----------------------------------------------------------------------------
(***************************************************************************)
(* The steps of sending leave all this alone: they submit and take tasks   *)
(* of buses and dispatchers.                                               *)
(***************************************************************************)
LEMMA LifeSending ==
    ASSUME LifeInv, UNCHANGED <<api, proto, listed, peer, session, endpoint, manner, told>>,
           QueueOK(queue'), \A t \in LifeTasks : t \in ToSet(queue') <=> t \in ToSet(queue),
           \A x, y \in LifeTasks : Precedes(queue', x, y) => Precedes(queue, x, y),
           \A c \in Sessions : <<"send", c>> \in ToSet(queue') => session[c].life # "fresh",
           frame' \in [of : Callbacks, rest : Rests], frame'.of = "none" => frame' = NoFrame,
           \A c \in Sessions : SameRest(frame'.rest, frame.rest, c),
           \A c \in Sessions : <<"ready", c>> \in ToSet(queue) => UNCHANGED <<queue, frame>>
    PROVE  LifeInv'
<1>1. /\ <<"stop">> \in LifeTasks /\ <<"stop_protocol">> \in LifeTasks /\ <<"destroy_protocol">> \in LifeTasks
      /\ \A k \in PeerTasks \ {"send"}, c \in Sessions : <<k, c>> \in LifeTasks
  BY TaskKinds
<1>2. LifeTypeOK'
  BY DEF LifeInv, LifeTypeOK, QueueOK
<1>3. Slots'
  <2> SUFFICES ASSUME NEW d \in Sessions
               PROVE  SlotOK(session'[d], peer'[d], endpoint'[d], told'[d], ToSet(queue'), frame'.rest, d)
    BY DEF Slots
  <2>1. SlotOK(session[d], peer[d], endpoint[d], told[d], ToSet(queue), frame.rest, d)
    BY LifeTypes
  <2>2. \A k \in PeerTasks \ {"send"} : <<k, d>> \in ToSet(queue') <=> <<k, d>> \in ToSet(queue)
    BY <1>1
  <2>3. CASE session[d].life = "fresh"
    <3>1. \A k \in PeerTasks : <<k, d>> \notin ToSet(queue)
      BY <2>1, <2>3 DEF SlotOK
    <3>2. \A k \in PeerTasks : <<k, d>> \notin ToSet(queue')
      BY <2>2, <2>3, <3>1
    <3>3. SameTasks(ToSet(queue'), ToSet(queue), d)
      BY <3>1, <3>2 DEF SameTasks
    <3> QED
      BY <3>3, OtherSlot
  <2>4. CASE session[d].life # "fresh"
    <3>1. /\ <<"ready", d>> \in ToSet(queue') <=> <<"ready", d>> \in ToSet(queue)
          /\ <<"disconnected", d>> \in ToSet(queue') <=> <<"disconnected", d>> \in ToSet(queue)
          /\ <<"disconnect_peer", d>> \in ToSet(queue') <=> <<"disconnect_peer", d>> \in ToSet(queue)
          /\ <<"destroy_endpoint", d>> \in ToSet(queue') <=> <<"destroy_endpoint", d>> \in ToSet(queue)
          /\ <<"stop_endpoint", d>> \in ToSet(queue') <=> <<"stop_endpoint", d>> \in ToSet(queue)
      BY <2>2 DEF PeerTasks
    <3>2. /\ frame'.rest = <<"connected", d>> <=> frame.rest = <<"connected", d>>
          /\ frame'.rest = <<"denied", d>> <=> frame.rest = <<"denied", d>>
          /\ frame'.rest = <<"let_go", d>> <=> frame.rest = <<"let_go", d>>
      BY DEF SameRest
    <3> QED
      BY <2>1, <2>4, <3>1, <3>2 DEF SlotOK
  <2> QED
    BY <2>3, <2>4
<1>4. /\ <<"stop">> \in ToSet(queue') <=> <<"stop">> \in ToSet(queue)
      /\ <<"stop_protocol">> \in ToSet(queue') <=> <<"stop_protocol">> \in ToSet(queue)
      /\ <<"destroy_protocol">> \in ToSet(queue') <=> <<"destroy_protocol">> \in ToSet(queue)
  BY <1>1
<1>5. Protocol(ToSet(queue))'
  <2>1. \A c \in Sessions : frame'.rest \in {<<"connected", c>>, <<"denied", c>>} =>
                            frame.rest \in {<<"connected", c>>, <<"denied", c>>}
    BY DEF SameRest
  <2> QED
    BY <1>4, <2>1 DEF LifeInv, Protocol
<1>6. Orders'
  <2>1. \A c \in Sessions : <<"disconnect_peer", c>> \in LifeTasks /\ <<"ready", c>> \in LifeTasks
    BY <1>1 DEF PeerTasks
  <2>2. /\ \A c \in Sessions : ~ Precedes(queue', <<"stop_protocol">>, <<"disconnect_peer", c>>)
        /\ ~ Precedes(queue', <<"destroy_protocol">>, <<"stop_protocol">>)
    BY <1>1, <2>1 DEF LifeInv, Orders
  <2>3. ASSUME NEW c \in Sessions, <<"ready", c>> \in ToSet(queue')
        PROVE  ToSet(queue') = {<<"ready", c>>} /\ frame' = NoFrame
    <3>1. <<"ready", c>> \in ToSet(queue)
      BY <2>1, <2>3
    <3> QED
      BY <3>1 DEF LifeInv, Orders
  <2> QED
    BY <2>2, <2>3 DEF Orders
<1> QED
  BY <1>2, <1>3, <1>5, <1>6 DEF LifeInv

LEMMA RestKinds ==
    ASSUME NEW r \in Rests, r # <<>>
    PROVE  /\ r[1] \in {"connected", "denied", "let_go"} => r[2] \in Sessions /\ r = <<r[1], r[2]>>
           /\ r[1] = "completed" => r[2] \in Messages /\ r[3] \in Sessions /\ r = <<"completed", r[2], r[3]>>
<1>1. CASE r \in {"connected", "denied", "let_go"} \X Sessions
  BY <1>1
<1>2. CASE r \in {"completed"} \X Messages \X Sessions
  BY <1>2
<1> QED
  BY <1>1, <1>2 DEF Rests

LEMMA LifeDenied ==
    ASSUME LifeInv, NEW c \in Sessions, frame.rest = <<"denied", c>>, StopProtocol(queue), frame' = NoFrame,
           UNCHANGED <<api, listed, peer, session, endpoint, manner, told>>
    PROVE  LifeInv'
<1> DEFINE t == <<"stop_protocol">>
<1>1. proto.state = "RUNNING" /\ proto.mode = "CLIENT"
  BY DEF LifeInv, Protocol
<1>2. \A d \in Sessions : SlotOK(session[d], peer[d], endpoint[d], told[d], ToSet(queue), frame.rest, d)
  BY LifeTypes
<1>3. session[c].life = "fresh" /\ peer[c].state = "denied"
  BY <1>2 DEF SlotOK
<1>4. \A d \in Sessions : ~ peer[d].extra
  <2> TAKE d \in Sessions
  <2>1. d # c => peer[d].state = "none"
    BY <1>1, <1>3 DEF LifeInv, Protocol
  <2> QED
    BY <1>2, <1>3, <2>1 DEF SlotOK
<1>5. QueueOK(queue)
  BY LifeTypes
<1>6. /\ proto' = [proto EXCEPT !.state = "STOPPING"]
      /\ QueueOK(queue') /\ ToSet(queue') = ToSet(queue) \union {t}
      /\ \A x, y : Precedes(queue', x, y) <=>
             \/ Precedes(queue, x, y) /\ x # t /\ y # t
             \/ x \in ToSet(queue) /\ x # t /\ y = t
  BY <1>1, <1>5, StopProtocolTasks
<1>7. /\ proto' \in [state : {"NONE", "RUNNING", "STOPPING", "STOPPED"}, mode : {"NONE", "SERVER", "CLIENT"},
                     extra : BOOLEAN]
      /\ proto'.state = "STOPPING" /\ proto'.mode = proto.mode
  BY <1>6, StopProtocolTypes
<1>8. frame' \in [of : Callbacks, rest : Rests] /\ frame'.rest = <<>> /\ frame # NoFrame
  BY DEF NoFrame, Callbacks, Rests
<1>9. \A d \in Sessions : <<"ready", d>> \notin ToSet(queue)
  BY <1>8 DEF LifeInv, Orders
<1>10. LifeTypeOK'
  BY <1>6, <1>7, <1>8 DEF LifeInv, LifeTypeOK, QueueOK
<1>11. Slots'
  <2> SUFFICES ASSUME NEW d \in Sessions
               PROVE  SlotOK(session'[d], peer'[d], endpoint'[d], told'[d], ToSet(queue'), frame'.rest, d)
    BY DEF Slots
  <2>1. SameTasks(ToSet(queue'), ToSet(queue), d)
    BY <1>6 DEF SameTasks
  <2>2. CASE d # c
    <3>1. SameRest(frame'.rest, frame.rest, d)
      BY <1>8, <2>2 DEF SameRest
    <3> QED
      BY <2>1, <3>1, OtherSlot
  <2>3. CASE d = c
    <3>1. SlotOK(session[c], peer[c], endpoint[c], told[c], ToSet(queue), <<"denied", c>>, c)
      BY <1>2
    <3>2. SlotOK(session[c], peer[c], endpoint[c], told[c], ToSet(queue), <<>>, c)
      BY <1>3, <3>1 DEF SlotOK
    <3>3. SlotOK(session[c], peer[c], endpoint[c], told[c], ToSet(queue'), <<>>, c)
      BY <2>1, <2>3, <3>2, SlotSame DEF SameRest
    <3> QED
      BY <1>8, <2>3, <3>3
  <2> QED
    BY <2>2, <2>3
<1>12. <<"destroy_protocol">> \notin ToSet(queue)
  BY <1>1 DEF LifeInv, Protocol
<1>13. Protocol(ToSet(queue))'
  BY <1>1, <1>4, <1>6, <1>7, <1>8, <1>12 DEF LifeInv, Protocol
<1>14. Orders'
  <2>1. ASSUME NEW d \in Sessions PROVE ~ Precedes(queue', t, <<"disconnect_peer", d>>)
    BY <1>6
  <2>2. ~ Precedes(queue', <<"destroy_protocol">>, t)
    BY <1>6, <1>12
  <2>3. \A d \in Sessions : <<"ready", d>> \notin ToSet(queue')
    BY <1>6, <1>9
  <2> QED
    BY <2>1, <2>2, <2>3 DEF Orders
<1> QED
  BY <1>10, <1>11, <1>13, <1>14 DEF LifeInv

LEMMA LifeReturn ==
    ASSUME LifeInv, Return,
           \A m \in Messages, c \in Sessions : frame.rest = <<"completed", m, c>> => session[c].life # "fresh"
    PROVE  LifeInv'
<1> DEFINE r == frame.rest
<1>1. frame # NoFrame /\ frame' = NoFrame /\ frame'.rest = <<>> /\ UNCHANGED <<api, manner, told>>
  BY DEF Return, NoFrame
<1>2. /\ frame' \in [of : Callbacks, rest : Rests] /\ r \in Rests /\ QueueOK(queue)
  BY <1>1, LifeTypes DEF NoFrame, Callbacks, Rests
<1>3. \A d \in Sessions : <<"ready", d>> \notin ToSet(queue)
  BY <1>1, MayCallQueue
<1>4. \A d \in Sessions : SlotOK(session[d], peer[d], endpoint[d], told[d], ToSet(queue), r, d)
  BY LifeTypes
<1>5. CASE r = <<>>
  <2>1. UNCHANGED <<proto, listed, peer, session, endpoint, queue>>
    BY <1>5 DEF Return, objects
  <2>2. \A c \in Sessions : SameRest(frame'.rest, r, c)
    BY <1>1, <1>5 DEF SameRest
  <2>3. \A c \in Sessions : <<"send", c>> \in ToSet(queue) => session[c].life # "fresh"
    BY <1>4 DEF SlotOK, PeerTasks
  <2> QED
    BY <1>1, <1>2, <1>3, <2>1, <2>2, <2>3, LifeSending
<1>6. CASE r # <<>> /\ r[1] = "connected"
  <2>1. OnConnected(r[2]) /\ UNCHANGED <<proto, queue>>
    BY <1>6 DEF Return
  <2>2. PICK c \in Sessions : c = r[2] /\ r = <<"connected", c>>
    BY <1>2, <1>6, RestKinds
  <2>3. session[c].life = "fresh" /\ peer[c].state = "connected"
    BY <1>4, <2>2 DEF SlotOK
  <2>4. proto.state = "RUNNING"
    BY <2>2 DEF LifeInv, Protocol
  <2>5. /\ \A k \in {"connected", "denied", "let_go"} : frame'.rest # <<k, c>>
        /\ \A d \in Sessions \ {c} : SameRest(frame'.rest, r, d)
    BY <1>1, <2>2 DEF SameRest
  <2> QED
    BY <1>1, <2>1, <2>2, <2>3, <2>4, <2>5, LifeConnected
<1>7. CASE r # <<>> /\ r[1] = "denied"
  <2>1. StopProtocol(queue) /\ UNCHANGED <<listed, peer, session, endpoint>>
    BY <1>7 DEF Return, objects
  <2>2. PICK c \in Sessions : r = <<"denied", c>>
    BY <1>2, <1>7, RestKinds
  <2> QED
    BY <1>1, <2>1, <2>2, LifeDenied
<1>8. CASE r # <<>> /\ r[1] = "let_go"
  <2>1. LetGo(r[2], queue) /\ UNCHANGED <<proto, peer>>
    BY <1>8 DEF Return
  <2>2. PICK c \in Sessions : c = r[2] /\ r = <<"let_go", c>>
    BY <1>2, <1>8, RestKinds
  <2>3. /\ session[c].life = "live" /\ ~ session[c].peer /\ <<"stop_endpoint", c>> \in ToSet(queue)
        /\ <<"disconnected", c>> \notin ToSet(queue)
    BY <1>4, <2>2 DEF SlotOK
  <2>4. \A d \in Sessions : SameTasks(ToSet(queue), ToSet(queue), d)
    BY DEF SameTasks
  <2>5. \A d \in Sessions \ {c} : SameRest(<<>>, r, d)
    BY <2>2 DEF SameRest
  <2>6. /\ \A d \in Sessions : ~ Precedes(queue, <<"stop_protocol">>, <<"disconnect_peer", d>>)
        /\ ~ Precedes(queue, <<"destroy_protocol">>, <<"stop_protocol">>)
    BY DEF LifeInv, Orders
  <2> QED
    BY <1>1, <1>2, <1>3, <2>1, <2>2, <2>3, <2>4, <2>5, <2>6, LifeLetGo
<1>9. CASE r # <<>> /\ r[1] = "completed"
  <2>1. Completed(r[2], r[3], queue) /\ UNCHANGED <<proto, listed, peer, session, endpoint>>
    BY <1>9 DEF Return
  <2>2. PICK m \in Messages, c \in Sessions : c = r[3] /\ r = <<"completed", m, c>>
    BY <1>2, <1>9, RestKinds
  <2>3. session[c].life # "fresh"
    BY <2>2
  <2>4. queue' = queue \/ queue' = Submit(queue, <<"send", c>>)
    BY <2>1, <2>2 DEF Completed
  <2>5. <<"send", c>> \in Tasks /\ <<"send", c>> \notin LifeTasks
    BY TaskKinds
  <2>6. /\ QueueOK(queue') /\ \A t \in LifeTasks : t \in ToSet(queue') <=> t \in ToSet(queue)
        /\ \A x, y \in LifeTasks : Precedes(queue', x, y) => Precedes(queue, x, y)
        /\ \A d \in Sessions : <<"send", d>> \in ToSet(queue') => d = c \/ <<"send", d>> \in ToSet(queue)
    <3>1. CASE queue' = queue
      BY <1>2, <3>1
    <3>2. CASE queue' = Submit(queue, <<"send", c>>)
      <4>1. /\ QueueOK(queue') /\ ToSet(queue') = ToSet(queue) \union {<<"send", c>>}
            /\ \A x, y : Precedes(queue', x, y) <=>
                   \/ Precedes(queue, x, y) /\ x # <<"send", c>> /\ y # <<"send", c>>
                   \/ x \in ToSet(queue) /\ x # <<"send", c>> /\ y = <<"send", c>>
        BY <1>2, <2>5, <3>2, SubmitOrder
      <4> QED
        BY <2>5, <4>1
    <3> QED
      BY <2>4, <3>1, <3>2
  <2>7. \A d \in Sessions : <<"send", d>> \in ToSet(queue') => session[d].life # "fresh"
    BY <1>4, <2>3, <2>6 DEF SlotOK, PeerTasks
  <2>8. \A d \in Sessions : SameRest(frame'.rest, r, d)
    BY <1>1, <2>2 DEF SameRest
  <2> QED
    BY <1>1, <1>2, <1>3, <2>1, <2>6, <2>7, <2>8, LifeSending
<1> QED
  BY <1>5, <1>6, <1>7, <1>8, <1>9 DEF Return

-----------------------------------------------------------------------------
(***************************************************************************)
(* Sending.  The steps of a session's life submit and take no task of a    *)
(* bus or a dispatcher.                                                    *)
(***************************************************************************)
SameSends(v, w) == \A t \in SendTasks : t \in v <=> t \in w
Reachable(s, w, c) == s.life = "live" \/ <<"stop_endpoint", c>> \in w

SendKept ==
    /\ UNCHANGED <<bus, sender, dispatcher, answered>>
    /\ SameSends(ToSet(queue'), ToSet(queue))
    /\ \A m \in Messages, c \in Sessions : frame'.rest = <<"completed", m, c>> <=> frame.rest = <<"completed", m, c>>
    /\ \A c \in Sessions : session[c].life # "fresh" => session'[c].life # "fresh"
    /\ \A c \in Sessions : Reachable(session[c], ToSet(queue), c) => Reachable(session'[c], ToSet(queue'), c)

LEMMA BusSame ==
    ASSUME NEW b, NEW ds, NEW w, NEW life, NEW c, NEW es, NEW v, NEW living,
           BusOK(b, ds, w, life, c), \A m \in Messages : es[m] = ds[m],
           <<"send", c>> \in v <=> <<"send", c>> \in w,
           life = "live" \/ <<"stop_endpoint", c>> \in w => living = "live" \/ <<"stop_endpoint", c>> \in v
    PROVE  BusOK(b, es, v, living, c)
  BY DEF BusOK

LEMMA SendSame == ASSUME SendInv, SendKept PROVE SendInv'
<1>1. SendTypeOK'
  BY DEF SendInv, SendTypeOK, SendKept
<1>2. ASSUME NEW c \in Sessions
      PROVE  BusOK(bus'[c], [m \in Messages |-> dispatcher'[m][c]], ToSet(queue'), session'[c].life, c)
  <2> DEFINE ds == [m \in Messages |-> dispatcher[m][c]]
             es == [m \in Messages |-> dispatcher'[m][c]]
  <2>1. BusOK(bus[c], ds, ToSet(queue), session[c].life, c)
    BY DEF SendInv
  <2>2. \A m \in Messages : es[m] = ds[m]
    BY DEF SendKept
  <2>3. <<"send", c>> \in SendTasks
    BY TaskKinds
  <2> HIDE DEF ds, es
  <2>4. BusOK(bus[c], es, ToSet(queue'), session'[c].life, c)
    <3>1. <<"send", c>> \in ToSet(queue') <=> <<"send", c>> \in ToSet(queue)
      BY <2>3 DEF SendKept, SameSends
    <3>2. session[c].life = "live" \/ <<"stop_endpoint", c>> \in ToSet(queue) =>
             session'[c].life = "live" \/ <<"stop_endpoint", c>> \in ToSet(queue')
      BY DEF SendKept, Reachable
    <3> QED
      BY <2>1, <2>2, <3>1, <3>2 DEF BusOK
  <2> QED
    BY <2>4 DEF SendKept, es
<1>3. ASSUME NEW m \in Messages, NEW c \in Sessions
      PROVE  /\ DispatcherOK(dispatcher'[m][c], ToSet(queue'), frame'.rest, m, c)
             /\ dispatcher'[m][c].stage = "none" <=> ~ Expects(sender'[m], c)
             /\ c \in sender'[m].records => session'[c].life # "fresh"
  <2>1. /\ DispatcherOK(dispatcher[m][c], ToSet(queue), frame.rest, m, c)
        /\ dispatcher[m][c].stage = "none" <=> ~ Expects(sender[m], c)
        /\ c \in sender[m].records => session[c].life # "fresh"
    BY DEF SendInv
  <2>2. <<"dispatcher", m, c>> \in SendTasks
    BY DEF SendTasks, DispatcherTasks
  <2>3. DispatcherOK(dispatcher[m][c], ToSet(queue'), frame'.rest, m, c)
    BY <2>1, <2>2 DEF DispatcherOK, SendKept, SameSends
  <2> QED
    BY <2>1, <2>3 DEF SendKept
<1>4. ASSUME NEW m \in Messages PROVE SenderOK(sender'[m], answered'[m], Counted(m)')
  <2>1. Counted(m)' = Counted(m)
    BY DEF SendKept, Counted
  <2> QED
    BY <2>1 DEF SendInv, SendKept
<1> QED
  BY <1>1, <1>2, <1>3, <1>4 DEF SendInv

LEMMA SendTaskKinds ==
    ASSUME NEW t \in SendTasks
    PROVE  /\ t # <<"stop">> /\ t # <<"stop_protocol">> /\ t # <<"destroy_protocol">>
           /\ \A c \in Sessions : t \notin {<<"ready", c>>, <<"disconnect", c>>, <<"disconnect_peer", c>>,
                                            <<"disconnected", c>>, <<"stop_endpoint", c>>, <<"destroy_endpoint", c>>}
  BY DEF SendTasks, DispatcherTasks

\* What each step of a life does to the queue, as far as sending is concerned.
QueueKept(v, w) ==
    /\ SameSends(v, w)
    /\ \A c \in Sessions : <<"stop_endpoint", c>> \in w => <<"stop_endpoint", c>> \in v

LEMMA KeptByRunning ==
    ASSUME LifeInv, NEW t \in LifeTasks, Running(t), \A c \in Sessions : t # <<"stop_endpoint", c>>
    PROVE  QueueKept(ToSet(Tail(queue)), ToSet(queue))
<1>1. ToSet(Tail(queue)) = ToSet(queue) \ {t}
  BY Runs
<1>2. t \notin SendTasks
  BY TaskKinds
<1> QED
  BY <1>1, <1>2 DEF QueueKept, SameSends

LEMMA KeptBySubmit ==
    ASSUME NEW q, QueueOK(q), NEW w, QueueKept(ToSet(q), w), NEW t \in LifeTasks
    PROVE  QueueKept(ToSet(Submit(q, t)), w)
<1>1. ToSet(Submit(q, t)) = ToSet(q) \union {t}
  BY SubmitOrder, TaskKinds
<1>2. t \notin SendTasks
  BY TaskKinds
<1> QED
  BY <1>1, <1>2 DEF QueueKept, SameSends

LEMMA KeptBySubmitAll ==
    ASSUME NEW q, QueueOK(q), NEW w, QueueKept(ToSet(q), w), NEW more, QueueOK(more),
           \A t \in ToSet(more) : t \in LifeTasks
    PROVE  QueueKept(ToSet(SubmitAll(q, more)), w)
<1>1. ToSet(SubmitAll(q, more)) = ToSet(q) \union ToSet(more)
  BY SubmitAllOrder
<1>2. \A t \in ToSet(more) : t \notin SendTasks
  BY TaskKinds
<1> QED
  BY <1>1, <1>2 DEF QueueKept, SameSends

\* Sessions that begin, live and end keep what was sent.
LivesKept(v) ==
    \A c \in Sessions : /\ session[c].life # "fresh" => session'[c].life # "fresh"
                        /\ session[c].life = "live" => session'[c].life = "live" \/ <<"stop_endpoint", c>> \in v

LEMMA KeptParts ==
    ASSUME UNCHANGED <<bus, sender, dispatcher, answered>>, QueueKept(ToSet(queue'), ToSet(queue)),
           LivesKept(ToSet(queue')),
           \A m \in Messages, c \in Sessions : frame'.rest = <<"completed", m, c>> <=> frame.rest = <<"completed", m, c>>
    PROVE  SendKept
<1>1. ASSUME NEW c \in Sessions, Reachable(session[c], ToSet(queue), c)
      PROVE  Reachable(session'[c], ToSet(queue'), c)
  BY <1>1 DEF Reachable, QueueKept, LivesKept
<1> QED
  BY <1>1 DEF SendKept, QueueKept, LivesKept

LEMMA LivesSame ==
    ASSUME \A c \in Sessions : session'[c].life = session[c].life
    PROVE  \A v : LivesKept(v)
  BY DEF LivesKept

LEMMA DisconnectingLives ==
    ASSUME LifeInv, NEW C \in SUBSET Sessions, NEW state \in {"none", "disconnecting", "disconnected"},
           OnDisconnected(C, state)
    PROVE  \A c \in Sessions : session'[c].life = session[c].life
  BY Disconnecting

LEMMA DisconnectedKinds ==
    ASSUME LifeInv, NEW C \in SUBSET Sessions
    PROVE  QueueOK(DisconnectedTasks(C)) /\ \A t \in ToSet(DisconnectedTasks(C)) : t \in LifeTasks
<1>1. QueueOK(DisconnectedTasks(C))
      /\ ToSet(DisconnectedTasks(C)) = {<<"disconnected", c>> : c \in {d \in C : peer[d].extra}}
  BY DisconnectedOrder
<1>2. \A t \in ToSet(DisconnectedTasks(C)) : \E c \in Sessions : t = <<"disconnected", c>>
  BY <1>1
<1>3. \A c \in Sessions : <<"disconnected", c>> \in LifeTasks
  BY TaskKinds DEF PeerTasks
<1> QED
  BY <1>1, <1>2, <1>3

LEMMA KeptFromIdle ==
    ASSUME LifeInv, Idle, NEW q, QueueOK(q), \A t \in ToSet(q) : t \in LifeTasks
    PROVE  QueueKept(ToSet(q), ToSet(queue))
<1>1. ToSet(queue) = {}
  BY Idles
<1>2. \A t \in ToSet(q) : t \notin SendTasks
  BY TaskKinds
<1> QED
  BY <1>1, <1>2 DEF QueueKept, SameSends

LEMMA KeptByStop ==
    ASSUME LifeInv, NEW q, QueueOK(q), QueueKept(ToSet(q), ToSet(queue)), StopProtocol(q)
    PROVE  QueueKept(ToSet(queue'), ToSet(queue))
<1>1. <<"stop_protocol">> \in LifeTasks
  BY TaskKinds
<1> QED
  BY <1>1, KeptBySubmit DEF StopProtocol

LEMMA KeptSame == ASSUME NEW w PROVE QueueKept(w, w)
  BY DEF QueueKept, SameSends

\* The kinds of tasks, one by one.
LEMMA LifeTaskNames ==
    ASSUME NEW c \in Sessions
    PROVE  /\ <<"ready", c>> \in LifeTasks /\ <<"disconnect", c>> \in LifeTasks
           /\ <<"disconnect_peer", c>> \in LifeTasks /\ <<"disconnected", c>> \in LifeTasks
           /\ <<"stop_endpoint", c>> \in LifeTasks /\ <<"destroy_endpoint", c>> \in LifeTasks
  BY DEF LifeTasks, PeerTasks

\* One action at a time: the calls and the events between two runs.
LEMMA KeptStarting ==
    ASSUME LifeInv, Listen \/ (\E c \in Sessions : Connect(c) \/ OnReceived(c)) PROVE SendKept
<1>1. UNCHANGED <<session, queue, bus, sender, dispatcher, answered>>
  BY DEF Listen, Connect, OnReceived, objects, sending
<1>2. frame'.rest = frame.rest
  <2>1. CASE Listen \/ \E c \in Sessions : Connect(c)
    BY <2>1 DEF Listen, Connect
  <2>2. CASE \E c \in Sessions : OnReceived(c)
    <3>1. Idle
      BY <2>2 DEF OnReceived
    <3> QED
      BY <2>2, <3>1, Idles DEF OnReceived, Callback
  <2> QED
    BY <2>1, <2>2
<1>3. QueueKept(ToSet(queue'), ToSet(queue)) /\ LivesKept(ToSet(queue'))
  BY <1>1, KeptSame, LivesSame
<1> QED
  BY <1>1, <1>2, <1>3, KeptParts

LEMMA BeginningLives ==
    ASSUME LifeInv, NEW c \in Sessions, OnConnected(c), session[c].life = "fresh" PROVE \A v : LivesKept(v)
<1>1. \A d \in Sessions \ {c} : session'[d] = session[d]
  BY DEF OnConnected, LifeInv, LifeTypeOK
<1>2. session'[c].life = "live"
  BY DEF OnConnected, LifeInv, LifeTypeOK
<1> QED
  BY <1>1, <1>2 DEF LivesKept

LEMMA KeptPeerConnects == ASSUME LifeInv, NEW c \in Sessions, PeerConnects(c) PROVE SendKept
<1>1. OnConnected(c) /\ session[c].life = "fresh" /\ UNCHANGED <<queue, frame, bus, sender, dispatcher, answered>>
  BY DEF PeerConnects, sending, OnConnected
<1> QED
  BY <1>1, KeptSame, BeginningLives, KeptParts

LEMMA KeptConnectResult ==
    ASSUME LifeInv, NEW c \in Sessions, NEW result \in {"connected", "denied"}, ConnectResult(c, result)
    PROVE  SendKept
<1>1. /\ Idle /\ UNCHANGED <<queue, session, bus, sender, dispatcher, answered>>
      /\ frame'.rest = <<result, c>>
  BY DEF ConnectResult, sending, Callback
<1>2. frame.rest = <<>>
  BY <1>1, Idles
<1>3. \A m \in Messages, d \in Sessions : frame'.rest # <<"completed", m, d>> /\ frame.rest # <<"completed", m, d>>
  BY <1>1, <1>2
<1> QED
  BY <1>1, <1>3, KeptSame, LivesSame, KeptParts

LEMMA KeptCheckReady == ASSUME LifeInv, NEW c \in Sessions, CheckReady(c) PROVE SendKept
<1>1. /\ Idle /\ queue' = <<<<"ready", c>>>> /\ UNCHANGED <<session, frame, bus, sender, dispatcher, answered>>
  BY DEF CheckReady, sending
<1>2. QueueOK(queue') /\ ToSet(queue') = {<<"ready", c>>} /\ <<"ready", c>> \in LifeTasks
  BY <1>1, OneTask, LifeTaskNames, TaskKinds
<1>3. QueueKept(ToSet(queue'), ToSet(queue))
  BY <1>1, <1>2, KeptFromIdle
<1> QED
  BY <1>1, <1>3, LivesSame, KeptParts

LEMMA KeptPeersLost == ASSUME LifeInv, NEW C \in SUBSET Sessions, PeersLost(C) PROVE SendKept
<1>1. /\ Idle /\ UNCHANGED <<frame, bus, sender, dispatcher, answered>>
      /\ queue' = DisconnectedTasks(C) \/ StopProtocol(DisconnectedTasks(C))
  BY DEF PeersLost, sending
<1>2. \E state \in {"none", "disconnected"} : OnDisconnected(C, state)
  BY DEF PeersLost
<1>3. \A c \in Sessions : session'[c].life = session[c].life
  BY <1>2, DisconnectingLives
<1>4. QueueOK(DisconnectedTasks(C)) /\ \A t \in ToSet(DisconnectedTasks(C)) : t \in LifeTasks
  BY DisconnectedKinds
<1>5. QueueKept(ToSet(DisconnectedTasks(C)), ToSet(queue))
  BY <1>1, <1>4, KeptFromIdle
<1>6. QueueKept(ToSet(queue'), ToSet(queue))
  BY <1>1, <1>4, <1>5, KeptByStop
<1> QED
  BY <1>1, <1>3, <1>6, LivesSame, KeptParts

LEMMA KeptDisconnectSent == ASSUME LifeInv, NEW c \in Sessions, DisconnectSent(c) PROVE SendKept
<1>1. /\ Idle /\ UNCHANGED <<session, frame, bus, sender, dispatcher, answered>>
      /\ UNCHANGED queue \/ StopProtocol(<<>>)
  BY DEF DisconnectSent, sending
<1>2. QueueOK(<<>>) /\ \A t \in ToSet(<<>>) : t \in LifeTasks
  BY EmptyOrder DEF QueueOK
<1>3. QueueKept(ToSet(<<>>), ToSet(queue))
  BY <1>1, <1>2, KeptFromIdle
<1>4. QueueKept(ToSet(queue'), ToSet(queue))
  BY <1>1, <1>2, <1>3, KeptByStop, KeptSame
<1> QED
  BY <1>1, <1>4, LivesSame, KeptParts

\* The tasks of a life, and the calls that ask for its end.
LEMMA KeptOnReady == ASSUME LifeInv, NEW c \in Sessions, OnReady(c) PROVE SendKept
<1>a. Running(<<"ready", c>>) /\ queue' = Tail(queue) /\ UNCHANGED <<bus, sender, dispatcher, answered>>
  BY DEF OnReady, sending
<1>b. /\ UNCHANGED session \/ session' = [session EXCEPT ![c].ready = TRUE, ![c].state = "CONNECTED"]
      /\ UNCHANGED frame \/ frame'.rest = <<>>
  <2>1. CASE endpoint[c].extra
    <3>1. session' = [session EXCEPT ![c].ready = TRUE, ![c].state = "CONNECTED"]
      BY <2>1 DEF OnReady
    <3>2. frame' = [of |-> "connected", rest |-> <<>>]
      BY <2>1 DEF OnReady, Callback
    <3> QED
      BY <3>1, <3>2
  <2>2. CASE ~ endpoint[c].extra
    BY <2>2 DEF OnReady
  <2> QED
    BY <2>1, <2>2
<1>1. /\ Running(<<"ready", c>>) /\ queue' = Tail(queue) /\ UNCHANGED <<bus, sender, dispatcher, answered>>
      /\ UNCHANGED session \/ session' = [session EXCEPT ![c].ready = TRUE, ![c].state = "CONNECTED"]
      /\ UNCHANGED frame \/ frame'.rest = <<>>
  BY <1>a, <1>b
<1>2. frame.rest = <<>>
  BY <1>1, Runs
<1>3. QueueKept(ToSet(queue'), ToSet(queue))
  BY <1>1, KeptByRunning, LifeTaskNames
<1>4. ASSUME NEW d \in Sessions PROVE session'[d].life = session[d].life
  <2>1. session \in [Sessions -> SessionRecord]
    BY DEF LifeInv, LifeTypeOK
  <2>2. [session[c] EXCEPT !.ready = TRUE, !.state = "CONNECTED"].life = session[c].life
    BY <2>1 DEF SessionRecord
  <2> QED
    BY <1>1, <2>1, <2>2
<1> QED
  BY <1>1, <1>2, <1>3, <1>4, LivesSame, KeptParts

LEMMA KeptSessionDisconnect == ASSUME LifeInv, NEW c \in Sessions, SessionDisconnect(c) PROVE SendKept
<1>1. /\ Running(<<"disconnect", c>>) /\ UNCHANGED <<session, frame, bus, sender, dispatcher, answered>>
      /\ queue' = Tail(queue) \/ queue' = Submit(Tail(queue), <<"disconnect_peer", c>>)
  BY DEF SessionDisconnect, sending, objects
<1>2. QueueKept(ToSet(Tail(queue)), ToSet(queue)) /\ QueueOK(Tail(queue))
  BY <1>1, KeptByRunning, LifeTaskNames, Runs
<1>3. QueueKept(ToSet(queue'), ToSet(queue))
  BY <1>1, <1>2, KeptBySubmit, LifeTaskNames
<1> QED
  BY <1>1, <1>3, LivesSame, KeptParts

LEMMA KeptPeerDisconnect == ASSUME LifeInv, NEW c \in Sessions, PeerDisconnect(c) PROVE SendKept
<1>1. /\ Running(<<"disconnect_peer", c>>) /\ UNCHANGED <<frame, bus, sender, dispatcher, answered>>
      /\ UNCHANGED session \/ OnDisconnected({c}, "disconnecting")
      /\ queue' = Tail(queue) \/ queue' = SubmitAll(Tail(queue), DisconnectedTasks({c}))
  BY DEF PeerDisconnect, sending
<1>2. QueueKept(ToSet(Tail(queue)), ToSet(queue)) /\ QueueOK(Tail(queue))
  BY <1>1, KeptByRunning, LifeTaskNames, Runs
<1>3. QueueOK(DisconnectedTasks({c})) /\ \A t \in ToSet(DisconnectedTasks({c})) : t \in LifeTasks
  BY DisconnectedKinds
<1>4. QueueKept(ToSet(queue'), ToSet(queue))
  BY <1>1, <1>2, <1>3, KeptBySubmitAll
<1>5. \A d \in Sessions : session'[d].life = session[d].life
  BY <1>1, DisconnectingLives
<1> QED
  BY <1>1, <1>4, <1>5, LivesSame, KeptParts

LEMMA LettingGoLives ==
    ASSUME LifeInv, NEW c \in Sessions, NEW tasks, LetGo(c, tasks),
           NEW v, <<"stop_endpoint", c>> \in v, session[c].life = "live"
    PROVE  LivesKept(v)
<1>1. session \in [Sessions -> SessionRecord]
  BY DEF LifeInv, LifeTypeOK
<1>2. session' = [d \in Sessions |-> IF d = c THEN [session[c] EXCEPT !.endpoint = FALSE, !.life = "released"]
                                     ELSE session[d]]
  BY <1>1 DEF LetGo
<1>3. [session[c] EXCEPT !.endpoint = FALSE, !.life = "released"].life = "released"
  BY <1>1 DEF SessionRecord
<1>4. session'[c].life = "released" /\ \A d \in Sessions \ {c} : session'[d] = session[d]
  BY <1>2, <1>3
<1> QED
  BY <1>4 DEF LivesKept

LEMMA KeptSessionDisconnected == ASSUME LifeInv, NEW c \in Sessions, SessionDisconnected(c) PROVE SendKept
<1> DEFINE after == Submit(Tail(queue), <<"stop_endpoint", c>>)
<1>1. Running(<<"disconnected", c>>) /\ UNCHANGED <<bus, sender, dispatcher, answered>>
  BY DEF SessionDisconnected, sending
<1>2. QueueKept(ToSet(Tail(queue)), ToSet(queue)) /\ QueueOK(Tail(queue)) /\ frame.rest = <<>>
  BY <1>1, KeptByRunning, LifeTaskNames, Runs
<1>3. QueueKept(ToSet(after), ToSet(queue)) /\ QueueOK(after) /\ <<"stop_endpoint", c>> \in ToSet(after)
  <2>1. <<"stop_endpoint", c>> \in Tasks
    BY LifeTaskNames, TaskKinds
  <2>2. QueueOK(after) /\ ToSet(after) = ToSet(Tail(queue)) \union {<<"stop_endpoint", c>>}
    BY <1>2, <2>1, SubmitOrder
  <2>3. <<"stop_endpoint", c>> \in LifeTasks
    BY LifeTaskNames
  <2>4. QueueKept(ToSet(after), ToSet(queue))
    BY <1>2, <2>3, KeptBySubmit
  <2> HIDE DEF after
  <2> QED
    BY <2>2, <2>4
<1>4. CASE ~ session[c].endpoint
  <2>1. UNCHANGED <<session, queue, frame>>
    BY <1>4 DEF SessionDisconnected
  <2> QED
    BY <1>1, <2>1, KeptSame, LivesSame, KeptParts
<1>5. CASE session[c].endpoint /\ session[c].ready
  <2>1. queue' = after /\ UNCHANGED session /\ frame'.rest = <<"let_go", c>>
    BY <1>5 DEF SessionDisconnected, Callback
  <2>2. \A m \in Messages, d \in Sessions : frame'.rest # <<"completed", m, d>> /\ frame.rest # <<"completed", m, d>>
    BY <1>2, <2>1
  <2> HIDE DEF after
  <2> QED
    BY <1>1, <1>3, <2>1, <2>2, LivesSame, KeptParts
<1>6. CASE session[c].endpoint /\ ~ session[c].ready
  <2>1. LetGo(c, after) /\ UNCHANGED frame
    BY <1>6 DEF SessionDisconnected
  <2>2. session[c].life = "live"
    BY <1>6, LifeTypes DEF SlotOK
  <2>3. queue' = Submit(after, <<"destroy_endpoint", c>>)
    BY <2>1 DEF LetGo
  <2> HIDE DEF after
  <2>4. QueueKept(ToSet(queue'), ToSet(queue))
    BY <1>3, <2>3, KeptBySubmit, LifeTaskNames
  <2>5. <<"stop_endpoint", c>> \in ToSet(queue')
    <3>1. <<"destroy_endpoint", c>> \in Tasks
      BY LifeTaskNames, TaskKinds
    <3> QED
      BY <1>3, <2>3, <3>1, SubmitOrder
  <2>6. LivesKept(ToSet(queue'))
    BY <2>1, <2>2, <2>5, LettingGoLives
  <2> QED
    BY <1>1, <2>1, <2>4, <2>6, KeptParts
<1> QED
  BY <1>4, <1>5, <1>6

LEMMA KeptSocketStop == ASSUME LifeInv, SocketStop PROVE SendKept
<1> DEFINE more == StopTasks
<1>1. /\ Running(<<"stop">>) /\ UNCHANGED <<frame, bus, sender, dispatcher, answered>>
      /\ queue' = SubmitAll(Tail(queue), more)
      /\ session' = [c \in Sessions |-> IF c \in ToSet(listed)
                                        THEN [session[c] EXCEPT !.life = "released", !.peer = FALSE, !.endpoint = FALSE]
                                        ELSE session[c]]
  BY DEF SocketStop, StopTasks, ReleasedTasks, sending
<1>2. QueueKept(ToSet(Tail(queue)), ToSet(queue)) /\ QueueOK(Tail(queue))
  BY <1>1, KeptByRunning, TaskKinds, Runs
<1>3. /\ QueueOK(more)
      /\ \A x : x \in ToSet(more) <=>
             \/ proto.state = "RUNNING" /\ x = <<"stop_protocol">>
             \/ \E c \in ToSet(listed) : x = <<"stop_endpoint", c>> \/ x = <<"destroy_endpoint", c>>
             \/ x = <<"destroy_protocol">>
  BY StopTasksOrder
<1>4. \A c \in ToSet(listed) : c \in Sessions
  BY DEF LifeInv, LifeTypeOK
<1> HIDE DEF more
<1>5. \A x \in ToSet(more) : x \in LifeTasks
  <2>1. <<"stop_protocol">> \in LifeTasks /\ <<"destroy_protocol">> \in LifeTasks
    BY TaskKinds
  <2>2. \A c \in ToSet(listed) : <<"stop_endpoint", c>> \in LifeTasks /\ <<"destroy_endpoint", c>> \in LifeTasks
    BY <1>4, LifeTaskNames
  <2> QED
    BY <1>3, <2>1, <2>2
<1>6. QueueKept(ToSet(queue'), ToSet(queue))
  BY <1>1, <1>2, <1>3, <1>5, KeptBySubmitAll
<1>7. \A c \in ToSet(listed) : <<"stop_endpoint", c>> \in ToSet(queue')
  <2>1. ToSet(SubmitAll(Tail(queue), more)) = ToSet(Tail(queue)) \union ToSet(more)
    BY <1>2, <1>3, SubmitAllOrder
  <2>2. ToSet(queue') = ToSet(Tail(queue)) \union ToSet(more)
    BY <1>1, <2>1, Zenon
  <2> QED
    BY <1>3, <2>2
<1>8. LivesKept(ToSet(queue'))
  <2>1. ASSUME NEW c \in Sessions
        PROVE  [session[c] EXCEPT !.life = "released", !.peer = FALSE, !.endpoint = FALSE].life = "released"
    <3>1. session[c] \in SessionRecord
      BY LifeTypes
    <3> QED
      BY <3>1 DEF SessionRecord
  <2>2. \A c \in Sessions : IF c \in ToSet(listed) THEN session'[c].life = "released" ELSE session'[c] = session[c]
    BY <1>1, <2>1
  <2> QED
    BY <1>7, <2>2 DEF LivesKept
<1> QED
  BY <1>1, <1>6, <1>8, KeptParts

LEMMA KeptProtocol ==
    ASSUME LifeInv, ProtocolStop \/ ProtocolDestroy \/ Stop \/ \E c \in Sessions : DestroyEndpoint(c) \/ Disconnect(c)
    PROVE  SendKept
<1>1. UNCHANGED <<session, frame, bus, sender, dispatcher, answered>>
  BY DEF ProtocolStop, ProtocolDestroy, Stop, DestroyEndpoint, Disconnect, sending, objects
<1>2. QueueOK(queue) /\ QueueKept(ToSet(queue), ToSet(queue))
  BY LifeTypes, KeptSame
<1>3. QueueKept(ToSet(queue'), ToSet(queue))
  <2>1. CASE ProtocolStop
    BY <2>1, KeptByRunning, TaskKinds DEF ProtocolStop
  <2>2. CASE ProtocolDestroy
    BY <2>2, KeptByRunning, TaskKinds DEF ProtocolDestroy
  <2>3. CASE Stop
    BY <1>2, <2>3, KeptBySubmit, TaskKinds DEF Stop
  <2>4. ASSUME NEW c \in Sessions, DestroyEndpoint(c) PROVE QueueKept(ToSet(queue'), ToSet(queue))
    BY <2>4, KeptByRunning, LifeTaskNames DEF DestroyEndpoint
  <2>5. ASSUME NEW c \in Sessions, Disconnect(c) PROVE QueueKept(ToSet(queue'), ToSet(queue))
    BY <1>2, <2>5, KeptBySubmit, LifeTaskNames DEF Disconnect
  <2> QED
    BY <2>1, <2>2, <2>3, <2>4, <2>5
<1> QED
  BY <1>1, <1>3, LivesSame, KeptParts

LEMMA KeptReturn ==
    ASSUME LifeInv, Return, \A m \in Messages, c \in Sessions : frame.rest # <<"completed", m, c>> PROVE SendKept
<1> DEFINE r == frame.rest
<1>1. /\ frame # NoFrame /\ frame'.rest = <<>> /\ r \in Rests /\ UNCHANGED <<sender, answered>>
      /\ QueueOK(queue) /\ QueueKept(ToSet(queue), ToSet(queue))
  BY LifeTypes, KeptSame DEF Return, NoFrame
<1>2. \A m \in Messages, c \in Sessions : frame'.rest = <<"completed", m, c>> <=> frame.rest = <<"completed", m, c>>
  BY <1>1
<1>3. CASE r = <<>>
  BY <1>1, <1>2, <1>3, LivesSame, KeptParts DEF Return, objects
<1>4. CASE r # <<>> /\ r[1] = "connected"
  <2>1. OnConnected(r[2]) /\ UNCHANGED <<queue, dispatcher, bus>>
    BY <1>4 DEF Return, OnConnected
  <2>2. PICK c \in Sessions : c = r[2] /\ r = <<"connected", c>>
    BY <1>1, <1>4, RestKinds
  <2>3. session[c].life = "fresh"
    BY <2>2, LifeTypes DEF SlotOK
  <2>4. LivesKept(ToSet(queue'))
    BY <2>1, <2>2, <2>3, BeginningLives
  <2> QED
    BY <1>1, <1>2, <2>1, <2>4, KeptParts
<1>5. CASE r # <<>> /\ r[1] = "denied"
  <2>1. StopProtocol(queue) /\ UNCHANGED <<session, bus, dispatcher>>
    BY <1>5 DEF Return, objects
  <2>2. QueueKept(ToSet(queue'), ToSet(queue))
    BY <1>1, <2>1, KeptByStop
  <2> QED
    BY <1>1, <1>2, <2>1, <2>2, LivesSame, KeptParts
<1>6. CASE r # <<>> /\ r[1] = "let_go"
  <2>1. LetGo(r[2], queue) /\ UNCHANGED <<bus, dispatcher>>
    BY <1>6 DEF Return
  <2>2. PICK c \in Sessions : c = r[2] /\ r = <<"let_go", c>>
    BY <1>1, <1>6, RestKinds
  <2>3. session[c].life = "live" /\ <<"stop_endpoint", c>> \in ToSet(queue)
    BY <2>2, LifeTypes DEF SlotOK
  <2>4. queue' = Submit(queue, <<"destroy_endpoint", c>>)
    BY <2>1, <2>2 DEF LetGo
  <2>5. QueueKept(ToSet(queue'), ToSet(queue))
    BY <1>1, <2>4, KeptBySubmit, LifeTaskNames
  <2>6. <<"stop_endpoint", c>> \in ToSet(queue')
    BY <2>3, <2>5 DEF QueueKept
  <2>7. LivesKept(ToSet(queue'))
    BY <2>1, <2>2, <2>3, <2>6, LettingGoLives
  <2> QED
    BY <1>1, <1>2, <2>1, <2>5, <2>7, KeptParts
<1>7. CASE r # <<>> /\ r[1] = "completed"
  BY <1>1, <1>7, RestKinds
<1> QED
  BY <1>3, <1>4, <1>5, <1>6, <1>7 DEF Return

-----------------------------------------------------------------------------
(***************************************************************************)
(* The steps of sending.  What is known of one bus, said of the variables. *)
(***************************************************************************)
BusHolds(c) ==
    /\ bus[c].processing <=> <<"send", c>> \in ToSet(queue)
    /\ bus[c].stop => bus[c].processing
    /\ IsInjective(bus[c].pending)
    /\ bus[c].pending # <<>> => bus[c].processing \/ bus[c].current # None
    /\ \A m \in Messages :
          /\ m \in ToSet(bus[c].pending) <=> dispatcher[m][c].stage = "pending"
          /\ bus[c].current = m =>
                dispatcher[m][c].stage \in {"dispatch", "acking", "complete"} /\ ~ dispatcher[m][c].canceled
          /\ dispatcher[m][c].stage = "dispatch" /\ m \in Reliable => bus[c].current = m
          /\ dispatcher[m][c].stage = "acking" =>
                bus[c].current = m /\ (Reachable(session[c], ToSet(queue), c) \/ bus[c].stop)

LEMMA BusFlat ==
    ASSUME NEW c \in Sessions
    PROVE  /\ BusOK(bus[c], [m \in Messages |-> dispatcher[m][c]], ToSet(queue), session[c].life, c) <=> BusHolds(c)
           /\ BusOK(bus'[c], [m \in Messages |-> dispatcher'[m][c]], ToSet(queue'), session'[c].life, c)
              <=> BusHolds(c)'
<1>1. BusOK(bus[c], [m \in Messages |-> dispatcher[m][c]], ToSet(queue), session[c].life, c) <=> BusHolds(c)
  BY DEF BusOK, BusHolds, Reachable
<1>2. BusOK(bus'[c], [m \in Messages |-> dispatcher'[m][c]], ToSet(queue'), session'[c].life, c)
              <=> BusHolds(c)'
  BY DEF BusOK, BusHolds, Reachable
<1> QED
  BY <1>1, <1>2

LEMMA Sendings ==
    ASSUME SendInv
    PROVE  /\ \A c \in Sessions : bus[c] \in BusRecord /\ BusHolds(c)
           /\ \A m \in Messages, c \in Sessions :
                 /\ dispatcher[m][c] \in DispatcherRecord
                 /\ DispatcherOK(dispatcher[m][c], ToSet(queue), frame.rest, m, c)
                 /\ dispatcher[m][c].stage = "none" <=> ~ Expects(sender[m], c)
                 /\ c \in sender[m].records => session[c].life # "fresh"
           /\ \A m \in Messages : sender[m] \in SenderRecord /\ SenderOK(sender[m], answered[m], Counted(m))
<1>1. \A c \in Sessions : BusHolds(c)
  BY BusFlat DEF SendInv
<1> QED
  BY <1>1 DEF SendInv, SendTypeOK

LEMMA SendParts ==
    ASSUME SendTypeOK', \A c \in Sessions : BusHolds(c)',
           \A m \in Messages, c \in Sessions :
              /\ DispatcherOK(dispatcher'[m][c], ToSet(queue'), frame'.rest, m, c)
              /\ dispatcher'[m][c].stage = "none" <=> ~ Expects(sender'[m], c)
              /\ c \in sender'[m].records => session'[c].life # "fresh",
           \A m \in Messages : SenderOK(sender'[m], answered'[m], Counted(m)')
    PROVE  SendInv'
<1>1. \A c \in Sessions : BusOK(bus'[c], [m \in Messages |-> dispatcher'[m][c]], ToSet(queue'), session'[c].life, c)
  BY BusFlat
<1> QED
  BY <1>1 DEF SendInv

\* A bus that a step is not about.
LEMMA OtherBus ==
    ASSUME SendInv, NEW c \in Sessions, bus'[c] = bus[c],
           \A m \in Messages : dispatcher'[m][c] = dispatcher[m][c],
           <<"send", c>> \in ToSet(queue') <=> <<"send", c>> \in ToSet(queue),
           Reachable(session[c], ToSet(queue), c) => Reachable(session'[c], ToSet(queue'), c)
    PROVE  BusHolds(c)'
<1>1. BusHolds(c)
  BY Sendings
<1> QED
  BY <1>1 DEF BusHolds

\* The senders, when no dispatcher is begun and none ends.
LEMMA SendersSame ==
    ASSUME SendInv, UNCHANGED <<sender, answered, session>>,
           \A m \in Messages, c \in Sessions :
              /\ dispatcher'[m][c].stage = "none" <=> dispatcher[m][c].stage = "none"
              /\ dispatcher'[m][c].stage = "done" <=> dispatcher[m][c].stage = "done"
              /\ frame'.rest = <<"completed", m, c>> <=> frame.rest = <<"completed", m, c>>
    PROVE  /\ \A m \in Messages, c \in Sessions :
                 /\ dispatcher'[m][c].stage = "none" <=> ~ Expects(sender'[m], c)
                 /\ c \in sender'[m].records => session'[c].life # "fresh"
           /\ \A m \in Messages : SenderOK(sender'[m], answered'[m], Counted(m)')
<1>1. ASSUME NEW m \in Messages PROVE Counted(m)' = Counted(m)
  BY DEF Counted
<1> QED
  BY <1>1, Sendings

-----------------------------------------------------------------------------
\* The tasks that make idle buses send.
LEMMA TriggerOrder ==
    ASSUME NEW cs \in Seq(Sessions), IsInjective(cs)
    PROVE  /\ QueueOK(Trigger(cs))
           /\ \A t : t \in ToSet(Trigger(cs)) <=> \E c \in ToSet(cs) : ~ bus[c].processing /\ t = <<"send", c>>
<1> DEFINE idle == Among(cs, {c \in Sessions : ~ bus[c].processing})
           tasks == Trigger(cs)
<1>1. /\ idle \in Seq(Sessions) /\ IsInjective(idle)
      /\ ToSet(idle) = ToSet(cs) \intersect {c \in Sessions : ~ bus[c].processing}
  BY AmongOrder, AmongInjective
<1>2. tasks = [i \in DOMAIN idle |-> <<"send", idle[i]>>]
  BY DEF Trigger
<1>3. \A c \in ToSet(cs) : c \in Sessions
  BY DEF ToSet
<1> HIDE DEF idle, tasks
<1>4. DOMAIN tasks = DOMAIN idle /\ \A i \in DOMAIN idle : tasks[i] = <<"send", idle[i]>> /\ idle[i] \in Sessions
  BY <1>1, <1>2
<1>5. \A i \in DOMAIN idle : tasks[i] \in Tasks
  <2>1. \A c \in Sessions : <<"send", c>> \in Tasks
    BY TaskKinds
  <2> QED
    BY <1>4, <2>1
<1>6. \A i, j \in DOMAIN idle : tasks[i] = tasks[j] => idle[i] = idle[j]
  BY <1>4
<1>7. tasks = [i \in DOMAIN idle |-> tasks[i]]
  BY <1>2, <1>4
<1>8. QueueOK(tasks)
  BY <1>1, <1>4, <1>5, <1>6, <1>7, MappedOrder
<1>9. \A t : t \in ToSet(tasks) <=> \E c \in ToSet(idle) : t = <<"send", c>>
  BY <1>4 DEF ToSet
<1>10. \A t : t \in ToSet(tasks) <=> \E c \in ToSet(cs) : ~ bus[c].processing /\ t = <<"send", c>>
  BY <1>1, <1>3, <1>9
<1> QED
  BY <1>8, <1>10 DEF tasks

LEMMA OneMore ==
    ASSUME NEW S, NEW s \in Seq(S), NEW e \in S, IsInjective(s), e \notin ToSet(s)
    PROVE  IsInjective(Append(s, e)) /\ ToSet(Append(s, e)) = ToSet(s) \union {e}
<1>1. /\ Append(s, e) \in Seq(S) /\ ToSet(Append(s, e)) = ToSet(s) \union {e}
      /\ \A x, y : Precedes(Append(s, e), x, y) <=> Precedes(s, x, y) \/ (x \in ToSet(s) /\ y = e)
  BY AppendOrder
<1>2. \A x : ~ Precedes(s, x, x)
  BY InjectiveOrder
<1>3. \A x : ~ Precedes(Append(s, e), x, x)
  BY <1>1, <1>2
<1>4. IsInjective(Append(s, e))
  BY <1>1, <1>3, InjectiveOrder
<1> QED
  BY <1>1, <1>4

LEMMA DispatchQueue ==
    ASSUME CoreInv, NEW m, NEW cs \in Seq(Sessions), IsInjective(cs), Dispatch(m, cs)
    PROVE  /\ QueueOK(queue')
           /\ \A t : t \in ToSet(queue') <=>
                 t \in ToSet(queue) \/ \E c \in ToSet(cs) : t = <<"send", c>>
           /\ \A t \in LifeTasks : t \in ToSet(queue') <=> t \in ToSet(queue)
           /\ \A x, y \in LifeTasks : Precedes(queue', x, y) => Precedes(queue, x, y)
<1> DEFINE more == Trigger(cs)
<1>1. queue' = SubmitAll(queue, more)
  BY DEF Dispatch
<1>2. QueueOK(queue) /\ SendInv
  BY LifeTypes DEF CoreInv
<1>3. /\ QueueOK(more)
      /\ \A t : t \in ToSet(more) <=> \E c \in ToSet(cs) : ~ bus[c].processing /\ t = <<"send", c>>
  BY TriggerOrder
<1>4. \A c \in ToSet(cs) : c \in Sessions /\ (bus[c].processing <=> <<"send", c>> \in ToSet(queue))
  <2>1. \A c \in ToSet(cs) : c \in Sessions
    BY DEF ToSet
  <2> QED
    BY <1>2, <2>1, Sendings DEF BusHolds
<1> HIDE DEF more
<1>5. /\ QueueOK(queue') /\ ToSet(queue') = ToSet(queue) \union ToSet(more)
      /\ \A x, y : Precedes(queue', x, y) <=>
             \/ Precedes(queue, x, y) /\ x \notin ToSet(more) /\ y \notin ToSet(more)
             \/ Precedes(more, x, y)
             \/ x \in ToSet(queue) /\ x \notin ToSet(more) /\ y \in ToSet(more)
  BY <1>1, <1>2, <1>3, SubmitAllOrder
<1>6. \A t \in LifeTasks : t \notin ToSet(more)
  <2>1. \A c \in Sessions : <<"send", c>> \notin LifeTasks
    BY TaskKinds
  <2> QED
    BY <1>3, <1>4, <2>1
<1>7. \A x, y : Precedes(more, x, y) => x \in ToSet(more)
  BY PrecedesMember
<1>8. \A t : t \in ToSet(queue') <=> t \in ToSet(queue) \/ \E c \in ToSet(cs) : t = <<"send", c>>
  BY <1>3, <1>4, <1>5
<1>9. \A t \in LifeTasks : t \in ToSet(queue') <=> t \in ToSet(queue)
  BY <1>5, <1>6
<1>10. \A x, y \in LifeTasks : Precedes(queue', x, y) => Precedes(queue, x, y)
  BY <1>5, <1>6, <1>7
<1> QED
  BY <1>5, <1>8, <1>9, <1>10

\* The buses and the dispatchers of a message that is submitted to the sessions of cs.
LEMMA DispatchDone ==
    ASSUME CoreInv, NEW m \in Messages, NEW cs \in Seq(Sessions), IsInjective(cs), Dispatch(m, cs),
           UNCHANGED <<session, frame>>, \A c \in ToSet(cs) : dispatcher[m][c].stage = "none"
    PROVE  /\ bus' \in [Sessions -> BusRecord]
           /\ dispatcher' \in [Messages -> [Sessions -> DispatcherRecord]]
           /\ \A n \in Messages, c \in Sessions :
                 IF n = m /\ c \in ToSet(cs) THEN dispatcher'[n][c].stage = "pending"
                 ELSE dispatcher'[n][c] = dispatcher[n][c]
           /\ \A c \in Sessions : BusHolds(c)'
           /\ \A n \in Messages, c \in Sessions :
                 DispatcherOK(dispatcher'[n][c], ToSet(queue'), frame'.rest, n, c)
<1>1. /\ SendInv
      /\ \A t : t \in ToSet(queue') <=> t \in ToSet(queue) \/ \E c \in ToSet(cs) : t = <<"send", c>>
      /\ \A c \in ToSet(cs) : c \in Sessions
      /\ \A c : Contains(cs, c) <=> c \in ToSet(cs)
  BY DispatchQueue DEF CoreInv, Contains, ToSet
<1>2. /\ bus' = [c \in Sessions |-> IF c \in ToSet(cs) THEN Enqueued(bus[c], m) ELSE bus[c]]
      /\ dispatcher' = [dispatcher EXCEPT ![m] = [c \in Sessions |->
                          IF c \in ToSet(cs) THEN [dispatcher[m][c] EXCEPT !.stage = "pending"]
                          ELSE dispatcher[m][c]]]
  BY <1>1 DEF Dispatch
<1>3. /\ bus \in [Sessions -> BusRecord] /\ dispatcher \in [Messages -> [Sessions -> DispatcherRecord]]
  BY <1>1 DEF SendInv, SendTypeOK
<1>4. ASSUME NEW c \in Sessions
      PROVE  /\ Enqueued(bus[c], m) \in BusRecord /\ Enqueued(bus[c], m).pending = Append(bus[c].pending, m)
             /\ Enqueued(bus[c], m).processing /\ Enqueued(bus[c], m).current = bus[c].current
             /\ Enqueued(bus[c], m).stop = bus[c].stop
             /\ bus[c].pending \in Seq(Messages)
  <2>1. bus[c] \in BusRecord
    BY <1>3
  <2>2. bus[c].pending \in Seq(Messages) /\ Append(bus[c].pending, m) \in Seq(Messages)
    BY <2>1 DEF BusRecord
  <2> QED
    BY <2>1, <2>2 DEF Enqueued, BusRecord
<1>5. ASSUME NEW c \in Sessions
      PROVE  /\ [dispatcher[m][c] EXCEPT !.stage = "pending"] \in DispatcherRecord
             /\ [dispatcher[m][c] EXCEPT !.stage = "pending"].stage = "pending"
             /\ [dispatcher[m][c] EXCEPT !.stage = "pending"].canceled = dispatcher[m][c].canceled
  <2>1. dispatcher[m][c] \in DispatcherRecord
    BY <1>3
  <2> QED
    BY <2>1 DEF DispatcherRecord
<1>6. /\ bus' \in [Sessions -> BusRecord]
      /\ \A c \in Sessions : bus'[c] = IF c \in ToSet(cs) THEN Enqueued(bus[c], m) ELSE bus[c]
  BY <1>2, <1>3, <1>4
<1>7. /\ dispatcher' \in [Messages -> [Sessions -> DispatcherRecord]]
      /\ \A n \in Messages, c \in Sessions :
             dispatcher'[n][c] = IF n = m /\ c \in ToSet(cs) THEN [dispatcher[m][c] EXCEPT !.stage = "pending"]
                                 ELSE dispatcher[n][c]
  BY <1>2, <1>3, <1>5
<1>8. \A n \in Messages, c \in Sessions :
                 IF n = m /\ c \in ToSet(cs)
                 THEN dispatcher'[n][c].stage = "pending" /\ dispatcher'[n][c].canceled = dispatcher[n][c].canceled
                 ELSE dispatcher'[n][c] = dispatcher[n][c]
  BY <1>5, <1>7
<1>9. \A n \in Messages, c \in Sessions :
         /\ DispatcherOK(dispatcher[n][c], ToSet(queue), frame.rest, n, c)
         /\ <<"dispatcher", n, c>> \in ToSet(queue') <=> <<"dispatcher", n, c>> \in ToSet(queue)
  BY <1>1, Sendings
<1>10. ASSUME NEW n \in Messages, NEW c \in Sessions
       PROVE  DispatcherOK(dispatcher'[n][c], ToSet(queue'), frame'.rest, n, c)
  BY <1>8, <1>9 DEF DispatcherOK
<1>11. ASSUME NEW c \in Sessions PROVE BusHolds(c)'
  <2>1. BusHolds(c) /\ (\A d \in Sessions : Reachable(session[d], ToSet(queue), d) => Reachable(session'[d], ToSet(queue'), d))
    BY <1>1, Sendings DEF Reachable
  <2>2. CASE c \notin ToSet(cs)
    <3>1. bus'[c] = bus[c] /\ \A n \in Messages : dispatcher'[n][c] = dispatcher[n][c]
      BY <1>6, <1>8, <2>2
    <3>2. <<"send", c>> \in ToSet(queue') <=> <<"send", c>> \in ToSet(queue)
      BY <1>1, <2>2
    <3> QED
      BY <1>1, <2>1, <3>1, <3>2, OtherBus
  <2>3. CASE c \in ToSet(cs)
    <3>1. /\ bus'[c].pending = Append(bus[c].pending, m) /\ bus'[c].processing
          /\ bus'[c].current = bus[c].current /\ bus'[c].stop = bus[c].stop /\ bus[c].pending \in Seq(Messages)
      BY <1>4, <1>6, <2>3
    <3>2. m \notin ToSet(bus[c].pending) /\ IsInjective(bus[c].pending)
      BY <2>1, <2>3 DEF BusHolds
    <3>3. IsInjective(bus'[c].pending) /\ ToSet(bus'[c].pending) = ToSet(bus[c].pending) \union {m}
        <4>1. IsInjective(Append(bus[c].pending, m)) /\ ToSet(Append(bus[c].pending, m)) = ToSet(bus[c].pending) \union {m}
        BY <3>1, <3>2, OneMore
      <4> QED
        BY <3>1, <4>1, Zenon
    <3>4. bus[c].current # m
      BY <2>1, <2>3 DEF BusHolds
    <3>5. <<"send", c>> \in ToSet(queue')
      BY <1>1, <2>3
    <3>6. ASSUME NEW n \in Messages
          PROVE  /\ n \in ToSet(bus'[c].pending) <=> dispatcher'[n][c].stage = "pending"
                 /\ bus'[c].current = n =>
                       dispatcher'[n][c].stage \in {"dispatch", "acking", "complete"} /\ ~ dispatcher'[n][c].canceled
                 /\ dispatcher'[n][c].stage = "dispatch" /\ n \in Reliable => bus'[c].current = n
                 /\ dispatcher'[n][c].stage = "acking" =>
                       bus'[c].current = n /\ (Reachable(session'[c], ToSet(queue'), c) \/ bus'[c].stop)
      <4>1. CASE n = m
        BY <1>8, <2>3, <3>1, <3>3, <3>4, <4>1
      <4>2. CASE n # m
        BY <1>8, <2>1, <3>1, <3>3, <4>2 DEF BusHolds
      <4> QED
        BY <4>1, <4>2
    <3> QED
      BY <3>1, <3>3, <3>5, <3>6 DEF BusHolds
  <2> QED
    BY <2>2, <2>3
<1> QED
  BY <1>6, <1>7, <1>8, <1>10, <1>11

LEMMA SetToSeqOrder ==
    ASSUME NEW S, IsFiniteSet(S)
    PROVE  SetToSeq(S) \in Seq(S) /\ IsInjective(SetToSeq(S)) /\ ToSet(SetToSeq(S)) = S
<1> DEFINE n == Cardinality(S)
           f == SetToSeq(S)
<1>1. n \in Nat /\ \E g \in [1 .. n -> S] : IsInjective(g)
  BY FS_CardinalityType DEF ExistsBijection, Bijection, Injection
<1>2. f \in [1 .. n -> S] /\ IsInjective(f)
  BY <1>1 DEF SetToSeq
<1> HIDE DEF f
<1>3. f \in Injection(1 .. n, S) /\ Cardinality(1 .. n) = n
  BY <1>1, <1>2, FS_Interval DEF Injection
<1>4. f \in Surjection(1 .. n, S)
  BY <1>3, FS_Injection
<1> HIDE DEF n
<1>5. \A x \in S : \E i \in 1 .. n : f[i] = x
  BY <1>4 DEF Surjection
<1>6. f \in Seq(S) /\ DOMAIN f = 1 .. n
  BY <1>1, <1>2
<1>7. ToSet(f) = S
  BY <1>2, <1>5, <1>6 DEF ToSet
<1> QED
  BY <1>2, <1>6, <1>7 DEF f

\* Only the sender of one message changes, and none of its dispatchers is begun.
LEMMA CoreSender ==
    ASSUME CoreInv, NEW m \in Messages,
           UNCHANGED <<api, proto, objects, dispatcher, queue, frame, manner, told>>,
           sender' \in [Messages -> SenderRecord], answered' \in [Messages -> Nat],
           \A n \in Messages \ {m} : sender'[n] = sender[n] /\ answered'[n] = answered[n],
           SenderOK(sender'[m], answered'[m], Counted(m)),
           \A c \in Sessions : Expects(sender'[m], c) <=> Expects(sender[m], c),
           \A c \in sender'[m].records : c \in sender[m].records \/ session[c].life # "fresh"
    PROVE  CoreInv'
<1>1. UNCHANGED <<api, proto, listed, peer, session, endpoint, bus, dispatcher, queue, frame, manner, told>>
  BY DEF objects
<1>2. LifeInv'
  BY <1>1 DEF CoreInv, LifeInv, LifeTypeOK, Slots, Protocol, Orders
<1>3. SendInv
  BY DEF CoreInv
<1>4. SendTypeOK'
  BY <1>1, <1>3 DEF SendInv, SendTypeOK
<1>5. \A c \in Sessions : BusHolds(c)'
  BY <1>1, <1>3, OtherBus
<1>6. \A n \in Messages : Counted(n)' = Counted(n)
  BY <1>1 DEF Counted
<1>7. \A n \in Messages, c \in Sessions :
          /\ DispatcherOK(dispatcher'[n][c], ToSet(queue'), frame'.rest, n, c)
          /\ dispatcher'[n][c].stage = "none" <=> ~ Expects(sender'[n], c)
          /\ c \in sender'[n].records => session'[c].life # "fresh"
  <2> TAKE n \in Messages, c \in Sessions
  <2>1. /\ DispatcherOK(dispatcher[n][c], ToSet(queue), frame.rest, n, c)
        /\ dispatcher[n][c].stage = "none" <=> ~ Expects(sender[n], c)
        /\ c \in sender[n].records => session[c].life # "fresh"
    BY <1>3, Sendings
  <2>2. CASE n = m
    BY <1>1, <2>1, <2>2
  <2>3. CASE n # m
    BY <1>1, <2>1, <2>3
  <2> QED
    BY <2>2, <2>3
<1>8. \A n \in Messages : SenderOK(sender'[n], answered'[n], Counted(n)')
  BY <1>3, <1>6, Sendings
<1>9. SendInv'
  BY <1>4, <1>5, <1>7, <1>8, SendParts
<1> QED
  BY <1>2, <1>9 DEF CoreInv

\* A message is handed to buses, in a step that does nothing else but to its sender.
LEMMA CoreDispatch ==
    ASSUME CoreInv, NEW m \in Messages, NEW cs \in Seq(Sessions), IsInjective(cs), Dispatch(m, cs),
           UNCHANGED <<api, proto, listed, peer, session, endpoint, answered, frame, manner, told>>,
           \A c \in ToSet(cs) : dispatcher[m][c].stage = "none" /\ session[c].life # "fresh",
           \A d \in Sessions : <<"ready", d>> \notin ToSet(queue),
           sender' \in [Messages -> SenderRecord],
           \A n \in Messages \ {m} : sender'[n] = sender[n],
           SenderOK(sender'[m], answered[m], Counted(m)),
           \A c \in Sessions : Expects(sender'[m], c) <=> Expects(sender[m], c) \/ c \in ToSet(cs),
           \A c \in sender'[m].records : c \in sender[m].records \/ session[c].life # "fresh"
    PROVE  CoreInv'
<1>1. /\ QueueOK(queue')
      /\ \A t : t \in ToSet(queue') <=>
            t \in ToSet(queue) \/ \E c \in ToSet(cs) : t = <<"send", c>>
      /\ \A t \in LifeTasks : t \in ToSet(queue') <=> t \in ToSet(queue)
      /\ \A x, y \in LifeTasks : Precedes(queue', x, y) => Precedes(queue, x, y)
  BY DispatchQueue
<1>2. /\ bus' \in [Sessions -> BusRecord]
      /\ dispatcher' \in [Messages -> [Sessions -> DispatcherRecord]]
      /\ \A n \in Messages, c \in Sessions :
            IF n = m /\ c \in ToSet(cs) THEN dispatcher'[n][c].stage = "pending"
            ELSE dispatcher'[n][c] = dispatcher[n][c]
      /\ \A c \in Sessions : BusHolds(c)'
      /\ \A n \in Messages, c \in Sessions :
            DispatcherOK(dispatcher'[n][c], ToSet(queue'), frame'.rest, n, c)
  BY DispatchDone
<1>3. LifeInv /\ SendInv
  BY DEF CoreInv
<1>4. ASSUME NEW c \in Sessions, <<"send", c>> \in ToSet(queue') PROVE session[c].life # "fresh"
  <2>1. CASE c \in ToSet(cs)
    BY <2>1
  <2>2. CASE c \notin ToSet(cs)
    <3>1. <<"send", c>> \in ToSet(queue)
      BY <1>1, <1>4, <2>2
    <3>2. SlotOK(session[c], peer[c], endpoint[c], told[c], ToSet(queue), frame.rest, c)
      BY <1>3, LifeTypes
    <3> QED
      BY <3>1, <3>2 DEF SlotOK, PeerTasks
  <2> QED
    BY <2>1, <2>2
<1>5. LifeInv'
  <2>1. frame' \in [of : Callbacks, rest : Rests] /\ (frame'.of = "none" => frame' = NoFrame)
    BY <1>3 DEF LifeInv, LifeTypeOK
  <2>2. \A c \in Sessions : SameRest(frame'.rest, frame.rest, c)
    BY DEF SameRest
  <2> QED
    BY <1>1, <1>3, <1>4, <2>1, <2>2, LifeSending
<1>6. SendTypeOK'
  BY <1>2, <1>3 DEF SendInv, SendTypeOK
<1>7. \A n \in Messages : Counted(n)' = Counted(n)
  <2> TAKE n \in Messages
  <2>1. \A c \in Sessions : dispatcher'[n][c].stage = "done" <=> dispatcher[n][c].stage = "done"
    BY <1>2
  <2> QED
    BY <2>1 DEF Counted
<1>8. \A n \in Messages, c \in Sessions :
          /\ dispatcher'[n][c].stage = "none" <=> ~ Expects(sender'[n], c)
          /\ c \in sender'[n].records => session'[c].life # "fresh"
  <2> TAKE n \in Messages, c \in Sessions
  <2>1. /\ dispatcher[n][c].stage = "none" <=> ~ Expects(sender[n], c)
        /\ c \in sender[n].records => session[c].life # "fresh"
    BY <1>3, Sendings
  <2>2. CASE n = m
    BY <1>2, <2>1, <2>2
  <2>3. CASE n # m
    BY <1>2, <2>1, <2>3
  <2> QED
    BY <2>2, <2>3
<1>9. \A n \in Messages : SenderOK(sender'[n], answered'[n], Counted(n)')
  BY <1>3, <1>7, Sendings
<1>10. SendInv'
  BY <1>2, <1>6, <1>8, <1>9, SendParts
<1> QED
  BY <1>5, <1>10 DEF CoreInv

LEMMA FreeMessage ==
    ASSUME SendInv, NEW m \in Messages, sender[m].phase = "free"
    PROVE  /\ sender[m] \in SenderRecord /\ sender[m].records = {} /\ sender[m].todo = <<>>
           /\ sender[m].completed = 0 /\ answered[m] = 0
           /\ Counted(m) = {} /\ Cardinality(Counted(m)) = 0
           /\ \A c \in Sessions : dispatcher[m][c].stage = "none" /\ ~ Expects(sender[m], c)
<1>1. sender[m] \in SenderRecord /\ SenderOK(sender[m], answered[m], Counted(m))
  BY Sendings
<1>2. /\ sender[m].records = {} /\ sender[m].todo = <<>> /\ answered[m] = 0
      /\ sender[m].completed = Cardinality(Counted(m))
  BY <1>1 DEF SenderOK
<1>3. \A c \in Sessions : dispatcher[m][c].stage = "none" /\ ~ Expects(sender[m], c)
  BY <1>2, Sendings DEF Expects
<1>4. Counted(m) = {}
  <2>1. \A c \in Sessions : frame.rest # <<"completed", m, c>>
    BY <1>3, Sendings DEF DispatcherOK
  <2> QED
    BY <1>3, <2>1 DEF Counted
<1> QED
  BY <1>1, <1>2, <1>3, <1>4, FS_EmptySet

LEMMA SenderSet ==
    ASSUME SendInv, NEW m \in Messages, NEW r \in SenderRecord, sender' = [sender EXCEPT ![m] = r]
    PROVE  /\ sender' \in [Messages -> SenderRecord] /\ sender'[m] = r
           /\ \A n \in Messages \ {m} : sender'[n] = sender[n]
  BY DEF SendInv, SendTypeOK

\* pomelo_delivery_sender_submit.
LEMMA CoreSubmit ==
    ASSUME CoreInv, NEW m \in Messages, sender[m].phase = "free", Idle \/ frame # NoFrame,
           NEW cs \in Seq(Sessions), IsInjective(cs), cs # <<>>,
           \A c \in ToSet(cs) : session[c].life # "fresh", SubmitSender(m, cs),
           UNCHANGED <<api, proto, listed, peer, session, endpoint, answered, frame, manner, told>>
    PROVE  CoreInv'
<1>1. SendInv /\ LifeInv
  BY DEF CoreInv
<1>2. /\ sender[m] \in SenderRecord /\ sender[m].records = {} /\ sender[m].todo = <<>>
      /\ sender[m].completed = 0 /\ answered[m] = 0
      /\ Counted(m) = {} /\ Cardinality(Counted(m)) = 0
      /\ \A c \in Sessions : dispatcher[m][c].stage = "none" /\ ~ Expects(sender[m], c)
  BY <1>1, FreeMessage
<1>3. ToSet(cs) \subseteq Sessions /\ ToSet(cs) # {} /\ \A S : <<>> \in Seq(S)
  BY EmptyOrder DEF ToSet
<1>4. answered \in [Messages -> Nat]
  BY <1>1 DEF SendInv, SendTypeOK
<1>5. ToSet(<<>>) = {} /\ IsInjective(<<>>)
  BY EmptyOrder
<1>6. CASE m \in manner.big
  <2> DEFINE r == [sender[m] EXCEPT !.phase = "summing", !.records = ToSet(cs)]
  <2>1. sender' = [sender EXCEPT ![m] = r] /\ UNCHANGED <<bus, dispatcher, queue>>
    BY <1>6 DEF SubmitSender
  <2>2. /\ r \in SenderRecord /\ r.phase = "summing" /\ r.records = ToSet(cs)
        /\ r.todo = <<>> /\ r.completed = 0
    BY <1>2, <1>3 DEF SenderRecord
  <2> HIDE DEF r
  <2>3. /\ sender' \in [Messages -> SenderRecord] /\ sender'[m] = r
        /\ \A n \in Messages \ {m} : sender'[n] = sender[n]
    BY <1>1, <2>1, <2>2, SenderSet
  <2>4. SenderOK(r, answered'[m], Counted(m))
    BY <1>2, <1>3, <1>5, <2>2 DEF SenderOK
  <2>5. \A c \in Sessions : ~ Expects(r, c)
    BY <2>2 DEF Expects
  <2>6. UNCHANGED <<api, proto, objects, dispatcher, queue, frame, manner, told>>
    BY <2>1 DEF objects
  <2> QED
    BY ZenonT(40), <1>2, <1>4, <2>2, <2>3, <2>4, <2>5, <2>6, CoreSender
<1>7. CASE m \notin manner.big /\ frame = NoFrame
  <2> DEFINE r == [sender[m] EXCEPT !.phase = "dispatching", !.records = ToSet(cs), !.todo = cs]
  <2>1. sender' = [sender EXCEPT ![m] = r] /\ UNCHANGED <<bus, dispatcher, queue>>
    BY <1>7 DEF SubmitSender
  <2>2. /\ r \in SenderRecord /\ r.phase = "dispatching" /\ r.records = ToSet(cs)
        /\ r.todo = cs /\ r.completed = 0
    BY <1>2, <1>3 DEF SenderRecord
  <2> HIDE DEF r
  <2>3. /\ sender' \in [Messages -> SenderRecord] /\ sender'[m] = r
        /\ \A n \in Messages \ {m} : sender'[n] = sender[n]
    BY <1>1, <2>1, <2>2, SenderSet
  <2>4. SenderOK(r, answered'[m], Counted(m))
    BY <1>2, <1>3, <2>2 DEF SenderOK
  <2>5. \A c \in Sessions : ~ Expects(r, c)
    BY <2>2 DEF Expects
  <2>6. UNCHANGED <<api, proto, objects, dispatcher, queue, frame, manner, told>>
    BY <2>1 DEF objects
  <2> QED
    BY ZenonT(40), <1>2, <1>4, <2>2, <2>3, <2>4, <2>5, <2>6, CoreSender
<1>8. CASE m \notin manner.big /\ frame # NoFrame
  <2> DEFINE r == [sender[m] EXCEPT !.phase = "dispatching", !.records = ToSet(cs)]
  <2>1. sender' = [sender EXCEPT ![m] = r] /\ Dispatch(m, cs)
    BY <1>8 DEF SubmitSender
  <2>2. /\ r \in SenderRecord /\ r.phase = "dispatching" /\ r.records = ToSet(cs)
        /\ r.todo = <<>> /\ r.completed = 0
    BY <1>2, <1>3 DEF SenderRecord
  <2> HIDE DEF r
  <2>3. /\ sender' \in [Messages -> SenderRecord] /\ sender'[m] = r
        /\ \A n \in Messages \ {m} : sender'[n] = sender[n]
    BY <1>1, <2>1, <2>2, SenderSet
  <2>4. SenderOK(r, answered[m], Counted(m))
    BY <1>2, <1>3, <1>5, <2>2 DEF SenderOK
  <2>5. \A c \in Sessions : Expects(r, c) <=> c \in ToSet(cs)
    BY <1>5, <2>2 DEF Expects
  <2>6. \A d \in Sessions : <<"ready", d>> \notin ToSet(queue)
    BY <1>1, MayCallQueue
  <2>7. \A c \in ToSet(cs) : dispatcher[m][c].stage = "none" /\ session[c].life # "fresh"
    BY <1>2, <1>3
  <2> QED
    BY <1>2, <2>1, <2>2, <2>3, <2>4, <2>5, <2>6, <2>7, CoreDispatch
<1> QED
  BY <1>6, <1>7, <1>8

LEMMA RecipientsOrder ==
    ASSUME NEW cs \in Recipients
    PROVE  cs \in Seq({c \in Sessions : session[c].life = "live"}) /\ IsInjective(cs) /\ cs # <<>>
<1> DEFINE L == {c \in Sessions : session[c].life = "live"}
<1>1. cs \in SeqOf(L, Cardinality(Sessions)) /\ IsInjective(cs) /\ cs # <<>>
  BY DEF Recipients
<1>2. PICK n \in 0 .. Cardinality(Sessions) : cs \in [1 .. n -> L]
  BY <1>1 DEF SeqOf
<1>3. n \in Nat
  BY <1>2, FS_CardinalityType, SessionsAssumption
<1> QED
  BY <1>1, <1>2, <1>3

LEMMA CoreSocketSend == ASSUME CoreInv, NEW m \in Messages, SocketSend(m) PROVE CoreInv'
<1>1. /\ sender[m].phase = "free" /\ (Idle \/ frame # NoFrame)
      /\ UNCHANGED <<api, proto, listed, peer, session, endpoint, frame, manner, told>>
  BY DEF SocketSend, MayCall
<1>2. PICK cs \in Recipients :
          LET connected == Among(cs, {c \in Sessions : session[c].state = "CONNECTED"})
          IN  IF connected = <<>>
              THEN /\ sender' = [sender EXCEPT ![m].phase = "done"] /\ Answers(m)
                   /\ UNCHANGED <<bus, dispatcher, queue>>
              ELSE SubmitSender(m, connected) /\ UNCHANGED answered
  BY DEF SocketSend
<1>3. cs \in Seq({c \in Sessions : session[c].life = "live"}) /\ IsInjective(cs)
  BY RecipientsOrder
<1> DEFINE T == {c \in Sessions : session[c].state = "CONNECTED"}
           L == {c \in Sessions : session[c].life = "live"}
           connected == Among(cs, T)
<1>4. connected \in Seq(L) /\ IsInjective(connected)
  BY <1>3, AmongInjective
<1>5. \A c \in ToSet(connected) : c \in L
  BY <1>4 DEF ToSet
<1>6. connected \in Seq(Sessions)
  BY <1>4
<1>7. CASE connected = <<>>
  <2> DEFINE r == [sender[m] EXCEPT !.phase = "done"]
  <2>1. /\ sender' = [sender EXCEPT ![m] = r] /\ answered' = [answered EXCEPT ![m] = @ + 1]
        /\ UNCHANGED <<bus, dispatcher, queue>>
    BY <1>2, <1>7 DEF Answers
  <2>a. SendInv
    BY DEF CoreInv
  <2>2. /\ sender[m] \in SenderRecord /\ sender[m].records = {} /\ sender[m].todo = <<>>
        /\ sender[m].completed = 0 /\ answered[m] = 0
        /\ Counted(m) = {} /\ Cardinality(Counted(m)) = 0
        /\ \A c \in Sessions : dispatcher[m][c].stage = "none" /\ ~ Expects(sender[m], c)
    BY <1>1, <2>a, FreeMessage
  <2>3. /\ r \in SenderRecord /\ r.phase = "done" /\ r.records = {}
        /\ r.todo = <<>> /\ r.completed = 0
    BY <2>2 DEF SenderRecord
  <2> HIDE DEF r
  <2>4. /\ sender' \in [Messages -> SenderRecord] /\ sender'[m] = r
        /\ \A n \in Messages \ {m} : sender'[n] = sender[n]
    BY <2>a, <2>1, <2>3, SenderSet
  <2>5. answered' \in [Messages -> Nat] /\ answered'[m] = 1 /\ \A n \in Messages \ {m} : answered'[n] = answered[n]
    BY <2>a, <2>1, <2>2 DEF SendInv, SendTypeOK
  <2>6. ToSet(<<>>) = {} /\ IsInjective(<<>>)
    BY EmptyOrder
  <2>7. SenderOK(r, answered'[m], Counted(m))
    BY <2>2, <2>3, <2>5, <2>6 DEF SenderOK
  <2>8. \A c \in Sessions : ~ Expects(r, c)
    BY <2>3 DEF Expects
  <2>9. UNCHANGED <<api, proto, objects, dispatcher, queue, frame, manner, told>>
    BY <1>1, <2>1 DEF objects
  <2> QED
    BY <2>2, <2>3, <2>4, <2>5, <2>7, <2>8, <2>9, CoreSender
<1>8. CASE connected # <<>>
  <2>1. SubmitSender(m, connected) /\ UNCHANGED answered
    BY <1>2, <1>8
  <2> HIDE DEF connected
  <2>2. \A c \in ToSet(connected) : session[c].life # "fresh"
    BY <1>5
  <2> QED
    BY <1>1, <1>4, <1>6, <1>8, <2>1, <2>2, CoreSubmit
<1> QED
  BY <1>7, <1>8

LEMMA CoreSessionSend ==
    ASSUME CoreInv, NEW m \in Messages, NEW c \in Sessions, SessionSend(m, c) PROVE CoreInv'
<1>1. /\ sender[m].phase = "free" /\ (Idle \/ frame # NoFrame) /\ session[c].life = "live" /\ SubmitSender(m, <<c>>)
      /\ UNCHANGED <<api, proto, listed, peer, session, endpoint, answered, frame, manner, told>>
  BY DEF SessionSend, MayCall
<1>2. <<c>> \in Seq(Sessions) /\ IsInjective(<<c>>) /\ <<c>> # <<>> /\ \A d \in ToSet(<<c>>) : d = c
  BY DEF IsInjective, ToSet
<1>3. \A d \in ToSet(<<c>>) : session[d].life # "fresh"
  BY <1>1, <1>2
<1> QED
  BY <1>1, <1>2, <1>3, CoreSubmit

LEMMA CoreChecksumDone == ASSUME CoreInv, NEW m \in Messages, ChecksumDone(m) PROVE CoreInv'
<1> DEFINE s == sender[m]
           cs == SetToSeq(s.records)
           r == [s EXCEPT !.phase = "dispatching", !.todo = cs]
<1>1. /\ s.phase = "summing" /\ sender' = [sender EXCEPT ![m].phase = "dispatching", ![m].todo = cs]
      /\ UNCHANGED <<api, proto, objects, dispatcher, answered, queue, frame, manner, told>>
  BY DEF ChecksumDone
<1>2. /\ SendInv /\ s \in SenderRecord /\ SenderOK(s, answered[m], Counted(m))
      /\ sender \in [Messages -> SenderRecord] /\ answered \in [Messages -> Nat]
  BY Sendings DEF CoreInv, SendInv, SendTypeOK
<1>3. sender' = [sender EXCEPT ![m] = r]
  BY <1>1, <1>2
<1>4. s.records \in SUBSET Sessions
  BY <1>2 DEF SenderRecord
<1>5. cs \in Seq(s.records) /\ IsInjective(cs) /\ ToSet(cs) = s.records
  BY <1>4, SessionsAssumption, FS_Subset, SetToSeqOrder
<1> HIDE DEF cs
<1>6. /\ r \in SenderRecord /\ r.phase = "dispatching" /\ r.records = s.records
      /\ r.todo = cs /\ r.completed = s.completed
  <2>1. cs \in Seq(Sessions)
    BY <1>4, <1>5
  <2> QED
    BY <1>2, <2>1 DEF SenderRecord
<1> HIDE DEF r
<1>7. /\ sender' \in [Messages -> SenderRecord] /\ sender'[m] = r
      /\ \A n \in Messages \ {m} : sender'[n] = sender[n]
  BY <1>2, <1>3, <1>6, SenderSet
<1>8. \A c \in Sessions : ~ Expects(s, c) /\ ~ Expects(r, c)
  BY <1>1, <1>5, <1>6 DEF Expects
<1>9. Counted(m) = {}
  <2>1. \A c \in Sessions : dispatcher[m][c].stage = "none"
    BY <1>2, <1>8, Sendings
  <2>2. \A c \in Sessions : frame.rest # <<"completed", m, c>>
    BY <1>2, <2>1, Sendings DEF DispatcherOK
  <2> QED
    BY <2>1, <2>2 DEF Counted
<1>10. SenderOK(r, answered'[m], Counted(m))
  BY <1>1, <1>2, <1>5, <1>6, <1>9 DEF SenderOK
<1> QED
  BY <1>1, <1>2, <1>6, <1>7, <1>8, <1>10, CoreSender

\* Outside a run the records of a message are dispatched one after the other.
LEMMA CoreNextRecord == ASSUME CoreInv, NEW m \in Messages, NextRecord(m) PROVE CoreInv'
<1> DEFINE s == sender[m]
           c == Head(s.todo)
           r == [s EXCEPT !.todo = Tail(s.todo)]
<1>1. /\ queue = <<>> /\ s.todo # <<>> /\ Dispatch(m, <<c>>) /\ sender' = [sender EXCEPT ![m].todo = Tail(@)]
      /\ UNCHANGED <<api, proto, listed, peer, session, endpoint, answered, frame, manner, told>>
  BY DEF NextRecord
<1>2. /\ SendInv /\ s \in SenderRecord /\ SenderOK(s, answered[m], Counted(m))
      /\ sender \in [Messages -> SenderRecord] /\ answered \in [Messages -> Nat]
  BY Sendings DEF CoreInv, SendInv, SendTypeOK
<1>3. sender' = [sender EXCEPT ![m] = r]
  BY <1>1, <1>2
<1>4. s.todo \in Seq(Sessions) /\ IsInjective(s.todo) /\ ToSet(s.todo) \subseteq s.records /\ s.phase = "dispatching"
  BY <1>1, <1>2 DEF SenderRecord, SenderOK
<1>5. /\ c \in Sessions /\ c \in ToSet(s.todo) /\ Tail(s.todo) \in Seq(Sessions)
      /\ IsInjective(Tail(s.todo)) /\ ToSet(Tail(s.todo)) = ToSet(s.todo) \ {c}
  BY <1>1, <1>4, TailOrder
<1>6. /\ r \in SenderRecord /\ r.phase = "dispatching" /\ r.records = s.records
      /\ r.todo = Tail(s.todo) /\ r.completed = s.completed
  BY <1>2, <1>4, <1>5 DEF SenderRecord
<1> HIDE DEF r
<1>7. /\ sender' \in [Messages -> SenderRecord] /\ sender'[m] = r
      /\ \A n \in Messages \ {m} : sender'[n] = sender[n]
  BY <1>2, <1>3, <1>6, SenderSet
<1> HIDE DEF c
<1>8. <<c>> \in Seq(Sessions) /\ IsInjective(<<c>>) /\ ToSet(<<c>>) = {c}
  BY <1>5 DEF IsInjective, ToSet
<1>9. \A d \in Sessions : Expects(r, d) <=> Expects(s, d) \/ d \in ToSet(<<c>>)
  BY <1>4, <1>5, <1>6, <1>8 DEF Expects
<1>10. SenderOK(r, answered[m], Counted(m))
  BY <1>2, <1>4, <1>5, <1>6 DEF SenderOK
<1>11. \A d \in ToSet(<<c>>) : dispatcher[m][d].stage = "none" /\ session[d].life # "fresh"
  <2>1. ~ Expects(s, c) /\ c \in s.records
    BY <1>4, <1>5 DEF Expects
  <2> QED
    BY <1>2, <1>5, <1>8, <2>1, Sendings
<1>12. \A d \in Sessions : <<"ready", d>> \notin ToSet(queue)
  BY <1>1, EmptyOrder
<1> QED
  BY <1>1, <1>6, <1>7, <1>8, <1>9, <1>10, <1>11, <1>12, CoreDispatch

-----------------------------------------------------------------------------
(***************************************************************************)
(* The tasks of sending: a bus is stopped or sends.                        *)
(***************************************************************************)
LEMMA DispatcherTasksOrder ==
    ASSUME NEW c \in Sessions, NEW ms \in Seq(Messages), IsInjective(ms),
           NEW tasks, tasks = [i \in DOMAIN ms |-> <<"dispatcher", ms[i], c>>]
    PROVE  /\ QueueOK(tasks) /\ ToSet(tasks) \subseteq DispatcherTasks
           /\ \A t : t \in ToSet(tasks) <=> \E m \in ToSet(ms) : t = <<"dispatcher", m, c>>
<1>1. DOMAIN tasks = DOMAIN ms /\ \A i \in DOMAIN ms : tasks[i] = <<"dispatcher", ms[i], c>> /\ ms[i] \in Messages
  OBVIOUS
<1>2. \A m \in Messages : <<"dispatcher", m, c>> \in Tasks /\ <<"dispatcher", m, c>> \in DispatcherTasks
  BY DEF Tasks, DispatcherTasks
<1>3. \A i \in DOMAIN ms : tasks[i] \in Tasks
  BY <1>1, <1>2
<1>4. \A i, j \in DOMAIN ms : tasks[i] = tasks[j] => ms[i] = ms[j]
  BY <1>1
<1>5. tasks = [i \in DOMAIN ms |-> tasks[i]]
  BY <1>1
<1>6. QueueOK(tasks)
  BY <1>1, <1>3, <1>4, <1>5, MappedOrder
<1>7. \A t : t \in ToSet(tasks) <=> \E m \in ToSet(ms) : t = <<"dispatcher", m, c>>
  BY <1>1 DEF ToSet
<1>8. \A m \in ToSet(ms) : m \in Messages
  BY DEF ToSet
<1> QED
  BY <1>2, <1>6, <1>7, <1>8

\* What the queue holds when a task has submitted those of dispatchers.
LEMMA QueueSends ==
    ASSUME LifeInv, NEW t, Running(t), NEW more, QueueOK(more), ToSet(more) \subseteq DispatcherTasks,
           queue' = SubmitAll(Tail(queue), more)
    PROVE  /\ QueueOK(queue') /\ ToSet(queue') = (ToSet(queue) \ {t}) \union ToSet(more)
           /\ \A x \in LifeTasks : x \in ToSet(queue') <=> x \in ToSet(queue) /\ x # t
           /\ \A x, y \in LifeTasks : Precedes(queue', x, y) => Precedes(queue, x, y)
           /\ \A d \in Sessions : <<"send", d>> \in ToSet(queue') <=> <<"send", d>> \in ToSet(queue) /\ <<"send", d>> # t
<1>1. /\ QueueOK(Tail(queue)) /\ ToSet(Tail(queue)) = ToSet(queue) \ {t}
      /\ \A x, y : Precedes(Tail(queue), x, y) <=> Precedes(queue, x, y) /\ x # t
  BY Runs
<1>2. /\ QueueOK(queue') /\ ToSet(queue') = ToSet(Tail(queue)) \union ToSet(more)
      /\ \A x, y : Precedes(queue', x, y) <=>
             \/ Precedes(Tail(queue), x, y) /\ x \notin ToSet(more) /\ y \notin ToSet(more)
             \/ Precedes(more, x, y)
             \/ x \in ToSet(Tail(queue)) /\ x \notin ToSet(more) /\ y \in ToSet(more)
  BY <1>1, SubmitAllOrder
<1>3. \A x, y : Precedes(more, x, y) => x \in ToSet(more)
  BY PrecedesMember
<1>4. \A x \in LifeTasks : x \notin ToSet(more)
  BY TaskKinds
<1>5. \A d \in Sessions : <<"send", d>> \notin ToSet(more)
  BY TaskKinds
<1>6. \A x, y \in LifeTasks : Precedes(queue', x, y) => Precedes(queue, x, y)
  BY <1>1, <1>2, <1>3, <1>4
<1>7. ToSet(queue') = (ToSet(queue) \ {t}) \union ToSet(more)
  BY <1>1, <1>2
<1> QED
  BY <1>2, <1>4, <1>5, <1>6, <1>7

\* A task of sending leaves the life of the sessions alone.
LEMMA LifeSendTask ==
    ASSUME LifeInv, NEW t \in SendTasks, Running(t),
           UNCHANGED <<api, proto, listed, peer, session, endpoint, manner, told>>,
           QueueOK(queue'), \A x \in LifeTasks : x \in ToSet(queue') <=> x \in ToSet(queue),
           \A x, y \in LifeTasks : Precedes(queue', x, y) => Precedes(queue, x, y),
           \A c \in Sessions : <<"send", c>> \in ToSet(queue') => session[c].life # "fresh",
           frame' \in [of : Callbacks, rest : Rests], frame'.of = "none" => frame' = NoFrame,
           \A c \in Sessions : SameRest(frame'.rest, frame.rest, c)
    PROVE  LifeInv'
<1>1. t \in ToSet(queue) /\ \A c \in Sessions : <<"ready", c>> # t
  <2>1. \A c \in Sessions : <<"ready", c>> \in LifeTasks
    BY LifeTaskNames
  <2> QED
    BY <2>1, Runs, TaskKinds
<1>2. \A c \in Sessions : <<"ready", c>> \notin ToSet(queue)
  BY <1>1 DEF LifeInv, Orders
<1> QED
  BY <1>2, LifeSending

LEMMA SendsLive == ASSUME LifeInv, NEW c \in Sessions, <<"send", c>> \in ToSet(queue) PROVE session[c].life # "fresh"
<1>1. SlotOK(session[c], peer[c], endpoint[c], told[c], ToSet(queue), frame.rest, c)
  BY LifeTypes
<1> QED
  BY <1>1 DEF SlotOK, PeerTasks

LEMMA HeldOrder ==
    ASSUME SendInv, NEW c \in Sessions
    PROVE  /\ Held(bus[c]) \in Seq(Messages) /\ IsInjective(Held(bus[c]))
           /\ \A m \in Messages : m \in ToSet(Held(bus[c])) <=> dispatcher[m][c].stage = "pending" \/ bus[c].current = m
           /\ \A m \in ToSet(Held(bus[c])) : m \in Messages
<1> DEFINE b == bus[c]
<1>1. b \in BusRecord /\ BusHolds(c)
  BY Sendings
<1>2. /\ b.pending \in Seq(Messages) /\ IsInjective(b.pending) /\ b.current \in Messages \union {None}
      /\ \A m \in Messages : m \in ToSet(b.pending) <=> dispatcher[m][c].stage = "pending"
      /\ \A m \in Messages : b.current = m => dispatcher[m][c].stage # "pending"
      /\ None \notin Messages
  BY <1>1, SessionsAssumption DEF BusRecord, BusHolds
<1>3. CASE b.current = None
  <2>1. Held(b) = b.pending
    BY <1>2, <1>3 DEF Held
  <2>2. \A m \in ToSet(b.pending) : m \in Messages
    BY <1>2 DEF ToSet
  <2> QED
    BY <1>2, <1>3, <2>1, <2>2
<1>4. CASE b.current # None
  <2> DEFINE m == b.current
  <2>1. m \in Messages /\ m \notin ToSet(b.pending)
    BY <1>2, <1>4
  <2>2. Held(b) = Append(b.pending, m)
    BY <1>2, <1>4, <2>1 DEF Held
  <2>3. IsInjective(Append(b.pending, m)) /\ ToSet(Append(b.pending, m)) = ToSet(b.pending) \union {m}
    BY <1>2, <2>1, OneMore
  <2>4. Append(b.pending, m) \in Seq(Messages) /\ \A n \in ToSet(b.pending) : n \in Messages
    BY <1>2, <2>1 DEF ToSet
  <2> QED
    BY <1>2, <2>1, <2>2, <2>3, <2>4
<1> QED
  BY <1>3, <1>4

LEMMA CanceledOrder ==
    ASSUME SendInv, NEW c \in Sessions
    PROVE  LET more == CanceledTasks(Held(bus[c]), c)
           IN  /\ QueueOK(more) /\ ToSet(more) \subseteq DispatcherTasks
               /\ \A t : t \in ToSet(more) <=>
                     \E m \in ToSet(Held(bus[c])) : dispatcher[m][c].stage # "complete" /\ t = <<"dispatcher", m, c>>
<1> DEFINE held == Held(bus[c])
           T == {m \in Messages : dispatcher[m][c].stage # "complete"}
           moved == Among(held, T)
           more == CanceledTasks(held, c)
<1>1. held \in Seq(Messages) /\ IsInjective(held) /\ \A m \in ToSet(held) : m \in Messages
  BY HeldOrder
<1>2. more = [i \in DOMAIN moved |-> <<"dispatcher", moved[i], c>>]
  BY DEF CanceledTasks
<1> HIDE DEF held, more
<1>3. moved \in Seq(Messages) /\ IsInjective(moved) /\ ToSet(moved) = ToSet(held) \intersect T
  BY <1>1, AmongOrder, AmongInjective
<1> HIDE DEF moved
<1>a. moved \in Seq(Messages) /\ IsInjective(moved)
  BY <1>3
<1>b. QueueOK(more) /\ ToSet(more) \subseteq DispatcherTasks
  BY <1>2, <1>a, DispatcherTasksOrder
<1>c. \A t : t \in ToSet(more) <=> \E m \in ToSet(moved) : t = <<"dispatcher", m, c>>
  BY <1>2, <1>a, DispatcherTasksOrder
<1>4. /\ QueueOK(more) /\ ToSet(more) \subseteq DispatcherTasks
      /\ \A t : t \in ToSet(more) <=> \E m \in ToSet(moved) : t = <<"dispatcher", m, c>>
  BY <1>b, <1>c
<1>5. \A t : t \in ToSet(more) <=>
         \E m \in ToSet(held) : dispatcher[m][c].stage # "complete" /\ t = <<"dispatcher", m, c>>
  BY <1>1, <1>3, <1>4
<1> QED
  BY <1>4, <1>5 DEF more, held

\* A bus that stops hands its dispatchers back, canceled.
LEMMA BusCanceled ==
    ASSUME CoreInv, NEW c \in Sessions, NEW t \in {<<"send", c>>, <<"stop_endpoint", c>>}, Running(t),
           t = <<"send", c>> \/ ~ bus[c].processing,
           bus' = [bus EXCEPT ![c] = NewBus], CancelAll(Held(bus[c]), c),
           queue' = SubmitAll(Tail(queue), CanceledTasks(Held(bus[c]), c)),
           UNCHANGED <<sender, answered, session, frame>>
    PROVE  SendInv'
<1> DEFINE held == Held(bus[c])
           more == CanceledTasks(Held(bus[c]), c)
           w == ToSet(queue)
<1>1. LifeInv /\ SendInv
  BY DEF CoreInv
<1>2. /\ held \in Seq(Messages) /\ IsInjective(held)
      /\ \A m \in Messages : m \in ToSet(held) <=> dispatcher[m][c].stage = "pending" \/ bus[c].current = m
      /\ \A m \in ToSet(held) : m \in Messages
      /\ \A m \in Messages : Contains(held, m) <=> m \in ToSet(held)
  <2>1. held \in Seq(Messages)
    BY <1>1, HeldOrder
  <2>2. \A m \in Messages : Contains(held, m) <=> m \in ToSet(held)
    BY <2>1 DEF Contains, ToSet
  <2> QED
    BY <1>1, <2>2, HeldOrder
<1>3. /\ QueueOK(more) /\ ToSet(more) \subseteq DispatcherTasks
      /\ \A x : x \in ToSet(more) <=>
            \E m \in ToSet(held) : dispatcher[m][c].stage # "complete" /\ x = <<"dispatcher", m, c>>
  BY <1>1, CanceledOrder
<1>4. CancelAll(held, c) /\ queue' = SubmitAll(Tail(queue), more)
  OBVIOUS
<1> HIDE DEF held, more
<1>5. /\ ToSet(queue') = (w \ {t}) \union ToSet(more) /\ t \in w /\ frame.rest = <<>>
      /\ \A d \in Sessions : <<"send", d>> \in ToSet(queue') <=> <<"send", d>> \in w /\ <<"send", d>> # t
  BY <1>1, <1>3, <1>4, QueueSends, Runs
<1>6. \A d \in Sessions : <<"stop_endpoint", d>> \in ToSet(queue') <=> <<"stop_endpoint", d>> \in w /\ <<"stop_endpoint", d>> # t
  <2>1. \A d \in Sessions : <<"stop_endpoint", d>> \notin ToSet(more)
    BY <1>3
  <2> QED
    BY <1>5, <2>1
<1>7. /\ bus \in [Sessions -> BusRecord] /\ dispatcher \in [Messages -> [Sessions -> DispatcherRecord]]
  BY <1>1 DEF SendInv, SendTypeOK
<1>8. [stage |-> "complete", canceled |-> TRUE] \in DispatcherRecord
  BY DEF DispatcherRecord
<1>9. /\ dispatcher' \in [Messages -> [Sessions -> DispatcherRecord]]
      /\ \A m \in Messages, d \in Sessions :
            dispatcher'[m][d] = IF m \in ToSet(held) /\ d = c THEN [stage |-> "complete", canceled |-> TRUE]
                                ELSE dispatcher[m][d]
  <2> DEFINE r == [stage |-> "complete", canceled |-> TRUE]
  <2>1. dispatcher' = [m \in Messages |-> IF Contains(held, m) THEN [dispatcher[m] EXCEPT ![c] = r] ELSE dispatcher[m]]
    BY <1>4 DEF CancelAll
  <2>2. r \in DispatcherRecord
    BY <1>8
  <2> HIDE DEF r
  <2>3. ASSUME NEW m \in Messages
        PROVE  /\ [dispatcher[m] EXCEPT ![c] = r] \in [Sessions -> DispatcherRecord]
               /\ \A d \in Sessions : [dispatcher[m] EXCEPT ![c] = r][d] = IF d = c THEN r ELSE dispatcher[m][d]
    BY <1>7, <2>2
  <2>4. \A m \in Messages : dispatcher'[m] = IF m \in ToSet(held) THEN [dispatcher[m] EXCEPT ![c] = r] ELSE dispatcher[m]
    BY <1>2, <2>1
  <2>5. dispatcher' \in [Messages -> [Sessions -> DispatcherRecord]]
    BY <1>7, <2>1, <2>3
  <2>6. \A m \in Messages, d \in Sessions :
            dispatcher'[m][d] = IF m \in ToSet(held) /\ d = c THEN r ELSE dispatcher[m][d]
    BY <2>3, <2>4
  <2> QED
    BY <2>5, <2>6 DEF r
<1>10. NewBus \in BusRecord /\ NewBus.pending = <<>> /\ NewBus.current = None /\ ~ NewBus.processing /\ ~ NewBus.stop
  BY DEF NewBus, BusRecord
<1>11. bus' \in [Sessions -> BusRecord] /\ bus'[c] = NewBus /\ \A d \in Sessions \ {c} : bus'[d] = bus[d]
  BY <1>7, <1>10
<1>12. ASSUME NEW m \in Messages, NEW d \in Sessions
       PROVE  /\ dispatcher'[m][d].stage = "none" <=> dispatcher[m][d].stage = "none"
              /\ dispatcher'[m][d].stage = "done" <=> dispatcher[m][d].stage = "done"
              /\ DispatcherOK(dispatcher'[m][d], ToSet(queue'), frame'.rest, m, d)
  <2>1. DispatcherOK(dispatcher[m][d], w, <<>>, m, d) /\ BusHolds(d)
    BY <1>1, <1>5, Sendings
  <2>2. CASE m \in ToSet(held) /\ d = c
    <3>1. dispatcher[m][c].stage \in {"pending", "dispatch", "acking", "complete"}
      BY <1>2, <2>1, <2>2 DEF BusHolds
    <3>2. <<"dispatcher", m, c>> \in ToSet(queue')
      <4>1. CASE dispatcher[m][c].stage = "complete"
        BY <1>5, <2>1, <2>2, <4>1 DEF DispatcherOK
      <4>2. CASE dispatcher[m][c].stage # "complete"
        BY <1>3, <1>5, <2>2, <4>2
      <4> QED
        BY <4>1, <4>2
    <3>3. dispatcher'[m][d] = [stage |-> "complete", canceled |-> TRUE]
      BY <1>9, <2>2
    <3>4. dispatcher'[m][d].stage = "complete" /\ frame'.rest = <<>>
      BY <1>5, <3>3
    <3> QED
      BY <2>2, <3>1, <3>2, <3>4 DEF DispatcherOK
  <2>3. CASE ~ (m \in ToSet(held) /\ d = c)
    <3>1. dispatcher'[m][d] = dispatcher[m][d] /\ frame'.rest = <<>>
      BY <1>5, <1>9, <2>3
    <3>2. <<"dispatcher", m, d>> \in ToSet(queue') <=> <<"dispatcher", m, d>> \in w
      BY <1>3, <1>5, <2>3
    <3> QED
      BY <2>1, <3>1, <3>2 DEF DispatcherOK
  <2> QED
    BY <2>2, <2>3
<1>13. ASSUME NEW d \in Sessions PROVE BusHolds(d)'
  <2>1. BusHolds(c)
    BY <1>1, Sendings
  <2>2. CASE d = c
    <3>1. bus'[c].pending = <<>> /\ bus'[c].current = None /\ ~ bus'[c].processing /\ ~ bus'[c].stop
      BY <1>10, <1>11
    <3>2. <<"send", c>> \notin ToSet(queue')
      BY <1>5, <2>1 DEF BusHolds
    <3>3. ASSUME NEW m \in Messages
          PROVE  /\ dispatcher'[m][c].stage # "pending" /\ dispatcher'[m][c].stage # "acking"
                 /\ ~ (dispatcher'[m][c].stage = "dispatch" /\ m \in Reliable)
      <4>1. CASE m \in ToSet(held)
        <5>1. dispatcher'[m][c] = [stage |-> "complete", canceled |-> TRUE]
          BY <1>9, <4>1
        <5> QED
          BY <5>1
      <4>2. CASE m \notin ToSet(held)
        <5>1. dispatcher'[m][c] = dispatcher[m][c]
          BY <1>9, <4>2
        <5>2. dispatcher[m][c].stage # "pending" /\ bus[c].current # m
          BY <1>2, <4>2
        <5> QED
          BY <2>1, <5>1, <5>2 DEF BusHolds
      <4> QED
        BY <4>1, <4>2
    <3>4. None \notin Messages /\ IsInjective(<<>>) /\ ToSet(<<>>) = {}
      BY SessionsAssumption, EmptyOrder
    <3> QED
      BY <2>2, <3>1, <3>2, <3>3, <3>4 DEF BusHolds
  <2>3. CASE d # c
    <3>1. bus'[d] = bus[d] /\ \A m \in Messages : dispatcher'[m][d] = dispatcher[m][d]
      BY <1>9, <1>11, <2>3
    <3>2. /\ <<"send", d>> \in ToSet(queue') <=> <<"send", d>> \in w
          /\ <<"stop_endpoint", d>> \in ToSet(queue') <=> <<"stop_endpoint", d>> \in w
      BY <1>5, <1>6, <2>3
    <3>3. Reachable(session[d], w, d) => Reachable(session'[d], ToSet(queue'), d)
      BY <3>2 DEF Reachable
    <3> QED
      BY <1>1, <3>1, <3>2, <3>3, OtherBus
  <2> QED
    BY <2>2, <2>3
<1>14. SendTypeOK'
  BY <1>1, <1>9, <1>11 DEF SendInv, SendTypeOK
<1>15. /\ \A m \in Messages, d \in Sessions :
             /\ dispatcher'[m][d].stage = "none" <=> ~ Expects(sender'[m], d)
             /\ d \in sender'[m].records => session'[d].life # "fresh"
       /\ \A m \in Messages : SenderOK(sender'[m], answered'[m], Counted(m)')
  BY <1>1, <1>12, SendersSame
<1> QED
  BY <1>12, <1>13, <1>14, <1>15, SendParts

LEMMA CoreStopEndpoint == ASSUME CoreInv, NEW c \in Sessions, StopEndpoint(c) PROVE CoreInv'
<1> DEFINE t == <<"stop_endpoint", c>>
<1>1. LifeInv /\ SendInv
  BY DEF CoreInv
<1>2. LifeInv'
  BY <1>1, CanceledOrder, LifeStopEndpoint
<1>3. Running(t) /\ UNCHANGED <<sender, answered, session, frame>>
  BY DEF StopEndpoint
<1>4. CASE ~ bus[c].processing
  <2>1. /\ bus' = [bus EXCEPT ![c] = NewBus] /\ CancelAll(Held(bus[c]), c)
        /\ queue' = SubmitAll(Tail(queue), CanceledTasks(Held(bus[c]), c))
    BY <1>4 DEF StopEndpoint
  <2> QED
    BY <1>2, <1>3, <1>4, <2>1, BusCanceled DEF CoreInv
<1>5. CASE bus[c].processing
  <2>1. bus' = [bus EXCEPT ![c].stop = TRUE] /\ queue' = Tail(queue) /\ UNCHANGED dispatcher
    BY <1>5 DEF StopEndpoint
  <2>2. ToSet(queue') = ToSet(queue) \ {t}
    BY <1>1, <1>3, <2>1, Runs
  <2>3. /\ bus' = [d \in Sessions |-> IF d = c THEN [bus[c] EXCEPT !.stop = TRUE] ELSE bus[d]]
        /\ bus[c] \in BusRecord
    BY <1>1, <2>1 DEF SendInv, SendTypeOK
  <2>4. /\ [bus[c] EXCEPT !.stop = TRUE] \in BusRecord
        /\ [bus[c] EXCEPT !.stop = TRUE].pending = bus[c].pending
        /\ [bus[c] EXCEPT !.stop = TRUE].current = bus[c].current
        /\ [bus[c] EXCEPT !.stop = TRUE].processing = bus[c].processing
        /\ [bus[c] EXCEPT !.stop = TRUE].stop
    BY <2>3 DEF BusRecord
  <2>5. /\ bus' \in [Sessions -> BusRecord] /\ \A d \in Sessions \ {c} : bus'[d] = bus[d]
        /\ bus'[c].pending = bus[c].pending /\ bus'[c].current = bus[c].current
        /\ bus'[c].processing /\ bus'[c].stop
    BY <1>1, <1>5, <2>3, <2>4, Sendings
  <2>6. ASSUME NEW d \in Sessions PROVE BusHolds(d)'
    <3>1. BusHolds(d)
      BY <1>1, Sendings
    <3>2. <<"send", d>> \in ToSet(queue') <=> <<"send", d>> \in ToSet(queue)
      BY <2>2
    <3>3. CASE d = c
      BY <2>1, <2>5, <3>1, <3>2, <3>3 DEF BusHolds
    <3>4. CASE d # c
      <4>1. Reachable(session[d], ToSet(queue), d) => Reachable(session'[d], ToSet(queue'), d)
        BY <1>3, <2>2, <3>4 DEF Reachable
      <4> QED
        BY <1>1, <2>1, <2>5, <3>2, <3>4, <4>1, OtherBus
    <3> QED
      BY <3>3, <3>4
  <2>7. ASSUME NEW m \in Messages, NEW d \in Sessions
        PROVE  DispatcherOK(dispatcher'[m][d], ToSet(queue'), frame'.rest, m, d)
    <3>1. DispatcherOK(dispatcher[m][d], ToSet(queue), frame.rest, m, d)
      BY <1>1, Sendings
    <3>2. <<"dispatcher", m, d>> \in ToSet(queue') <=> <<"dispatcher", m, d>> \in ToSet(queue)
      BY <2>2
    <3> QED
      BY <1>3, <2>1, <3>1, <3>2 DEF DispatcherOK
  <2>8. SendTypeOK'
    BY <1>1, <1>3, <2>1, <2>5 DEF SendInv, SendTypeOK
  <2>9. /\ \A m \in Messages, d \in Sessions :
              /\ dispatcher'[m][d].stage = "none" <=> ~ Expects(sender'[m], d)
              /\ d \in sender'[m].records => session'[d].life # "fresh"
        /\ \A m \in Messages : SenderOK(sender'[m], answered'[m], Counted(m)')
    BY <1>1, <1>3, <2>1, SendersSame
  <2>10. SendInv'
    BY <2>6, <2>7, <2>8, <2>9, SendParts
  <2> QED
    BY <1>2, <2>10 DEF CoreInv
<1> QED
  BY <1>4, <1>5

\* What a bus takes of its pending dispatchers: all up to the first reliable one.
LEMMA TakenUpTo ==
    ASSUME NEW b \in BusRecord, ~ b.stop
    PROVE  \E k \in 0 .. Len(b.pending) :
              /\ Taken(b) = SubSeq(b.pending, 1, k)
              /\ k > 0 => b.current = None
              /\ b.current = None /\ k < Len(b.pending) => k > 0 /\ b.pending[k] \in Reliable
              /\ \A i \in 1 .. k - 1 : b.pending[i] \notin Reliable
<1> DEFINE p == b.pending
           n == Len(p)
           block == {i \in DOMAIN p : p[i] \in Reliable}
<1>1. p \in Seq(Messages) /\ n \in Nat /\ DOMAIN p = 1 .. n
  BY DEF BusRecord
<1>2. CASE b.current # None
  <2>1. Taken(b) = <<>> /\ SubSeq(p, 1, 0) = <<>>
    BY <1>1, <1>2 DEF Taken
  <2> QED
    BY <1>1, <1>2, <2>1
<1>3. CASE b.current = None /\ block = {}
  <2>1. Taken(b) = SubSeq(p, 1, n)
    BY <1>3 DEF Taken
  <2>2. \A i \in 1 .. n - 1 : p[i] \notin Reliable
    BY <1>1, <1>3
  <2> QED
    BY <1>1, <1>3, <2>1, <2>2
<1>4. CASE b.current = None /\ block # {}
  <2>1. Taken(b) = SubSeq(p, 1, Min(block))
    BY <1>4 DEF Taken
  <2> DEFINE k == Min(block)
  <2>2. block \subseteq Nat
    BY <1>1
  <2>3. k \in block /\ \A i \in block : k <= i
    <3> HIDE DEF block
    <3> QED
      BY <1>4, <2>2, Least DEF Min
  <2>6. Taken(b) = SubSeq(p, 1, k)
    BY <2>1
  <2> HIDE DEF k, block
  <2>4. k \in 1 .. n /\ p[k] \in Reliable
    BY <1>1, <2>3 DEF block
  <2>5. \A i \in 1 .. k - 1 : p[i] \notin Reliable
    BY <1>1, <2>3, <2>4 DEF block
  <2> QED
    BY <1>1, <1>4, <2>4, <2>5, <2>6
<1> QED
  BY <1>2, <1>3, <1>4

LEMMA Parted ==
    ASSUME NEW S, NEW p \in Seq(S), IsInjective(p), NEW k \in 0 .. Len(p)
    PROVE  LET a == SubSeq(p, 1, k)
               z == SubSeq(p, k + 1, Len(p))
           IN  /\ a \in Seq(S) /\ Len(a) = k /\ DOMAIN a = 1 .. k /\ \A i \in 1 .. k : a[i] = p[i]
               /\ z \in Seq(S) /\ Len(z) = Len(p) - k
               /\ IsInjective(a) /\ IsInjective(z)
               /\ ToSet(p) = ToSet(a) \union ToSet(z) /\ ToSet(a) \intersect ToSet(z) = {}
<1> DEFINE n == Len(p)
           a == SubSeq(p, 1, k)
           z == SubSeq(p, k + 1, n)
<1>1. n \in Nat /\ DOMAIN p = 1 .. n /\ k \in Nat /\ k <= n
  OBVIOUS
<1> HIDE DEF n
<1>2. a \in Seq(S) /\ Len(a) = k /\ DOMAIN a = 1 .. k /\ \A i \in 1 .. k : a[i] = p[i]
  BY <1>1
<1>3. z \in Seq(S) /\ Len(z) = n - k /\ DOMAIN z = 1 .. n - k /\ \A i \in 1 .. n - k : z[i] = p[k + i]
  <2>1. k + 1 \in 1 .. n + 1 /\ n \in k .. n
    BY <1>1
  <2>2. z \in Seq(S) /\ Len(z) = (IF k + 1 <= n THEN n - (k + 1) + 1 ELSE 0)
        /\ \A i \in 1 .. n - (k + 1) + 1 : z[i] = p[(k + 1) + i - 1]
    BY <1>1, <2>1, SubSeqProperties
  <2> HIDE DEF z
  <2>3. Len(z) = n - k
    <3>1. CASE k + 1 <= n
      BY <1>1, <2>2, <3>1
    <3>2. CASE ~ (k + 1 <= n)
      BY <1>1, <2>2, <3>2
    <3> QED
      BY <3>1, <3>2
  <2>4. ASSUME NEW i \in 1 .. n - k PROVE z[i] = p[k + i]
    <3>1. i \in 1 .. n - (k + 1) + 1 /\ (k + 1) + i - 1 = k + i
      BY <1>1
    <3> QED
      BY <2>2, <3>1
  <2> QED
    BY <2>2, <2>3, <2>4
<1> HIDE DEF a, z
<1>a. \A i \in 1 .. n - k : k + i \in 1 .. n
  BY <1>1
<1>b. \A i, j \in 1 .. n : p[i] = p[j] => i = j
  BY <1>1 DEF IsInjective
<1>c. IsInjective(a)
  BY <1>1, <1>2, <1>b DEF IsInjective
<1>d. IsInjective(z)
  <2>1. ASSUME NEW i \in 1 .. n - k, NEW j \in 1 .. n - k, z[i] = z[j] PROVE i = j
    <3>1. k + i = k + j
      BY <1>3, <1>a, <1>b, <2>1
    <3> QED
      BY <1>1, <3>1
  <2> QED
    BY <1>3, <2>1 DEF IsInjective
<1>4. IsInjective(a) /\ IsInjective(z)
  BY <1>c, <1>d
<1>5. ASSUME NEW x \in ToSet(p) PROVE x \in ToSet(a) \/ x \in ToSet(z)
  <2>1. PICK i \in 1 .. n : p[i] = x
    BY <1>1 DEF ToSet
  <2>2. CASE i <= k
    BY <1>1, <1>2, <2>1, <2>2 DEF ToSet
  <2>3. CASE i > k
    <3>1. i - k \in 1 .. n - k /\ k + (i - k) = i
      BY <1>1, <2>1, <2>3
    <3>2. z[i - k] = x
      BY <1>3, <2>1, <3>1
    <3> QED
      BY <1>3, <3>1, <3>2 DEF ToSet
  <2> QED
    BY <1>1, <2>2, <2>3
<1>6. ASSUME NEW x \in ToSet(a) PROVE x \in ToSet(p)
  BY <1>1, <1>2 DEF ToSet
<1>7. ASSUME NEW x \in ToSet(z) PROVE x \in ToSet(p)
  <2>1. PICK i \in 1 .. n - k : p[k + i] = x
    BY <1>3 DEF ToSet
  <2> QED
    BY <1>1, <1>a, <2>1 DEF ToSet
<1>8. ASSUME NEW x \in ToSet(a), x \in ToSet(z) PROVE FALSE
  <2>1. PICK i \in 1 .. k : p[i] = x
    BY <1>2 DEF ToSet
  <2>2. PICK j \in 1 .. n - k : p[k + j] = x
    BY <1>3, <1>8 DEF ToSet
  <2> QED
    BY <1>1, <2>1, <2>2 DEF IsInjective
<1>9. ToSet(p) = ToSet(a) \union ToSet(z)
  BY <1>5, <1>6, <1>7
<1>10. ToSet(a) \intersect ToSet(z) = {}
  BY <1>8
<1> QED
  BY <1>2, <1>3, <1>4, <1>9, <1>10 DEF a, z, n

\* A bus that is not stopped hands what it takes to its dispatchers.
LEMMA BusTakes ==
    ASSUME CoreInv, NEW c \in Sessions, BusSend(c), ~ bus[c].stop
    PROVE  CoreInv'
<1> DEFINE b == bus[c]
           t == <<"send", c>>
           p == b.pending
           taken == Taken(b)
           last == IF taken = <<>> THEN None ELSE Last(taken)
           more == [i \in DOMAIN taken |-> <<"dispatcher", taken[i], c>>]
           w == ToSet(queue)
<1>1. LifeInv /\ SendInv /\ Running(t)
  BY DEF CoreInv, BusSend
<1>2. /\ bus' = [bus EXCEPT ![c] = [b EXCEPT !.pending = SubSeq(p, Len(taken) + 1, Len(p)),
                                            !.current = IF last \in Reliable THEN last ELSE b.current,
                                            !.processing = FALSE]]
      /\ dispatcher' = [m \in Messages |->
             IF Contains(taken, m) THEN [dispatcher[m] EXCEPT ![c].stage = "dispatch"] ELSE dispatcher[m]]
      /\ queue' = SubmitAll(Tail(queue), more)
      /\ UNCHANGED <<api, proto, listed, peer, session, endpoint, sender, answered, frame, manner, told>>
  BY DEF BusSend
<1>3. /\ b \in BusRecord /\ BusHolds(c)
      /\ bus \in [Sessions -> BusRecord] /\ dispatcher \in [Messages -> [Sessions -> DispatcherRecord]]
  BY <1>1, Sendings DEF SendInv, SendTypeOK
<1>4. /\ p \in Seq(Messages) /\ IsInjective(p) /\ b.current \in Messages \union {None}
      /\ None \notin Messages /\ None \notin Reliable
  BY <1>3, SessionsAssumption DEF BusRecord, BusHolds
<1>5. PICK k \in 0 .. Len(p) :
         /\ taken = SubSeq(p, 1, k)
         /\ k > 0 => b.current = None
         /\ b.current = None /\ k < Len(p) => k > 0 /\ p[k] \in Reliable
         /\ \A i \in 1 .. k - 1 : p[i] \notin Reliable
  BY <1>3, TakenUpTo
<1> DEFINE rest == SubSeq(p, k + 1, Len(p))
<1> HIDE DEF taken
<1>6. /\ taken \in Seq(Messages) /\ Len(taken) = k /\ DOMAIN taken = 1 .. k /\ \A i \in 1 .. k : taken[i] = p[i]
      /\ rest \in Seq(Messages) /\ Len(rest) = Len(p) - k
      /\ IsInjective(taken) /\ IsInjective(rest)
      /\ ToSet(p) = ToSet(taken) \union ToSet(rest) /\ ToSet(taken) \intersect ToSet(rest) = {}
  BY <1>4, <1>5, Parted
<1>7. k \in Nat /\ (taken = <<>> <=> k = 0) /\ last = IF k = 0 THEN None ELSE p[k]
  <2>1. k \in Nat /\ (taken = <<>> <=> k = 0)
    BY <1>6
  <2> QED
    BY <1>6, <2>1 DEF Last
<1> HIDE DEF last
<1> DEFINE current == IF last \in Reliable THEN last ELSE b.current
           r == [b EXCEPT !.pending = rest, !.current = current, !.processing = FALSE]
<1>8. \A m : Contains(taken, m) <=> m \in ToSet(taken)
  BY <1>6 DEF Contains, ToSet
<1>9. \A m \in ToSet(taken) : m \in Messages
  BY <1>6 DEF ToSet
<1>10. current \in Messages \union {None}
  BY <1>4, SessionsAssumption
<1>11. bus' = [bus EXCEPT ![c] = r]
  BY <1>2, <1>6
<1> HIDE DEF rest, current
<1>12. r \in BusRecord /\ r.pending = rest /\ r.current = current /\ ~ r.processing /\ r.stop = b.stop
  BY <1>3, <1>6, <1>10 DEF BusRecord
<1> HIDE DEF r
<1>13. bus' \in [Sessions -> BusRecord] /\ bus'[c] = r /\ \A d \in Sessions \ {c} : bus'[d] = bus[d]
  BY <1>3, <1>11, <1>12
<1>14. /\ dispatcher' \in [Messages -> [Sessions -> DispatcherRecord]]
       /\ \A m \in Messages, d \in Sessions :
             IF m \in ToSet(taken) /\ d = c
             THEN dispatcher'[m][d].stage = "dispatch" /\ dispatcher'[m][d].canceled = dispatcher[m][d].canceled
             ELSE dispatcher'[m][d] = dispatcher[m][d]
  <2> DEFINE e(m) == [dispatcher[m][c] EXCEPT !.stage = "dispatch"]
  <2>1. ASSUME NEW m \in Messages
        PROVE  e(m) \in DispatcherRecord /\ e(m).stage = "dispatch" /\ e(m).canceled = dispatcher[m][c].canceled
    <3>1. dispatcher[m][c] \in DispatcherRecord
      BY <1>3
    <3> QED
      BY <3>1 DEF DispatcherRecord
  <2>2. dispatcher' = [m \in Messages |->
             IF m \in ToSet(taken) THEN [dispatcher[m] EXCEPT ![c] = e(m)] ELSE dispatcher[m]]
    BY <1>2, <1>8
  <2> HIDE DEF e
  <2>3. ASSUME NEW m \in Messages
        PROVE  /\ [dispatcher[m] EXCEPT ![c] = e(m)] \in [Sessions -> DispatcherRecord]
               /\ \A d \in Sessions : [dispatcher[m] EXCEPT ![c] = e(m)][d] = IF d = c THEN e(m) ELSE dispatcher[m][d]
    BY <1>3, <2>1
  <2>4. \A m \in Messages : dispatcher'[m] = IF m \in ToSet(taken) THEN [dispatcher[m] EXCEPT ![c] = e(m)] ELSE dispatcher[m]
    BY <2>2
  <2>5. dispatcher' \in [Messages -> [Sessions -> DispatcherRecord]]
    BY <1>3, <2>2, <2>3
  <2>6. \A m \in Messages, d \in Sessions :
            dispatcher'[m][d] = IF m \in ToSet(taken) /\ d = c THEN e(m) ELSE dispatcher[m][d]
    BY <2>3, <2>4
  <2> QED
    BY <2>1, <2>5, <2>6
<1>15. /\ QueueOK(more) /\ ToSet(more) \subseteq DispatcherTasks
       /\ \A x : x \in ToSet(more) <=> \E m \in ToSet(taken) : x = <<"dispatcher", m, c>>
  <2>1. QueueOK(more) /\ ToSet(more) \subseteq DispatcherTasks
    BY <1>6, DispatcherTasksOrder
  <2>2. \A x : x \in ToSet(more) <=> \E m \in ToSet(taken) : x = <<"dispatcher", m, c>>
    BY ZenonT(40), <1>6, DispatcherTasksOrder
  <2> QED
    BY <2>1, <2>2
<1>16. queue' = SubmitAll(Tail(queue), more)
  BY <1>2
<1> HIDE DEF more
<1>17. /\ QueueOK(queue') /\ ToSet(queue') = (w \ {t}) \union ToSet(more) /\ t \in w /\ frame.rest = <<>>
       /\ \A x \in LifeTasks : x \in ToSet(queue') <=> x \in w /\ x # t
       /\ \A x, y \in LifeTasks : Precedes(queue', x, y) => Precedes(queue, x, y)
       /\ \A d \in Sessions : <<"send", d>> \in ToSet(queue') <=> <<"send", d>> \in w /\ <<"send", d>> # t
  BY <1>1, <1>15, <1>16, QueueSends, Runs
<1>18. LifeInv'
  <2>1. t \in SendTasks /\ t \notin LifeTasks
    BY TaskKinds
  <2>2. frame' \in [of : Callbacks, rest : Rests] /\ (frame'.of = "none" => frame' = NoFrame)
    BY <1>1, <1>2 DEF LifeInv, LifeTypeOK
  <2>3. \A d \in Sessions : SameRest(frame'.rest, frame.rest, d)
    BY <1>2 DEF SameRest
  <2>4. \A d \in Sessions : <<"send", d>> \in ToSet(queue') => session[d].life # "fresh"
    BY <1>1, <1>17, SendsLive
  <2>5. \A x \in LifeTasks : x \in ToSet(queue') <=> x \in w
    BY <1>17, <2>1
  <2> QED
    BY <1>1, <1>2, <1>17, <2>1, <2>2, <2>3, <2>4, <2>5, LifeSendTask
<1>19. ASSUME NEW m \in Messages, NEW d \in Sessions
       PROVE  /\ dispatcher'[m][d].stage = "none" <=> dispatcher[m][d].stage = "none"
              /\ dispatcher'[m][d].stage = "done" <=> dispatcher[m][d].stage = "done"
              /\ DispatcherOK(dispatcher'[m][d], ToSet(queue'), frame'.rest, m, d)
  <2>1. DispatcherOK(dispatcher[m][d], w, <<>>, m, d) /\ frame'.rest = <<>>
    BY <1>1, <1>2, <1>17, Sendings
  <2>2. CASE m \in ToSet(taken) /\ d = c
    <3>1. dispatcher[m][c].stage = "pending"
      BY <1>3, <1>6, <2>2 DEF BusHolds
    <3>2. <<"dispatcher", m, c>> \in ToSet(queue')
      BY <1>15, <1>17, <2>2
    <3>3. dispatcher'[m][c].stage = "dispatch" /\ dispatcher'[m][c].canceled = dispatcher[m][c].canceled
      BY <1>14, <2>2
    <3> QED
      BY <2>1, <2>2, <3>1, <3>2, <3>3 DEF DispatcherOK
  <2>3. CASE ~ (m \in ToSet(taken) /\ d = c)
    <3>1. dispatcher'[m][d] = dispatcher[m][d]
      BY <1>14, <2>3
    <3>2. <<"dispatcher", m, d>> \in ToSet(queue') <=> <<"dispatcher", m, d>> \in w
      BY <1>15, <1>17, <2>3
    <3> QED
      BY <2>1, <3>1, <3>2 DEF DispatcherOK
  <2> QED
    BY <2>2, <2>3
<1>20. ASSUME NEW m \in Messages
       PROVE  /\ m \in ToSet(rest) <=> dispatcher'[m][c].stage = "pending"
              /\ current = m =>
                    dispatcher'[m][c].stage \in {"dispatch", "acking", "complete"} /\ ~ dispatcher'[m][c].canceled
              /\ dispatcher'[m][c].stage = "dispatch" /\ m \in Reliable => current = m
              /\ dispatcher'[m][c].stage = "acking" => current = m /\ Reachable(session[c], w, c)
  <2>1. /\ m \in ToSet(p) <=> dispatcher[m][c].stage = "pending"
        /\ b.current = m => dispatcher[m][c].stage \in {"dispatch", "acking", "complete"} /\ ~ dispatcher[m][c].canceled
        /\ dispatcher[m][c].stage = "dispatch" /\ m \in Reliable => b.current = m
        /\ dispatcher[m][c].stage = "acking" => b.current = m /\ Reachable(session[c], w, c)
    BY <1>3 DEF BusHolds
  <2>2. DispatcherOK(dispatcher[m][c], w, frame.rest, m, c)
    BY <1>1, Sendings
  <2>3. k > 0 => b.current = None /\ p[k] \in ToSet(taken)
    BY SMTT(20), <1>5, <1>6, <1>7 DEF ToSet
  <2>4. CASE m \in ToSet(taken)
    <3>1. /\ dispatcher'[m][c].stage = "dispatch" /\ dispatcher'[m][c].canceled = dispatcher[m][c].canceled
          /\ dispatcher[m][c].stage = "pending" /\ m \notin ToSet(rest)
      BY <1>6, <1>14, <2>1, <2>4
    <3>2. ~ dispatcher[m][c].canceled
      BY <2>2, <3>1 DEF DispatcherOK
    <3>3. PICK i \in 1 .. k : p[i] = m
      BY <1>6, <2>4 DEF ToSet
    <3>4. m \in Reliable => i = k
      BY <1>5, <1>7, <3>3
    <3>5. m \in Reliable => current = m
      BY <1>7, <3>3, <3>4 DEF current
    <3> QED
      BY <3>1, <3>2, <3>5
  <2>5. CASE m \notin ToSet(taken)
    <3>1. dispatcher'[m][c] = dispatcher[m][c] /\ (m \in ToSet(rest) <=> m \in ToSet(p))
      BY <1>6, <1>14, <2>5
    <3>2. current = m => b.current = m
      BY <1>4, <1>7, <2>3, <2>5 DEF current
    <3>3. b.current = m => current = m
      BY <1>4, <1>7, <2>3 DEF current
    <3> QED
      BY <2>1, <3>1, <3>2, <3>3
  <2> QED
    BY <2>4, <2>5
<1>21. rest # <<>> => current # None
  <2>1. rest # <<>> => k < Len(p)
    BY <1>6, <1>7
  <2>2. CASE b.current = None /\ k < Len(p)
    BY <1>4, <1>5, <1>7, <2>2 DEF current
  <2>3. CASE b.current # None
    BY <1>4, <1>5, <1>7, <2>3 DEF current
  <2> QED
    BY <2>1, <2>2, <2>3
<1>22. \A d \in Sessions : Reachable(session[d], w, d) => Reachable(session'[d], ToSet(queue'), d)
  <2>1. \A d \in Sessions : <<"stop_endpoint", d>> \in w => <<"stop_endpoint", d>> \in ToSet(queue')
    BY <1>17
  <2> QED
    BY <1>2, <2>1 DEF Reachable
<1>23. ASSUME NEW d \in Sessions PROVE BusHolds(d)'
  <2>1. CASE d = c
    <3>1. /\ bus'[c].pending = rest /\ bus'[c].current = current /\ ~ bus'[c].processing /\ ~ bus'[c].stop
          /\ <<"send", c>> \notin ToSet(queue')
      BY <1>12, <1>13, <1>17
    <3>2. \A m \in Messages : dispatcher'[m][c].stage = "acking" => Reachable(session'[c], ToSet(queue'), c)
      BY <1>20, <1>22
    <3> QED
      BY <1>6, <1>20, <1>21, <2>1, <3>1, <3>2 DEF BusHolds
  <2>2. CASE d # c
    <3>1. bus'[d] = bus[d] /\ \A m \in Messages : dispatcher'[m][d] = dispatcher[m][d]
      BY <1>13, <1>14, <2>2
    <3>2. <<"send", d>> \in ToSet(queue') <=> <<"send", d>> \in w
      BY <1>17, <2>2
    <3> QED
      BY <1>1, <1>22, <3>1, <3>2, OtherBus
  <2> QED
    BY <2>1, <2>2
<1>24. SendTypeOK'
  BY <1>1, <1>2, <1>13, <1>14 DEF SendInv, SendTypeOK
<1>25. /\ \A m \in Messages, d \in Sessions :
             /\ dispatcher'[m][d].stage = "none" <=> ~ Expects(sender'[m], d)
             /\ d \in sender'[m].records => session'[d].life # "fresh"
       /\ \A m \in Messages : SenderOK(sender'[m], answered'[m], Counted(m)')
  BY <1>1, <1>2, <1>19, SendersSame
<1>26. SendInv'
  BY <1>19, <1>23, <1>24, <1>25, SendParts
<1> QED
  BY <1>18, <1>26 DEF CoreInv

LEMMA CoreBusSend == ASSUME CoreInv, NEW c \in Sessions, BusSend(c) PROVE CoreInv'
<1> DEFINE t == <<"send", c>>
           more == CanceledTasks(Held(bus[c]), c)
<1>1. CASE ~ bus[c].stop
  BY <1>1, BusTakes
<1>2. CASE bus[c].stop
  <2>1. /\ bus' = [bus EXCEPT ![c] = NewBus] /\ CancelAll(Held(bus[c]), c)
        /\ queue' = SubmitAll(Tail(queue), more) /\ Running(t)
        /\ UNCHANGED <<api, proto, listed, peer, session, endpoint, sender, answered, frame, manner, told>>
    BY <1>2 DEF BusSend
  <2>2. LifeInv /\ SendInv
    BY DEF CoreInv
  <2>3. SendInv'
    BY <2>1, BusCanceled
  <2>4. QueueOK(more) /\ ToSet(more) \subseteq DispatcherTasks
    BY <2>2, CanceledOrder
  <2> HIDE DEF more
  <2>5. /\ QueueOK(queue') /\ t \in SendTasks /\ t \notin LifeTasks
        /\ \A x \in LifeTasks : x \in ToSet(queue') <=> x \in ToSet(queue) /\ x # t
        /\ \A x, y \in LifeTasks : Precedes(queue', x, y) => Precedes(queue, x, y)
        /\ \A d \in Sessions : <<"send", d>> \in ToSet(queue') <=> <<"send", d>> \in ToSet(queue) /\ <<"send", d>> # t
    BY <2>1, <2>2, <2>4, QueueSends, TaskKinds
  <2>6. frame' \in [of : Callbacks, rest : Rests] /\ (frame'.of = "none" => frame' = NoFrame)
    BY <2>1, <2>2 DEF LifeInv, LifeTypeOK
  <2>7. \A d \in Sessions : SameRest(frame'.rest, frame.rest, d)
    BY <2>1 DEF SameRest
  <2>8. \A d \in Sessions : <<"send", d>> \in ToSet(queue') => session[d].life # "fresh"
    BY <2>2, <2>5, SendsLive
  <2>9. \A x \in LifeTasks : x \in ToSet(queue') <=> x \in ToSet(queue)
    BY <2>5
  <2>10. LifeInv'
    BY <2>1, <2>2, <2>5, <2>6, <2>7, <2>8, <2>9, LifeSendTask
  <2> QED
    BY <2>3, <2>10 DEF CoreInv
<1> QED
  BY <1>1, <1>2

-----------------------------------------------------------------------------
(***************************************************************************)
(* A dispatcher sends, is acknowledged and completes.                      *)
(***************************************************************************)
LEMMA OneDispatcher ==
    ASSUME SendInv, NEW m \in Messages, NEW c \in Sessions,
           NEW s \in {"none", "pending", "dispatch", "acking", "complete", "done"},
           dispatcher' = [dispatcher EXCEPT ![m][c].stage = s]
    PROVE  /\ dispatcher' \in [Messages -> [Sessions -> DispatcherRecord]]
           /\ dispatcher'[m][c].stage = s /\ dispatcher'[m][c].canceled = dispatcher[m][c].canceled
           /\ \A n \in Messages, d \in Sessions : n # m \/ d # c => dispatcher'[n][d] = dispatcher[n][d]
<1> DEFINE e == [dispatcher[m][c] EXCEPT !.stage = s]
<1>1. dispatcher \in [Messages -> [Sessions -> DispatcherRecord]] /\ dispatcher[m][c] \in DispatcherRecord
  BY DEF SendInv, SendTypeOK
<1>2. e \in DispatcherRecord /\ e.stage = s /\ e.canceled = dispatcher[m][c].canceled
  BY <1>1 DEF DispatcherRecord
<1>3. dispatcher' = [dispatcher EXCEPT ![m] = [dispatcher[m] EXCEPT ![c] = e]]
  OBVIOUS
<1> HIDE DEF e
<1>4. /\ [dispatcher[m] EXCEPT ![c] = e] \in [Sessions -> DispatcherRecord]
      /\ \A d \in Sessions : [dispatcher[m] EXCEPT ![c] = e][d] = IF d = c THEN e ELSE dispatcher[m][d]
  BY <1>1, <1>2
<1>5. /\ dispatcher' \in [Messages -> [Sessions -> DispatcherRecord]]
      /\ dispatcher'[m] = [dispatcher[m] EXCEPT ![c] = e]
      /\ \A n \in Messages \ {m} : dispatcher'[n] = dispatcher[n]
  BY <1>1, <1>3, <1>4
<1>6. dispatcher'[m][c] = e /\ \A d \in Sessions \ {c} : dispatcher'[m][d] = dispatcher[m][d]
  BY <1>4, <1>5
<1> QED
  BY <1>2, <1>5, <1>6

LEMMA CoreSame ==
    ASSUME CoreInv, UNCHANGED <<api, proto, objects, sending, queue, frame, manner, told>> PROVE CoreInv'
<1>1. UNCHANGED <<api, proto, listed, peer, session, endpoint, bus, sender, dispatcher, answered, queue, frame, manner, told>>
  BY DEF objects, sending
<1>2. LifeInv'
  BY <1>1 DEF CoreInv, LifeInv, LifeTypeOK, Slots, Protocol, Orders
<1>3. SendInv
  BY DEF CoreInv
<1>4. SendKept
  BY <1>1 DEF SendKept, SameSends
<1> QED
  BY <1>2, <1>3, <1>4, SendSame DEF CoreInv

\* A task of a dispatcher that changes nothing but its stage.
LEMMA CoreStage ==
    ASSUME CoreInv, NEW m \in Messages, NEW c \in Sessions, NEW s \in {"acking", "complete"},
           dispatcher[m][c].stage \in {"dispatch", "acking"},
           dispatcher' = [dispatcher EXCEPT ![m][c].stage = s],
           QueueOK(queue'), \A x \in LifeTasks : x \in ToSet(queue') <=> x \in ToSet(queue),
           \A d \in Sessions : <<"send", d>> \in ToSet(queue') <=> <<"send", d>> \in ToSet(queue),
           \A n \in Messages, d \in Sessions : n # m \/ d # c =>
              (<<"dispatcher", n, d>> \in ToSet(queue') <=> <<"dispatcher", n, d>> \in ToSet(queue)),
           <<"dispatcher", m, c>> \in ToSet(queue') <=> s = "complete",
           s = "acking" => m \in Reliable /\ session[c].life = "live",
           frame.rest = <<>>, UNCHANGED <<bus, sender, answered, session, frame>>
    PROVE  SendInv'
<1>1. SendInv
  BY DEF CoreInv
<1>2. /\ dispatcher' \in [Messages -> [Sessions -> DispatcherRecord]]
      /\ dispatcher'[m][c].stage = s /\ dispatcher'[m][c].canceled = dispatcher[m][c].canceled
      /\ \A n \in Messages, d \in Sessions : n # m \/ d # c => dispatcher'[n][d] = dispatcher[n][d]
  BY <1>1, OneDispatcher
<1>3. ASSUME NEW n \in Messages, NEW d \in Sessions
      PROVE  /\ dispatcher'[n][d].stage = "none" <=> dispatcher[n][d].stage = "none"
             /\ dispatcher'[n][d].stage = "done" <=> dispatcher[n][d].stage = "done"
             /\ DispatcherOK(dispatcher'[n][d], ToSet(queue'), frame'.rest, n, d)
  <2>1. DispatcherOK(dispatcher[n][d], ToSet(queue), <<>>, n, d)
    BY <1>1, Sendings
  <2>2. CASE n = m /\ d = c
    BY <1>2, <2>1, <2>2 DEF DispatcherOK
  <2>3. CASE n # m \/ d # c
    BY <1>2, <2>1, <2>3 DEF DispatcherOK
  <2> QED
    BY <2>2, <2>3
<1>4. \A d \in Sessions : Reachable(session[d], ToSet(queue), d) => Reachable(session'[d], ToSet(queue'), d)
  <2>1. \A d \in Sessions : <<"stop_endpoint", d>> \in LifeTasks
    BY LifeTaskNames
  <2> QED
    BY <2>1 DEF Reachable
<1>5. ASSUME NEW d \in Sessions PROVE BusHolds(d)'
  <2>1. BusHolds(d)
    BY <1>1, Sendings
  <2>2. CASE d # c
    <3>1. \A n \in Messages : dispatcher'[n][d] = dispatcher[n][d]
      BY <1>2, <2>2
    <3> QED
      BY <1>1, <1>4, <3>1, OtherBus
  <2>3. CASE d = c
    <3>1. ASSUME NEW n \in Messages
          PROVE  /\ n \in ToSet(bus[c].pending) <=> dispatcher'[n][c].stage = "pending"
                 /\ bus[c].current = n =>
                       dispatcher'[n][c].stage \in {"dispatch", "acking", "complete"} /\ ~ dispatcher'[n][c].canceled
                 /\ dispatcher'[n][c].stage = "dispatch" /\ n \in Reliable => bus[c].current = n
                 /\ dispatcher'[n][c].stage = "acking" =>
                       bus[c].current = n /\ (Reachable(session'[c], ToSet(queue'), c) \/ bus[c].stop)
      <4>a. /\ n \in ToSet(bus[c].pending) <=> dispatcher[n][c].stage = "pending"
            /\ bus[c].current = n =>
                 dispatcher[n][c].stage \in {"dispatch", "acking", "complete"} /\ ~ dispatcher[n][c].canceled
            /\ dispatcher[n][c].stage = "dispatch" /\ n \in Reliable => bus[c].current = n
            /\ dispatcher[n][c].stage = "acking" =>
                 bus[c].current = n /\ (Reachable(session[c], ToSet(queue), c) \/ bus[c].stop)
        BY <2>1, <2>3 DEF BusHolds
      <4>1. CASE n = m
        <5>1. s = "acking" => Reachable(session'[c], ToSet(queue'), c)
          BY DEF Reachable
        <5>2. s = "acking" => bus[c].current = m
          BY <4>a, <4>1
        <5> QED
          BY <1>2, <4>a, <4>1, <5>1, <5>2
      <4>2. CASE n # m
        BY <1>2, <1>4, <4>a, <4>2
      <4> QED
        BY <4>1, <4>2
    <3>2. /\ bus[c].processing <=> <<"send", c>> \in ToSet(queue')
          /\ bus[c].stop => bus[c].processing
          /\ IsInjective(bus[c].pending)
          /\ bus[c].pending # <<>> => bus[c].processing \/ bus[c].current # None
      BY <2>1, <2>3 DEF BusHolds
    <3> QED
      BY <2>3, <3>1, <3>2 DEF BusHolds
  <2> QED
    BY <2>2, <2>3
<1>6. SendTypeOK'
  BY <1>1, <1>2 DEF SendInv, SendTypeOK
<1>7. /\ \A n \in Messages, d \in Sessions :
             /\ dispatcher'[n][d].stage = "none" <=> ~ Expects(sender'[n], d)
             /\ d \in sender'[n].records => session'[d].life # "fresh"
      /\ \A n \in Messages : SenderOK(sender'[n], answered'[n], Counted(n)')
  BY <1>1, <1>3, SendersSame
<1> QED
  BY <1>3, <1>5, <1>6, <1>7, SendParts

LEMMA CoreDispatcherDispatch ==
    ASSUME CoreInv, NEW m \in Messages, NEW c \in Sessions, DispatcherDispatch(m, c) PROVE CoreInv'
<1> DEFINE t == <<"dispatcher", m, c>>
           w == ToSet(queue)
<1>1. LifeInv /\ SendInv /\ Running(t) /\ dispatcher[m][c].stage = "dispatch"
      /\ UNCHANGED <<api, proto, objects, sender, answered, frame, manner, told>>
  BY DEF CoreInv, DispatcherDispatch
<1>2. UNCHANGED <<listed, peer, session, endpoint, bus>>
  BY <1>1 DEF objects
<1>3. /\ t \in w /\ frame.rest = <<>> /\ QueueOK(Tail(queue)) /\ ToSet(Tail(queue)) = w \ {t} /\ t \in Tasks
      /\ \A x, y : Precedes(Tail(queue), x, y) <=> Precedes(queue, x, y) /\ x # t
  BY <1>1, Runs
<1>4. t \in SendTasks /\ t \notin LifeTasks /\ \A d \in Sessions : t # <<"send", d>>
  BY TaskKinds DEF DispatcherTasks
<1>5. frame' \in [of : Callbacks, rest : Rests] /\ (frame'.of = "none" => frame' = NoFrame)
      /\ \A d \in Sessions : SameRest(frame'.rest, frame.rest, d)
  BY <1>1 DEF LifeInv, LifeTypeOK, SameRest
<1>6. ASSUME QueueOK(queue'), \A x \in Tasks \ {t} : x \in ToSet(queue') <=> x \in w,
             \A x, y \in LifeTasks : Precedes(queue', x, y) => Precedes(queue, x, y)
      PROVE  LifeInv'
  <2>1. \A x \in LifeTasks : x \in ToSet(queue') <=> x \in w
    BY <1>4, <1>6, TaskKinds
  <2>2. \A d \in Sessions : <<"send", d>> \in ToSet(queue') <=> <<"send", d>> \in w
    BY <1>4, <1>6, TaskKinds
  <2>3. \A d \in Sessions : <<"send", d>> \in ToSet(queue') => session[d].life # "fresh"
    BY <1>1, <2>2, SendsLive
  <2> QED
    BY <1>1, <1>2, <1>4, <1>5, <1>6, <2>1, <2>3, LifeSendTask
<1>7. CASE UNCHANGED <<dispatcher, queue>>
  BY <1>1, <1>7, CoreSame DEF sending
<1>8. CASE /\ endpoint[c].extra => session[c].peer
           /\ m \in Reliable /\ ~ SendFails(c)
           /\ dispatcher' = [dispatcher EXCEPT ![m][c].stage = "acking"]
           /\ queue' = Tail(queue)
  <2>1. endpoint[c].extra /\ session[c].peer
    BY <1>8 DEF SendFails
  <2>2. session[c].life = "live"
    BY <1>1, <2>1, LifeTypes DEF SlotOK
  <2>3. /\ QueueOK(queue') /\ ToSet(queue') = w \ {t}
        /\ \A x, y \in LifeTasks : Precedes(queue', x, y) => Precedes(queue, x, y)
    BY <1>3, <1>8
  <2>4. LifeInv'
    BY <1>6, <2>3
  <2>5. \A x \in LifeTasks : x \in ToSet(queue') <=> x \in w
    BY <1>4, <2>3
  <2>6. \A d \in Sessions : <<"send", d>> \in ToSet(queue') <=> <<"send", d>> \in w
    BY <1>4, <2>3
  <2>7. \A n \in Messages, d \in Sessions : n # m \/ d # c =>
            (<<"dispatcher", n, d>> \in ToSet(queue') <=> <<"dispatcher", n, d>> \in w)
    BY <2>3
  <2>8. SendInv'
    BY <1>1, <1>2, <1>3, <1>8, <2>2, <2>3, <2>5, <2>6, <2>7, CoreStage
  <2> QED
    BY <2>4, <2>8 DEF CoreInv
<1>9. CASE /\ dispatcher' = [dispatcher EXCEPT ![m][c].stage = "complete"]
           /\ queue' = Submit(Tail(queue), t)
  <2>1. /\ QueueOK(queue') /\ ToSet(queue') = (w \ {t}) \union {t}
        /\ \A x, y : Precedes(queue', x, y) <=>
               \/ Precedes(Tail(queue), x, y) /\ x # t /\ y # t
               \/ x \in ToSet(Tail(queue)) /\ x # t /\ y = t
    BY <1>3, <1>9, SubmitOrder
  <2>2. \A x, y \in LifeTasks : Precedes(queue', x, y) => Precedes(queue, x, y)
    BY <1>3, <1>4, <2>1
  <2>3. ToSet(queue') = w
    BY <1>3, <2>1
  <2>4. LifeInv'
    BY <1>6, <2>1, <2>2, <2>3
  <2>5. SendInv'
    BY <1>1, <1>2, <1>3, <1>9, <2>1, <2>3, CoreStage
  <2> QED
    BY <2>4, <2>5 DEF CoreInv
<1> QED
  BY <1>7, <1>8, <1>9 DEF DispatcherDispatch

LEMMA CoreAcked == ASSUME CoreInv, NEW m \in Messages, NEW c \in Sessions, Acked(m, c) PROVE CoreInv'
<1> DEFINE t == <<"dispatcher", m, c>>
<1>1. /\ LifeInv /\ SendInv /\ Idle /\ dispatcher[m][c].stage = "acking"
      /\ dispatcher' = [dispatcher EXCEPT ![m][c].stage = "complete"] /\ queue' = <<t>>
      /\ UNCHANGED <<api, proto, listed, peer, session, endpoint, bus, sender, answered, frame, manner, told>>
  BY DEF CoreInv, Acked, objects
<1>2. ToSet(queue) = {} /\ frame.rest = <<>>
  BY <1>1, Idles
<1>3. t \in SendTasks /\ t \notin LifeTasks /\ t \in Tasks /\ \A d \in Sessions : t # <<"send", d>>
  BY TaskKinds DEF DispatcherTasks
<1>4. QueueOK(queue') /\ ToSet(queue') = {t} /\ \A x, y : ~ Precedes(queue', x, y)
  BY <1>1, <1>3, OneTask
<1>5. LifeInv'
  <2>1. frame' \in [of : Callbacks, rest : Rests] /\ (frame'.of = "none" => frame' = NoFrame)
        /\ \A d \in Sessions : SameRest(frame'.rest, frame.rest, d)
    BY <1>1 DEF LifeInv, LifeTypeOK, SameRest
  <2>2. \A x \in LifeTasks : x \notin ToSet(queue') /\ x \notin ToSet(queue)
    BY <1>2, <1>3, <1>4
  <2>3. \A d \in Sessions : <<"send", d>> \notin ToSet(queue') /\ <<"ready", d>> \notin ToSet(queue)
    BY <1>2, <1>3, <1>4
  <2> QED
    BY <1>1, <1>4, <2>1, <2>2, <2>3, LifeSending
<1>6. \A x \in LifeTasks : x \in ToSet(queue') <=> x \in ToSet(queue)
  BY <1>2, <1>3, <1>4
<1>7. \A d \in Sessions : <<"send", d>> \in ToSet(queue') <=> <<"send", d>> \in ToSet(queue)
  BY <1>2, <1>3, <1>4
<1>8. \A n \in Messages, d \in Sessions : n # m \/ d # c =>
         (<<"dispatcher", n, d>> \in ToSet(queue') <=> <<"dispatcher", n, d>> \in ToSet(queue))
  BY <1>2, <1>4
<1>9. SendInv'
  BY <1>1, <1>2, <1>4, <1>6, <1>7, <1>8, CoreStage
<1> QED
  BY <1>5, <1>9 DEF CoreInv

\* The end of pomelo_delivery_dispatcher_complete, at once or after the callback.
LEMMA CompletedDone ==
    ASSUME CoreInv, NEW m \in Messages, NEW c \in Sessions, NEW tasks, QueueOK(tasks), Completed(m, c, tasks),
           dispatcher[m][c].stage = "complete",
           \A x : x \in ToSet(tasks) <=> x \in ToSet(queue) /\ x # <<"dispatcher", m, c>>,
           \A x, y : Precedes(tasks, x, y) => Precedes(queue, x, y),
           frame'.rest = <<>>,
           \A n \in Messages, d \in Sessions : frame.rest = <<"completed", n, d>> => n = m /\ d = c,
           UNCHANGED session
    PROVE  /\ bus' \in [Sessions -> BusRecord]
           /\ dispatcher' \in [Messages -> [Sessions -> DispatcherRecord]]
           /\ dispatcher'[m][c].stage = "done"
           /\ \A n \in Messages, d \in Sessions : n # m \/ d # c => dispatcher'[n][d] = dispatcher[n][d]
           /\ QueueOK(queue')
           /\ \A x \in LifeTasks : x \in ToSet(queue') <=> x \in ToSet(queue)
           /\ \A x, y \in LifeTasks : Precedes(queue', x, y) => Precedes(queue, x, y)
           /\ \A d \in Sessions : <<"send", d>> \in ToSet(queue') => <<"send", d>> \in ToSet(queue) \/ d = c
           /\ \A d \in Sessions : BusHolds(d)'
           /\ \A n \in Messages, d \in Sessions : DispatcherOK(dispatcher'[n][d], ToSet(queue'), frame'.rest, n, d)
<1> DEFINE t == <<"dispatcher", m, c>>
           u == <<"send", c>>
           w == ToSet(queue)
           canceled == dispatcher[m][c].canceled
<1>1. SendInv /\ bus[c] \in BusRecord /\ BusHolds(c) /\ bus \in [Sessions -> BusRecord]
  BY Sendings DEF CoreInv, SendInv, SendTypeOK
<1>2. /\ dispatcher' \in [Messages -> [Sessions -> DispatcherRecord]]
      /\ dispatcher'[m][c].stage = "done" /\ dispatcher'[m][c].canceled = canceled
      /\ \A n \in Messages, d \in Sessions : n # m \/ d # c => dispatcher'[n][d] = dispatcher[n][d]
  BY <1>1, OneDispatcher DEF Completed
<1>3. t \notin LifeTasks /\ u \notin LifeTasks /\ u \in Tasks /\ \A d \in Sessions : t # <<"send", d>>
  BY TaskKinds DEF DispatcherTasks
<1>4. bus[c].processing <=> u \in w
  BY <1>1 DEF BusHolds
<1>5. /\ QueueOK(queue') /\ ToSet(queue') = (w \ {t}) \union (IF canceled THEN {} ELSE {u})
      /\ \A x, y : Precedes(queue', x, y) => Precedes(queue, x, y) \/ y = u
  <2>1. CASE queue' = tasks /\ (canceled \/ u \in w)
    BY <1>3, <2>1
  <2>2. CASE queue' = Submit(tasks, u) /\ ~ canceled
    <3>1. /\ QueueOK(queue') /\ ToSet(queue') = ToSet(tasks) \union {u}
          /\ \A x, y : Precedes(queue', x, y) <=>
                 \/ Precedes(tasks, x, y) /\ x # u /\ y # u
                 \/ x \in ToSet(tasks) /\ x # u /\ y = u
      BY <1>3, <2>2, SubmitOrder
    <3> QED
      BY <2>2, <3>1
  <2> QED
    BY <1>4, <2>1, <2>2 DEF Completed
<1>6. \A x \in LifeTasks : x \in ToSet(queue') <=> x \in w
  BY <1>3, <1>5
<1>7. \A x, y \in LifeTasks : Precedes(queue', x, y) => Precedes(queue, x, y)
  BY <1>3, <1>5
<1>8. \A d \in Sessions : <<"send", d>> \in ToSet(queue') <=> <<"send", d>> \in w \/ (d = c /\ ~ canceled)
  BY <1>3, <1>5
<1>9. ASSUME NEW n \in Messages, NEW d \in Sessions
      PROVE  DispatcherOK(dispatcher'[n][d], ToSet(queue'), frame'.rest, n, d)
  <2>1. DispatcherOK(dispatcher[n][d], w, frame.rest, n, d)
    BY <1>1, Sendings
  <2>2. <<"dispatcher", n, d>> \in ToSet(queue') <=> <<"dispatcher", n, d>> \in w /\ <<"dispatcher", n, d>> # t
    BY <1>5
  <2>3. CASE n = m /\ d = c
    BY <1>2, <2>1, <2>2, <2>3 DEF DispatcherOK
  <2>4. CASE n # m \/ d # c
    BY <1>2, <2>1, <2>2, <2>4 DEF DispatcherOK
  <2> QED
    BY <2>3, <2>4
<1>10. \A d \in Sessions : Reachable(session[d], w, d) => Reachable(session'[d], ToSet(queue'), d)
  <2>1. \A d \in Sessions : <<"stop_endpoint", d>> \in LifeTasks
    BY LifeTaskNames
  <2> QED
    BY <1>6, <2>1 DEF Reachable
<1> DEFINE current == IF bus[c].current = m THEN None ELSE bus[c].current
           r == [bus[c] EXCEPT !.current = current, !.processing = TRUE]
<1>11. IF canceled THEN bus' = bus ELSE bus' = [bus EXCEPT ![c] = r]
  BY <1>1 DEF Completed
<1>12. current \in Messages \union {None}
  BY <1>1 DEF BusRecord
<1> HIDE DEF current
<1>13. r \in BusRecord /\ r.pending = bus[c].pending /\ r.current = current /\ r.processing /\ r.stop = bus[c].stop
  BY <1>1, <1>12 DEF BusRecord
<1> HIDE DEF r
<1>14. /\ bus' \in [Sessions -> BusRecord] /\ bus'[c] = (IF canceled THEN bus[c] ELSE r)
       /\ \A d \in Sessions \ {c} : bus'[d] = bus[d]
  BY <1>1, <1>11, <1>13
<1>15. canceled => bus[c].current # m
  BY <1>1 DEF BusHolds
<1>16. bus'[c].pending = bus[c].pending /\ bus'[c].stop = bus[c].stop /\ bus'[c].current = current
       /\ (bus'[c].processing <=> bus[c].processing \/ ~ canceled)
  BY <1>13, <1>14, <1>15 DEF current
<1>17. ASSUME NEW d \in Sessions PROVE BusHolds(d)'
  <2>1. CASE d # c
    <3>1. bus'[d] = bus[d] /\ \A n \in Messages : dispatcher'[n][d] = dispatcher[n][d]
      BY <1>2, <1>14, <2>1
    <3>2. <<"send", d>> \in ToSet(queue') <=> <<"send", d>> \in w
      BY <1>8, <2>1
    <3> QED
      BY <1>1, <1>10, <3>1, <3>2, OtherBus
  <2>2. CASE d = c
    <3>1. ASSUME NEW n \in Messages
          PROVE  /\ n \in ToSet(bus[c].pending) <=> dispatcher'[n][c].stage = "pending"
                 /\ current = n =>
                       dispatcher'[n][c].stage \in {"dispatch", "acking", "complete"} /\ ~ dispatcher'[n][c].canceled
                 /\ dispatcher'[n][c].stage = "dispatch" /\ n \in Reliable => current = n
                 /\ dispatcher'[n][c].stage = "acking" =>
                       current = n /\ (Reachable(session'[c], ToSet(queue'), c) \/ bus[c].stop)
      <4>a. /\ n \in ToSet(bus[c].pending) <=> dispatcher[n][c].stage = "pending"
            /\ bus[c].current = n =>
                 dispatcher[n][c].stage \in {"dispatch", "acking", "complete"} /\ ~ dispatcher[n][c].canceled
            /\ dispatcher[n][c].stage = "dispatch" /\ n \in Reliable => bus[c].current = n
            /\ dispatcher[n][c].stage = "acking" =>
                 bus[c].current = n /\ (Reachable(session[c], w, c) \/ bus[c].stop)
        BY <1>1 DEF BusHolds
      <4>b. current = n => bus[c].current = n /\ n # m
        BY SessionsAssumption DEF current
      <4>c. bus[c].current = n /\ n # m => current = n
        BY DEF current
      <4>1. CASE n = m
        BY <1>2, <4>a, <4>b, <4>1
      <4>2. CASE n # m
        BY <1>2, <1>10, <4>a, <4>b, <4>c, <4>2
      <4> QED
        BY <4>1, <4>2
    <3>2. /\ bus[c].processing <=> u \in w
          /\ bus[c].stop => bus[c].processing
          /\ IsInjective(bus[c].pending)
          /\ bus[c].pending # <<>> => bus[c].processing \/ bus[c].current # None
      BY <1>1 DEF BusHolds
    <3>3. /\ bus'[c].processing <=> u \in ToSet(queue')
          /\ bus'[c].stop => bus'[c].processing
          /\ bus'[c].pending # <<>> => bus'[c].processing \/ bus'[c].current # None
      BY <1>8, <1>15, <1>16, <3>2 DEF current
    <3> QED
      BY <1>16, <2>2, <3>1, <3>2, <3>3 DEF BusHolds
  <2> QED
    BY <2>1, <2>2
<1> QED
  BY <1>2, <1>5, <1>6, <1>7, <1>8, <1>9, <1>14, <1>17

\* A message whose dispatcher is about to complete.
LEMMA Completing ==
    ASSUME SendInv, NEW m \in Messages, NEW c \in Sessions, dispatcher[m][c].stage = "complete"
    PROVE  /\ sender[m] \in SenderRecord /\ SenderOK(sender[m], answered[m], Counted(m))
           /\ Expects(sender[m], c) /\ session[c].life # "fresh"
           /\ Counted(m) \subseteq sender[m].records /\ IsFiniteSet(Counted(m)) /\ IsFiniteSet(sender[m].records)
           /\ \A d \in Counted(m) : Expects(sender[m], d)
           /\ c \notin Counted(m) => sender[m].phase = "dispatching" /\ answered[m] = 0
<1> DEFINE s == sender[m]
<1>1. s \in SenderRecord /\ SenderOK(s, answered[m], Counted(m)) /\ Expects(s, c) /\ c \in s.records
  BY Sendings DEF Expects
<1>2. session[c].life # "fresh"
  BY <1>1, Sendings
<1>3. ASSUME NEW d \in Counted(m) PROVE d \in Sessions /\ Expects(s, d)
  <2>1. d \in Sessions /\ (dispatcher[m][d].stage = "done" \/ frame.rest = <<"completed", m, d>>)
    BY DEF Counted
  <2>2. dispatcher[m][d].stage # "none"
    BY <2>1, Sendings DEF DispatcherOK
  <2> QED
    BY <2>1, <2>2, Sendings
<1>4. Counted(m) \subseteq s.records
  BY <1>3 DEF Expects
<1>5. s.records \in SUBSET Sessions
  BY <1>1 DEF SenderRecord
<1>6. IsFiniteSet(s.records)
  BY <1>5, SessionsAssumption, FS_Subset
<1>7. IsFiniteSet(Counted(m))
  BY <1>4, <1>6, FS_Subset
<1>8. c \notin Counted(m) => s.phase = "dispatching" /\ answered[m] = 0
  <2>1. s.phase # "summing" /\ s.records # {}
    BY <1>1 DEF Expects
  <2>2. s.phase \in {"free", "summing", "dispatching", "done"}
    BY <1>1 DEF SenderRecord
  <2> QED
    BY <1>1, <2>1, <2>2 DEF SenderOK
<1> QED
  BY <1>1, <1>2, <1>3, <1>4, <1>6, <1>7, <1>8

\* The count of the dispatcher that completes, and when it is the last.
LEMMA CompletingCount ==
    ASSUME SendInv, NEW m \in Messages, NEW c \in Sessions, dispatcher[m][c].stage = "complete", c \notin Counted(m)
    PROVE  /\ sender[m].completed + 1 \in Nat
           /\ sender[m].completed + 1 = Cardinality(Counted(m) \union {c})
           /\ sender[m].completed + 1 = Cardinality(sender[m].records) =>
                 Counted(m) \union {c} = sender[m].records /\ sender[m].todo = <<>>
           /\ sender[m].completed + 1 # Cardinality(sender[m].records) => Counted(m) \union {c} # sender[m].records
<1> DEFINE s == sender[m]
           more == Counted(m) \union {c}
<1>1. /\ s \in SenderRecord /\ SenderOK(s, answered[m], Counted(m)) /\ Expects(s, c)
      /\ Counted(m) \subseteq s.records /\ IsFiniteSet(Counted(m)) /\ IsFiniteSet(s.records)
      /\ \A d \in Counted(m) : Expects(s, d)
  BY Completing
<1>2. s.completed = Cardinality(Counted(m)) /\ s.completed \in Nat /\ s.todo \in Seq(Sessions)
  BY <1>1 DEF SenderOK, SenderRecord
<1>3. Cardinality(more) = s.completed + 1
  BY <1>1, <1>2, FS_AddElement
<1>4. more \in SUBSET s.records /\ \A d \in more : d \notin ToSet(s.todo)
  BY <1>1 DEF Expects
<1>5. Cardinality(s.records) = Cardinality(more) => s.records = more
  BY <1>1, <1>4, FS_Subset
<1>6. more = s.records => s.todo = <<>>
  <2>1. ToSet(s.todo) \subseteq s.records
    BY <1>1 DEF SenderOK
  <2>2. more = s.records => ToSet(s.todo) = {}
    BY <1>4, <2>1
  <2> QED
    BY <1>2, <2>2, EmptyOrder
<1>7. s.completed + 1 \in Nat
  BY <1>2
<1>8. s.completed + 1 = Cardinality(s.records) => more = s.records
  BY <1>3, <1>5
<1>9. s.completed + 1 # Cardinality(s.records) => more # s.records
  BY <1>3
<1> QED
  BY <1>3, <1>6, <1>7, <1>8, <1>9

\* What is left to be shown of the senders when only one of them changes.
LEMMA OneSender ==
    ASSUME SendInv, NEW m \in Messages, NEW r \in SenderRecord, sender' = [sender EXCEPT ![m] = r],
           r.records = sender[m].records, UNCHANGED session,
           \A d \in Sessions : Expects(r, d) <=> Expects(sender[m], d),
           \A n \in Messages, d \in Sessions : dispatcher'[n][d].stage = "none" <=> dispatcher[n][d].stage = "none",
           \A n \in Messages \ {m} : answered'[n] = answered[n] /\ Counted(n)' = Counted(n),
           SenderOK(r, answered'[m], Counted(m)')
    PROVE  /\ sender' \in [Messages -> SenderRecord]
           /\ \A n \in Messages, d \in Sessions :
                 /\ dispatcher'[n][d].stage = "none" <=> ~ Expects(sender'[n], d)
                 /\ d \in sender'[n].records => session'[d].life # "fresh"
           /\ \A n \in Messages : SenderOK(sender'[n], answered'[n], Counted(n)')
<1>1. sender \in [Messages -> SenderRecord]
  BY DEF SendInv, SendTypeOK
<1>2. /\ sender' \in [Messages -> SenderRecord] /\ sender'[m] = r
      /\ \A n \in Messages \ {m} : sender'[n] = sender[n]
  BY <1>1
<1>3. ASSUME NEW n \in Messages, NEW d \in Sessions
      PROVE  /\ dispatcher'[n][d].stage = "none" <=> ~ Expects(sender'[n], d)
             /\ d \in sender'[n].records => session'[d].life # "fresh"
  <2>1. /\ dispatcher[n][d].stage = "none" <=> ~ Expects(sender[n], d)
        /\ d \in sender[n].records => session[d].life # "fresh"
    BY Sendings
  <2>2. CASE n = m
    BY <1>2, <2>1, <2>2
  <2>3. CASE n # m
    BY <1>2, <2>1, <2>3
  <2> QED
    BY <2>2, <2>3
<1>4. ASSUME NEW n \in Messages PROVE SenderOK(sender'[n], answered'[n], Counted(n)')
  <2>1. SenderOK(sender[n], answered[n], Counted(n))
    BY Sendings
  <2>2. CASE n = m
    BY <1>2, <2>2
  <2>3. CASE n # m
    BY <1>2, <2>1, <2>3
  <2> QED
    BY <2>2, <2>3
<1> QED
  BY <1>2, <1>3, <1>4

\* The last dispatcher of a message answers it.
LEMMA AnswersLast ==
    ASSUME CoreInv, NEW m \in Messages, NEW c \in Sessions, DispatcherComplete(m, c),
           sender[m].completed + 1 = Cardinality(sender[m].records)
    PROVE  CoreInv'
<1> DEFINE t == <<"dispatcher", m, c>>
           w == ToSet(queue)
           s == sender[m]
           r == [s EXCEPT !.completed = s.completed + 1, !.phase = "done"]
<1>1. /\ LifeInv /\ SendInv /\ Running(t) /\ dispatcher[m][c].stage = "complete"
      /\ sender' = [sender EXCEPT ![m] = r] /\ answered' = [answered EXCEPT ![m] = @ + 1]
      /\ frame' = [of |-> "result", rest |-> <<"completed", m, c>>] /\ queue' = Tail(queue)
      /\ UNCHANGED <<api, proto, listed, peer, session, endpoint, bus, dispatcher, manner, told>>
  BY DEF CoreInv, DispatcherComplete, Answers, Callback
<1>2. /\ t \in w /\ frame.rest = <<>> /\ QueueOK(queue') /\ ToSet(queue') = w \ {t}
      /\ \A x, y : Precedes(queue', x, y) <=> Precedes(queue, x, y) /\ x # t
  BY <1>1, Runs
<1>3. c \notin Counted(m)
  BY <1>1, <1>2 DEF Counted
<1>4. /\ s \in SenderRecord /\ SenderOK(s, answered[m], Counted(m)) /\ Expects(s, c) /\ session[c].life # "fresh"
      /\ s.phase = "dispatching" /\ answered[m] = 0
  BY <1>1, <1>3, Completing
<1>5. /\ s.completed + 1 \in Nat /\ s.completed + 1 = Cardinality(Counted(m) \union {c})
      /\ Counted(m) \union {c} = s.records /\ s.todo = <<>>
  BY <1>1, <1>3, CompletingCount
<1>6. /\ r \in SenderRecord /\ r.completed = s.completed + 1 /\ r.phase = "done" /\ r.records = s.records
      /\ r.todo = s.todo
  BY <1>4, <1>5 DEF SenderRecord
<1> HIDE DEF r
<1>7. frame'.rest = <<"completed", m, c>> /\ frame'.of = "result"
  BY <1>1
<1>8. \A n \in Messages : Counted(n)' = IF n = m THEN Counted(m) \union {c} ELSE Counted(n)
  <2>1. \A n \in Messages, d \in Sessions : frame'.rest = <<"completed", n, d>> <=> n = m /\ d = c
    BY <1>7
  <2>2. \A n \in Messages, d \in Sessions : frame.rest # <<"completed", n, d>>
    BY <1>2
  <2>3. \A n \in Messages : Counted(n)' = {d \in Sessions : dispatcher[n][d].stage = "done" \/ (n = m /\ d = c)}
    BY <1>1, <2>1 DEF Counted
  <2>4. \A n \in Messages : Counted(n) = {d \in Sessions : dispatcher[n][d].stage = "done"}
    BY <2>2 DEF Counted
  <2> QED
    BY <2>3, <2>4
<1>9. answered' \in [Messages -> Nat] /\ answered'[m] = 1 /\ \A n \in Messages \ {m} : answered'[n] = answered[n]
  BY <1>1, <1>4 DEF SendInv, SendTypeOK
<1>10. SenderOK(r, answered'[m], Counted(m)')
  <2>1. Counted(m)' = s.records /\ r.completed = Cardinality(Counted(m)')
    BY <1>5, <1>6, <1>8
  <2>2. IsInjective(<<>>) /\ ToSet(<<>>) = {}
    BY EmptyOrder
  <2>3. r.todo = <<>> /\ r.phase = "done" /\ r.records = s.records
    BY <1>5, <1>6
  <2> QED
    BY <1>9, <2>1, <2>2, <2>3 DEF SenderOK
<1>11. \A d \in Sessions : Expects(r, d) <=> Expects(s, d)
  BY <1>4, <1>6 DEF Expects
<1>12. /\ sender' \in [Messages -> SenderRecord]
       /\ \A n \in Messages, d \in Sessions :
             /\ dispatcher'[n][d].stage = "none" <=> ~ Expects(sender'[n], d)
             /\ d \in sender'[n].records => session'[d].life # "fresh"
       /\ \A n \in Messages : SenderOK(sender'[n], answered'[n], Counted(n)')
  BY <1>1, <1>6, <1>8, <1>9, <1>10, <1>11, OneSender
<1>13. t \in SendTasks /\ t \notin LifeTasks /\ \A d \in Sessions : t # <<"send", d>>
  BY TaskKinds DEF DispatcherTasks
<1>14. \A x \in LifeTasks : x \in ToSet(queue') <=> x \in w
  BY <1>2, <1>13
<1>15. LifeInv'
  <2>1. frame' \in [of : Callbacks, rest : Rests] /\ (frame'.of = "none" => frame' = NoFrame)
    BY <1>1, <1>7 DEF Callbacks, Rests
  <2>2. \A d \in Sessions : SameRest(frame'.rest, frame.rest, d)
    BY <1>2, <1>7 DEF SameRest
  <2>3. \A d \in Sessions : <<"send", d>> \in ToSet(queue') => session[d].life # "fresh"
    BY <1>1, <1>2, SendsLive
  <2> QED
    BY <1>1, <1>2, <1>13, <1>14, <2>1, <2>2, <2>3, LifeSendTask
<1>16. ASSUME NEW d \in Sessions PROVE BusHolds(d)'
  <2>1. <<"stop_endpoint", d>> \in LifeTasks
    BY LifeTaskNames
  <2>2. Reachable(session[d], w, d) => Reachable(session'[d], ToSet(queue'), d)
    BY <1>1, <1>14, <2>1 DEF Reachable
  <2>3. <<"send", d>> \in ToSet(queue') <=> <<"send", d>> \in w
    BY <1>2, <1>13
  <2> QED
    BY <1>1, <2>2, <2>3, OtherBus
<1>17. ASSUME NEW n \in Messages, NEW d \in Sessions
       PROVE  DispatcherOK(dispatcher'[n][d], ToSet(queue'), frame'.rest, n, d)
  <2>1. DispatcherOK(dispatcher[n][d], w, <<>>, n, d)
    BY <1>1, <1>2, Sendings
  <2>2. <<"dispatcher", n, d>> \in ToSet(queue') <=> <<"dispatcher", n, d>> \in w /\ (n # m \/ d # c)
    BY <1>2
  <2>3. frame'.rest = <<"completed", n, d>> <=> n = m /\ d = c
    BY <1>7
  <2>4. dispatcher'[n][d] = dispatcher[n][d]
    BY <1>1
  <2> QED
    BY <1>1, <2>1, <2>2, <2>3, <2>4 DEF DispatcherOK
<1>18. SendTypeOK'
  BY <1>1, <1>9, <1>12 DEF SendInv, SendTypeOK
<1>19. SendInv'
  BY <1>12, <1>16, <1>17, <1>18, SendParts
<1> QED
  BY <1>15, <1>19 DEF CoreInv

\* ... and the others are counted, and their bus goes on.
LEMMA CountsOne ==
    ASSUME CoreInv, NEW m \in Messages, NEW c \in Sessions, DispatcherComplete(m, c),
           sender[m].completed + 1 # Cardinality(sender[m].records)
    PROVE  CoreInv'
<1> DEFINE t == <<"dispatcher", m, c>>
           w == ToSet(queue)
           s == sender[m]
           r == [s EXCEPT !.completed = s.completed + 1]
<1>1. /\ LifeInv /\ SendInv /\ Running(t) /\ dispatcher[m][c].stage = "complete"
      /\ sender' = [sender EXCEPT ![m] = r] /\ Completed(m, c, Tail(queue))
      /\ UNCHANGED <<api, proto, listed, peer, session, endpoint, answered, frame, manner, told>>
  BY DEF CoreInv, DispatcherComplete
<1>2. /\ t \in w /\ frame.rest = <<>> /\ QueueOK(Tail(queue)) /\ ToSet(Tail(queue)) = w \ {t}
      /\ \A x, y : Precedes(Tail(queue), x, y) <=> Precedes(queue, x, y) /\ x # t
  BY <1>1, Runs
<1>3. c \notin Counted(m)
  BY <1>1, <1>2 DEF Counted
<1>4. /\ s \in SenderRecord /\ SenderOK(s, answered[m], Counted(m)) /\ Expects(s, c) /\ session[c].life # "fresh"
      /\ s.phase = "dispatching" /\ answered[m] = 0
  BY <1>1, <1>3, Completing
<1>5. /\ s.completed + 1 \in Nat /\ s.completed + 1 = Cardinality(Counted(m) \union {c})
      /\ Counted(m) \union {c} # s.records
  BY <1>1, <1>3, CompletingCount
<1>6. /\ r \in SenderRecord /\ r.completed = s.completed + 1 /\ r.phase = "dispatching" /\ r.records = s.records
      /\ r.todo = s.todo
  BY <1>4, <1>5 DEF SenderRecord
<1> HIDE DEF r
<1>7. frame'.rest = <<>>
  BY <1>1, <1>2
<1>8. \A n \in Messages, d \in Sessions : frame.rest # <<"completed", n, d>> /\ frame'.rest # <<"completed", n, d>>
  BY <1>2, <1>7
<1>9. /\ bus' \in [Sessions -> BusRecord]
      /\ dispatcher' \in [Messages -> [Sessions -> DispatcherRecord]]
      /\ dispatcher'[m][c].stage = "done"
      /\ \A n \in Messages, d \in Sessions : n # m \/ d # c => dispatcher'[n][d] = dispatcher[n][d]
      /\ QueueOK(queue')
      /\ \A x \in LifeTasks : x \in ToSet(queue') <=> x \in ToSet(queue)
      /\ \A x, y \in LifeTasks : Precedes(queue', x, y) => Precedes(queue, x, y)
      /\ \A d \in Sessions : <<"send", d>> \in ToSet(queue') => <<"send", d>> \in ToSet(queue) \/ d = c
      /\ \A d \in Sessions : BusHolds(d)'
      /\ \A n \in Messages, d \in Sessions : DispatcherOK(dispatcher'[n][d], ToSet(queue'), frame'.rest, n, d)
  <2>1. \A x : x \in ToSet(Tail(queue)) <=> x \in ToSet(queue) /\ x # <<"dispatcher", m, c>>
    BY <1>2
  <2>2. \A x, y : Precedes(Tail(queue), x, y) => Precedes(queue, x, y)
    BY <1>2
  <2>3. \A n \in Messages, d \in Sessions : frame.rest = <<"completed", n, d>> => n = m /\ d = c
    BY <1>8
  <2>4. UNCHANGED session
    BY <1>1
  <2> QED
    BY <1>1, <1>2, <1>7, <2>1, <2>2, <2>3, <2>4, CompletedDone
<1>10. \A n \in Messages : Counted(n)' = IF n = m THEN Counted(m) \union {c} ELSE Counted(n)
  <2>1. \A n \in Messages : Counted(n)' = {d \in Sessions : dispatcher'[n][d].stage = "done"}
    BY <1>8 DEF Counted
  <2>2. \A n \in Messages : Counted(n) = {d \in Sessions : dispatcher[n][d].stage = "done"}
    BY <1>8 DEF Counted
  <2>3. ASSUME NEW n \in Messages, NEW d \in Sessions
        PROVE  dispatcher'[n][d].stage = "done" <=> dispatcher[n][d].stage = "done" \/ (n = m /\ d = c)
    <3>1. CASE n = m /\ d = c
      BY <1>9, <3>1
    <3>2. CASE n # m \/ d # c
      BY <1>9, <3>2
    <3> QED
      BY <3>1, <3>2
  <2>4. ASSUME NEW n \in Messages, n # m PROVE Counted(n)' = Counted(n)
    BY ZenonT(40), <2>1, <2>2, <2>3, <2>4
  <2>5. Counted(m)' = Counted(m) \union {c}
    BY <2>1, <2>2, <2>3
  <2> QED
    BY <2>4, <2>5
<1>11. SenderOK(r, answered'[m], Counted(m)')
  <2>1. Counted(m)' # s.records /\ r.completed = Cardinality(Counted(m)')
    BY <1>5, <1>6, <1>10
  <2> QED
    BY <1>1, <1>4, <1>6, <2>1 DEF SenderOK
<1>12. \A d \in Sessions : Expects(r, d) <=> Expects(s, d)
  BY <1>4, <1>6 DEF Expects
<1>13. \A n \in Messages, d \in Sessions : dispatcher'[n][d].stage = "none" <=> dispatcher[n][d].stage = "none"
  BY <1>1, <1>9
<1>14. \A n \in Messages \ {m} : answered'[n] = answered[n] /\ Counted(n)' = Counted(n)
  BY <1>1, <1>10
<1>15. /\ sender' \in [Messages -> SenderRecord]
       /\ \A n \in Messages, d \in Sessions :
             /\ dispatcher'[n][d].stage = "none" <=> ~ Expects(sender'[n], d)
             /\ d \in sender'[n].records => session'[d].life # "fresh"
       /\ \A n \in Messages : SenderOK(sender'[n], answered'[n], Counted(n)')
  BY <1>1, <1>6, <1>11, <1>12, <1>13, <1>14, OneSender
<1>16. t \in SendTasks
  BY TaskKinds DEF DispatcherTasks
<1>17. LifeInv'
  <2>1. frame' \in [of : Callbacks, rest : Rests] /\ (frame'.of = "none" => frame' = NoFrame)
        /\ \A d \in Sessions : SameRest(frame'.rest, frame.rest, d)
    BY <1>1 DEF LifeInv, LifeTypeOK, SameRest
  <2>2. \A d \in Sessions : <<"send", d>> \in ToSet(queue') => session[d].life # "fresh"
    BY <1>1, <1>4, <1>9, SendsLive
  <2> QED
    BY <1>1, <1>9, <1>16, <2>1, <2>2, LifeSendTask
<1>18. SendTypeOK'
  BY <1>1, <1>9, <1>15 DEF SendInv, SendTypeOK
<1>19. SendInv'
  BY <1>9, <1>15, <1>18, SendParts
<1> QED
  BY <1>17, <1>19 DEF CoreInv

LEMMA CoreDispatcherComplete ==
    ASSUME CoreInv, NEW m \in Messages, NEW c \in Sessions, DispatcherComplete(m, c) PROVE CoreInv'
  BY AnswersLast, CountsOne

\* The callback that gave the result returns, and the dispatcher is done.
LEMMA ReturnCompleted ==
    ASSUME CoreInv, Return, NEW m \in Messages, NEW c \in Sessions, frame.rest = <<"completed", m, c>>
    PROVE  CoreInv'
<1> DEFINE w == ToSet(queue)
<1>1. LifeInv /\ SendInv /\ QueueOK(queue)
  BY LifeTypes DEF CoreInv
<1>2. frame.rest # <<>> /\ frame.rest[1] = "completed" /\ frame.rest[2] = m /\ frame.rest[3] = c
  OBVIOUS
<1>3. /\ frame' = NoFrame /\ Completed(m, c, queue)
      /\ UNCHANGED <<api, proto, listed, peer, session, endpoint, sender, answered, manner, told>>
  BY <1>2 DEF Return
<1>4. frame'.rest = <<>>
  BY <1>3 DEF NoFrame
<1>5. \A n \in Messages, d \in Sessions :
         /\ frame.rest = <<"completed", n, d>> <=> n = m /\ d = c
         /\ frame'.rest # <<"completed", n, d>>
  BY <1>4
<1>6. dispatcher[m][c].stage = "complete" /\ <<"dispatcher", m, c>> \notin w
  <2>1. DispatcherOK(dispatcher[m][c], w, frame.rest, m, c)
    BY <1>1, Sendings
  <2> QED
    BY <2>1 DEF DispatcherOK
<1>7. session[c].life # "fresh"
  BY <1>1, <1>6, Completing
<1>8. LifeInv'
  BY <1>1, <1>5, <1>7, LifeReturn
<1>9. /\ bus' \in [Sessions -> BusRecord]
      /\ dispatcher' \in [Messages -> [Sessions -> DispatcherRecord]]
      /\ dispatcher'[m][c].stage = "done"
      /\ \A n \in Messages, d \in Sessions : n # m \/ d # c => dispatcher'[n][d] = dispatcher[n][d]
      /\ \A d \in Sessions : BusHolds(d)'
      /\ \A n \in Messages, d \in Sessions : DispatcherOK(dispatcher'[n][d], ToSet(queue'), frame'.rest, n, d)
  <2>1. \A x : x \in ToSet(queue) <=> x \in ToSet(queue) /\ x # <<"dispatcher", m, c>>
    BY <1>6
  <2>2. \A x, y : Precedes(queue, x, y) => Precedes(queue, x, y)
    OBVIOUS
  <2>3. \A n \in Messages, d \in Sessions : frame.rest = <<"completed", n, d>> => n = m /\ d = c
    BY <1>5
  <2>4. UNCHANGED session
    BY <1>3
  <2> QED
    BY <1>1, <1>3, <1>4, <1>6, <2>1, <2>2, <2>3, <2>4, CompletedDone
<1>10. \A n \in Messages : Counted(n)' = Counted(n)
  <2>1. \A n \in Messages : Counted(n)' = {d \in Sessions : dispatcher'[n][d].stage = "done"}
    BY <1>5 DEF Counted
  <2>2. \A n \in Messages : Counted(n) = {d \in Sessions : dispatcher[n][d].stage = "done" \/ (n = m /\ d = c)}
    BY <1>5 DEF Counted
  <2>3. ASSUME NEW n \in Messages, NEW d \in Sessions
        PROVE  dispatcher'[n][d].stage = "done" <=> dispatcher[n][d].stage = "done" \/ (n = m /\ d = c)
    <3>1. CASE n = m /\ d = c
      BY <1>9, <3>1
    <3>2. CASE n # m \/ d # c
      BY <1>9, <3>2
    <3> QED
      BY <3>1, <3>2
  <2>4. ASSUME NEW n \in Messages
        PROVE  {d \in Sessions : dispatcher'[n][d].stage = "done"}
               = {d \in Sessions : dispatcher[n][d].stage = "done" \/ (n = m /\ d = c)}
    BY <2>3
  <2> QED
    BY <2>1, <2>2, <2>4
<1>11. \A n \in Messages, d \in Sessions : dispatcher'[n][d].stage = "none" <=> dispatcher[n][d].stage = "none"
  BY <1>6, <1>9
<1>12. /\ \A n \in Messages, d \in Sessions :
             /\ dispatcher'[n][d].stage = "none" <=> ~ Expects(sender'[n], d)
             /\ d \in sender'[n].records => session'[d].life # "fresh"
       /\ \A n \in Messages : SenderOK(sender'[n], answered'[n], Counted(n)')
  BY <1>1, <1>3, <1>10, <1>11, Sendings
<1>13. SendTypeOK'
  BY <1>1, <1>3, <1>9 DEF SendInv, SendTypeOK
<1>14. SendInv'
  BY <1>9, <1>12, <1>13, SendParts
<1> QED
  BY <1>8, <1>14 DEF CoreInv

LEMMA CoreReturn == ASSUME CoreInv, Return PROVE CoreInv'
<1>1. CASE \E m \in Messages, c \in Sessions : frame.rest = <<"completed", m, c>>
  BY <1>1, ReturnCompleted
<1>2. CASE \A m \in Messages, c \in Sessions : frame.rest # <<"completed", m, c>>
  <2>1. LifeInv'
    BY <1>2, LifeReturn DEF CoreInv
  <2> QED
    BY <1>2, <2>1, KeptReturn, SendSame DEF CoreInv
<1> QED
  BY <1>1, <1>2

-----------------------------------------------------------------------------
(***************************************************************************)
(* The invariant holds from the start, and every step keeps it.            *)
(***************************************************************************)
LEMMA LifeInit == ASSUME Init PROVE LifeInv
<1>1. /\ api = [state |-> "STOPPED", starts |-> 0]
      /\ proto = [state |-> "NONE", mode |-> "NONE", extra |-> FALSE]
      /\ listed = <<>> /\ queue = <<>> /\ frame = [of |-> "none", rest |-> <<>>] /\ frame = NoFrame
      /\ manner \in Manners
  BY DEF Init, NoFrame
<1>2. /\ peer = [c \in Sessions |-> [state |-> "none", extra |-> FALSE]]
      /\ session = [c \in Sessions |-> [life |-> "fresh", state |-> "DISCONNECTED", peer |-> FALSE,
                                        endpoint |-> FALSE, ready |-> FALSE]]
      /\ endpoint = [c \in Sessions |-> [life |-> "fresh", extra |-> FALSE, ready |-> FALSE,
                                         scheduled |-> FALSE]]
      /\ told = [c \in Sessions |-> <<>>]
  BY DEF Init
<1>3. /\ ToSet(<<>>) = {} /\ IsInjective(<<>>) /\ \A x, y : ~ Precedes(<<>>, x, y)
  BY EmptyOrder
<1>4. peer \in [Sessions -> PeerRecord] /\ session \in [Sessions -> SessionRecord]
      /\ endpoint \in [Sessions -> EndpointRecord]
  BY <1>2 DEF PeerRecord, SessionRecord, EndpointRecord
<1>5. LifeTypeOK
  <2>1. \A S : <<>> \in Seq(S)
    OBVIOUS
  <2>2. {c \in Sessions : session[c].life = "live"} = {}
    BY <1>2
  <2>3. frame \in [of : Callbacks, rest : Rests]
    BY <1>1 DEF Callbacks, Rests
  <2> QED
    BY <1>1, <1>2, <1>3, <1>4, <2>1, <2>2, <2>3 DEF LifeTypeOK
<1>6. ASSUME NEW c \in Sessions
      PROVE  SlotOK(session[c], peer[c], endpoint[c], told[c], ToSet(queue), frame.rest, c)
  <2>1. /\ peer[c] = [state |-> "none", extra |-> FALSE]
        /\ session[c] = [life |-> "fresh", state |-> "DISCONNECTED", peer |-> FALSE, endpoint |-> FALSE,
                         ready |-> FALSE]
        /\ endpoint[c] = [life |-> "fresh", extra |-> FALSE, ready |-> FALSE, scheduled |-> FALSE]
        /\ told[c] = <<>> /\ frame.rest = <<>> /\ ToSet(queue) = {}
    BY <1>1, <1>2, <1>3
  <2> QED
    BY <2>1 DEF SlotOK
<1>7. Protocol(ToSet(queue))
  BY <1>1, <1>2, <1>3 DEF Protocol
<1>8. Orders
  BY <1>1, <1>3 DEF Orders
<1> QED
  BY <1>5, <1>6, <1>7, <1>8 DEF LifeInv, Slots

LEMMA SendInit == ASSUME Init PROVE SendInv
<1>1. /\ bus = [c \in Sessions |-> NewBus]
      /\ sender = [m \in Messages |-> [phase |-> "free", records |-> {}, todo |-> <<>>, completed |-> 0]]
      /\ dispatcher = [m \in Messages |-> [c \in Sessions |-> [stage |-> "none", canceled |-> FALSE]]]
      /\ answered = [m \in Messages |-> 0] /\ queue = <<>> /\ frame.rest = <<>>
  BY DEF Init, NoFrame
<1>2. /\ ToSet(<<>>) = {} /\ IsInjective(<<>>) /\ \A S : <<>> \in Seq(S)
  BY EmptyOrder
<1>3. NewBus \in BusRecord
  BY <1>2 DEF NewBus, BusRecord
<1>4. [phase |-> "free", records |-> {}, todo |-> <<>>, completed |-> 0] \in SenderRecord
  BY <1>2 DEF SenderRecord
<1>5. [stage |-> "none", canceled |-> FALSE] \in DispatcherRecord
  BY DEF DispatcherRecord
<1>6. SendTypeOK
  BY <1>1, <1>3, <1>4, <1>5 DEF SendTypeOK
<1>7. ToSet(queue) = {}
  BY <1>1, <1>2
<1>8. \A m \in Messages, c \in Sessions : dispatcher[m][c] = [stage |-> "none", canceled |-> FALSE]
  BY <1>1
<1>9. ASSUME NEW m \in Messages, NEW c \in Sessions
      PROVE  /\ DispatcherOK(dispatcher[m][c], ToSet(queue), frame.rest, m, c)
             /\ dispatcher[m][c].stage = "none" <=> ~ Expects(sender[m], c)
             /\ c \in sender[m].records => session[c].life # "fresh"
  <2>1. sender[m].records = {}
    BY <1>1
  <2>2. dispatcher[m][c].stage = "none" /\ ~ dispatcher[m][c].canceled
    BY <1>8
  <2> QED
    BY <1>1, <1>7, <2>1, <2>2 DEF DispatcherOK, Expects
<1>10. ASSUME NEW c \in Sessions PROVE BusHolds(c)
  <2>1. bus[c].pending = <<>> /\ bus[c].current = None /\ ~ bus[c].processing /\ ~ bus[c].stop
    BY <1>1 DEF NewBus
  <2>2. \A m \in Messages : dispatcher[m][c].stage = "none" /\ m # None
    BY <1>8, SessionsAssumption
  <2> QED
    BY <1>2, <1>7, <2>1, <2>2 DEF BusHolds
<1>11. ASSUME NEW m \in Messages PROVE SenderOK(sender[m], answered[m], Counted(m))
  <2>1. Counted(m) = {}
    BY <1>1, <1>8 DEF Counted
  <2>2. /\ sender[m].phase = "free" /\ sender[m].records = {} /\ sender[m].todo = <<>> /\ sender[m].completed = 0
        /\ answered[m] = 0
    BY <1>1
  <2>3. Cardinality({}) = 0
    BY FS_EmptySet
  <2> QED
    BY <1>2, <2>1, <2>2, <2>3 DEF SenderOK
<1>12. \A c \in Sessions :
          BusOK(bus[c], [m \in Messages |-> dispatcher[m][c]], ToSet(queue), session[c].life, c)
  BY <1>10, BusFlat
<1> QED
  BY <1>6, <1>9, <1>11, <1>12 DEF SendInv

LEMMA CoreLife == ASSUME CoreInv, LifeInv', SendKept PROVE CoreInv'
  BY SendSame DEF CoreInv

LEMMA CoreTask == ASSUME CoreInv, Task PROVE CoreInv'
<1>0. LifeInv
  BY DEF CoreInv
<1>1. ASSUME NEW c \in Sessions, OnReady(c) PROVE CoreInv'
  BY <1>0, <1>1, LifeOnReady, KeptOnReady, CoreLife
<1>2. ASSUME NEW c \in Sessions, SessionDisconnect(c) PROVE CoreInv'
  BY <1>0, <1>2, LifeSessionDisconnect, KeptSessionDisconnect, CoreLife
<1>3. ASSUME NEW c \in Sessions, PeerDisconnect(c) PROVE CoreInv'
  BY <1>0, <1>3, LifePeerDisconnect, KeptPeerDisconnect, CoreLife
<1>4. ASSUME NEW c \in Sessions, SessionDisconnected(c) PROVE CoreInv'
  BY <1>0, <1>4, LifeSessionDisconnected, KeptSessionDisconnected, CoreLife
<1>5. ASSUME NEW c \in Sessions, StopEndpoint(c) PROVE CoreInv'
  BY <1>5, CoreStopEndpoint
<1>6. ASSUME NEW c \in Sessions, DestroyEndpoint(c) PROVE CoreInv'
  BY <1>0, <1>6, LifeDestroyEndpoint, KeptProtocol, CoreLife
<1>7. ASSUME NEW c \in Sessions, BusSend(c) PROVE CoreInv'
  BY <1>7, CoreBusSend
<1>8. ASSUME NEW m \in Messages, NEW c \in Sessions, DispatcherDispatch(m, c) PROVE CoreInv'
  BY <1>8, CoreDispatcherDispatch
<1>9. ASSUME NEW m \in Messages, NEW c \in Sessions, DispatcherComplete(m, c) PROVE CoreInv'
  BY <1>9, CoreDispatcherComplete
<1>10. CASE SocketStop
  BY <1>0, <1>10, LifeSocketStop, KeptSocketStop, CoreLife
<1>11. CASE ProtocolStop
  BY <1>0, <1>11, LifeProtocolStop, KeptProtocol, CoreLife
<1>12. CASE ProtocolDestroy
  BY <1>0, <1>12, LifeProtocolDestroy, KeptProtocol, CoreLife
<1>13. ASSUME NEW m \in Messages, NextRecord(m) PROVE CoreInv'
  BY <1>13, CoreNextRecord
<1> QED
  BY <1>1, <1>2, <1>3, <1>4, <1>5, <1>6, <1>7, <1>8, <1>9, <1>10, <1>11, <1>12, <1>13 DEF Task

LEMMA CoreEvent == ASSUME CoreInv, Event PROVE CoreInv'
<1>0. LifeInv
  BY DEF CoreInv
<1>1. ASSUME NEW c \in Sessions, PeerConnects(c) PROVE CoreInv'
  BY <1>0, <1>1, LifePeerConnects, KeptPeerConnects, CoreLife
<1>2. ASSUME NEW c \in Sessions, NEW result \in {"connected", "denied"}, ConnectResult(c, result) PROVE CoreInv'
  BY <1>0, <1>2, LifeConnectResult, KeptConnectResult, CoreLife
<1>3. ASSUME NEW c \in Sessions, CheckReady(c) PROVE CoreInv'
  BY <1>0, <1>3, LifeCheckReady, KeptCheckReady, CoreLife
<1>4. ASSUME NEW c \in Sessions, OnReceived(c) PROVE CoreInv'
  BY <1>0, <1>4, LifeOnReceived, KeptStarting, CoreLife
<1>5. ASSUME NEW c \in Sessions, DisconnectSent(c) PROVE CoreInv'
  BY <1>0, <1>5, LifeDisconnectSent, KeptDisconnectSent, CoreLife
<1>6. ASSUME NEW C \in (SUBSET Sessions) \ {{}}, PeersLost(C) PROVE CoreInv'
  BY <1>0, <1>6, LifePeersLost, KeptPeersLost, CoreLife
<1>7. ASSUME NEW m \in Messages, NEW c \in Sessions, Acked(m, c) PROVE CoreInv'
  BY <1>7, CoreAcked
<1>8. ASSUME NEW m \in Messages, ChecksumDone(m) PROVE CoreInv'
  BY <1>8, CoreChecksumDone
<1> QED
  BY <1>1, <1>2, <1>3, <1>4, <1>5, <1>6, <1>7, <1>8 DEF Event

LEMMA CoreApplication == ASSUME CoreInv, Application PROVE CoreInv'
<1>0. LifeInv
  BY DEF CoreInv
<1>1. CASE Listen
  BY <1>0, <1>1, LifeListen, KeptStarting, CoreLife
<1>2. ASSUME NEW c \in Sessions, Connect(c) PROVE CoreInv'
  BY <1>0, <1>2, LifeConnect, KeptStarting, CoreLife
<1>3. ASSUME NEW c \in Sessions, Disconnect(c) PROVE CoreInv'
  BY <1>0, <1>3, LifeDisconnect, KeptProtocol, CoreLife
<1>4. ASSUME NEW m \in Messages, SocketSend(m) PROVE CoreInv'
  BY <1>4, CoreSocketSend
<1>5. ASSUME NEW m \in Messages, NEW c \in Sessions, SessionSend(m, c) PROVE CoreInv'
  BY <1>5, CoreSessionSend
<1>6. CASE Stop
  BY <1>0, <1>6, LifeStop, KeptProtocol, CoreLife
<1> QED
  BY <1>1, <1>2, <1>3, <1>4, <1>5, <1>6 DEF Application

\* The socket's list, the sessions, the peers, the endpoints, the protocol
\* socket, the tasks and the callback under way fit together in every state,
\* and so do the buses, the dispatchers and the senders.
THEOREM CoreInvariant == Spec => []CoreInv
<1>1. Init => CoreInv
  BY LifeInit, SendInit DEF CoreInv
<1>2. CoreInv /\ [Next]_vars => CoreInv'
  <2> SUFFICES ASSUME CoreInv, [Next]_vars PROVE CoreInv'
    OBVIOUS
  <2>1. CASE Next
    BY <2>1, CoreTask, CoreEvent, CoreApplication, CoreReturn DEF Next
  <2>2. CASE UNCHANGED vars
    BY <2>2, CoreSame DEF vars
  <2> QED
    BY <2>1, <2>2
<1> QED
  BY <1>1, <1>2, PTL DEF Spec

-----------------------------------------------------------------------------
LEMMA RestFits == ASSUME CoreInv PROVE AtRest
<1> SUFFICES ASSUME Idle PROVE AtRest
  BY DEF AtRest
<1>1. LifeInv /\ SendInv /\ ToSet(queue) = {} /\ frame.rest = <<>>
  BY Idles DEF CoreInv
<1>2. ToSet(listed) = {c \in Sessions : session[c].life = "live"} /\ IsInjective(listed)
  BY <1>1 DEF LifeInv, LifeTypeOK
<1>3. ASSUME NEW c \in Sessions
      PROVE  /\ session[c].life = "live" => session[c].peer /\ session[c].endpoint
             /\ endpoint[c].scheduled <=> session[c].life = "live"
             /\ endpoint[c].life = "live" <=> session[c].life = "live"
             /\ peer[c].extra <=> session[c].life = "live"
             /\ peer[c].extra => peer[c].state = "connected"
  <2>1. SlotOK(session[c], peer[c], endpoint[c], told[c], {}, <<>>, c)
    BY <1>1, LifeTypes
  <2> QED
    BY <2>1 DEF SlotOK
<1>4. ASSUME NEW c \in Sessions, NEW m \in Messages, dispatcher[m][c].stage = "acking" PROVE session[c].peer
  <2>1. BusHolds(c)
    BY <1>1, Sendings
  <2>2. ~ bus[c].stop
    BY <1>1, <2>1 DEF BusHolds
  <2>3. Reachable(session[c], {}, c)
    BY <1>1, <1>4, <2>1, <2>2 DEF BusHolds
  <2> QED
    BY <1>3, <2>3 DEF Reachable
<1> QED
  BY <1>2, <1>3, <1>4 DEF AtRest

LEMMA StoppedFits == ASSUME CoreInv PROVE StoppedHoldsNothing
<1> SUFFICES ASSUME Idle, api.state = "STOPPED" PROVE StoppedHoldsNothing
  BY DEF StoppedHoldsNothing
<1>1. LifeInv /\ SendInv /\ ToSet(queue) = {} /\ frame.rest = <<>>
  BY Idles DEF CoreInv
<1>2. proto.state = "NONE" /\ \A c \in Sessions : session[c].life # "live" /\ peer[c].state = "none"
  BY <1>1 DEF LifeInv, Protocol
<1>3. listed = <<>>
  <2>1. listed \in Seq(Sessions) /\ ToSet(listed) = {c \in Sessions : session[c].life = "live"}
    BY <1>1 DEF LifeInv, LifeTypeOK
  <2>2. ToSet(listed) = {}
    BY <1>2, <2>1
  <2> QED
    BY <2>1, <2>2, EmptyOrder
<1>4. ASSUME NEW c \in Sessions PROVE bus[c].pending = <<>> /\ bus[c].current = None
  <2>1. BusHolds(c) /\ bus[c] \in BusRecord
    BY <1>1, Sendings
  <2>2. ~ bus[c].processing /\ ~ bus[c].stop
    BY <1>1, <2>1 DEF BusHolds
  <2>3. ASSUME NEW m \in Messages, bus[c].current = m PROVE FALSE
    <3>1. dispatcher[m][c].stage \in {"dispatch", "acking", "complete"}
      BY <2>1, <2>3 DEF BusHolds
    <3>2. DispatcherOK(dispatcher[m][c], {}, <<>>, m, c)
      BY <1>1, Sendings
    <3>3. dispatcher[m][c].stage = "acking"
      BY <3>1, <3>2 DEF DispatcherOK
    <3>4. Reachable(session[c], {}, c)
      BY <1>1, <2>1, <2>2, <3>3 DEF BusHolds
    <3> QED
      BY <1>2, <3>4 DEF Reachable
  <2>4. bus[c].current = None
    BY <2>1, <2>3 DEF BusRecord
  <2> QED
    BY <2>1, <2>2, <2>4 DEF BusHolds
<1> QED
  BY <1>2, <1>3, <1>4 DEF StoppedHoldsNothing

\* Whatever was asked for in which callback, and whichever of its tasks ran
\* last: between two runs of the sequencer the list holds the sessions that
\* live, each with its peer and an endpoint that pings, nothing that is reached
\* from outside belongs to a session that is gone, and a stopped socket holds
\* nothing (api/socket.c, api/builtin/session.c, delivery/endpoint.c, bus.c).
THEOREM WhatIsOverLeavesNothing == Spec => []NothingIsLeft
<1>1. CoreInv => NothingIsLeft
  BY RestFits, StoppedFits DEF NothingIsLeft
<1> QED
  BY <1>1, CoreInvariant, PTL

-----------------------------------------------------------------------------
(***************************************************************************)
(* The callbacks: each step is one of SessionEvents, or tells nothing.     *)
(***************************************************************************)
SeenOf(s, t) ==
    CASE s.life = "fresh" -> "fresh"
      [] s.life = "released" -> "gone"
      [] OTHER -> IF t = <<>> THEN "silent" ELSE Last(t)

AnswerOf(a, s) ==
    CASE a > 0 -> IF a = 1 THEN "answered" ELSE "twice"
      [] s.phase = "free" -> "idle"
      [] OTHER -> "sent"

SeenMap == [c \in Sessions |-> SeenOf(session[c], told[c])]
AnswerMap == [m \in Messages |-> AnswerOf(answered[m], sender[m])]

EventStep == [Events!EventsNext]_(Events!eventVars)

\* A step that tells nothing and sends nothing.
LEMMA NoEvent ==
    ASSUME \A c \in Sessions : SeenOf(session'[c], told'[c]) = SeenOf(session[c], told[c]),
           \A m \in Messages : AnswerOf(answered'[m], sender'[m]) = AnswerOf(answered[m], sender[m])
    PROVE  EventStep
<1>1. SeenMap' = SeenMap /\ AnswerMap' = AnswerMap
  BY DEF SeenMap, AnswerMap
<1> QED
  BY <1>1 DEF EventStep, Events!eventVars, SeenMap, AnswerMap, SeenOf, AnswerOf

\* One session goes on to its next stage.
LEMMA SessionEvent ==
    ASSUME NEW c \in Sessions,
           \A d \in Sessions \ {c} : SeenOf(session'[d], told'[d]) = SeenOf(session[d], told[d]),
           \A m \in Messages : AnswerOf(answered'[m], sender'[m]) = AnswerOf(answered[m], sender[m]),
           <<SeenOf(session[c], told[c]), SeenOf(session'[c], told'[c])>> \in
               {<<"fresh", "silent">>, <<"silent", "connected">>, <<"connected", "disconnected">>}
    PROVE  EventStep
<1> DEFINE next == SeenOf(session'[c], told'[c])
<1>1. SeenMap' = [SeenMap EXCEPT ![c] = next] /\ AnswerMap' = AnswerMap /\ SeenMap[c] = SeenOf(session[c], told[c])
  BY DEF SeenMap, AnswerMap
<1> HIDE DEF next
<1>2. CASE SeenMap[c] = "fresh" /\ next = "silent"
  <2>1. SeenMap[c] = "fresh" /\ SeenMap' = [SeenMap EXCEPT ![c] = "silent"] /\ AnswerMap' = AnswerMap
    BY <1>1, <1>2
  <2>2. Events!Exists(c)
    BY <2>1 DEF Events!Exists, SeenMap, AnswerMap, SeenOf, AnswerOf
  <2> QED
    BY <2>2 DEF EventStep, Events!EventsNext
<1>3. CASE SeenMap[c] = "silent" /\ next = "connected"
  <2>1. SeenMap[c] = "silent" /\ SeenMap' = [SeenMap EXCEPT ![c] = "connected"] /\ AnswerMap' = AnswerMap
    BY <1>1, <1>3
  <2>2. Events!Announced(c)
    BY <2>1 DEF Events!Announced, SeenMap, AnswerMap, SeenOf, AnswerOf
  <2> QED
    BY <2>2 DEF EventStep, Events!EventsNext
<1>4. CASE SeenMap[c] = "connected" /\ next = "disconnected"
  <2>1. SeenMap[c] = "connected" /\ SeenMap' = [SeenMap EXCEPT ![c] = "disconnected"] /\ AnswerMap' = AnswerMap
    BY <1>1, <1>4
  <2>2. Events!TakenBack(c)
    BY <2>1 DEF Events!TakenBack, SeenMap, AnswerMap, SeenOf, AnswerOf
  <2> QED
    BY <2>2 DEF EventStep, Events!EventsNext
<1> QED
  BY <1>1, <1>2, <1>3, <1>4 DEF next

\* Some sessions are cleaned up.
LEMMA CleanupEvent ==
    ASSUME NEW C \in SUBSET Sessions,
           \A d \in Sessions \ C : SeenOf(session'[d], told'[d]) = SeenOf(session[d], told[d]),
           \A m \in Messages : AnswerOf(answered'[m], sender'[m]) = AnswerOf(answered[m], sender[m]),
           \A c \in C : /\ SeenOf(session[c], told[c]) \in {"silent", "connected", "disconnected"}
                        /\ SeenOf(session'[c], told'[c]) = "gone"
    PROVE  EventStep
<1>1. CASE C = {}
  BY <1>1, NoEvent
<1>2. CASE C # {}
  <2>1. /\ \A c \in C : SeenMap[c] \in {"silent", "connected", "disconnected"}
        /\ SeenMap' = [c \in Sessions |-> IF c \in C THEN "gone" ELSE SeenMap[c]]
        /\ AnswerMap' = AnswerMap
    BY DEF SeenMap, AnswerMap
  <2>2. Events!CleanedUp(C)
    BY <2>1 DEF Events!CleanedUp, SeenMap, AnswerMap, SeenOf, AnswerOf
  <2> QED
    BY <1>2, <2>2 DEF EventStep, Events!EventsNext
<1> QED
  BY <1>1, <1>2

\* One message is sent, or answered.
LEMMA MessageEvent ==
    ASSUME NEW m \in Messages,
           \A c \in Sessions : SeenOf(session'[c], told'[c]) = SeenOf(session[c], told[c]),
           \A n \in Messages \ {m} : AnswerOf(answered'[n], sender'[n]) = AnswerOf(answered[n], sender[n]),
           <<AnswerOf(answered[m], sender[m]), AnswerOf(answered'[m], sender'[m])>> \in
               {<<"idle", "sent">>, <<"idle", "answered">>, <<"sent", "answered">>}
    PROVE  EventStep
<1> DEFINE next == AnswerOf(answered'[m], sender'[m])
<1>1. /\ AnswerMap' = [AnswerMap EXCEPT ![m] = next] /\ SeenMap' = SeenMap
      /\ AnswerMap[m] = AnswerOf(answered[m], sender[m])
  BY DEF SeenMap, AnswerMap
<1> HIDE DEF next
<1>2. CASE AnswerMap[m] = "idle" /\ next = "sent"
  <2>1. AnswerMap[m] = "idle" /\ AnswerMap' = [AnswerMap EXCEPT ![m] = "sent"] /\ SeenMap' = SeenMap
    BY <1>1, <1>2
  <2>2. Events!Sent(m)
    BY <2>1 DEF Events!Sent, SeenMap, AnswerMap, SeenOf, AnswerOf
  <2> QED
    BY <2>2 DEF EventStep, Events!EventsNext
<1>3. CASE AnswerMap[m] \in {"idle", "sent"} /\ next = "answered"
  <2>1. AnswerMap[m] \in {"idle", "sent"} /\ AnswerMap' = [AnswerMap EXCEPT ![m] = "answered"] /\ SeenMap' = SeenMap
    BY <1>1, <1>3
  <2>2. Events!Answered(m)
    BY <2>1 DEF Events!Answered, SeenMap, AnswerMap, SeenOf, AnswerOf
  <2> QED
    BY <2>2 DEF EventStep, Events!EventsNext
<1> QED
  BY <1>1, <1>2, <1>3 DEF next

LEMMA Stages ==
    ASSUME LifeInv, NEW c \in Sessions
    PROVE  /\ session[c].life \in {"fresh", "live", "released"}
           /\ session[c].life = "fresh" => told[c] = <<>> /\ SeenOf(session[c], told[c]) = "fresh"
           /\ session[c].life = "released" => SeenOf(session[c], told[c]) = "gone"
           /\ session[c].life = "live" /\ ~ session[c].ready =>
                 told[c] = <<>> /\ SeenOf(session[c], told[c]) = "silent"
           /\ session[c].life = "live" /\ session[c].ready /\ frame.rest # <<"let_go", c>> =>
                 told[c] = <<"connected">> /\ SeenOf(session[c], told[c]) = "connected"
           /\ session[c].life = "live" /\ session[c].ready /\ frame.rest = <<"let_go", c>> =>
                 SeenOf(session[c], told[c]) = "disconnected"
<1>1. /\ SlotOK(session[c], peer[c], endpoint[c], told[c], ToSet(queue), frame.rest, c)
      /\ session[c] \in SessionRecord
  BY LifeTypes
<1>2. session[c].life \in {"fresh", "live", "released"}
  BY <1>1 DEF SessionRecord
<1>3. session[c].life = "fresh" => told[c] = <<>>
  BY <1>1 DEF SlotOK
<1>4. session[c].life = "live" =>
         told[c] = IF ~ session[c].ready THEN <<>>
                   ELSE IF frame.rest = <<"let_go", c>> THEN <<"connected", "disconnected">> ELSE <<"connected">>
  BY <1>1 DEF SlotOK
<1>5. /\ Last(<<"connected">>) = "connected" /\ <<"connected">> # <<>>
      /\ Last(<<"connected", "disconnected">>) = "disconnected" /\ <<"connected", "disconnected">> # <<>>
  BY DEF Last
<1> QED
  BY <1>2, <1>3, <1>4, <1>5 DEF SeenOf

LEMMA AnswerStages ==
    ASSUME SendInv, NEW m \in Messages
    PROVE  /\ sender[m].phase = "free" => AnswerOf(answered[m], sender[m]) = "idle"
           /\ sender[m].phase \in {"summing", "dispatching"} => AnswerOf(answered[m], sender[m]) = "sent"
           /\ sender[m].phase = "done" => AnswerOf(answered[m], sender[m]) = "answered"
<1>1. SenderOK(sender[m], answered[m], Counted(m))
  BY Sendings
<1> QED
  BY <1>1 DEF SenderOK, AnswerOf

LEMMA QuietLives ==
    ASSUME \A c \in Sessions : session'[c].life = session[c].life, UNCHANGED <<told, sender, answered>>
    PROVE  EventStep
<1>1. \A c \in Sessions : SeenOf(session'[c], told'[c]) = SeenOf(session[c], told[c])
  BY DEF SeenOf
<1>2. \A m \in Messages : AnswerOf(answered'[m], sender'[m]) = AnswerOf(answered[m], sender[m])
  OBVIOUS
<1> QED
  BY <1>1, <1>2, NoEvent

LEMMA QuietSender ==
    ASSUME SendInv, NEW m \in Messages, UNCHANGED <<session, told, answered>>, NEW r,
           sender' = [sender EXCEPT ![m] = r], sender[m].phase # "free", r.phase # "free"
    PROVE  EventStep
<1>1. \A n \in Messages : IF n = m THEN sender'[n] = r ELSE sender'[n] = sender[n]
  BY DEF SendInv, SendTypeOK
<1>2. \A n \in Messages : AnswerOf(answered'[n], sender'[n]) = AnswerOf(answered[n], sender[n])
  BY <1>1 DEF AnswerOf
<1>3. \A c \in Sessions : SeenOf(session'[c], told'[c]) = SeenOf(session[c], told[c])
  OBVIOUS
<1> QED
  BY <1>2, <1>3, NoEvent

LEMMA LetGoSession ==
    ASSUME session \in [Sessions -> SessionRecord], NEW c \in Sessions,
           session' = [session EXCEPT ![c].endpoint = FALSE, ![c].life = "released"]
    PROVE  session'[c].life = "released" /\ \A d \in Sessions \ {c} : session'[d] = session[d]
<1> DEFINE r == [session[c] EXCEPT !.endpoint = FALSE, !.life = "released"]
<1>1. session' = [d \in Sessions |-> IF d = c THEN r ELSE session[d]]
  OBVIOUS
<1>2. r.life = "released"
  BY DEF SessionRecord
<1> QED
  BY <1>1, <1>2

LEMMA EventTask == ASSUME CoreInv, Task PROVE EventStep
<1>0. LifeInv /\ SendInv
  BY DEF CoreInv
<1>1. ASSUME NEW c \in Sessions, OnReady(c) PROVE EventStep
  <2>1. /\ Running(<<"ready", c>>) /\ UNCHANGED <<sender, answered>>
        /\ IF endpoint[c].extra
           THEN /\ session' = [session EXCEPT ![c].ready = TRUE, ![c].state = "CONNECTED"]
                /\ told' = [told EXCEPT ![c] = Append(@, "connected")]
           ELSE UNCHANGED <<session, told>>
    BY <1>1 DEF OnReady, sending
  <2>2. CASE ~ endpoint[c].extra
    BY <2>1, <2>2, QuietLives
  <2>3. CASE endpoint[c].extra
    <3>1. <<"ready", c>> \in ToSet(queue) /\ frame.rest = <<>>
      BY <1>0, <2>1, Runs
    <3>2. session[c].life = "live" /\ ~ session[c].ready
      <4>1. SlotOK(session[c], peer[c], endpoint[c], told[c], ToSet(queue), frame.rest, c)
        BY <1>0, LifeTypes
      <4> QED
        BY <3>1, <4>1 DEF SlotOK
    <3>3. told[c] = <<>> /\ SeenOf(session[c], told[c]) = "silent"
      BY <1>0, <3>2, Stages
    <3>4. /\ session'[c].life = "live" /\ \A d \in Sessions \ {c} : session'[d] = session[d]
      <4>1. session \in [Sessions -> SessionRecord]
        BY <1>0 DEF LifeInv, LifeTypeOK
      <4>2. session' = [d \in Sessions |-> IF d = c THEN [session[c] EXCEPT !.ready = TRUE, !.state = "CONNECTED"]
                                           ELSE session[d]]
        BY <2>1, <2>3, <4>1
      <4>3. [session[c] EXCEPT !.ready = TRUE, !.state = "CONNECTED"].life = session[c].life
        BY <4>1 DEF SessionRecord
      <4> QED
        BY <3>2, <4>2, <4>3
    <3>5. told'[c] = <<"connected">> /\ \A d \in Sessions \ {c} : told'[d] = told[d]
      <4>1. Append(<<>>, "connected") = <<"connected">>
        OBVIOUS
      <4>2. DOMAIN told = Sessions
        BY <1>0 DEF LifeInv, LifeTypeOK
      <4> QED
        BY <2>1, <2>3, <3>3, <4>1, <4>2
    <3>6. SeenOf(session'[c], told'[c]) = "connected"
      BY <3>4, <3>5 DEF SeenOf, Last
    <3>7. \A d \in Sessions \ {c} : SeenOf(session'[d], told'[d]) = SeenOf(session[d], told[d])
      BY <3>4, <3>5
    <3>8. \A m \in Messages : AnswerOf(answered'[m], sender'[m]) = AnswerOf(answered[m], sender[m])
      BY <2>1
    <3> QED
      BY <3>3, <3>6, <3>7, <3>8, SessionEvent
  <2> QED
    BY <2>2, <2>3
<1>2. ASSUME NEW c \in Sessions, SessionDisconnect(c) \/ StopEndpoint(c) \/ DestroyEndpoint(c) \/ BusSend(c)
      PROVE  EventStep
  <2>1. UNCHANGED <<session, told, sender, answered>>
    BY <1>2 DEF SessionDisconnect, StopEndpoint, DestroyEndpoint, BusSend, objects, sending
  <2> QED
    BY <2>1, QuietLives
<1>3. ASSUME NEW c \in Sessions, PeerDisconnect(c) PROVE EventStep
  <2>1. /\ UNCHANGED <<told, sender, answered>>
        /\ UNCHANGED session \/ OnDisconnected({c}, "disconnecting")
    BY <1>3 DEF PeerDisconnect, sending
  <2>2. \A d \in Sessions : session'[d].life = session[d].life
    BY <1>0, <2>1, Disconnecting
  <2> QED
    BY <2>1, <2>2, QuietLives
<1>4. ASSUME NEW c \in Sessions, SessionDisconnected(c) PROVE EventStep
  <2>0. Running(<<"disconnected", c>>) /\ UNCHANGED <<sender, answered>>
    BY <1>4 DEF SessionDisconnected, sending
  <2>1. /\ \A m \in Messages : AnswerOf(answered'[m], sender'[m]) = AnswerOf(answered[m], sender[m])
        /\ frame.rest = <<>> /\ DOMAIN told = Sessions /\ session \in [Sessions -> SessionRecord]
    BY <1>0, <2>0, Runs DEF LifeInv, LifeTypeOK
  <2>2. session[c].endpoint => session[c].life = "live"
    <3>1. SlotOK(session[c], peer[c], endpoint[c], told[c], ToSet(queue), frame.rest, c)
      BY <1>0, LifeTypes
    <3> QED
      BY <3>1 DEF SlotOK
  <2>3. CASE UNCHANGED <<session, told>>
    BY <2>0, <2>3, QuietLives
  <2>4. CASE /\ session[c].endpoint /\ session[c].ready /\ UNCHANGED session
             /\ told' = [told EXCEPT ![c] = Append(@, "disconnected")]
    <3>1. told[c] = <<"connected">> /\ SeenOf(session[c], told[c]) = "connected"
      BY <1>0, <2>1, <2>2, <2>4, Stages
    <3>2. told'[c] = <<"connected", "disconnected">> /\ \A d \in Sessions \ {c} : told'[d] = told[d]
      <4>1. Append(<<"connected">>, "disconnected") = <<"connected", "disconnected">>
        BY "connected" \in {"connected", "disconnected"}, "disconnected" \in {"connected", "disconnected"}, AppendToOne
      <4> QED
        BY <2>1, <2>4, <3>1, <4>1
    <3>3. SeenOf(session'[c], told'[c]) = "disconnected"
      <4>1. Last(<<"connected", "disconnected">>) = "disconnected" /\ <<"connected", "disconnected">> # <<>>
        BY DEF Last
      <4> QED
        BY <2>2, <2>4, <3>2, <4>1 DEF SeenOf
    <3>4. \A d \in Sessions \ {c} : SeenOf(session'[d], told'[d]) = SeenOf(session[d], told[d])
      BY <2>4, <3>2
    <3> QED
      BY <2>1, <3>1, <3>3, <3>4, SessionEvent
  <2>5. CASE /\ session[c].endpoint /\ ~ session[c].ready /\ UNCHANGED told
             /\ session' = [session EXCEPT ![c].endpoint = FALSE, ![c].life = "released"]
    <3>1. SeenOf(session[c], told[c]) = "silent"
      BY <1>0, <2>2, <2>5, Stages
    <3>2. session'[c].life = "released" /\ \A d \in Sessions \ {c} : session'[d] = session[d]
      BY <2>1, <2>5, LetGoSession
    <3>3. \A d \in Sessions \ {c} : SeenOf(session'[d], told'[d]) = SeenOf(session[d], told[d])
      BY <2>5, <3>2
    <3>4. SeenOf(session'[c], told'[c]) = "gone"
      BY <3>2 DEF SeenOf
    <3> DEFINE C == {c}
    <3>6. /\ C \in SUBSET Sessions
          /\ \A d \in Sessions \ C : SeenOf(session'[d], told'[d]) = SeenOf(session[d], told[d])
          /\ \A d \in C : /\ SeenOf(session[d], told[d]) \in {"silent", "connected", "disconnected"}
                          /\ SeenOf(session'[d], told'[d]) = "gone"
      BY <3>1, <3>3, <3>4
    <3> HIDE DEF C
    <3> QED
      BY <2>1, <3>6, CleanupEvent
  <2> QED
    BY <1>4, <2>3, <2>4, <2>5 DEF SessionDisconnected, LetGo
<1>5. ASSUME NEW m \in Messages, NEW c \in Sessions, DispatcherDispatch(m, c) PROVE EventStep
  <2>1. UNCHANGED <<session, told, sender, answered>>
    BY <1>5 DEF DispatcherDispatch, objects
  <2> QED
    BY <2>1, QuietLives
<1>6. ASSUME NEW m \in Messages, NEW c \in Sessions, DispatcherComplete(m, c) PROVE EventStep
  <2>1. /\ Running(<<"dispatcher", m, c>>) /\ dispatcher[m][c].stage = "complete" /\ UNCHANGED <<session, told>>
    BY <1>6 DEF DispatcherComplete
  <2>2. c \notin Counted(m)
    <3>1. frame.rest = <<>>
      BY <1>0, <2>1, Runs
    <3> QED
      BY <2>1, <3>1 DEF Counted
  <2>3. sender[m].phase = "dispatching" /\ answered[m] = 0 /\ sender[m] \in SenderRecord
    BY <1>0, <2>1, <2>2, Completing
  <2>4. CASE /\ sender' = [sender EXCEPT ![m].completed = sender[m].completed + 1, ![m].phase = "done"]
             /\ answered' = [answered EXCEPT ![m] = @ + 1]
    <3>1. sender \in [Messages -> SenderRecord] /\ answered \in [Messages -> Nat]
      BY <1>0 DEF SendInv, SendTypeOK
    <3>2. \A n \in Messages \ {m} : sender'[n] = sender[n] /\ answered'[n] = answered[n]
      BY <2>4, <3>1
    <3>3. answered'[m] = 1 /\ sender'[m].phase = "done"
      <4> DEFINE r == [sender[m] EXCEPT !.completed = sender[m].completed + 1, !.phase = "done"]
      <4>1. r.phase = "done"
        BY <2>3 DEF SenderRecord
      <4>2. sender' = [sender EXCEPT ![m] = r]
        BY <2>4
      <4> HIDE DEF r
      <4> QED
        BY <2>3, <2>4, <3>1, <4>1, <4>2
    <3>4. AnswerOf(answered'[m], sender'[m]) = "answered"
      BY <3>3, 1 > 0 DEF AnswerOf
    <3>5. AnswerOf(answered[m], sender[m]) = "sent"
      BY <2>3 DEF AnswerOf
    <3>6. \A d \in Sessions : SeenOf(session'[d], told'[d]) = SeenOf(session[d], told[d])
      BY <2>1
    <3>7. \A n \in Messages \ {m} : AnswerOf(answered'[n], sender'[n]) = AnswerOf(answered[n], sender[n])
      BY <3>2
    <3> QED
      BY <3>4, <3>5, <3>6, <3>7, MessageEvent
  <2>5. CASE /\ sender' = [sender EXCEPT ![m].completed = sender[m].completed + 1] /\ UNCHANGED answered
    <3> DEFINE r == [sender[m] EXCEPT !.completed = sender[m].completed + 1]
    <3>1. sender' = [sender EXCEPT ![m] = r]
      BY <2>5
    <3>2. r.phase = "dispatching"
      BY <2>3 DEF SenderRecord
    <3> HIDE DEF r
    <3> QED
      BY <1>0, <2>1, <2>3, <2>5, <3>1, <3>2, QuietSender
  <2> QED
    BY <1>6, <2>4, <2>5 DEF DispatcherComplete, Answers
<1>7. CASE SocketStop
  <2>1. /\ UNCHANGED <<told, sender, answered>> /\ Running(<<"stop">>)
        /\ session' = [c \in Sessions |-> IF c \in ToSet(listed)
                                          THEN [session[c] EXCEPT !.life = "released", !.peer = FALSE, !.endpoint = FALSE]
                                          ELSE session[c]]
    BY <1>7 DEF SocketStop, sending
  <2>2. ToSet(listed) \in SUBSET Sessions /\ \A c \in ToSet(listed) : session[c].life = "live"
    BY <1>0 DEF LifeInv, LifeTypeOK
  <2>3. frame.rest = <<>>
    BY <1>0, <2>1, Runs
  <2>4. \A c \in ToSet(listed) : SeenOf(session[c], told[c]) \in {"silent", "connected"}
    <3>1. ASSUME NEW c \in ToSet(listed) PROVE SeenOf(session[c], told[c]) \in {"silent", "connected"}
      <4>1. c \in Sessions /\ session[c].life = "live" /\ frame.rest # <<"let_go", c>>
        BY <2>2, <2>3
      <4>2. session[c].ready \/ ~ session[c].ready
        OBVIOUS
      <4> QED
        BY <1>0, <4>1, <4>2, Stages
    <3> QED
      BY <3>1
  <2>5. \A c \in ToSet(listed) : session'[c].life = "released"
    <3>1. session \in [Sessions -> SessionRecord]
      BY <1>0 DEF LifeInv, LifeTypeOK
    <3>2. \A c \in Sessions : [session[c] EXCEPT !.life = "released", !.peer = FALSE, !.endpoint = FALSE].life = "released"
      BY <3>1 DEF SessionRecord
    <3> QED
      BY <2>1, <2>2, <3>2
  <2>6. \A c \in ToSet(listed) : SeenOf(session'[c], told'[c]) = "gone"
    BY <2>5 DEF SeenOf
  <2>7. \A d \in Sessions \ ToSet(listed) : SeenOf(session'[d], told'[d]) = SeenOf(session[d], told[d])
    BY <2>1
  <2>8. \A m \in Messages : AnswerOf(answered'[m], sender'[m]) = AnswerOf(answered[m], sender[m])
    BY <2>1
  <2> QED
    BY <2>2, <2>4, <2>6, <2>7, <2>8, CleanupEvent
<1>8. CASE ProtocolStop \/ ProtocolDestroy
  <2>1. UNCHANGED <<session, told, sender, answered>>
    BY <1>8 DEF ProtocolStop, ProtocolDestroy, objects, sending
  <2> QED
    BY <2>1, QuietLives
<1>9. ASSUME NEW m \in Messages, NextRecord(m) PROVE EventStep
  <2> DEFINE r == [sender[m] EXCEPT !.todo = Tail(@)]
  <2>1. UNCHANGED <<session, told, answered>> /\ sender' = [sender EXCEPT ![m] = r] /\ sender[m].todo # <<>>
    BY <1>9 DEF NextRecord
  <2>2. sender[m].phase # "free" /\ sender[m] \in SenderRecord
    BY <1>0, <2>1, Sendings DEF SenderOK
  <2>3. r.phase # "free"
    BY <2>2 DEF SenderRecord
  <2> HIDE DEF r
  <2> QED
    BY <1>0, <2>1, <2>2, <2>3, QuietSender
<1> QED
  BY <1>1, <1>2, <1>3, <1>4, <1>5, <1>6, <1>7, <1>8, <1>9 DEF Task

LEMMA ConnectedEvent ==
    ASSUME LifeInv, NEW c \in Sessions, OnConnected(c), session[c].life = "fresh", UNCHANGED <<told, sender, answered>>
    PROVE  EventStep
<1>1. session' = [session EXCEPT ![c] = [life |-> "live", state |-> "CONNECTING", peer |-> TRUE,
                                         endpoint |-> TRUE, ready |-> FALSE]]
  BY DEF OnConnected
<1>2. /\ session \in [Sessions -> SessionRecord] /\ told[c] = <<>> /\ SeenOf(session[c], told[c]) = "fresh"
  BY Stages DEF LifeInv, LifeTypeOK
<1>3. session'[c].life = "live" /\ \A d \in Sessions \ {c} : session'[d] = session[d]
  BY <1>1, <1>2
<1>4. SeenOf(session'[c], told'[c]) = "silent"
  BY <1>2, <1>3 DEF SeenOf
<1>5. \A d \in Sessions \ {c} : SeenOf(session'[d], told'[d]) = SeenOf(session[d], told[d])
  BY <1>3
<1>6. \A m \in Messages : AnswerOf(answered'[m], sender'[m]) = AnswerOf(answered[m], sender[m])
  OBVIOUS
<1> QED
  BY <1>2, <1>4, <1>5, <1>6, SessionEvent

LEMMA EventEvent == ASSUME CoreInv, Event PROVE EventStep
<1>0. LifeInv /\ SendInv
  BY DEF CoreInv
<1>1. ASSUME NEW c \in Sessions, PeerConnects(c) PROVE EventStep
  <2>1. session[c].life = "fresh" /\ OnConnected(c) /\ UNCHANGED <<told, sender, answered>>
    BY <1>1 DEF PeerConnects, sending
  <2> QED
    BY <1>0, <2>1, ConnectedEvent
<1>2. ASSUME NEW c \in Sessions,
             \/ \E result \in {"connected", "denied"} : ConnectResult(c, result)
             \/ CheckReady(c) \/ OnReceived(c) \/ DisconnectSent(c)
      PROVE  EventStep
  <2>1. UNCHANGED <<session, told, sender, answered>>
    BY <1>2 DEF ConnectResult, CheckReady, OnReceived, DisconnectSent, objects, sending
  <2> QED
    BY <2>1, QuietLives
<1>3. ASSUME NEW C \in (SUBSET Sessions) \ {{}}, PeersLost(C) PROVE EventStep
  <2>1. /\ UNCHANGED <<told, sender, answered>>
        /\ OnDisconnected(C, "none") \/ OnDisconnected(C, "disconnected")
    BY <1>3 DEF PeersLost, sending
  <2>2. \A d \in Sessions : session'[d].life = session[d].life
    BY <1>0, <2>1, Disconnecting
  <2> QED
    BY <2>1, <2>2, QuietLives
<1>4. ASSUME NEW m \in Messages, NEW c \in Sessions, Acked(m, c) PROVE EventStep
  <2>1. UNCHANGED <<session, told, sender, answered>>
    BY <1>4 DEF Acked, objects
  <2> QED
    BY <2>1, QuietLives
<1>5. ASSUME NEW m \in Messages, ChecksumDone(m) PROVE EventStep
  <2> DEFINE r == [sender[m] EXCEPT !.phase = "dispatching", !.todo = SetToSeq(sender[m].records)]
  <2>1. UNCHANGED <<session, told, answered>> /\ sender' = [sender EXCEPT ![m] = r] /\ sender[m].phase = "summing"
    BY <1>5 DEF ChecksumDone, objects
  <2>2. sender[m] \in SenderRecord
    BY <1>0, Sendings
  <2>3. r.phase # "free"
    BY <2>2 DEF SenderRecord
  <2> HIDE DEF r
  <2> QED
    BY <1>0, <2>1, <2>3, QuietSender
<1> QED
  BY <1>1, <1>2, <1>3, <1>4, <1>5 DEF Event

\* A message that is handed over is sent, whichever way it goes.
LEMMA SubmitEvent ==
    ASSUME SendInv, NEW m \in Messages, sender[m].phase = "free", NEW cs, SubmitSender(m, cs),
           UNCHANGED <<session, told, answered>>
    PROVE  EventStep
<1>1. sender \in [Messages -> SenderRecord] /\ sender[m] \in SenderRecord
  BY DEF SendInv, SendTypeOK
<1>2. PICK r : sender' = [sender EXCEPT ![m] = r] /\ r.phase \in {"summing", "dispatching"}
  <2> DEFINE a == [sender[m] EXCEPT !.phase = "summing", !.records = ToSet(cs)]
             b == [sender[m] EXCEPT !.phase = "dispatching", !.records = ToSet(cs), !.todo = cs]
             d == [sender[m] EXCEPT !.phase = "dispatching", !.records = ToSet(cs)]
  <2>1. a.phase = "summing" /\ b.phase = "dispatching" /\ d.phase = "dispatching"
    BY <1>1 DEF SenderRecord
  <2>2. \/ sender' = [sender EXCEPT ![m] = a]
        \/ sender' = [sender EXCEPT ![m] = b]
        \/ sender' = [sender EXCEPT ![m] = d]
    BY DEF SubmitSender
  <2> HIDE DEF a, b, d
  <2> QED
    BY <2>1, <2>2
<1>3. sender'[m].phase \in {"summing", "dispatching"} /\ \A n \in Messages \ {m} : sender'[n] = sender[n]
  BY <1>1, <1>2
<1>4. AnswerOf(answered[m], sender[m]) = "idle"
  BY AnswerStages
<1>5. AnswerOf(answered'[m], sender'[m]) = "sent"
  <2>1. answered[m] = 0
    BY Sendings DEF SenderOK
  <2> QED
    BY <1>3, <2>1 DEF AnswerOf
<1>6. \A n \in Messages \ {m} : AnswerOf(answered'[n], sender'[n]) = AnswerOf(answered[n], sender[n])
  BY <1>3
<1>7. \A d \in Sessions : SeenOf(session'[d], told'[d]) = SeenOf(session[d], told[d])
  OBVIOUS
<1> QED
  BY <1>4, <1>5, <1>6, <1>7, MessageEvent

LEMMA EventApplication == ASSUME CoreInv, Application PROVE EventStep
<1>0. LifeInv /\ SendInv
  BY DEF CoreInv
<1>1. CASE Listen \/ Stop \/ \E c \in Sessions : Connect(c) \/ Disconnect(c)
  <2>1. UNCHANGED <<session, told, sender, answered>>
    BY <1>1 DEF Listen, Stop, Connect, Disconnect, objects, sending
  <2> QED
    BY <2>1, QuietLives
<1>2. ASSUME NEW m \in Messages, SocketSend(m) PROVE EventStep
  <2>1. sender[m].phase = "free" /\ UNCHANGED <<session, told>>
    BY <1>2 DEF SocketSend
  <2>2. CASE \E cs : SubmitSender(m, cs) /\ UNCHANGED answered
    BY <1>0, <2>1, <2>2, SubmitEvent
  <2>3. CASE sender' = [sender EXCEPT ![m].phase = "done"] /\ answered' = [answered EXCEPT ![m] = @ + 1]
    <3>1. /\ sender \in [Messages -> SenderRecord] /\ answered \in [Messages -> Nat] /\ answered[m] = 0
      BY <1>0, <2>1, Sendings DEF SendInv, SendTypeOK, SenderOK
    <3>2. answered'[m] = 1 /\ \A n \in Messages \ {m} : sender'[n] = sender[n] /\ answered'[n] = answered[n]
      BY <2>3, <3>1
    <3>3. sender'[m].phase = "done"
      <4> DEFINE r == [sender[m] EXCEPT !.phase = "done"]
      <4>1. r.phase = "done"
        BY <3>1 DEF SenderRecord
      <4>2. sender' = [sender EXCEPT ![m] = r]
        BY <2>3
      <4> HIDE DEF r
      <4> QED
        BY <3>1, <4>1, <4>2
    <3>4. AnswerOf(answered[m], sender[m]) = "idle" /\ AnswerOf(answered'[m], sender'[m]) = "answered"
      <4>1. AnswerOf(answered[m], sender[m]) = "idle"
        BY <1>0, <2>1, AnswerStages
      <4>2. AnswerOf(answered'[m], sender'[m]) = "answered"
        BY <3>2, <3>3 DEF AnswerOf
      <4> QED
        BY <4>1, <4>2
    <3>5. \A n \in Messages \ {m} : AnswerOf(answered'[n], sender'[n]) = AnswerOf(answered[n], sender[n])
      BY <3>2
    <3>6. \A d \in Sessions : SeenOf(session'[d], told'[d]) = SeenOf(session[d], told[d])
      BY <2>1
    <3> QED
      BY <3>4, <3>5, <3>6, MessageEvent
  <2> QED
    BY <1>2, <2>2, <2>3 DEF SocketSend, Answers
<1>3. ASSUME NEW m \in Messages, NEW c \in Sessions, SessionSend(m, c) PROVE EventStep
  <2>1. sender[m].phase = "free" /\ SubmitSender(m, <<c>>) /\ UNCHANGED <<session, told, answered>>
    BY <1>3 DEF SessionSend
  <2> QED
    BY <1>0, <2>1, SubmitEvent
<1> QED
  BY <1>1, <1>2, <1>3 DEF Application

LEMMA EventReturn == ASSUME CoreInv, Return PROVE EventStep
<1> DEFINE r == frame.rest
<1>0. LifeInv /\ SendInv /\ r \in Rests /\ UNCHANGED <<told, sender, answered>>
  BY LifeTypes DEF CoreInv, Return
<1>1. CASE r = <<>>
  BY <1>0, <1>1, QuietLives DEF Return, objects
<1>2. CASE r # <<>> /\ r[1] = "connected"
  <2>1. OnConnected(r[2])
    BY <1>2 DEF Return
  <2>2. PICK c \in Sessions : c = r[2] /\ r = <<"connected", c>>
    BY <1>0, <1>2, RestKinds
  <2>3. SlotOK(session[c], peer[c], endpoint[c], told[c], ToSet(queue), r, c)
    BY <1>0, LifeTypes
  <2>4. session[c].life = "fresh"
    BY <2>2, <2>3 DEF SlotOK
  <2> QED
    BY <1>0, <2>1, <2>2, <2>4, ConnectedEvent
<1>3. CASE r # <<>> /\ r[1] = "denied"
  BY <1>0, <1>3, QuietLives DEF Return, objects
<1>4. CASE r # <<>> /\ r[1] = "let_go"
  <2>1. session' = [session EXCEPT ![r[2]].endpoint = FALSE, ![r[2]].life = "released"]
    BY <1>4 DEF Return, LetGo
  <2>2. PICK c \in Sessions : c = r[2] /\ r = <<"let_go", c>>
    BY <1>0, <1>4, RestKinds
  <2>3. SlotOK(session[c], peer[c], endpoint[c], told[c], ToSet(queue), r, c)
    BY <1>0, LifeTypes
  <2>4. session[c].life = "live" /\ session[c].ready
    BY <2>2, <2>3 DEF SlotOK
  <2>5. SeenOf(session[c], told[c]) = "disconnected"
    BY <1>0, <2>2, <2>4, Stages
  <2>6. session \in [Sessions -> SessionRecord]
    BY <1>0 DEF LifeInv, LifeTypeOK
  <2>7. session'[c].life = "released" /\ \A d \in Sessions \ {c} : session'[d] = session[d]
    BY <2>1, <2>2, <2>6, LetGoSession
  <2>8. SeenOf(session'[c], told'[c]) = "gone"
    BY <2>7 DEF SeenOf
  <2> DEFINE C == {c}
  <2>9. /\ C \in SUBSET Sessions
        /\ \A d \in Sessions \ C : SeenOf(session'[d], told'[d]) = SeenOf(session[d], told[d])
        /\ \A d \in C : /\ SeenOf(session[d], told[d]) \in {"silent", "connected", "disconnected"}
                        /\ SeenOf(session'[d], told'[d]) = "gone"
    BY <1>0, <2>5, <2>7, <2>8
  <2>10. \A m \in Messages : AnswerOf(answered'[m], sender'[m]) = AnswerOf(answered[m], sender[m])
    BY <1>0
  <2> HIDE DEF C
  <2> QED
    BY <2>9, <2>10, CleanupEvent
<1>5. CASE r # <<>> /\ r[1] = "completed"
  BY <1>0, <1>5, QuietLives DEF Return
<1> QED
  BY <1>1, <1>2, <1>3, <1>4, <1>5 DEF Return

LEMMA EventsBegin == ASSUME Init PROVE Events!EventsInit
<1>1. /\ \A c \in Sessions : session[c].life = "fresh"
      /\ \A m \in Messages : answered[m] = 0 /\ sender[m].phase = "free"
  BY DEF Init
<1>2. SeenMap = [c \in Sessions |-> "fresh"]
  BY <1>1 DEF SeenMap, SeenOf
<1>3. AnswerMap = [m \in Messages |-> "idle"]
  BY <1>1 DEF AnswerMap, AnswerOf
<1> QED
  BY <1>2, <1>3 DEF Events!EventsInit, SeenMap, SeenOf, AnswerMap, AnswerOf

\* An application is told of a session, and that it is over, in the order
\* include/pomelo/api.h promises, each once and the cleanup last, and it gets
\* one result for each message it sent, whatever it asks for in its callbacks:
\* every step of the tasks of both layers is one of SessionEvents, or tells
\* nothing (api/builtin/session.c, api/socket.c, delivery/dispatcher.c).
THEOREM PromisesAreKept == Spec => KeepsPromises
<1>1. Init => Events!EventsInit
  BY EventsBegin
<1>2. CoreInv /\ [Next]_vars => EventStep
  <2> SUFFICES ASSUME CoreInv, [Next]_vars PROVE EventStep
    OBVIOUS
  <2>1. CASE Next
    BY <2>1, EventTask, EventEvent, EventApplication, EventReturn DEF Next
  <2>2. CASE UNCHANGED vars
    <3>1. UNCHANGED <<session, told, sender, answered>>
      BY <2>2 DEF vars, objects, sending
    <3> QED
      BY <3>1, QuietLives
  <2> QED
    BY <2>1, <2>2
<1> QED
  BY <1>1, <1>2, CoreInvariant, PTL DEF Spec, KeepsPromises, Events!EventsSpec, EventStep

-----------------------------------------------------------------------------
(***************************************************************************)
(* No assertion fails, of an orderly application (Orderly of Sessions).    *)
(***************************************************************************)
Noisy == {"connect_result", "connected", "disconnected", "received"}
EndTasks == {<<"stop">>} \union ({"disconnect", "disconnect_peer", "disconnected", "stop_endpoint"} \X Sessions)
Ending == frame.of \in Noisy \/ \E t \in EndTasks : t \in ToSet(queue)

\* Nothing of a session is about to be sent, and what still completes was cancelled.
QuietAt(c) ==
    /\ <<"send", c>> \notin ToSet(queue)
    /\ \A m \in Messages : /\ dispatcher[m][c].stage # "dispatch"
                           /\ dispatcher[m][c].stage = "complete" => dispatcher[m][c].canceled

\* A session that still has its peer's end before it is there, and is ended in
\* this order: asked for, told the peer, told the application.
EndsInOrder ==
    \A c, d \in Sessions :
        /\ <<"disconnected", c>> \in ToSet(queue) => session[c].life = "live"
        /\ ~ Precedes(queue, <<"stop">>, <<"disconnected", c>>)
        /\ ~ Precedes(queue, <<"disconnect_peer", c>>, <<"stop">>)
        /\ ~ Precedes(queue, <<"disconnected", c>>, <<"disconnect_peer", d>>)
        /\ ~ Precedes(queue, <<"disconnect", c>>, <<"disconnected", d>>)
        /\ ~ Precedes(queue, <<"disconnect_peer", c>>, <<"disconnect", d>>)

\* What is asked for between two runs is alone in the next one.
AskedTasks == {<<"stop">>} \union ({"disconnect", "disconnect_peer"} \X Sessions)
EndsAlone ==
    EndsBetween(manner) =>
      \A t \in AskedTasks : t \in ToSet(queue) => ToSet(queue) = {t} /\ frame = NoFrame

\* What is asked for in a callback meets no sending, of an application that
\* sends between two runs.
EndsQuietly ==
    SendsBetween(manner) =>
      /\ Ending => \A c \in Sessions : QuietAt(c)
      /\ frame.of \in Noisy => \A c \in Sessions : <<"disconnect_peer", c>> \notin ToSet(queue)

\* The records of a message are done before anything else is.
Hurried ==
    \/ frame.of \in Noisy \/ <<"stop">> \in ToSet(queue)
    \/ \E k \in {"ready", "disconnect", "disconnect_peer", "disconnected"}, c \in Sessions : <<k, c>> \in ToSet(queue)
NoneToDo == Hurried => \A m \in Messages : sender[m].todo = <<>>

\* An application that never stops the socket keeps no released session's
\* endpoint, and one without big messages needs no checksum.
StopIsCalled ==
    /\ NeverStops(manner) => /\ <<"stop">> \notin ToSet(queue)
                             /\ \A c \in Sessions : session[c].life = "released" => ~ endpoint[c].extra
    /\ manner.big = {} => \A m \in Messages : sender[m].phase # "summing"

\* A parcel that is dispatched finds a peer, or a session that is gone.
DispatchesAhead ==
    \A m \in Messages, c \in Sessions :
       session[c].life = "live" /\ ~ session[c].peer /\ dispatcher[m][c].stage = "dispatch" =>
          frame.rest = <<"let_go", c>> \/ Precedes(queue, <<"disconnected", c>>, <<"dispatcher", m, c>>)

\* The endpoint of a session that the socket's stop released keeps its session.
Unsent(c) == \A m \in Messages : c \notin ToSet(sender[m].todo) /\ ~ (sender[m].phase = "summing" /\ c \in sender[m].records)
StoppedIsQuiet ==
    \A c \in Sessions : session[c].life = "released" /\ endpoint[c].extra => QuietAt(c) /\ Unsent(c)

OrderlyInv == /\ EndsInOrder /\ EndsAlone /\ EndsQuietly /\ NoneToDo /\ StopIsCalled
              /\ DispatchesAhead /\ StoppedIsQuiet /\ NoAssertionFails

\* A queue that lost tasks and then got some at its tail.
Grown(q, p, added) ==
    /\ \A x : x \in ToSet(q) => x \in ToSet(p) \/ x \in added
    /\ \A x, y : Precedes(q, x, y) => Precedes(p, x, y) \/ y \in added
    /\ \A x, y : /\ x \in ToSet(q) /\ y \in ToSet(q) /\ x \notin added
                 /\ Precedes(p, x, y) \/ y \in added
                 => Precedes(q, x, y)

LEMMA GrownJoin ==
    ASSUME NEW r, NEW q, NEW p, NEW a, NEW b, Grown(r, q, a), Grown(q, p, b) PROVE Grown(r, p, a \union b)
  BY DEF Grown

LEMMA GrownSame == ASSUME NEW q PROVE Grown(q, q, {})
  BY DEF Grown

LEMMA GrownTail ==
    ASSUME LifeInv, NEW t, Running(t)
    PROVE  Grown(Tail(queue), queue, {}) /\ t \notin ToSet(Tail(queue))
<1>1. /\ ToSet(Tail(queue)) = ToSet(queue) \ {t}
      /\ \A x, y : Precedes(Tail(queue), x, y) <=> Precedes(queue, x, y) /\ x # t
  BY Runs
<1> QED
  BY <1>1 DEF Grown

LEMMA GrownSubmit ==
    ASSUME NEW q, QueueOK(q), NEW t \in Tasks PROVE Grown(Submit(q, t), q, {t}) /\ QueueOK(Submit(q, t))
  BY SubmitOrder, PrecedesMember DEF Grown

LEMMA GrownSubmitAll ==
    ASSUME NEW q, QueueOK(q), NEW more, QueueOK(more)
    PROVE  Grown(SubmitAll(q, more), q, ToSet(more)) /\ QueueOK(SubmitAll(q, more))
  BY SubmitAllOrder, PrecedesMember DEF Grown

\* What a step that adds none of the tasks of an end does to their order, ...
EndKinds == {<<"stop">>} \union ({"disconnect", "disconnect_peer", "disconnected"} \X Sessions)

LEMMA EndKindNames ==
    ASSUME NEW c \in Sessions
    PROVE  /\ <<"stop">> \in EndKinds /\ <<"stop">> \in AskedTasks /\ <<"stop">> \in EndTasks
           /\ <<"disconnect", c>> \in EndKinds /\ <<"disconnect", c>> \in AskedTasks /\ <<"disconnect", c>> \in EndTasks
           /\ <<"disconnect_peer", c>> \in EndKinds /\ <<"disconnect_peer", c>> \in AskedTasks
           /\ <<"disconnect_peer", c>> \in EndTasks
           /\ <<"disconnected", c>> \in EndKinds /\ <<"disconnected", c>> \in EndTasks
           /\ <<"disconnected", c>> \notin AskedTasks
           /\ <<"stop_endpoint", c>> \in EndTasks /\ <<"stop_endpoint", c>> \notin EndKinds
           /\ <<"stop_endpoint", c>> \notin AskedTasks
           /\ \A t \in SendTasks : t \notin EndKinds /\ t \notin EndTasks /\ t \notin AskedTasks
           /\ \A t \in {<<"stop_protocol">>, <<"destroy_protocol">>, <<"ready", c>>, <<"destroy_endpoint", c>>} :
                 t \notin EndKinds /\ t \notin EndTasks /\ t \notin AskedTasks
<1>1. /\ <<"stop">> \in EndKinds /\ <<"stop">> \in AskedTasks /\ <<"stop">> \in EndTasks
      /\ <<"disconnect", c>> \in EndKinds /\ <<"disconnect", c>> \in AskedTasks /\ <<"disconnect", c>> \in EndTasks
      /\ <<"disconnect_peer", c>> \in EndKinds /\ <<"disconnect_peer", c>> \in AskedTasks
      /\ <<"disconnect_peer", c>> \in EndTasks
      /\ <<"disconnected", c>> \in EndKinds /\ <<"disconnected", c>> \in EndTasks
      /\ <<"stop_endpoint", c>> \in EndTasks
  BY DEF EndKinds, AskedTasks, EndTasks
<1>2. /\ <<"disconnected", c>> \notin AskedTasks
      /\ <<"stop_endpoint", c>> \notin EndKinds /\ <<"stop_endpoint", c>> \notin AskedTasks
  BY DEF EndKinds, AskedTasks
<1>3. \A t \in SendTasks : t \notin EndKinds /\ t \notin EndTasks /\ t \notin AskedTasks
  BY DEF EndKinds, AskedTasks, EndTasks, SendTasks, DispatcherTasks
<1>4. \A t \in {<<"stop_protocol">>, <<"destroy_protocol">>, <<"ready", c>>, <<"destroy_endpoint", c>>} :
                 t \notin EndKinds /\ t \notin EndTasks /\ t \notin AskedTasks
  BY DEF EndKinds, AskedTasks, EndTasks
<1> QED
  BY <1>1, <1>2, <1>3, <1>4

LEMMA InOrderKept ==
    ASSUME EndsInOrder, NEW added, Grown(queue', queue, added), \A t \in EndKinds : t \notin added,
           \A c \in Sessions : <<"disconnected", c>> \in ToSet(queue') /\ session[c].life = "live" =>
                                  session'[c].life = "live"
    PROVE  EndsInOrder'
<1>1. \A t \in EndKinds : /\ t \in ToSet(queue') => t \in ToSet(queue)
                          /\ \A x : Precedes(queue', x, t) => Precedes(queue, x, t)
  BY DEF Grown
<1> SUFFICES ASSUME NEW c \in Sessions, NEW d \in Sessions
             PROVE  /\ <<"disconnected", c>> \in ToSet(queue') => session'[c].life = "live"
                    /\ ~ Precedes(queue', <<"stop">>, <<"disconnected", c>>)
                    /\ ~ Precedes(queue', <<"disconnect_peer", c>>, <<"stop">>)
                    /\ ~ Precedes(queue', <<"disconnected", c>>, <<"disconnect_peer", d>>)
                    /\ ~ Precedes(queue', <<"disconnect", c>>, <<"disconnected", d>>)
                    /\ ~ Precedes(queue', <<"disconnect_peer", c>>, <<"disconnect", d>>)
  BY DEF EndsInOrder
<1>2. /\ <<"stop">> \in EndKinds /\ <<"disconnected", c>> \in EndKinds /\ <<"disconnected", d>> \in EndKinds
      /\ <<"disconnect_peer", d>> \in EndKinds /\ <<"disconnect", d>> \in EndKinds
  BY EndKindNames
<1> QED
  BY <1>1, <1>2 DEF EndsInOrder

\* ... to what is asked for between two runs, ...
LEMMA AloneKept ==
    ASSUME LifeInv, EndsAlone, UNCHANGED manner, \A t \in AskedTasks : t \in ToSet(queue') => t \in ToSet(queue),
           \/ queue = <<>> \/ frame # NoFrame
           \/ \E u \in Tasks : Running(u) /\ u \notin AskedTasks
    PROVE  EndsAlone'
<1> SUFFICES ASSUME EndsBetween(manner), NEW t \in AskedTasks, t \in ToSet(queue') PROVE FALSE
  BY DEF EndsAlone
<1>1. t \in ToSet(queue) /\ ToSet(queue) = {t} /\ frame = NoFrame
  BY DEF EndsAlone
<1>2. CASE queue = <<>>
  BY <1>1, <1>2, EmptyOrder
<1>3. CASE \E u \in Tasks : Running(u) /\ u \notin AskedTasks
  <2>1. PICK u \in Tasks : Running(u) /\ u \notin AskedTasks
    BY <1>3
  <2>2. u \in ToSet(queue)
    BY <2>1, Runs
  <2> QED
    BY <1>1, <2>1, <2>2
<1> QED
  BY <1>1, <1>2, <1>3

\* ... to sessions that are quiet, ...
LEMMA QuietKept ==
    ASSUME NEW c \in Sessions, QuietAt(c), UNCHANGED dispatcher, NEW added, Grown(queue', queue, added),
           <<"send", c>> \notin added
    PROVE  QuietAt(c)'
  BY DEF QuietAt, Grown

LEMMA QuietIdle ==
    ASSUME SendInv, ToSet(queue) = {}, frame = NoFrame
    PROVE  \A c \in Sessions : QuietAt(c)
<1> SUFFICES ASSUME NEW c \in Sessions, NEW m \in Messages PROVE dispatcher[m][c].stage \notin {"dispatch", "complete"}
  BY DEF QuietAt
<1>1. DispatcherOK(dispatcher[m][c], ToSet(queue), frame.rest, m, c)
  BY DEF SendInv
<1>2. frame.rest # <<"completed", m, c>>
  BY DEF NoFrame
<1> QED
  BY <1>1, <1>2 DEF DispatcherOK

\* ... to what is ended in callbacks, by a step that begins no end, or by any
\* step of sessions that are quiet.
LEMMA QuietlyKept ==
    ASSUME EndsQuietly, UNCHANGED manner, NEW added, Grown(queue', queue, added),
           SendsBetween(manner) /\ Ending' => Ending \/ \A c \in Sessions : QuietAt(c),
           \A c \in Sessions : SendsBetween(manner) /\ Ending' /\ QuietAt(c) => QuietAt(c)',
           frame'.of \in Noisy => /\ \A c \in Sessions : <<"disconnect_peer", c>> \notin added
                                  /\ frame.of \in Noisy \/ \A c \in Sessions : <<"disconnect_peer", c>> \notin ToSet(queue)
    PROVE  EndsQuietly'
<1> SUFFICES ASSUME SendsBetween(manner)
             PROVE  /\ Ending' => \A c \in Sessions : QuietAt(c)'
                    /\ frame'.of \in Noisy => \A c \in Sessions : <<"disconnect_peer", c>> \notin ToSet(queue')
  BY DEF EndsQuietly
<1>1. Ending' => \A c \in Sessions : QuietAt(c)'
  BY DEF EndsQuietly
<1>2. frame'.of \in Noisy => \A c \in Sessions : <<"disconnect_peer", c>> \notin ToSet(queue')
  BY DEF EndsQuietly, Grown
<1> QED
  BY <1>1, <1>2

\* An end has begun already, if the step asks for none.
LEMMA EndingKept ==
    ASSUME NEW added, Grown(queue', queue, added), \A t \in EndTasks : t \notin added,
           frame'.of \in Noisy => Ending
    PROVE  Ending' => Ending
  BY DEF Ending, Grown

LEMMA HurriedKept ==
    ASSUME NEW added, Grown(queue', queue, added), \A t \in EndKinds : t \notin added,
           \A c \in Sessions : <<"ready", c>> \notin added, frame'.of \in Noisy => Hurried
    PROVE  Hurried' => Hurried
<1> SUFFICES ASSUME Hurried', ~ (frame'.of \in Noisy) PROVE Hurried
  OBVIOUS
<1>1. CASE <<"stop">> \in ToSet(queue')
  BY <1>1 DEF Grown, Hurried, EndKinds
<1>2. CASE \E k \in {"ready", "disconnect", "disconnect_peer", "disconnected"}, c \in Sessions : <<k, c>> \in ToSet(queue')
  <2>1. PICK k \in {"ready", "disconnect", "disconnect_peer", "disconnected"}, c \in Sessions : <<k, c>> \in ToSet(queue')
    BY <1>2
  <2>2. <<k, c>> \notin added
    BY <2>1, EndKindNames
  <2> QED
    BY <2>1, <2>2 DEF Grown, Hurried
<1> QED
  BY <1>1, <1>2 DEF Hurried

\* What is dispatched stays behind the end of its session.
LEMMA AheadKept ==
    ASSUME LifeInv, DispatchesAhead, SendInv', NEW added, Grown(queue', queue, added),
           \A m \in Messages, c \in Sessions : dispatcher'[m][c].stage = "dispatch" => dispatcher[m][c].stage = "dispatch",
           \A c \in Sessions : session'[c].life = "live" /\ ~ session'[c].peer /\ frame'.rest # <<"let_go", c>> =>
              /\ session[c].life = "live" /\ ~ session[c].peer /\ frame.rest # <<"let_go", c>>
              /\ <<"disconnected", c>> \notin added
              /\ <<"disconnected", c>> \in ToSet(queue) => <<"disconnected", c>> \in ToSet(queue')
    PROVE  DispatchesAhead'
<1> SUFFICES ASSUME NEW m \in Messages, NEW c \in Sessions, session'[c].life = "live", ~ session'[c].peer,
                    dispatcher'[m][c].stage = "dispatch", frame'.rest # <<"let_go", c>>
             PROVE  Precedes(queue', <<"disconnected", c>>, <<"dispatcher", m, c>>)
  BY DEF DispatchesAhead
<1>1. Precedes(queue, <<"disconnected", c>>, <<"dispatcher", m, c>>)
  BY DEF DispatchesAhead
<1>2. <<"disconnected", c>> \in ToSet(queue')
  BY <1>1, PrecedesMember
<1>3. DispatcherOK(dispatcher'[m][c], ToSet(queue'), frame'.rest, m, c)
  BY DEF SendInv
<1>4. <<"dispatcher", m, c>> \in ToSet(queue') \/ frame'.rest = <<"completed", m, c>>
  BY <1>3 DEF DispatcherOK
<1>5. frame'.rest # <<"completed", m, c>>
  BY <1>3 DEF DispatcherOK
<1> QED
  BY <1>1, <1>2, <1>4, <1>5 DEF Grown

\* A step that asks for no end, when it leaves those dispatched and stopped right.
LEMMA OrderlyStep ==
    ASSUME CoreInv, OrderlyInv, UNCHANGED <<manner, faults>>, DispatchesAhead', StoppedIsQuiet',
           NEW added, Grown(queue', queue, added), \A t \in EndKinds : t \notin added,
           queue = <<>> \/ frame # NoFrame \/ \E u \in Tasks : Running(u) /\ u \notin AskedTasks,
           SendsBetween(manner) /\ Ending' => Ending \/ \A c \in Sessions : QuietAt(c),
           \A c \in Sessions : SendsBetween(manner) /\ Ending' /\ QuietAt(c) => QuietAt(c)',
           frame'.of \in Noisy =>
              frame.of \in Noisy \/ \A c \in Sessions : <<"disconnect_peer", c>> \notin ToSet(queue),
           Hurried' => Hurried \/ \A m \in Messages : sender[m].todo = <<>>,
           \A m \in Messages : Hurried' /\ sender[m].todo = <<>> => sender'[m].todo = <<>>,
           \A m \in Messages : sender'[m].phase = "summing" => sender[m].phase = "summing" \/ manner.big # {},
           \A c \in Sessions : <<"disconnected", c>> \in ToSet(queue') /\ session[c].life = "live" =>
                                  session'[c].life = "live",
           NeverStops(manner) => \A c \in Sessions :
              session'[c].life = "released" /\ endpoint'[c].extra => session[c].life = "released" /\ endpoint[c].extra
    PROVE  OrderlyInv'
<1>1. EndsInOrder'
  BY InOrderKept, Zenon DEF OrderlyInv
<1>2. \A t \in EndKinds : t \in ToSet(queue') => t \in ToSet(queue)
  BY DEF Grown
<1>3. \A t \in AskedTasks : t \in EndKinds
  BY DEF AskedTasks, EndKinds
<1>4. EndsAlone'
  <2>1. \A t \in AskedTasks : t \in ToSet(queue') => t \in ToSet(queue)
    BY <1>2, <1>3, Zenon
  <2>2. LifeInv /\ EndsAlone
    BY DEF CoreInv, OrderlyInv
  <2> QED
    BY <2>1, <2>2, AloneKept, Zenon
<1>5. EndsQuietly'
  <2>1. \A c \in Sessions : <<"disconnect_peer", c>> \notin added
    BY EndKindNames
  <2> QED
    BY <2>1, QuietlyKept, Zenon DEF OrderlyInv
<1>6. NoneToDo'
  BY DEF OrderlyInv, NoneToDo
<1>7. StopIsCalled'
  <2>1. <<"stop">> \in EndKinds
    BY DEF EndKinds
  <2> QED
    BY <1>2, <2>1 DEF OrderlyInv, StopIsCalled
<1> QED
  BY <1>1, <1>4, <1>5, <1>6, <1>7 DEF OrderlyInv, NoAssertionFails

\* A step of the life of sessions that asks for no end: nothing is sent.
LEMMA LifeStep ==
    ASSUME CoreInv, CoreInv', OrderlyInv, UNCHANGED <<manner, faults, sender, dispatcher>>,
           NEW added, Grown(queue', queue, added), \A t \in EndKinds : t \notin added,
           \A c \in Sessions : <<"send", c>> \notin added,
           queue = <<>> \/ frame # NoFrame \/ \E u \in Tasks : Running(u) /\ u \notin AskedTasks,
           Ending' => Ending \/ \A c \in Sessions : QuietAt(c),
           frame'.of \in Noisy =>
              frame.of \in Noisy \/ \A c \in Sessions : <<"disconnect_peer", c>> \notin ToSet(queue),
           Hurried' => Hurried \/ \A m \in Messages : sender[m].todo = <<>>,
           \A c \in Sessions : <<"disconnected", c>> \in ToSet(queue') /\ session[c].life = "live" =>
                                  session'[c].life = "live",
           DispatchesAhead' \/ \A c \in Sessions : QuietAt(c),
           \A c \in Sessions :
              session'[c].life = "released" /\ endpoint'[c].extra => session[c].life = "released" /\ endpoint[c].extra
    PROVE  OrderlyInv'
<1>1. \A c \in Sessions : QuietAt(c) => QuietAt(c)'
  BY QuietKept
<1>2. DispatchesAhead'
  BY <1>1 DEF QuietAt, DispatchesAhead
<1>3. \A c \in Sessions : Unsent(c) => Unsent(c)'
  BY DEF Unsent
<1>4. StoppedIsQuiet'
  BY <1>1, <1>3 DEF OrderlyInv, StoppedIsQuiet
<1>5. \A m \in Messages : sender'[m] = sender[m]
  OBVIOUS
<1> QED
  BY <1>1, <1>2, <1>4, <1>5, OrderlyStep

\* ... when nothing runs and nothing waits.
LEMMA IdleStep ==
    ASSUME CoreInv, CoreInv', OrderlyInv, Idle, UNCHANGED <<manner, faults, sender, dispatcher>>,
           NEW added, Grown(queue', queue, added), \A t \in EndKinds : t \notin added,
           \A c \in Sessions : <<"send", c>> \notin added,
           \A c \in Sessions :
              session'[c].life = "released" /\ endpoint'[c].extra => session[c].life = "released" /\ endpoint[c].extra
    PROVE  OrderlyInv'
<1>1. ToSet(queue) = {} /\ queue = <<>> /\ frame = NoFrame
  BY Idles DEF CoreInv
<1>2. \A c \in Sessions : QuietAt(c)
  BY <1>1, QuietIdle DEF CoreInv
<1>3. \A m \in Messages : sender[m].todo = <<>>
  BY DEF Idle
<1>4. \A c \in Sessions : <<"disconnected", c>> \notin ToSet(queue')
  BY <1>1, EndKindNames DEF Grown
<1>5. \A c \in Sessions : <<"disconnect_peer", c>> \notin ToSet(queue)
  BY <1>1
<1> QED
  BY <1>1, <1>2, <1>3, <1>4, <1>5, LifeStep

LEMMA IdleSame ==
    ASSUME CoreInv, CoreInv', OrderlyInv, Idle, UNCHANGED <<manner, faults, sender, dispatcher, queue, endpoint>>,
           \A c \in Sessions : session'[c].life = "released" => session[c].life = "released"
    PROVE  OrderlyInv'
<1>1. Grown(queue', queue, {})
  BY GrownSame
<1> QED
  BY <1>1, IdleStep

LEMMA OrderlyListen == ASSUME CoreInv, CoreInv', OrderlyInv, Listen PROVE OrderlyInv'
<1>1. Idle /\ UNCHANGED <<manner, faults, sender, dispatcher, queue, endpoint, session>>
  BY DEF Listen, StartProtocol, objects, sending
<1> QED
  BY <1>1, IdleSame

LEMMA OrderlyConnect == ASSUME CoreInv, CoreInv', OrderlyInv, NEW c \in Sessions, Connect(c) PROVE OrderlyInv'
<1>1. Idle /\ UNCHANGED <<manner, faults, sender, dispatcher, queue, endpoint, session>>
  BY DEF Connect, StartProtocol, sending
<1> QED
  BY <1>1, IdleSame

LEMMA OrderlyConnectResult ==
    ASSUME CoreInv, CoreInv', OrderlyInv, NEW c \in Sessions, NEW result, ConnectResult(c, result) PROVE OrderlyInv'
<1>1. Idle /\ UNCHANGED <<manner, faults, sender, dispatcher, queue, endpoint, session>>
  BY DEF ConnectResult, sending
<1> QED
  BY <1>1, IdleSame

\* A session begins with an endpoint that knows it.
LEMMA ConnectedLives ==
    ASSUME LifeInv, NEW c \in Sessions, OnConnected(c)
    PROVE  /\ session'[c].life = "live" /\ session'[c].peer
           /\ \A d \in Sessions \ {c} : session'[d] = session[d] /\ endpoint'[d] = endpoint[d]
<1>1. session \in [Sessions -> SessionRecord] /\ endpoint \in [Sessions -> EndpointRecord]
  BY DEF LifeInv, LifeTypeOK
<1> QED
  BY <1>1 DEF OnConnected

LEMMA OrderlyPeerConnects ==
    ASSUME CoreInv, CoreInv', OrderlyInv, NEW c \in Sessions, PeerConnects(c) PROVE OrderlyInv'
<1>1. Idle /\ OnConnected(c) /\ UNCHANGED <<manner, faults, sender, dispatcher, queue>>
  BY DEF PeerConnects, sending
<1>2. /\ session'[c].life = "live"
      /\ \A d \in Sessions \ {c} : session'[d] = session[d] /\ endpoint'[d] = endpoint[d]
  BY <1>1, ConnectedLives DEF CoreInv
<1>3. Grown(queue', queue, {})
  BY <1>1, GrownSame
<1> QED
  BY <1>1, <1>2, <1>3, IdleStep

LEMMA OrderlyCheckReady ==
    ASSUME CoreInv, CoreInv', OrderlyInv, NEW c \in Sessions, CheckReady(c) PROVE OrderlyInv'
<1> DEFINE t == <<"ready", c>>
<1>1. /\ Idle /\ UNCHANGED <<manner, faults, sender, dispatcher, session>> /\ queue' = <<t>>
      /\ endpoint' = [endpoint EXCEPT ![c].ready = TRUE]
  BY DEF CheckReady, sending
<1>2. endpoint \in [Sessions -> EndpointRecord]
  BY DEF CoreInv, LifeInv, LifeTypeOK
<1>3. \A d \in Sessions : endpoint'[d].extra = endpoint[d].extra
  BY <1>1, <1>2 DEF EndpointRecord
<1>4. ToSet(queue) = {}
  BY <1>1, Idles DEF CoreInv
<1>5. t \in Tasks
  BY DEF Tasks, PeerTasks
<1>6. ToSet(queue') = {t} /\ \A x, y : ~ Precedes(queue', x, y)
  BY <1>1, <1>5, OneTask
<1>7. Grown(queue', queue, {t})
  BY <1>4, <1>6 DEF Grown
<1>8. \A x \in EndKinds : x \notin {t}
  BY DEF EndKinds
<1> QED
  BY <1>1, <1>3, <1>7, <1>8, IdleStep

LEMMA OrderlyOnReceived ==
    ASSUME CoreInv, CoreInv', OrderlyInv, NEW c \in Sessions, OnReceived(c) PROVE OrderlyInv'
<1>1. /\ Idle /\ UNCHANGED <<manner, sender, dispatcher, queue, endpoint, session>>
      /\ peer[c].extra /\ endpoint[c].ready /\ (session[c].ready => UNCHANGED faults)
  BY DEF OnReceived, sending, objects
<1>2. SlotOK(session[c], peer[c], endpoint[c], told[c], ToSet(queue), frame.rest, c)
  BY LifeTypes DEF CoreInv
<1>3. ToSet(queue) = {}
  BY <1>1, Idles DEF CoreInv
<1>4. session[c].ready
  BY <1>1, <1>2, <1>3 DEF SlotOK
<1> QED
  BY <1>1, <1>4, IdleSame

LEMMA OrderlyDisconnectSent ==
    ASSUME CoreInv, CoreInv', OrderlyInv, NEW c \in Sessions, DisconnectSent(c) PROVE OrderlyInv'
<1> DEFINE t == <<"stop_protocol">>
<1>1. /\ Idle /\ UNCHANGED <<manner, faults, sender, dispatcher, session, endpoint>>
      /\ queue' = queue \/ StopProtocol(<<>>)
  BY DEF DisconnectSent, sending
<1>2. queue = <<>>
  BY <1>1 DEF Idle
<1>3. QueueOK(queue) /\ t \in Tasks
  BY LifeTypes DEF CoreInv, Tasks
<1>5. queue' = queue \/ queue' = Submit(queue, t)
  BY <1>1, <1>2 DEF StopProtocol
<1>6. Grown(queue', queue, {t}) \/ Grown(queue', queue, {})
  BY <1>3, <1>5, GrownSubmit, GrownSame
<1>7. \A x \in EndKinds : x \notin {t}
  BY DEF EndKinds
<1>8. \A d \in Sessions : <<"send", d>> \notin {t}
  OBVIOUS
<1>9. CASE Grown(queue', queue, {})
  BY <1>1, <1>9, IdleStep
<1>10. CASE Grown(queue', queue, {t})
  BY <1>1, <1>7, <1>8, <1>10, IdleStep
<1> QED
  BY <1>6, <1>9, <1>10

LEMMA OrderlyOnReady ==
    ASSUME CoreInv, CoreInv', OrderlyInv, NEW c \in Sessions, OnReady(c) PROVE OrderlyInv'
<1> DEFINE t == <<"ready", c>>
<1>1. /\ Running(t) /\ queue' = Tail(queue) /\ UNCHANGED <<manner, faults, sender, dispatcher, endpoint>>
      /\ session' = session \/ session' = [session EXCEPT ![c].ready = TRUE, ![c].state = "CONNECTED"]
  BY DEF OnReady, sending
<1>2. /\ t \in Tasks /\ t \in ToSet(queue) /\ frame = NoFrame /\ ToSet(Tail(queue)) = ToSet(queue) \ {t}
  BY <1>1, Runs DEF CoreInv
<1>3. ToSet(queue) = {t}
  BY <1>2 DEF CoreInv, LifeInv, Orders
<1>4. Grown(queue', queue, {})
  BY <1>1, GrownTail DEF CoreInv
<1>5. t \notin AskedTasks /\ \A d \in Sessions : <<"disconnect_peer", d>> # t /\ <<"disconnected", d>> # t
  BY DEF AskedTasks
<1>6. \A d \in Sessions : QuietAt(d)
  <2> SUFFICES ASSUME NEW d \in Sessions, NEW m \in Messages
               PROVE  <<"send", d>> # t /\ dispatcher[m][d].stage \notin {"dispatch", "complete"}
    BY <1>3 DEF QuietAt
  <2>1. DispatcherOK(dispatcher[m][d], ToSet(queue), frame.rest, m, d)
    BY DEF CoreInv, SendInv
  <2>2. frame.rest # <<"completed", m, d>> /\ <<"dispatcher", m, d>> # t
    BY <1>2 DEF NoFrame
  <2> QED
    BY <1>3, <2>1, <2>2 DEF DispatcherOK
<1>7. session \in [Sessions -> SessionRecord]
  BY DEF CoreInv, LifeInv, LifeTypeOK
<1>8. \A d \in Sessions : session'[d].life = session[d].life
  BY <1>1, <1>7 DEF SessionRecord
<1>9. Hurried
  BY <1>2 DEF Hurried
<1> QED
  BY <1>1, <1>2, <1>3, <1>4, <1>5, <1>6, <1>8, <1>9, LifeStep

\* A task that is part of no end, and sends nothing.
LEMMA OrderlyTail ==
    ASSUME CoreInv, CoreInv', OrderlyInv, NEW t \in Tasks \ AskedTasks, Running(t), queue' = Tail(queue),
           \A c \in Sessions : t # <<"disconnected", c>>,
           UNCHANGED <<manner, faults, sender, dispatcher, session, frame>>,
           \A c \in Sessions : endpoint'[c].extra = endpoint[c].extra
    PROVE  OrderlyInv'
<1>1. frame = NoFrame /\ frame.of = "none" /\ ToSet(Tail(queue)) = ToSet(queue) \ {t}
  BY Runs DEF CoreInv
<1>2. Grown(queue', queue, {})
  BY GrownTail DEF CoreInv
<1>3. "none" \notin Noisy
  BY DEF Noisy
<1>4. Ending' => Ending
  BY <1>1, <1>2, <1>3, EndingKept
<1>5. Hurried' => Hurried
  BY <1>1, <1>2, <1>3, HurriedKept
<1>6. DispatchesAhead'
  BY <1>1, <1>2, AheadKept DEF CoreInv, OrderlyInv
<1> QED
  BY <1>1, <1>2, <1>3, <1>4, <1>5, <1>6, LifeStep

LEMMA OrderlyDestroyEndpoint ==
    ASSUME CoreInv, CoreInv', OrderlyInv, NEW c \in Sessions, DestroyEndpoint(c) PROVE OrderlyInv'
<1> DEFINE t == <<"destroy_endpoint", c>>
<1>1. /\ Running(t) /\ queue' = Tail(queue) /\ UNCHANGED <<manner, faults, sender, dispatcher, session, frame>>
      /\ endpoint' = [endpoint EXCEPT ![c].life = "released", ![c].scheduled = FALSE]
  BY DEF DestroyEndpoint, sending
<1>2. endpoint \in [Sessions -> EndpointRecord]
  BY DEF CoreInv, LifeInv, LifeTypeOK
<1>3. \A d \in Sessions : endpoint'[d].extra = endpoint[d].extra
  BY <1>1, <1>2 DEF EndpointRecord
<1>4. t \in Tasks \ AskedTasks /\ \A d \in Sessions : t # <<"disconnected", d>>
  BY DEF Tasks, PeerTasks, AskedTasks
<1> QED
  BY <1>1, <1>3, <1>4, OrderlyTail

LEMMA OrderlyProtocolStop == ASSUME CoreInv, CoreInv', OrderlyInv, ProtocolStop PROVE OrderlyInv'
<1> DEFINE t == <<"stop_protocol">>
<1>1. Running(t) /\ queue' = Tail(queue) /\ UNCHANGED <<manner, faults, sender, dispatcher, session, endpoint, frame>>
  BY DEF ProtocolStop, sending
<1>2. t \in Tasks \ AskedTasks /\ \A d \in Sessions : t # <<"disconnected", d>>
  BY DEF Tasks, AskedTasks
<1> QED
  BY <1>1, <1>2, OrderlyTail

LEMMA OrderlyProtocolDestroy == ASSUME CoreInv, CoreInv', OrderlyInv, ProtocolDestroy PROVE OrderlyInv'
<1> DEFINE t == <<"destroy_protocol">>
<1>1. Running(t) /\ queue' = Tail(queue) /\ UNCHANGED <<manner, faults, sender, dispatcher, session, endpoint, frame>>
  BY DEF ProtocolDestroy, sending, objects
<1>2. t \in Tasks \ AskedTasks /\ \A d \in Sessions : t # <<"disconnected", d>>
  BY DEF Tasks, AskedTasks
<1> QED
  BY <1>1, <1>2, OrderlyTail

\* A session is let go of: its endpoint does not know it any more.
LEMMA LetGoSlots ==
    ASSUME LifeInv, NEW c \in Sessions, NEW tasks, LetGo(c, tasks)
    PROVE  /\ session'[c].life = "released" /\ ~ endpoint'[c].extra
           /\ \A d \in Sessions \ {c} : session'[d] = session[d] /\ endpoint'[d] = endpoint[d]
<1>1. session \in [Sessions -> SessionRecord] /\ endpoint \in [Sessions -> EndpointRecord]
  BY DEF LifeInv, LifeTypeOK
<1>2. session'[c].life = "released" /\ \A d \in Sessions \ {c} : session'[d] = session[d]
  BY <1>1, LetGoSession DEF LetGo
<1>3. endpoint' = [endpoint EXCEPT ![c].extra = FALSE]
  BY DEF LetGo
<1>4. ~ endpoint'[c].extra /\ \A d \in Sessions \ {c} : endpoint'[d] = endpoint[d]
  BY <1>1, <1>3 DEF EndpointRecord
<1> QED
  BY <1>2, <1>4

LEMMA OrderlyLetGo ==
    ASSUME CoreInv, CoreInv', OrderlyInv, NEW c \in Sessions, NEW tasks, QueueOK(tasks), LetGo(c, tasks),
           NEW more, Grown(tasks, queue, more), more \subseteq {<<"stop_endpoint", c>>}, more = {} \/ Ending,
           <<"disconnected", c>> \notin ToSet(tasks),
           \A d \in Sessions \ {c} : <<"disconnected", d>> \in ToSet(queue) => <<"disconnected", d>> \in ToSet(tasks),
           frame # NoFrame \/ \E u \in Tasks : Running(u) /\ u \notin AskedTasks,
           frame' = NoFrame, \A d \in Sessions \ {c} : frame.rest # <<"let_go", d>>,
           UNCHANGED <<manner, faults, sender, dispatcher>>
    PROVE  OrderlyInv'
<1> DEFINE w == <<"destroy_endpoint", c>>
           added == {w} \union more
<1>1. w \in Tasks /\ \A d \in Sessions : w # <<"disconnected", d>> /\ w # <<"send", d>> /\ w # <<"ready", d>>
  BY DEF Tasks, PeerTasks
<1>2. queue' = Submit(tasks, w)
  BY DEF LetGo
<1>3. Grown(queue', tasks, {w}) /\ ToSet(queue') = ToSet(tasks) \union {w}
  BY <1>1, <1>2, GrownSubmit, SubmitOrder
<1>4. Grown(queue', queue, added)
  BY <1>3, GrownJoin
<1>5. /\ \A t \in EndKinds : t \notin added
      /\ \A d \in Sessions : <<"send", d>> \notin added /\ <<"ready", d>> \notin added /\ <<"disconnected", d>> \notin added
  <2>1. \A t \in EndKinds : t # w /\ t # <<"stop_endpoint", c>>
    BY EndKindNames
  <2> QED
    BY <1>1, <2>1
<1>6. more = {} => \A t \in EndTasks : t \notin added
  <2>1. w \notin EndTasks
    BY EndKindNames
  <2> QED
    BY <2>1
<1> HIDE DEF added
<1>7. frame'.of = "none" /\ frame'.of \notin Noisy
  BY DEF NoFrame, Noisy
<1>8. Ending' => Ending
  BY <1>4, <1>6, <1>7, EndingKept
<1>9. Hurried' => Hurried
  BY <1>4, <1>5, <1>7, HurriedKept
<1>10. /\ session'[c].life = "released" /\ ~ endpoint'[c].extra
       /\ \A d \in Sessions \ {c} : session'[d] = session[d] /\ endpoint'[d] = endpoint[d]
  BY LetGoSlots DEF CoreInv
<1>11. \A d \in Sessions : session'[d].life = "live" =>
              /\ d # c /\ session'[d] = session[d] /\ frame.rest # <<"let_go", d>>
              /\ <<"disconnected", d>> \in ToSet(queue) => <<"disconnected", d>> \in ToSet(queue')
  BY <1>3, <1>10
<1>12. DispatchesAhead'
  BY <1>4, <1>5, <1>11, AheadKept DEF CoreInv, OrderlyInv
<1>13. \A d \in Sessions : <<"disconnected", d>> \in ToSet(queue') /\ session[d].life = "live" =>
                                  session'[d].life = "live"
  BY <1>1, <1>3, <1>10
<1>14. \A d \in Sessions :
              session'[d].life = "released" /\ endpoint'[d].extra => session[d].life = "released" /\ endpoint[d].extra
  BY <1>10
<1> QED
  BY <1>4, <1>5, <1>7, <1>8, <1>9, <1>12, <1>13, <1>14, LifeStep

LEMMA OrderlySessionDisconnected ==
    ASSUME CoreInv, CoreInv', OrderlyInv, NEW c \in Sessions, SessionDisconnected(c) PROVE OrderlyInv'
<1> DEFINE t == <<"disconnected", c>>
           u == <<"stop_endpoint", c>>
           after == Submit(Tail(queue), u)
<1>1. Running(t) /\ UNCHANGED <<manner, sender, dispatcher>>
  BY DEF SessionDisconnected, sending
<1>2. /\ t \in Tasks /\ t \in ToSet(queue) /\ frame.rest = <<>> /\ frame = NoFrame
      /\ QueueOK(Tail(queue)) /\ ToSet(Tail(queue)) = ToSet(queue) \ {t}
      /\ \A x \in ToSet(queue) : x = t \/ Precedes(queue, t, x)
  BY <1>1, Runs DEF CoreInv
<1>3. session[c].life = "live"
  BY <1>2 DEF OrderlyInv, EndsInOrder
<1>4. session[c].endpoint
  <2>1. SlotOK(session[c], peer[c], endpoint[c], told[c], ToSet(queue), frame.rest, c)
    BY LifeTypes DEF CoreInv
  <2> QED
    BY <1>3, <2>1 DEF SlotOK
<1>5. UNCHANGED faults
  BY <1>4 DEF SessionDisconnected
<1>6. u \in Tasks /\ t \notin AskedTasks /\ u # t /\ t \in EndTasks
  BY EndKindNames DEF Tasks, PeerTasks
<1>7. /\ Grown(after, Tail(queue), {u}) /\ QueueOK(after) /\ ToSet(after) = ToSet(Tail(queue)) \union {u}
  BY <1>2, <1>6, GrownSubmit, SubmitOrder
<1>8. Grown(after, queue, {u})
  <2>1. Grown(Tail(queue), queue, {})
    BY <1>1, GrownTail DEF CoreInv
  <2>2. {u} \union {} = {u}
    OBVIOUS
  <2> HIDE DEF after
  <2> QED
    BY <1>7, <2>1, <2>2, GrownJoin
<1> HIDE DEF after
<1>9. Ending /\ Hurried
  BY <1>2, <1>6 DEF Ending, Hurried
<1>10. t \notin ToSet(after) /\ \A d \in Sessions \ {c} : <<"disconnected", d>> \in ToSet(queue) => <<"disconnected", d>> \in ToSet(after)
  BY <1>2, <1>6, <1>7
<1>11. CASE session[c].ready
  <2>1. queue' = after /\ frame' = [of |-> "disconnected", rest |-> <<"let_go", c>>] /\ UNCHANGED <<session, endpoint>>
    BY <1>4, <1>11 DEF SessionDisconnected, Callback, after
  <2>2. \A d \in Sessions : <<"disconnect_peer", d>> \notin ToSet(queue)
    <3> SUFFICES ASSUME NEW d \in Sessions, <<"disconnect_peer", d>> \in ToSet(queue) PROVE FALSE
      OBVIOUS
    <3>1. Precedes(queue, t, <<"disconnect_peer", d>>)
      BY <1>2
    <3> QED
      BY <3>1 DEF OrderlyInv, EndsInOrder
  <2>3. \A d \in Sessions : frame.rest # <<"let_go", d>> /\ (d # c => frame'.rest # <<"let_go", d>>)
    BY <1>2, <2>1
  <2>4. \A d \in Sessions : <<"disconnected", d>> \notin {u} /\ <<"send", d>> \notin {u}
    OBVIOUS
  <2>5. frame'.rest = <<"let_go", c>>
    BY <2>1
  <2>6. DispatchesAhead'
    <3>1. Grown(queue', queue, {u})
      BY <1>8, <2>1
    <3>2. \A d \in Sessions : session'[d].life = "live" /\ ~ session'[d].peer /\ frame'.rest # <<"let_go", d>> =>
              /\ session[d].life = "live" /\ ~ session[d].peer /\ frame.rest # <<"let_go", d>>
              /\ <<"disconnected", d>> \notin {u}
              /\ <<"disconnected", d>> \in ToSet(queue) => <<"disconnected", d>> \in ToSet(queue')
      BY <1>10, <2>1, <2>3, <2>4, <2>5
    <3> QED
      BY <1>1, <3>1, <3>2, AheadKept DEF CoreInv, OrderlyInv
  <2>7. \A x \in EndKinds : x \notin {u}
    BY EndKindNames
  <2> QED
    BY <1>1, <1>2, <1>5, <1>6, <1>8, <1>9, <2>1, <2>2, <2>4, <2>6, <2>7, LifeStep
<1>12. CASE ~ session[c].ready
  <2>1. LetGo(c, after) /\ UNCHANGED frame
    BY <1>4, <1>12 DEF SessionDisconnected, after
  <2>2. \A d \in Sessions \ {c} : frame.rest # <<"let_go", d>>
    BY <1>2
  <2> QED
    BY <1>1, <1>2, <1>5, <1>6, <1>7, <1>8, <1>9, <1>10, <2>1, <2>2, OrderlyLetGo
<1> QED
  BY <1>11, <1>12

\* When no task of sending waits, nothing is sent.
LEMMA QuietQueue ==
    ASSUME SendInv, frame.rest = <<>>, \A t \in SendTasks : t \notin ToSet(queue)
    PROVE  \A c \in Sessions : QuietAt(c)
<1> SUFFICES ASSUME NEW c \in Sessions
             PROVE  <<"send", c>> \notin ToSet(queue) /\
                    \A m \in Messages : dispatcher[m][c].stage \notin {"dispatch", "complete"}
  BY DEF QuietAt
<1>1. <<"send", c>> \notin ToSet(queue)
  BY DEF SendTasks
<1>2. ASSUME NEW m \in Messages PROVE dispatcher[m][c].stage \notin {"dispatch", "complete"}
  <2>1. DispatcherOK(dispatcher[m][c], ToSet(queue), frame.rest, m, c)
    BY DEF SendInv
  <2>2. frame.rest # <<"completed", m, c>>
    OBVIOUS
  <2>3. <<"dispatcher", m, c>> \in SendTasks
    BY DEF SendTasks, DispatcherTasks
  <2> QED
    BY <2>1, <2>2, <2>3 DEF DispatcherOK
<1> QED
  BY <1>1, <1>2

\* What an orderly application asked for meets nothing that is sent.
LEMMA AskedQuiet ==
    ASSUME CoreInv, OrderlyInv, Orderly(manner), NEW t \in AskedTasks, t \in ToSet(queue)
    PROVE  \A c \in Sessions : QuietAt(c)
<1>1. CASE EndsBetween(manner)
  <2>1. ToSet(queue) = {t} /\ frame.rest = <<>>
    BY <1>1 DEF OrderlyInv, EndsAlone, NoFrame
  <2>2. t \notin SendTasks
    BY EndKindNames DEF AskedTasks, SendTasks, DispatcherTasks
  <2> QED
    BY <2>1, <2>2, QuietQueue DEF CoreInv
<1>2. CASE SendsBetween(manner)
  <2>1. t \in EndTasks
    BY DEF AskedTasks, EndTasks
  <2> QED
    BY <1>2, <2>1 DEF OrderlyInv, EndsQuietly, Ending
<1> QED
  BY <1>1, <1>2 DEF Orderly

\* A step that asks for an end, when it leaves the ends in their order.
LEMMA EndStep ==
    ASSUME CoreInv, CoreInv', OrderlyInv, UNCHANGED <<manner, faults, sender, dispatcher>>,
           EndsInOrder', EndsAlone', NEW added, Grown(queue', queue, added), \A c \in Sessions : <<"send", c>> \notin added,
           SendsBetween(manner) /\ Ending' => \A c \in Sessions : QuietAt(c),
           SendsBetween(manner) /\ frame'.of \in Noisy => \A c \in Sessions : <<"disconnect_peer", c>> \notin ToSet(queue'),
           Hurried' => Hurried \/ \A m \in Messages : sender[m].todo = <<>>,
           DispatchesAhead' \/ \A c \in Sessions : QuietAt(c),
           NeverStops(manner) =>
              /\ <<"stop">> \notin ToSet(queue')
              /\ \A c \in Sessions :
                    session'[c].life = "released" /\ endpoint'[c].extra => session[c].life = "released" /\ endpoint[c].extra,
           StoppedIsQuiet' \/ \A c \in Sessions :
              session'[c].life = "released" /\ endpoint'[c].extra => session[c].life = "released" /\ endpoint[c].extra
    PROVE  OrderlyInv'
<1>1. \A c \in Sessions : QuietAt(c) => QuietAt(c)'
  BY QuietKept
<1>2. DispatchesAhead'
  BY <1>1 DEF QuietAt, DispatchesAhead
<1>3. \A c \in Sessions : Unsent(c) => Unsent(c)'
  BY DEF Unsent
<1>4. StoppedIsQuiet'
  BY <1>1, <1>3 DEF OrderlyInv, StoppedIsQuiet
<1>5. EndsQuietly'
  BY <1>1 DEF EndsQuietly
<1>6. NoneToDo'
  BY DEF OrderlyInv, NoneToDo
<1>7. StopIsCalled'
  BY DEF OrderlyInv, StopIsCalled
<1> QED
  BY <1>2, <1>4, <1>5, <1>6, <1>7 DEF OrderlyInv, NoAssertionFails

LEMMA OrderlyPeersLost ==
    ASSUME CoreInv, CoreInv', OrderlyInv, NEW C \in SUBSET Sessions, C # {}, PeersLost(C) PROVE OrderlyInv'
<1> DEFINE more == DisconnectedTasks(C)
           p == <<"stop_protocol">>
<1>1. /\ Idle /\ proto.state = "RUNNING" /\ UNCHANGED <<endpoint, sender, dispatcher, frame, manner, faults>>
      /\ queue' = more \/ StopProtocol(more)
      /\ \E s \in {"none", "disconnected"} : OnDisconnected(C, s)
  BY DEF PeersLost, sending
<1>2. ToSet(queue) = {} /\ frame = NoFrame /\ frame.of = "none"
  BY <1>1, Idles DEF CoreInv
<1>3. /\ QueueOK(more) /\ ToSet(more) = {<<"disconnected", c>> : c \in {d \in C : peer[d].extra}}
  BY DisconnectedOrder DEF CoreInv
<1>4. \A d \in Sessions : session'[d].life = session[d].life
  BY <1>1, DisconnectingLives DEF CoreInv
<1> HIDE DEF more
<1>5. ToSet(queue') \subseteq ToSet(more) \union {p}
  BY <1>1, <1>3, StopProtocolTasks DEF CoreInv
<1>6. \A x \in ToSet(queue') : x = p \/ \E c \in C : x = <<"disconnected", c>> /\ peer[c].extra
  BY <1>3, <1>5
<1>7. \A d \in Sessions : <<"disconnected", d>> \in ToSet(queue') => session[d].life = "live"
  <2> SUFFICES ASSUME NEW d \in Sessions, peer[d].extra PROVE session[d].life = "live"
    BY <1>6
  <2>1. SlotOK(session[d], peer[d], endpoint[d], told[d], ToSet(queue), frame.rest, d)
    BY LifeTypes DEF CoreInv
  <2> QED
    BY <2>1 DEF SlotOK
<1>8. \A d \in Sessions : /\ <<"stop">> \notin ToSet(queue') /\ <<"disconnect", d>> \notin ToSet(queue')
                          /\ <<"disconnect_peer", d>> \notin ToSet(queue') /\ <<"send", d>> \notin ToSet(queue')
  BY <1>6
<1>9. EndsInOrder'
  BY <1>4, <1>7, <1>8, PrecedesMember DEF EndsInOrder
<1>10. EndsAlone'
  <2>1. \A t \in AskedTasks : t \notin ToSet(queue')
    BY <1>6, <1>8 DEF AskedTasks
  <2> QED
    BY <2>1 DEF EndsAlone
<1>11. Grown(queue', queue, ToSet(queue'))
  BY <1>2, PrecedesMember DEF Grown
<1>a. UNCHANGED <<endpoint, sender, dispatcher, frame, manner, faults>>
  BY <1>1
<1> QED
  <2>1. \A c \in Sessions : QuietAt(c)
    BY <1>2, QuietIdle DEF CoreInv
  <2>2. \A m \in Messages : sender[m].todo = <<>>
    BY <1>1 DEF Idle
  <2>3. <<"stop">> \notin ToSet(queue')
    BY <1>6
  <2> QED
    BY <1>2, <1>a, <1>4, <1>8, <1>9, <1>10, <1>11, <2>1, <2>2, <2>3, EndStep

LEMMA OrderlySessionDisconnect ==
    ASSUME CoreInv, CoreInv', OrderlyInv, Orderly(manner), NEW c \in Sessions, SessionDisconnect(c) PROVE OrderlyInv'
<1> DEFINE t == <<"disconnect", c>>
           u == <<"disconnect_peer", c>>
<1>1. /\ Running(t) /\ UNCHANGED <<session, endpoint, sender, dispatcher, frame, manner, faults>>
      /\ queue' = Tail(queue) \/ queue' = Submit(Tail(queue), u)
  BY DEF SessionDisconnect, objects, sending
<1>2. /\ t \in ToSet(queue) /\ frame = NoFrame /\ frame.of = "none" /\ QueueOK(Tail(queue))
      /\ ToSet(Tail(queue)) = ToSet(queue) \ {t}
      /\ \A x \in ToSet(queue) : x = t \/ Precedes(queue, t, x)
  BY <1>1, Runs DEF CoreInv
<1>3. u \in Tasks /\ t \in AskedTasks
  BY DEF Tasks, PeerTasks, AskedTasks
<1>4. Grown(Tail(queue), queue, {}) /\ t \notin ToSet(Tail(queue))
  BY <1>1, GrownTail DEF CoreInv
<1>5. Grown(Submit(Tail(queue), u), queue, {u})
  <2>1. {u} \union {} = {u}
    OBVIOUS
  <2>2. Grown(Submit(Tail(queue), u), Tail(queue), {u})
    BY <1>2, <1>3, GrownSubmit
  <2> QED
    BY <1>4, <2>1, <2>2, GrownJoin
<1>6. PICK added \in {{}, {u}} : Grown(queue', queue, added)
  BY <1>1, <1>4, <1>5
<1>7. ToSet(queue') \subseteq (ToSet(queue) \ {t}) \union {u}
  <2>1. ToSet(Submit(Tail(queue), u)) = ToSet(Tail(queue)) \union {u}
    BY <1>2, <1>3, SubmitOrder
  <2> HIDE DEF t, u
  <2> QED
    BY <1>1, <1>2, <2>1
<1>8. \A d \in Sessions : <<"disconnected", d>> \notin ToSet(queue)
  <2> SUFFICES ASSUME NEW d \in Sessions, <<"disconnected", d>> \in ToSet(queue) PROVE FALSE
    OBVIOUS
  <2>1. Precedes(queue, t, <<"disconnected", d>>)
    BY <1>2
  <2> QED
    BY <2>1 DEF OrderlyInv, EndsInOrder
<1>9. \A x, y : Precedes(queue', x, y) => Precedes(queue, x, y) \/ (x \in ToSet(queue') /\ y = u)
  BY <1>6, PrecedesMember DEF Grown
<1>10. EndsInOrder'
  <2> SUFFICES ASSUME NEW a \in Sessions, NEW d \in Sessions
               PROVE  /\ <<"disconnected", a>> \in ToSet(queue') => session'[a].life = "live"
                      /\ ~ Precedes(queue', <<"stop">>, <<"disconnected", a>>)
                      /\ ~ Precedes(queue', <<"disconnect_peer", a>>, <<"stop">>)
                      /\ ~ Precedes(queue', <<"disconnected", a>>, <<"disconnect_peer", d>>)
                      /\ ~ Precedes(queue', <<"disconnect", a>>, <<"disconnected", d>>)
                      /\ ~ Precedes(queue', <<"disconnect_peer", a>>, <<"disconnect", d>>)
    BY DEF EndsInOrder
  <2>1. /\ <<"disconnected", a>> \notin ToSet(queue') /\ <<"disconnected", d>> \notin ToSet(queue')
    BY <1>7, <1>8
  <2>2. /\ ~ Precedes(queue', <<"disconnect_peer", a>>, <<"stop">>)
        /\ ~ Precedes(queue', <<"disconnect_peer", a>>, <<"disconnect", d>>)
    <3>1. u # <<"stop">> /\ u # <<"disconnect", d>>
      OBVIOUS
    <3>2. /\ ~ Precedes(queue, <<"disconnect_peer", a>>, <<"stop">>)
          /\ ~ Precedes(queue, <<"disconnect_peer", a>>, <<"disconnect", d>>)
      BY DEF OrderlyInv, EndsInOrder
    <3> HIDE DEF u
    <3> QED
      BY <1>9, <3>1, <3>2
  <2> QED
    BY <2>1, <2>2, PrecedesMember
<1>11. EndsAlone'
  <2> SUFFICES ASSUME EndsBetween(manner), NEW x \in AskedTasks, x \in ToSet(queue')
               PROVE  ToSet(queue') = {x} /\ frame' = NoFrame
    BY <1>1 DEF EndsAlone
  <2>1. ToSet(queue) = {t}
    BY <1>2, <1>3 DEF OrderlyInv, EndsAlone
  <2> QED
    BY <1>1, <1>2, <1>7, <2>1
<1>12. \A d \in Sessions : QuietAt(d)
  BY <1>2, <1>3, AskedQuiet
<1>13. frame'.of \notin Noisy
  BY <1>1, <1>2 DEF Noisy
<1>14. Hurried
  BY <1>2 DEF Hurried
<1>15. NeverStops(manner) => <<"stop">> \notin ToSet(queue')
  BY <1>7 DEF OrderlyInv, StopIsCalled
<1>16. \A d \in Sessions : <<"send", d>> \notin added
  OBVIOUS
<1> QED
  BY <1>1, <1>6, <1>10, <1>11, <1>12, <1>13, <1>14, <1>15, <1>16, EndStep

LEMMA OrderlyPeerDisconnect ==
    ASSUME CoreInv, CoreInv', OrderlyInv, Orderly(manner), NEW c \in Sessions, PeerDisconnect(c) PROVE OrderlyInv'
<1> DEFINE t == <<"disconnect_peer", c>>
           C == {c}
           more == DisconnectedTasks(C)
<1>1. /\ Running(t) /\ UNCHANGED <<endpoint, sender, dispatcher, frame, manner>>
      /\ faults' = IF peer[c].state = "none" THEN {"released peer"} ELSE {}
      /\ \/ OnDisconnected(C, "disconnecting") /\ queue' = SubmitAll(Tail(queue), more)
         \/ UNCHANGED session /\ queue' = Tail(queue)
  BY DEF PeerDisconnect, sending
<1>c. C \in SUBSET Sessions
  OBVIOUS
<1> HIDE DEF C, more
<1>2. /\ t \in ToSet(queue) /\ frame = NoFrame /\ frame.of = "none" /\ QueueOK(Tail(queue))
      /\ ToSet(Tail(queue)) = ToSet(queue) \ {t}
      /\ \A x \in ToSet(queue) : x = t \/ Precedes(queue, t, x)
  BY <1>1, Runs DEF CoreInv
<1>3. UNCHANGED faults
  <2>1. SlotOK(session[c], peer[c], endpoint[c], told[c], ToSet(queue), frame.rest, c)
    BY LifeTypes DEF CoreInv
  <2>2. peer[c].state # "none"
    BY <1>2, <2>1 DEF SlotOK
  <2> QED
    BY <1>1, <2>2 DEF OrderlyInv, NoAssertionFails
<1>4. \A d \in Sessions : session'[d].life = session[d].life
  BY <1>1, <1>c, DisconnectingLives DEF CoreInv
<1>5. QueueOK(more) /\ ToSet(more) = {<<"disconnected", d>> : d \in {e \in C : peer[e].extra}}
  BY <1>c, DisconnectedOrder DEF CoreInv, more
<1>6. Grown(Tail(queue), queue, {})
  BY <1>1, GrownTail DEF CoreInv
<1>7. Grown(SubmitAll(Tail(queue), more), queue, ToSet(more))
  <2> DEFINE a == ToSet(more)
             r == SubmitAll(Tail(queue), more)
             q == Tail(queue)
  <2>1. Grown(r, q, a)
    BY <1>2, <1>5, GrownSubmitAll
  <2>2. a \union {} = a
    OBVIOUS
  <2> HIDE DEF a, r, q
  <2>3. Grown(q, queue, {})
    BY <1>6 DEF q
  <2>4. Grown(r, queue, a)
    BY <2>1, <2>2, <2>3, GrownJoin
  <2> QED
    BY <2>4 DEF a, r, q
<1>8. PICK added \in {{}, ToSet(more)} : Grown(queue', queue, added)
  BY <1>1, <1>6, <1>7
<1>9. \A x \in added : \E d \in Sessions : x = <<"disconnected", d>> /\ session[d].life = "live"
  <2> SUFFICES ASSUME NEW d \in Sessions, peer[d].extra PROVE session[d].life = "live"
    BY <1>c, <1>5, <1>8
  <2>1. SlotOK(session[d], peer[d], endpoint[d], told[d], ToSet(queue), frame.rest, d)
    BY LifeTypes DEF CoreInv
  <2> QED
    BY <2>1 DEF SlotOK
<1>10. ToSet(queue') \subseteq (ToSet(queue) \ {t}) \union added
  <2>1. ToSet(queue') \subseteq ToSet(Tail(queue)) \union ToSet(more)
    BY <1>1, <1>2, <1>5, SubmitAllOrder
  <2>2. t \notin ToSet(more)
    BY <1>5
  <2>3. t \notin ToSet(queue')
    BY <1>2, <2>1, <2>2
  <2> QED
    BY <1>8, <2>3 DEF Grown
<1>11. \A d \in Sessions : <<"stop">> \notin ToSet(queue) /\ <<"disconnect", d>> \notin ToSet(queue)
  <2> SUFFICES ASSUME NEW x \in ToSet(queue), x = <<"stop">> \/ \E d \in Sessions : x = <<"disconnect", d>> PROVE FALSE
    OBVIOUS
  <2>1. Precedes(queue, t, x)
    BY <1>2
  <2> QED
    BY <2>1 DEF OrderlyInv, EndsInOrder
<1>12. /\ <<"stop">> \notin ToSet(queue')
       /\ \A d \in Sessions : <<"disconnect", d>> \notin ToSet(queue')
  BY <1>9, <1>10, <1>11
<1>13. EndsInOrder'
  <2> SUFFICES ASSUME NEW a \in Sessions, NEW d \in Sessions
               PROVE  /\ <<"disconnected", a>> \in ToSet(queue') => session'[a].life = "live"
                      /\ ~ Precedes(queue', <<"stop">>, <<"disconnected", a>>)
                      /\ ~ Precedes(queue', <<"disconnect_peer", a>>, <<"stop">>)
                      /\ ~ Precedes(queue', <<"disconnected", a>>, <<"disconnect_peer", d>>)
                      /\ ~ Precedes(queue', <<"disconnect", a>>, <<"disconnected", d>>)
                      /\ ~ Precedes(queue', <<"disconnect_peer", a>>, <<"disconnect", d>>)
    BY DEF EndsInOrder
  <2>1. <<"disconnected", a>> \in ToSet(queue') => session'[a].life = "live"
    BY <1>4, <1>9, <1>10 DEF OrderlyInv, EndsInOrder
  <2>2. ~ Precedes(queue', <<"disconnected", a>>, <<"disconnect_peer", d>>)
    <3>1. <<"disconnect_peer", d>> \notin added
      BY <1>9
    <3> QED
      BY <1>8, <3>1 DEF Grown, OrderlyInv, EndsInOrder
  <2> QED
    BY <1>12, <2>1, <2>2, PrecedesMember
<1>14. EndsAlone'
  <2> SUFFICES ASSUME EndsBetween(manner), NEW x \in AskedTasks, x \in ToSet(queue') PROVE FALSE
    BY <1>1 DEF EndsAlone
  <2>1. t \in AskedTasks
    BY DEF AskedTasks
  <2>2. ToSet(queue) = {t}
    BY <1>2, <2>1 DEF OrderlyInv, EndsAlone
  <2>3. x \notin added
    BY <1>9, EndKindNames
  <2> QED
    BY <1>10, <2>2, <2>3
<1>15. \A d \in Sessions : QuietAt(d)
  <2>1. t \in AskedTasks
    BY DEF AskedTasks
  <2> QED
    BY <1>2, <2>1, AskedQuiet
<1>16. frame'.of \notin Noisy
  BY <1>1, <1>2 DEF Noisy
<1>17. Hurried
  BY <1>2 DEF Hurried
<1>18. \A d \in Sessions : <<"send", d>> \notin added
  BY <1>9
<1>a. UNCHANGED <<endpoint, sender, dispatcher, frame, manner>>
  BY <1>1
<1> QED
  BY <1>a, <1>3, <1>4, <1>8, <1>12, <1>13, <1>14, <1>15, <1>16, <1>17, <1>18, EndStep

LEMMA OrderlySocketStop == ASSUME CoreInv, CoreInv', OrderlyInv, Orderly(manner), SocketStop PROVE OrderlyInv'
<1> DEFINE t == <<"stop">>
           more == StopTasks
           q == Tail(queue)
           a == ToSet(more)
<1>1. /\ Running(t) /\ UNCHANGED <<endpoint, sender, dispatcher, frame, manner, faults>>
      /\ queue' = SubmitAll(q, more)
  BY DEF SocketStop, StopTasks, ReleasedTasks, sending
<1>2. /\ t \in ToSet(queue) /\ frame = NoFrame /\ frame.of = "none" /\ QueueOK(q)
      /\ ToSet(q) = ToSet(queue) \ {t}
      /\ \A x \in ToSet(queue) : x = t \/ Precedes(queue, t, x)
  BY <1>1, Runs DEF CoreInv
<1>3. /\ QueueOK(more)
      /\ \A x \in a : \/ x = <<"stop_protocol">> \/ x = <<"destroy_protocol">>
                      \/ \E c \in ToSet(listed) : x = <<"stop_endpoint", c>> \/ x = <<"destroy_endpoint", c>>
  BY StopTasksOrder DEF CoreInv
<1>4. Grown(q, queue, {})
  BY <1>1, GrownTail DEF CoreInv
<1> HIDE DEF more
<1>5. Grown(queue', q, a)
  BY <1>1, <1>2, <1>3, GrownSubmitAll
<1> HIDE DEF q, a
<1>6. Grown(queue', queue, a)
  <2>1. a \union {} = a
    OBVIOUS
  <2> QED
    BY <1>4, <1>5, <2>1, GrownJoin
<1>7. t \in AskedTasks /\ t \in EndKinds
  BY DEF AskedTasks, EndKinds
<1>8. /\ \A x \in EndKinds : x \notin a
      /\ \A d \in Sessions : <<"send", d>> \notin a
  BY <1>3 DEF EndKinds
<1>9. \A d \in Sessions : <<"disconnected", d>> \notin ToSet(queue')
  <2> SUFFICES ASSUME NEW d \in Sessions, <<"disconnected", d>> \in ToSet(queue') PROVE FALSE
    OBVIOUS
  <2>1. <<"disconnected", d>> \in ToSet(queue)
    BY <1>6, <1>8, EndKindNames DEF Grown
  <2>2. Precedes(queue, t, <<"disconnected", d>>)
    BY <1>2, <2>1
  <2> QED
    BY <2>2 DEF OrderlyInv, EndsInOrder
<1>10. EndsInOrder'
  BY <1>6, <1>8, <1>9, InOrderKept DEF OrderlyInv
<1>11. t \notin ToSet(queue')
  BY <1>2, <1>5, <1>7, <1>8 DEF Grown
<1>12. EndsAlone'
  <2> SUFFICES ASSUME EndsBetween(manner), NEW x \in AskedTasks, x \in ToSet(queue') PROVE FALSE
    BY <1>1 DEF EndsAlone
  <2>1. ToSet(queue) = {t}
    BY <1>2, <1>7 DEF OrderlyInv, EndsAlone
  <2>2. x \in EndKinds
    BY DEF AskedTasks, EndKinds
  <2> QED
    BY <1>6, <1>8, <1>11, <2>1, <2>2 DEF Grown
<1>13. \A c \in Sessions : QuietAt(c)
  BY <1>2, <1>7, AskedQuiet
<1>14. frame'.of \notin Noisy
  BY <1>1, <1>2 DEF Noisy
<1>15. Hurried
  BY <1>2 DEF Hurried
<1>16. ~ NeverStops(manner)
  BY <1>2 DEF OrderlyInv, StopIsCalled
<1>17. \A c \in Sessions : Unsent(c)
  <2> SUFFICES ASSUME NEW c \in Sessions, NEW m \in Messages
               PROVE  c \notin ToSet(sender[m].todo) /\ sender[m].phase # "summing"
    BY DEF Unsent
  <2>1. sender[m].todo = <<>>
    BY <1>15 DEF OrderlyInv, NoneToDo
  <2>2. sender[m].phase # "summing"
    BY <1>16 DEF OrderlyInv, StopIsCalled, Orderly
  <2> QED
    BY <2>1, <2>2, EmptyOrder
<1>18. StoppedIsQuiet'
  <2>1. \A c \in Sessions : QuietAt(c)'
    BY <1>1, <1>6, <1>8, <1>13, QuietKept
  <2>2. \A c \in Sessions : Unsent(c)'
    BY <1>1, <1>17 DEF Unsent
  <2> QED
    BY <2>1, <2>2 DEF StoppedIsQuiet
<1>a. UNCHANGED <<endpoint, sender, dispatcher, frame, manner, faults>>
  BY <1>1
<1> QED
  BY <1>a, <1>6, <1>8, <1>10, <1>12, <1>13, <1>14, <1>15, <1>16, <1>18, EndStep

\* An end that is asked for in a callback, of one that is orderly.
LEMMA AskedInCallback ==
    ASSUME LifeInv, Orderly(manner), frame # NoFrame, NEW call \in {"disconnect", "stop"}, <<frame.of, call>> \in manner.calls
    PROVE  SendsBetween(manner) /\ ~ EndsBetween(manner) /\ frame.of \in Noisy
<1>1. frame.of \in Callbacks \ {"none"}
  BY DEF LifeInv, LifeTypeOK
<1>2. ~ EndsBetween(manner)
  BY <1>1 DEF EndsBetween
<1>3. SendsBetween(manner)
  BY <1>2 DEF Orderly
<1>4. frame.of # "result"
  BY <1>3 DEF SendsBetween
<1> QED
  BY <1>1, <1>2, <1>3, <1>4 DEF Callbacks, Noisy

LEMMA OrderlyAsks ==
    ASSUME CoreInv, CoreInv', OrderlyInv, Orderly(manner), NEW call \in {"disconnect", "stop"}, MayCall(call),
           NEW t, (t = <<"stop">> /\ call = "stop") \/ \E c \in Sessions : t = <<"disconnect", c>>,
           queue' = Submit(queue, t), UNCHANGED <<manner, faults, sender, dispatcher, session, endpoint, frame>>
    PROVE  OrderlyInv'
<1>1. t \in Tasks /\ t \in AskedTasks
  BY DEF Tasks, PeerTasks, AskedTasks
<1>2. Grown(queue', queue, {t}) /\ ToSet(queue') = ToSet(queue) \union {t}
  BY <1>1, LifeTypes, GrownSubmit, SubmitOrder DEF CoreInv
<1>3. Idle => ToSet(queue) = {} /\ frame = NoFrame
  BY Idles DEF CoreInv
<1>4. frame # NoFrame => SendsBetween(manner) /\ ~ EndsBetween(manner) /\ frame.of \in Noisy
  BY AskedInCallback DEF CoreInv, MayCall
<1>5. Idle \/ frame # NoFrame
  BY DEF MayCall
<1>6. \A d \in Sessions : <<"disconnect_peer", d>> \notin ToSet(queue)
  BY <1>3, <1>4, <1>5 DEF OrderlyInv, EndsQuietly
<1>7. \A d \in Sessions : <<"disconnect_peer", d>> # t /\ <<"disconnected", d>> # t /\ <<"send", d>> # t
  OBVIOUS
<1>8. EndsInOrder'
  <2> SUFFICES ASSUME NEW a \in Sessions, NEW d \in Sessions
               PROVE  /\ <<"disconnected", a>> \in ToSet(queue') => session'[a].life = "live"
                      /\ ~ Precedes(queue', <<"stop">>, <<"disconnected", a>>)
                      /\ ~ Precedes(queue', <<"disconnect_peer", a>>, <<"stop">>)
                      /\ ~ Precedes(queue', <<"disconnected", a>>, <<"disconnect_peer", d>>)
                      /\ ~ Precedes(queue', <<"disconnect", a>>, <<"disconnected", d>>)
                      /\ ~ Precedes(queue', <<"disconnect_peer", a>>, <<"disconnect", d>>)
    BY DEF EndsInOrder
  <2>1. <<"disconnect_peer", a>> \notin ToSet(queue') /\ <<"disconnect_peer", d>> \notin ToSet(queue')
    BY <1>2, <1>6, <1>7
  <2>2. /\ ~ Precedes(queue', <<"stop">>, <<"disconnected", a>>)
        /\ ~ Precedes(queue', <<"disconnect", a>>, <<"disconnected", d>>)
    BY <1>2, <1>7 DEF Grown, OrderlyInv, EndsInOrder
  <2>3. <<"disconnected", a>> \in ToSet(queue') => session'[a].life = "live"
    BY <1>2, <1>7 DEF OrderlyInv, EndsInOrder
  <2> QED
    BY <2>1, <2>2, <2>3, PrecedesMember
<1>9. EndsAlone'
  <2> SUFFICES ASSUME EndsBetween(manner), NEW x \in AskedTasks, x \in ToSet(queue')
               PROVE  ToSet(queue') = {x} /\ frame' = NoFrame
    BY DEF EndsAlone
  <2> QED
    BY <1>2, <1>3, <1>4, <1>5
<1>10. SendsBetween(manner) => \A c \in Sessions : QuietAt(c)
  <2>1. CASE Idle
    BY <1>3, <2>1, QuietIdle DEF CoreInv
  <2>2. CASE frame # NoFrame
    BY <1>4, <2>2 DEF OrderlyInv, EndsQuietly, Ending
  <2> QED
    BY <1>5, <2>1, <2>2
<1>11. \A c \in Sessions : <<"disconnect_peer", c>> \notin ToSet(queue')
  BY <1>2, <1>6, <1>7
<1>12. Hurried' => Hurried \/ \A m \in Messages : sender[m].todo = <<>>
  <2>1. CASE Idle
    BY <2>1 DEF Idle
  <2>2. CASE frame # NoFrame
    BY <1>4, <2>2 DEF Hurried
  <2> QED
    BY <1>5, <2>1, <2>2
<1>13. DispatchesAhead'
  <2>1. \A d \in Sessions : <<"disconnected", d>> \notin {t} /\
            (<<"disconnected", d>> \in ToSet(queue) => <<"disconnected", d>> \in ToSet(queue'))
    BY <1>2, <1>7
  <2> QED
    BY <1>2, <2>1, AheadKept DEF CoreInv, OrderlyInv
<1>14. NeverStops(manner) => <<"stop">> \notin ToSet(queue')
  <2> SUFFICES ASSUME NeverStops(manner) PROVE <<"stop">> \notin ToSet(queue')
    OBVIOUS
  <2>1. <<"stop">> \notin ToSet(queue)
    BY DEF OrderlyInv, StopIsCalled
  <2>2. frame.of \in Callbacks /\ <<frame.of, call>> \in manner.calls
    BY DEF MayCall, CoreInv, LifeInv, LifeTypeOK
  <2>3. call # "stop"
    BY <2>2 DEF NeverStops
  <2>4. t # <<"stop">>
    BY <2>3
  <2> QED
    BY <1>2, <2>1, <2>4
<1>15. \A c \in Sessions : <<"send", c>> \notin {t}
  BY <1>7
<1> QED
  BY <1>2, <1>8, <1>9, <1>10, <1>11, <1>12, <1>13, <1>14, <1>15, EndStep

LEMMA OrderlyDisconnect ==
    ASSUME CoreInv, CoreInv', OrderlyInv, Orderly(manner), NEW c \in Sessions, Disconnect(c) PROVE OrderlyInv'
<1> DEFINE t == <<"disconnect", c>>
<1>1. /\ MayCall("disconnect") /\ queue' = Submit(queue, t)
      /\ UNCHANGED <<manner, faults, sender, dispatcher, session, endpoint, frame>>
  BY DEF Disconnect, objects, sending
<1> QED
  BY <1>1, OrderlyAsks

LEMMA OrderlyStop == ASSUME CoreInv, CoreInv', OrderlyInv, Orderly(manner), Stop PROVE OrderlyInv'
<1> DEFINE t == <<"stop">>
<1>1. /\ MayCall("stop") /\ queue' = Submit(queue, t)
      /\ UNCHANGED <<manner, faults, sender, dispatcher, session, endpoint, frame>>
  BY DEF Stop, objects, sending
<1> QED
  BY <1>1, OrderlyAsks

\* A step of sending: the life of sessions is left alone.
LEMMA SendStep ==
    ASSUME CoreInv, OrderlyInv, UNCHANGED <<session, manner, faults>>, DispatchesAhead',
           \A c \in Sessions : endpoint'[c].extra = endpoint[c].extra,
           NEW added \in SUBSET SendTasks, Grown(queue', queue, added),
           queue = <<>> \/ frame # NoFrame \/ \E u \in Tasks : Running(u) /\ u \notin AskedTasks,
           frame'.of \in Noisy => frame.of \in Noisy,
           SendsBetween(manner) /\ Ending => \A c \in Sessions : QuietAt(c) => QuietAt(c)',
           \A c \in Sessions : session[c].life = "released" /\ endpoint[c].extra /\ QuietAt(c) /\ Unsent(c) =>
                                  QuietAt(c)' /\ Unsent(c)',
           \A m \in Messages : Hurried /\ sender[m].todo = <<>> => sender'[m].todo = <<>>,
           \A m \in Messages : sender'[m].phase = "summing" => sender[m].phase = "summing" \/ manner.big # {}
    PROVE  OrderlyInv'
<1>1. \A t \in EndKinds \union EndTasks : t \notin added
  BY DEF EndKinds, EndTasks, SendTasks, DispatcherTasks
<1>2. \A c \in Sessions : <<"ready", c>> \notin added
  BY DEF SendTasks, DispatcherTasks
<1>3. frame'.of \in Noisy => Ending /\ Hurried
  BY DEF Ending, Hurried
<1>4. Ending' => Ending
  BY <1>1, <1>3, EndingKept
<1>5. Hurried' => Hurried
  BY <1>1, <1>2, <1>3, HurriedKept
<1>6. \A c \in Sessions : session'[c].life = session[c].life
  OBVIOUS
<1>7. StoppedIsQuiet'
  BY <1>6 DEF OrderlyInv, StoppedIsQuiet
<1> QED
  BY <1>1, <1>4, <1>5, <1>6, <1>7, OrderlyStep

\* The dispatchers of a bus are cancelled.
LEMMA CanceledStages ==
    ASSUME SendInv, NEW c \in Sessions, NEW ms, CancelAll(ms, c)
    PROVE  \A m \in Messages, d \in Sessions :
              \/ dispatcher'[m][d] = dispatcher[m][d]
              \/ d = c /\ dispatcher'[m][d].stage = "complete" /\ dispatcher'[m][d].canceled
<1> SUFFICES ASSUME NEW m \in Messages, NEW d \in Sessions
             PROVE  \/ dispatcher'[m][d] = dispatcher[m][d]
                    \/ d = c /\ dispatcher'[m][d].stage = "complete" /\ dispatcher'[m][d].canceled
  OBVIOUS
<1> DEFINE e == [stage |-> "complete", canceled |-> TRUE]
<1>1. dispatcher[m] \in [Sessions -> DispatcherRecord]
  BY DEF SendInv, SendTypeOK
<1>2. dispatcher'[m] = IF Contains(ms, m) THEN [dispatcher[m] EXCEPT ![c] = e] ELSE dispatcher[m]
  BY DEF CancelAll
<1>3. e.stage = "complete" /\ e.canceled
  OBVIOUS
<1> HIDE DEF e
<1> QED
  BY <1>1, <1>2, <1>3

LEMMA OrderlyCancels ==
    ASSUME CoreInv, CoreInv', OrderlyInv, NEW c \in Sessions, NEW t \in Tasks \ AskedTasks, Running(t),
           \A d \in Sessions : t # <<"disconnected", d>>, CancelAll(Held(bus[c]), c),
           queue' = SubmitAll(Tail(queue), CanceledTasks(Held(bus[c]), c)),
           \A d \in Sessions : endpoint'[d].extra = endpoint[d].extra,
           UNCHANGED <<session, sender, frame, manner, faults>>
    PROVE  OrderlyInv'
<1> DEFINE more == CanceledTasks(Held(bus[c]), c)
           a == ToSet(more)
           q == Tail(queue)
<1>1. QueueOK(more) /\ a \subseteq DispatcherTasks
  BY CanceledOrder DEF CoreInv
<1>2. QueueOK(q) /\ ToSet(q) = ToSet(queue) \ {t} /\ Grown(q, queue, {}) /\ frame.rest = <<>> /\ frame.of = "none"
  BY Runs, GrownTail DEF CoreInv
<1> HIDE DEF more, q
<1>3. Grown(queue', q, a) /\ ToSet(queue') = ToSet(q) \union a
  BY <1>1, <1>2, GrownSubmitAll, SubmitAllOrder DEF more, q
<1> HIDE DEF a
<1>4. Grown(queue', queue, a)
  <2>1. a \union {} = a
    OBVIOUS
  <2> QED
    BY <1>2, <1>3, <2>1, GrownJoin
<1>5. a \in SUBSET SendTasks /\ \A d \in Sessions : <<"send", d>> \notin a /\ <<"disconnected", d>> \notin a
  BY <1>1 DEF SendTasks, DispatcherTasks
<1>6. \A m \in Messages, d \in Sessions :
              \/ dispatcher'[m][d] = dispatcher[m][d]
              \/ d = c /\ dispatcher'[m][d].stage = "complete" /\ dispatcher'[m][d].canceled
  BY CanceledStages DEF CoreInv
<1>7. ASSUME NEW d \in Sessions, QuietAt(d) PROVE QuietAt(d)'
  <2>1. <<"send", d>> \notin ToSet(queue')
    BY <1>4, <1>5, <1>7 DEF Grown, QuietAt
  <2> QED
    BY <1>6, <1>7, <2>1 DEF QuietAt
<1>8. \A d \in Sessions : Unsent(d) => Unsent(d)'
  BY DEF Unsent
<1>9. \A d \in Sessions : <<"disconnected", d>> \in ToSet(queue) => <<"disconnected", d>> \in ToSet(queue')
  BY <1>2, <1>3
<1>10. \A m \in Messages, d \in Sessions : dispatcher'[m][d].stage = "dispatch" => dispatcher[m][d].stage = "dispatch"
  BY <1>6
<1>11. DispatchesAhead'
  BY <1>4, <1>5, <1>9, <1>10, AheadKept DEF CoreInv, OrderlyInv
<1> QED
  BY <1>4, <1>5, <1>7, <1>8, <1>11, SendStep

LEMMA OrderlyStopEndpoint ==
    ASSUME CoreInv, CoreInv', OrderlyInv, NEW c \in Sessions, StopEndpoint(c) PROVE OrderlyInv'
<1> DEFINE t == <<"stop_endpoint", c>>
<1>1. /\ Running(t) /\ UNCHANGED <<session, sender, frame, manner, faults>>
      /\ endpoint' = [endpoint EXCEPT ![c].scheduled = FALSE]
      /\ \/ queue' = Tail(queue) /\ UNCHANGED dispatcher
         \/ /\ CancelAll(Held(bus[c]), c)
            /\ queue' = SubmitAll(Tail(queue), CanceledTasks(Held(bus[c]), c))
  BY DEF StopEndpoint
<1>2. endpoint \in [Sessions -> EndpointRecord]
  BY DEF CoreInv, LifeInv, LifeTypeOK
<1>3. \A d \in Sessions : endpoint'[d].extra = endpoint[d].extra
  BY <1>1, <1>2 DEF EndpointRecord
<1>4. t \in Tasks \ AskedTasks /\ \A d \in Sessions : t # <<"disconnected", d>>
  BY DEF Tasks, PeerTasks, AskedTasks
<1>5. CASE queue' = Tail(queue) /\ UNCHANGED dispatcher
  BY <1>1, <1>3, <1>4, <1>5, OrderlyTail
<1>6. CASE CancelAll(Held(bus[c]), c) /\ queue' = SubmitAll(Tail(queue), CanceledTasks(Held(bus[c]), c))
  BY <1>1, <1>3, <1>4, <1>6, OrderlyCancels
<1> QED
  BY <1>1, <1>5, <1>6

\* What a bus takes is dispatched by tasks behind the end of the session.
LEMMA OrderlyBusSend ==
    ASSUME CoreInv, CoreInv', OrderlyInv, NEW c \in Sessions, BusSend(c) PROVE OrderlyInv'
<1> DEFINE t == <<"send", c>>
           taken == Taken(bus[c])
           more == [i \in DOMAIN taken |-> <<"dispatcher", taken[i], c>>]
           a == ToSet(more)
           q == Tail(queue)
<1>1. Running(t) /\ UNCHANGED <<session, endpoint, sender, frame, manner, faults>>
  BY DEF BusSend
<1>2. /\ t \in Tasks \ AskedTasks /\ \A d \in Sessions : t # <<"disconnected", d>>
  BY DEF Tasks, PeerTasks, AskedTasks
<1>3. CASE bus[c].stop
  <2>1. CancelAll(Held(bus[c]), c) /\ queue' = SubmitAll(Tail(queue), CanceledTasks(Held(bus[c]), c))
    BY <1>3 DEF BusSend
  <2> QED
    BY <1>1, <1>2, <2>1, OrderlyCancels
<1>4. CASE ~ bus[c].stop
  <2>1. /\ dispatcher' = [m \in Messages |-> IF Contains(taken, m) THEN [dispatcher[m] EXCEPT ![c].stage = "dispatch"]
                                             ELSE dispatcher[m]]
        /\ queue' = SubmitAll(q, more)
    BY <1>4 DEF BusSend
  <2>2. /\ QueueOK(q) /\ ToSet(q) = ToSet(queue) \ {t} /\ Grown(q, queue, {})
        /\ frame.rest = <<>> /\ frame.of = "none" /\ t \in ToSet(queue)
    BY <1>1, Runs, GrownTail DEF CoreInv
  <2>3. QueueOK(more) /\ a \subseteq DispatcherTasks /\ \A x : x \in a <=> \E m \in ToSet(taken) : x = <<"dispatcher", m, c>>
    <3>1. bus[c] \in BusRecord /\ IsInjective(bus[c].pending)
      BY Sendings DEF CoreInv, BusHolds
    <3>2. PICK k \in 0 .. Len(bus[c].pending) : taken = SubSeq(bus[c].pending, 1, k)
      BY <1>4, <3>1, TakenUpTo
    <3>3. bus[c].pending \in Seq(Messages)
      BY <3>1 DEF BusRecord
    <3>4. taken \in Seq(Messages) /\ IsInjective(taken)
      BY <3>1, <3>2, <3>3, Parted
    <3> HIDE DEF taken, more
    <3> QED
      BY <3>4, DispatcherTasksOrder DEF more
  <2> HIDE DEF more, q, taken
  <2>4. Grown(queue', q, a) /\ ToSet(queue') = ToSet(q) \union a
    BY <2>1, <2>2, <2>3, GrownSubmitAll, SubmitAllOrder
  <2> HIDE DEF a
  <2>5. Grown(queue', queue, a)
    <3>1. a \union {} = a
      OBVIOUS
    <3> QED
      BY <2>2, <2>4, <3>1, GrownJoin
  <2>6. a \in SUBSET SendTasks /\ \A d \in Sessions : <<"send", d>> \notin a /\ <<"disconnected", d>> \notin a
    BY <2>3 DEF SendTasks, DispatcherTasks
  <2>7. ASSUME NEW m \in Messages, NEW d \in Sessions, d # c PROVE dispatcher'[m][d] = dispatcher[m][d]
    <3>1. dispatcher[m] \in [Sessions -> DispatcherRecord]
      BY DEF CoreInv, SendInv, SendTypeOK
    <3>2. dispatcher'[m] = IF Contains(taken, m) THEN [dispatcher[m] EXCEPT ![c].stage = "dispatch"] ELSE dispatcher[m]
      BY <2>1
    <3> QED
      BY <2>7, <3>1, <3>2
  <2>8. ~ QuietAt(c)
    BY <2>2 DEF QuietAt
  <2>9. ASSUME NEW d \in Sessions, d # c, QuietAt(d) PROVE QuietAt(d)'
    <3>1. <<"send", d>> \notin ToSet(queue')
      BY <2>5, <2>6, <2>9 DEF Grown, QuietAt
    <3> QED
      BY <2>7, <2>9, <3>1 DEF QuietAt
  <2>10. \A d \in Sessions : Unsent(d) => Unsent(d)'
    BY <1>1 DEF Unsent
  <2>11. DispatchesAhead'
    <3> SUFFICES ASSUME NEW m \in Messages, NEW d \in Sessions, session'[d].life = "live", ~ session'[d].peer,
                        dispatcher'[m][d].stage = "dispatch"
                 PROVE  Precedes(queue', <<"disconnected", d>>, <<"dispatcher", m, d>>)
      BY DEF DispatchesAhead
    <3>1. session[d].life = "live" /\ ~ session[d].peer /\ frame'.rest = <<>>
      BY <1>1, <2>2
    <3>2. SlotOK(session[d], peer[d], endpoint[d], told[d], ToSet(queue), frame.rest, d)
      BY LifeTypes DEF CoreInv
    <3>3. <<"disconnected", d>> \in ToSet(queue)
      BY <2>2, <3>1, <3>2 DEF SlotOK
    <3>4. <<"disconnected", d>> \in ToSet(queue')
      BY <1>2, <2>2, <2>4, <3>3
    <3>5. <<"dispatcher", m, d>> \in ToSet(queue')
      <4>1. DispatcherOK(dispatcher'[m][d], ToSet(queue'), frame'.rest, m, d)
        BY DEF CoreInv, SendInv
      <4> QED
        BY <3>1, <4>1 DEF DispatcherOK
    <3>6. <<"dispatcher", m, d>> \in a \/ Precedes(queue, <<"disconnected", d>>, <<"dispatcher", m, d>>)
      <4>1. CASE dispatcher[m][d].stage = "dispatch"
        BY <2>2, <3>1, <4>1 DEF OrderlyInv, DispatchesAhead
      <4>2. CASE dispatcher[m][d].stage # "dispatch"
        <5>1. d = c
          BY <2>7, <4>2
        <5>2. m \in ToSet(taken)
          <6>1. Contains(taken, m)
            BY <2>1, <4>2
          <6> QED
            BY <6>1 DEF Contains, ToSet
        <5> QED
          BY <2>3, <5>1, <5>2
      <4> QED
        BY <4>1, <4>2
    <3> QED
      BY <2>5, <2>6, <3>4, <3>5, <3>6 DEF Grown
  <2>12. \E u \in Tasks : Running(u) /\ u \notin AskedTasks
    BY <1>1, <1>2
  <2> QED
    BY <1>1, <2>5, <2>6, <2>8, <2>9, <2>10, <2>11, <2>12, SendStep DEF OrderlyInv, EndsQuietly
<1> QED
  BY <1>3, <1>4

LEMMA StageSet ==
    ASSUME SendInv, NEW m \in Messages, NEW c \in Sessions, NEW s \in {"acking", "complete", "done"},
           dispatcher' = [dispatcher EXCEPT ![m][c].stage = s]
    PROVE  /\ dispatcher'[m][c].stage = s
           /\ \A n \in Messages, d \in Sessions : n # m \/ d # c => dispatcher'[n][d] = dispatcher[n][d]
<1>1. s = "acking" \/ s = "complete" \/ s = "done"
  OBVIOUS
<1>2. CASE s = "acking"
  <2>1. dispatcher' = [dispatcher EXCEPT ![m][c].stage = "acking"]
    BY <1>2
  <2>2. /\ dispatcher'[m][c].stage = "acking"
        /\ \A n \in Messages, d \in Sessions : n # m \/ d # c => dispatcher'[n][d] = dispatcher[n][d]
    BY <2>1, OneDispatcher
  <2> QED
    BY <1>2, <2>2
<1>3. CASE s = "complete"
  <2>1. dispatcher' = [dispatcher EXCEPT ![m][c].stage = "complete"]
    BY <1>3
  <2>2. /\ dispatcher'[m][c].stage = "complete"
        /\ \A n \in Messages, d \in Sessions : n # m \/ d # c => dispatcher'[n][d] = dispatcher[n][d]
    BY <2>1, OneDispatcher
  <2> QED
    BY <1>3, <2>2
<1>4. CASE s = "done"
  <2>1. dispatcher' = [dispatcher EXCEPT ![m][c].stage = "done"]
    BY <1>4
  <2>2. /\ dispatcher'[m][c].stage = "done"
        /\ \A n \in Messages, d \in Sessions : n # m \/ d # c => dispatcher'[n][d] = dispatcher[n][d]
    BY <2>1, OneDispatcher
  <2> QED
    BY <1>4, <2>2
<1> QED
  BY <1>1, <1>2, <1>3, <1>4

\* One dispatcher goes on to its next stage.
LEMMA OrderlyStage ==
    ASSUME CoreInv, CoreInv', OrderlyInv, NEW m \in Messages, NEW c \in Sessions, NEW s \in {"acking", "complete", "done"},
           dispatcher'[m][c].stage = s, ~ QuietAt(c) \/ s = "done",
           \A n \in Messages, d \in Sessions : n # m \/ d # c => dispatcher'[n][d] = dispatcher[n][d],
           NEW added \in SUBSET SendTasks, Grown(queue', queue, added), \A d \in Sessions : <<"send", d>> \in added => ~ QuietAt(d),
           queue = <<>> \/ frame # NoFrame \/ \E u \in Tasks : Running(u) /\ u \notin AskedTasks,
           frame'.of \notin Noisy, \A d \in Sessions : frame.rest # <<"let_go", d>>,
           \A d \in Sessions : <<"disconnected", d>> \in ToSet(queue) => <<"disconnected", d>> \in ToSet(queue'),
           UNCHANGED <<session, endpoint, manner, faults>>,
           \A n \in Messages : /\ sender'[n].todo = sender[n].todo /\ sender'[n].records = sender[n].records
                               /\ sender'[n].phase = "summing" => sender[n].phase = "summing"
    PROVE  OrderlyInv'
<1>2. ASSUME NEW d \in Sessions, QuietAt(d) PROVE QuietAt(d)'
  <2>1. <<"send", d>> \notin ToSet(queue')
    BY <1>2 DEF Grown, QuietAt
  <2>2. ASSUME NEW n \in Messages
        PROVE  dispatcher'[n][d].stage # "dispatch" /\ (dispatcher'[n][d].stage = "complete" => dispatcher'[n][d].canceled)
    <3>1. CASE n = m /\ d = c
      BY <1>2, <3>1
    <3>2. CASE n # m \/ d # c
      BY <1>2, <3>2 DEF QuietAt
    <3> QED
      BY <3>1, <3>2
  <2> QED
    BY <2>1, <2>2 DEF QuietAt
<1>3. \A d \in Sessions : Unsent(d) => Unsent(d)'
  BY DEF Unsent
<1>4. \A n \in Messages, d \in Sessions : dispatcher'[n][d].stage = "dispatch" => dispatcher[n][d].stage = "dispatch"
  <2> TAKE n \in Messages, d \in Sessions
  <2>1. CASE n = m /\ d = c
    BY <2>1
  <2>2. CASE n # m \/ d # c
    BY <2>2
  <2> QED
    BY <2>1, <2>2
<1>5. DispatchesAhead'
  <2>1. \A d \in Sessions : <<"disconnected", d>> \notin added
    BY DEF SendTasks, DispatcherTasks
  <2> QED
    BY <1>4, <2>1, AheadKept DEF CoreInv, OrderlyInv
<1> QED
  BY <1>2, <1>3, <1>5, SendStep

\* A parcel is not dispatched in vain: the end of its session would have come first.
LEMMA DispatchFinds ==
    ASSUME CoreInv, OrderlyInv, NEW m \in Messages, NEW c \in Sessions, Running(<<"dispatcher", m, c>>),
           dispatcher[m][c].stage = "dispatch", endpoint[c].extra
    PROVE  session[c].peer
<1> DEFINE t == <<"dispatcher", m, c>>
<1>1. SlotOK(session[c], peer[c], endpoint[c], told[c], ToSet(queue), frame.rest, c) /\ session[c] \in SessionRecord
  BY LifeTypes DEF CoreInv
<1>2. session[c].life \in {"fresh", "live", "released"}
  BY <1>1 DEF SessionRecord
<1>3. CASE session[c].life = "fresh"
  BY <1>1, <1>3 DEF SlotOK
<1>4. CASE session[c].life = "released"
  <2>1. QuietAt(c)
    BY <1>4 DEF OrderlyInv, StoppedIsQuiet
  <2> QED
    BY <2>1 DEF QuietAt
<1>5. CASE session[c].life = "live"
  <2> SUFFICES ASSUME ~ session[c].peer PROVE FALSE
    OBVIOUS
  <2>1. frame.rest = <<>> /\ ~ Precedes(queue, <<"disconnected", c>>, t)
    BY Runs DEF CoreInv
  <2>2. frame.rest = <<"let_go", c>> \/ Precedes(queue, <<"disconnected", c>>, t)
    BY <1>5 DEF OrderlyInv, DispatchesAhead
  <2> QED
    BY <2>1, <2>2
<1> QED
  BY <1>2, <1>3, <1>4, <1>5

LEMMA OrderlyDispatcherDispatch ==
    ASSUME CoreInv, CoreInv', OrderlyInv, NEW m \in Messages, NEW c \in Sessions, DispatcherDispatch(m, c) PROVE OrderlyInv'
<1> DEFINE t == <<"dispatcher", m, c>>
           q == Tail(queue)
<1>1. /\ Running(t) /\ dispatcher[m][c].stage = "dispatch" /\ UNCHANGED <<session, endpoint, sender, frame, manner>>
  BY DEF DispatcherDispatch, objects
<1>2. endpoint[c].extra => session[c].peer
  BY <1>1, DispatchFinds
<1>3. /\ UNCHANGED faults
      /\ \/ dispatcher' = [dispatcher EXCEPT ![m][c].stage = "acking"] /\ queue' = q
         \/ dispatcher' = [dispatcher EXCEPT ![m][c].stage = "complete"] /\ queue' = Submit(q, t)
  BY <1>2 DEF DispatcherDispatch
<1>4. /\ t \in Tasks /\ QueueOK(q) /\ ToSet(q) = ToSet(queue) \ {t} /\ Grown(q, queue, {})
      /\ frame.of = "none" /\ frame.rest = <<>>
  BY <1>1, Runs, GrownTail DEF CoreInv
<1>5. /\ \A d \in Sessions : t # <<"send", d>> /\ t # <<"disconnected", d>>
      /\ t \in SendTasks /\ t \notin AskedTasks
  BY DEF SendTasks, DispatcherTasks, AskedTasks
<1>6. ~ QuietAt(c)
  BY <1>1 DEF QuietAt
<1>7. PICK s \in {"acking", "complete"} : dispatcher' = [dispatcher EXCEPT ![m][c].stage = s]
  BY <1>3
<1>8. \E added \in SUBSET {t} : /\ Grown(queue', queue, added)
                                /\ \A x : x # t => (x \in ToSet(queue) => x \in ToSet(queue'))
  <2> HIDE DEF q, t
  <2>1. CASE queue' = q
    <3>1. Grown(queue', queue, {}) /\ \A x : x # t => (x \in ToSet(queue) => x \in ToSet(queue'))
      BY <1>4, <2>1
    <3> QED
      BY <3>1
  <2>2. CASE queue' = Submit(q, t)
    <3>1. Grown(queue', q, {t}) /\ ToSet(queue') = ToSet(q) \union {t}
      BY <1>4, <2>2, GrownSubmit, SubmitOrder
    <3>2. {t} \union {} = {t}
      OBVIOUS
    <3>3. Grown(queue', queue, {t})
      BY <1>4, <3>1, <3>2, GrownJoin
    <3>4. \A x : x # t => (x \in ToSet(queue) => x \in ToSet(queue'))
      BY <1>4, <3>1
    <3> QED
      BY <3>3, <3>4
  <2> QED
    BY <1>3, <2>1, <2>2
<1>9. PICK added \in SUBSET {t} : /\ Grown(queue', queue, added)
                                  /\ \A x : x # t => (x \in ToSet(queue) => x \in ToSet(queue'))
  BY <1>8
<1>10. "none" \notin Noisy
  BY DEF Noisy
<1>11. added \in SUBSET SendTasks /\ \A d \in Sessions : <<"send", d>> \notin added
  BY <1>5, <1>9
<1>12. \A d \in Sessions : <<"disconnected", d>> \in ToSet(queue) => <<"disconnected", d>> \in ToSet(queue')
  BY <1>5, <1>9
<1>13. frame'.of \notin Noisy /\ \A d \in Sessions : frame.rest # <<"let_go", d>>
  BY <1>1, <1>4, <1>10
<1>14. /\ s \in {"acking", "complete", "done"} /\ dispatcher'[m][c].stage = s
       /\ \A n \in Messages, d \in Sessions : n # m \/ d # c => dispatcher'[n][d] = dispatcher[n][d]
  BY <1>7, StageSet DEF CoreInv
<1> QED
  BY <1>1, <1>3, <1>4, <1>5, <1>6, <1>9, <1>11, <1>12, <1>13, <1>14, OrderlyStage

\* A message that is acknowledged was sent by a session that has its peer.
LEMMA OrderlyAcked ==
    ASSUME CoreInv, CoreInv', OrderlyInv, NEW m \in Messages, NEW c \in Sessions, Acked(m, c) PROVE OrderlyInv'
<1> DEFINE t == <<"dispatcher", m, c>>
<1>1. /\ Idle /\ peer[c].extra /\ dispatcher' = [dispatcher EXCEPT ![m][c].stage = "complete"] /\ queue' = <<t>>
      /\ UNCHANGED <<session, endpoint, sender, frame, manner, faults>>
  BY DEF Acked, objects
<1>2. ToSet(queue) = {} /\ queue = <<>> /\ frame = NoFrame /\ frame.of = "none" /\ frame.rest = <<>>
  BY <1>1, Idles DEF CoreInv
<1>3. session[c].life = "live"
  <2>1. SlotOK(session[c], peer[c], endpoint[c], told[c], ToSet(queue), frame.rest, c)
    BY LifeTypes DEF CoreInv
  <2> QED
    BY <1>1, <2>1 DEF SlotOK
<1>4. t \in Tasks /\ t \in SendTasks
  BY TaskKinds DEF SendTasks, DispatcherTasks, Tasks
<1>5. ToSet(queue') = {t} /\ \A x, y : ~ Precedes(queue', x, y)
  BY <1>1, <1>4, OneTask
<1>6. Grown(queue', queue, {t})
  BY <1>2, <1>5 DEF Grown
<1>7. /\ dispatcher'[m][c].stage = "complete"
      /\ \A n \in Messages, d \in Sessions : n # m \/ d # c => dispatcher'[n][d] = dispatcher[n][d]
  BY <1>1, OneDispatcher DEF CoreInv
<1>8. ~ Ending /\ ~ (frame'.of \in Noisy)
  BY <1>1, <1>2 DEF Ending, Noisy
<1>9. \A d \in Sessions : session[d].life = "released" /\ QuietAt(d) /\ Unsent(d) => QuietAt(d)' /\ Unsent(d)'
  <2> SUFFICES ASSUME NEW d \in Sessions, session[d].life = "released", QuietAt(d), Unsent(d) PROVE QuietAt(d)' /\ Unsent(d)'
    OBVIOUS
  <2>1. d # c
    BY <1>3
  <2>2. <<"send", d>> \notin ToSet(queue')
    BY <1>5
  <2>3. \A n \in Messages : dispatcher'[n][d] = dispatcher[n][d]
    BY <1>7, <2>1
  <2>4. QuietAt(d)'
    BY <2>2, <2>3 DEF QuietAt
  <2>5. Unsent(d)'
    BY <1>1 DEF Unsent
  <2> QED
    BY <2>4, <2>5
<1>10. DispatchesAhead'
  <2>1. \A n \in Messages, d \in Sessions : dispatcher'[n][d].stage = "dispatch" => dispatcher[n][d].stage = "dispatch"
    <3> TAKE n \in Messages, d \in Sessions
    <3>1. CASE n = m /\ d = c
      BY <1>7, <3>1
    <3>2. CASE n # m \/ d # c
      BY <1>7, <3>2
    <3> QED
      BY <3>1, <3>2
  <2>2. \A d \in Sessions : /\ <<"disconnected", d>> \notin {t} /\ frame.rest # <<"let_go", d>>
                            /\ <<"disconnected", d>> \in ToSet(queue) => <<"disconnected", d>> \in ToSet(queue')
    BY <1>2
  <2> QED
    BY <1>1, <1>6, <2>1, <2>2, AheadKept DEF CoreInv, OrderlyInv
<1>11. {t} \in SUBSET SendTasks
  BY <1>4
<1>12. \A n \in Messages : sender'[n] = sender[n]
  BY <1>1
<1>13. \A d \in Sessions : endpoint'[d].extra = endpoint[d].extra
  BY <1>1
<1> QED
  BY <1>1, <1>2, <1>6, <1>8, <1>9, <1>10, <1>11, <1>12, <1>13, SendStep

LEMMA CompletedStage ==
    ASSUME SendInv, NEW m \in Messages, NEW c \in Sessions, NEW tasks, Completed(m, c, tasks)
    PROVE  /\ dispatcher'[m][c].stage = "done"
           /\ \A n \in Messages, d \in Sessions : n # m \/ d # c => dispatcher'[n][d] = dispatcher[n][d]
  BY StageSet DEF Completed

\* The end of a dispatcher: its bus goes on, if it was not quiet already.
LEMMA OrderlyCompleted ==
    ASSUME CoreInv, CoreInv', OrderlyInv, NEW m \in Messages, NEW c \in Sessions, NEW tasks, QueueOK(tasks),
           Completed(m, c, tasks), dispatcher[m][c].stage = "complete", Grown(tasks, queue, {}),
           \A x \in LifeTasks : x \in ToSet(queue) => x \in ToSet(tasks),
           frame # NoFrame \/ \E u \in Tasks : Running(u) /\ u \notin AskedTasks,
           frame'.of \notin Noisy, \A d \in Sessions : frame.rest # <<"let_go", d>>,
           UNCHANGED <<session, endpoint, manner, faults>>,
           \A n \in Messages : /\ sender'[n].todo = sender[n].todo /\ sender'[n].records = sender[n].records
                               /\ sender'[n].phase = "summing" => sender[n].phase = "summing"
    PROVE  OrderlyInv'
<1> DEFINE u == <<"send", c>>
<1>1. /\ dispatcher'[m][c].stage = "done"
      /\ \A n \in Messages, d \in Sessions : n # m \/ d # c => dispatcher'[n][d] = dispatcher[n][d]
  BY CompletedStage DEF CoreInv
<1>2. \A d \in Sessions : <<"disconnected", d>> \in LifeTasks
  BY LifeTaskNames
<1>3. u \in Tasks /\ u \in SendTasks /\ u \notin LifeTasks /\ \A d \in Sessions : <<"disconnected", d>> # u
  BY TaskKinds DEF SendTasks
<1>4. CASE queue' = tasks
  <2>1. Grown(queue', queue, {}) /\ \A d \in Sessions : <<"disconnected", d>> \in ToSet(queue) => <<"disconnected", d>> \in ToSet(queue')
    BY <1>2, <1>4
  <2>2. {} \in SUBSET SendTasks /\ "done" \in {"acking", "complete", "done"} /\ \A d \in Sessions : <<"send", d>> \notin {}
    OBVIOUS
  <2> QED
    BY <1>1, <2>1, <2>2, OrderlyStage
<1>5. CASE queue' = Submit(tasks, u) /\ ~ dispatcher[m][c].canceled
  <2>1. ~ QuietAt(c)
    BY <1>5 DEF QuietAt
  <2> HIDE DEF u
  <2>2. Grown(queue', tasks, {u}) /\ ToSet(queue') = ToSet(tasks) \union {u}
    BY <1>3, <1>5, GrownSubmit, SubmitOrder
  <2>3. {u} \union {} = {u}
    OBVIOUS
  <2>4. Grown(queue', queue, {u})
    BY <2>2, <2>3, GrownJoin
  <2>5. {u} \in SUBSET SendTasks /\ "done" \in {"acking", "complete", "done"}
    BY <1>3
  <2>6. \A d \in Sessions : <<"send", d>> \in {u} => ~ QuietAt(d)
    BY <2>1 DEF u
  <2>7. \A d \in Sessions : <<"disconnected", d>> \in ToSet(queue) => <<"disconnected", d>> \in ToSet(queue')
    BY <1>2, <2>2
  <2> QED
    BY <1>1, <2>4, <2>5, <2>6, <2>7, OrderlyStage
<1> QED
  BY <1>4, <1>5 DEF Completed

\* A sender of which only the count and the phase change.
LEMMA SenderCounts ==
    ASSUME SendInv, NEW m \in Messages, NEW s \in {"dispatching", "done"}, NEW n,
           \/ sender' = [sender EXCEPT ![m].completed = n, ![m].phase = s] \/ sender' = [sender EXCEPT ![m].completed = n]
    PROVE  \A k \in Messages : /\ sender'[k].todo = sender[k].todo /\ sender'[k].records = sender[k].records
                               /\ sender'[k].phase = "summing" => sender[k].phase = "summing"
<1>1. sender \in [Messages -> SenderRecord]
  BY DEF SendInv, SendTypeOK
<1>2. PICK r : /\ sender' = [sender EXCEPT ![m] = r] /\ r.todo = sender[m].todo /\ r.records = sender[m].records
               /\ r.phase = "summing" => sender[m].phase = "summing"
  <2>1. CASE sender' = [sender EXCEPT ![m].completed = n, ![m].phase = s]
    <3> DEFINE r == [sender[m] EXCEPT !.completed = n, !.phase = s]
    <3>1. sender' = [sender EXCEPT ![m] = r]
      BY <1>1, <2>1
    <3>2. r.todo = sender[m].todo /\ r.records = sender[m].records /\ r.phase = s
      BY <1>1 DEF SenderRecord
    <3> HIDE DEF r
    <3> QED
      BY <3>1, <3>2
  <2>2. CASE sender' = [sender EXCEPT ![m].completed = n]
    <3> DEFINE r == [sender[m] EXCEPT !.completed = n]
    <3>1. sender' = [sender EXCEPT ![m] = r]
      BY <1>1, <2>2
    <3>2. r.todo = sender[m].todo /\ r.records = sender[m].records /\ r.phase = sender[m].phase
      BY <1>1 DEF SenderRecord
    <3> HIDE DEF r
    <3> QED
      BY <3>1, <3>2
  <2> QED
    BY <2>1, <2>2
<1> QED
  BY <1>1, <1>2

LEMMA OrderlyDispatcherComplete ==
    ASSUME CoreInv, CoreInv', OrderlyInv, NEW m \in Messages, NEW c \in Sessions, DispatcherComplete(m, c) PROVE OrderlyInv'
<1> DEFINE t == <<"dispatcher", m, c>>
           q == Tail(queue)
           count == sender[m].completed + 1
<1>1. /\ Running(t) /\ dispatcher[m][c].stage = "complete" /\ UNCHANGED <<session, endpoint, manner, faults>>
      /\ \/ sender' = [sender EXCEPT ![m].completed = count, ![m].phase = "done"]
         \/ sender' = [sender EXCEPT ![m].completed = count]
  BY DEF DispatcherComplete
<1>2. /\ t \in Tasks /\ QueueOK(q) /\ ToSet(q) = ToSet(queue) \ {t} /\ Grown(q, queue, {})
      /\ frame.of = "none" /\ frame.rest = <<>>
  BY <1>1, Runs, GrownTail DEF CoreInv
<1>3. /\ t \notin LifeTasks /\ t \notin AskedTasks /\ \A d \in Sessions : t # <<"disconnected", d>>
  BY TaskKinds DEF DispatcherTasks, AskedTasks
<1>4. \A n \in Messages : /\ sender'[n].todo = sender[n].todo /\ sender'[n].records = sender[n].records
                          /\ sender'[n].phase = "summing" => sender[n].phase = "summing"
  <2> HIDE DEF count
  <2> QED
    BY <1>1, SenderCounts DEF CoreInv
<1>5. "none" \notin Noisy /\ "result" \notin Noisy /\ \A d \in Sessions : frame.rest # <<"let_go", d>>
  BY <1>2 DEF Noisy
<1>6. CASE Completed(m, c, q) /\ UNCHANGED frame
  <2>1. \A x \in LifeTasks : x \in ToSet(queue) => x \in ToSet(q)
    BY <1>2, <1>3
  <2>2. frame'.of \notin Noisy
    BY <1>2, <1>5, <1>6
  <2> HIDE DEF q
  <2> QED
    BY <1>1, <1>2, <1>3, <1>4, <1>5, <1>6, <2>1, <2>2, OrderlyCompleted
<1>7. CASE queue' = q /\ UNCHANGED dispatcher /\ frame' = [of |-> "result", rest |-> <<"completed", m, c>>]
  <2>1. frame'.of \notin Noisy /\ frame'.of = "result"
    BY <1>5, <1>7
  <2>2. Grown(queue', queue, {})
    BY <1>2, <1>7
  <2>3. \A d \in Sessions : QuietAt(d) => QuietAt(d)'
    BY <1>7, <2>2, QuietKept
  <2>4. \A d \in Sessions : Unsent(d) => Unsent(d)'
    BY <1>4 DEF Unsent
  <2>5. \A d \in Sessions : <<"disconnected", d>> \in ToSet(queue) => <<"disconnected", d>> \in ToSet(queue')
    BY <1>2, <1>3, <1>7
  <2>6. DispatchesAhead'
    BY <1>1, <1>5, <1>7, <2>2, <2>5, AheadKept DEF CoreInv, OrderlyInv
  <2>7. {} \in SUBSET SendTasks
    OBVIOUS
  <2> QED
    BY <1>1, <1>2, <1>3, <1>4, <2>1, <2>2, <2>3, <2>4, <2>6, <2>7, SendStep
<1> QED
  BY <1>6, <1>7 DEF DispatcherComplete, Callback

\* A message is handed to the buses of sessions that live, or were let go of.
LEMMA OrderlyDispatch ==
    ASSUME CoreInv, CoreInv', OrderlyInv, NEW m \in Messages, NEW cs \in Seq(Sessions), IsInjective(cs), Dispatch(m, cs),
           \A c \in ToSet(cs) : dispatcher[m][c].stage = "none" /\ ~ (session[c].life = "released" /\ endpoint[c].extra),
           UNCHANGED <<session, endpoint, frame, manner, faults>>, queue = <<>> \/ frame # NoFrame,
           SendsBetween(manner) => ~ Ending,
           \A c \in Sessions : session[c].life = "released" /\ endpoint[c].extra /\ Unsent(c) => Unsent(c)',
           \A n \in Messages : Hurried /\ sender[n].todo = <<>> => sender'[n].todo = <<>>,
           \A n \in Messages : sender'[n].phase = "summing" => sender[n].phase = "summing" \/ manner.big # {}
    PROVE  OrderlyInv'
<1> DEFINE more == Trigger(cs)
           a == ToSet(more)
<1>1. /\ QueueOK(more)
      /\ \A t : t \in a <=> \E c \in ToSet(cs) : ~ bus[c].processing /\ t = <<"send", c>>
  BY TriggerOrder
<1>2. queue' = SubmitAll(queue, more) /\ QueueOK(queue)
  BY LifeTypes DEF Dispatch, CoreInv
<1>3. \A n \in Messages, c \in Sessions :
         IF n = m /\ c \in ToSet(cs) THEN dispatcher'[n][c].stage = "pending" ELSE dispatcher'[n][c] = dispatcher[n][c]
  BY DispatchDone
<1>4. \A c \in ToSet(cs) : c \in Sessions
  BY DEF ToSet
<1> HIDE DEF more
<1>5. Grown(queue', queue, a) /\ ToSet(queue') = ToSet(queue) \union a
  BY <1>1, <1>2, GrownSubmitAll, SubmitAllOrder
<1> HIDE DEF a
<1>6. a \in SUBSET SendTasks /\ \A d \in Sessions : <<"disconnected", d>> \notin a
  BY <1>1, <1>4 DEF SendTasks
<1>7. \A d \in Sessions : session[d].life = "released" /\ endpoint[d].extra /\ QuietAt(d) => QuietAt(d)'
  <2> SUFFICES ASSUME NEW d \in Sessions, session[d].life = "released" /\ endpoint[d].extra, QuietAt(d) PROVE QuietAt(d)'
    OBVIOUS
  <2>1. d \notin ToSet(cs)
    OBVIOUS
  <2>2. \A n \in Messages : dispatcher'[n][d] = dispatcher[n][d]
    BY <1>3, <2>1
  <2>3. <<"send", d>> \notin ToSet(queue')
    BY <1>1, <1>5, <2>1 DEF QuietAt
  <2> QED
    BY <2>2, <2>3 DEF QuietAt
<1>8. DispatchesAhead'
  <2>1. \A n \in Messages, d \in Sessions : dispatcher'[n][d].stage = "dispatch" => dispatcher[n][d].stage = "dispatch"
    <3> TAKE n \in Messages, d \in Sessions
    <3>1. CASE n = m /\ d \in ToSet(cs)
      BY <1>3, <3>1
    <3>2. CASE ~ (n = m /\ d \in ToSet(cs))
      BY <1>3, <3>2
    <3> QED
      BY <3>1, <3>2
  <2>2. \A d \in Sessions : <<"disconnected", d>> \in ToSet(queue) => <<"disconnected", d>> \in ToSet(queue')
    BY <1>5
  <2> QED
    BY <1>5, <1>6, <2>1, <2>2, AheadKept DEF CoreInv, OrderlyInv
<1>9. \A d \in Sessions : endpoint'[d].extra = endpoint[d].extra
  OBVIOUS
<1>10. frame'.of \in Noisy => frame.of \in Noisy
  OBVIOUS
<1> QED
  BY <1>5, <1>6, <1>7, <1>8, <1>9, <1>10, SendStep

\* Nothing is about to end, and nothing that has to come first waits, between two runs.
LEMMA EmptyQueue ==
    ASSUME queue = <<>>, frame = NoFrame PROVE ~ Ending /\ ~ Hurried
<1>1. ToSet(queue) = {} /\ frame.of = "none"
  BY EmptyOrder DEF NoFrame
<1> QED
  BY <1>1 DEF Ending, Hurried, Noisy

LEMMA OrderlyNextRecord ==
    ASSUME CoreInv, CoreInv', OrderlyInv, NEW m \in Messages, NextRecord(m) PROVE OrderlyInv'
<1> DEFINE s == sender[m]
           c == Head(s.todo)
           r == [s EXCEPT !.todo = Tail(s.todo)]
<1>1. /\ queue = <<>> /\ frame = NoFrame /\ s.todo # <<>> /\ Dispatch(m, <<c>>)
      /\ sender' = [sender EXCEPT ![m].todo = Tail(@)]
      /\ UNCHANGED <<session, endpoint, frame, manner, faults>>
  BY DEF NextRecord
<1>2. /\ SendInv /\ s \in SenderRecord /\ SenderOK(s, answered[m], Counted(m))
      /\ sender \in [Messages -> SenderRecord]
  BY Sendings DEF CoreInv, SendInv, SendTypeOK
<1>3. sender' = [sender EXCEPT ![m] = r]
  BY <1>1, <1>2
<1>4. s.todo \in Seq(Sessions) /\ IsInjective(s.todo) /\ ToSet(s.todo) \subseteq s.records /\ s.phase = "dispatching"
  BY <1>1, <1>2 DEF SenderRecord, SenderOK
<1>5. /\ c \in Sessions /\ c \in ToSet(s.todo) /\ Tail(s.todo) \in Seq(Sessions)
      /\ ToSet(Tail(s.todo)) = ToSet(s.todo) \ {c}
  BY <1>1, <1>4, TailOrder
<1>6. r \in SenderRecord /\ r.phase = "dispatching" /\ r.records = s.records /\ r.todo = Tail(s.todo)
  BY <1>2, <1>4, <1>5 DEF SenderRecord
<1> HIDE DEF r
<1>7. sender'[m] = r /\ \A n \in Messages \ {m} : sender'[n] = sender[n]
  BY <1>2, <1>3, <1>6, SenderSet
<1> HIDE DEF c
<1>8. <<c>> \in Seq(Sessions) /\ IsInjective(<<c>>) /\ ToSet(<<c>>) = {c}
  BY <1>5 DEF IsInjective, ToSet
<1>9. dispatcher[m][c].stage = "none"
  <2>1. ~ Expects(s, c)
    BY <1>5 DEF Expects
  <2> QED
    BY <1>2, <1>5, <2>1, Sendings
<1>10. ~ (session[c].life = "released" /\ endpoint[c].extra)
  <2>1. ~ Unsent(c)
    BY <1>5 DEF Unsent
  <2> QED
    BY <1>5, <2>1 DEF OrderlyInv, StoppedIsQuiet
<1>11. \A d \in Sessions : Unsent(d) => Unsent(d)'
  <2> SUFFICES ASSUME NEW d \in Sessions, Unsent(d), NEW n \in Messages
               PROVE  d \notin ToSet(sender'[n].todo) /\ ~ (sender'[n].phase = "summing" /\ d \in sender'[n].records)
    BY DEF Unsent
  <2>1. CASE n = m
    BY <1>5, <1>6, <1>7, <2>1 DEF Unsent
  <2>2. CASE n # m
    BY <1>7, <2>2 DEF Unsent
  <2> QED
    BY <2>1, <2>2
<1>12. \A n \in Messages : sender'[n].phase = "summing" => sender[n].phase = "summing"
  <2> TAKE n \in Messages
  <2>1. CASE n = m
    BY <1>6, <1>7, <2>1
  <2>2. CASE n # m
    BY <1>7, <2>2
  <2> QED
    BY <2>1, <2>2
<1>13. ~ Ending /\ ~ Hurried
  BY <1>1, EmptyQueue
<1>14. \A d \in ToSet(<<c>>) : dispatcher[m][d].stage = "none" /\ ~ (session[d].life = "released" /\ endpoint[d].extra)
  BY <1>8, <1>9, <1>10
<1> QED
  BY <1>1, <1>8, <1>11, <1>12, <1>13, <1>14, OrderlyDispatch

\* Only a sender changes, and no session that the stop released is sent to.
LEMMA SenderStep ==
    ASSUME CoreInv, CoreInv', OrderlyInv, NEW m \in Messages, UNCHANGED <<session, endpoint, dispatcher, queue, frame, manner, faults>>,
           queue = <<>> \/ frame # NoFrame,
           \A n \in Messages \ {m} : sender'[n] = sender[n],
           \A c \in Sessions : session[c].life = "released" /\ endpoint[c].extra /\ Unsent(c) =>
              c \notin ToSet(sender'[m].todo) /\ ~ (sender'[m].phase = "summing" /\ c \in sender'[m].records),
           Hurried => sender'[m].todo = <<>>,
           sender'[m].phase = "summing" => sender[m].phase = "summing" \/ manner.big # {}
    PROVE  OrderlyInv'
<1>1. Grown(queue', queue, {}) /\ {} \in SUBSET SendTasks
  BY GrownSame
<1>2. \A c \in Sessions : QuietAt(c) => QuietAt(c)'
  BY DEF QuietAt
<1>3. \A c \in Sessions : session[c].life = "released" /\ endpoint[c].extra /\ Unsent(c) => Unsent(c)'
  BY DEF Unsent
<1>4. DispatchesAhead'
  BY DEF OrderlyInv, DispatchesAhead
<1>5. /\ \A n \in Messages : Hurried /\ sender[n].todo = <<>> => sender'[n].todo = <<>>
      /\ \A n \in Messages : sender'[n].phase = "summing" => sender[n].phase = "summing" \/ manner.big # {}
  OBVIOUS
<1>6. \A c \in Sessions : endpoint'[c].extra = endpoint[c].extra
  OBVIOUS
<1> QED
  BY <1>1, <1>2, <1>3, <1>4, <1>5, <1>6, SendStep

LEMMA OrderlyChecksumDone ==
    ASSUME CoreInv, CoreInv', OrderlyInv, NEW m \in Messages, ChecksumDone(m) PROVE OrderlyInv'
<1> DEFINE s == sender[m]
           cs == SetToSeq(s.records)
           r == [s EXCEPT !.phase = "dispatching", !.todo = cs]
<1>1. /\ Idle /\ s.phase = "summing" /\ sender' = [sender EXCEPT ![m].phase = "dispatching", ![m].todo = cs]
      /\ UNCHANGED <<session, endpoint, dispatcher, queue, frame, manner, faults>>
  BY DEF ChecksumDone, objects
<1>2. SendInv /\ s \in SenderRecord /\ sender \in [Messages -> SenderRecord]
  BY DEF CoreInv, SendInv, SendTypeOK
<1>3. sender' = [sender EXCEPT ![m] = r]
  BY <1>1, <1>2
<1>4. s.records \in SUBSET Sessions
  BY <1>2 DEF SenderRecord
<1>5. cs \in Seq(s.records) /\ ToSet(cs) = s.records
  BY <1>4, SessionsAssumption, FS_Subset, SetToSeqOrder
<1> HIDE DEF cs
<1>6. r \in SenderRecord /\ r.phase = "dispatching" /\ r.todo = cs
  <2>1. cs \in Seq(Sessions)
    BY <1>4, <1>5
  <2> QED
    BY <1>2, <2>1 DEF SenderRecord
<1> HIDE DEF r
<1>7. sender'[m] = r /\ \A n \in Messages \ {m} : sender'[n] = sender[n]
  BY <1>2, <1>3, <1>6, SenderSet
<1>8. \A c \in Sessions : Unsent(c) => c \notin ToSet(sender'[m].todo) /\ sender'[m].phase # "summing"
  <2> SUFFICES ASSUME NEW c \in Sessions, Unsent(c) PROVE c \notin ToSet(sender'[m].todo) /\ sender'[m].phase # "summing"
    OBVIOUS
  <2>1. c \notin s.records
    BY <1>1 DEF Unsent
  <2> QED
    BY <1>5, <1>6, <1>7, <2>1
<1>9. queue = <<>> /\ ~ Hurried
  BY <1>1, EmptyQueue DEF Idle
<1> QED
  BY <1>1, <1>6, <1>7, <1>8, <1>9, SenderStep

\* A message is submitted to sessions that live, which is not done in a
\* callback by an application that ends sessions there.
LEMMA OrderlySubmit ==
    ASSUME CoreInv, CoreInv', OrderlyInv, NEW m \in Messages, sender[m].phase = "free", MayCall("send"),
           NEW cs \in Seq(Sessions), IsInjective(cs), \A c \in ToSet(cs) : session[c].life = "live", SubmitSender(m, cs),
           UNCHANGED <<session, endpoint, frame, manner, faults>>
    PROVE  OrderlyInv'
<1>1. SendInv /\ LifeInv
  BY DEF CoreInv
<1>2. /\ sender[m] \in SenderRecord /\ sender[m].records = {} /\ sender[m].todo = <<>>
      /\ \A c \in Sessions : dispatcher[m][c].stage = "none"
  BY <1>1, FreeMessage
<1>3. ToSet(cs) \subseteq Sessions /\ \A S : <<>> \in Seq(S)
  BY DEF ToSet
<1>4. ToSet(<<>>) = {}
  BY EmptyOrder
<1>5. Idle \/ frame # NoFrame
  BY DEF MayCall
<1>6. queue = <<>> \/ frame # NoFrame
  BY <1>5 DEF Idle
<1>7. frame = NoFrame => ~ Hurried
  BY <1>5, EmptyQueue DEF Idle
<1>8. CASE m \in manner.big
  <2> DEFINE r == [sender[m] EXCEPT !.phase = "summing", !.records = ToSet(cs)]
  <2>1. sender' = [sender EXCEPT ![m] = r] /\ UNCHANGED <<bus, dispatcher, queue>>
    BY <1>8 DEF SubmitSender
  <2>2. r \in SenderRecord /\ r.records = ToSet(cs) /\ r.todo = <<>>
    BY <1>2, <1>3 DEF SenderRecord
  <2> HIDE DEF r
  <2>3. sender'[m] = r /\ \A n \in Messages \ {m} : sender'[n] = sender[n]
    BY <1>1, <2>1, <2>2, SenderSet
  <2>4. \A c \in Sessions : session[c].life = "released" => c \notin ToSet(r.todo) /\ c \notin r.records
    BY <1>4, <2>2
  <2>5. manner.big # {}
    BY <1>8
  <2> QED
    BY <1>6, <2>1, <2>2, <2>3, <2>4, <2>5, SenderStep
<1>9. CASE m \notin manner.big /\ frame = NoFrame
  <2> DEFINE r == [sender[m] EXCEPT !.phase = "dispatching", !.records = ToSet(cs), !.todo = cs]
  <2>1. sender' = [sender EXCEPT ![m] = r] /\ UNCHANGED <<bus, dispatcher, queue>>
    BY <1>9 DEF SubmitSender
  <2>2. r \in SenderRecord /\ r.phase = "dispatching" /\ r.todo = cs
    BY <1>2, <1>3 DEF SenderRecord
  <2> HIDE DEF r
  <2>3. sender'[m] = r /\ \A n \in Messages \ {m} : sender'[n] = sender[n]
    BY <1>1, <2>1, <2>2, SenderSet
  <2>4. \A c \in Sessions : session[c].life = "released" => c \notin ToSet(r.todo)
    BY <2>2
  <2>5. r.phase # "summing" /\ ~ Hurried
    BY <1>7, <1>9, <2>2
  <2> QED
    BY <1>6, <2>1, <2>3, <2>4, <2>5, SenderStep
<1>10. CASE m \notin manner.big /\ frame # NoFrame
  <2> DEFINE r == [sender[m] EXCEPT !.phase = "dispatching", !.records = ToSet(cs)]
  <2>1. sender' = [sender EXCEPT ![m] = r] /\ Dispatch(m, cs)
    BY <1>10 DEF SubmitSender
  <2>2. r \in SenderRecord /\ r.phase = "dispatching" /\ r.todo = <<>>
    BY <1>2, <1>3 DEF SenderRecord
  <2> HIDE DEF r
  <2>3. sender'[m] = r /\ \A n \in Messages \ {m} : sender'[n] = sender[n]
    BY <1>1, <2>1, <2>2, SenderSet
  <2>4. ~ SendsBetween(manner)
    <3>1. frame.of \in Callbacks \ {"none"}
      BY <1>1, <1>10 DEF LifeInv, LifeTypeOK
    <3>2. <<frame.of, "send">> \in manner.calls
      BY DEF MayCall
    <3> QED
      BY <3>1, <3>2 DEF SendsBetween
  <2>5. \A c \in ToSet(cs) : dispatcher[m][c].stage = "none" /\ ~ (session[c].life = "released" /\ endpoint[c].extra)
    BY <1>2, <1>3
  <2>6. \A n \in Messages : sender[n].todo = <<>> => sender'[n].todo = <<>>
    <3> TAKE n \in Messages
    <3>1. CASE n = m
      BY <2>2, <2>3, <3>1
    <3>2. CASE n # m
      BY <2>3, <3>2
    <3> QED
      BY <3>1, <3>2
  <2>7. \A n \in Messages : sender'[n].phase = "summing" => sender[n].phase = "summing"
    <3> TAKE n \in Messages
    <3>1. CASE n = m
      BY <2>2, <2>3, <3>1
    <3>2. CASE n # m
      BY <2>3, <3>2
    <3> QED
      BY <3>1, <3>2
  <2>8. \A d \in Sessions : Unsent(d) => Unsent(d)'
    <3> SUFFICES ASSUME NEW d \in Sessions, Unsent(d), NEW n \in Messages
                 PROVE  d \notin ToSet(sender'[n].todo) /\ ~ (sender'[n].phase = "summing" /\ d \in sender'[n].records)
      BY DEF Unsent
    <3>1. CASE n = m
      BY <1>4, <2>2, <2>3, <3>1
    <3>2. CASE n # m
      BY <2>3, <3>2 DEF Unsent
    <3> QED
      BY <3>1, <3>2
  <2> QED
    BY <1>6, <2>1, <2>4, <2>5, <2>6, <2>7, <2>8, OrderlyDispatch
<1> QED
  BY <1>8, <1>9, <1>10

LEMMA OrderlySessionSend ==
    ASSUME CoreInv, CoreInv', OrderlyInv, NEW m \in Messages, NEW c \in Sessions, SessionSend(m, c) PROVE OrderlyInv'
<1>1. /\ MayCall("send") /\ sender[m].phase = "free" /\ session[c].life = "live" /\ SubmitSender(m, <<c>>)
      /\ UNCHANGED <<session, endpoint, frame, manner, faults>>
  BY DEF SessionSend
<1>2. <<c>> \in Seq(Sessions) /\ IsInjective(<<c>>) /\ \A d \in ToSet(<<c>>) : d = c
  BY DEF IsInjective, ToSet
<1>3. \A d \in ToSet(<<c>>) : session[d].life = "live"
  BY <1>1, <1>2
<1> QED
  BY <1>1, <1>2, <1>3, OrderlySubmit

LEMMA OrderlySocketSend ==
    ASSUME CoreInv, CoreInv', OrderlyInv, NEW m \in Messages, SocketSend(m) PROVE OrderlyInv'
<1> DEFINE T == {c \in Sessions : session[c].state = "CONNECTED"}
           L == {c \in Sessions : session[c].life = "live"}
<1>1. MayCall("send") /\ sender[m].phase = "free" /\ UNCHANGED <<session, endpoint, frame, manner, faults>>
  BY DEF SocketSend
<1>2. PICK cs \in Recipients :
          IF Among(cs, T) = <<>>
          THEN sender' = [sender EXCEPT ![m].phase = "done"] /\ UNCHANGED <<bus, dispatcher, queue>>
          ELSE SubmitSender(m, Among(cs, T))
  BY DEF SocketSend
<1>3. cs \in Seq(L) /\ IsInjective(cs)
  BY RecipientsOrder
<1> DEFINE connected == Among(cs, T)
<1>4. connected \in Seq(L) /\ IsInjective(connected)
  BY <1>3, AmongInjective
<1>5. connected \in Seq(Sessions) /\ \A c \in ToSet(connected) : session[c].life = "live"
  BY <1>4 DEF ToSet
<1>6. CASE connected = <<>>
  <2> DEFINE r == [sender[m] EXCEPT !.phase = "done"]
  <2>1. sender' = [sender EXCEPT ![m] = r] /\ UNCHANGED <<dispatcher, queue>>
    BY <1>2, <1>6
  <2>2. SendInv /\ sender[m] \in SenderRecord /\ sender[m].todo = <<>>
    BY <1>1, FreeMessage DEF CoreInv
  <2>3. r \in SenderRecord /\ r.phase = "done" /\ r.todo = <<>>
    BY <2>2 DEF SenderRecord
  <2> HIDE DEF r
  <2>4. sender'[m] = r /\ \A n \in Messages \ {m} : sender'[n] = sender[n]
    BY <2>1, <2>2, <2>3, SenderSet
  <2>5. \A c \in Sessions : c \notin ToSet(r.todo)
    BY <2>3, EmptyOrder
  <2>6. queue = <<>> \/ frame # NoFrame
    BY <1>1 DEF MayCall, Idle
  <2> QED
    BY <1>1, <2>1, <2>3, <2>4, <2>5, <2>6, SenderStep
<1>7. CASE connected # <<>>
  <2>1. SubmitSender(m, connected)
    BY <1>2, <1>7
  <2> HIDE DEF connected
  <2> QED
    BY <1>1, <1>4, <1>5, <2>1, OrderlySubmit
<1> QED
  BY <1>6, <1>7

-----------------------------------------------------------------------------
(* A callback returns. *)

\* ... and its task only ends the protocol socket, or makes a session.
LEMMA OrderlyReturnLife ==
    ASSUME CoreInv, CoreInv', OrderlyInv, frame # NoFrame, frame' = NoFrame,
           UNCHANGED <<manner, faults, sender, dispatcher>>,
           NEW added, Grown(queue', queue, added), added \subseteq {<<"stop_protocol">>},
           \A c \in Sessions : frame.rest # <<"let_go", c>>,
           \A c \in Sessions : \/ session'[c] = session[c] /\ endpoint'[c] = endpoint[c]
                               \/ session[c].life = "fresh" /\ session'[c].life = "live" /\ session'[c].peer,
           \A t \in ToSet(queue) : t \in ToSet(queue')
    PROVE  OrderlyInv'
<1>1. /\ \A t \in EndKinds \union EndTasks : t \notin added
      /\ \A c \in Sessions : /\ <<"send", c>> \notin added /\ <<"ready", c>> \notin added
                             /\ <<"disconnected", c>> \notin added
  BY DEF EndKinds, EndTasks
<1>2. frame'.of \notin Noisy
  BY DEF NoFrame, Noisy
<1>3. Ending' => Ending
  BY <1>1, <1>2, EndingKept
<1>4. Hurried' => Hurried
  BY <1>1, <1>2, HurriedKept
<1>5. \A c \in Sessions : session[c].life = "live" => session'[c].life = "live"
  OBVIOUS
<1>6. \A c \in Sessions : session'[c].life = "live" /\ ~ session'[c].peer =>
              session[c].life = "live" /\ ~ session[c].peer
  OBVIOUS
<1>7. DispatchesAhead'
  BY <1>1, <1>6, AheadKept DEF CoreInv, OrderlyInv
<1>8. \A c \in Sessions :
              session'[c].life = "released" /\ endpoint'[c].extra => session[c].life = "released" /\ endpoint[c].extra
  OBVIOUS
<1> QED
  BY <1>1, <1>2, <1>3, <1>4, <1>5, <1>7, <1>8, LifeStep

LEMMA OrderlyReturn == ASSUME CoreInv, CoreInv', OrderlyInv, Return PROVE OrderlyInv'
<1> DEFINE rest == frame.rest
<1>1. /\ frame # NoFrame /\ frame' = NoFrame /\ frame'.of \notin Noisy
      /\ UNCHANGED <<manner, faults, sender>>
  BY DEF Return, NoFrame, Noisy
<1>2. rest \in Rests /\ QueueOK(queue)
  BY LifeTypes DEF CoreInv
<1>3. Grown(queue, queue, {}) /\ {} \subseteq {<<"stop_protocol">>}
  BY GrownSame
<1>4. CASE rest = <<>>
  <2>1. UNCHANGED <<session, endpoint, dispatcher, queue>>
    BY <1>4 DEF Return, objects
  <2>2. \A c \in Sessions : rest # <<"let_go", c>>
    BY <1>4
  <2> QED
    BY <1>1, <1>3, <2>1, <2>2, OrderlyReturnLife
<1>5. CASE rest # <<>> /\ rest[1] \in {"connected", "denied", "let_go"}
  <2> DEFINE c == rest[2]
  <2>1. c \in Sessions /\ rest = <<rest[1], c>>
    BY <1>2, <1>5, RestKinds
  <2> HIDE DEF c
  <2>2. SlotOK(session[c], peer[c], endpoint[c], told[c], ToSet(queue), rest, c)
    BY <2>1, LifeTypes DEF CoreInv
  <2>3. CASE rest[1] = "connected"
    <3>1. OnConnected(c) /\ UNCHANGED <<dispatcher, queue>>
      BY <1>5, <2>3 DEF Return, c
    <3>2. session[c].life = "fresh" /\ \A d \in Sessions : rest # <<"let_go", d>>
      BY <2>1, <2>2, <2>3 DEF SlotOK
    <3>3. /\ session'[c].life = "live" /\ session'[c].peer
          /\ \A d \in Sessions \ {c} : session'[d] = session[d] /\ endpoint'[d] = endpoint[d]
      BY <2>1, <3>1, ConnectedLives DEF CoreInv
    <3> QED
      BY <1>1, <1>3, <3>1, <3>2, <3>3, OrderlyReturnLife
  <2>4. CASE rest[1] = "denied"
    <3> DEFINE t == <<"stop_protocol">>
    <3>1. StopProtocol(queue) /\ UNCHANGED <<session, endpoint, dispatcher>>
      BY <1>5, <2>4 DEF Return, objects
    <3>2. t \in Tasks /\ \A d \in Sessions : rest # <<"let_go", d>>
      BY <2>1, <2>4 DEF Tasks
    <3>3. CASE queue' = queue
      BY <1>1, <1>3, <3>1, <3>2, <3>3, OrderlyReturnLife
    <3>4. CASE queue' = Submit(queue, t)
      <4>1. Grown(queue', queue, {t}) /\ ToSet(queue') = ToSet(queue) \union {t} /\ {t} \subseteq {<<"stop_protocol">>}
        BY <1>2, <3>2, <3>4, GrownSubmit, SubmitOrder
      <4>2. \A x \in ToSet(queue) : x \in ToSet(queue')
        BY <4>1
      <4> HIDE DEF t
      <4> QED
        BY <1>1, <3>1, <3>2, <4>1, <4>2, OrderlyReturnLife
    <3> QED
      BY <3>1, <3>3, <3>4 DEF StopProtocol
  <2>5. CASE rest[1] = "let_go"
    <3>1. LetGo(c, queue) /\ UNCHANGED dispatcher
      BY <1>5, <2>5 DEF Return, c
    <3>2. rest = <<"let_go", c>> /\ \A d \in Sessions \ {c} : rest # <<"let_go", d>>
      BY <2>1, <2>5
    <3>3. <<"disconnected", c>> \notin ToSet(queue)
      BY <2>2, <3>2 DEF SlotOK
    <3>4. {} \subseteq {<<"stop_endpoint", c>>}
      OBVIOUS
    <3> QED
      BY <1>1, <1>2, <1>3, <2>1, <3>1, <3>2, <3>3, <3>4, OrderlyLetGo
  <2> QED
    BY <1>5, <2>3, <2>4, <2>5
<1>6. CASE rest # <<>> /\ rest[1] = "completed"
  <2> DEFINE m == rest[2]
             c == rest[3]
  <2>1. m \in Messages /\ c \in Sessions /\ rest = <<"completed", m, c>>
    BY <1>2, <1>6, RestKinds
  <2>2. Completed(m, c, queue) /\ UNCHANGED <<session, endpoint>>
    BY <1>6 DEF Return
  <2> HIDE DEF m, c
  <2>3. dispatcher[m][c].stage = "complete"
    <3>1. DispatcherOK(dispatcher[m][c], ToSet(queue), rest, m, c)
      BY <2>1, Sendings DEF CoreInv
    <3> QED
      BY <2>1, <3>1 DEF DispatcherOK
  <2>4. \A d \in Sessions : rest # <<"let_go", d>>
    BY <2>1
  <2>5. \A n \in Messages : sender'[n] = sender[n]
    BY <1>1
  <2> QED
    BY <1>1, <1>2, <1>3, <2>1, <2>2, <2>3, <2>4, <2>5, OrderlyCompleted
<1> QED
  BY <1>4, <1>5, <1>6 DEF Return

-----------------------------------------------------------------------------
LEMMA OrderlyInit == ASSUME Init PROVE OrderlyInv
<1>1. /\ queue = <<>> /\ frame = NoFrame /\ faults = {}
      /\ session = [c \in Sessions |-> [life |-> "fresh", state |-> "DISCONNECTED", peer |-> FALSE,
                                        endpoint |-> FALSE, ready |-> FALSE]]
      /\ sender = [m \in Messages |-> [phase |-> "free", records |-> {}, todo |-> <<>>, completed |-> 0]]
  BY DEF Init
<1>2. /\ ToSet(queue) = {} /\ ~ Ending /\ ~ Hurried /\ \A x, y : ~ Precedes(queue, x, y)
  BY <1>1, EmptyOrder, EmptyQueue
<1>3. \A c \in Sessions : session[c].life = "fresh"
  BY <1>1
<1>4. \A m \in Messages : sender[m].phase = "free"
  BY <1>1
<1>5. frame.of = "none" /\ "none" \notin Noisy
  BY <1>1 DEF NoFrame, Noisy
<1>6. EndsInOrder /\ EndsAlone /\ EndsQuietly /\ NoneToDo /\ StopIsCalled
  BY <1>2, <1>3, <1>4, <1>5 DEF EndsInOrder, EndsAlone, EndsQuietly, NoneToDo, StopIsCalled
<1>7. DispatchesAhead /\ StoppedIsQuiet
  BY <1>3 DEF DispatchesAhead, StoppedIsQuiet
<1> QED
  BY <1>1, <1>6, <1>7 DEF OrderlyInv, NoAssertionFails

LEMMA OrderlyTask == ASSUME CoreInv, CoreInv', OrderlyInv, Orderly(manner), Task PROVE OrderlyInv'
<1>1. ASSUME NEW c \in Sessions, OnReady(c) PROVE OrderlyInv'
  BY <1>1, OrderlyOnReady
<1>2. ASSUME NEW c \in Sessions, SessionDisconnect(c) PROVE OrderlyInv'
  BY <1>2, OrderlySessionDisconnect
<1>3. ASSUME NEW c \in Sessions, PeerDisconnect(c) PROVE OrderlyInv'
  BY <1>3, OrderlyPeerDisconnect
<1>4. ASSUME NEW c \in Sessions, SessionDisconnected(c) PROVE OrderlyInv'
  BY <1>4, OrderlySessionDisconnected
<1>5. ASSUME NEW c \in Sessions, StopEndpoint(c) PROVE OrderlyInv'
  BY <1>5, OrderlyStopEndpoint
<1>6. ASSUME NEW c \in Sessions, DestroyEndpoint(c) PROVE OrderlyInv'
  BY <1>6, OrderlyDestroyEndpoint
<1>7. ASSUME NEW c \in Sessions, BusSend(c) PROVE OrderlyInv'
  BY <1>7, OrderlyBusSend
<1>8. ASSUME NEW m \in Messages, NEW c \in Sessions, DispatcherDispatch(m, c) PROVE OrderlyInv'
  BY <1>8, OrderlyDispatcherDispatch
<1>9. ASSUME NEW m \in Messages, NEW c \in Sessions, DispatcherComplete(m, c) PROVE OrderlyInv'
  BY <1>9, OrderlyDispatcherComplete
<1>10. CASE SocketStop
  BY <1>10, OrderlySocketStop
<1>11. CASE ProtocolStop
  BY <1>11, OrderlyProtocolStop
<1>12. CASE ProtocolDestroy
  BY <1>12, OrderlyProtocolDestroy
<1>13. ASSUME NEW m \in Messages, NextRecord(m) PROVE OrderlyInv'
  BY <1>13, OrderlyNextRecord
<1> QED
  BY <1>1, <1>2, <1>3, <1>4, <1>5, <1>6, <1>7, <1>8, <1>9, <1>10, <1>11, <1>12, <1>13 DEF Task

LEMMA OrderlyEvent == ASSUME CoreInv, CoreInv', OrderlyInv, Event PROVE OrderlyInv'
<1>1. ASSUME NEW c \in Sessions, PeerConnects(c) PROVE OrderlyInv'
  BY <1>1, OrderlyPeerConnects
<1>2. ASSUME NEW c \in Sessions, NEW result \in {"connected", "denied"}, ConnectResult(c, result) PROVE OrderlyInv'
  BY <1>2, OrderlyConnectResult
<1>3. ASSUME NEW c \in Sessions, CheckReady(c) PROVE OrderlyInv'
  BY <1>3, OrderlyCheckReady
<1>4. ASSUME NEW c \in Sessions, OnReceived(c) PROVE OrderlyInv'
  BY <1>4, OrderlyOnReceived
<1>5. ASSUME NEW c \in Sessions, DisconnectSent(c) PROVE OrderlyInv'
  BY <1>5, OrderlyDisconnectSent
<1>6. ASSUME NEW C \in (SUBSET Sessions) \ {{}}, PeersLost(C) PROVE OrderlyInv'
  BY <1>6, OrderlyPeersLost
<1>7. ASSUME NEW m \in Messages, NEW c \in Sessions, Acked(m, c) PROVE OrderlyInv'
  BY <1>7, OrderlyAcked
<1>8. ASSUME NEW m \in Messages, ChecksumDone(m) PROVE OrderlyInv'
  BY <1>8, OrderlyChecksumDone
<1> QED
  BY <1>1, <1>2, <1>3, <1>4, <1>5, <1>6, <1>7, <1>8 DEF Event

LEMMA OrderlyApplication == ASSUME CoreInv, CoreInv', OrderlyInv, Orderly(manner), Application PROVE OrderlyInv'
<1>1. CASE Listen
  BY <1>1, OrderlyListen
<1>2. ASSUME NEW c \in Sessions, Connect(c) PROVE OrderlyInv'
  BY <1>2, OrderlyConnect
<1>3. ASSUME NEW c \in Sessions, Disconnect(c) PROVE OrderlyInv'
  BY <1>3, OrderlyDisconnect
<1>4. ASSUME NEW m \in Messages, SocketSend(m) PROVE OrderlyInv'
  BY <1>4, OrderlySocketSend
<1>5. ASSUME NEW m \in Messages, NEW c \in Sessions, SessionSend(m, c) PROVE OrderlyInv'
  BY <1>5, OrderlySessionSend
<1>6. CASE Stop
  BY <1>6, OrderlyStop
<1> QED
  BY <1>1, <1>2, <1>3, <1>4, <1>5, <1>6 DEF Application

\* No assertion of the layers below fails in an orderly application: one that
\* asks for no end of a session or of the socket in a callback, or that sends in
\* none and ends nothing in the callback of a result; and that does not stop the
\* socket if it sends messages that need a checksum.
THEOREM OrderlyApplicationsGoOn ==
    ASSUME \A x \in Manners : Orderly(x)
    PROVE  Spec => []NoAssertionFails
<1> DEFINE Inv == CoreInv /\ OrderlyInv
<1>1. Init => Inv
  BY LifeInit, SendInit, OrderlyInit DEF CoreInv
<1>2. Inv /\ [Next]_vars => Inv'
  <2> SUFFICES ASSUME CoreInv, OrderlyInv, [Next]_vars PROVE CoreInv' /\ OrderlyInv'
    OBVIOUS
  <2>1. Orderly(manner)
    BY DEF CoreInv, LifeInv, LifeTypeOK
  <2>2. CASE Next
    <3>1. CoreInv'
      BY <2>2, CoreTask, CoreEvent, CoreApplication, CoreReturn DEF Next
    <3> QED
      BY <2>1, <2>2, <3>1, OrderlyTask, OrderlyEvent, OrderlyApplication, OrderlyReturn DEF Next
  <2>3. CASE UNCHANGED vars
    <3>1. CoreInv'
      BY <2>3, CoreSame DEF vars
    <3>2. UNCHANGED <<session, endpoint, sender, dispatcher, queue, frame, manner, faults>>
      BY <2>3 DEF vars, objects, sending
    <3>3. EndsInOrder' /\ EndsAlone' /\ EndsQuietly' /\ NoneToDo' /\ StopIsCalled'
      BY <3>2 DEF OrderlyInv, EndsInOrder, EndsAlone, EndsQuietly, NoneToDo, StopIsCalled, Ending, Hurried, QuietAt
    <3>4. DispatchesAhead' /\ StoppedIsQuiet' /\ NoAssertionFails'
      BY <3>2 DEF OrderlyInv, DispatchesAhead, StoppedIsQuiet, NoAssertionFails, QuietAt, Unsent
    <3> QED
      BY <3>1, <3>3, <3>4 DEF OrderlyInv
  <2> QED
    BY <2>2, <2>3
<1>3. Inv => NoAssertionFails
  BY DEF OrderlyInv
<1> QED
  BY <1>1, <1>2, <1>3, PTL DEF Spec
================================================================================
