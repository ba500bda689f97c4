------------------------------- MODULE Sessions -------------------------------
(***************************************************************************)
(* A socket of the API with its sessions, over both lower layers:          *)
(* src/api/socket.c, api/session.c, api/builtin/{session,protocol,         *)
(* delivery,channel}.c, and of delivery/{endpoint,heartbeat,sender,bus,    *)
(* dispatcher}.c and protocol/{socket,peer,server,client}.c what makes,    *)
(* stops and releases the objects a session holds on to.                   *)
(*                                                                         *)
(* Everything runs on one thread, in tasks of one sequencer: a task that   *)
(* is submitted while another runs is appended to the queue, and one that  *)
(* is already queued moves to the tail.  The application is called back    *)
(* inside a task, so what it asks for in a callback is done by later tasks *)
(* of the same run; between two runs the event loop is idle.               *)
(*                                                                         *)
(* A slot of Sessions stands for the peer, the session, the endpoint and   *)
(* its one user bus that belong together, and is used once; so is a        *)
(* message.  A released object keeps what its cleanup leaves in it.        *)
(***************************************************************************)
EXTENDS Integers, SequencesExt, FiniteSetsExt

CONSTANTS Sessions, Messages,
          Reliable,         \* the messages that go by a reliable channel
          Manners,          \* what applications do: the messages they make so big that they
                            \* need a checksum, and the calls they make in which callback
          MaxStarts,        \* bound: how often the socket is started
          None

Callbacks == {"none", "connect_result", "connected", "disconnected", "received", "result"}

ASSUME SessionsAssumption ==
    /\ Reliable \subseteq Messages
    /\ Manners \subseteq [big : SUBSET Messages,
                          calls : SUBSET (Callbacks \X {"send", "disconnect", "stop"})]
    /\ MaxStarts \in Nat /\ None \notin Messages
    /\ IsFiniteSet(Sessions)       \* those that begin before any moment

VARIABLES api,          \* socket->state, and how often it was started
          proto,        \* the protocol socket: state, mode, extra
          listed,       \* socket->sessions
          peer, session, endpoint, bus,     \* of each slot
          sender,       \* of each message: phase, records, todo, completed
          dispatcher,   \* of each message and slot
          queue,        \* the sequencer's tasks
          frame,        \* the callback that runs, and what its task has left to do
          manner,       \* what this application does
          answered,     \* history: results of each message
          told,         \* history: on_connected and on_disconnected of each slot
          faults        \* assertions that failed: the process is gone

objects == <<listed, peer, session, endpoint, bus>>
sending == <<sender, dispatcher, answered>>
vars == <<api, proto, objects, sending, queue, frame, manner, told, faults>>

NoFrame == [of |-> "none", rest |-> <<>>]
NewBus == [pending |-> <<>>, current |-> None, processing |-> FALSE, stop |-> FALSE]

Init ==
    /\ api = [state |-> "STOPPED", starts |-> 0]
    /\ proto = [state |-> "NONE", mode |-> "NONE", extra |-> FALSE]
    /\ listed = <<>>
    /\ peer = [c \in Sessions |-> [state |-> "none", extra |-> FALSE]]
    /\ session = [c \in Sessions |-> [life |-> "fresh", state |-> "DISCONNECTED", peer |-> FALSE,
                                      endpoint |-> FALSE, ready |-> FALSE]]
    /\ endpoint = [c \in Sessions |-> [life |-> "fresh", extra |-> FALSE, ready |-> FALSE,
                                       scheduled |-> FALSE]]
    /\ bus = [c \in Sessions |-> NewBus]
    /\ sender = [m \in Messages |-> [phase |-> "free", records |-> {}, todo |-> <<>>, completed |-> 0]]
    /\ dispatcher = [m \in Messages |-> [c \in Sessions |->
                        [stage |-> "none", canceled |-> FALSE]]]
    /\ queue = <<>> /\ frame = NoFrame
    /\ manner \in Manners
    /\ answered = [m \in Messages |-> 0]
    /\ told = [c \in Sessions |-> <<>>]
    /\ faults = {}

-----------------------------------------------------------------------------
(* Lists, by their elements *)

\* The elements of a list that are in a set, in their order; and those that are
\* not a given one.
Among(s, T) ==
    LET kept[i \in 0 .. Len(s)] ==
            IF i = 0 THEN <<>>
            ELSE IF s[i] \in T THEN Append(kept[i - 1], s[i]) ELSE kept[i - 1]
    IN  kept[Len(s)]

Without(s, x) == Among(s, {s[i] : i \in DOMAIN s} \ {x})

(* base/sequencer.c *)

\* pomelo_sequencer_submit inside a run: a pending task moves to the tail.
Submit(tasks, task) == Append(Without(tasks, task), task)

\* One after the other; no list that is submitted has a task twice.
SubmitAll(tasks, more) == Among(tasks, ToSet(tasks) \ ToSet(more)) \o more

Idle == queue = <<>> /\ frame = NoFrame /\ \A m \in Messages : sender[m].todo = <<>>

\* The task at the head of the queue, once no callback keeps its predecessor.
Running(task) == frame = NoFrame /\ queue # <<>> /\ Head(queue) = task

Alive == faults = {}
Callback(of, rest) == frame' = [of |-> of, rest |-> rest]
Answers(m) == answered' = [answered EXCEPT ![m] = @ + 1]

-----------------------------------------------------------------------------
(* Starting, and the life of a session *)

StartProtocol(mode) ==
    /\ Idle /\ api.state = "STOPPED" /\ api.starts < MaxStarts
    /\ api' = [state |-> IF mode = "SERVER" THEN "RUNNING_SERVER" ELSE "RUNNING_CLIENT",
               starts |-> api.starts + 1]
    /\ proto' = [state |-> "RUNNING", mode |-> mode, extra |-> TRUE]

Listen ==
    /\ StartProtocol("SERVER")
    /\ UNCHANGED <<objects, sending, queue, frame, manner, told, faults>>

\* pomelo_socket_connect: the client's peer asks from then on.
Connect(c) ==
    /\ StartProtocol("CLIENT")
    /\ peer[c].state = "none" /\ session[c].life = "fresh"
    /\ peer' = [peer EXCEPT ![c].state = "requesting"]
    /\ UNCHANGED <<listed, session, endpoint, bus, sending, queue, frame, manner, told, faults>>

\* pomelo_protocol_socket_on_connected: a session with an endpoint that pings.
OnConnected(c) ==
    /\ peer' = [peer EXCEPT ![c] = [state |-> "connected", extra |-> TRUE]]
    /\ session' = [session EXCEPT ![c] = [life |-> "live", state |-> "CONNECTING", peer |-> TRUE,
                                          endpoint |-> TRUE, ready |-> FALSE]]
    /\ endpoint' = [endpoint EXCEPT ![c] = [life |-> "live", extra |-> TRUE, ready |-> FALSE,
                                            scheduled |-> TRUE]]
    /\ listed' = Append(listed, c)
    /\ UNCHANGED bus

\* A client passed the handshake with this server.
PeerConnects(c) ==
    /\ Alive /\ Idle /\ proto.state = "RUNNING" /\ proto.mode = "SERVER"
    /\ session[c].life = "fresh" /\ OnConnected(c)
    /\ UNCHANGED <<api, proto, sending, queue, frame, manner, told, faults>>

\* This client was accepted, or has no more addresses to try: on_connect_result.
ConnectResult(c, result) ==
    /\ Alive /\ Idle /\ proto.state = "RUNNING" /\ peer[c].state = "requesting"
    /\ peer' = [peer EXCEPT ![c].state = result]
    /\ Callback("connect_result", <<result, c>>)
    /\ UNCHANGED <<api, proto, listed, session, endpoint, bus, sending, queue, manner, told, faults>>

\* The first ping or pong: pomelo_delivery_endpoint_check_ready.
CheckReady(c) ==
    /\ Alive /\ Idle /\ peer[c].state = "connected" /\ peer[c].extra /\ ~ endpoint[c].ready
    /\ endpoint' = [endpoint EXCEPT ![c].ready = TRUE]
    /\ queue' = <<<<"ready", c>>>>
    /\ UNCHANGED <<api, proto, listed, peer, session, bus, sending, frame, manner, told, faults>>

\* pomelo_delivery_endpoint_on_ready.
OnReady(c) ==
    /\ Alive /\ Running(<<"ready", c>>) /\ queue' = Tail(queue)
    /\ IF endpoint[c].extra
       THEN /\ session' = [session EXCEPT ![c].ready = TRUE, ![c].state = "CONNECTED"]
            /\ told' = [told EXCEPT ![c] = Append(@, "connected")]
            /\ Callback("connected", <<>>)
       ELSE UNCHANGED <<session, told, frame>>
    /\ UNCHANGED <<api, proto, listed, peer, endpoint, bus, sending, manner, faults>>

\* A parcel of the other side is complete: pomelo_delivery_bus_on_received.
OnReceived(c) ==
    /\ Alive /\ Idle /\ peer[c].state = "connected" /\ peer[c].extra
    /\ endpoint[c].ready /\ endpoint[c].extra
    /\ IF session[c].ready
       THEN Callback("received", <<>>) /\ UNCHANGED faults
       ELSE faults' = faults \cup {"session->ready"} /\ UNCHANGED frame
    /\ UNCHANGED <<api, proto, objects, sending, queue, manner, told>>

-----------------------------------------------------------------------------
(* Ends of sessions *)

\* pomelo_session_builtin_on_disconnected for the peers of C that have a session.
OnDisconnected(C, state) ==
    /\ peer' = [c \in Sessions |-> IF c \in C THEN [state |-> state, extra |-> FALSE] ELSE peer[c]]
    /\ session' = [c \in Sessions |-> IF c \in C /\ peer[c].extra
                                      THEN [session[c] EXCEPT !.peer = FALSE, !.state = "DISCONNECTED"]
                                      ELSE session[c]]

DisconnectedTasks(C) ==
    LET known == Among(listed, {c \in C : peer[c].extra})
    IN  [i \in DOMAIN known |-> <<"disconnected", known[i]>>]

\* pomelo_protocol_socket_stop.
StopProtocol(tasks) ==
    IF proto.state = "RUNNING"
    THEN proto' = [proto EXCEPT !.state = "STOPPING"] /\ queue' = Submit(tasks, <<"stop_protocol">>)
    ELSE UNCHANGED proto /\ queue' = tasks

\* Peers that said goodbye or were silent too long; a client stops by itself.
PeersLost(C) ==
    /\ Alive /\ Idle /\ proto.state = "RUNNING"
    /\ \A c \in C : peer[c].state = "connected"
    /\ IF proto.mode = "SERVER"
       THEN /\ OnDisconnected(C, "none")
            /\ queue' = DisconnectedTasks(C) /\ UNCHANGED proto
       ELSE /\ OnDisconnected(C, "disconnected")
            /\ StopProtocol(DisconnectedTasks(C))
    /\ UNCHANGED <<api, listed, endpoint, bus, sending, frame, manner, told, faults>>

\* The last redundant disconnect packet of a peer that was told to leave.
DisconnectSent(c) ==
    /\ Alive /\ Idle /\ proto.state = "RUNNING" /\ peer[c].state = "disconnecting"
    /\ IF proto.mode = "SERVER"
       THEN peer' = [peer EXCEPT ![c].state = "none"] /\ UNCHANGED <<proto, queue>>
       ELSE StopProtocol(<<>>) /\ UNCHANGED peer
    /\ UNCHANGED <<api, listed, session, endpoint, bus, sending, frame, manner, told, faults>>

\* pomelo_session_disconnect_deferred.
SessionDisconnect(c) ==
    /\ Alive /\ Running(<<"disconnect", c>>)
    /\ queue' = IF session[c].life = "live" /\ session[c].peer
                THEN Submit(Tail(queue), <<"disconnect_peer", c>>) ELSE Tail(queue)
    /\ UNCHANGED <<api, proto, objects, sending, frame, manner, told, faults>>

\* pomelo_protocol_peer_disconnect_deferred.
PeerDisconnect(c) ==
    /\ Alive /\ Running(<<"disconnect_peer", c>>)
    /\ IF peer[c].state = "connected"
       THEN /\ OnDisconnected({c}, "disconnecting")
            /\ queue' = SubmitAll(Tail(queue), DisconnectedTasks({c}))
       ELSE UNCHANGED <<peer, session>> /\ queue' = Tail(queue)
    /\ faults' = IF peer[c].state = "none" THEN {"released peer"} ELSE {}
    /\ UNCHANGED <<api, proto, listed, endpoint, bus, sending, frame, manner, told>>

\* Variants: the endpoint keeps its session, the list keeps its entry.
LetGoKeepsExtra(c, tasks) ==
    /\ session' = [session EXCEPT ![c].endpoint = FALSE, ![c].life = "released"]
    /\ listed' = Without(listed, c)
    /\ queue' = Submit(tasks, <<"destroy_endpoint", c>>) /\ UNCHANGED endpoint

LetGoKeepsEntry(c, tasks) ==
    /\ endpoint' = [endpoint EXCEPT ![c].extra = FALSE]
    /\ session' = [session EXCEPT ![c].endpoint = FALSE, ![c].life = "released"]
    /\ queue' = Submit(tasks, <<"destroy_endpoint", c>>) /\ UNCHANGED listed

\* The end of pomelo_session_builtin_on_disconnected_deferred.
LetGo(c, tasks) ==
    /\ endpoint' = [endpoint EXCEPT ![c].extra = FALSE]
    /\ session' = [session EXCEPT ![c].endpoint = FALSE, ![c].life = "released"]
    /\ listed' = Without(listed, c)
    /\ queue' = Submit(tasks, <<"destroy_endpoint", c>>)

\* pomelo_session_builtin_on_disconnected_deferred.
SessionDisconnected(c) ==
    /\ Alive /\ Running(<<"disconnected", c>>)
    /\ \/ /\ ~ session[c].endpoint
          /\ faults' = {"endpoint != NULL"}
          /\ UNCHANGED <<listed, session, endpoint, queue, frame, told>>
       \/ /\ session[c].endpoint /\ session[c].ready
          /\ queue' = Submit(Tail(queue), <<"stop_endpoint", c>>)
          /\ told' = [told EXCEPT ![c] = Append(@, "disconnected")]
          /\ Callback("disconnected", <<"let_go", c>>)
          /\ UNCHANGED <<listed, session, endpoint, faults>>
       \/ /\ session[c].endpoint /\ ~ session[c].ready
          /\ LetGo(c, Submit(Tail(queue), <<"stop_endpoint", c>>))
          /\ UNCHANGED <<frame, told, faults>>
    /\ UNCHANGED <<api, proto, peer, bus, sending, manner>>

\* pomelo_delivery_dispatcher_cancel of a bus's dispatchers, in the order ms.
CancelAll(ms, c) ==
    dispatcher' = [m \in Messages |->
        IF Contains(ms, m) THEN [dispatcher[m] EXCEPT ![c] = [stage |-> "complete", canceled |-> TRUE]]
        ELSE dispatcher[m]]

\* ... whose tasks are submitted again, unless they were about to complete.
CanceledTasks(ms, c) ==
    LET moved == Among(ms, {m \in Messages : dispatcher[m][c].stage # "complete"})
    IN  [i \in DOMAIN moved |-> <<"dispatcher", moved[i], c>>]

\* Variant: the reliable dispatcher under way is forgotten, not cancelled.
HeldPending(b) == b.pending

Held(b) == b.pending \o (IF b.current = None THEN <<>> ELSE <<b.current>>)

\* pomelo_delivery_endpoint_stop_deferred: the bus, and the heartbeat.
StopEndpoint(c) ==
    /\ Alive /\ Running(<<"stop_endpoint", c>>)
    /\ endpoint' = [endpoint EXCEPT ![c].scheduled = FALSE]
    /\ IF bus[c].processing
       THEN /\ bus' = [bus EXCEPT ![c].stop = TRUE]
            /\ queue' = Tail(queue) /\ UNCHANGED dispatcher
       ELSE /\ bus' = [bus EXCEPT ![c] = NewBus]
            /\ CancelAll(Held(bus[c]), c)
            /\ queue' = SubmitAll(Tail(queue), CanceledTasks(Held(bus[c]), c))
    /\ UNCHANGED <<api, proto, listed, peer, session, sender, answered, frame, manner, told, faults>>

\* pomelo_delivery_endpoint_destroy_deferred: the buses go back as they are.
DestroyEndpoint(c) ==
    /\ Alive /\ Running(<<"destroy_endpoint", c>>) /\ queue' = Tail(queue)
    /\ endpoint' = [endpoint EXCEPT ![c].life = "released", ![c].scheduled = FALSE]
    /\ UNCHANGED <<api, proto, listed, peer, session, bus, sending, frame, manner, told, faults>>

\* pomelo_socket_stop_deferred.
SocketStop ==
    /\ Alive /\ Running(<<"stop">>)
    /\ api' = [api EXCEPT !.state = "STOPPED"]
    /\ LET gone == ToSet(listed)
           running == proto.state = "RUNNING"
           released == [i \in 1 .. 2 * Len(listed) |->
                           <<IF i % 2 = 1 THEN "stop_endpoint" ELSE "destroy_endpoint",
                             listed[(i + 1) \div 2]>>]
       IN  /\ proto' = [proto EXCEPT !.state = IF running THEN "STOPPING" ELSE @, !.extra = FALSE]
           /\ queue' = SubmitAll(Tail(queue), (IF running THEN <<<<"stop_protocol">>>> ELSE <<>>)
                                              \o released \o <<<<"destroy_protocol">>>>)
           /\ session' = [c \in Sessions |->
                             IF c \in gone THEN [session[c] EXCEPT !.life = "released",
                                                    !.peer = FALSE, !.endpoint = FALSE]
                             ELSE session[c]]
           /\ peer' = [c \in Sessions |-> IF c \in gone /\ session[c].peer
                                          THEN [peer[c] EXCEPT !.extra = FALSE] ELSE peer[c]]
    /\ listed' = <<>>
    /\ UNCHANGED <<endpoint, bus, sending, frame, manner, told, faults>>

\* Variant: the peers that were told to leave stay.
ProtocolStopConnected ==
    /\ Alive /\ Running(<<"stop_protocol">>) /\ queue' = Tail(queue)
    /\ proto' = [proto EXCEPT !.state = "STOPPED"]
    /\ peer' = [c \in Sessions |-> IF peer[c].state = "disconnecting" THEN peer[c]
                                   ELSE [peer[c] EXCEPT !.state = "none"]]
    /\ UNCHANGED <<api, listed, session, endpoint, bus, sending, frame, manner, told, faults>>

\* pomelo_protocol_server_stop, pomelo_protocol_client_stop: no peer is left.
ProtocolStop ==
    /\ Alive /\ Running(<<"stop_protocol">>) /\ queue' = Tail(queue)
    /\ proto' = [proto EXCEPT !.state = "STOPPED"]
    /\ peer' = [c \in Sessions |-> [peer[c] EXCEPT !.state = "none"]]
    /\ UNCHANGED <<api, listed, session, endpoint, bus, sending, frame, manner, told, faults>>

ProtocolDestroy ==
    /\ Alive /\ Running(<<"destroy_protocol">>) /\ queue' = Tail(queue)
    /\ proto' = [proto EXCEPT !.state = "NONE"]
    /\ UNCHANGED <<api, objects, sending, frame, manner, told, faults>>

-----------------------------------------------------------------------------
(* Sending *)

\* create_and_submit_dispatcher, pomelo_delivery_bus_process_sending.
Enqueued(b, m) == [b EXCEPT !.pending = Append(@, m), !.processing = TRUE]

Trigger(cs) ==
    LET idle == Among(cs, {c \in Sessions : ~ bus[c].processing})
    IN  [i \in DOMAIN idle |-> <<"send", idle[i]>>]

Dispatch(m, cs) ==
    /\ bus' = [c \in Sessions |-> IF Contains(cs, c) THEN Enqueued(bus[c], m) ELSE bus[c]]
    /\ dispatcher' = [dispatcher EXCEPT ![m] = [c \in Sessions |->
                         IF Contains(cs, c) THEN [@[c] EXCEPT !.stage = "pending"] ELSE @[c]]]
    /\ queue' = SubmitAll(queue, Trigger(cs))

\* pomelo_delivery_sender_submit: a big message goes to a worker first; inside
\* a run the tasks of all records are queued, outside each one runs at once.
SubmitSender(m, cs) ==
    IF m \in manner.big
    THEN /\ sender' = [sender EXCEPT ![m] = [@ EXCEPT !.phase = "summing", !.records = ToSet(cs)]]
         /\ UNCHANGED <<bus, dispatcher, queue>>
    ELSE IF frame = NoFrame
    THEN /\ sender' = [sender EXCEPT ![m] = [@ EXCEPT !.phase = "dispatching",
                                                      !.records = ToSet(cs), !.todo = cs]]
         /\ UNCHANGED <<bus, dispatcher, queue>>
    ELSE /\ sender' = [sender EXCEPT ![m] = [@ EXCEPT !.phase = "dispatching", !.records = ToSet(cs)]]
         /\ Dispatch(m, cs)

MayCall(call) == (Idle \/ frame # NoFrame) /\ <<frame.of, call>> \in manner.calls

\* The lists of live sessions an application may hand over, in any order.
Recipients == {cs \in SeqOf({c \in Sessions : session[c].life = "live"}, Cardinality(Sessions)) :
                  cs # <<>> /\ IsInjective(cs)}

\* pomelo_socket_send: only the sessions that are connected count.
SocketSend(m) ==
    /\ Alive /\ MayCall("send") /\ sender[m].phase = "free"
    /\ \E cs \in Recipients :
          LET connected == Among(cs, {c \in Sessions : session[c].state = "CONNECTED"})
          IN  IF connected = <<>>
              THEN /\ sender' = [sender EXCEPT ![m].phase = "done"] /\ Answers(m)
                   /\ UNCHANGED <<bus, dispatcher, queue>>
              ELSE SubmitSender(m, connected) /\ UNCHANGED answered
    /\ UNCHANGED <<api, proto, listed, peer, session, endpoint, frame, manner, told, faults>>

\* pomelo_session_send: the state of the session is not looked at.
SessionSend(m, c) ==
    /\ Alive /\ MayCall("send") /\ sender[m].phase = "free" /\ session[c].life = "live"
    /\ SubmitSender(m, <<c>>)
    /\ UNCHANGED <<api, proto, listed, peer, session, endpoint, answered, frame, manner, told, faults>>

\* The worker has computed the checksum: pomelo_delivery_sender_dispatch.
ChecksumDone(m) ==
    /\ Alive /\ Idle /\ sender[m].phase = "summing"
    /\ sender' = [sender EXCEPT ![m].phase = "dispatching",
                                ![m].todo = SetToSeq(sender[m].records)]
    /\ UNCHANGED <<api, proto, objects, dispatcher, answered, queue, frame, manner, told, faults>>

NextRecord(m) ==
    /\ Alive /\ queue = <<>> /\ frame = NoFrame /\ sender[m].todo # <<>>
    /\ Dispatch(m, <<Head(sender[m].todo)>>)
    /\ sender' = [sender EXCEPT ![m].todo = Tail(@)]
    /\ UNCHANGED <<api, proto, listed, peer, session, endpoint, answered, frame, manner, told, faults>>

\* What the loop of pomelo_delivery_bus_process_sending_deferred takes: all up
\* to the first reliable one, nothing while one is under way.
Taken(b) ==
    IF b.stop \/ b.current # None THEN <<>>
    ELSE LET block == {i \in DOMAIN b.pending : b.pending[i] \in Reliable}
         IN  SubSeq(b.pending, 1, IF block = {} THEN Len(b.pending) ELSE Min(block))

BusSend(c) ==
    /\ Alive /\ Running(<<"send", c>>)
    /\ LET b == bus[c]
           taken == Taken(b)
           last == IF taken = <<>> THEN None ELSE Last(taken)
       IN  IF b.stop
           THEN /\ bus' = [bus EXCEPT ![c] = NewBus]
                /\ CancelAll(Held(b), c)
                /\ queue' = SubmitAll(Tail(queue), CanceledTasks(Held(b), c))
           ELSE /\ bus' = [bus EXCEPT ![c] =
                              [b EXCEPT !.pending = SubSeq(@, Len(taken) + 1, Len(@)),
                                        !.current = IF last \in Reliable THEN last ELSE @,
                                        !.processing = FALSE]]
                /\ dispatcher' = [m \in Messages |->
                       IF Contains(taken, m) THEN [dispatcher[m] EXCEPT ![c].stage = "dispatch"]
                       ELSE dispatcher[m]]
                /\ queue' = SubmitAll(Tail(queue), [i \in DOMAIN taken |-> <<"dispatcher", taken[i], c>>])
    /\ UNCHANGED <<api, proto, listed, peer, session, endpoint, sender, answered, frame, manner, told, faults>>

\* pomelo_delivery_endpoint_send down to pomelo_protocol_socket_send.
SendFails(c) ==
    ~ endpoint[c].extra \/ proto.state # "RUNNING" \/ peer[c].state # "connected"

\* pomelo_delivery_dispatcher_dispatch: a reliable parcel waits for its acks.
DispatcherDispatch(m, c) ==
    /\ Alive /\ Running(<<"dispatcher", m, c>>) /\ dispatcher[m][c].stage = "dispatch"
    /\ \/ /\ endpoint[c].extra /\ ~ session[c].peer
          /\ faults' = {"peer != NULL"}
          /\ UNCHANGED <<dispatcher, queue>>
       \/ /\ endpoint[c].extra => session[c].peer
          /\ m \in Reliable /\ ~ SendFails(c)
          /\ dispatcher' = [dispatcher EXCEPT ![m][c].stage = "acking"]
          /\ queue' = Tail(queue) /\ UNCHANGED faults
       \/ /\ endpoint[c].extra => session[c].peer
          /\ m \notin Reliable \/ SendFails(c)
          /\ dispatcher' = [dispatcher EXCEPT ![m][c].stage = "complete"]
          /\ queue' = Submit(Tail(queue), <<"dispatcher", m, c>>) /\ UNCHANGED faults
    /\ UNCHANGED <<api, proto, objects, sender, answered, frame, manner, told>>

\* The last ack of a reliable parcel.
Acked(m, c) ==
    /\ Alive /\ Idle /\ dispatcher[m][c].stage = "acking"
    /\ peer[c].state = "connected" /\ peer[c].extra
    /\ dispatcher' = [dispatcher EXCEPT ![m][c].stage = "complete"]
    /\ queue' = <<<<"dispatcher", m, c>>>>
    /\ UNCHANGED <<api, proto, objects, sender, answered, frame, manner, told, faults>>

\* The end of pomelo_delivery_dispatcher_complete: the bus goes on, unless this
\* dispatcher was cancelled.
Completed(m, c, tasks) ==
    /\ dispatcher' = [dispatcher EXCEPT ![m][c].stage = "done"]
    /\ IF dispatcher[m][c].canceled
       THEN UNCHANGED bus /\ queue' = tasks
       ELSE /\ bus' = [bus EXCEPT ![c].current = IF @ = m THEN None ELSE @, ![c].processing = TRUE]
            /\ queue' = IF bus[c].processing THEN tasks ELSE Submit(tasks, <<"send", c>>)

\* Variant: every record answers the message.
DispatcherCompleteEach(m, c) ==
    /\ Alive /\ Running(<<"dispatcher", m, c>>) /\ dispatcher[m][c].stage = "complete"
    /\ sender' = [sender EXCEPT ![m].completed = @ + 1, ![m].phase = "done"]
    /\ Answers(m) /\ Callback("result", <<"completed", m, c>>)
    /\ queue' = Tail(queue)
    /\ UNCHANGED <<api, proto, objects, dispatcher, manner, told, faults>>

\* pomelo_delivery_dispatcher_complete: the last one answers the message.
DispatcherComplete(m, c) ==
    /\ Alive /\ Running(<<"dispatcher", m, c>>) /\ dispatcher[m][c].stage = "complete"
    /\ LET count == sender[m].completed + 1
       IN  IF count = Cardinality(sender[m].records)
           THEN /\ sender' = [sender EXCEPT ![m].completed = count, ![m].phase = "done"]
                /\ Answers(m) /\ Callback("result", <<"completed", m, c>>)
                /\ queue' = Tail(queue) /\ UNCHANGED <<bus, dispatcher>>
           ELSE /\ sender' = [sender EXCEPT ![m].completed = count]
                /\ Completed(m, c, Tail(queue)) /\ UNCHANGED <<answered, frame>>
    /\ UNCHANGED <<api, proto, listed, peer, session, endpoint, manner, told, faults>>

-----------------------------------------------------------------------------
(* The application *)

\* pomelo_session_disconnect.
Disconnect(c) ==
    /\ Alive /\ MayCall("disconnect") /\ session[c].life = "live"
    /\ queue' = Submit(queue, <<"disconnect", c>>)
    /\ UNCHANGED <<api, proto, objects, sending, frame, manner, told, faults>>

\* pomelo_socket_stop.
Stop ==
    /\ Alive /\ MayCall("stop") /\ api.state \in {"RUNNING_CLIENT", "RUNNING_SERVER"}
    /\ api' = [api EXCEPT !.state = "STOPPING"]
    /\ queue' = Submit(queue, <<"stop">>)
    /\ UNCHANGED <<proto, objects, sending, frame, manner, told, faults>>

\* A callback returns, and the task that made it goes on.
Return ==
    /\ Alive /\ frame # NoFrame /\ frame' = NoFrame
    /\ LET rest == frame.rest
       IN  \/ /\ rest = <<>>
              /\ UNCHANGED <<proto, objects, dispatcher, queue>>
           \/ /\ rest # <<>> /\ rest[1] = "connected" /\ OnConnected(rest[2])
              /\ UNCHANGED <<proto, dispatcher, queue>>
           \/ /\ rest # <<>> /\ rest[1] = "denied" /\ StopProtocol(queue)
              /\ UNCHANGED <<objects, dispatcher>>
           \/ /\ rest # <<>> /\ rest[1] = "let_go" /\ LetGo(rest[2], queue)
              /\ UNCHANGED <<proto, peer, bus, dispatcher>>
           \/ /\ rest # <<>> /\ rest[1] = "completed" /\ Completed(rest[2], rest[3], queue)
              /\ UNCHANGED <<proto, listed, peer, session, endpoint>>
    /\ UNCHANGED <<api, sender, answered, manner, told, faults>>

-----------------------------------------------------------------------------
Task ==
    \/ \E c \in Sessions :
          \/ OnReady(c) \/ SessionDisconnect(c) \/ PeerDisconnect(c) \/ SessionDisconnected(c)
          \/ StopEndpoint(c) \/ DestroyEndpoint(c) \/ BusSend(c)
    \/ \E m \in Messages, c \in Sessions : DispatcherDispatch(m, c) \/ DispatcherComplete(m, c)
    \/ SocketStop \/ ProtocolStop \/ ProtocolDestroy
    \/ \E m \in Messages : NextRecord(m)

Event ==
    \/ \E c \in Sessions :
          \/ PeerConnects(c) \/ ConnectResult(c, "connected") \/ ConnectResult(c, "denied")
          \/ CheckReady(c) \/ OnReceived(c) \/ DisconnectSent(c)
    \/ \E C \in (SUBSET Sessions) \ {{}} : PeersLost(C)
    \/ \E m \in Messages, c \in Sessions : Acked(m, c)
    \/ \E m \in Messages : ChecksumDone(m)

Application ==
    \/ Listen
    \/ \E c \in Sessions : Connect(c) \/ Disconnect(c)
    \/ \E m \in Messages : SocketSend(m)
    \/ \E m \in Messages, c \in Sessions : SessionSend(m, c)
    \/ Stop

Next == Task \/ Event \/ Application \/ Return

\* Tasks run as long as there are any, callbacks return, and the thread pool
\* answers; nothing is asked of the network or of the application's calls.
Fairness ==
    /\ WF_vars(Task) /\ WF_vars(Return)
    /\ \A m \in Messages : WF_vars(ChecksumDone(m))

Spec == Init /\ [][Next]_vars
FairSpec == Spec /\ Fairness

-----------------------------------------------------------------------------
(* Properties *)

TypeOK ==
    /\ api.state \in {"STOPPED", "STOPPING", "RUNNING_CLIENT", "RUNNING_SERVER"}
    /\ proto.state \in {"NONE", "RUNNING", "STOPPING", "STOPPED"}
    /\ listed \in SeqOf(Sessions, Cardinality(Sessions))
    /\ \A m \in Messages : answered[m] \in 0 .. 1

\* What an application asks for, and when.  One that ends things between two
\* runs only may send whenever it likes; one that ends them in its callbacks
\* sends nothing there, and ends nothing in on_send_result, which may be run
\* inside the send itself.  A parcel whose checksum a worker makes is only sent
\* by one that never stops the socket: nothing waits for the worker.
EndsBetween(x) ==
    \A f \in Callbacks \ {"none"} : <<f, "disconnect">> \notin x.calls /\ <<f, "stop">> \notin x.calls
SendsBetween(x) ==
    /\ \A f \in Callbacks \ {"none"} : <<f, "send">> \notin x.calls
    /\ <<"result", "disconnect">> \notin x.calls /\ <<"result", "stop">> \notin x.calls
NeverStops(x) == \A f \in Callbacks : <<f, "stop">> \notin x.calls
Orderly(x) == (EndsBetween(x) \/ SendsBetween(x)) /\ (x.big = {} \/ NeverStops(x))

\* No assertion of the layers below fails and no released peer is used,
\* whatever an orderly application asks for, and when: the tasks of a session's
\* end find the peer and the endpoint they need, and a parcel that is
\* dispatched finds a peer (protocol/peer.c:33, delivery/endpoint.c:280,
\* api/builtin/delivery.c:59).
NoAssertionFails == faults = {}

\* Between two runs of the sequencer the socket's list holds the sessions that
\* live, each with its peer and an endpoint that pings; nothing that the
\* heartbeat, the resend timer or a received packet reaches belongs to a
\* session that is gone.
AtRest ==
    Idle =>
        /\ ToSet(listed) = {c \in Sessions : session[c].life = "live"} /\ IsInjective(listed)
        /\ \A c \in Sessions :
              /\ session[c].life = "live" => session[c].peer /\ session[c].endpoint
              /\ endpoint[c].scheduled <=> session[c].life = "live"
              /\ endpoint[c].life = "live" <=> session[c].life = "live"
              /\ peer[c].extra <=> session[c].life = "live"
              /\ peer[c].extra => peer[c].state = "connected"
              /\ \A m \in Messages : dispatcher[m][c].stage = "acking" => session[c].peer

\* A stopped socket holds nothing: no session, no peer, no protocol socket.
StoppedHoldsNothing ==
    Idle /\ api.state = "STOPPED" =>
        /\ listed = <<>> /\ proto.state = "NONE"
        /\ \A c \in Sessions : peer[c].state = "none" /\ bus[c].pending = <<>> /\ bus[c].current = None

\* The callbacks an application sees are those of SessionEvents: on_connected
\* once, on_disconnected only after it, the cleanup last, one result for each
\* message that was sent.
Events == INSTANCE SessionEvents WITH
    seen <- [c \in Sessions |->
                CASE session[c].life = "fresh" -> "fresh"
                  [] session[c].life = "released" -> "gone"
                  [] OTHER -> IF told[c] = <<>> THEN "silent" ELSE Last(told[c])],
    message <- [m \in Messages |->
                CASE answered[m] > 0 -> IF answered[m] = 1 THEN "answered" ELSE "twice"
                  [] sender[m].phase = "free" -> "idle"
                  [] OTHER -> "sent"]

KeepsPromises == Events!EventsSpec

\* pomelo_socket_stop comes to an end, and with it everything that was sent is
\* answered, the parcels that wait for an acknowledgement and those a worker
\* still sums up as well.
StopEnds ==
    api.state = "STOPPING" ~>
        \/ faults # {}
        \/ /\ api.state = "STOPPED" /\ proto.state = "NONE" /\ listed = <<>>
           /\ \A m \in Messages : sender[m].phase # "free" => answered[m] = 1

\* What is over leaves nothing, whichever of its tasks ran last.
NothingIsLeft == AtRest /\ StoppedHoldsNothing
===============================================================================
