------------------------------ MODULE PacketPasses ------------------------------
(***************************************************************************)
(* The passes of packets through a protocol socket: its senders and        *)
(* receivers (src/protocol/sender.c, receiver.c), the peers they belong to *)
(* and the tasks of the socket that run between their stages.              *)
(*                                                                         *)
(* A pass is a pipeline on the socket's sequencer: a sender processes,     *)
(* dispatches and completes, a receiver processes and completes.  The work *)
(* of the first stage goes to a worker, or is done at once when the socket *)
(* does not encrypt and the packet's type needs no worker.  Releasing a    *)
(* peer cancels its passes, which run on to their last stage while the     *)
(* peer's object goes back to the pool and serves another connection.      *)
(*                                                                         *)
(* What a handler decides from the packet is left open: it may release its *)
(* peer, send, or ask for a stop, wherever the code does so somewhere.     *)
(***************************************************************************)
EXTENDS Integers, Sequences

CONSTANTS Senders, Receivers, Rounds,   \* Rounds: keep-alive, disconnecting and scanning tasks, emitters
          StopTask, Peers, None,
          Kinds,                        \* of sockets: [mode, encrypted]
          MaxStarts, MaxLives           \* bounds: runs of an object, connections of a peer's

Passes == Senders \union Receivers
Tasks == Rounds \union {StopTask}
Objects == Passes \union Tasks

VARIABLES queue, busy, outer, current, task_index, flags, awaited, cancelled, starts, ran, completed

sequencerVars == <<queue, busy, outer, current, task_index, flags, awaited,
                   cancelled, starts, ran, completed>>

\* Three stages, two, and the single task of a pass, a pass, and the socket.
S == INSTANCE Pipeline WITH Pipelines <- Objects, NoPipeline <- None, Last <- 2
R == INSTANCE Pipeline WITH Pipelines <- Objects, NoPipeline <- None, Last <- 1
T == INSTANCE Pipeline WITH Pipelines <- Objects, NoPipeline <- None, Last <- 0

VARIABLES kind,         \* what the socket is, mode and encryption
          state,        \* socket->state
          pass,         \* senders and receivers: see FreePass
          working,      \* the passes that a worker has the data of
          peers,        \* peer->senders and peer->receivers, in one set
          held,         \* the peers that are not in the pool
          frame,        \* how far the stage or task that runs has come
          life, made_for,   \* history: connections of a peer; the one a pass was made for
          broken        \* history: a pointer or an entry that is not there was used

passVars == <<kind, state, pass, working, peers, held, frame, life, made_for, broken>>
passesVars == <<sequencerVars, passVars>>

FreePass == [live |-> FALSE, peer |-> None, entry |-> FALSE, flags |-> {}, task |-> FALSE,
             worker_required |-> FALSE]

PassesInit ==
    /\ S!Init
    /\ kind \in Kinds
    /\ state = "STOPPED"
    /\ pass = [p \in Passes |-> FreePass]
    /\ working = {}
    /\ peers = [peer \in Peers |-> {}]
    /\ held = {}
    /\ frame = "none"
    /\ life = [peer \in Peers |-> 0]
    /\ made_for = [p \in Passes |-> <<None, 0>>]
    /\ broken = FALSE

InLoop == ~busy
\* A handler of a received packet, or a task of the socket, is running.
Acting == frame = "handling" /\ current \in Receivers \union Rounds
Server == kind.mode = "server"

PipelineNext(p) == \/ p \in Senders /\ S!CallNext(p)
                   \/ p \in Receivers /\ R!CallNext(p)
PipelineFinish(p) == \/ p \in Senders /\ S!CallFinish(p)
                     \/ p \in Receivers /\ R!CallFinish(p)

-----------------------------------------------------------------------------
(* How passes begin *)

\* pomelo_protocol_sender_init, pomelo_protocol_receiver_init: every field but
\* the task, which the pass before left NULL.
Begin(p, peer, required) ==
    /\ ~pass[p].live
    /\ pass' = [pass EXCEPT ![p] = [live |-> TRUE, peer |-> peer, entry |-> TRUE, flags |-> {},
                                    task |-> @.task, worker_required |-> required]]
    /\ peers' = [peers EXCEPT ![peer] = @ \union {p}]

\* A socket that encrypts gives every packet to a worker; without encryption a
\* server does so with challenges, and either end with what comes to it before
\* it is connected.
Required(p) ==
    IF kind.encrypted THEN {TRUE}
    ELSE IF p \in Receivers \/ Server THEN BOOLEAN ELSE {FALSE}

\* pomelo_protocol_socket_dispatch
Dispatch(s, peer) ==
    /\ InLoop \/ Acting
    /\ peer \in held
    /\ \E required \in Required(s) : Begin(s, peer, required)
    /\ S!Start(s)
    /\ made_for' = [made_for EXCEPT ![s] = <<peer, life[peer]>>]
    /\ UNCHANGED <<kind, state, working, held, frame, life, broken>>

\* pomelo_pool_acquire(peer_pool): the object of a connection before, or a new one
Acquire(peer) ==
    /\ peer \notin held
    /\ life[peer] < MaxLives
    /\ held' = held \union {peer}
    /\ life' = [life EXCEPT ![peer] = @ + 1]

\* pomelo_protocol_socket_accept: a datagram; a request gets a peer with it
Accept(r, peer) ==
    /\ InLoop
    /\ state = "RUNNING"
    /\ \/ peer \in held /\ UNCHANGED <<held, life>>
       \/ Server /\ Acquire(peer)
    /\ \E required \in Required(r) : Begin(r, peer, required)
    /\ R!Start(r)
    /\ made_for' = [made_for EXCEPT ![r] = <<peer, life'[peer]>>]
    /\ UNCHANGED <<kind, state, working, frame, broken>>

\* pomelo_protocol_socket_start: a client has its peer from here
SocketStart ==
    /\ InLoop
    /\ state = "STOPPED"
    /\ state' = "RUNNING"
    /\ \/ Server /\ UNCHANGED <<held, life>>
       \/ ~Server /\ \E peer \in Peers : Acquire(peer)
    /\ UNCHANGED <<sequencerVars, kind, pass, working, peers, frame, made_for, broken>>

-----------------------------------------------------------------------------
(* The ends of peers *)

\* pomelo_protocol_sender_cancel and pomelo_protocol_receiver_cancel: the stages
\* that are left still come, and so does the worker's answer.
Canceled(fields) ==
    [fields EXCEPT !.flags = @ \union {"CANCELED"}, !.peer = None, !.entry = FALSE, !.task = FALSE]

\* pomelo_protocol_peer_cancel_senders_and_receivers and the return to the pool
ReleasePeers(gone) ==
    /\ held' = held \ gone
    /\ peers' = [peer \in Peers |-> IF peer \in gone THEN {} ELSE peers[peer]]
    /\ pass' = [p \in Passes |-> IF \E peer \in gone : p \in peers[peer]
                                 THEN Canceled(pass[p]) ELSE pass[p]]

\* pomelo_protocol_server_release_peer: by the handlers of the packets of that
\* peer, received or sent (sent_denied), and by the rounds that find it timed out
\* or told often enough.
ReleasePeer(peer) ==
    /\ Server
    /\ frame = "handling"
    /\ peer \in held
    /\ \/ current \in Rounds
       \/ current \in Passes /\ pass[current].peer = peer
    /\ ReleasePeers({peer})
    /\ UNCHANGED <<sequencerVars, kind, state, working, frame, life, made_for, broken>>

\* pomelo_protocol_socket_stop
RequestStop ==
    /\ InLoop \/ Acting
    /\ state = "RUNNING"
    /\ state' = "STOPPING"
    /\ T!Start(StopTask)
    /\ UNCHANGED <<kind, pass, working, peers, held, frame, life, made_for, broken>>

\* pomelo_protocol_socket_stop_deferred, pomelo_protocol_server_stop,
\* pomelo_protocol_client_stop
Stop ==
    /\ current = StopTask
    /\ frame = "handling"
    /\ state' = "STOPPED"
    /\ ReleasePeers(held)
    /\ frame' = "done"
    /\ UNCHANGED <<sequencerVars, kind, working, life, made_for, broken>>

\* A timer of the server or of an emitter queues its task.
StartRound(round) ==
    /\ InLoop
    /\ state = "RUNNING"
    /\ T!Start(round)
    /\ UNCHANGED passVars

-----------------------------------------------------------------------------
(* The stages *)

\* The drain takes the next task: a stage begins, or a task of the socket.
Enter ==
    /\ queue # <<>>
    /\ \/ Head(queue) \in Senders /\ S!RunStage
       \/ Head(queue) \in Receivers /\ R!RunStage
       \/ Head(queue) \in Tasks /\ T!RunStage
    /\ frame' = IF Head(queue) \in Tasks THEN "handling" ELSE "entered"
    /\ UNCHANGED <<kind, state, pass, working, peers, held, life, made_for, broken>>

InStage(p, stage) == current = p /\ frame = "entered" /\ ran[p] = stage

\* The stage fails: the last one follows.
Fail(p) ==
    /\ pass' = [pass EXCEPT ![p].flags = @ \union {"FAILED"}]
    /\ PipelineFinish(p)

\* Variant: a pass that was canceled goes on when its work went well.
ProcessCompleteGoesOn(p, failed, canceled) ==
    /\ pass' = [pass EXCEPT ![p].task = FALSE,
                            ![p].flags = @ \union {f \in {"FAILED"} : failed}
                                           \union {f \in {"CANCELED"} : canceled}]
    /\ IF failed THEN PipelineFinish(p) ELSE PipelineNext(p)

\* sender_process_complete, receiver_process_complete
ProcessComplete(p, failed, canceled) ==
    /\ pass' = [pass EXCEPT ![p].task = FALSE,
                            ![p].flags = @ \union {f \in {"FAILED"} : failed}
                                           \union {f \in {"CANCELED"} : canceled}]
    /\ IF pass'[p].flags # {} THEN PipelineFinish(p) ELSE PipelineNext(p)

\* pomelo_protocol_sender_process, pomelo_protocol_receiver_process
Process(p) ==
    /\ InStage(p, 0)
    /\ \/ /\ pass[p].worker_required
          /\ pass' = [pass EXCEPT ![p].task = TRUE]
          /\ working' = working \union {p}
          /\ UNCHANGED sequencerVars
       \/ pass[p].worker_required /\ Fail(p) /\ UNCHANGED working
       \/ /\ ~pass[p].worker_required
          /\ \E failed \in BOOLEAN : ProcessComplete(p, failed, FALSE)
          /\ UNCHANGED working
    /\ frame' = "done"
    /\ UNCHANGED <<kind, state, peers, held, life, made_for, broken>>

\* The worker's answer.  It says canceled for what the pass canceled while the
\* worker had it, and for everything once the platform shuts down.
WorkDone(p) ==
    /\ InLoop
    /\ p \in working
    /\ working' = working \ {p}
    /\ \E failed \in BOOLEAN, canceled \in BOOLEAN :
          /\ ~pass[p].task => canceled
          /\ ProcessComplete(p, failed, canceled)
    /\ UNCHANGED <<kind, state, peers, held, frame, life, made_for, broken>>

\* pomelo_protocol_sender_dispatch: a server sends to the address of the peer.
SenderDispatch(s) ==
    /\ InStage(s, 1)
    /\ broken' = (broken \/ (Server /\ pass[s].peer = None))
    /\ \/ PipelineNext(s) /\ UNCHANGED pass
       \/ Fail(s)
    /\ frame' = "done"
    /\ UNCHANGED <<kind, state, working, peers, held, life, made_for>>

\* pomelo_pool_release with pomelo_protocol_sender_cleanup or _receiver_cleanup
Release(p) ==
    /\ pass' = [pass EXCEPT ![p].live = FALSE, ![p].entry = FALSE]
    /\ peers' = [peer \in Peers |-> IF pass[p].entry /\ pass[p].peer = peer
                                    THEN peers[peer] \ {p} ELSE peers[peer]]
    /\ broken' = (broken \/ (pass[p].entry /\ pass[p].peer = None))
    /\ frame' = "done"

\* pomelo_protocol_sender_complete
SenderComplete(s) ==
    /\ InStage(s, 2)
    /\ IF pass[s].flags # {} \/ state # "RUNNING"
       THEN Release(s)
       ELSE frame' = "handling" /\ UNCHANGED <<pass, peers, broken>>
    /\ UNCHANGED <<sequencerVars, kind, state, working, held, life, made_for>>

\* pomelo_protocol_receiver_complete: the entry goes before the handler runs, and
\* a packet that failed has a handler too (recv_failed).
ReceiverComplete(r) ==
    /\ InStage(r, 1)
    /\ IF "CANCELED" \in pass[r].flags
       THEN Release(r)
       ELSE /\ broken' = (broken \/ pass[r].peer = None \/ ~pass[r].entry)
            /\ pass' = [pass EXCEPT ![r].entry = FALSE, ![r].live = state = "RUNNING"]
            /\ peers' = [peer \in Peers |-> IF peer = pass[r].peer THEN peers[peer] \ {r}
                                            ELSE peers[peer]]
            /\ frame' = IF state = "RUNNING" THEN "handling" ELSE "done"
    /\ UNCHANGED <<sequencerVars, kind, state, working, held, life, made_for>>

\* The handler of a pass has returned, or a round.
HandlerReturns ==
    /\ frame = "handling"
    /\ \/ current \in Passes /\ Release(current)
       \/ current \in Rounds /\ frame' = "done" /\ UNCHANGED <<pass, peers, broken>>
    /\ UNCHANGED <<sequencerVars, kind, state, working, held, life, made_for>>

StageReturns ==
    /\ frame = "done"
    /\ frame' = "none"
    /\ S!StageReturns
    /\ UNCHANGED <<kind, state, pass, working, peers, held, life, made_for, broken>>

AfterDrain ==
    /\ \/ outer \in Senders /\ S!AfterDrain
       \/ outer \in Receivers /\ R!AfterDrain
       \/ outer \in Tasks /\ T!AfterDrain
    /\ UNCHANGED passVars

-----------------------------------------------------------------------------
Drains == \/ Enter \/ HandlerReturns \/ StageReturns \/ AfterDrain \/ Stop
          \/ \E p \in Passes : Process(p)
          \/ \E s \in Senders : SenderDispatch(s) \/ SenderComplete(s)
          \/ \E r \in Receivers : ReceiverComplete(r)

PassesNext ==
    \/ \E s \in Senders, peer \in Peers : Dispatch(s, peer)
    \/ \E r \in Receivers, peer \in Peers : Accept(r, peer)
    \/ \E peer \in Peers : ReleasePeer(peer)
    \/ \E round \in Rounds : StartRound(round)
    \/ \E p \in Passes : WorkDone(p)
    \/ SocketStart \/ RequestStop \/ Drains

\* The loop goes on, handlers return and a worker answers.
PassesFairness ==
    /\ WF_passesVars(Drains)
    /\ \A p \in Passes : WF_passesVars(WorkDone(p))

PassesSpec == PassesInit /\ [][PassesNext]_passesVars /\ PassesFairness

-----------------------------------------------------------------------------
\* The lists of a peer are the passes with an entry in them.
Listed == \A peer \in Peers :
              /\ peers[peer] = {p \in Passes : pass[p].entry /\ pass[p].peer = peer}
              /\ peer \notin held => peers[peer] = {}

\* Until it is canceled a pass has the peer it was made for, in the same connection.
OfItsPeer(p) ==
    LET peer == pass[p].peer IN peer \in held /\ made_for[p] = <<peer, life[peer]>>

\* What is in the pool is used by nobody: no task, no worker, no list.
Quiet(p) == p \notin S!Queued /\ p \notin working /\ ~pass[p].entry /\ ~pass[p].task

\* However stages, worker's answers, releases of peers and stops interleave: a pass
\* belongs to the connection it was made for until it is canceled or its handler lets
\* the peer go, no handler runs for a pass that is canceled, an object in the pool is left alone although its peer may
\* serve another connection, nothing is left in the hands of nobody, and every pass
\* ends (sender.c:262, receiver.c:239, peer.c:186).
PassesServeTheirPeers ==
    /\ []/\ ~broken
         /\ Listed
         /\ \A p \in Passes : IF pass[p].live
                              THEN /\ \/ "CANCELED" \in pass[p].flags
                                      \/ OfItsPeer(p)
                                      \/ p = current /\ frame = "handling"
                                   /\ busy \/ p \in working
                              ELSE Quiet(p)
    /\ [][\A p \in Passes : current = p /\ frame = "entered" /\ frame' = "handling"
                                => OfItsPeer(p)]_passesVars
    /\ \A p \in Passes : pass[p].live ~> ~pass[p].live
===============================================================================
