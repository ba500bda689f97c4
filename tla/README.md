# A verification project for pomelo-udp-native

pomelo-udp-native is a C library for games: a connection-oriented protocol over
UDP (connect tokens, encrypted packets, replay protection), a delivery layer on
top of it (fragments, channels with three delivery modes, acknowledgements and
resends, clock synchronisation), and an API of sockets, sessions, channels and
messages. Everything of one socket runs on one thread, a libuv loop; work that
costs time (encryption, decryption, checksums) goes to worker threads and comes
back to the loop.

The modules here are translated from the C sources. TLC checks them on small
instances, TLAPS proves the theorems named below for every value of the
constants.

## 1. Inventory

| Part | Sources | State | Operations |
|---|---|---|---|
| sequencer | `base/sequencer.c` | list of pending tasks, `busy` | submit; drain |
| pipeline | `base/pipeline.c` | index of the stage, flags BUSY, NEXT, FINISH | start, next, finish |
| replay protector | `protocol/peer.c` | table of sequence numbers, the most recent one | protect_replay, cleanup |
| protocol peer | `protocol/peer.c` | address, keys, last receive time, lists of running senders and receivers | init, cleanup, cancel senders / receivers, disconnect |
| protocol socket | `protocol/socket.c` | NONE, RUNNING, STOPPING; statistic | start, stop, destroy, send, accept |
| protocol client | `protocol/client.c` | its peer, connect token, index of the address, phase emitters | start, stop, connect next address, the handlers of five packet types, timeouts |
| protocol server | `protocol/server.c` | peers in one of four lists, per-address map, challenge key | start, stop, the handlers of four packet types, deny, disconnect, scan, keep-alive |
| emitter | `protocol/emitter.c` | a trigger timer, a limit | start, stop, on_triggered |
| protocol sender, receiver | `protocol/sender.c`, `receiver.c` | a pipeline, flags, a worker task | submit, process, dispatch, complete, cancel |
| packets, tokens, encryption | `protocol/packet.c`, `crypto.c`, `crypto/token.c`, `base/payload.c` | bytes; keys; a number per packet | encode, decode, encrypt, decrypt, validate |
| delivery bus | `delivery/bus.c` | generator of sequence numbers, the latest sequenced and reliable sequence received, the running reliable dispatcher, incomplete receivers | send, receive, acknowledge, cleanup |
| delivery dispatcher, receiver, sender | `delivery/dispatcher.c`, `receiver.c`, `sender.c` | a fragment table, resend and expiry timers, a pipeline | start, resend, acknowledge, expire, cancel |
| parcel, its reader and writer | `delivery/parcel.c` | chunks, positions | write, read, reset, cut into fragments, put together |
| endpoint, clock, round trips | `delivery/endpoint.c`, `clock.c`, `utils/rtt.c`, `sampling.c` | ring of pings, sample sets, offset, level, READY | start, stop, ping, pong, synchronise |
| heartbeat | `delivery/heartbeat.c` | list of endpoints, one timer | schedule, unschedule |
| API socket and sessions | `api/socket.c`, `session.c`, `builtin/*.c` | state, list of sessions; of each session its state, peer and endpoint | listen, connect, stop, send, disconnect, the tasks they queue |
| API messages | `api/message.c` | references, mode, flag BUSY, a parcel | acquire, write, read, reset, send, unref |
| plugins | `api/plugin/*.c` | sessions of a plugin, its private data | create, destroy, receive, executor |
| platform | `platform/uv/*.c` | the loop, workers, timers, sockets, threadsafe executors | startup, shutdown, submit, timers, UDP |
| containers | `utils/list.c`, `map.c`, `heap.c`, `array.c`, `pool.c` | links, buckets, capacity; free and allocated elements | insert, remove, iterate; acquire, release |
| references, buffers | `base/ref.c`, `buffer.c` | a counter, a pool | ref, unref, finalize |
| adapter, generator | `adapter/`, `generator/` | tables of functions; a tool | |

How the parts meet. A UDP datagram enters the protocol socket, which makes a
receiver; the receiver decrypts, on a worker when the socket has one, and its
last stage runs in the socket's sequencer and calls the handler of the packet's
type. Payload packets are views the delivery endpoint splits by bus; each
fragment is a sequencer task of the bus. Completed parcels become API messages,
and the application's callbacks run inside those sequencer tasks, so that a
callback that disconnects, stops or sends only queues more tasks.

Hard behaviours. The sequencer makes everything of one socket run to completion,
but it also means that between a call and its effect other tasks run: the object
a task was queued for may be disconnected or released by then. Objects are
recycled through pools, so fields survive from one life to the next. Datagrams
are lost, duplicated and reordered. Workers finish after a cancel. Timers race
with late answers. Other threads submit to executors, share pools and drop
references.

What makes each part correct: the replay protector never lets a number of one
connection pass twice and refuses only what is too old; a started pipeline
completes, once, in the order of its stages; no peer is lost between the lists
of the server, none is released while a worker holds its packet, the
application knows of exactly the connected ones, and a session comes only from
a completed handshake; a packet is taken for what was sent or not at all; a
reliable parcel is delivered in order, once, and reported as sent only when it
arrived; a sequenced parcel never overtakes a later one; what is read from a
message is what was written; a round trip is measured against its own ping; a
session is announced, taken back and cleaned up once and in this order, every
message that was sent gets one result, and a stop ends and leaves nothing; a
submitted task runs, in order, or its executor is shut down; the platform calls
back when nothing is left; a buffer is freed when its last reference goes and
not before; a container holds what was put into it.

## 2. Modules

| Module | Models | State ↔ code | Actions ↔ code |
|---|---|---|---|
| `ReplayProtector` | `protocol/peer.c` | `received_sequence`, `most_recent_sequence` as in the struct; `accepted`, `floor`, `verdict` are history | `Accept`, `Discard`: `pomelo_protocol_peer_protect_replay`; `Cleanup`: `pomelo_protocol_peer_cleanup`, the return to the pool |
| `ReplayWindow` | abstract | the numbers accepted on this connection | accept or discard, by the window STANDARD.md describes, with every number remembered |
| `Pipeline` | `base/pipeline.c`, `base/sequencer.c` | `queue`, `busy`: the sequencer; `task_index`, `flags`: a pipeline; `outer`: whose `execute` call is on the stack below the drain; `current`: whose stage runs | `Start`, `CallNext`, `CallFinish`, and the steps of the drain: `RunStage`, `StageReturns`, `AfterDrain` |
| `Platform` | `platform/uv/*.c`, `delivery/heartbeat.c` | `phase`: where the loop is; `executor`, `work`, `timer`, `handle`, `socket` as in the structs; `thread`: how far a submit on another thread has come | one action per callback of libuv and per call; a submit is `Check`, `Push`, `Signal`, `Count`, since the loop runs between them |
| `PacketPasses` | `protocol/sender.c`, `receiver.c`, with `socket.c`, `peer.c` | `pass[p]`: peer, entry, flags, task as in the structs; `peers`: the two lists of a peer; `working`: what workers hold; `life`, `made_for`: history of the connections an object serves | one action per stage (`Process`, `SenderDispatch`, `SenderComplete`, `ReceiverComplete`), per worker's answer, per call that starts a pass, cancels passes or stops the socket; the drain between them is that of `Pipeline`, instantiated for three, two and one stages |
| `ProtocolPackets` | packets of the handshake, `protocol/crypto.c` | `network`: the set of all packets ever sent | `Sends`; `Decrypts` stands for the AEAD |
| `Wire` | `protocol/packet.c`, `crypto.c`, `crypto/token.c`, `base/payload.c`, `delivery/fragment.c` | the connection's token, `seals`: all that was encrypted, the packet under way as bytes; `denying`: a peer without keys that the server answers by a denial | `ClientSends`, `ServerSends` (the encoders), `ServerDenies` (zero keys and protocol 0, of a full server), the network that cuts or changes a byte, `Receive` (validation, decryption, decoders) |
| `ProtocolServer` | `protocol/server.c` with `socket.c`, `peer.c`, `receiver.c` | `peers`, `address_map`, `lists` as in the struct; `server_receivers`: receivers in the hands of workers; `sessions`: `on_connected` without `on_disconnected` | one action per handler (`RecvRequest`, `RecvResponse`, `RecvDisconnect`, `RecvKeepAlive`), per timer callback (`BroadcastKeepAlive`, `BroadcastDisconnect`, `ScanChallenging`), per call (`DisconnectPeer`, `ServerStop`) and per end of a denied packet (`SentDenied`, `SendDeniedFails`) |
| `ProtocolClient` | `protocol/client.c` with `socket.c`, `emitter.c` | `clients[a]`: state, token, `address_index`, running emitters, their counter; `client_receivers` | `ClientStart`, `ClientStop`, `ClientDisconnect`, the four handlers, the four emitters' triggers, the two time limits |
| `Connection` | the two together | | server steps, client steps, arrival of a packet |
| `Handshake` | abstract | who has asked, was challenged, has answered, was granted; the sessions of the two ends | the steps of the handshake of STANDARD.md |
| `DeliveryBus` | `delivery/bus.c`, `dispatcher.c`, `sender.c`, `receiver.c` | the fields of `pomelo_delivery_bus_t` under their names at the two ends; `data`, `acks`: the channels; `canceled`: receivers that expired while a worker verifies them; `posted`, `numbered`, `delivered`, `succeeded`, `expired`: history | `Post`, `ChecksumComputed`, `Resend`, `RecvAck`, `RecvFragment` (which may find receivers expired), `ChecksumVerified`, `CanceledVerified`, losses |
| `ReliableChannel` | abstract | parcels taken, arrived, reported | take, arrive, report |
| `Endpoints` | `delivery/endpoint.c`, `clock.c`, `utils/rtt.c` | `entries`, `entry_sequence`, `clock` (offset, level, count), `recent`, `ready` as in the structs; `net`: pings and pongs | `SendPing`, `RecvPing`, `RecvPong`, loss, the passing of time |
| `Messages` | `api/message.c`, `delivery/parcel.c`, `sender.c`, `dispatcher.c`, `receiver.c` | `message[m]`: references, mode, BUSY, chunks, positions; `sender[s]`: stage and checksum | one action per call of the API (write, reset, read, send, unref) and per stage of a send; arrival and loss of all the fragments |
| `Sessions` | `api/socket.c`, `session.c`, `builtin/*.c`, and the starts, stops and releases of `delivery/` and `protocol/` | the state of the socket, of each peer, session, endpoint, bus, sender and dispatcher; `queue`: the sequencer's tasks by kind; `frame`: the callback that runs and what its task has left to do | one action per task of the sequencer, per event of the network or a timer, per call of the application (between two runs or in a callback), and `Return` of a callback |
| `SessionEvents` | abstract | what each session was told, what each message was answered | announced, taken back, cleaned up; sent, answered |
| `Lists`, `UnrolledLists`, `Deques` | `utils/list.c`; `Deques` is abstract | links, front, back, size; buckets of `Width` and the position in the first one | one action per function |
| `Maps` | `utils/map.c` | buckets, entries, the number of buckets; an iterator | set, get, delete, clear, grow, iterate |
| `Heaps` | `utils/heap.c` | the tree, and the node each entry believes it is at | push, pop, remove, clear |
| `Arrays`, `Sampling` | `utils/array.c`, `sampling.c` | elements and capacity with garbage behind the length; the ring, sums modulo the word | one action per function |
| `Pools` | `utils/pool.c` | available, allocated, acquired and initialized elements, the array of a shared pool | root and shared acquire, allocate, release, destroy: an allocation is a step after the lists were found empty, since the mutex is released between, and so is the return of an element that a callback refused |
| `References` | `base/ref.c`, `buffer.c` | the counter; who holds which reference; where each thread is in its operation | load, exchange (which fails when the counter has changed), finalize |
| `Powers` | the powers that bound what some bytes can hold | | |
| `MC…` | | values of the constants for TLC; `MCStructures`, `MCPipeline`, `MCEndpoints` and `MCWire` check independent modules in one run, each behaviour with one of them as its subject | |
| `…_proofs`, `DataTheorems` | | the theorems of section 5; the lemmas about data that several of them use | |

An action is a whole event of the loop: what the code does between an arrival, a
timer, a worker's answer or a call of the application and its return, together
with the sequencer tasks it queues, when these cannot be separated from it.
`Pipeline` and `Sessions` look inside an event, since the interleaving of tasks
is their subject; `Platform`, `Pools` and `References` look inside a function,
where another thread may come between. What happens between two events of one
packet (its validation when it arrives, its handling when the worker has
answered) is always two steps, with anything in between.

Operators named as a *Variant* in the comment before them are deliberately wrong
forms of the definition that follows. They are not used by any specification;
each is the mistake that one of the properties would detect.

Abstractions, the same in all modules unless their constants say otherwise:
allocations succeed (not in `Pools`, `Maps`, `Arrays` and the buffers of
`Messages`, where running out is part of the subject); clocks are left out, so a
time limit may expire whenever its timer runs, and the liveness properties hold
for any positive limits; a key is the token it comes from, and decryption
succeeds with the right key only.

## 3. Runs

| Run | Module, configuration | Shows | Distinct states |
|---|---|---|---|
| `structures` | `MCStructures`, `MCStructures.cfg` | containers, pools, references and sample sets keep what they were given; the replay protector implements the window | 400 642 |
| `pipeline` | `MCPipeline`, `MCPipeline.cfg` | pipelines complete, once and in order, and an idle loop leaves nothing behind; executors run their tasks in order, timers and handles match, the shutdown calls back once, in the end, with nothing left | 173 260 |
| `conn_pair` | `MCConnection`, `MCConnection_pair.cfg` | the bookkeeping of the two ends and the handshake | 68 713 |
| `conn_timed` | `MCConnection`, `MCConnection_timed.cfg` | silent peers and half-open connections go away | 2 954 |
| `conn_lossy` | `MCConnection`, `MCConnection_lossy.cfg` | responses get through a fair lossy network | 11 885 |
| `bus_lossy` | `MCDeliveryBus`, `MCDeliveryBus_lossy.cfg` | the reliable channel, sequenced order, what expired stays lost, every reliable parcel arrives | 26 574 |
| `exchange` | `MCEndpoints`, `MCEndpoints_exchange.cfg` | round trips are those of their pings, the clock follows, an endpoint is ready once; what is sent in a message is what is read, and it is kept while it is sent | 1 260 763 |
| `api` | `MCSessions`, `MCSessions.cfg` | sessions and messages are told what the API promises; nothing is left of what is over; a stop ends | 396 265 |
| `wire` | `MCWire`, `MCWire.cfg` | what arrives whole is taken as it was sent, but for an encrypted denial, and nothing is taken for what it is not; senders and receivers serve the connection they were made for and end | 599 767 |
| `conn_next_address`, `exchange_clock`, `api_last_words` | | disagreements: section 4 | |

`ImplementsHandshake`, `ImplementsChannel`, `ImplementsWindow`,
`ImplementsDeques` and `KeepsPromises` are refinements: each step of the detailed
module is a step of its abstract one, or none.

Bounds, and why they are enough for what is asked.

* `structures`. The replay protector: a table of 3 entries and the numbers 0..7
  wrap it more than twice, so that an entry is overwritten by one and by two
  laps, and a recycled peer meets numbers below, inside and above the old window.
  Lists: three entries and two lists, so that an entry has two neighbours, is
  first, middle or last, and moves from list to list. Unrolled lists: buckets of
  two and up to five elements are three buckets, with either end in the middle of
  one. Maps: four buckets that become eight, keys that collide before the growth
  and not after it and the other way round; the growth comes with the fourth
  entry, and the last is set across it. Heaps: up to seven entries are three
  levels, two of them with the same rank. Arrays: capacities 1, 2, 4 and 8. Pools: four elements of five
  at most, two of them kept, batches of two: the limits, the array's end and a
  partial batch are all reached. References: three threads, three references.
  Sample sets: a ring of three and signed samples, so that sums fall below zero.
* `pipeline`. Three stages are the fewest with one that is neither first nor
  last; three pipelines give one that drains, one that is queued and one that
  runs; one is started twice (`MaxStarts`), which is the recycling. The safety
  part is proved for any number of each. The platform: one executor, taken twice
  (`MaxAcquires`), with two tasks from another thread; one work submitted twice;
  two timers, one of them the heartbeat's with two endpoints; one socket with two
  sends. An application uses no more than two of the four parts (`UsedTogether`):
  the shutdown, which they share, asks each of them and counts, so two show all
  the orders in which parts end. `LateStarts` and `MayFail` are off: section 4
  says what happens with them.
* `conn_pair`: two addresses compete for one slot (`max_clients` = 1), one token
  is for another server, one client connects twice, so packets of its first
  connection arrive in its second. Up to two packets of a peer are with workers
  at a time (`MaxReceivers`), and each end sends one disconnect packet before it
  lets go (`RedundantLimit` and `DisconnectLimit` are 1; 2 in `conn_timed`). The
  invariants and the handshake are
  proved for every value. Sequence numbers are left out: what a repeated
  keep-alive or disconnect packet could do is done already by the first.
* `conn_timed`, `conn_lossy`: one address, since the end of one connection does
  not depend on others; two connects of it. `conn_lossy` turns encryption off,
  since only then is a denial understood at all (section 4).
* `bus_lossy`: two parcels of one or two fragments, in every mode; two fragments
  and two acknowledgements under way. Two parcels are the fewest that can be
  out of order, two fragments the fewest that can be incomplete. What goes
  beyond two under way is lost, which the network may do anyway. A receiver may
  expire before its late fragment comes, and while a worker verifies it, whose
  answer then has to find it canceled.
* `exchange`. Pings: a ring of two and three numbers (`MaxSequence` = 2), so
  that with four pings a number comes round and a slot is used again; datagrams
  live as long as the numbers tell them apart (`Lifetime`), which in the code, with
  20 slots, 65 536 numbers and ten pings a second, holds of any that is less than
  an hour and a half old. Time bytes are base 4 and the server's clock is 5 ahead,
  so a time needs two bytes. Messages: chunks of 3, a capacity of 7 and a checksum of 2 give
  contents that end at a chunk's end, one short of it, and two; the run leaves room
  for the checksum (`Roomy`), `MCEndpoints_full.cfg` does not (section 4); two
  messages and two sends at once; one odd thing of each behaviour (`MaxOdd`).
* `api`: two sessions and two messages (one reliable), which may be sent to one
  session or to both at once; two starts of the socket, which is listen and
  connect in either order. What applications do is one of three manners
  (`MCManners`); what they leave out is what fails (section 4).
* `wire`: tokens of one and of two addresses, v4 and v6; numbers of one, five
  and eight bytes; the least fragment and the largest meta; three packets, so
  that a client gets to a connection and one packet beyond it; at most one cut or
  changed. The sizes of blocks whose content nothing depends on are smaller than
  in the code (`PrivateBytes` and the like), in the same order of size. Passes: one
  sender and one receiver, each used twice, on one peer that serves two
  connections: the least with a pass of the old connection in a worker's hands
  while the object serves the new one, and with one pass whose handler releases
  the peer of the other. Two senders were run as well (a million states) and show
  no more. The socket is a server that encrypts or a client that does or does not
  (`MCKinds`); section 4 says why a server that does not is left out.

`CHECK_DEADLOCK FALSE` stands in the configurations where the bounds end the
run: no client may connect again, no parcel may be posted, no pipeline or socket
started; and where the platform has shut down.

Fairness. Every assumption is weak fairness of what the code repeats or answers,
except the network's.

* `PipelineFairness`: the drain goes on and a stage returns (it is plain
  code on one thread); a stage that started work gets its `next` while the loop
  is idle (a worker's answer or a packet).
* `PlatformFairness`: the loop goes round and calls what is ready before it polls
  again (`uv_run`); a worker runs what it has; a thread inside a submit gets
  through it. Nothing is asked of the application's calls.
* `Fairness` of `Sessions`: the sequencer drains, a callback returns, and the
  thread pool answers for a checksum. Nothing is asked of the network or of what
  the application calls.
* `PassesFairness`: the drain goes on, handlers return, a worker answers.
* `LoopFairness`: a worker answers; a running repeat timer fires; the sender of
  a denied packet completes, with success or without.
* `TimeFairness`: a time limit expires in the end. For a connection it is
  assumed only when the other end has left it and so sends nothing that could
  move the limit.
* `NetworkFairness` (and the strong fairness of `DeliveryBus`): a packet that is
  sent for ever arrives now and then, and one that arrives for ever is accepted
  now and then. It is assumed in no run about safety, and not in `conn_timed`.

`conn_lossy` sets the tokens' time limit off, so that its liveness is about the
repetition of packets and not about giving up.

## 4. Where code and documentation disagree

Three are runs in which TLC finds the violation, from the initial state and
within the bounds above.

* `conn_next_address` (`NextAddressTried`, `protocol/client.c:416`, `768`): with
  another server address to try, the client stops, which releases its peer, and
  then writes the next address through the null pointer
  (`STANDARD.md:366, 378`). The model calls the state `CRASHED`.
* `exchange_clock` (`OffsetWithinRound`, `delivery/endpoint.c:589`): the pong's
  time is written with the number of its bytes less one (`endpoint.h:31`) and
  read with that number, so its highest byte is left out and the clock's offset is
  wrong by more than the round trip.
* `api_last_words` (`NoAssertionFails`, `protocol/peer.c:33`): an application that
  sends and then stops the socket in one callback; the dispatcher that the bus
  makes runs after the session has let its peer go, and the assertion that there
  is a peer fails.

Seven more are shown by hand: three are invariants to be added to a configuration
that passes without them, the others have one of their own, to be run as in
`tlc -config MCDeliveryBus_reorder.cfg MCDeliveryBus`:

* `NewConnectionStartsClean` in `MCStructures.cfg` (`protocol/peer.c:119-141`): a cleaned peer keeps `most_recent_sequence`. The
  next connection of that object discards packets until its numbers come near
  those of the connection before, while `STANDARD.md:301` starts them at zero.
* `WhatIsSetIsFound` in `MCStructures.cfg` (`utils/map.c:566`): a set that
  makes the table grow puts its entry into the bucket of the old number, and an
  entry that moves takes the next one out of the loop's sight, so that entries are
  set and not found; with the sizes of the code, from the thirteenth key on.
* `MCConnection_challenge.cfg` (`RequestAnswered`, `protocol/server.c:262`): a
  second request from an address with a peer is ignored, so a lost challenge is
  not repeated (`STANDARD.md:466`); the attempt ends with the time limit.
* `MCConnection_understood.cfg` (`DenialsAreUnderstood`,
  `protocol/server.c:440`): a request is denied before the peer has its keys, so
  the packet is sealed with the zero key and the client cannot read it
  (`STANDARD.md:368`).
* `PostedOrder` in `MCDeliveryBus_lossy.cfg` (`delivery/sender.c:300`): numbers are
  given after the worker's checksum, so a parcel of one fragment overtakes a
  longer one sent before it (`common.h:90`).
* `MCDeliveryBus_reorder.cfg` (`ReliableOrder`, `delivery/bus.c:241`): while no
  reliable receiver is incomplete, only the latest sequence number is recognised
  as old; a copy of an earlier fragment that the network delays is delivered again.
* `MCEndpoints_full.cfg` (`SentIsReceived`, `delivery/endpoint.c:75`,
  `dispatcher.c:133-142`): a message that fills the capacity exactly
  (`api.h:90`) needs one more fragment for its checksum than the receiver takes.

Seen while reading, modelled as the code has them or kept out by a named bound:

* Protocol. A server that does not encrypt queues the dispatch of a packet behind
  other tasks; a stop among them cancels the sender, which then dispatches to the
  address of a peer it no longer has (`sender.c:217`): with that kind of socket
  added to `MCKinds`, TLC shows it as a violation of `PassesServeTheirPeers`. The
  default adapter built with `POMELO_ADAPTER_DEFAULT_NO_ENCRYPTION` has been stopped
  by then and refuses before it looks at the address; another would have to do so
  too. The slots are counted when the request comes, not when the client
  connects, so that two clients that were challenged at the same time may both
  take the last slot (`STANDARD.md:487`); two peers may connect with the same
  client id (`STANDARD.md:485`); a peer whose denied packet fails stays DENIED; the
  response phase has no time limit of its own (`STANDARD.md:380`); the replay
  protector records a number before the packet is decrypted (`STANDARD.md:313`);
  `last_recv_time` may go backwards (`socket.c:473`); a token of another version
  leaves the decoder with success (`token.c`, decode_public); `constants.h:14` has
  version 1.00 where STANDARD.md has 1.03; a start that fails leaves its peer
  (`client.c:180`).
* Delivery. An empty reliable message blocks its channel for good
  (`dispatcher.c:343`); a server never measures a round trip; the mean of signed
  samples is divided as an unsigned number (`sampling.c:125`); an out-of-date
  sequenced parcel keeps its reference (`bus.c:306`).
* API. `pomelo_context_shared_create` fails always, since the buffer context gives
  none for a buffer size of zero (`base/buffer.c`, `delivery/context.c:392`); a
  message is unlocked by the first result of two sends, and a reset does not look
  whether it is being sent; a send to a channel there is not leaves BUSY and a
  reference; a session that is stopped or a socket that is destroyed or started
  again inside certain callbacks (`MCManners` leaves them out: an end asked for in
  `on_send_result` while a reliable message waits, a send after a disconnect in
  one callback, a stop while a big message is summed); the early returns of
  `pomelo_socket_send` leave the array of sessions permuted (`socket.c:451`), and
  sessions that are not connected count for the plugins' part (`socket.c:426`);
  `iterator_load` reads past the end (`socket.c:759`).
* Platform. A released executor keeps its SHUTDOWN flag, so when it is taken again
  it never runs a task and closes at its first callback (`PLATFORM.md:222`); the
  counter of tasks goes up after the signal and may be decremented before
  (`executor.c:246`, `306`); a socket that failed to bind asserts when it closes
  (`list.c:419`); a send that libuv refuses is not given back; timers and sockets
  that are started after the shutdown was asked for are not refused, and the
  callback comes while they run (`platform.h:57`). `MayFail` and `LateStarts` turn
  the last three on.
* Containers. A removal from the heap's middle lets the last entry, which takes the
  place, sink and never rise (`heap.c:497`): if it precedes its new parent the order
  is lost, and the top need not be the first to expire any more. `OrderedUntilMisplaced`
  asks for the order until then; `misplaced` is reached by pushing 1, 5, 2, 6, 7, 3 and
  removing 6. A callback that fails for the shared pool: "Failed to acquire, return
  to pool" (`pool.c:516`), but what goes to the array is `data`, not `element` (`pool.c:517`,
  `543`), and the next to take that slot reads the data's bytes as an element's; after
  `on_init` the element also keeps its ACQUIRED flag. `RefusedReturnToPool` says what the comment
  does; as an invariant of the run it fails in the fourth state. The root pool hands
  out uninitialized what a destroyed shared pool or a failed `on_alloc` left in
  its list; `list_clear` reads an entry it has released
  (`list.c:435`); `pomelo_unrolled_list` cannot find a bucket from the back
  (`list.c:593`).

## 5. Proofs

TLAPS checks every theorem for all values of the constants, from the named
assumptions of the modules: `NAssumption`, `SeqsAssumption` (a table of at least
one entry, natural numbers); `LastAssumption`, `MaxStartsAssumption`,
`NoPipelineAssumption`; `PacketAssumption`, `ServerAssumption`,
`ClientAssumption` (tokens, keys and ids are distinct kinds of things, limits
are natural numbers, a token names at least one server and a disconnecting
client sends at least one packet); `PoolAssumption`, `ReferenceAssumption`
(finitely many elements, threads and references; a batch is not empty);
`WireAssumption` (the two versions have one length, a private part and a challenge
have room for what is written to them, a token has one address or more, numbers have eight bytes,
those of a bus and of fragments at most two);
`MapAssumption` (keys are natural numbers, as the code takes their remainders; one
bucket to begin with), `HeapAssumption` (whatever a heap compares entries by is a
number each; what stands for no node is none);
`PlatformAssumption`, `BusAssumption` (None is no executor, timer or the like;
bounds are natural numbers, a parcel has at least one fragment);
`EndpointAssumption` (sizes are positive; a time has 64 bits; the network lets
nothing live to see its number come round); `MessageAssumption`,
`ItemsAssumption` (sizes are positive, finitely many sends, every item fits its
width); `SessionsAssumption` (None is no message, applications are made of calls
and callbacks, and there are finitely many sessions: those that begin before any
moment, since a socket that stops walks its list). Sets of addresses, tokens, pipelines, executors and timers may be infinite where nothing
counts them.

`Structures_proofs`, the replay protector. `NeverTwice` says nothing about the table and is not
inductive. `IInv` says what the table knows: an entry holds the largest number
of its index accepted on this connection (`TableOK`), and the most recent number
was accepted on this connection or is the one an earlier connection left
(`FloorOK`). From it follow `NoNumberTwice` and, step by step,
`WindowRefinement`. The arithmetic is that of two numbers with the same
remainder, which differ by at least the table's size.

`Platform_proofs`, the pipelines. The invariant has four parts: types; `Stack`, that only the
draining call's pipeline has flags, and an idle sequencer nothing at all;
`Queue`, that a task is queued once, belongs to a running pipeline, and a
completed pipeline is at its last stage; `Order`, that a pending task is for a
later stage than the last that ran (the next one, or the last one after a
cancel), that without a pending task the index is that of the last stage that
ran, and what the flags still ask for. Once-only completion,
clean idleness and the order of stages follow (`EachStartCompletesOnce`,
`NothingLeftBehind`, `StagesInOrder`).

`Connection_proofs`. `ConnInv` says of each address: `Placed`, its peer is where
its state says and nowhere else; `Received`, a worker holds packets only of peers
in the map, and one response at most, just when `processing_response` is set;
`Keyed`, past the request its keys and id are those of one valid token. Of each
client: the emitter of its phase runs, its index and counters are below their
limits while they count, and a stopped client has nothing with a worker. It has
to speak of each address on its own, so that a step that concerns one peer, or a
set of them, is the case "this peer" (`GonePeer` and the like) and the case "any
other" (`SamePeer`). `Received` is needed since a handler moves a peer by the
state it finds: without it, the answer of a worker could meet a peer in the wrong
phase or none.

`Connection_proofs`, the handshake. Server and clients over any network implement
`Handshake`. To `ConnInv` it adds `FromNetwork`: what is with a worker was sent, and a client
that answers was challenged. Every step of the code is then mapped to one step of
the handshake, or none, according to the kinds of packets it sends.

`Structures_proofs`, the pools. That elements are in one hand and within the limits is inductive
but for two things: `AllocatesEmpty` says that the array is
empty while the shared pool allocates, since the new batch replaces what was in
it, and that the root pool then has nothing to return; `Accounted` says where every
allocated element is, the slots that point to data included, from which it
follows that none is lost while there is no such slot. The limits are facts about the sizes of finite sets: what a batch may take
(`RoomLeavesLimit`), what a release keeps (`Releasing`). `PoolsKeepTheirElements`
adds that what the shared pool hands out is initialized.

`Structures_proofs`, the references. `LastOneFinalizes` is not inductive: a thread that has
loaded a counter of one and not exchanged it yet must still be right. `Life` says
who may: a thread that takes a reference has one, so that the counter cannot be
zero; once it is, one thread finalizes, and no other is about to.
`CounterIsReferences` counts the references that exist and those being dropped.

`Structures_proofs`, the map. `MapInv` says where entries are (`Spread`: each that is
held is in one bucket, once), which they are (those with a key), how many, and,
until the first growth only, that each is in the bucket of its key (`AtHome`). A
growth widens the table and redistributes its buckets in turn; each of these steps
leaves the buckets `Spread` over the same entries, wherever the moved entry goes
(`WideKeeps`, `RedistributeKeeps`), and `Recursion` makes one growth of them
(`ResizeKeeps`), so that none is lost, also if the set then fails. That entries
are found afterwards is not true (`WhatIsSetIsFound`, section 4). An
iterator is `fresh` until the map changes, and while it is its entry is held.

`Structures_proofs`, the heap. `HeapInv` has `Linked`, that entries and nodes point
at each other, and the order until a removal misplaces an entry. The loops that
sift are functions of the number of turns (`HeapifyUp`, `HeapifyDown`).
Each turn keeps `Linked`, and that all nodes but one are in order (`RisesAt`, all but the
current one and its parent; `SinksAt`, all but the current one and its children);
each either changes nothing, and then that one is in order too, or goes on to a
lesser node, or a greater one. `LoopEnds` concludes, from `Least`, that as many turns as
the heap has nodes are enough.

`Platform_proofs`. `ExecutorInv` says of each executor what its two lists hold:
only the callback that runs has tasks in the list it took (`ExecutorsRun`), so that
a swap of the lists finds the other one empty, and the numbers of what ran, of
what was taken and of what waits rise, each below the next and none above the
last push (`InTheirOrder`); `TasksInOrder` follows. `TimerInv` adds to
`HandlesMatchTimers` that a running timer has a handle, the heartbeat's repeats,
and there is none where no endpoint is left; the two are kept together, since a
stop clears the one and the other (`TimersMatch`). The shutdown
stops each part and counts the reports: `ReportsOnce` relates where the shutdown
is and what has reported to the call back, `ReportedEnded` and `SocketsAreListed`
say that a part that has reported has nothing left and that an open socket is in
the list the report waits for. `ShutdownIsQuiet` needs them all. It assumes `~ LateStarts` and
`~ MayFail`, since with either the code does call back while something is left
(section 4); the other two theorems do not.

`DeliveryBus_proofs`. `SequencedInOrder` holds over any network. A receiver
refuses what is less than the latest sequenced number, and so takes an equal
one: what excludes that is `FragmentsOnce`, that a fragment of a mode without
resends is in one place, the network, a receiver or what was delivered.
`BusIsReliableChannel` is about any network, one that reorders as well, in every
behaviour in which no reliable fragment is received after one of a later parcel
(`[][NoneIsLate]_vars`): that is what the code relies on and does not check, and
`ReliableOrder` in section 4 fails without it. The invariant, `ChannelInv`, says
that one reliable parcel is on its way at a time (`OneAtATime`); that an
acknowledgement under way is of a fragment that arrived (`AcksAreTrue`), so that a parcel with all its
acknowledgements did; and that the reliable parcels delivered are the first of
those numbered, in order (`DeliveredIsDone`). Each step of the bus then takes,
delivers or reports one parcel of the abstract channel, or none. That a network
that keeps the order (`~ Reorders`) brings none late, although fragments are sent
again, is `OrderedIsReliable`: no older reliable fragment is ever behind a newer
one (`NoneIsOlder`). `ExpiredStaysLost` needs no condition: of a parcel
that expired a fragment was received that is nowhere any more (`GivenUp`), since
those of a mode without resends are in one place (`FragmentsOnce`); so neither a
late fragment nor the worker's answer completes it (`ExpiredInv`).

`Exchange_proofs`, the heartbeat. That a round trip is measured against its own
ping (`HeartbeatIsRight`) is about numbers that are used again. `HeartbeatInv`
says that the number of the next ping is the count of pings modulo
`MaxSequence + 1` (`NumbersComeRound`), and of every ping and pong under way that
it is among the last `Lifetime` ones, carries the number of its ping, and, if an
entry with that number still waits, that entry's time (`OfItsEntry`). A ping that
takes over an entry then differs in its number from all that is under way, since
two numbers with the same remainder are further apart than anything lives. The
other two parts of `HeartbeatMeasures`, that the clock keeps within its level's
limit of the offset it was given and that an endpoint is announced once, need of
the clock that its offset is an integer on the first two levels (`ClockTypeOK`).
That the offset it is given is right is not proved: `exchange_clock` refutes it.

`Exchange_proofs`, the messages. `MessagesInv` relates the chunks to history: all
chunks are full but the last (`Packed`), and together they are the encoding of
what was put (`Holds`); what a reader has left is the encoding of the items it has
not read (`Reads`), so that each read splits off one item's bytes (`ReadGives`),
and these give its value, signed or not, digit by digit (`ValueIsRead`); a send whose message was not touched knows the checksum of
the chunks there are now (`SendOK`); the fragments under way were cut from chunks
that held what they carry (`CutFrom`). `KeptWhileSent` is in it, and is inductive:
references are those of the application, of sends and of those that went astray.
From it follow `MessagesKeepTheirContent`, for every item of every width, and
`ReceivedAsWritten`: what was left alone until it was cut is put together and
verified as it was written. That one assumes `Roomy`, that the fragments of a
message have room for its capacity and a checksum. Without it the code refuses
what it has sent (`MCEndpoints_full.cfg`, section 4); the default capacity of
65 536 has it, with 56 fragments of 1185 bytes for 65 568, and so has the run.

`Sessions_proofs`, what is over. The queue of the sequencer holds no task twice,
so it is known by the set of its tasks and by which comes before which
(`Precedes`). Lemmas say what a submit, the submit of several tasks and a run do
to the two (`SubmitOrder`, `SubmitAllOrder`, `RunningOrder`), and no other proof
looks inside the queue. `CoreInv` has two halves. `LifeInv` is about the life of
a session: of each slot, `SlotOK` relates the session, its peer, its endpoint, what
was told, its tasks and what the callback under way has left; `Protocol` relates
the two sockets to their tasks and to all the slots; `Orders` says which two orders
of tasks cannot be. `SendInv` is about sending: `BusOK` relates each bus to the
stages of its dispatchers, `DispatcherOK` a dispatcher to its task, and `SenderOK`
says that a sender has counted exactly those of its dispatchers that are done, and
answers with the last. The halves touch in few places: a step of a session's
life keeps `SendInv` because it keeps what `SendKept` lists, and a step that
sends keeps `LifeInv` because its tasks are of other kinds (`LifeSending`). Only
the stop of an endpoint, which cancels, and the return of a callback are about
both. `WhatIsOverLeavesNothing` reads `NothingIsLeft` off the invariant where
the queue is empty, and `PromisesAreKept` maps every step to one of `SessionEvents`
or none.

`Sessions_proofs`, the assertions. `OrderlyApplicationsGoOn` is about applications
that are `Orderly`: what they end they end between two runs of the sequencer; or
they end it in callbacks, but not in `on_send_result`, and then send in none; and
they do not stop a socket if they send messages that a worker sums up. It is an assumption about the
application, since the code keeps none to it: `api_last_words` shows the assertion
failing for one that is not (section 4). TLC checks that the three applications of
the run `api` are orderly and that the one of `api_last_words` is not. To
`CoreInv` the proof adds `OrderlyInv`. A parcel that is dispatched has to find a peer, or
a session that has gone, which takes it back: `DispatchesAhead` says that a session
without a peer is released before the task of its parcel runs. Why
tasks of sending do not get in between differs with the application. What the
first kind ended is the only task of its run (`EndsAlone`). For the second, no bus
and no dispatcher has anything to do while an end or a callback that may ask for
one is under way, but what was cancelled (`EndsQuietly`). `EndsInOrder` keeps the
tasks of several ends in the order asked, told the peer, told the application, so
that each finds what it uses; `NoneToDo` says that a message for several sessions
has reached the last of them before anything else is done; `StoppedIsQuiet` and
`StopIsCalled`, that an endpoint whose session the stop released sends nothing.

`Wire_proofs`. Three theorems about bytes, for every width of the fields, every
token, number and fragment. `Holds` says that some bytes are at a position; what
is appended moves nothing (`Extends`), so that each read of a decoder gives what
the encoder wrote there: packed numbers (`NumberRead`), the meta of a fragment,
whose byte is taken apart again (`MetaByteIsRead`), addresses in turn
(`AddressesAreRead`), the token's two parts, the header (`HeaderIsRead`). The rest
is who knows what, `WireInv`: `SealsAreKnown`, that all that is sealed is a packet,
a challenge or a private part, told apart by their associated data
(the lengths of which differ, or their version); `PacketsAreKnown`, that a packet is its
header and its body or the seal of it, under the peer's keys or, for a denial,
under zero keys (`KeysFor`, `IdFor`); `DenyingIsHeard`, that only a client that
could read its token is denied; `EndsAgree`, that the session is made from
the token's private part. A seal that opens is then one of these, and its text what was sealed
(`NothingElse`, `FragmentsSurvive`), for any bytes that arrive. When they are those of the
packet, every check passes (`WholeComesThrough`, of all but the encrypted denial,
which no client has the keys of): the length is the body's and
the tag's, the header gives type and number, the other end has the keys.

`DataTheorems`. The provers have no induction over data, so what is needed of it is
proved from `Least`: a nonempty set of natural numbers has a least element (from
the library's well-founded order of finite sets), and the least counterexample is
taken and refuted. From it: a set of sequences that holds the empty one and is
closed under appending holds them all (`SequencesBuild`); a function that is
defined from its value before exists and is the only one (`Recursion`,
`Agreement`), which gives the powers and what `FlattenSeq` of the community
modules does to a sequence that is extended, joined, cut into pieces and put
together (`FlattenAppend` to `FlattenPieces`), and what appending, joining, taking
the first and selecting do to the order of a sequence's elements (`AppendOrder`
to `KeptOrder`). The other modules use `Least` for their queues and numbers in the
same way.

Only model-checked: liveness, `EveryReliableArrives` and `ShutdownEnds` among it
(out of reach of the prover with its fairness and ENABLED);
`StopEnds` of `Sessions`; everything about
`PacketPasses`; the lists, arrays and sample sets.

## 6. Not modelled

Status and reason of every part are in `PROJECT.json`. In short:

* Plugins: the repository has tables of functions for code that is loaded at run
  time and no plugin whose use of them could be followed. Only the send of
  `plugin/channel.c`, which shares the life of a message, is in `Messages`.
* Failing allocations, but where they are named in section 2; of the bus, also
  failing sends and a stop in the middle of a parcel (`Sessions` stops a bus, with
  parcels of one piece).
* Iterators, times, round trips and user data of API sessions: reads of what other
  modules keep.
* The adapter (a table of functions to the platform; its one capability that
  changes the protocol is `Encrypted`), the token generator (a tool), base64,
  random numbers, the printing and parsing of addresses, the wrappers of malloc.

## 7. Plan

Done, in this order: the replay protector, pipelines, connections and the
handshake, the delivery bus, containers, pools and references, endpoints and
messages, the API's sessions, the packets' bytes and their passes through the
socket, the platform. Next:

1. Proofs of what is only model-checked: the state part of `PassesServeTheirPeers`;
   the linked lists against `Deques`.
2. `DeliveryBus` with failures (an allocation, a send; a disconnect in the middle
   of a parcel), and with three parcels.
3. The executor that is taken again, once its flags are what PLATFORM.md says.
