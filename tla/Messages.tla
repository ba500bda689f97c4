------------------------------- MODULE Messages -------------------------------
(***************************************************************************)
(* What an application writes into messages, sends, receives and reads:    *)
(* src/api/message.c over the parcels of src/delivery/parcel.c, which      *)
(* sender.c and dispatcher.c sum and cut into fragments and receiver.c     *)
(* puts together.                                                          *)
(*                                                                         *)
(* A chunk is the bytes of its view.  The way of the fragments (order,     *)
(* loss, acknowledgements) is DeliveryBus's; here they arrive together or  *)
(* not at all.  A checksum stands for the contents it was computed from.   *)
(***************************************************************************)
EXTENDS Integers, SequencesExt, FiniteSetsExt, Powers

CONSTANTS
    Messages,           \* the messages of the pool
    Sends,              \* senders: the sends that may be under way together
    ChunkCapacity,      \* fragment_content_capacity; a buffer has no less
    message_capacity,   \* of the context
    ChecksumBytes,      \* POMELO_CRYPTO_CHECKSUM_BYTES
    ByteValues,         \* 256: how many values a byte has
    Items,              \* what is written: [kind, width, value], see Fits
    MayFail,            \* whether the buffers may run out
    MaxSent, MaxOdd     \* bounds: sends of a behaviour; resets, sends to plugins or
                        \* astray, and writes that fail halfway

ASSUME MessageAssumption ==
    /\ {ChunkCapacity, message_capacity, ChecksumBytes, ByteValues} \subseteq Nat \ {0}
    /\ {MaxSent, MaxOdd} \subseteq Nat /\ MayFail \in BOOLEAN
    /\ IsFiniteSet(Sends)

\* An unsigned number, a signed number or a buffer, of so many bytes.
Fits(item) ==
    \/ item.kind = "buffer" /\ item.value \in Seq(0 .. ByteValues - 1)
    \/ /\ item.kind = "uint" /\ item.width \in Nat
       /\ item.value \in 0 .. Power(ByteValues, item.width) - 1
    \/ /\ item.kind = "int" /\ item.width \in Nat /\ item.value \in Int
       /\ -Power(ByteValues, item.width) <= 2 * item.value
       /\ 2 * item.value < Power(ByteValues, item.width)

ASSUME ItemsAssumption == \A item \in Items : Fits(item)

VARIABLES message,      \* refs, mode, busy, chunks, written, and the reader's index, rest, remain
          held, astray, \* history: references of the application, of sends to no channel
          put, got,     \* history: the items written, the values read
          sender,       \* of each send: its message, stage, checksum
          touched,      \* history: whether its message was changed before it was cut
          flight,       \* the fragments of each send on their way, and their items
          sent, odd     \* counted for the bounds

messageVars == <<message, held, astray, put, got, sender, touched, flight, sent, odd>>

\* pomelo_context_root_create: as many fragments as the capacity takes.
max_fragments == (message_capacity + ChunkCapacity - 1) \div ChunkCapacity

Free == [refs |-> 0, mode |-> "UNSET", busy |-> FALSE, chunks |-> <<>>, written |-> 0,
         index |-> 0, rest |-> <<>>, remain |-> 0]
Idle == [message |-> "none", stage |-> "idle", checksum |-> <<>>]
NoFlight == [under_way |-> FALSE, fragments |-> <<>>, put |-> <<>>, touched |-> FALSE]

Total(chunks) == Len(FlattenSeq(chunks))
Under(m) == {s \in Sends : sender[s].stage # "idle" /\ sender[s].message = m}

MessagesInit ==
    /\ message = [m \in Messages |-> Free]
    /\ held = [m \in Messages |-> 0] /\ astray = [m \in Messages |-> 0]
    /\ put = [m \in Messages |-> <<>>] /\ got = [m \in Messages |-> <<>>]
    /\ sender = [s \in Sends |-> Idle]
    /\ touched = [s \in Sends |-> FALSE] /\ flight = [s \in Sends |-> NoFlight]
    /\ sent = 0 /\ odd = 0

\* The bounds.
Counted == sent < MaxSent /\ sent' = sent + 1 /\ UNCHANGED odd
Odd == odd < MaxOdd /\ odd' = odd + 1 /\ UNCHANGED sent
Even == UNCHANGED <<sent, odd>>

-----------------------------------------------------------------------------
(* the application's end *)

\* Numbers go as two's complement, least byte first; a buffer goes as it is.
Bytes(item) ==
    IF item.kind = "buffer" THEN item.value
    ELSE [i \in 1 .. item.width |-> (item.value \div Power(ByteValues, i - 1)) % ByteValues]

ValueOf(bytes) ==
    LET value[i \in 0 .. Len(bytes)] ==
            IF i = 0 THEN 0 ELSE value[i - 1] + bytes[i] * Power(ByteValues, i - 1)
    IN  value[Len(bytes)]
Value(kind, bytes) ==
    CASE kind = "buffer" -> bytes
      [] kind = "uint" -> ValueOf(bytes)
      [] kind = "int" -> LET n == ValueOf(bytes)  all == Power(ByteValues, Len(bytes))
                         IN  IF 2 * n < all THEN n ELSE n - all

\* pomelo_context_acquire_message: the flags stay what they were.  The first of a
\* behaviour is acquired, the others are received (a bound).
AcquireMessage(m) ==
    /\ message[m].refs = 0 /\ sent = 0 /\ \A n \in Messages : held[n] = 0
    /\ message' = [message EXCEPT ![m] = [Free EXCEPT !.refs = 1, !.mode = "WRITE",
                                                          !.busy = message[m].busy]]
    /\ held' = [held EXCEPT ![m] = 1]
    /\ put' = [put EXCEPT ![m] = <<>>] /\ got' = [got EXCEPT ![m] = <<>>]
    /\ Even
    /\ UNCHANGED <<astray, sender, touched, flight>>

\* pomelo_delivery_writer_write: the last chunk is filled, then new ones are.
Topped(chunks, bytes) ==
    IF chunks = <<>> THEN <<>>
    ELSE Append(Front(chunks),
                Last(chunks) \o SubSeq(bytes, 1, Min({ChunkCapacity - Len(Last(chunks)), Len(bytes)})))
Beyond(chunks, bytes) ==
    LET room == IF chunks = <<>> THEN 0 ELSE ChunkCapacity - Len(Last(chunks))
    IN  SubSeq(bytes, room + 1, Len(bytes))
Needed(chunks, bytes) == (Len(Beyond(chunks, bytes)) + ChunkCapacity - 1) \div ChunkCapacity
Filled(chunks, bytes, n) ==
    LET more == Beyond(chunks, bytes)
    IN  Topped(chunks, bytes) \o
        [i \in 1 .. n |-> SubSeq(more, (i - 1) * ChunkCapacity + 1, Min({i * ChunkCapacity, Len(more)}))]

\* The chunks a write gets: all it needs, or fewer, and then it has failed halfway.
Gets(chunks, bytes) ==
    LET needed == Needed(chunks, bytes)
    IN  {n \in 0 .. needed : /\ Len(chunks) + n <= max_fragments
                             /\ n = needed \/ MayFail \/ Len(chunks) + n = max_fragments}

TouchedBy(m) == [s \in Sends |-> touched[s] \/ (s \in Under(m) /\ sender[s].stage # "sent")]

\* pomelo_message_write_buffer, and the writes of numbers over it.
Write(m, item) ==
    /\ held[m] > 0 /\ message[m].mode = "WRITE" /\ ~ message[m].busy
    /\ message[m].written + Len(Bytes(item)) <= message_capacity
    /\ LET chunks == message[m].chunks
       IN  \E n \in Gets(chunks, Bytes(item)) :
             LET after == Filled(chunks, Bytes(item), n)
             IN  /\ IF n = Needed(chunks, Bytes(item)) THEN Even ELSE Odd
                 /\ message' = [message EXCEPT
                       ![m].chunks = after, ![m].written = @ + Total(after) - Total(chunks)]
                 /\ put' = [put EXCEPT ![m] =
                       Append(@, IF n = Needed(chunks, Bytes(item)) THEN item
                                 ELSE LET part == SubSeq(Bytes(item), 1, Total(after) - Total(chunks))
                                      IN  [kind |-> "buffer", width |-> Len(part), value |-> part])]
    /\ touched' = TouchedBy(m)
    /\ UNCHANGED <<held, astray, got, sender, flight>>

\* pomelo_message_reset: whether or not the message is being sent.
Reset(m) ==
    /\ held[m] > 0
    /\ message' = [message EXCEPT ![m].chunks = <<>>, ![m].written = 0, ![m].mode = "WRITE"]
    /\ put' = [put EXCEPT ![m] = <<>>] /\ got' = [got EXCEPT ![m] = <<>>]
    /\ touched' = TouchedBy(m)
    /\ Odd
    /\ UNCHANGED <<held, astray, sender, flight>>

\* Variant: the rest of a chunk is left when a read ends in it.
ReaderReadWhole(m, length) ==
    LET r == message[m]
        Stream(index) == r.rest \o FlattenSeq(SubSeq(r.chunks, r.index + 1, index))
        enough == {i \in r.index .. Len(r.chunks) : Len(Stream(i)) >= length}
        index == IF enough = {} THEN Len(r.chunks) ELSE Min(enough)
    IN  [ok |-> length <= r.remain /\ enough # {},
         bytes |-> SubSeq(Stream(index), 1, Min({length, Len(Stream(index))})),
         reader |-> [r EXCEPT !.index = index, !.rest = <<>>, !.remain = @ - length]]
\* pomelo_delivery_reader_read: what is left of this chunk, then the next ones.
ReaderRead(m, length) ==
    LET r == message[m]
        Stream(index) == r.rest \o FlattenSeq(SubSeq(r.chunks, r.index + 1, index))
        enough == {i \in r.index .. Len(r.chunks) : Len(Stream(i)) >= length}
        index == IF enough = {} THEN Len(r.chunks) ELSE Min(enough)
    IN  [ok |-> length <= r.remain /\ enough # {},
         bytes |-> SubSeq(Stream(index), 1, length),
         reader |-> [r EXCEPT !.index = index, !.rest = SubSeq(Stream(index), length + 1, Len(Stream(index))),
                              !.remain = @ - length]]

\* pomelo_message_read_buffer and the reads of numbers, in the order of the writes.
ReadNext(m) ==
    /\ held[m] > 0 /\ message[m].mode = "READ" /\ Len(got[m]) < Len(put[m])
    /\ LET item == put[m][Len(got[m]) + 1]
           read == ReaderRead(m, Len(Bytes(item)))
       IN  IF read.ok
           THEN /\ message' = [message EXCEPT ![m] = read.reader]
                /\ got' = [got EXCEPT ![m] = Append(@, Value(item.kind, read.bytes))]
           ELSE UNCHANGED <<message, got>>
    /\ Even
    /\ UNCHANGED <<held, astray, put, sender, touched, flight>>

\* pomelo_message_unref; the last reference gives the message and its chunks back.
Unreffed(record) == IF record.refs = 1 THEN [Free EXCEPT !.busy = record.busy] ELSE [record EXCEPT !.refs = @ - 1]

Unref(m) ==
    /\ held[m] > 0 /\ held' = [held EXCEPT ![m] = @ - 1]
    /\ message' = [message EXCEPT ![m] = Unreffed(@)]
    /\ Even
    /\ UNCHANGED <<astray, put, got, sender, touched, flight>>

-----------------------------------------------------------------------------
(* sending *)

\* Variant: the message is not kept for the time of the send.
PreparedUnkept(record) == [record EXCEPT !.busy = TRUE]
\* pomelo_message_prepare_send
Prepared(record) == [record EXCEPT !.busy = TRUE, !.refs = @ + 1]

\* Every part of the contents changes the checksum.
Checksum(bytes) ==
    [i \in 1 .. ChecksumBytes |->
        ByteValues + FoldRight(LAMBDA byte, sum : sum * (ByteValues + 1) + byte + 1, bytes, 0)]

\* Variant: a checksum that does not fit goes on top of the last chunk's end.
FragmentsEmbedded(chunks, checksum) ==
    IF Len(chunks) < 2 THEN chunks
    ELSE Append(Front(chunks), SubSeq(Last(chunks) \o checksum, 1, ChunkCapacity))
\* pomelo_delivery_dispatcher_init: the checksum goes with the last chunk or by itself.
Fragments(chunks, checksum) ==
    CASE Len(chunks) < 2 -> chunks
      [] Len(chunks) >= 2 /\ ChunkCapacity - Len(Last(chunks)) >= ChecksumBytes ->
            Append(Front(chunks), Last(chunks) \o checksum)
      [] OTHER -> Append(chunks, checksum)

Cut(s, m, checksum) ==
    flight' = [flight EXCEPT ![s] = [under_way |-> TRUE, put |-> put[m], touched |-> touched[s],
                                     fragments |-> Fragments(message[m].chunks, checksum)]]

\* pomelo_session_send, pomelo_socket_send: one chunk is cut at once, more are summed first.
Send(s, m) ==
    /\ held[m] > 0 /\ sender[s].stage = "idle" /\ ~ flight[s].under_way
    /\ message' = [message EXCEPT ![m] = Prepared(@)]
    /\ IF Len(message[m].chunks) < 2
       THEN sender' = [sender EXCEPT ![s] = [Idle EXCEPT !.message = m, !.stage = "sent"]]
            /\ touched' = [touched EXCEPT ![s] = FALSE]
            /\ flight' = [flight EXCEPT ![s] = [under_way |-> TRUE, put |-> put[m], touched |-> FALSE,
                                               fragments |-> Fragments(message[m].chunks, <<>>)]]
       ELSE sender' = [sender EXCEPT ![s] = [Idle EXCEPT !.message = m, !.stage = "summing"]]
            /\ touched' = [touched EXCEPT ![s] = FALSE] /\ UNCHANGED flight
    /\ Counted
    /\ UNCHANGED <<held, astray, put, got>>

\* update_checksum_entry, on a worker
Sum(s) ==
    /\ sender[s].stage = "summing"
    /\ sender' = [sender EXCEPT ![s].stage = "summed",
                                ![s].checksum = Checksum(FlattenSeq(message[sender[s].message].chunks))]
    /\ Even
    /\ UNCHANGED <<message, held, astray, put, got, touched, flight>>

\* update_checksum_complete and pomelo_delivery_sender_dispatch
Dispatch(s) ==
    /\ sender[s].stage = "summed"
    /\ Cut(s, sender[s].message, sender[s].checksum)
    /\ sender' = [sender EXCEPT ![s].stage = "sent"]
    /\ Even
    /\ UNCHANGED <<message, held, astray, put, got, touched>>

\* pomelo_socket_dispatch_send_result and pomelo_message_finish_send
SendResult(s) ==
    /\ sender[s].stage = "sent"
    /\ message' = [message EXCEPT ![sender[s].message] = Unreffed([@ EXCEPT !.busy = FALSE])]
    /\ sender' = [sender EXCEPT ![s] = Idle]
    /\ Even
    /\ UNCHANGED <<held, astray, put, got, touched, flight>>

\* pomelo_session_send with a channel there is not: prepared, and no result.
SendAstray(m) ==
    /\ held[m] > 0 /\ astray[m] = 0
    /\ message' = [message EXCEPT ![m] = Prepared(@)]
    /\ astray' = [astray EXCEPT ![m] = 1]
    /\ Odd
    /\ UNCHANGED <<held, put, got, sender, touched, flight>>

\* pomelo_channel_plugin_send: packed for the plugin to read, unpacked, and its result.
SendToPlugin(m) ==
    /\ held[m] > 0
    /\ message' = [message EXCEPT ![m].mode = "WRITE", ![m].written = Total(message[m].chunks), ![m].busy = FALSE]
    /\ got' = [got EXCEPT ![m] = <<>>]
    /\ Odd
    /\ UNCHANGED <<held, astray, put, sender, touched, flight>>

-----------------------------------------------------------------------------
(* receiving *)

\* pomelo_delivery_endpoint_recv, pomelo_delivery_receiver_verify_checksum
Contents(fragments) ==
    IF Len(fragments) < 2 THEN fragments
    ELSE Append(Front(fragments), SubSeq(Last(fragments), 1, Len(Last(fragments)) - ChecksumBytes))
Verified(fragments) ==
    /\ fragments # <<>> /\ Len(fragments) - 1 < max_fragments
    /\ Len(fragments) >= 2 =>
          /\ Len(Last(fragments)) >= ChecksumBytes
          /\ Checksum(FlattenSeq(Contents(fragments))) =
                SubSeq(Last(fragments), Len(Last(fragments)) - ChecksumBytes + 1, Len(Last(fragments)))

\* pomelo_delivery_parcel_set_fragments: a last fragment that is empty is left out.
Parcel(fragments) ==
    LET contents == Contents(fragments) IN IF Last(contents) = <<>> THEN Front(contents) ELSE contents

\* pomelo_delivery_bus_on_received; the application keeps the message it is given.
Receive(s, m) ==
    /\ flight[s].under_way /\ Verified(flight[s].fragments) /\ message[m].refs = 0
    /\ LET chunks == Parcel(flight[s].fragments)
       IN  message' = [message EXCEPT ![m] = [Free EXCEPT
               !.refs = 1, !.mode = "READ", !.busy = message[m].busy, !.chunks = chunks,
               !.remain = Total(chunks)]]
    /\ held' = [held EXCEPT ![m] = 1]
    /\ put' = [put EXCEPT ![m] = flight[s].put] /\ got' = [got EXCEPT ![m] = <<>>]
    /\ flight' = [flight EXCEPT ![s] = NoFlight]
    /\ Even
    /\ UNCHANGED <<astray, sender, touched>>

\* The fragments are lost, or refused.
Lost(s) ==
    /\ flight[s].under_way
    /\ flight' = [flight EXCEPT ![s] = NoFlight]
    /\ Even
    /\ UNCHANGED <<message, held, astray, put, got, sender, touched>>

MessagesNext ==
    \/ \E m \in Messages : \/ AcquireMessage(m) \/ Reset(m) \/ ReadNext(m) \/ Unref(m)
                           \/ SendAstray(m) \/ SendToPlugin(m)
                           \/ \E item \in Items : Write(m, item)
    \/ \E s \in Sends : \/ Sum(s) \/ Dispatch(s) \/ SendResult(s) \/ Lost(s)
                        \/ \E m \in Messages : Send(s, m) \/ Receive(s, m)

MessagesSpec == MessagesInit /\ [][MessagesNext]_messageVars
-----------------------------------------------------------------------------
(* what correctness means *)

Encoded(items) == FlattenSeq([i \in DOMAIN items |-> Bytes(items[i])])

\* A message that holds something and was left alone until it was cut into
\* fragments is put together again as it was written, whatever its size: the
\* checksum has room with the last chunk or in one more fragment, and the
\* receiver takes that many (dispatcher.c:117-150, endpoint.c:75).
SentIsReceived ==
    \A s \in Sends : flight[s].under_way /\ ~ flight[s].touched /\ Encoded(flight[s].put) # <<>> =>
        /\ Verified(flight[s].fragments)
        /\ FlattenSeq(Parcel(flight[s].fragments)) = Encoded(flight[s].put)

\* The values that are read are the values that were written, in their order
\* and with their signs, over the ends of chunks and through a message that is
\* sent on (message.c:359-539, parcel.c:345-395).
ReadIsWritten ==
    \A m \in Messages : message[m].mode = "READ" =>
        /\ Len(got[m]) <= Len(put[m])
        /\ \A i \in DOMAIN got[m] : got[m][i] = put[m][i].value

\* The size that is kept is the size of the chunks: all that was written, also
\* by a write that failed halfway; all that was not read.  It never passes the
\* capacity, and the chunks never pass their number (parcel.c:252-343).
SizeIsContent ==
    \A m \in Messages : message[m].refs > 0 =>
        /\ Total(message[m].chunks) <= message_capacity /\ Len(message[m].chunks) <= max_fragments
        /\ message[m].mode = "WRITE" => message[m].written = Total(message[m].chunks)
        /\ message[m].mode = "READ" =>
              message[m].remain = Total(message[m].chunks) -
                                    Len(Encoded(SubSeq(put[m], 1, Len(got[m]))))

\* A message is kept while a send of it has no result, however early the
\* application lets it go, and is given back unlocked (message.c:179-194).
KeptWhileSent ==
    \A m \in Messages :
        /\ message[m].refs = held[m] + astray[m] + Cardinality(Under(m))
        /\ message[m].refs = 0 => message[m].mode = "UNSET" /\ ~ message[m].busy
        /\ message[m].busy => Under(m) # {} \/ astray[m] > 0

\* The content of a message as the application sees it: the values and the sizes.
ContentIsKept == ReadIsWritten /\ SizeIsContent
===============================================================================
