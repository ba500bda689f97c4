------------------------------- MODULE DeliveryBus -------------------------------
(***************************************************************************)
(* One bus of the delivery layer (src/delivery) in one direction: the      *)
(* sending end cuts parcels into fragments and sends them, the receiving   *)
(* end acknowledges reliable fragments and puts parcels together.          *)
(*                                                                         *)
(* A parcel of two or more fragments has its checksum computed by a worker *)
(* before it gets its sequence number, and verified by a worker at the     *)
(* other end.  Everything else that one event starts runs to completion in *)
(* the sequencer, and is one action.                                       *)
(*                                                                         *)
(* Data and acknowledgements travel in two lossy channels, in order or     *)
(* not.  The network does not repeat datagrams: the replay protection of   *)
(* the protocol removes those (ReplayProtector); fragments are repeated by *)
(* the resend timer.  Allocations, sends and workers do not fail, and the  *)
(* endpoints stay connected.                                               *)
(***************************************************************************)
EXTENDS Integers, SequencesExt

CONSTANTS Modes,          \* the delivery modes that are used
          Sizes,          \* how many fragments a parcel may have
          Reorders,       \* the network may deliver out of order
          MaxParcels,     \* bound: parcels posted
          MaxInFlight     \* bound: fragments, and acknowledgements, under way;
                          \* the network loses what goes beyond it

ASSUME BusAssumption == /\ Modes \subseteq {"RELIABLE", "SEQUENCED", "UNRELIABLE"}
                        /\ Sizes \subseteq Nat \ {0}
                        /\ Reorders \in BOOLEAN
                        /\ {MaxParcels, MaxInFlight} \subseteq Nat

\* A dispatcher is [seq, parcel, mode, size], a fragment a dispatcher's record with
\* an index; sequence numbers start at 1 and seq 0 stands for none.
None == [seq |-> 0, parcel |-> 0, mode |-> "UNRELIABLE", size |-> 0]

\* The sending end.
VARIABLES posted,                 \* history: the parcels, as [mode, size]
          summing,                \* parcels whose checksum a worker computes
          numbered,               \* history: the dispatchers, by sequence number
          pending_dispatchers,    \* those that wait for the bus
          incomplete_reliable_dispatcher,
          acked,                  \* the indices of its fragments that are acknowledged
          succeeded               \* history: the dispatchers that completed

\* The receiving end.
VARIABLES receivers,              \* receivers_map: the fragments received so far
          verifying,              \* sequences whose checksum a worker verifies
          canceled,               \* the dispatchers whose receivers expired meanwhile:
                                  \* the workers have yet to answer
          expired,                \* history: sequences whose receivers expired
          incomplete_reliable_receiver,   \* its sequence, or 0
          last_recv_reliable_sequence, last_recv_sequenced_sequence,
          delivered               \* history: what was given to the layer above

VARIABLES data, acks              \* the two channels

senderVars == <<posted, summing, numbered, pending_dispatchers,
                incomplete_reliable_dispatcher, acked, succeeded>>
receiverVars == <<receivers, verifying, canceled, expired, incomplete_reliable_receiver,
                  last_recv_reliable_sequence, last_recv_sequenced_sequence, delivered>>
vars == <<senderVars, receiverVars, data, acks>>

Init == /\ posted = <<>> /\ summing = {} /\ numbered = <<>>
        /\ pending_dispatchers = <<>> /\ incomplete_reliable_dispatcher = None
        /\ acked = {} /\ succeeded = {}
        /\ receivers = {} /\ verifying = {} /\ canceled = {} /\ expired = {}
        /\ incomplete_reliable_receiver = 0
        /\ last_recv_reliable_sequence = 0 /\ last_recv_sequenced_sequence = 0
        /\ delivered = <<>>
        /\ data = <<>> /\ acks = <<>>

Reliable(d) == d.mode = "RELIABLE"

\* pomelo_delivery_fragment_meta_t and the content
Fragment(d, i) == [seq |-> d.seq, parcel |-> d.parcel, mode |-> d.mode,
                   size |-> d.size, index |-> i]

\* The fragments that are not acknowledged, in order.
Fragments(d, done) ==
    FlattenSeq([i \in 1 .. d.size |-> IF i \in done THEN <<>> ELSE <<Fragment(d, i)>>])

\* The channel after more was sent.
Carries(channel, more) == LET all == channel \o more
                          IN  SubSeq(all, 1, IF Len(all) < MaxInFlight THEN Len(all)
                                                                       ELSE MaxInFlight)

-------------------------------------------------------------------------------
(* The sending end: sender.c, dispatcher.c and the second half of bus.c.         *)

\* pomelo_delivery_bus_process_sending_deferred with the dispatch stage of every
\* dispatcher it submits: the queue is sent up to and with the first reliable
\* parcel, which blocks the bus until it is acknowledged.  incomplete is the
\* reliable dispatcher that blocks it already, or None.
ProcessSending(queue, incomplete) ==
    LET blocking == SelectInSeq(queue, Reliable)
        count == IF incomplete # None THEN 0
                 ELSE IF blocking # 0 THEN blocking ELSE Len(queue)
        going == SubSeq(queue, 1, count)
    IN  /\ pending_dispatchers' = SubSeq(queue, count + 1, Len(queue))
        /\ data' = Carries(data, FlattenSeq([i \in 1 .. count |-> Fragments(going[i], {})]))
        /\ incomplete_reliable_dispatcher' =
               IF count > 0 /\ blocking # 0 THEN queue[blocking] ELSE incomplete
        /\ acked' = IF incomplete # None THEN acked ELSE {}
        /\ succeeded' = succeeded \union {d \in ToSet(going) : ~Reliable(d)}
                        \union ({incomplete_reliable_dispatcher} \ {None, incomplete})

Numbered(id) == [seq |-> Len(numbered) + 1, parcel |-> id,
                 mode |-> posted'[id].mode, size |-> posted'[id].size]

\* pomelo_delivery_sender_dispatch: the next sequence number, at the bus's tail
Dispatch(id) ==
    /\ numbered' = Append(numbered, Numbered(id))
    /\ ProcessSending(Append(pending_dispatchers, Numbered(id)), incomplete_reliable_dispatcher)

\* pomelo_delivery_sender_submit, up to the worker when there is a checksum
Post(mode, size) ==
    LET id == Len(posted) + 1
    IN  /\ id <= MaxParcels
        /\ posted' = Append(posted, [mode |-> mode, size |-> size])
        /\ IF size >= 2
           THEN /\ summing' = summing \union {id}
                /\ UNCHANGED <<numbered, pending_dispatchers, succeeded,
                               incomplete_reliable_dispatcher, acked, data>>
           ELSE Dispatch(id) /\ UNCHANGED summing
        /\ UNCHANGED <<receiverVars, acks>>

\* update_checksum_complete: the worker has answered
ChecksumComputed(id) ==
    /\ id \in summing
    /\ summing' = summing \ {id}
    /\ UNCHANGED posted
    /\ Dispatch(id)
    /\ UNCHANGED <<receiverVars, acks>>

\* pomelo_delivery_dispatcher_resend: the fragments that are not acknowledged
Resend ==
    /\ incomplete_reliable_dispatcher # None
    /\ data' = Carries(data, Fragments(incomplete_reliable_dispatcher, acked))
    /\ UNCHANGED <<senderVars, receiverVars, acks>>

OfThisParcel(ack) == ack.seq = incomplete_reliable_dispatcher.seq

\* pomelo_delivery_bus_recv_fragment_ack, pomelo_delivery_dispatcher_recv_ack
RecvAck(ack) ==
    LET indices == acked \union {ack.index}
    IN  /\ UNCHANGED <<posted, summing, numbered>>
        /\ IF ~OfThisParcel(ack)
           THEN UNCHANGED <<pending_dispatchers, incomplete_reliable_dispatcher,
                            acked, succeeded, data>>
           ELSE IF indices = 1 .. incomplete_reliable_dispatcher.size
           THEN ProcessSending(pending_dispatchers, None)
           ELSE /\ acked' = indices
                /\ UNCHANGED <<pending_dispatchers, incomplete_reliable_dispatcher,
                               succeeded, data>>

-------------------------------------------------------------------------------
(* The receiving end: receiver.c and the first half of bus.c.                    *)

\* Variant: any parcel is new while none is incomplete.
NeverReceived(f) == FALSE

\* The fragment belongs to the last reliable parcel, which is complete: the
\* acknowledgement was lost, or a copy was under way.
AlreadyReceived(f) == /\ Reliable(f)
                      /\ incomplete_reliable_receiver = 0
                      /\ f.seq = last_recv_reliable_sequence

\* The meta is refused: another reliable parcel is incomplete, or out of date.
Refused(f) == CASE f.mode = "RELIABLE"  -> /\ incomplete_reliable_receiver # 0
                                             /\ f.seq # last_recv_reliable_sequence
                [] f.mode = "SEQUENCED" -> f.seq < last_recv_sequenced_sequence
                [] OTHER                -> FALSE

\* Variant: acknowledged only the first time.
ReplyAckOnce(f) == acks' = IF Reliable(f) /\ ~AlreadyReceived(f)
                           THEN Carries(acks, <<f>>) ELSE acks

ReplyAck(f) == acks' = IF Reliable(f) THEN Carries(acks, <<f>>) ELSE acks

Dispatcher(f) == [seq |-> f.seq, parcel |-> f.parcel, mode |-> f.mode, size |-> f.size]
FragmentsOf(seq) == {f \in receivers : f.seq = seq}

\* Variant: the sequence is not looked at again after the worker's answer.
NeverLate(d) == FALSE

Late(d) == d.mode = "SEQUENCED" /\ d.seq < last_recv_sequenced_sequence

\* pomelo_delivery_receiver_complete, pomelo_delivery_bus_handle_receiver_complete
Complete(d, rest) ==
    /\ receivers' = {f \in rest : f.seq # d.seq}
    /\ incomplete_reliable_receiver' = IF Reliable(d) THEN 0 ELSE incomplete_reliable_receiver
    /\ delivered' = IF Late(d) THEN delivered ELSE Append(delivered, d)
    /\ last_recv_sequenced_sequence' =
           IF d.mode = "SEQUENCED" /\ ~Late(d) THEN d.seq ELSE last_recv_sequenced_sequence

\* pomelo_delivery_bus_cleanup_expired_receivers: any receivers but the reliable
\* ones, the time is left out.
Expirable == {f.seq : f \in {g \in receivers : ~Reliable(g)}}

\* pomelo_delivery_bus_ensure_recv_command, pomelo_delivery_receiver_cancel of those
\* that are over, pomelo_delivery_receiver_add_fragment
AddFragment(f, over) ==
    LET rest == {g \in receivers : g.seq \notin over} \union {f}
        whole == f \notin receivers /\ \A i \in 1 .. f.size : Fragment(f, i) \in rest
    IN  /\ last_recv_reliable_sequence' =
               IF Reliable(f) THEN f.seq ELSE last_recv_reliable_sequence
        /\ expired' = expired \union over
        /\ canceled' = canceled \union {Dispatcher(g) : g \in {h \in receivers :
                                                    h.seq \in verifying \intersect over}}
        /\ verifying' = (verifying \ over)
                        \union (IF whole /\ f.size >= 2 THEN {f.seq} ELSE {})
        /\ IF whole /\ f.size = 1
           THEN Complete(Dispatcher(f), rest)
           ELSE /\ receivers' = rest
                /\ incomplete_reliable_receiver' =
                       IF Reliable(f) THEN f.seq ELSE incomplete_reliable_receiver
                /\ UNCHANGED <<delivered, last_recv_sequenced_sequence>>

\* pomelo_delivery_bus_recv_fragment_data
RecvFragment(f) ==
    IF AlreadyReceived(f)
    THEN ReplyAck(f) /\ UNCHANGED receiverVars
    ELSE IF Refused(f)
    THEN UNCHANGED <<receiverVars, acks>>
    ELSE /\ ReplyAck(f)
         /\ \E over \in SUBSET Expirable : AddFragment(f, over)

\* verify_checksum_complete: the worker has answered
ChecksumVerified(seq) ==
    /\ seq \in verifying
    /\ verifying' = verifying \ {seq}
    /\ \E f \in FragmentsOf(seq) : Complete(Dispatcher(f), receivers)
    /\ UNCHANGED <<senderVars, canceled, expired, last_recv_reliable_sequence, data, acks>>

\* Variant: the receiver's flag is not looked at after the worker's answer.
LateAnswerCompletes(d) ==
    /\ d \in canceled
    /\ canceled' = canceled \ {d}
    /\ Complete(d, receivers)
    /\ UNCHANGED <<senderVars, verifying, expired, last_recv_reliable_sequence, data, acks>>

\* verify_checksum_complete of a receiver that was canceled: it is released.
CanceledVerified(d) ==
    /\ d \in canceled
    /\ canceled' = canceled \ {d}
    /\ UNCHANGED <<senderVars, receivers, verifying, expired, incomplete_reliable_receiver,
                   last_recv_reliable_sequence, last_recv_sequenced_sequence, delivered,
                   data, acks>>

-------------------------------------------------------------------------------
(* The network.                                                                  *)

Arriving(channel) == {i \in DOMAIN channel : Reorders \/ i = 1}

ReceiveData(f) ==
    \E i \in Arriving(data) :
        /\ data[i] = f
        /\ data' = RemoveAt(data, i)
        /\ RecvFragment(f)
        /\ UNCHANGED senderVars

\* What the acknowledgement makes the bus send goes behind what is under way.
ReceiveAck(ack) ==
    \E i \in Arriving(acks) :
        /\ acks[i] = ack
        /\ acks' = RemoveAt(acks, i)
        /\ RecvAck(ack)
        /\ UNCHANGED receiverVars

LoseData == /\ \E i \in Arriving(data) : data' = RemoveAt(data, i)
            /\ UNCHANGED <<senderVars, receiverVars, acks>>

LoseAck == /\ \E i \in Arriving(acks) : acks' = RemoveAt(acks, i)
           /\ UNCHANGED <<senderVars, receiverVars, data>>

Next == \/ \E mode \in Modes, size \in Sizes : Post(mode, size)
        \/ \E id \in summing : ChecksumComputed(id)
        \/ Resend
        \/ \E f \in ToSet(data) : ReceiveData(f)
        \/ \E f \in ToSet(acks) : ReceiveAck(f)
        \/ \E seq \in verifying : ChecksumVerified(seq)
        \/ \E d \in canceled : CanceledVerified(d)
        \/ LoseData \/ LoseAck

Spec == Init /\ [][Next]_vars

\* The resend timer repeats, workers answer, and a fragment or an
\* acknowledgement that is sent for ever is received in the end.
Current(f) == f.seq = incomplete_reliable_dispatcher.seq

FairSpec == /\ Spec
            /\ WF_vars(Resend)
            /\ \A id \in 1 .. MaxParcels : WF_vars(ChecksumComputed(id))
            /\ \A seq \in 1 .. MaxParcels : WF_vars(ChecksumVerified(seq))
            /\ WF_vars(\E f \in ToSet(data) : ReceiveData(f))
            /\ WF_vars(\E f \in ToSet(acks) : ReceiveAck(f))
            /\ \A i \in UNION {1 .. n : n \in Sizes} :
                  /\ SF_vars(\E f \in ToSet(data) : Current(f) /\ f.index = i /\ ReceiveData(f))
                  /\ SF_vars(\E f \in ToSet(acks) : Current(f) /\ f.index = i /\ ReceiveAck(f))

-------------------------------------------------------------------------------
Dispatchers == [seq : 1 .. MaxParcels, parcel : 1 .. MaxParcels, mode : Modes, size : Sizes]

TypeOK ==
    /\ posted \in Seq([mode : Modes, size : Sizes])
    /\ summing \subseteq DOMAIN posted
    /\ {numbered[i] : i \in DOMAIN numbered} \subseteq Dispatchers
    /\ ToSet(pending_dispatchers) \subseteq ToSet(numbered)
    /\ incomplete_reliable_dispatcher \in {None} \union {d \in ToSet(numbered) : Reliable(d)}
    /\ acked \subseteq 1 .. incomplete_reliable_dispatcher.size
    /\ succeeded \subseteq ToSet(numbered)
    /\ {Dispatcher(f) : f \in receivers \union ToSet(data) \union ToSet(acks)} \subseteq ToSet(numbered)
    /\ {incomplete_reliable_receiver} \ {0} = {f.seq : f \in {g \in receivers : Reliable(g)}}
    /\ verifying \subseteq {f.seq : f \in receivers}
    /\ canceled \subseteq {d \in ToSet(numbered) : d.seq \in expired /\ ~Reliable(d)}
    /\ expired \subseteq 1 .. Len(numbered)
    /\ {last_recv_reliable_sequence, last_recv_sequenced_sequence} \subseteq 0 .. Len(numbered)
    /\ ToSet(delivered) \subseteq ToSet(numbered)

\* The reliable ones of the parcels of s, in their order.
OnlyReliable(s) == FlattenSeq([i \in DOMAIN s |-> IF Reliable(s[i]) THEN <<s[i]>> ELSE <<>>])

\* The reliable parcels of the bus, of the two ends, are a ReliableChannel: in the
\* order of their sequence numbers, once, and success means arrival.
Channel == INSTANCE ReliableChannel WITH
    Parcels  <- Dispatchers,
    taken    <- OnlyReliable(numbered),
    arrived  <- OnlyReliable(delivered),
    reported <- {d \in succeeded : Reliable(d)}
ImplementsChannel == Channel!CSpec

\* Sequenced parcels arrive in the order of their numbers, whatever the workers'
\* order and the network's (pomelo_delivery_bus_handle_receiver_complete).
SequencedOrder ==
    \A i, j \in DOMAIN delivered :
        i < j /\ delivered[i].mode = "SEQUENCED" /\ delivered[j].mode = "SEQUENCED"
            => delivered[i].seq < delivered[j].seq

\* A parcel whose receiver expired, with fragments missing or with a worker at its
\* checksum, is never delivered: not by the fragments that come after all, which
\* make a receiver of their own, nor by the worker's answer (receiver.c:190,
\* bus.c:419).
ExpiredIsLost == \A i \in DOMAIN delivered : delivered[i].seq \notin expired

\* Every reliable parcel is delivered, and its dispatcher completes, although data
\* and acknowledgements are lost.
EveryReliableArrives ==
    \A id \in 1 .. MaxParcels :
        (id \in DOMAIN posted /\ posted[id].mode = "RELIABLE")
            ~> \E d \in succeeded : d.parcel = id /\ d \in ToSet(delivered)

-------------------------------------------------------------------------------
(* What include/pomelo/common.h says of reliable channels and the code does not.  *)

\* common.h:90: "Guarantees both delivery and ordering": the parcels are
\* delivered in the order of their numbers, each once.
ReliableOrder ==
    \A i, j \in DOMAIN delivered :
        i < j /\ Reliable(delivered[i]) /\ Reliable(delivered[j])
            => delivered[i].seq < delivered[j].seq

\* common.h:90: they are delivered in the order they were sent in.
PostedOrder ==
    \A i, j \in DOMAIN delivered :
        i < j /\ Reliable(delivered[i]) /\ Reliable(delivered[j])
            => delivered[i].parcel <= delivered[j].parcel
===============================================================================
