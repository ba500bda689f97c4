------------------------------- MODULE Endpoints -------------------------------
(***************************************************************************)
(* Two endpoints of the delivery layer that exchange pings and pongs on    *)
(* their system buses: src/delivery/endpoint.c, clock.c, utils/rtt.c.      *)
(*                                                                         *)
(* A ping that a side sends gets an entry in a ring; the pong that echoes  *)
(* its number gives a round trip time and, to the side that synchronizes   *)
(* its clock (the client), an offset.  The first ping or pong a side       *)
(* receives makes it ready; until then it refuses the user's fragments.    *)
(*                                                                         *)
(* The network loses and reorders, it does not repeat (ReplayProtector),   *)
(* and nothing stays under way while Lifetime more pings are sent.  Every  *)
(* action is one event with all the sequencer does before it is idle.      *)
(***************************************************************************)
EXTENDS Integers, SequencesExt, FiniteSetsExt, Powers

CONSTANTS
    MaxSequence,        \* POMELO_RTT_MAX_SEQUENCE
    EntryBuffer,        \* POMELO_RTT_ENTRY_BUFFER_SIZE
    Lifetime,           \* the network: how many later pings a datagram may live to see
    Radix,              \* 256: how many values a byte of the time has
    Skew,               \* what the server's clock shows when the client's shows 0
    MinSyncs,           \* POMELO_TIME_HIGH_MIN_TIMES_OF_PING
    Recent,             \* POMELO_PROTOCOL_CLOCK_RECENT_OFFSETS_SIZE
    Word,               \* 2^64
    HighDelta, MediumDelta, LowDelta,   \* the POMELO_TIME_..._MIN_DELTA_... of clock.c
    MaxPings, MaxServerPings, MaxTime, MaxInFlight
                        \* bounds: pings of each side, the time, datagrams under way;
                        \* a ping that would be one too many is not sent

ASSUME EndpointAssumption ==
    /\ {MaxSequence, EntryBuffer, Radix, MinSyncs, Recent, Word} \subseteq Nat \ {0}
    /\ {HighDelta, MediumDelta, LowDelta, Skew,
        MaxPings, MaxServerPings, MaxTime, MaxInFlight} \subseteq Nat
    /\ Lifetime \in 0 .. MaxSequence
    /\ MaxTime + Skew < Power(Radix, 8)      \* a time has 64 bits

Sides == {"client", "server"}
Other(side) == IF side = "client" THEN "server" ELSE "client"
TimeSync(side) == side = "client"

VARIABLES now,
          entries, entry_sequence,      \* the ring of each side, the next ping's number
          pings,                        \* history: how many pings each side has sent
          sample,                       \* history: what the last sample of a side measured
          ready, announced,             \* the READY flag; history: calls of on_ready
          clock,                        \* the client's: offset, level, high_sync_count
          recent,                       \* its recent_offsets, <<>> before the first
          synced,                       \* history: the last synchronization
          net                           \* datagrams under way

rttVars == <<entries, entry_sequence, pings, sample>>
clockVars == <<clock, recent, synced>>
exchangeVars == <<now, rttVars, ready, announced, clockVars, net>>

hrtime(side) == IF side = "client" THEN now ELSE now + Skew

NoEntry == [valid |-> FALSE, sequence |-> 0, time |-> 0]
NoSync == [done |-> FALSE, level |-> "HIGH", offset |-> 0, round |-> 0]

EndpointInit ==
    /\ now = 0
    /\ entries = [s \in Sides |-> [i \in 0 .. EntryBuffer - 1 |-> NoEntry]]
    /\ entry_sequence = [s \in Sides |-> 0]
    /\ pings = [s \in Sides |-> 0]
    /\ sample = [s \in Sides |-> [measured |-> 0, elapsed |-> 0]]
    /\ ready = [s \in Sides |-> FALSE] /\ announced = [s \in Sides |-> 0]
    /\ clock = [offset |-> 0, level |-> "HIGH", high_sync_count |-> 0]
    /\ recent = <<>> /\ synced = NoSync
    /\ net = {}

-----------------------------------------------------------------------------
(* utils/rtt.c *)

\* pomelo_rtt_calculator_next_entry: the number comes round after MaxSequence.
NextEntry(side) ==
    LET sequence == entry_sequence[side]
    IN  /\ entries' = [entries EXCEPT ![side][sequence % EntryBuffer] =
                          [valid |-> TRUE, sequence |-> sequence, time |-> hrtime(side)]]
        /\ entry_sequence' = [entry_sequence EXCEPT ![side] =
                                 IF sequence + 1 > MaxSequence THEN 0 ELSE sequence + 1]

\* Variant: the slot of the ring is enough.
EntryOfSlot(side, sequence) == entries[side][sequence % EntryBuffer].valid

\* pomelo_rtt_calculator_entry: the ping is one that waits for its pong.
EntryOf(side, sequence) ==
    LET entry == entries[side][sequence % EntryBuffer]
    IN  entry.valid /\ entry.sequence = sequence

-----------------------------------------------------------------------------
(* clock.c *)

Delta(a, b) == IF a > b THEN a - b ELSE b - a

\* The mean of the recent offsets: the sum is divided as an unsigned word.
MeanOffset(offsets) ==
    LET mean == (FoldLeft(+, 0, offsets) % Word) \div Recent
    IN  IF mean < Word \div 2 THEN mean ELSE mean - Word

\* pomelo_sample_set_i64_submit: the first offset fills the ring.
WithRecent(offset) == IF recent = <<>> THEN [i \in 1 .. Recent |-> offset]
                                       ELSE Append(Tail(recent), offset)

\* pomelo_delivery_time_sync_high and _medium: the offset is taken over when it
\* is further than limit from the clock's.
Follow(offset, limit, level, count) ==
    clock' = [offset |-> IF Delta(offset, clock.offset) > limit THEN offset ELSE clock.offset,
              level |-> level,
              high_sync_count |-> count]

\* rtt: the variance of the round trips, "below" the limit of the level that
\* follows, "between" that and the limit of HIGH, or "above" both; steady: the
\* variance of the recent offsets is small.
SyncHigh(offset, rtt, steady) ==
    /\ clock.level = "HIGH"
    /\ IF rtt = "above" THEN UNCHANGED clock
       ELSE IF clock.high_sync_count < MinSyncs
       THEN Follow(offset, HighDelta, "HIGH", clock.high_sync_count + 1)
       ELSE Follow(offset, HighDelta, IF rtt = "below" THEN "MEDIUM" ELSE "HIGH",
                   clock.high_sync_count)

SyncMedium(offset, rtt, steady) ==
    /\ clock.level = "MEDIUM"
    /\ IF rtt # "below" THEN UNCHANGED clock
       ELSE Follow(offset, MediumDelta, IF steady THEN "LOW" ELSE "MEDIUM",
                   clock.high_sync_count)

\* The mean is compared with the new offset, not with the clock's.
SyncLow(offset, rtt, steady) ==
    /\ clock.level = "LOW"
    /\ IF rtt = "below" /\ Delta(MeanOffset(recent'), offset) > LowDelta
       THEN clock' = [clock EXCEPT !.offset = MeanOffset(recent')]
       ELSE UNCHANGED clock

\* int64_t division rounds towards zero.
HalfOf(n) == IF n >= 0 THEN n \div 2 ELSE -((-n) \div 2)

\* pomelo_delivery_clock_sync: t0, t3 are the client's, t1 = t2 the server's.
ClockSync(t0, t1, t3) ==
    LET offset == HalfOf((t1 - t0) + (t1 - t3))
    IN  /\ recent' = WithRecent(offset)
        /\ \E rtt \in {"below", "between", "above"}, steady \in BOOLEAN :
              /\ \/ SyncHigh(offset, rtt, steady)
                 \/ SyncMedium(offset, rtt, steady)
                 \/ SyncLow(offset, rtt, steady)
              /\ synced' = [done |-> rtt = "below", level |-> clock.level,
                            offset |-> offset, round |-> t3 - t0]

-----------------------------------------------------------------------------
(* endpoint.c *)

\* The bytes of a number: pomelo_payload_calc_packed_uint64_bytes
BytesOf(time) == Min({n \in 1 .. 8 : time < Power(Radix, n)})

\* pomelo_delivery_endpoint_send_pong_ex writes BytesOf(time) bytes, least first,
\* and their number less one; recv_pong reads that many.
TimeRead(time) == time % Power(Radix, BytesOf(time) - 1)

\* pomelo_delivery_endpoint_check_ready, the ready task and on_ready
CheckReady(side) ==
    IF ready[side] THEN UNCHANGED <<ready, announced>>
    ELSE /\ ready' = [ready EXCEPT ![side] = TRUE]
         /\ announced' = [announced EXCEPT ![side] = @ + 1]

\* What the network still carries once side has sent one more ping.
Young(side, datagrams) ==
    {d \in datagrams : d.origin = side => pings[side] + 1 - d.number <= Lifetime}

\* pomelo_delivery_endpoint_send_ping(_ex), started by the heartbeat
SendPing(side) ==
    /\ pings[side] < IF side = "client" THEN MaxPings ELSE MaxServerPings
    /\ Cardinality(net) < MaxInFlight
    /\ NextEntry(side)
    /\ pings' = [pings EXCEPT ![side] = @ + 1]
    /\ net' = Young(side, net) \union
              {[kind |-> "PING", to |-> Other(side), origin |-> side,
                number |-> pings[side] + 1, sequence |-> entry_sequence[side],
                left |-> hrtime(side), time_sync |-> TimeSync(side), time |-> 0]}
    /\ UNCHANGED <<now, sample, ready, announced, clockVars>>

\* pomelo_delivery_endpoint_recv_ping: the pong echoes number and flag, with the
\* time when that is asked for.
RecvPing(d) ==
    /\ d.kind = "PING"
    /\ net' = (net \ {d}) \union
              {[d EXCEPT !.kind = "PONG", !.to = d.origin,
                         !.time = IF d.time_sync THEN hrtime(d.to) ELSE 0]}
    /\ CheckReady(d.to)
    /\ UNCHANGED <<now, rttVars, clockVars>>

\* pomelo_rtt_calculator_submit_entry
SubmitEntry(side, d) ==
    LET i == d.sequence % EntryBuffer
    IN  /\ entries' = [entries EXCEPT ![side][i].valid = FALSE]
        /\ sample' = [sample EXCEPT ![side] =
                         [measured |-> hrtime(side) - entries[side][i].time,
                          elapsed |-> hrtime(side) - d.left]]

\* pomelo_delivery_endpoint_recv_pong: nothing is measured without the time, and
\* a pong whose ping is not known leaves the side as it is.
RecvPong(d) ==
    /\ d.kind = "PONG"
    /\ net' = net \ {d}
    /\ UNCHANGED <<now, entry_sequence, pings>>
    /\ IF d.time_sync
       THEN IF EntryOf(d.to, d.sequence)
            THEN /\ SubmitEntry(d.to, d)
                 /\ IF TimeSync(d.to)
                    THEN ClockSync(entries[d.to][d.sequence % EntryBuffer].time,
                                   TimeRead(d.time), hrtime(d.to))
                    ELSE UNCHANGED clockVars
                 /\ CheckReady(d.to)
            ELSE UNCHANGED <<entries, sample, clockVars, ready, announced>>
       ELSE CheckReady(d.to) /\ UNCHANGED <<entries, sample, clockVars>>

Lose == /\ \E d \in net : net' = net \ {d}
        /\ UNCHANGED <<now, rttVars, ready, announced, clockVars>>

Elapse == /\ now < MaxTime
          /\ now' = now + 1
          /\ UNCHANGED <<rttVars, ready, announced, clockVars, net>>

EndpointNext == \/ \E side \in Sides : SendPing(side)
                \/ \E d \in net : RecvPing(d) \/ RecvPong(d)
                \/ Lose \/ Elapse

EndpointSpec == EndpointInit /\ [][EndpointNext]_exchangeVars

-----------------------------------------------------------------------------
\* A round trip is measured from the ping that the pong answers, although pongs
\* are late and the numbers come round (pomelo_rtt_calculator_entry).
SampleOfItsPing == \A s \in Sides : sample[s].measured = sample[s].elapsed

\* on_ready is called once for an endpoint, however many pings and pongs arrive
\* (pomelo_delivery_endpoint_check_ready).
ReadyOnce == \A s \in Sides : announced[s] = IF ready[s] THEN 1 ELSE 0

\* After a synchronization that was not refused, a clock of the first two levels is
\* no further from the offset that was computed than its level allows.
ClockFollows ==
    synced.done /\ synced.level # "LOW" =>
        LET limit == IF synced.level = "HIGH" THEN HighDelta ELSE MediumDelta
            far == clock.offset - synced.offset
        IN  far <= limit /\ -far <= limit

\* endpoint.h: "time_bytes - 1: 3 bits".  With it the pong's time is what the server
\* wrote, and then the offset is wrong by half a round trip at most.
OffsetWithinRound ==
    LET far == synced.offset - Skew
    IN  synced # NoSync => 2 * far <= synced.round + 1 /\ -2 * far <= synced.round + 1

\* What the heartbeat measures: each round trip against its own ping, and a clock that
\* follows the offsets; and it makes an endpoint ready once (rtt.c:86, clock.c:95,
\* endpoint.c:661).
HeartbeatMeasures == SampleOfItsPing /\ ClockFollows /\ ReadyOnce
=============================================================================
