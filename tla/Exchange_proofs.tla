---------------------------- MODULE Exchange_proofs ----------------------------
(***************************************************************************)
(* Theorems about what two ends of the delivery layer exchange: the pings  *)
(* and pongs of Endpoints, the contents of Messages.                       *)
(***************************************************************************)
EXTENDS Endpoints, Messages, DataTheorems

(***************************************************************************)
(* Pings and pongs.                                                        *)
(***************************************************************************)

Slots == 0 .. EntryBuffer - 1
Entry == [valid : BOOLEAN, sequence : Nat, time : Nat]
Datagram == [kind : {"PING", "PONG"}, to : Sides, origin : Sides, number : Nat \ {0},
             sequence : 0 .. MaxSequence, left : Nat, time_sync : BOOLEAN, time : 0 .. MaxTime + Skew]

EndpointTypeOK ==
    /\ now \in 0 .. MaxTime
    /\ entries \in [Sides -> [Slots -> Entry]]
    /\ entry_sequence \in [Sides -> 0 .. MaxSequence]
    /\ pings \in [Sides -> Nat]
    /\ sample \in [Sides -> [measured : Int, elapsed : Int]]
    /\ ready \in [Sides -> BOOLEAN] /\ announced \in [Sides -> Nat]
    /\ net \subseteq Datagram

\* A number comes round after MaxSequence; what is under way is among the last ones, and
\* the entry with its number, if it still waits, is its own.
NumbersComeRound == \A s \in Sides : entry_sequence[s] = pings[s] % (MaxSequence + 1)

OfItsEntry(d) ==
    /\ d.number <= pings[d.origin] /\ pings[d.origin] - d.number <= Lifetime
    /\ d.sequence = (d.number - 1) % (MaxSequence + 1)
    /\ d.kind = "PONG" => d.to = d.origin
    /\ EntryOf(d.origin, d.sequence) => entries[d.origin][d.sequence % EntryBuffer].time = d.left

\* Only the mean that the last level takes over leaves the integers' sight: it is
\* computed by a fold.
ClockTypeOK ==
    /\ clock.level \in {"HIGH", "MEDIUM", "LOW"}
    /\ clock.level # "LOW" => clock.offset \in Int

RingInv == EndpointTypeOK /\ NumbersComeRound /\ \A d \in net : OfItsEntry(d)

HeartbeatInv == RingInv /\ ClockTypeOK /\ HeartbeatMeasures

LEMMA SlotType == ASSUME NEW n \in Nat PROVE n % EntryBuffer \in Slots /\ n % (MaxSequence + 1) \in 0 .. MaxSequence
BY EndpointAssumption DEF Slots

LEMMA NextNumber ==
    ASSUME NEW n \in Nat
    PROVE  (n + 1) % (MaxSequence + 1) =
              IF (n % (MaxSequence + 1)) + 1 > MaxSequence THEN 0 ELSE (n % (MaxSequence + 1)) + 1
<1> DEFINE m == MaxSequence + 1
           q == n \div m
           r == n % m
<1>1. m \in Nat \ {0} /\ q \in Int /\ r \in 0 .. m - 1 /\ n = m * q + r
  BY EndpointAssumption
<1>2. MaxSequence \in Nat /\ m = MaxSequence + 1
  BY EndpointAssumption
<1> HIDE DEF m, q, r
<1>3. CASE r + 1 > MaxSequence
  <2>1. n + 1 = m * (q + 1) + 0
    <3>1. m * (q + 1) = m * q + m
      BY <1>1
    <3> QED BY <1>1, <1>2, <1>3, <3>1
  <2>2. q + 1 \in Int /\ 0 \in 0 .. m - 1
    BY <1>1
  <2>3. (m * (q + 1) + 0) % m = 0
    BY <1>1, <2>2, Division
  <2> QED BY <1>3, <2>1, <2>3 DEF m, r
<1>4. CASE ~ (r + 1 > MaxSequence)
  <2>1. r + 1 \in 0 .. m - 1 /\ n + 1 = m * q + (r + 1)
    BY <1>1, <1>2, <1>4
  <2>2. (m * q + (r + 1)) % m = r + 1
    BY <1>1, <2>1, Division
  <2> QED BY <1>4, <2>1, <2>2 DEF m, r
<1> QED BY <1>3, <1>4

\* Two numbers with the same remainder are apart.
LEMMA SameRemainder ==
    ASSUME NEW m \in Nat \ {0}, NEW n \in Nat, NEW k \in Nat, n < k, k - n < m
    PROVE  n % m # k % m
<1> SUFFICES ASSUME n % m = k % m PROVE FALSE
  OBVIOUS
<1> DEFINE p == n \div m
           q == k \div m
           r == n % m
<1>1. p \in Int /\ q \in Int /\ r \in 0 .. m - 1 /\ n = m * p + r /\ k = m * q + r
  OBVIOUS
<1> HIDE DEF p, q, r
<1>2. CASE q <= p
  <2>1. m * q <= m * p
    BY <1>1, <1>2
  <2> QED BY <1>1, <2>1
<1>3. CASE p < q
  <2>1. m * (p + 1) <= m * q /\ m * (p + 1) = m * p + m
    BY <1>1, <1>3
  <2> QED BY <1>1, <2>1
<1> QED BY <1>1, <1>2, <1>3

LEMMA RingStart == EndpointInit => HeartbeatInv
<1> SUFFICES ASSUME EndpointInit PROVE HeartbeatInv
  OBVIOUS
<1>1. EndpointTypeOK
  BY EndpointAssumption DEF EndpointInit, EndpointTypeOK, NoEntry, Slots, Entry, Sides
<1>2. NumbersComeRound
  <2>1. 0 % (MaxSequence + 1) = 0
    <3> DEFINE m == MaxSequence + 1
    <3>1. m \in Nat \ {0} /\ 0 \in Int /\ 0 \in 0 .. m - 1 /\ m * 0 + 0 = 0
      BY EndpointAssumption
    <3> HIDE DEF m
    <3>2. (m * 0 + 0) % m = 0
      BY <3>1, Division
    <3> QED BY <3>1, <3>2 DEF m
  <2>2. pings = [s \in Sides |-> 0] /\ entry_sequence = [s \in Sides |-> 0]
    BY DEF EndpointInit
  <2> QED BY <2>1, <2>2 DEF NumbersComeRound
<1>3. ClockTypeOK
  <2>1. clock = [offset |-> 0, level |-> "HIGH", high_sync_count |-> 0]
    BY DEF EndpointInit
  <2> QED BY <2>1 DEF ClockTypeOK
<1>4. SampleOfItsPing /\ ReadyOnce
  <2>1. /\ sample = [s \in Sides |-> [measured |-> 0, elapsed |-> 0]]
        /\ ready = [s \in Sides |-> FALSE] /\ announced = [s \in Sides |-> 0]
    BY DEF EndpointInit
  <2> QED BY <2>1 DEF SampleOfItsPing, ReadyOnce
<1>5. ClockFollows
  <2>1. ~ synced.done
    BY DEF EndpointInit, NoSync
  <2> QED BY <2>1 DEF ClockFollows
<1> QED BY <1>1, <1>2, <1>3, <1>4, <1>5 DEF HeartbeatMeasures, HeartbeatInv, RingInv, EndpointInit
(***************************************************************************)
(* The ring.                                                               *)
(***************************************************************************)

LEMMA PingKeepsRing == ASSUME RingInv, NEW side \in Sides, SendPing(side) PROVE RingInv'
<1> DEFINE sequence == entry_sequence[side]
           fresh == [kind |-> "PING", to |-> Other(side), origin |-> side,
                     number |-> pings[side] + 1, sequence |-> sequence,
                     left |-> hrtime(side), time_sync |-> TimeSync(side), time |-> 0]
           written == [valid |-> TRUE, sequence |-> sequence, time |-> hrtime(side)]
<1>1. /\ EndpointTypeOK /\ NumbersComeRound /\ \A d \in net : OfItsEntry(d)
      /\ now \in 0 .. MaxTime /\ entries \in [Sides -> [Slots -> Entry]]
      /\ entry_sequence \in [Sides -> 0 .. MaxSequence] /\ pings \in [Sides -> Nat] /\ net \subseteq Datagram
  BY DEF RingInv, EndpointTypeOK
<1>2. /\ MaxSequence \in Nat \ {0} /\ EntryBuffer \in Nat \ {0} /\ Lifetime \in 0 .. MaxSequence
      /\ Skew \in Nat /\ MaxTime \in Nat
  BY EndpointAssumption
<1>3. /\ entries' = [entries EXCEPT ![side][sequence % EntryBuffer] = written]
      /\ entry_sequence' = [entry_sequence EXCEPT ![side] = IF sequence + 1 > MaxSequence THEN 0 ELSE sequence + 1]
      /\ pings' = [pings EXCEPT ![side] = @ + 1]
      /\ net' = Young(side, net) \union {fresh}
      /\ UNCHANGED <<now, sample, ready, announced>>
  BY DEF SendPing, NextEntry
<1>4. /\ sequence \in 0 .. MaxSequence /\ pings[side] \in Nat /\ sequence = pings[side] % (MaxSequence + 1)
      /\ hrtime(side) \in Nat /\ sequence % EntryBuffer \in Slots /\ Other(side) \in Sides
      /\ TimeSync(side) \in BOOLEAN
  BY <1>1, <1>2, SlotType DEF NumbersComeRound, hrtime, Other, Sides, TimeSync
<1>5. written \in Entry /\ fresh \in Datagram
  BY <1>2, <1>4 DEF Entry, Datagram
<1> HIDE DEF sequence, fresh, written
<1>6. EndpointTypeOK'
  <2>1. entries' \in [Sides -> [Slots -> Entry]]
    BY <1>1, <1>3, <1>4, <1>5
  <2>2. entry_sequence' \in [Sides -> 0 .. MaxSequence] /\ pings' \in [Sides -> Nat]
    BY <1>1, <1>2, <1>3, <1>4
  <2>3. net' \subseteq Datagram
    BY <1>1, <1>3, <1>5 DEF Young
  <2> QED BY <1>1, <1>3, <2>1, <2>2, <2>3 DEF EndpointTypeOK
<1>7. NumbersComeRound'
  <2>1. entry_sequence'[side] = pings'[side] % (MaxSequence + 1)
    <3>1. entry_sequence'[side] = (pings[side] + 1) % (MaxSequence + 1)
      BY <1>1, <1>3, <1>4, NextNumber
    <3> QED BY <1>1, <1>3, <3>1
  <2>2. \A s \in Sides \ {side} : entry_sequence'[s] = entry_sequence[s] /\ pings'[s] = pings[s]
    BY <1>1, <1>3
  <2> QED BY <1>1, <2>1, <2>2 DEF NumbersComeRound
<1>8. ASSUME NEW d \in net' PROVE OfItsEntry(d)'
  <2>1. CASE d = fresh
    <3>1. /\ d.number = pings[side] + 1 /\ d.origin = side /\ d.sequence = sequence /\ d.kind = "PING"
          /\ d.left = hrtime(side)
      BY <2>1 DEF fresh
    <3>2. pings'[side] = pings[side] + 1 /\ entries'[side][sequence % EntryBuffer] = written
      BY <1>1, <1>3, <1>4
    <3>3. written.time = hrtime(side)
      BY DEF written
    <3>4. d.number - 1 = pings[side] /\ pings'[side] - d.number = 0
      BY <1>4, <3>1, <3>2
    <3> QED BY <1>2, <1>4, <3>1, <3>2, <3>3, <3>4 DEF OfItsEntry
  <2>2. CASE d # fresh
    <3>1. d \in net /\ d \in Datagram /\ OfItsEntry(d) /\ (d.origin = side => pings[side] + 1 - d.number <= Lifetime)
      BY <1>1, <1>3, <2>2 DEF Young
    <3>2. /\ d.number \in Nat \ {0} /\ d.origin \in Sides /\ d.sequence \in 0 .. MaxSequence
          /\ d.sequence % EntryBuffer \in Slots
      BY <1>2, <3>1, SlotType DEF Datagram
    <3>3. CASE d.origin # side
      <4>1. entries'[d.origin] = entries[d.origin] /\ pings'[d.origin] = pings[d.origin]
        BY <1>1, <1>3, <3>2, <3>3
      <4>2. EntryOf(d.origin, d.sequence)' <=> EntryOf(d.origin, d.sequence)
        BY <4>1 DEF EntryOf
      <4> QED BY <3>1, <4>1, <4>2 DEF OfItsEntry
    <3>4. CASE d.origin = side
      <4>1. d.number - 1 \in Nat /\ d.number - 1 < pings[side] /\ pings[side] - (d.number - 1) < MaxSequence + 1
        BY <1>2, <1>4, <3>1, <3>2, <3>4 DEF OfItsEntry
      <4>2. d.sequence # sequence
        BY <1>2, <1>4, <3>1, <4>1, SameRemainder DEF OfItsEntry
      <4>3. pings'[side] = pings[side] + 1
        BY <1>1, <1>3
      <4>4. EntryOf(side, d.sequence)' => entries'[side][d.sequence % EntryBuffer].time = d.left
        <5>1. CASE d.sequence % EntryBuffer = sequence % EntryBuffer
          <6>1. entries'[side][d.sequence % EntryBuffer] = written
            BY <1>1, <1>3, <1>4, <5>1
          <6>2. written.sequence # d.sequence
            BY <4>2 DEF written
          <6> QED BY <6>1, <6>2 DEF EntryOf
        <5>2. CASE d.sequence % EntryBuffer # sequence % EntryBuffer
          <6>1. entries'[side][d.sequence % EntryBuffer] = entries[side][d.sequence % EntryBuffer]
            BY <1>1, <1>3, <1>4, <3>2, <5>2
          <6> QED BY <3>1, <3>4, <6>1 DEF EntryOf, OfItsEntry
        <5> QED BY <5>1, <5>2
      <4>5. d.number <= pings'[side] /\ pings'[side] - d.number <= Lifetime
        BY <1>4, <3>1, <3>2, <3>4, <4>1, <4>3
      <4> QED BY <3>1, <3>4, <4>4, <4>5 DEF OfItsEntry
    <3> QED BY <3>3, <3>4
  <2> QED BY <2>1, <2>2
<1> QED BY <1>6, <1>7, <1>8 DEF RingInv

\* The entries of the others, and what is under way, are left alone or taken.
LEMMA RingSame ==
    ASSUME RingInv, UNCHANGED <<entries, entry_sequence, pings>>, now' \in 0 .. MaxTime,
           sample' \in [Sides -> [measured : Int, elapsed : Int]],
           ready' \in [Sides -> BOOLEAN], announced' \in [Sides -> Nat],
           net' \subseteq Datagram,
           \A d \in net' : \E c \in net : /\ d.number = c.number /\ d.origin = c.origin
                                          /\ d.sequence = c.sequence /\ d.left = c.left
                                          /\ d.kind = "PONG" => d.to = d.origin
    PROVE  RingInv'
<1>1. EndpointTypeOK'
  BY DEF RingInv, EndpointTypeOK
<1>2. NumbersComeRound'
  BY DEF RingInv, NumbersComeRound
<1>3. ASSUME NEW d \in net' PROVE OfItsEntry(d)'
  <2>1. PICK c \in net : /\ d.number = c.number /\ d.origin = c.origin
                         /\ d.sequence = c.sequence /\ d.left = c.left
                         /\ d.kind = "PONG" => d.to = d.origin
    OBVIOUS
  <2>2. OfItsEntry(c)
    BY DEF RingInv
  <2> QED BY <2>1, <2>2 DEF OfItsEntry, EntryOf
<1> QED BY <1>1, <1>2, <1>3 DEF RingInv

LEMMA ReadyType ==
    ASSUME EndpointTypeOK, ReadyOnce, NEW side \in Sides, CheckReady(side)
    PROVE  ready' \in [Sides -> BOOLEAN] /\ announced' \in [Sides -> Nat] /\ ReadyOnce'
<1>1. ready \in [Sides -> BOOLEAN] /\ announced \in [Sides -> Nat]
  BY DEF EndpointTypeOK
<1>2. CASE ready[side]
  BY <1>1, <1>2 DEF CheckReady, ReadyOnce
<1>3. CASE ~ ready[side]
  <2>1. ready' = [ready EXCEPT ![side] = TRUE] /\ announced' = [announced EXCEPT ![side] = @ + 1]
    BY <1>3 DEF CheckReady
  <2>2. announced[side] = 0 /\ ready'[side] /\ announced'[side] = 1
    BY <1>1, <1>3, <2>1 DEF ReadyOnce
  <2>3. \A s \in Sides \ {side} : ready'[s] = ready[s] /\ announced'[s] = announced[s]
    BY <1>1, <2>1
  <2> QED BY <1>1, <2>1, <2>2, <2>3 DEF ReadyOnce
<1> QED BY <1>2, <1>3

LEMMA PingReceived ==
    ASSUME HeartbeatInv, NEW d \in net, RecvPing(d)
    PROVE  RingInv' /\ ReadyOnce'
<1> DEFINE time == IF d.time_sync THEN hrtime(d.to) ELSE 0
           pong == [d EXCEPT !.kind = "PONG", !.to = d.origin, !.time = time]
<1>1. RingInv /\ EndpointTypeOK /\ ReadyOnce /\ d \in Datagram /\ now \in 0 .. MaxTime /\ net \subseteq Datagram
  BY DEF HeartbeatInv, HeartbeatMeasures, RingInv, EndpointTypeOK
<1>2. d.to \in Sides /\ hrtime(d.to) \in 0 .. MaxTime + Skew
  BY <1>1, EndpointAssumption DEF Datagram, hrtime
<1>3. /\ net' = (net \ {d}) \union {pong} /\ CheckReady(d.to)
      /\ UNCHANGED <<now, entries, entry_sequence, pings, sample>>
  BY DEF RecvPing, rttVars
<1>4. /\ pong \in Datagram
      /\ pong.number = d.number /\ pong.origin = d.origin /\ pong.sequence = d.sequence /\ pong.left = d.left
      /\ pong.to = pong.origin
  <2>1. time \in 0 .. MaxTime + Skew
    BY <1>2, EndpointAssumption
  <2> HIDE DEF time
  <2> QED BY <1>1, <2>1 DEF Datagram
<1> HIDE DEF pong, time
<1>5. ready' \in [Sides -> BOOLEAN] /\ announced' \in [Sides -> Nat] /\ ReadyOnce'
  BY <1>1, <1>2, <1>3, ReadyType
<1>6. \A e \in net' : \E c \in net : /\ e.number = c.number /\ e.origin = c.origin
                                     /\ e.sequence = c.sequence /\ e.left = c.left
                                     /\ e.kind = "PONG" => e.to = e.origin
  <2> SUFFICES ASSUME NEW e \in net'
               PROVE  \E c \in net : /\ e.number = c.number /\ e.origin = c.origin
                                     /\ e.sequence = c.sequence /\ e.left = c.left
                                     /\ e.kind = "PONG" => e.to = e.origin
    OBVIOUS
  <2>1. CASE e = pong
    BY <1>4, <2>1
  <2>2. CASE e # pong
    <3>1. e \in net /\ OfItsEntry(e)
      BY <1>1, <1>3, <2>2 DEF RingInv
    <3> QED BY <3>1 DEF OfItsEntry
  <2> QED BY <2>1, <2>2
<1>7. net' \subseteq Datagram /\ now' \in 0 .. MaxTime /\ sample' \in [Sides -> [measured : Int, elapsed : Int]]
  BY <1>1, <1>3, <1>4 DEF EndpointTypeOK
<1> QED BY <1>1, <1>3, <1>5, <1>6, <1>7, RingSame

LEMMA FewerDatagrams ==
    ASSUME RingInv, UNCHANGED <<now, entries, entry_sequence, pings>>, net' \subseteq net,
           sample' \in [Sides -> [measured : Int, elapsed : Int]],
           ready' \in [Sides -> BOOLEAN], announced' \in [Sides -> Nat]
    PROVE  RingInv'
<1>1. \A e \in net' : \E c \in net : /\ e.number = c.number /\ e.origin = c.origin
                                     /\ e.sequence = c.sequence /\ e.left = c.left
                                     /\ e.kind = "PONG" => e.to = e.origin
  BY DEF RingInv, OfItsEntry
<1>2. net' \subseteq Datagram /\ now' \in 0 .. MaxTime
  BY DEF RingInv, EndpointTypeOK
<1> QED BY <1>1, <1>2, RingSame

\* pomelo_rtt_calculator_submit_entry: the entry is that of the pong, and is over.
LEMMA PongMeasured ==
    ASSUME RingInv, SampleOfItsPing, NEW d \in net, d.kind = "PONG", net' = net \ {d},
           EntryOf(d.to, d.sequence), SubmitEntry(d.to, d),
           UNCHANGED <<now, entry_sequence, pings>>,
           ready' \in [Sides -> BOOLEAN], announced' \in [Sides -> Nat]
    PROVE  RingInv' /\ SampleOfItsPing'
<1> DEFINE i == d.sequence % EntryBuffer
           side == d.to
<1>1. /\ EndpointTypeOK /\ NumbersComeRound /\ d \in Datagram /\ OfItsEntry(d) /\ net \subseteq Datagram
      /\ entries \in [Sides -> [Slots -> Entry]] /\ now \in 0 .. MaxTime
      /\ sample \in [Sides -> [measured : Int, elapsed : Int]]
  BY DEF RingInv, EndpointTypeOK
<1>2. side \in Sides /\ i \in Slots /\ side = d.origin /\ d.left \in Nat /\ hrtime(side) \in Int
  BY <1>1, SlotType, EndpointAssumption DEF Datagram, OfItsEntry, hrtime
<1>3. entries[side][i].time = d.left
  BY <1>1, <1>2 DEF OfItsEntry
<1>4. /\ entries' = [entries EXCEPT ![side][i].valid = FALSE]
      /\ sample' = [sample EXCEPT ![side] = [measured |-> hrtime(side) - entries[side][i].time,
                                             elapsed |-> hrtime(side) - d.left]]
  BY DEF SubmitEntry
<1> HIDE DEF i, side
<1>5. entries' \in [Sides -> [Slots -> Entry]] /\ sample' \in [Sides -> [measured : Int, elapsed : Int]]
  <2>1. [entries[side][i] EXCEPT !.valid = FALSE] \in Entry
    <3>1. entries[side][i] \in Entry
      BY <1>1, <1>2
    <3> QED BY <3>1 DEF Entry
  <2>2. entries' = [entries EXCEPT ![side] = [entries[side] EXCEPT ![i] = [entries[side][i] EXCEPT !.valid = FALSE]]]
    BY <1>4
  <2>3. entries' \in [Sides -> [Slots -> Entry]]
    BY <1>1, <1>2, <2>1, <2>2
  <2>4. sample' \in [Sides -> [measured : Int, elapsed : Int]]
    BY <1>1, <1>2, <1>3, <1>4
  <2> QED BY <2>3, <2>4
<1>6. SampleOfItsPing'
  <2>1. sample'[side].measured = sample'[side].elapsed
    BY <1>1, <1>2, <1>3, <1>4
  <2>2. \A s \in Sides \ {side} : sample'[s] = sample[s]
    BY <1>1, <1>4
  <2> QED BY <2>1, <2>2 DEF SampleOfItsPing
<1>7. EndpointTypeOK'
  BY <1>1, <1>5 DEF EndpointTypeOK
<1>8. NumbersComeRound'
  BY <1>1 DEF NumbersComeRound
<1>9. ASSUME NEW e \in net' PROVE OfItsEntry(e)'
  <2>1. e \in net /\ OfItsEntry(e) /\ e.origin \in Sides /\ e.sequence % EntryBuffer \in Slots
    BY <1>1, SlotType DEF RingInv, Datagram
  <2>2. \A s \in Sides, j \in Slots : /\ entries'[s][j].time = entries[s][j].time
                                      /\ entries'[s][j].sequence = entries[s][j].sequence
                                      /\ entries'[s][j].valid => entries[s][j].valid
    BY <1>1, <1>2, <1>4 DEF Entry
  <2>3. EntryOf(e.origin, e.sequence)' => EntryOf(e.origin, e.sequence)
    BY <2>1, <2>2 DEF EntryOf
  <2>4. OfItsEntry(e) => OfItsEntry(e)'
    BY <2>1, <2>2, <2>3 DEF OfItsEntry
  <2> QED BY <2>1, <2>4
<1> QED BY <1>6, <1>7, <1>8, <1>9 DEF RingInv

(***************************************************************************)
(* The clock.                                                              *)
(***************************************************************************)

\* A time has a number of bytes, and its pong carries a number.
LEMMA TimeIsNumber == ASSUME NEW time \in 0 .. MaxTime + Skew PROVE TimeRead(time) \in Nat
<1> DEFINE B == {n \in 1 .. 8 : time < Power(Radix, n)}
<1>1. 8 \in B
  <2>1. Power(Radix, 8) \in Nat
    BY EndpointAssumption, PowerNext
  <2> QED BY <2>1, EndpointAssumption
<1>2. PICK m \in B : \A k \in B : m <= k
  <2>1. B \in SUBSET Nat
    OBVIOUS
  <2> HIDE DEF B
  <2> QED BY <1>1, <2>1, Least
<1>3. BytesOf(time) \in B
  <2>1. BytesOf(time) = Min(B)
    BY DEF BytesOf
  <2> HIDE DEF B
  <2> QED BY <1>2, <2>1 DEF Min
<1>4. BytesOf(time) - 1 \in Nat
  BY <1>3
<1>5. Power(Radix, BytesOf(time) - 1) \in Nat \ {0}
  BY <1>4, EndpointAssumption, PowerNext
<1>6. time \in Nat
  BY EndpointAssumption
<1> HIDE DEF B
<1> QED BY <1>5, <1>6 DEF TimeRead

LEMMA HalfType == ASSUME NEW n \in Int PROVE HalfOf(n) \in Int
BY DEF HalfOf

\* What is taken over is the offset; what is not is near the clock's.
LEMMA Followed ==
    ASSUME ClockTypeOK, clock.level # "LOW", NEW offset \in Int, NEW limit \in Nat, NEW level, NEW count,
           level \in {"HIGH", "MEDIUM", "LOW"}, Follow(offset, limit, level, count)
    PROVE  ClockTypeOK' /\ clock'.offset - offset <= limit /\ offset - clock'.offset <= limit
<1> DEFINE new == IF Delta(offset, clock.offset) > limit THEN offset ELSE clock.offset
<1>1. clock' = [offset |-> new, level |-> level, high_sync_count |-> count]
  BY DEF Follow
<1>2. clock.offset \in Int
  BY DEF ClockTypeOK
<1>3. new \in Int /\ new - offset <= limit /\ offset - new <= limit
  BY <1>2 DEF Delta
<1> HIDE DEF new
<1> QED BY <1>1, <1>3 DEF ClockTypeOK

LEMMA SyncKeepsClock ==
    ASSUME ClockTypeOK, NEW t0 \in Int, NEW t1 \in Int, NEW t3 \in Int, ClockSync(t0, t1, t3)
    PROVE  ClockTypeOK' /\ ClockFollows'
<1> DEFINE offset == HalfOf((t1 - t0) + (t1 - t3))
<1>1. offset \in Int /\ HighDelta \in Nat /\ MediumDelta \in Nat
  BY HalfType, EndpointAssumption
<1>2. PICK rtt \in {"below", "between", "above"}, steady \in BOOLEAN :
         /\ SyncHigh(offset, rtt, steady) \/ SyncMedium(offset, rtt, steady) \/ SyncLow(offset, rtt, steady)
         /\ synced' = [done |-> rtt = "below", level |-> clock.level, offset |-> offset, round |-> t3 - t0]
  BY DEF ClockSync
<1> HIDE DEF offset
<1>3. synced'.done = (rtt = "below") /\ synced'.level = clock.level /\ synced'.offset = offset
  BY <1>2
<1>4. CASE UNCHANGED clock /\ rtt # "below"
  BY <1>3, <1>4 DEF ClockTypeOK, ClockFollows
<1>5. CASE SyncHigh(offset, rtt, steady) /\ ~ (UNCHANGED clock /\ rtt # "below")
  <2>1. PICK level \in {"HIGH", "MEDIUM"}, count \in {clock.high_sync_count, clock.high_sync_count + 1} :
           Follow(offset, HighDelta, level, count)
    BY <1>5 DEF SyncHigh
  <2>2. clock.level = "HIGH"
    BY <1>5 DEF SyncHigh
  <2>3. ClockTypeOK' /\ clock'.offset - offset <= HighDelta /\ offset - clock'.offset <= HighDelta
    BY <1>1, <2>1, <2>2, Followed
  <2>4. clock'.offset \in Int
    <3>1. clock'.level = level
      BY <2>1 DEF Follow
    <3> QED BY <2>3, <3>1 DEF ClockTypeOK
  <2> QED BY <1>1, <1>3, <2>2, <2>3, <2>4 DEF ClockFollows
<1>6. CASE SyncMedium(offset, rtt, steady) /\ ~ (UNCHANGED clock /\ rtt # "below")
  <2>1. PICK level \in {"MEDIUM", "LOW"} : Follow(offset, MediumDelta, level, clock.high_sync_count)
    BY <1>6 DEF SyncMedium
  <2>2. clock.level = "MEDIUM" /\ clock.offset \in Int
    BY <1>6 DEF SyncMedium, ClockTypeOK
  <2>3. ClockTypeOK' /\ clock'.offset - offset <= MediumDelta /\ offset - clock'.offset <= MediumDelta
    BY <1>1, <2>1, <2>2, Followed
  <2>4. clock'.offset \in Int
    BY <1>1, <2>1, <2>2 DEF Follow
  <2> QED BY <1>1, <1>3, <2>2, <2>3, <2>4 DEF ClockFollows
<1>7. CASE SyncLow(offset, rtt, steady) /\ ~ (UNCHANGED clock /\ rtt # "below")
  <2>1. clock.level = "LOW"
    BY <1>7 DEF SyncLow
  <2>2. clock'.level = "LOW"
    <3>1. CASE UNCHANGED clock
      BY <2>1, <3>1
    <3>2. CASE clock' = [clock EXCEPT !.offset = MeanOffset(recent')]
      BY <2>1, <3>2
    <3> QED BY <1>7, <3>1, <3>2 DEF SyncLow
  <2> QED BY <1>3, <2>1, <2>2 DEF ClockTypeOK, ClockFollows
<1> QED BY <1>2, <1>4, <1>5, <1>6, <1>7

LEMMA PongReceived ==
    ASSUME HeartbeatInv, NEW d \in net, RecvPong(d)
    PROVE  HeartbeatInv'
<1>1. /\ RingInv /\ EndpointTypeOK /\ ClockTypeOK /\ SampleOfItsPing /\ ReadyOnce /\ ClockFollows
      /\ d \in Datagram /\ OfItsEntry(d) /\ now \in 0 .. MaxTime
      /\ entries \in [Sides -> [Slots -> Entry]]
      /\ sample \in [Sides -> [measured : Int, elapsed : Int]]
      /\ ready \in [Sides -> BOOLEAN] /\ announced \in [Sides -> Nat]
  BY DEF HeartbeatInv, HeartbeatMeasures, RingInv, EndpointTypeOK
<1>2. d.kind = "PONG" /\ net' = net \ {d} /\ net' \subseteq net /\ UNCHANGED <<now, entry_sequence, pings>>
  BY DEF RecvPong
<1>3. d.to \in Sides /\ d.sequence % EntryBuffer \in Slots
  BY <1>1, SlotType DEF Datagram
<1>4. CASE d.time_sync /\ EntryOf(d.to, d.sequence)
  <2>1. SubmitEntry(d.to, d) /\ CheckReady(d.to)
    BY <1>4 DEF RecvPong
  <2>2. ready' \in [Sides -> BOOLEAN] /\ announced' \in [Sides -> Nat] /\ ReadyOnce'
    BY <1>1, <1>3, <2>1, ReadyType
  <2>3. RingInv' /\ SampleOfItsPing'
    BY <1>1, <1>2, <1>4, <2>1, <2>2, PongMeasured
  <2>4. ClockTypeOK' /\ ClockFollows'
    <3>1. CASE TimeSync(d.to)
      <4>1. ClockSync(entries[d.to][d.sequence % EntryBuffer].time, TimeRead(d.time), hrtime(d.to))
        BY <1>4, <3>1 DEF RecvPong
      <4>2. entries[d.to][d.sequence % EntryBuffer].time \in Int
        BY <1>1, <1>3 DEF Entry
      <4>3. TimeRead(d.time) \in Int /\ hrtime(d.to) \in Int
        BY <1>1, TimeIsNumber, EndpointAssumption DEF Datagram, hrtime
      <4> QED BY <1>1, <4>1, <4>2, <4>3, SyncKeepsClock
    <3>2. CASE ~ TimeSync(d.to)
      <4>1. UNCHANGED <<clock, recent, synced>>
        BY <1>4, <3>2 DEF RecvPong, clockVars
      <4> QED BY <1>1, <4>1 DEF ClockTypeOK, ClockFollows
    <3> QED BY <3>1, <3>2
  <2> QED BY <2>2, <2>3, <2>4 DEF HeartbeatInv, HeartbeatMeasures
<1>5. CASE ~ (d.time_sync /\ EntryOf(d.to, d.sequence))
  <2>1. UNCHANGED <<entries, sample, clock, recent, synced>>
    BY <1>5 DEF RecvPong, clockVars
  <2>2. CheckReady(d.to) \/ UNCHANGED <<ready, announced>>
    BY <1>5 DEF RecvPong
  <2>3. ready' \in [Sides -> BOOLEAN] /\ announced' \in [Sides -> Nat] /\ ReadyOnce'
    <3>1. CASE CheckReady(d.to)
      BY <1>1, <1>3, <3>1, ReadyType
    <3>2. CASE UNCHANGED <<ready, announced>>
      BY <1>1, <3>2 DEF ReadyOnce
    <3> QED BY <2>2, <3>1, <3>2
  <2>4. RingInv'
    BY <1>1, <1>2, <2>1, <2>3, FewerDatagrams
  <2>5. ClockTypeOK' /\ SampleOfItsPing' /\ ClockFollows'
    BY <1>1, <2>1 DEF ClockTypeOK, SampleOfItsPing, ClockFollows
  <2> QED BY <2>3, <2>4, <2>5 DEF HeartbeatInv, HeartbeatMeasures
<1> QED BY <1>4, <1>5

LEMMA ClockSame ==
    ASSUME HeartbeatInv, UNCHANGED <<clock, recent, synced, sample>>, RingInv', ReadyOnce'
    PROVE  HeartbeatInv'
BY DEF HeartbeatInv, HeartbeatMeasures, ClockTypeOK, SampleOfItsPing, ClockFollows

LEMMA EndpointStep == HeartbeatInv /\ [EndpointNext]_exchangeVars => HeartbeatInv'
<1> SUFFICES ASSUME HeartbeatInv, [EndpointNext]_exchangeVars PROVE HeartbeatInv'
  OBVIOUS
<1>1. /\ RingInv /\ ReadyOnce /\ EndpointTypeOK /\ now \in 0 .. MaxTime
      /\ sample \in [Sides -> [measured : Int, elapsed : Int]]
      /\ ready \in [Sides -> BOOLEAN] /\ announced \in [Sides -> Nat] /\ net \subseteq Datagram
  BY DEF HeartbeatInv, HeartbeatMeasures, RingInv, EndpointTypeOK
<1>2. ASSUME NEW side \in Sides, SendPing(side) PROVE HeartbeatInv'
  <2>1. UNCHANGED <<clock, recent, synced, sample, ready, announced>>
    BY <1>2 DEF SendPing, clockVars
  <2>2. RingInv' /\ ReadyOnce'
    BY <1>1, <1>2, <2>1, PingKeepsRing DEF ReadyOnce
  <2> QED BY <2>1, <2>2, ClockSame
<1>3. ASSUME NEW d \in net, RecvPing(d) PROVE HeartbeatInv'
  <2>1. UNCHANGED <<clock, recent, synced, sample>>
    BY <1>3 DEF RecvPing, clockVars, rttVars
  <2> QED BY <1>3, <2>1, PingReceived, ClockSame
<1>4. ASSUME NEW d \in net, RecvPong(d) PROVE HeartbeatInv'
  BY <1>4, PongReceived
<1>5. CASE Lose
  <2>1. net' \subseteq net /\ UNCHANGED <<now, entries, entry_sequence, pings, sample, ready, announced, clock, recent, synced>>
    BY <1>5 DEF Lose, clockVars, rttVars
  <2>2. RingInv' /\ ReadyOnce'
    BY <1>1, <2>1, FewerDatagrams DEF ReadyOnce
  <2> QED BY <2>1, <2>2, ClockSame
<1>6. CASE Elapse
  <2>1. /\ UNCHANGED <<net, entries, entry_sequence, pings, sample, ready, announced, clock, recent, synced>>
        /\ now' \in 0 .. MaxTime
    BY <1>1, <1>6, EndpointAssumption DEF Elapse, clockVars, rttVars
  <2>2. EndpointTypeOK' /\ NumbersComeRound' /\ \A d \in net' : OfItsEntry(d)'
    BY <1>1, <2>1 DEF RingInv, EndpointTypeOK, NumbersComeRound, OfItsEntry, EntryOf
  <2>3. RingInv' /\ ReadyOnce'
    BY <1>1, <2>1, <2>2 DEF RingInv, ReadyOnce
  <2> QED BY <2>1, <2>3, ClockSame
<1>7. CASE UNCHANGED exchangeVars
  <2>1. UNCHANGED <<now, net, entries, entry_sequence, pings, sample, ready, announced, clock, recent, synced>>
    BY <1>7 DEF exchangeVars, clockVars, rttVars
  <2>2. RingInv' /\ ReadyOnce'
    BY <1>1, <2>1, FewerDatagrams DEF ReadyOnce
  <2> QED BY <2>1, <2>2, ClockSame
<1> QED BY <1>2, <1>3, <1>4, <1>5, <1>6, <1>7 DEF EndpointNext

\* The invariant of the pings and pongs: the number of a ping that is under way, while its
\* entry waits, is the number of that entry, however often the numbers came round.
THEOREM PingsAndEntriesMatch == EndpointSpec => []HeartbeatInv
<1>1. EndpointInit => HeartbeatInv
  BY RingStart
<1>2. HeartbeatInv /\ [EndpointNext]_exchangeVars => HeartbeatInv'
  BY EndpointStep
<1> QED BY <1>1, <1>2, PTL DEF EndpointSpec

\* What the heartbeat measures (pomelo_delivery_endpoint_recv_pong): a round trip is
\* that of its own ping although the network loses and reorders and the ring and its
\* numbers come round, a clock follows the offsets as its level says, and an endpoint
\* becomes ready once; for every size of the ring and every number of numbers, as long
\* as nothing lives longer in the network than the numbers tell apart.
THEOREM HeartbeatIsRight == EndpointSpec => []HeartbeatMeasures
<1>1. HeartbeatInv => HeartbeatMeasures
  BY DEF HeartbeatInv
<1> QED BY <1>1, PingsAndEntriesMatch, PTL

-------------------------------------------------------------------------------
(***************************************************************************)
(* Messages: what an item's bytes are, and that they read as the item.     *)
(***************************************************************************)

Byte == 0 .. ByteValues - 1
\* What is put: items, and what was written of one when the buffers ran out.
Put == Items \union [kind : {"buffer"}, width : Nat, value : Seq(Byte)]

LEMMA PutFits == ASSUME NEW item \in Put PROVE Fits(item)
BY ItemsAssumption DEF Put, Fits, Byte

LEMMA BytesType ==
    ASSUME NEW item \in Put
    PROVE  /\ Bytes(item) \in Seq(Byte)
           /\ item.kind # "buffer" => /\ item.width \in Nat /\ item.value \in Int
                                      /\ Len(Bytes(item)) = item.width
                                      /\ \A i \in 1 .. item.width :
                                            Bytes(item)[i] = (item.value \div Power(ByteValues, i - 1)) % ByteValues
<1>1. Fits(item)
  BY PutFits
<1>2. CASE item.kind = "buffer"
  BY <1>1, <1>2 DEF Fits, Bytes, Byte
<1>3. CASE item.kind # "buffer"
  <2>1. item.width \in Nat /\ item.value \in Int
    <3>1. item.width \in Nat => Power(ByteValues, item.width) \in Nat
      BY MessageAssumption, PowerNext
    <3> QED BY <1>1, <1>3, <3>1 DEF Fits
  <2>2. ASSUME NEW i \in 1 .. item.width
        PROVE  (item.value \div Power(ByteValues, i - 1)) % ByteValues \in Byte
    <3>1. i - 1 \in Nat /\ ByteValues \in Nat \ {0}
      BY <2>1, MessageAssumption
    <3>2. Power(ByteValues, i - 1) \in Nat \ {0}
      BY <3>1, PowerNext
    <3>3. item.value \div Power(ByteValues, i - 1) \in Int
      BY <2>1, <3>2
    <3> QED BY <3>1, <3>3 DEF Byte
  <2>3. Bytes(item) = [i \in 1 .. item.width |-> (item.value \div Power(ByteValues, i - 1)) % ByteValues]
    BY <1>3 DEF Bytes
  <2>4. Bytes(item) \in [1 .. item.width -> Byte]
    BY <2>2, <2>3
  <2>5. Bytes(item) \in Seq(Byte) /\ Len(Bytes(item)) = item.width
    BY <2>1, <2>4
  <2> QED BY <1>3, <2>1, <2>3, <2>5
<1> QED BY <1>2, <1>3

LEMMA ValueIsCounted ==
    ASSUME NEW bytes \in Seq(Byte)
    PROVE  \E f : /\ ValueOf(bytes) = f[Len(bytes)] /\ f[0] = 0
                  /\ \A i \in 1 .. Len(bytes) : f[i] = f[i - 1] + bytes[i] * Power(ByteValues, i - 1)
<1> DEFINE n == Len(bytes)
           G == [i \in 1 .. n |-> [x \in Int |-> x + bytes[i] * Power(ByteValues, i - 1)]]
<1>1. n \in Nat /\ ByteValues \in Nat \ {0} /\ \A i \in 1 .. n : bytes[i] \in Int
  BY MessageAssumption, ElementOfSeq DEF Byte
<1>2. \A i \in 1 .. n : bytes[i] * Power(ByteValues, i - 1) \in Int
  <2> SUFFICES ASSUME NEW i \in 1 .. n PROVE bytes[i] * Power(ByteValues, i - 1) \in Int
    OBVIOUS
  <2>1. i - 1 \in Nat
    BY <1>1
  <2>2. Power(ByteValues, i - 1) \in Nat
    BY <1>1, <2>1, PowerNext
  <2> QED BY <1>1, <2>2
<1> HIDE DEF n
<1>3. G \in [1 .. n -> [Int -> Int]] /\ \A i \in 1 .. n : \A x \in Int : G[i][x] = x + bytes[i] * Power(ByteValues, i - 1)
  BY <1>1, <1>2
<1> HIDE DEF G
<1>4. PICK f \in [0 .. n -> Int] : f[0] = 0 /\ \A i \in 1 .. n : f[i] = G[i][f[i - 1]]
  <2> DEFINE V == Int
             a == 0
  <2>1. a \in V /\ G \in [1 .. n -> [V -> V]] /\ n \in Nat
    BY <1>1, <1>3
  <2> HIDE DEF V, a
  <2>2. \E f \in [0 .. n -> V] : f[0] = a /\ \A i \in 1 .. n : f[i] = G[i][f[i - 1]]
    BY <2>1, Recursion
  <2> QED BY <2>2 DEF V, a
<1>5. \A i \in 1 .. n : f[i] = f[i - 1] + bytes[i] * Power(ByteValues, i - 1)
  <2> SUFFICES ASSUME NEW i \in 1 .. n PROVE f[i] = f[i - 1] + bytes[i] * Power(ByteValues, i - 1)
    OBVIOUS
  <2>1. i - 1 \in 0 .. n
    BY <1>1
  <2> QED BY <1>3, <1>4, <2>1
<1>6. \A i \in 0 .. n : f[i] = IF i = 0 THEN 0 ELSE f[i - 1] + bytes[i] * Power(ByteValues, i - 1)
  BY <1>4, <1>5
<1>7. f = [i \in 0 .. n |-> IF i = 0 THEN 0 ELSE f[i - 1] + bytes[i] * Power(ByteValues, i - 1)]
  BY <1>4, <1>6
<1>8. \E g : g = [i \in 0 .. n |-> IF i = 0 THEN 0 ELSE g[i - 1] + bytes[i] * Power(ByteValues, i - 1)]
  BY <1>7
<1>9. PICK g : /\ ValueOf(bytes) = g[n]
               /\ g = [i \in 0 .. n |-> IF i = 0 THEN 0 ELSE g[i - 1] + bytes[i] * Power(ByteValues, i - 1)]
  BY <1>8 DEF ValueOf, n
<1>10. g[0] = 0 /\ \A i \in 1 .. n : g[i] = g[i - 1] + bytes[i] * Power(ByteValues, i - 1)
  <2>1. \A i \in 0 .. n : g[i] = IF i = 0 THEN 0 ELSE g[i - 1] + bytes[i] * Power(ByteValues, i - 1)
    BY <1>9
  <2> QED BY <1>1, <2>1
<1> QED BY <1>9, <1>10 DEF n

\* What is read from the bytes of an item is its value, for a signed number too.
LEMMA ValueIsRead ==
    ASSUME NEW item \in Put
    PROVE  Value(item.kind, Bytes(item)) = item.value
<1>1. CASE item.kind = "buffer"
  BY <1>1 DEF Value, Bytes
<1>2. CASE item.kind # "buffer"
  <2> DEFINE w == item.width
             v == item.value
             bytes == Bytes(item)
  <2>1. /\ bytes \in Seq(Byte) /\ w \in Nat /\ v \in Int /\ Len(bytes) = w
        /\ \A i \in 1 .. w : bytes[i] = (v \div Power(ByteValues, i - 1)) % ByteValues
    BY <1>2, BytesType
  <2>2. Fits(item) /\ ByteValues \in Nat \ {0}
    BY PutFits, MessageAssumption
  <2>3. item.kind = "uint" => v \in 0 .. Power(ByteValues, w) - 1
    BY <2>2 DEF Fits
  <2>4. item.kind # "uint" => item.kind = "int" /\ -Power(ByteValues, w) <= 2 * v /\ 2 * v < Power(ByteValues, w)
    BY <1>2, <2>2 DEF Fits
  <2> HIDE DEF w, v, bytes
  <2>5. PICK f : /\ ValueOf(bytes) = f[w] /\ f[0] = 0
                 /\ \A i \in 1 .. w : f[i] = f[i - 1] + bytes[i] * Power(ByteValues, i - 1)
    BY <2>1, ValueIsCounted
  <2> DEFINE g == [i \in 0 .. w |-> v % Power(ByteValues, i)]
  <2>6. \A i \in 0 .. w : g[i] = v % Power(ByteValues, i)
    OBVIOUS
  <2> HIDE DEF g
  <2>7. Follows(g, f, w)
    <3>1. g[0] = 0
      <4>1. Power(ByteValues, 0) = 1
        BY <2>2, PowerNext
      <4>2. v % 1 = 0
        BY <2>1
      <4> QED BY <2>1, <2>6, <4>1, <4>2
    <3>2. ASSUME NEW i \in 1 .. w, f[i - 1] = g[i - 1] PROVE f[i] = g[i]
      <4> DEFINE P == Power(ByteValues, i - 1)
      <4>1. i - 1 \in Nat /\ i - 1 \in 0 .. w /\ (i - 1) + 1 = i
        BY <2>1
      <4>2. P \in Nat \ {0} /\ Power(ByteValues, i) = ByteValues * P
        BY <2>2, <4>1, PowerNext
      <4>3. g[i - 1] = v % P /\ g[i] = v % (ByteValues * P)
        BY <2>1, <2>6, <4>1, <4>2
      <4>4. f[i] = (v % P) + ((v \div P) % ByteValues) * P
        BY <2>1, <2>5, <3>2, <4>3
      <4> HIDE DEF P
      <4> QED BY <2>1, <2>2, <4>2, <4>3, <4>4, Digit
    <3> QED BY <2>5, <3>1, <3>2 DEF Follows
  <2>8. ValueOf(bytes) = v % Power(ByteValues, w)
    BY <2>1, <2>5, <2>6, <2>7, Agreement
  <2> DEFINE all == Power(ByteValues, w)
  <2>9. all \in Nat \ {0}
    BY <2>1, <2>2, PowerNext
  <2>10. v \in 0 .. all - 1 => v % all = v
    <3> HIDE DEF all
    <3>1. v \in 0 .. all - 1 => (all * 0 + v) % all = v
      BY <2>9, Division
    <3> QED BY <2>1, <2>9, <3>1
  <2>11. v < 0 /\ -all <= v => v % all = v + all
    <3> HIDE DEF all
    <3>1. v < 0 /\ -all <= v => v + all \in 0 .. all - 1
      BY <2>1, <2>9
    <3> DEFINE q == 0 - 1
               r == v + all
    <3>2. q \in Int /\ all * q + r = v
      BY <2>1, <2>9
    <3> HIDE DEF q, r
    <3>3. r \in 0 .. all - 1 => (all * q + r) % all = r
      BY <2>9, <3>2, Division
    <3> QED BY <3>1, <3>2, <3>3 DEF r
  <2>12. CASE item.kind = "uint"
    <3>1. Value("uint", bytes) = v
      BY <2>3, <2>8, <2>10, <2>12 DEF Value
    <3> QED BY <2>12, <3>1 DEF bytes, v
  <2>13. CASE item.kind = "int"
    <3>1. Value("int", bytes) = IF 2 * ValueOf(bytes) < all THEN ValueOf(bytes) ELSE ValueOf(bytes) - all
      <4>1. all = Power(ByteValues, Len(bytes))
        BY <2>1
      <4> HIDE DEF all
      <4> QED BY <4>1 DEF Value
    <3>2. -all <= 2 * v /\ 2 * v < all
      BY <2>4, <2>13
    <3>3. Value("int", bytes) = v
      <4> HIDE DEF all
      <4> QED BY <2>1, <2>8, <2>9, <2>10, <2>11, <3>1, <3>2 DEF all
    <3> QED BY <2>13, <3>3 DEF bytes, v
  <2> QED BY <2>4, <2>12, <2>13
<1> QED BY <1>1, <1>2

AllBytes(items) == [i \in DOMAIN items |-> Bytes(items[i])]

LEMMA AllBytesType ==
    ASSUME NEW items \in Seq(Put)
    PROVE  /\ AllBytes(items) \in Seq(Seq(Byte)) /\ Len(AllBytes(items)) = Len(items)
           /\ \A i \in 1 .. Len(items) : AllBytes(items)[i] = Bytes(items[i])
           /\ Encoded(items) = FlattenSeq(AllBytes(items)) /\ Encoded(items) \in Seq(Byte)
<1>1. \A i \in 1 .. Len(items) : Bytes(items[i]) \in Seq(Byte)
  BY ElementOfSeq, BytesType
<1>2. AllBytes(items) = [i \in 1 .. Len(items) |-> Bytes(items[i])]
  BY DEF AllBytes
<1>3. AllBytes(items) \in [1 .. Len(items) -> Seq(Byte)]
  BY <1>1, <1>2
<1>4. AllBytes(items) \in Seq(Seq(Byte)) /\ Len(AllBytes(items)) = Len(items)
  BY <1>3
<1>5. Encoded(items) = FlattenSeq(AllBytes(items))
  BY DEF Encoded, AllBytes
<1>6. Encoded(items) \in Seq(Byte)
  <2> DEFINE a == AllBytes(items)
  <2>1. a \in Seq(Seq(Byte)) /\ <<>> \in Seq(Byte)
    BY <1>4, EmptySeq
  <2> HIDE DEF a
  <2>2. FlattenSeq(a) \in Seq(Byte)
    BY <2>1, FlattenAppend
  <2> QED BY <1>5, <2>2 DEF a
<1> QED BY <1>2, <1>4, <1>5, <1>6

LEMMA EncodedConcat ==
    ASSUME NEW s \in Seq(Put), NEW t \in Seq(Put)
    PROVE  Encoded(s \o t) = Encoded(s) \o Encoded(t)
<1> DEFINE a == AllBytes(s)
           b == AllBytes(t)
           c == AllBytes(s \o t)
<1>1. s \o t \in Seq(Put) /\ Len(s \o t) = Len(s) + Len(t) /\ Len(s) \in Nat /\ Len(t) \in Nat
  OBVIOUS
<1>2. /\ a \in Seq(Seq(Byte)) /\ Len(a) = Len(s) /\ \A i \in 1 .. Len(s) : a[i] = Bytes(s[i])
      /\ b \in Seq(Seq(Byte)) /\ Len(b) = Len(t) /\ \A i \in 1 .. Len(t) : b[i] = Bytes(t[i])
  BY AllBytesType
<1>3. c \in Seq(Seq(Byte)) /\ Len(c) = Len(s) + Len(t) /\ \A i \in 1 .. Len(s) + Len(t) : c[i] = Bytes((s \o t)[i])
  BY <1>1, AllBytesType
<1>4. Encoded(s) = FlattenSeq(a) /\ Encoded(t) = FlattenSeq(b) /\ Encoded(s \o t) = FlattenSeq(c)
  BY <1>1, AllBytesType
<1> HIDE DEF a, b, c
<1>5. c = a \o b
  <2> DEFINE V == Seq(Byte)
             d == a \o b
  <2>0. a \in Seq(V) /\ b \in Seq(V) /\ Len(a) = Len(s) /\ Len(b) = Len(t)
    BY <1>2
  <2>1. d \in Seq(V) /\ Len(d) = Len(s) + Len(t)
        /\ \A i \in 1 .. Len(s) + Len(t) : d[i] = IF i <= Len(s) THEN a[i] ELSE b[i - Len(s)]
    <3> HIDE DEF V
    <3>1. d \in Seq(V) /\ Len(d) = Len(a) + Len(b)
          /\ \A i \in 1 .. Len(a) + Len(b) : d[i] = IF i <= Len(a) THEN a[i] ELSE b[i - Len(a)]
      BY <2>0, ConcatProperties
    <3> HIDE DEF d
    <3> QED BY <2>0, <3>1
  <2> HIDE DEF V, d
  <2>2. \A i \in 1 .. Len(c) : c[i] = d[i]
    <3> SUFFICES ASSUME NEW i \in 1 .. Len(s) + Len(t) PROVE c[i] = d[i]
      BY <1>3
    <3>0. c[i] = Bytes((s \o t)[i])
      BY <1>3
    <3>1. CASE i <= Len(s)
      <4>1. i \in 1 .. Len(s) /\ (s \o t)[i] = s[i]
        BY <1>1, <3>1
      <4> QED BY <1>2, <2>1, <3>0, <3>1, <4>1
    <3>2. CASE i > Len(s)
      <4>1. i - Len(s) \in 1 .. Len(t) /\ (s \o t)[i] = t[i - Len(s)]
        BY <1>1, <3>2
      <4>2. d[i] = b[i - Len(s)]
        BY <1>1, <2>1, <3>2
      <4> QED BY <1>2, <3>0, <4>1, <4>2
    <3> QED BY <1>1, <3>1, <3>2
  <2>3. c \in Seq(V)
    BY <1>3 DEF V
  <2>4. d \in Seq(V) /\ Len(c) = Len(d)
    BY <1>3, <2>1
  <2>5. c = d
    BY <2>2, <2>3, <2>4, SeqEqual
  <2> QED BY <2>5 DEF d
<1>6. FlattenSeq(a \o b) = FlattenSeq(a) \o FlattenSeq(b)
  BY <1>2, FlattenConcat
<1> QED BY <1>4, <1>5, <1>6

LEMMA EncodedOne ==
    ASSUME NEW item \in Put
    PROVE  Encoded(<<>>) = <<>> /\ Encoded(<<item>>) = Bytes(item)
<1>1. AllBytes(<<>>) = <<>> /\ AllBytes(<<item>>) = <<Bytes(item)>>
  BY DEF AllBytes
<1>2. Encoded(<<>>) = FlattenSeq(AllBytes(<<>>)) /\ Encoded(<<item>>) = FlattenSeq(AllBytes(<<item>>))
  BY DEF Encoded, AllBytes
<1>3. Bytes(item) \in Seq(Byte)
  BY BytesType
<1>4. FlattenSeq(<<>>) = <<>> /\ FlattenSeq(<<Bytes(item)>>) = Bytes(item)
  BY <1>3, FlattenOne
<1> QED BY <1>1, <1>2, <1>4

\* The items from one on are that item and the ones after it.
LEMMA EncodedCut ==
    ASSUME NEW items \in Seq(Put), NEW n \in 0 .. Len(items)
    PROVE  /\ SubSeq(items, 1, n) \in Seq(Put) /\ SubSeq(items, n + 1, Len(items)) \in Seq(Put)
           /\ Encoded(items) = Encoded(SubSeq(items, 1, n)) \o Encoded(SubSeq(items, n + 1, Len(items)))
           /\ n < Len(items) => /\ items[n + 1] \in Put
                                /\ SubSeq(items, n + 2, Len(items)) \in Seq(Put)
                                /\ Encoded(SubSeq(items, n + 1, Len(items))) =
                                      Bytes(items[n + 1]) \o Encoded(SubSeq(items, n + 2, Len(items)))
<1>1. Len(items) \in Nat
  OBVIOUS
<1>2. SubSeq(items, 1, n) \in Seq(Put) /\ SubSeq(items, n + 1, Len(items)) \in Seq(Put)
  BY <1>1
<1>3. SubSeq(items, 1, n) \o SubSeq(items, n + 1, Len(items)) = items
  BY <1>1, CutInTwo
<1>4. Encoded(items) = Encoded(SubSeq(items, 1, n)) \o Encoded(SubSeq(items, n + 1, Len(items)))
  <2> DEFINE a == SubSeq(items, 1, n)
             b == SubSeq(items, n + 1, Len(items))
  <2> HIDE DEF a, b
  <2>1. a \in Seq(Put) /\ b \in Seq(Put) /\ a \o b = items
    BY <1>2, <1>3 DEF a, b
  <2>2. Encoded(a \o b) = Encoded(a) \o Encoded(b)
    BY <2>1, EncodedConcat
  <2> QED BY <2>1, <2>2 DEF a, b
<1>5. ASSUME n < Len(items)
      PROVE  /\ items[n + 1] \in Put /\ SubSeq(items, n + 2, Len(items)) \in Seq(Put)
             /\ Encoded(SubSeq(items, n + 1, Len(items))) =
                   Bytes(items[n + 1]) \o Encoded(SubSeq(items, n + 2, Len(items)))
  <2> DEFINE x == items[n + 1]
             b == SubSeq(items, n + 2, Len(items))
  <2>1. x \in Put /\ b \in Seq(Put)
    BY <1>1, <1>5
  <2>2. SubSeq(items, n + 1, Len(items)) = <<x>> \o b
    <3>1. n + 1 \in 1 .. Len(items) /\ Len(items) \in n + 1 .. Len(items) /\ (n + 1) + 1 = n + 2
      BY <1>1, <1>5
    <3> QED BY <3>1, SubSeqRecursiveFirst
  <2> HIDE DEF x, b
  <2>3. <<x>> \in Seq(Put)
    BY <2>1
  <2>4. Encoded(<<x>> \o b) = Encoded(<<x>>) \o Encoded(b) /\ Encoded(<<x>>) = Bytes(x)
    BY <2>1, <2>3, EncodedConcat, EncodedOne
  <2> QED BY <2>1, <2>2, <2>4 DEF x, b
<1> QED BY <1>2, <1>4, <1>5

(***************************************************************************)
(* Messages: the invariant.                                                *)
(***************************************************************************)

\* Every chunk holds something, and only the last may have room.
Packed(c) ==
    /\ c \in Seq(Seq(Byte))
    /\ \A i \in 1 .. Len(c) : Len(c[i]) \in 1 .. ChunkCapacity /\ (i < Len(c) => Len(c[i]) = ChunkCapacity)

\* The chunks hold these items, and are as many and as large as they may be.
Holds(c, items) ==
    /\ Packed(c) /\ Len(c) <= max_fragments /\ Total(c) <= message_capacity
    /\ items \in Seq(Put) /\ FlattenSeq(c) = Encoded(items)

\* What a reader has before it, and what it finds up to the end of the i-th chunk.
Upto(r, i) == r.rest \o FlattenSeq(SubSeq(r.chunks, r.index + 1, i))
Remaining(r) == Upto(r, Len(r.chunks))
\* The bytes of the items after the first n.
Unread(items, n) == Encoded(SubSeq(items, n + 1, Len(items)))

\* So many values were read, and what the reader has left are the other items.
Reads(r, items, values) ==
    /\ Len(values) <= Len(items) /\ \A i \in 1 .. Len(values) : values[i] = items[i].value
    /\ r.index <= Len(r.chunks)
    /\ Remaining(r) = Unread(items, Len(values))
    /\ r.remain = Len(Unread(items, Len(values)))

Sums == {Checksum(bytes) : bytes \in Seq(Byte)}
\* The fragments were cut from these chunks, with this checksum.
CutFrom(f, c, x) ==
    /\ Holds(c, f.put) /\ f.fragments = Fragments(c, x)
    /\ Len(c) >= 2 => x \in Sums /\ (~ f.touched => x = Checksum(FlattenSeq(c)))

MessageRecord == [refs : Nat, mode : {"UNSET", "WRITE", "READ"}, busy : BOOLEAN, chunks : Seq(Seq(Byte)),
                  written : Int, index : Nat, rest : Seq(Byte), remain : Int]
SendRecord == [message : Messages \union {"none"}, stage : {"idle", "summing", "summed", "sent"},
               checksum : Sums \union {<<>>}]

MessagesTypeOK ==
    /\ message \in [Messages -> MessageRecord]
    /\ held \in [Messages -> Nat] /\ astray \in [Messages -> Nat]
    /\ put \in [Messages -> Seq(Put)] /\ got \in [Messages -> Seq(Int \union Seq(Byte))]
    /\ sender \in [Sends -> SendRecord] /\ touched \in [Sends -> BOOLEAN]
    /\ DOMAIN flight = Sends

\* What the parts of a message say of each other, and of what was put and got.
ContentOK(r, items, values) ==
    /\ r.refs > 0 => r.mode # "UNSET" /\ Holds(r.chunks, items)
    /\ r.mode = "WRITE" => r.written = Total(r.chunks)
    /\ r.mode = "READ" => Reads(r, items, values)
ContentInv == \A m \in Messages : ContentOK(message[m], put[m], got[m])

\* KeptWhileSent of a message that the application holds h times, and a times went
\* astray, and that these sends are sending.
Counts(r, h, a, sends) ==
    /\ r.refs = h + a + Cardinality(sends)
    /\ r.refs = 0 => r.mode = "UNSET" /\ ~ r.busy
    /\ r.busy => sends # {} \/ a > 0

\* What a send knows of the chunks of its message, unless they were touched.
SendOK(send, disturbed, chunks) ==
    /\ send.stage = "summed" => send.checksum \in Sums
    /\ send.stage \in {"summing", "summed"} /\ ~ disturbed =>
          Len(chunks) >= 2 /\ (send.stage = "summed" => send.checksum = Checksum(FlattenSeq(chunks)))
SendInv ==
    \A s \in Sends : sender[s].stage # "idle" =>
        sender[s].message \in Messages /\ SendOK(sender[s], touched[s], message[sender[s].message].chunks)

FlightInv == \A s \in Sends : flight[s].under_way => \E c, x : CutFrom(flight[s], c, x)

MessagesInv == MessagesTypeOK /\ KeptWhileSent /\ ContentInv /\ SendInv /\ FlightInv

-------------------------------------------------------------------------------
(***************************************************************************)
(* Messages: reading.                                                      *)
(***************************************************************************)

\* What is before the end of a chunk, and what is after it.
LEMMA UptoCut ==
    ASSUME NEW r, r \in MessageRecord, r.index <= Len(r.chunks), NEW i \in r.index .. Len(r.chunks)
    PROVE  /\ Upto(r, i) \in Seq(Byte) /\ FlattenSeq(SubSeq(r.chunks, i + 1, Len(r.chunks))) \in Seq(Byte)
           /\ Remaining(r) = Upto(r, i) \o FlattenSeq(SubSeq(r.chunks, i + 1, Len(r.chunks)))
<1> DEFINE s == r.chunks
           j == r.index
           f == FlattenSeq(SubSeq(s, j + 1, i))
           g == FlattenSeq(SubSeq(s, i + 1, Len(s)))
           h == r.rest
<1>1. s \in Seq(Seq(Byte)) /\ j \in Nat /\ h \in Seq(Byte)
  BY DEF MessageRecord
<1>2. j \in 0 .. Len(s) /\ i \in j .. Len(s)
  BY <1>1
<1>3. f \in Seq(Byte) /\ g \in Seq(Byte) /\ FlattenSeq(SubSeq(s, j + 1, Len(s))) = f \o g
  <2> HIDE DEF s, j
  <2> QED BY <1>1, <1>2, FlattenCut
<1>4. Upto(r, i) = h \o f /\ Remaining(r) = h \o FlattenSeq(SubSeq(s, j + 1, Len(s)))
  BY DEF Upto, Remaining
<1> HIDE DEF s, j, f, g, h
<1>5. Regroups(h, f, g) /\ h \o f \in Seq(Byte)
  BY <1>1, <1>3, Regrouping, ConcatProperties
<1>6. Remaining(r) = Upto(r, i) \o g
  BY <1>3, <1>4, <1>5, Zenon DEF Regroups
<1>7. Upto(r, i) \in Seq(Byte)
  BY <1>4, <1>5
<1> QED BY <1>3, <1>6, <1>7 DEF g, s

\* A read that finds its bytes gives the next value, and leaves the items after it.
LEMMA ReadGives ==
    ASSUME NEW m \in Messages, message[m] \in MessageRecord,
           NEW items \in Seq(Put), NEW values \in Seq(Int \union Seq(Byte)),
           Reads(message[m], items, values), Len(values) < Len(items),
           NEW item, item = items[Len(values) + 1],
           NEW read, read = ReaderRead(m, Len(Bytes(item))), read.ok
    PROVE  /\ read.reader \in MessageRecord
           /\ \A field \in {"refs", "mode", "busy", "chunks", "written"} : read.reader[field] = message[m][field]
           /\ Append(values, Value(item.kind, read.bytes)) \in Seq(Int \union Seq(Byte))
           /\ Reads(read.reader, items, Append(values, Value(item.kind, read.bytes)))
<1> DEFINE r == message[m]
           n == Len(values)
           a == Bytes(item)
           b == Unread(items, n + 1)
           enough == {i \in r.index .. Len(r.chunks) : Len(Upto(r, i)) >= Len(a)}
           last == IF enough = {} THEN Len(r.chunks) ELSE Min(enough)
           stream == Upto(r, last)
           left == SubSeq(stream, Len(a) + 1, Len(stream))
           tail == FlattenSeq(SubSeq(r.chunks, last + 1, Len(r.chunks)))
           more == Append(values, Value(item.kind, read.bytes))
<1>1. n \in Nat /\ Len(items) \in Nat /\ n \in 0 .. Len(items)
  OBVIOUS
<1>2. item \in Put /\ b \in Seq(Byte) /\ a \in Seq(Byte) /\ Unread(items, n) = a \o b
  <2>1. /\ item \in Put /\ SubSeq(items, n + 2, Len(items)) \in Seq(Put)
        /\ Encoded(SubSeq(items, n + 1, Len(items))) = Bytes(item) \o Encoded(SubSeq(items, n + 2, Len(items)))
    BY <1>1, EncodedCut
  <2>2. (n + 1) + 1 = n + 2
    BY <1>1
  <2>3. Unread(items, n) = a \o b /\ b = Encoded(SubSeq(items, n + 2, Len(items)))
    BY <2>1, <2>2 DEF Unread
  <2>4. a \in Seq(Byte)
    BY <2>1, BytesType
  <2>5. b \in Seq(Byte)
    BY <2>1, <2>3, AllBytesType
  <2> QED BY <2>1, <2>3, <2>4, <2>5
<1>3. r \in MessageRecord /\ r.index \in Nat /\ r.chunks \in Seq(Seq(Byte)) /\ r.remain \in Int /\ Len(r.chunks) \in Nat
  BY SMTT(20) DEF MessageRecord
<1>4. /\ r.index <= Len(r.chunks) /\ Remaining(r) = a \o b /\ r.remain = Len(a \o b)
      /\ \A i \in 1 .. n : values[i] = items[i].value
  BY <1>2 DEF Reads
<1>5. /\ read.ok => enough # {}
      /\ read.bytes = SubSeq(stream, 1, Len(a))
      /\ read.reader = [r EXCEPT !.index = last, !.rest = left, !.remain = @ - Len(a)]
  BY DEF ReaderRead, Upto
<1> HIDE DEF r, a, b
<1>6. last \in enough
  <2>1. enough \in SUBSET Nat
    BY <1>3
  <2>2. enough # {}
    BY <1>5
  <2> HIDE DEF enough
  <2>3. \E x \in enough : \A y \in enough : x <= y
    BY <2>1, <2>2, Least
  <2>4. last = CHOOSE x \in enough : \A y \in enough : x <= y
    BY <2>2 DEF Min
  <2> QED BY <2>3, <2>4
<1> HIDE DEF last, stream, left, tail, more
<1>7. last \in r.index .. Len(r.chunks) /\ Len(stream) >= Len(a) /\ last \in Nat
  <2>1. last \in r.index .. Len(r.chunks) /\ Len(Upto(r, last)) >= Len(a)
    BY <1>6
  <2> QED BY <1>3, <2>1 DEF stream
<1> HIDE DEF enough
<1>8. stream \in Seq(Byte) /\ tail \in Seq(Byte) /\ stream \o tail = a \o b
  BY <1>3, <1>4, <1>7, UptoCut DEF stream, tail
<1>9. SubSeq(stream, 1, Len(a)) = a /\ left \in Seq(Byte) /\ left \o tail = b
  <2>1. a \in Seq(Byte) /\ b \in Seq(Byte) /\ Len(stream) >= Len(a)
    BY <1>2, <1>7
  <2>2. TakesFront(stream, tail, a, b) /\ SubSeq(stream, Len(a) + 1, Len(stream)) \in Seq(Byte)
    BY <1>8, <2>1, TakeFront
  <2> QED BY <1>8, <2>1, <2>2 DEF left, TakesFront
<1>10. Value(item.kind, read.bytes) = item.value /\ item.value \in Int \union Seq(Byte)
  <2>1. read.bytes = Bytes(item)
    BY <1>5, <1>9 DEF a
  <2>2. Value(item.kind, Bytes(item)) = item.value
    BY <1>2, ValueIsRead
  <2>3. item.kind # "buffer" => item.value \in Int
    BY <1>2, BytesType
  <2>4. item.kind = "buffer" => item.value \in Seq(Byte)
    BY <1>2 DEF a, Bytes
  <2> QED BY <2>1, <2>2, <2>3, <2>4
<1>11. /\ more \in Seq(Int \union Seq(Byte)) /\ Len(more) = n + 1 /\ (\A i \in 1 .. n : more[i] = values[i])
       /\ more[n + 1] = item.value
  BY <1>10 DEF more
<1>12. /\ read.reader.index = last /\ read.reader.rest = left /\ read.reader.remain = r.remain - Len(a)
       /\ \A field \in {"refs", "mode", "busy", "chunks", "written"} : read.reader[field] = r[field]
       /\ read.reader \in MessageRecord
  <2> DEFINE rd == [r EXCEPT !.index = last, !.rest = left, !.remain = @ - Len(a)]
  <2>1. read.reader = rd
    BY <1>5
  <2>2. Len(a) \in Nat /\ r.remain - Len(a) \in Int
    BY <1>2, <1>3
  <2>3. rd.index = last /\ rd.rest = left /\ rd.remain = r.remain - Len(a)
    BY <1>3 DEF MessageRecord
  <2>4. \A field \in {"refs", "mode", "busy", "chunks", "written"} : rd[field] = r[field]
    BY <1>3 DEF MessageRecord
  <2>5. rd \in MessageRecord
    BY <1>3, <1>7, <1>9, <2>2 DEF MessageRecord
  <2> HIDE DEF rd
  <2> QED BY <2>1, <2>3, <2>4, <2>5
<1>13. Reads(read.reader, items, more)
  <2>1. n + 1 <= Len(items)
    BY <1>1
  <2>2. \A i \in 1 .. n + 1 : more[i] = items[i].value
    <3> SUFFICES ASSUME NEW i \in 1 .. n + 1 PROVE more[i] = items[i].value
      OBVIOUS
    <3>1. CASE i \in 1 .. n
      BY <1>4, <1>11, <3>1
    <3>2. CASE i = n + 1
      BY <1>11, <3>2
    <3> QED BY <1>1, <3>1, <3>2
  <2>3. read.reader.chunks = r.chunks
    BY <1>12
  <2>4. r.remain - Len(a) = Len(b)
    <3>1. Len(a \o b) = Len(a) + Len(b) /\ Len(a) \in Nat /\ Len(b) \in Nat
      BY <1>2
    <3> QED BY <1>4, <3>1
  <2>5. Unread(items, Len(more)) = b
    BY <1>11 DEF b
  <2>6. Remaining(read.reader) = b
    BY <1>9, <1>12, <2>3 DEF Remaining, Upto, tail
  <2>7. read.reader.index <= Len(read.reader.chunks)
    BY <1>3, <1>7, <1>12, <2>3
  <2> QED BY <1>11, <1>12, <2>1, <2>2, <2>4, <2>5, <2>6, <2>7, Zenon DEF Reads
<1> QED BY <1>11, <1>12, <1>13 DEF more, r

-------------------------------------------------------------------------------
(***************************************************************************)
(* Messages: writing.                                                      *)
(***************************************************************************)

\* The new chunks of a write.
NewChunks(more, n) ==
    [i \in 1 .. n |-> SubSeq(more, (i - 1) * ChunkCapacity + 1, Min({i * ChunkCapacity, Len(more)}))]
Rounded(length) == (length + ChunkCapacity - 1) \div ChunkCapacity

LEMMA RoundedUp ==
    ASSUME NEW length \in Nat
    PROVE  /\ Rounded(length) \in Nat /\ (Rounded(length) = 0 <=> length = 0)
           /\ length <= Rounded(length) * ChunkCapacity
           /\ \A n \in 1 .. Rounded(length) : (n - 1) * ChunkCapacity < length
<1> DEFINE C == ChunkCapacity
           q == (length + C - 1) \div C
           r == (length + C - 1) % C
<1>1. C \in Nat \ {0}
  BY MessageAssumption
<1>2. q \in Int /\ r \in 0 .. C - 1 /\ length + C - 1 = C * q + r
  <2> HIDE DEF C
  <2> QED BY <1>1
<1>3. Rounded(length) = q
  BY DEF Rounded
<1> HIDE DEF C, q, r
<1>4. q \in Nat
  <2>1. q < 0 => C * q <= -C
    <3>1. q < 0 => C * q <= C * (0 - 1)
      BY <1>1, <1>2
    <3>2. C * (0 - 1) = -C
      BY <1>1
    <3> QED BY <3>1, <3>2, <1>1, <1>2
  <2>2. C * q \in Int
    BY <1>1, <1>2
  <2> QED BY <1>1, <1>2, <2>1, <2>2
<1>5. C * q = q * C /\ C * q \in Nat
  BY <1>1, <1>4
<1>6. length <= q * C /\ q * C < length + C
  BY <1>1, <1>2, <1>5
<1>7. ASSUME NEW n \in 1 .. q PROVE (n - 1) * C < length
  <2>1. n * C <= q * C
    BY <1>1, <1>4
  <2>2. (n - 1) * C = n * C - C /\ n * C \in Nat
    BY <1>1, <1>4
  <2>3. (n - 1) * C <= q * C - C /\ q * C - C < length
    <3> DEFINE x == n * C
               y == q * C
               z == (n - 1) * C
    <3>1. x <= y /\ z = x - C /\ x \in Nat /\ y \in Nat /\ y < length + C
      BY <1>5, <1>6, <2>1, <2>2
    <3> HIDE DEF x, y, z
    <3>2. z <= y - C /\ y - C < length
      BY <1>1, <3>1
    <3> QED BY <3>2 DEF x, y, z
  <2>4. (n - 1) * C \in Int /\ q * C - C \in Int
    BY <1>1, <1>5, <2>2
  <2> QED BY <2>3, <2>4
<1>8. q = 0 <=> length = 0
  <2>1. q = 0 => q * C = 0
    BY <1>1
  <2>2. q # 0 => 1 \in 1 .. q /\ (1 - 1) * C = 0
    BY <1>1, <1>4
  <2> QED BY <1>6, <1>7, <2>1, <2>2
<1> QED BY <1>3, <1>4, <1>6, <1>7, <1>8 DEF C

LEMMA NewChunksArePacked ==
    ASSUME NEW more \in Seq(Byte), NEW n \in 0 .. Rounded(Len(more))
    PROVE  /\ Packed(NewChunks(more, n)) /\ Len(NewChunks(more, n)) = n
           /\ \E k \in 0 .. Len(more) : /\ FlattenSeq(NewChunks(more, n)) = SubSeq(more, 1, k)
                                        /\ n = Rounded(Len(more)) => k = Len(more)
<1> DEFINE C == ChunkCapacity
           L == Len(more)
           e == [i \in 0 .. n |-> IF i * C <= L THEN i * C ELSE L]
           p == Pieces(more, e, n)
<1>1. C \in Nat \ {0} /\ L \in Nat /\ n \in Nat
  <2>1. Rounded(L) \in Nat
    BY RoundedUp
  <2> QED BY <2>1, MessageAssumption
<1>2. L <= Rounded(L) * C /\ \A i \in 1 .. n : (i - 1) * C < L
  <2>1. L <= Rounded(L) * C /\ Rounded(L) \in Nat /\ \A i \in 1 .. Rounded(L) : (i - 1) * C < L
    BY <1>1, RoundedUp
  <2>2. n <= Rounded(L)
    OBVIOUS
  <2>3. \A i \in 1 .. n : i \in 1 .. Rounded(L)
    BY <1>1, <2>1, <2>2
  <2> HIDE DEF C, L
  <2> QED BY <2>1, <2>3
<1> HIDE DEF C, L
<1>3. ASSUME NEW i \in 0 .. n PROVE i * C \in Nat
  BY <1>1
<1>4. ASSUME NEW i \in 1 .. n
      PROVE  /\ i \in 0 .. n /\ i - 1 \in 0 .. n /\ i * C = (i - 1) * C + C
             /\ (i - 1) * C < L /\ (i - 1) * C \in Nat
             /\ i < n => i * C < L
  <2>1. i - 1 \in Nat /\ (i - 1) * C \in Nat /\ i * C = (i - 1) * C + C
    BY <1>1
  <2>2. i < n => i + 1 \in 1 .. n /\ (i + 1) - 1 = i
    BY <1>1
  <2> QED BY <1>2, <2>1, <2>2, SMTT(20)
<1>5. \A i \in 0 .. n : e[i] = IF i * C <= L THEN i * C ELSE L
  OBVIOUS
<1>6. e \in [0 .. n -> 0 .. L]
  BY <1>1, <1>3
<1> HIDE DEF e
<1>7. ASSUME NEW i \in 1 .. n
      PROVE  /\ e[i - 1] = (i - 1) * C /\ e[i - 1] <= e[i]
             /\ e[i] - e[i - 1] \in 1 .. C /\ (i < n => e[i] - e[i - 1] = C)
             /\ e[i] = Min({i * C, L})
  <2>1. e[i - 1] = (i - 1) * C /\ e[i] = IF i * C <= L THEN i * C ELSE L
    <3> DEFINE j == i - 1
    <3>1. j \in 0 .. n /\ j * C < L /\ j * C \in Nat /\ i \in 0 .. n
      BY <1>4
    <3> HIDE DEF j
    <3>2. e[j] = j * C
      BY <1>1, <1>5, <3>1
    <3> QED BY <1>5, <3>1, <3>2 DEF j
  <2>2. i * C \in Int /\ L \in Int
    BY <1>1, <1>4
  <2>3. e[i] = Min({i * C, L})
    BY <2>1, <2>2, MinOfTwo
  <2> QED BY <1>1, <1>4, <2>1, <2>3
<1>8. Ends(e, n, Len(more))
  <2>1. e[0] = 0
    <3>1. 0 * C = 0 /\ 0 \in 0 .. n
      BY <1>1
    <3> QED BY <1>1, <1>5, <3>1
  <2> QED BY <1>6, <1>7, <2>1 DEF Ends, L
<1>9. NewChunks(more, n) = p
  <2>1. \A i \in 1 .. n : SubSeq(more, (i - 1) * C + 1, Min({i * C, L})) = SubSeq(more, e[i - 1] + 1, e[i])
    BY <1>7
  <2>2. p = [i \in 1 .. n |-> SubSeq(more, e[i - 1] + 1, e[i])]
    BY DEF Pieces
  <2>3. NewChunks(more, n) = [i \in 1 .. n |-> SubSeq(more, (i - 1) * C + 1, Min({i * C, L}))]
    BY DEF NewChunks, C, L
  <2> QED BY <2>1, <2>2, <2>3
<1>10. /\ p \in Seq(Seq(Byte)) /\ Len(p) = n /\ FlattenSeq(p) = SubSeq(more, 1, e[n])
       /\ \A i \in 1 .. n : Len(p[i]) = e[i] - e[i - 1]
  <2>1. n \in 0 .. n
    BY <1>1
  <2> QED BY <1>1, <1>8, <2>1, PiecesType, FlattenPieces
<1> HIDE DEF p
<1>11. Packed(p)
  BY <1>7, <1>10 DEF Packed, C
<1>12. e[n] \in 0 .. L /\ (n = Rounded(L) => e[n] = L)
  <2>1. n \in 0 .. n
    BY <1>1
  <2> QED BY <1>1, <1>2, <1>3, <1>5, <1>6, <2>1
<1> QED BY <1>9, <1>10, <1>11, <1>12 DEF L

\* What the last chunk still takes.
Room(chunks) == IF chunks = <<>> THEN 0 ELSE ChunkCapacity - Len(Last(chunks))

\* The last chunk filled as far as the bytes go.
LEMMA ToppedUp ==
    ASSUME NEW chunks, Packed(chunks), NEW bytes \in Seq(Byte)
    PROVE  /\ Room(chunks) \in Nat
           /\ Packed(Topped(chunks, bytes)) /\ Len(Topped(chunks, bytes)) = Len(chunks)
           /\ Room(chunks) <= Len(bytes) =>
                 /\ FlattenSeq(Topped(chunks, bytes)) = FlattenSeq(chunks) \o SubSeq(bytes, 1, Room(chunks))
                 /\ \A i \in 1 .. Len(chunks) : Len(Topped(chunks, bytes)[i]) = ChunkCapacity
           /\ Room(chunks) >= Len(bytes) =>
                 FlattenSeq(Topped(chunks, bytes)) = FlattenSeq(chunks) \o bytes
<1> DEFINE C == ChunkCapacity
           room == Room(chunks)
           t == Topped(chunks, bytes)
           k == Min({room, Len(bytes)})
           b == SubSeq(bytes, 1, k)
<1>0. C \in Nat \ {0} /\ Len(bytes) \in Nat /\ chunks \in Seq(Seq(Byte))
  BY MessageAssumption DEF Packed
<1>1. room \in Nat /\ (chunks # <<>> => room = C - Len(Last(chunks)) /\ Last(chunks) \in Seq(Byte))
  <2>1. CASE chunks = <<>>
    BY <2>1 DEF Room
  <2>2. CASE chunks # <<>>
    <3>1. Len(chunks) \in 1 .. Len(chunks)
      BY <1>0, <2>2
    <3>2. Len(chunks[Len(chunks)]) \in 1 .. C /\ chunks[Len(chunks)] \in Seq(Byte)
      BY <1>0, <3>1 DEF Packed
    <3> QED BY <1>0, <2>2, <3>2 DEF Room, Last
  <2> QED BY <2>1, <2>2
<1> HIDE DEF room
<1>2. k = IF room <= Len(bytes) THEN room ELSE Len(bytes)
  BY <1>0, <1>1, MinOfTwo
<1>3. k \in 0 .. Len(bytes) /\ k <= room
  BY <1>0, <1>1, <1>2
<1> HIDE DEF k
<1>4. b \in Seq(Byte) /\ Len(b) = k
  BY <1>3, CutInTwo
<1>5. room >= Len(bytes) => b = bytes
  <2>1. room >= Len(bytes) => k = Len(bytes)
    BY <1>0, <1>1, <1>2
  <2>2. SubSeq(bytes, 1, Len(bytes)) = bytes
    BY SubSeqFull
  <2> QED BY <2>1, <2>2
<1>6. room <= Len(bytes) => b = SubSeq(bytes, 1, room)
  BY <1>2
<1> HIDE DEF b
<1>7. /\ Packed(t) /\ Len(t) = Len(chunks) /\ FlattenSeq(t) = FlattenSeq(chunks) \o b
      /\ room <= Len(bytes) => \A i \in 1 .. Len(chunks) : Len(t[i]) = C
  <2>1. CASE chunks = <<>>
    <3>1. t = <<>> /\ room = 0
      BY <2>1 DEF Topped, Room, room
    <3>2. k = 0
      BY <1>1, <1>3, <3>1
    <3>3. b = <<>>
      BY <1>4, <3>2
    <3>4. FlattenSeq(<<>>) = <<>> /\ <<>> \o <<>> = <<>>
      BY DEF FlattenSeq
    <3>5. Packed(<<>>) /\ Len(<<>>) = 0
      BY <2>1
    <3> HIDE DEF t
    <3> QED BY <2>1, <3>1, <3>3, <3>4, <3>5
  <2>2. CASE chunks # <<>>
    <3> DEFINE f == Front(chunks)
               l == Last(chunks)
               n == Len(chunks)
               V == Seq(Byte)
               x == l \o b
    <3>1. n \in Nat \ {0} /\ n \in 1 .. n
      BY <1>0, <2>2
    <3>2. l \in V /\ room = C - Len(l) /\ Len(l) \in Nat
      BY <1>1, <2>2
    <3>3. /\ f \in Seq(V) /\ Len(f) = n - 1 /\ \A i \in 1 .. n - 1 : f[i] = chunks[i]
          /\ chunks = Append(f, l)
      <4>1. chunks \in Seq(V)
        BY <1>0
      <4> HIDE DEF V
      <4> QED BY <2>2, <4>1, FrontAndLast
    <3>4. t = Append(f, x)
      <4>1. t = Append(f, l \o SubSeq(bytes, 1, Min({C - Len(l), Len(bytes)})))
        BY <2>2 DEF Topped
      <4>2. b = SubSeq(bytes, 1, Min({C - Len(l), Len(bytes)}))
        BY <3>2 DEF b, k
      <4> HIDE DEF t, f, l
      <4> QED BY <4>1, <4>2
    <3>5. \A i \in 1 .. n - 1 : Len(f[i]) = C
      <4>1. \A i \in 1 .. n : i < n => Len(chunks[i]) = C
        BY DEF Packed
      <4> HIDE DEF f, n
      <4>2. \A i \in 1 .. n - 1 : i \in 1 .. n /\ i < n
        BY <3>1
      <4> QED BY <3>3, <4>1, <4>2
    <3>6. Len(l) \in 1 .. C
      BY <3>1 DEF Packed, Last
    <3> HIDE DEF f, l, n, V, t
    <3>7. x \in V /\ Len(x) = Len(l) + k
      BY <1>4, <3>2 DEF V
    <3>8. Regroups(FlattenSeq(f), l, b) /\ FlattenSeq(f) \in Seq(Byte)
      <4>1. f \in Seq(Seq(Byte)) /\ l \in Seq(Byte) /\ <<>> \in Seq(Byte)
        BY <3>2, <3>3 DEF V
      <4>2. FlattenSeq(f) \in Seq(Byte)
        BY <4>1, FlattenAppend
      <4> DEFINE g == FlattenSeq(f)
      <4> HIDE DEF g
      <4>3. Regroups(g, l, b)
        BY <1>4, <4>1, <4>2, Regrouping DEF g
      <4> QED BY <4>2, <4>3 DEF g
    <3>9. FlattenSeq(t) = FlattenSeq(f) \o x /\ FlattenSeq(chunks) = FlattenSeq(f) \o l
      <4>1. f \in Seq(Seq(Byte)) /\ l \in Seq(Byte) /\ x \in Seq(Byte)
        BY <3>2, <3>3, <3>7 DEF V
      <4> HIDE DEF x
      <4>2. FlattenSeq(Append(f, x)) = FlattenSeq(f) \o x /\ FlattenSeq(Append(f, l)) = FlattenSeq(f) \o l
        BY <4>1, FlattenAppend
      <4> QED BY <3>3, <3>4, <4>2
    <3>10. FlattenSeq(t) = FlattenSeq(chunks) \o b
      BY <3>8, <3>9 DEF Regroups
    <3> HIDE DEF x
    <3>11. /\ t \in Seq(V) /\ Len(t) = n /\ (\A i \in 1 .. n - 1 : t[i] = f[i]) /\ t[n] = x
      <4>1. Append(f, x) \in Seq(V) /\ Len(Append(f, x)) = Len(f) + 1 /\ Append(f, x)[Len(f) + 1] = x
            /\ \A i \in 1 .. Len(f) : Append(f, x)[i] = f[i]
        BY <3>3, <3>7, AppendProperties
      <4>2. Len(f) + 1 = n
        BY <3>1, <3>3
      <4> QED BY <3>3, <3>4, <4>1, <4>2
    <3>12. Len(x) \in 1 .. C /\ (room <= Len(bytes) => Len(x) = C)
      BY <1>0, <1>1, <1>2, <1>3, <3>2, <3>6, <3>7
    <3>13. \A i \in 1 .. n : Len(t[i]) \in 1 .. C /\ (i < n => Len(t[i]) = C) /\ (room <= Len(bytes) => Len(t[i]) = C)
      <4> SUFFICES ASSUME NEW i \in 1 .. n
                   PROVE  Len(t[i]) \in 1 .. C /\ (i < n => Len(t[i]) = C) /\ (room <= Len(bytes) => Len(t[i]) = C)
        OBVIOUS
      <4>1. CASE i \in 1 .. n - 1
        BY <1>0, <3>5, <3>11, <4>1
      <4>2. CASE i = n
        BY <3>11, <3>12, <4>2
      <4> QED BY <3>1, <4>1, <4>2
    <3> QED BY <3>10, <3>11, <3>13 DEF Packed, V, n
  <2> QED BY <2>1, <2>2
<1> QED BY <1>1, <1>5, <1>6, <1>7 DEF room

LEMMA PackedConcat ==
    ASSUME NEW s, NEW t, Packed(s), Packed(t), \A i \in 1 .. Len(s) : Len(s[i]) = ChunkCapacity
    PROVE  Packed(s \o t)
<1> DEFINE V == Seq(Byte)
           u == s \o t
<1>1. s \in Seq(V) /\ t \in Seq(V) /\ ChunkCapacity \in Nat \ {0}
  BY MessageAssumption DEF Packed
<1> HIDE DEF V
<1>2. /\ u \in Seq(V) /\ Len(u) = Len(s) + Len(t) /\ Len(s) \in Nat /\ Len(t) \in Nat
      /\ \A i \in 1 .. Len(s) + Len(t) : u[i] = IF i <= Len(s) THEN s[i] ELSE t[i - Len(s)]
  BY <1>1, ConcatProperties, LenProperties
<1> HIDE DEF u
<1>3. ASSUME NEW i \in 1 .. Len(u)
      PROVE  Len(u[i]) \in 1 .. ChunkCapacity /\ (i < Len(u) => Len(u[i]) = ChunkCapacity)
  <2>1. CASE i <= Len(s)
    <3>1. u[i] = s[i] /\ i \in 1 .. Len(s)
      BY <1>2, <2>1
    <3>2. Len(s[i]) = ChunkCapacity
      BY <3>1
    <3> QED BY <1>1, <3>1, <3>2
  <2>2. CASE i > Len(s)
    <3> DEFINE j == i - Len(s)
    <3>1. u[i] = t[j] /\ j \in 1 .. Len(t) /\ (i < Len(u) => j < Len(t))
      BY <1>2, <2>2
    <3> HIDE DEF j
    <3>2. Len(t[j]) \in 1 .. ChunkCapacity /\ (j < Len(t) => Len(t[j]) = ChunkCapacity)
      BY <3>1 DEF Packed
    <3> QED BY <3>1, <3>2
  <2> QED BY <1>2, <2>1, <2>2
<1>4. u \in Seq(Seq(Byte))
  BY <1>2 DEF V
<1> QED BY <1>3, <1>4 DEF Packed, u

\* A write puts a part of the bytes after what there is, and all of them when it gets
\* the chunks it needs.
LEMMA FilledHolds ==
    ASSUME NEW chunks, Packed(chunks), NEW bytes \in Seq(Byte), NEW n \in 0 .. Needed(chunks, bytes)
    PROVE  /\ Packed(Filled(chunks, bytes, n)) /\ Len(Filled(chunks, bytes, n)) = Len(chunks) + n
           /\ Needed(chunks, bytes) \in Nat
           /\ \E k \in 0 .. Len(bytes) :
                 /\ FlattenSeq(Filled(chunks, bytes, n)) = FlattenSeq(chunks) \o SubSeq(bytes, 1, k)
                 /\ n = Needed(chunks, bytes) => k = Len(bytes)
<1> DEFINE room == Room(chunks)
           t == Topped(chunks, bytes)
           more == Beyond(chunks, bytes)
           p == NewChunks(more, n)
<1>1. /\ room \in Nat /\ Packed(t) /\ Len(t) = Len(chunks) /\ Len(bytes) \in Nat
      /\ room <= Len(bytes) => /\ FlattenSeq(t) = FlattenSeq(chunks) \o SubSeq(bytes, 1, room)
                               /\ \A i \in 1 .. Len(chunks) : Len(t[i]) = ChunkCapacity
      /\ room >= Len(bytes) => FlattenSeq(t) = FlattenSeq(chunks) \o bytes
  BY ToppedUp, SMTT(20)
<1>2. more = SubSeq(bytes, room + 1, Len(bytes))
  BY DEF Beyond, Room
<1>3. Filled(chunks, bytes, n) = t \o p
  BY DEF Filled, NewChunks
<1>4. more \in Seq(Byte) /\ Len(more) = IF room <= Len(bytes) THEN Len(bytes) - room ELSE 0
  <2> HIDE DEF room, more
  <2>1. CASE room <= Len(bytes)
    <3>1. room \in 0 .. Len(bytes)
      BY <1>1, <2>1
    <3> QED BY <1>1, <1>2, <2>1, <3>1, CutInTwo
  <2>2. CASE ~ (room <= Len(bytes))
    <3>1. more = <<>>
      BY <1>1, <1>2, <2>2
    <3> QED BY <2>2, <3>1
  <2> QED BY <2>1, <2>2
<1>5. Needed(chunks, bytes) = Rounded(Len(more))
  BY DEF Needed, Rounded
<1>6. Rounded(Len(more)) \in Nat /\ (Rounded(Len(more)) = 0 <=> Len(more) = 0) /\ Len(more) \in Nat
  <2> DEFINE length == Len(more)
  <2>1. length \in Nat
    BY <1>4
  <2> HIDE DEF length
  <2>2. Rounded(length) \in Nat /\ (Rounded(length) = 0 <=> length = 0)
    BY <2>1, RoundedUp, SMTT(20)
  <2> QED BY <2>1, <2>2 DEF length
<1> HIDE DEF more
<1>7. /\ Packed(p) /\ Len(p) = n
      /\ \E k \in 0 .. Len(more) : FlattenSeq(p) = SubSeq(more, 1, k) /\ (n = Rounded(Len(more)) => k = Len(more))
  BY <1>4, <1>5, NewChunksArePacked
<1> HIDE DEF room, t, p
<1>8. CASE Len(more) = 0
  <2>1. n = 0 /\ room >= Len(bytes)
    BY <1>1, <1>4, <1>5, <1>6, <1>8
  <2>2. p = <<>>
    BY <1>7, <2>1 DEF Packed
  <2>3. t \o p = t
    BY <1>1, <2>2 DEF Packed
  <2>4. SubSeq(bytes, 1, Len(bytes)) = bytes /\ Len(bytes) \in 0 .. Len(bytes)
    BY SubSeqFull, <1>1
  <2>5. /\ Packed(Filled(chunks, bytes, n)) /\ Len(Filled(chunks, bytes, n)) = Len(chunks) + n
        /\ FlattenSeq(Filled(chunks, bytes, n)) = FlattenSeq(chunks) \o SubSeq(bytes, 1, Len(bytes))
    <3>1. Filled(chunks, bytes, n) = t
      BY <1>3, <2>3
    <3>2. Len(chunks) \in Nat
      BY DEF Packed
    <3> QED BY <1>1, <2>1, <2>4, <3>1, <3>2
  <2> QED BY <1>5, <1>6, <2>4, <2>5
<1>9. CASE Len(more) # 0
  <2>1. room \in 0 .. Len(bytes) /\ Len(more) = Len(bytes) - room
    BY <1>1, <1>4, <1>6, <1>9
  <2>2. /\ FlattenSeq(t) = FlattenSeq(chunks) \o SubSeq(bytes, 1, room)
        /\ \A i \in 1 .. Len(t) : Len(t[i]) = ChunkCapacity
    BY <1>1, <2>1
  <2>3. PICK k \in 0 .. Len(more) : FlattenSeq(p) = SubSeq(more, 1, k) /\ (n = Rounded(Len(more)) => k = Len(more))
    BY <1>7
  <2>4. Packed(t \o p)
    BY <1>1, <1>7, <2>2, PackedConcat
  <2>5. t \in Seq(Seq(Byte)) /\ p \in Seq(Seq(Byte)) /\ chunks \in Seq(Seq(Byte))
    <3>1. \A c : Packed(c) => c \in Seq(Seq(Byte))
      BY DEF Packed
    <3> QED BY <1>1, <1>7, <3>1
  <2>6. Len(t \o p) = Len(chunks) + n
    <3>1. Len(t \o p) = Len(t) + Len(p)
      BY <2>5, ConcatProperties
    <3> QED BY <1>1, <1>7, <3>1
  <2>7. FlattenSeq(t \o p) = FlattenSeq(t) \o FlattenSeq(p)
    BY <2>5, FlattenConcat
  <2> DEFINE a == FlattenSeq(chunks)
             b == SubSeq(bytes, 1, room)
             c == SubSeq(more, 1, k)
  <2>8. a \in Seq(Byte) /\ b \in Seq(Byte) /\ c \in Seq(Byte)
    <3>1. a \in Seq(Byte)
      <4>1. <<>> \in Seq(Byte)
        OBVIOUS
      <4> QED BY <2>5, <4>1, FlattenAppend
    <3>2. b \in Seq(Byte) /\ c \in Seq(Byte)
      BY <1>4, <2>1, <2>3, CutInTwo
    <3> QED BY <3>1, <3>2
  <2>9. b \o c = SubSeq(bytes, 1, room + k)
    <3> DEFINE j == room + k
    <3>1. j \in 0 .. Len(bytes) /\ room \in 0 .. j
      BY <1>1, <2>1, <2>3
    <3>2. c = SubSeq(bytes, room + 1, j)
      <4> DEFINE d == SubSeq(bytes, room + 1, j)
      <4>1. \A i \in 1 .. k : c[i] = d[i]
        BY <1>1, <1>2, <2>1, <2>3
      <4>2. d \in Seq(Byte) /\ Len(d) = k /\ Len(c) = k
        <5>1. Len(c) = k
          BY <1>4, <2>3, CutInTwo
        <5>2. d \in Seq(Byte) /\ Len(d) = k
          BY <1>1, <2>1, <2>3, <3>1
        <5> QED BY <5>1, <5>2
      <4> HIDE DEF c, d
      <4>3. c = d
        BY <2>8, <4>1, <4>2, SeqEqual
      <4> QED BY <4>3 DEF d
    <3> HIDE DEF j, c
    <3>3. b \o c = SubSeq(bytes, 1, j)
      BY <3>1, <3>2, CutInTwo
    <3> QED BY <3>3 DEF j
  <2> HIDE DEF a, b, c
  <2>10. Regroups(a, b, c)
    BY <2>8, Regrouping
  <2>11. FlattenSeq(t \o p) = a \o SubSeq(bytes, 1, room + k)
    BY <2>2, <2>3, <2>7, <2>9, <2>10, Zenon DEF a, b, c, Regroups
  <2>12. room + k \in 0 .. Len(bytes) /\ (n = Needed(chunks, bytes) => room + k = Len(bytes))
    BY <1>1, <1>5, <2>1, <2>3
  <2> QED BY <1>3, <1>5, <1>6, <2>4, <2>6, <2>11, <2>12 DEF a
<1> QED BY <1>8, <1>9

-------------------------------------------------------------------------------
(***************************************************************************)
(* Messages: fragments, and the chunks they are put together to.           *)
(***************************************************************************)

LEMMA SumType ==
    ASSUME NEW x \in Sums
    PROVE  \E S : Byte \subseteq S /\ x \in Seq(S) /\ Len(x) = ChecksumBytes
<1>1. PICK bytes \in Seq(Byte) : x = Checksum(bytes)
  BY DEF Sums
<1>2. DOMAIN x = 1 .. ChecksumBytes /\ x = [i \in 1 .. ChecksumBytes |-> x[i]]
  BY <1>1 DEF Checksum
<1> DEFINE S == Byte \union {x[i] : i \in 1 .. ChecksumBytes}
<1>3. x \in [1 .. ChecksumBytes -> S] /\ ChecksumBytes \in Nat
  BY <1>2, MessageAssumption
<1>4. Byte \subseteq S
  OBVIOUS
<1> HIDE DEF S
<1>5. x \in Seq(S) /\ Len(x) = ChecksumBytes
  BY <1>3
<1> QED BY <1>4, <1>5

\* Chunks of two and more with their checksum are taken apart again, whether it went
\* with the last chunk or by itself.
LEMMA Assembled ==
    ASSUME NEW c, Packed(c), Len(c) >= 2, NEW x \in Sums, NEW fr, fr = Fragments(c, x)
    PROVE  /\ fr # <<>> /\ Len(fr) >= 2 /\ Len(Last(fr)) >= ChecksumBytes
           /\ SubSeq(Last(fr), Len(Last(fr)) - ChecksumBytes + 1, Len(Last(fr))) = x
           /\ FlattenSeq(Contents(fr)) = FlattenSeq(c) /\ Parcel(fr) = c
           /\ Len(fr) = Len(c) \/ (Len(fr) = Len(c) + 1 /\ ChunkCapacity - Len(Last(c)) < ChecksumBytes)
<1>0. ChunkCapacity \in Nat \ {0} /\ ChecksumBytes \in Nat \ {0}
  BY MessageAssumption
<1>1. PICK S : Byte \subseteq S /\ x \in Seq(S) /\ Len(x) = ChecksumBytes
  BY SumType
<1> DEFINE V == Seq(S)
           f == Front(c)
           l == Last(c)
<1>2. c \in Seq(Seq(Byte)) /\ c # <<>> /\ Len(c) \in Nat
  BY DEF Packed
<1>3. f \in Seq(Seq(Byte)) /\ Len(f) = Len(c) - 1 /\ l \in Seq(Byte) /\ c = Append(f, l)
  <2> DEFINE W == Seq(Byte)
  <2>1. c \in Seq(W) /\ c # <<>>
    BY <1>2
  <2> HIDE DEF W
  <2>2. f \in Seq(W) /\ Len(f) = Len(c) - 1 /\ l \in W /\ c = Append(f, l)
    BY <2>1, FrontAndLast
  <2> QED BY <2>2 DEF W
<1>4. Len(l) \in 1 .. ChunkCapacity /\ Len(l) \in Nat
  <2>1. Len(c) \in 1 .. Len(c)
    BY <1>2
  <2>2. Len(c[Len(c)]) \in 1 .. ChunkCapacity
    BY <2>1 DEF Packed
  <2> QED BY <1>0, <2>2 DEF Last
<1>5. l \in V /\ x \in V /\ Seq(Byte) \subseteq V
  BY <1>1, <1>3
<1>6. f \in Seq(V) /\ c \in Seq(V)
  BY <1>2, <1>3, <1>5
<1> DEFINE y == l \o x
<1>7. /\ y \in V /\ Len(y) = Len(l) + ChecksumBytes
      /\ SubSeq(y, 1, Len(l)) = l /\ SubSeq(y, Len(l) + 1, Len(l) + ChecksumBytes) = x
  <2>1. SubSeq(l \o x, 1, Len(l)) = l /\ SubSeq(l \o x, Len(l) + 1, Len(l) + Len(x)) = x
    BY <1>1, <1>5, FrontOfConcat
  <2>2. l \o x \in Seq(S) /\ Len(l \o x) = Len(l) + Len(x)
    BY <1>1, <1>5, ConcatProperties
  <2> QED BY <1>1, <2>1, <2>2
<1> HIDE DEF V, f, l, y
<1>8. CASE ChunkCapacity - Len(l) >= ChecksumBytes
  <2>1. fr = Append(f, y)
    BY <1>8 DEF Fragments, f, l, y
  <2>2. Front(fr) = f /\ Last(fr) = y /\ Len(fr) = Len(c) /\ fr # <<>>
    <3>1. f \in Seq(V) /\ y \in V
      BY <1>6, <1>7
    <3>2. Front(Append(f, y)) = f /\ Last(Append(f, y)) = y
      BY <3>1, AppendEnds
    <3>3. Len(Append(f, y)) = Len(f) + 1 /\ Append(f, y) # <<>>
      BY <3>1, AppendProperties
    <3>4. Len(f) + 1 = Len(c)
      BY <1>2, <1>3
    <3> QED BY <2>1, <3>2, <3>3, <3>4, Zenon
  <2>3. Len(y) - ChecksumBytes = Len(l) /\ Len(y) - ChecksumBytes + 1 = Len(l) + 1
    BY <1>0, <1>4, <1>7
  <2>4. Contents(fr) = c
    BY <1>3, <1>7, <2>2, <2>3 DEF Contents
  <2>5. Parcel(fr) = c
    <3>1. Last(c) # <<>>
      BY <1>4 DEF l
    <3> QED BY <2>4, <3>1 DEF Parcel
  <2>6. SubSeq(Last(fr), Len(Last(fr)) - ChecksumBytes + 1, Len(Last(fr))) = x
    BY <1>7, <2>2, <2>3
  <2>7. Len(Last(fr)) >= ChecksumBytes
    BY <1>0, <1>4, <1>7, <2>2
  <2> QED BY <2>2, <2>4, <2>5, <2>6, <2>7
<1>9. CASE ~ (ChunkCapacity - Len(l) >= ChecksumBytes)
  <2>1. fr = Append(c, x)
    BY <1>9 DEF Fragments, l
  <2>2. Front(fr) = c /\ Last(fr) = x /\ Len(fr) = Len(c) + 1 /\ fr # <<>>
    <3>1. c \in Seq(V) /\ x \in V
      BY <1>5, <1>6
    <3>2. Front(Append(c, x)) = c /\ Last(Append(c, x)) = x
      BY <3>1, AppendEnds
    <3>3. Len(Append(c, x)) = Len(c) + 1 /\ Append(c, x) # <<>>
      BY <3>1, AppendProperties
    <3> QED BY <2>1, <3>2, <3>3, Zenon
  <2>3. Len(x) - ChecksumBytes = 0 /\ Len(x) - ChecksumBytes + 1 = 1 /\ SubSeq(x, 1, Len(x)) = x /\ SubSeq(x, 1, 0) = <<>>
    BY <1>0, <1>1, SubSeqFull
  <2>4. Contents(fr) = Append(c, <<>>)
    <3>1. ~ (Len(fr) < 2)
      BY <1>2, <2>2
    <3> QED BY <2>2, <2>3, <3>1 DEF Contents
  <2>5. <<>> \in V /\ <<>> \in Seq(Byte)
    BY DEF V
  <2>6. Parcel(fr) = c
    <3>1. Front(Append(c, <<>>)) = c /\ Last(Append(c, <<>>)) = <<>>
      BY <1>6, <2>5, AppendEnds
    <3> QED BY <2>4, <3>1 DEF Parcel
  <2>7. FlattenSeq(Contents(fr)) = FlattenSeq(c)
    <3>1. FlattenSeq(c) \in Seq(Byte) /\ FlattenSeq(Append(c, <<>>)) = FlattenSeq(c) \o <<>>
      BY <1>2, <2>5, FlattenAppend
    <3> QED BY <2>4, <3>1, ConcatEmptySeq
  <2>8. SubSeq(Last(fr), Len(Last(fr)) - ChecksumBytes + 1, Len(Last(fr))) = x /\ Len(Last(fr)) >= ChecksumBytes
    BY <1>0, <1>1, <2>2, <2>3
  <2>9. ChunkCapacity - Len(Last(c)) < ChecksumBytes
    BY <1>0, <1>4, <1>9 DEF l
  <2> QED BY <1>2, <2>2, <2>6, <2>7, <2>8, <2>9
<1> QED BY <1>8, <1>9

\* What is cut is put together again, also when it needs no checksum.
LEMMA ParcelIsChunks ==
    ASSUME NEW c, Packed(c), c # <<>>, NEW x, Len(c) >= 2 => x \in Sums
    PROVE  Fragments(c, x) # <<>> /\ Parcel(Fragments(c, x)) = c
<1>1. CASE Len(c) >= 2
  BY <1>1, Assembled
<1>2. CASE ~ (Len(c) >= 2)
  <2>1. c \in Seq(Seq(Byte)) /\ Len(c) \in Nat /\ Len(c) < 2 /\ Len(c) \in 1 .. Len(c)
    BY <1>2 DEF Packed
  <2>2. Fragments(c, x) = c /\ Contents(c) = c
    BY <2>1 DEF Fragments, Contents
  <2>3. Last(c) # <<>>
    <3>1. Len(c[Len(c)]) \in 1 .. ChunkCapacity
      BY <2>1 DEF Packed
    <3>2. Len(Last(c)) # 0
      BY <3>1 DEF Last
    <3>3. Len(<<>>) = 0
      OBVIOUS
    <3> QED BY <3>2, <3>3
  <2> QED BY <2>2, <2>3 DEF Parcel
<1> QED BY <1>1, <1>2

\* Full chunks hold as much as their number says.
LEMMA FullTotal ==
    ASSUME NEW s \in Seq(Seq(Byte)), \A i \in 1 .. Len(s) : Len(s[i]) = ChunkCapacity
    PROVE  Total(s) = Len(s) * ChunkCapacity
<1> DEFINE E == Seq(Byte)
           Full(u) == \A i \in 1 .. Len(u) : Len(u[i]) = ChunkCapacity
           T == {u \in Seq(E) : Full(u) => Len(FlattenSeq(u)) = Len(u) * ChunkCapacity}
<1>0. ChunkCapacity \in Nat
  BY MessageAssumption
<1>1. <<>> \in T
  <2>1. FlattenSeq(<<>>) = <<>> /\ Len(<<>>) = 0 /\ 0 * ChunkCapacity = 0 /\ <<>> \in Seq(E)
    BY <1>0 DEF FlattenSeq
  <2> QED BY <2>1
<1>2. ASSUME NEW u \in Seq(E), u \in T, NEW e \in E PROVE Append(u, e) \in T
  <2> DEFINE v == Append(u, e)
  <2>1. v \in Seq(E) /\ Len(v) = Len(u) + 1 /\ (\A i \in 1 .. Len(u) : v[i] = u[i]) /\ v[Len(u) + 1] = e /\ Len(u) \in Nat
    BY AppendProperties
  <2>2. FlattenSeq(u) \in Seq(Byte) /\ FlattenSeq(v) = FlattenSeq(u) \o e
    BY FlattenAppend
  <2> HIDE DEF v
  <2>3. Len(FlattenSeq(v)) = Len(FlattenSeq(u)) + Len(e) /\ Len(FlattenSeq(u)) \in Nat
    BY <2>2
  <2>4. ASSUME Full(v) PROVE Len(FlattenSeq(v)) = Len(v) * ChunkCapacity
    <3>1. Full(u) /\ Len(e) = ChunkCapacity
      BY <2>1, <2>4
    <3>2. Len(FlattenSeq(u)) = Len(u) * ChunkCapacity
      BY <1>2, <3>1
    <3>3. Len(v) * ChunkCapacity = Len(u) * ChunkCapacity + ChunkCapacity
      BY <1>0, <2>1
    <3> QED BY <2>3, <3>1, <3>2, <3>3
  <2> HIDE DEF Full
  <2>5. v \in T
    BY <2>1, <2>4
  <2> QED BY <2>5 DEF v
<1>3. Seq(E) \subseteq T
  <2> HIDE DEF T, E
  <2> QED BY <1>1, <1>2, SequencesBuild
<1>4. s \in T /\ Full(s)
  BY <1>3
<1> QED BY <1>4 DEF Total

LEMMA TotalOfPacked ==
    ASSUME NEW c, Packed(c), c # <<>>
    PROVE  /\ Len(c) \in Nat \ {0} /\ Len(Last(c)) \in 1 .. ChunkCapacity
           /\ Total(c) = (Len(c) - 1) * ChunkCapacity + Len(Last(c))
<1> DEFINE E == Seq(Byte)
           f == Front(c)
           l == Last(c)
<1>1. c \in Seq(E) /\ Len(c) \in Nat \ {0}
  BY EmptySeq DEF Packed
<1>2. f \in Seq(E) /\ Len(f) = Len(c) - 1 /\ l \in E /\ c = Append(f, l) /\ \A i \in 1 .. Len(c) - 1 : f[i] = c[i]
  <2> HIDE DEF E
  <2> QED BY <1>1, FrontAndLast
<1>3. Len(l) \in 1 .. ChunkCapacity
  BY <1>1 DEF Packed, Last
<1>4. \A i \in 1 .. Len(f) : Len(f[i]) = ChunkCapacity
  <2>1. \A i \in 1 .. Len(c) : i < Len(c) => Len(c[i]) = ChunkCapacity
    BY DEF Packed
  <2>2. \A i \in 1 .. Len(f) : i \in 1 .. Len(c) /\ i < Len(c) /\ i \in 1 .. Len(c) - 1
    BY <1>1, <1>2
  <2> HIDE DEF f
  <2> QED BY <1>2, <2>1, <2>2
<1> HIDE DEF f, l
<1>5. Total(f) = Len(f) * ChunkCapacity
  BY <1>2, <1>4, FullTotal
<1>6. FlattenSeq(f) \in Seq(Byte) /\ FlattenSeq(c) = FlattenSeq(f) \o l
  BY <1>2, FlattenAppend
<1>7. Total(c) = Total(f) + Len(l)
  BY <1>2, <1>6 DEF Total
<1> QED BY <1>1, <1>2, <1>3, <1>5, <1>7 DEF l

\* A message is sent with its checksum in as many fragments as the receiver takes, when
\* the fragments of a message hold its capacity and a checksum.
Roomy == message_capacity + ChecksumBytes <= max_fragments * ChunkCapacity

LEMMA SentVerifies ==
    ASSUME NEW c, Packed(c), c # <<>>, Len(c) <= max_fragments, Total(c) <= message_capacity,
           NEW x, Len(c) >= 2 => x = Checksum(FlattenSeq(c)), Roomy
    PROVE  Verified(Fragments(c, x))
<1> DEFINE fr == Fragments(c, x)
           C == ChunkCapacity
<1>1. /\ C \in Nat \ {0} /\ message_capacity \in Nat /\ ChecksumBytes \in Nat /\ max_fragments \in Nat
      /\ c \in Seq(Seq(Byte)) /\ Len(c) \in Nat \ {0}
  <2>1. max_fragments \in Nat
    <3>1. max_fragments = Rounded(message_capacity)
      BY DEF max_fragments, Rounded
    <3> QED BY <3>1, MessageAssumption, RoundedUp
  <2> QED BY <2>1, MessageAssumption, TotalOfPacked DEF Packed
<1>2. CASE ~ (Len(c) >= 2)
  <2>1. fr = c
    BY <1>1, <1>2 DEF Fragments
  <2>2. Len(c) - 1 < max_fragments /\ ~ (Len(c) >= 2)
    BY <1>1, <1>2
  <2> HIDE DEF fr
  <2> QED BY <2>1, <2>2 DEF Verified, fr
<1>3. CASE Len(c) >= 2
  <2>1. x = Checksum(FlattenSeq(c)) /\ x \in Sums
    <3>1. <<>> \in Seq(Byte)
      OBVIOUS
    <3>2. FlattenSeq(c) \in Seq(Byte)
      BY <1>1, <3>1, FlattenAppend
    <3> QED BY <1>3, <3>2 DEF Sums
  <2>2. /\ fr # <<>> /\ Len(fr) >= 2 /\ Len(Last(fr)) >= ChecksumBytes
        /\ SubSeq(Last(fr), Len(Last(fr)) - ChecksumBytes + 1, Len(Last(fr))) = x
        /\ FlattenSeq(Contents(fr)) = FlattenSeq(c)
        /\ Len(fr) = Len(c) \/ (Len(fr) = Len(c) + 1 /\ C - Len(Last(c)) < ChecksumBytes)
    BY <1>3, <2>1, Assembled
  <2> HIDE DEF fr
  <2>3. Len(fr) - 1 < max_fragments
    <3>1. CASE Len(fr) = Len(c)
      BY <1>1, <3>1
    <3>2. CASE Len(fr) = Len(c) + 1 /\ C - Len(Last(c)) < ChecksumBytes
      <4> DEFINE n == Len(c)
                 l == Len(Last(c))
      <4>1. l \in 1 .. C /\ Total(c) = (n - 1) * C + l /\ n \in Nat /\ n <= max_fragments
        BY <1>1, TotalOfPacked
      <4> HIDE DEF n, l, C
      <4>2. ASSUME n = max_fragments PROVE FALSE
        <5>1. (n - 1) * C = n * C - C /\ n * C \in Nat
          BY <1>1, <4>1
        <5>2. (n - 1) * C + l + ChecksumBytes <= n * C
          BY <1>1, <4>1, <4>2, <5>1 DEF Roomy, C
        <5>3. C - l < ChecksumBytes
          BY <3>2 DEF l
        <5> QED BY <1>1, <4>1, <5>1, <5>2, <5>3
      <4> QED BY <1>1, <3>2, <4>1, <4>2 DEF n
    <3> QED BY <2>2, <3>1, <3>2
  <2> QED BY <2>1, <2>2, <2>3, Zenon DEF Verified, fr
<1> QED BY <1>2, <1>3

-------------------------------------------------------------------------------
(***************************************************************************)
(* Messages: the steps.                                                    *)
(***************************************************************************)

LEMMA UnderIsFinite ==
    ASSUME NEW m
    PROVE  /\ IsFiniteSet(Under(m)) /\ Cardinality(Under(m)) \in Nat
           /\ (Cardinality(Under(m)) = 0 <=> Under(m) = {})
<1>1. Under(m) \subseteq Sends /\ IsFiniteSet(Sends)
  BY MessageAssumption DEF Under
<1>2. IsFiniteSet(Under(m))
  BY <1>1, FS_Subset
<1> QED BY <1>2, FS_CardinalityType, FS_EmptySet

\* A step that changes one message, and what it says of one.
LEMMA OneMessage ==
    ASSUME MessagesInv, NEW m \in Messages, NEW r \in MessageRecord, NEW h \in Nat, NEW a \in Nat,
           NEW p \in Seq(Put), NEW g \in Seq(Int \union Seq(Byte)),
           message' = [message EXCEPT ![m] = r],
           held' = [held EXCEPT ![m] = h], astray' = [astray EXCEPT ![m] = a],
           put' = [put EXCEPT ![m] = p], got' = [got EXCEPT ![m] = g],
           sender' \in [Sends -> SendRecord], touched' \in [Sends -> BOOLEAN], DOMAIN flight' = Sends,
           \A n \in Messages \ {m} : Under(n)' = Under(n),
           Counts(r, h, a, Under(m)'), ContentOK(r, p, g)
    PROVE  MessagesTypeOK' /\ KeptWhileSent' /\ ContentInv'
<1>1. MessagesTypeOK /\ KeptWhileSent /\ ContentInv
  BY DEF MessagesInv
<1>2. MessagesTypeOK'
  BY <1>1 DEF MessagesTypeOK
<1>3. /\ message'[m] = r /\ held'[m] = h /\ astray'[m] = a /\ put'[m] = p /\ got'[m] = g
      /\ \A n \in Messages \ {m} : /\ message'[n] = message[n] /\ held'[n] = held[n] /\ astray'[n] = astray[n]
                                   /\ put'[n] = put[n] /\ got'[n] = got[n]
  BY <1>1 DEF MessagesTypeOK
<1>4. ASSUME NEW n \in Messages PROVE Counts(message'[n], held'[n], astray'[n], Under(n)')
  <2>1. CASE n = m
    BY <1>3, <2>1
  <2>2. CASE n # m
    <3>1. Counts(message[n], held[n], astray[n], Under(n))
      BY <1>1 DEF KeptWhileSent, Counts
    <3>2. /\ Under(n)' = Under(n) /\ message'[n] = message[n] /\ held'[n] = held[n] /\ astray'[n] = astray[n]
      BY <1>3, <2>2
    <3> QED BY <3>1, <3>2
  <2> QED BY <2>1, <2>2
<1>5. KeptWhileSent'
  BY <1>4 DEF KeptWhileSent, Counts
<1>6. ContentInv'
  <2>1. \A n \in Messages : ContentOK(message'[n], put'[n], got'[n])
    BY <1>1, <1>3 DEF ContentInv
  <2> QED BY <2>1 DEF ContentInv
<1> QED BY <1>2, <1>5, <1>6

\* The sends, when none makes a step.
LEMMA SendsStay ==
    ASSUME MessagesInv, NEW m \in Messages, NEW r \in MessageRecord, message' = [message EXCEPT ![m] = r],
           sender' = sender, touched' \in [Sends -> BOOLEAN], \A s \in Sends : touched[s] => touched'[s],
           \A s \in Under(m) : touched'[s] \/ sender[s].stage = "sent" \/ r.chunks = message[m].chunks
    PROVE  SendInv' /\ \A n : Under(n)' = Under(n)
<1>1. \A n : Under(n)' = Under(n)
  BY DEF Under
<1>2. message \in [Messages -> MessageRecord] /\ SendInv /\ touched \in [Sends -> BOOLEAN]
  BY DEF MessagesInv, MessagesTypeOK
<1>3. ASSUME NEW s \in Sends, sender[s].stage # "idle"
      PROVE  sender[s].message \in Messages /\ SendOK(sender[s], touched'[s], message'[sender[s].message].chunks)
  <2> DEFINE n == sender[s].message
  <2>1. n \in Messages /\ SendOK(sender[s], touched[s], message[n].chunks)
    BY <1>2, <1>3 DEF SendInv
  <2>2. CASE n # m
    <3>1. message'[n] = message[n]
      BY <1>2, <2>1, <2>2
    <3> QED BY <1>2, <2>1, <3>1 DEF SendOK
  <2>3. CASE n = m
    <3>1. s \in Under(m) /\ message'[n] = r
      BY <1>2, <1>3, <2>3 DEF Under
    <3>2. touched'[s] \/ sender[s].stage = "sent" \/ r.chunks = message[m].chunks
      BY <3>1
    <3> HIDE DEF n
    <3>3. touched[s] => touched'[s]
      OBVIOUS
    <3> QED BY <2>1, <2>3, <3>1, <3>2, <3>3 DEF SendOK, n
  <2> QED BY <2>1, <2>2, <2>3
<1>4. SendInv'
  BY <1>3 DEF SendInv
<1> QED BY <1>1, <1>4

LEMMA FlightsStay ==
    ASSUME MessagesInv, flight' = flight
    PROVE  DOMAIN flight' = Sends /\ FlightInv'
BY DEF MessagesInv, MessagesTypeOK, FlightInv

\* A message that is held, or being sent, is one that holds its content.
LEMMA HeldMessage ==
    ASSUME MessagesInv, NEW m \in Messages
    PROVE  /\ message[m] \in MessageRecord /\ held[m] \in Nat /\ astray[m] \in Nat
           /\ put[m] \in Seq(Put) /\ got[m] \in Seq(Int \union Seq(Byte))
           /\ Counts(message[m], held[m], astray[m], Under(m)) /\ ContentOK(message[m], put[m], got[m])
           /\ held[m] > 0 \/ Under(m) # {} => message[m].refs > 0 /\ Holds(message[m].chunks, put[m])
           /\ held = [held EXCEPT ![m] = held[m]] /\ astray = [astray EXCEPT ![m] = astray[m]]
           /\ put = [put EXCEPT ![m] = put[m]] /\ got = [got EXCEPT ![m] = got[m]]
           /\ sender \in [Sends -> SendRecord] /\ touched \in [Sends -> BOOLEAN]
<1>1. MessagesTypeOK /\ KeptWhileSent /\ ContentInv
  BY DEF MessagesInv
<1>2. /\ message[m] \in MessageRecord /\ held[m] \in Nat /\ astray[m] \in Nat
      /\ put[m] \in Seq(Put) /\ got[m] \in Seq(Int \union Seq(Byte))
      /\ sender \in [Sends -> SendRecord] /\ touched \in [Sends -> BOOLEAN]
  BY <1>1 DEF MessagesTypeOK
<1>3. /\ held = [held EXCEPT ![m] = held[m]] /\ astray = [astray EXCEPT ![m] = astray[m]]
      /\ put = [put EXCEPT ![m] = put[m]] /\ got = [got EXCEPT ![m] = got[m]]
  BY <1>1 DEF MessagesTypeOK
<1>4. Counts(message[m], held[m], astray[m], Under(m))
  BY <1>1 DEF KeptWhileSent, Counts
<1>5. ContentOK(message[m], put[m], got[m])
  BY <1>1 DEF ContentInv
<1>6. held[m] > 0 \/ Under(m) # {} => message[m].refs > 0
  BY <1>2, <1>4, UnderIsFinite DEF Counts
<1>7. message[m].refs > 0 => Holds(message[m].chunks, put[m])
  BY <1>5 DEF ContentOK
<1> QED BY <1>2, <1>3, <1>4, <1>5, <1>6, <1>7

LEMMA TouchedType ==
    ASSUME MessagesInv, NEW m \in Messages
    PROVE  /\ TouchedBy(m) \in [Sends -> BOOLEAN] /\ \A s \in Sends : touched[s] => TouchedBy(m)[s]
           /\ \A s \in Under(m) : TouchedBy(m)[s] \/ sender[s].stage = "sent"
BY DEF MessagesInv, MessagesTypeOK, TouchedBy, Under

LEMMA NothingHolds == Holds(<<>>, <<>>) /\ Total(<<>>) = 0
<1>1. FlattenSeq(<<>>) = <<>>
  BY DEF FlattenSeq
<1>2. Encoded(<<>>) = <<>>
  BY <1>1 DEF Encoded
<1>3. max_fragments \in Nat
  <2>1. max_fragments = Rounded(message_capacity) /\ message_capacity \in Nat
    BY MessageAssumption DEF max_fragments, Rounded
  <2> QED BY <2>1, RoundedUp
<1>4. Packed(<<>>) /\ Len(<<>>) = 0 /\ <<>> \in Seq(Put)
  BY DEF Packed
<1> QED BY <1>1, <1>2, <1>3, <1>4, MessageAssumption DEF Holds, Total

\* A step of one message, and of no send.
LEMMA MessageStep ==
    ASSUME MessagesInv, NEW m \in Messages, NEW r \in MessageRecord, NEW h \in Nat, NEW a \in Nat,
           NEW p \in Seq(Put), NEW g \in Seq(Int \union Seq(Byte)),
           message' = [message EXCEPT ![m] = r],
           held' = [held EXCEPT ![m] = h], astray' = [astray EXCEPT ![m] = a],
           put' = [put EXCEPT ![m] = p], got' = [got EXCEPT ![m] = g],
           sender' = sender, flight' = flight, touched' \in [Sends -> BOOLEAN],
           \A s \in Sends : touched[s] => touched'[s],
           \A s \in Under(m) : touched'[s] \/ sender[s].stage = "sent" \/ r.chunks = message[m].chunks,
           Counts(r, h, a, Under(m)), ContentOK(r, p, g)
    PROVE  MessagesInv'
<1>1. SendInv' /\ \A n : Under(n)' = Under(n)
  BY SendsStay
<1>2. DOMAIN flight' = Sends /\ FlightInv'
  BY FlightsStay
<1>3. Counts(r, h, a, Under(m)') /\ \A n \in Messages \ {m} : Under(n)' = Under(n)
  BY <1>1
<1>4. sender' \in [Sends -> SendRecord]
  BY DEF MessagesInv, MessagesTypeOK
<1>5. MessagesTypeOK' /\ KeptWhileSent' /\ ContentInv'
  BY <1>2, <1>3, <1>4, OneMessage
<1> QED BY <1>1, <1>2, <1>5 DEF MessagesInv

\* A record of a message with some of its parts replaced.
Remade(r, o) == r = [field \in DOMAIN o |-> r[field]]

LEMMA RemadeType ==
    ASSUME NEW o \in MessageRecord, NEW r, Remade(r, o),
           r.refs \in Nat, r.mode \in {"UNSET", "WRITE", "READ"}, r.busy \in BOOLEAN,
           r.chunks \in Seq(Seq(Byte)), r.written \in Int, r.index \in Nat, r.rest \in Seq(Byte), r.remain \in Int
    PROVE  r \in MessageRecord
BY DEF MessageRecord, Remade

LEMMA Parts ==
    ASSUME NEW o \in MessageRecord
    PROVE  /\ o.refs \in Nat /\ o.mode \in {"UNSET", "WRITE", "READ"} /\ o.busy \in BOOLEAN
           /\ o.chunks \in Seq(Seq(Byte)) /\ o.written \in Int /\ o.index \in Nat /\ o.rest \in Seq(Byte)
           /\ o.remain \in Int
BY DEF MessageRecord

LEMMA EmptyParts == <<>> \in Seq(Byte) /\ <<>> \in Seq(Seq(Byte)) /\ 0 \in Nat /\ 0 \in Int /\ 1 \in Nat
OBVIOUS

LEMMA FreeType ==
    /\ Free \in MessageRecord
    /\ Free.refs = 0 /\ Free.mode = "UNSET" /\ ~ Free.busy /\ Free.chunks = <<>> /\ Free.written = 0
    /\ Free.index = 0 /\ Free.rest = <<>> /\ Free.remain = 0
BY EmptyParts DEF Free, MessageRecord

LEMMA AcquireKeeps == ASSUME MessagesInv, NEW m \in Messages, AcquireMessage(m) PROVE MessagesInv'
<1> DEFINE r == [Free EXCEPT !.refs = 1, !.mode = "WRITE", !.busy = message[m].busy]
<1>1. /\ message[m].refs = 0 /\ message' = [message EXCEPT ![m] = r] /\ held' = [held EXCEPT ![m] = 1]
      /\ put' = [put EXCEPT ![m] = <<>>] /\ got' = [got EXCEPT ![m] = <<>>]
      /\ UNCHANGED <<astray, sender, touched, flight>>
  BY DEF AcquireMessage
<1>2. /\ message[m] \in MessageRecord /\ held[m] \in Nat /\ astray[m] \in Nat /\ astray = [astray EXCEPT ![m] = astray[m]]
      /\ Counts(message[m], held[m], astray[m], Under(m))
      /\ sender \in [Sends -> SendRecord] /\ touched \in [Sends -> BOOLEAN]
  BY HeldMessage
<1>3. astray[m] = 0 /\ Under(m) = {} /\ ~ message[m].busy /\ message[m].busy \in BOOLEAN
  BY <1>1, <1>2, UnderIsFinite, SMTT(20) DEF Counts, MessageRecord
<1>4. /\ r \in MessageRecord /\ r.refs = 1 /\ r.mode = "WRITE" /\ r.busy = message[m].busy
      /\ r.chunks = <<>> /\ r.written = 0
  <2> DEFINE o == Free
             b == message[m].busy
  <2>1. r = [o EXCEPT !.refs = 1, !.mode = "WRITE", !.busy = b] /\ o \in MessageRecord /\ b \in BOOLEAN
    BY <1>3, FreeType
  <2> HIDE DEF r, o, b
  <2>2. /\ Remade(r, o) /\ r.refs = 1 /\ r.mode = "WRITE" /\ r.busy = b /\ r.chunks = o.chunks /\ r.written = o.written
        /\ r.index = o.index /\ r.rest = o.rest /\ r.remain = o.remain
    BY <2>1 DEF MessageRecord, Remade
  <2>0. /\ o.chunks \in Seq(Seq(Byte)) /\ o.written \in Int /\ o.index \in Nat /\ o.rest \in Seq(Byte) /\ o.remain \in Int
        /\ 1 \in Nat
    BY <2>1, Parts
  <2>3. r \in MessageRecord
    BY <2>1, <2>2, <2>0, RemadeType
  <2> QED BY <2>2, <2>3, FreeType DEF b, o
<1> HIDE DEF r
<1>5. Counts(r, 1, astray[m], Under(m))
  <2>1. Cardinality(Under(m)) = 0
    BY <1>3, FS_EmptySet
  <2> QED BY <1>3, <1>4, <2>1 DEF Counts
<1>6. ContentOK(r, <<>>, <<>>)
  BY <1>4, NothingHolds DEF ContentOK
<1>7. <<>> \in Seq(Put) /\ <<>> \in Seq(Int \union Seq(Byte)) /\ 1 \in Nat
  OBVIOUS
<1> QED BY <1>1, <1>2, <1>3, <1>4, <1>5, <1>6, <1>7, MessageStep

LEMMA ResetKeeps == ASSUME MessagesInv, NEW m \in Messages, Reset(m) PROVE MessagesInv'
<1> DEFINE r == [message[m] EXCEPT !.chunks = <<>>, !.written = 0, !.mode = "WRITE"]
<1>1. /\ held[m] > 0 /\ put' = [put EXCEPT ![m] = <<>>] /\ got' = [got EXCEPT ![m] = <<>>]
      /\ touched' = TouchedBy(m) /\ UNCHANGED <<held, astray, sender, flight>>
      /\ message' = [message EXCEPT ![m] = r]
  BY DEF Reset
<1>2. /\ message[m] \in MessageRecord /\ held[m] \in Nat /\ astray[m] \in Nat
      /\ held = [held EXCEPT ![m] = held[m]] /\ astray = [astray EXCEPT ![m] = astray[m]]
      /\ Counts(message[m], held[m], astray[m], Under(m)) /\ message[m].refs > 0
      /\ sender \in [Sends -> SendRecord] /\ touched \in [Sends -> BOOLEAN]
  BY <1>1, HeldMessage
<1>3. /\ touched' \in [Sends -> BOOLEAN] /\ \A s \in Sends : touched[s] => touched'[s]
      /\ \A s \in Under(m) : touched'[s] \/ sender[s].stage = "sent"
  BY <1>1, TouchedType
<1>4. /\ r \in MessageRecord /\ r.refs = message[m].refs /\ r.mode = "WRITE" /\ r.busy = message[m].busy
      /\ r.chunks = <<>> /\ r.written = 0
  <2> DEFINE o == message[m]
  <2>1. r = [o EXCEPT !.chunks = <<>>, !.written = 0, !.mode = "WRITE"] /\ o \in MessageRecord
    BY <1>2
  <2> HIDE DEF r, o
  <2>2. /\ Remade(r, o) /\ r.refs = o.refs /\ r.mode = "WRITE" /\ r.busy = o.busy /\ r.chunks = <<>> /\ r.written = 0
        /\ r.index = o.index /\ r.rest = o.rest /\ r.remain = o.remain
    BY <2>1 DEF MessageRecord, Remade
  <2>3. r \in MessageRecord
    BY <2>1, <2>2, Parts, EmptyParts, RemadeType
  <2> QED BY <2>2, <2>3 DEF o
<1> HIDE DEF r
<1>5. Counts(r, held[m], astray[m], Under(m))
  BY <1>2, <1>4 DEF Counts
<1>6. ContentOK(r, <<>>, <<>>)
  BY <1>4, NothingHolds DEF ContentOK
<1>7. <<>> \in Seq(Put) /\ <<>> \in Seq(Int \union Seq(Byte))
  OBVIOUS
<1>8. /\ sender' = sender /\ flight' = flight /\ held' = [held EXCEPT ![m] = held[m]]
      /\ astray' = [astray EXCEPT ![m] = astray[m]]
      /\ \A s \in Under(m) : touched'[s] \/ sender[s].stage = "sent" \/ r.chunks = message[m].chunks
  BY <1>1, <1>2, <1>3
<1> QED BY <1>1, <1>2, <1>3, <1>4, <1>5, <1>6, <1>7, <1>8, MessageStep

LEMMA ReadNextKeeps == ASSUME MessagesInv, NEW m \in Messages, ReadNext(m) PROVE MessagesInv'
<1> DEFINE item == put[m][Len(got[m]) + 1]
           read == ReaderRead(m, Len(Bytes(item)))
           r == read.reader
           g == Append(got[m], Value(item.kind, read.bytes))
<1>1. /\ held[m] > 0 /\ message[m].mode = "READ" /\ Len(got[m]) < Len(put[m])
      /\ UNCHANGED <<held, astray, put, sender, touched, flight>>
      /\ IF read.ok THEN message' = [message EXCEPT ![m] = r] /\ got' = [got EXCEPT ![m] = g]
                    ELSE UNCHANGED <<message, got>>
  BY DEF ReadNext
<1>2. /\ message[m] \in MessageRecord /\ held[m] \in Nat /\ astray[m] \in Nat /\ put[m] \in Seq(Put)
      /\ held = [held EXCEPT ![m] = held[m]] /\ astray = [astray EXCEPT ![m] = astray[m]]
      /\ put = [put EXCEPT ![m] = put[m]] /\ got[m] \in Seq(Int \union Seq(Byte))
      /\ Counts(message[m], held[m], astray[m], Under(m)) /\ ContentOK(message[m], put[m], got[m])
      /\ sender \in [Sends -> SendRecord] /\ touched \in [Sends -> BOOLEAN]
  BY HeldMessage
<1>3. Reads(message[m], put[m], got[m])
  BY <1>1, <1>2 DEF ContentOK
<1>4. CASE ~ read.ok
  <2>1. UNCHANGED <<message, held, astray, put, got, sender, touched, flight>>
    BY <1>1, <1>4
  <2>2. \A n \in Messages : Under(n)' = Under(n)
    BY <2>1 DEF Under
  <2> QED BY <2>1, <2>2 DEF MessagesInv, MessagesTypeOK, KeptWhileSent, ContentInv, SendInv, FlightInv
<1>5. CASE read.ok
  <2> DEFINE items == put[m]
             values == got[m]
  <2>0. items \in Seq(Put) /\ values \in Seq(Int \union Seq(Byte)) /\ Reads(message[m], items, values)
        /\ Len(values) < Len(items) /\ item = items[Len(values) + 1] /\ read = ReaderRead(m, Len(Bytes(item)))
        /\ message[m] \in MessageRecord /\ read.ok
    BY <1>1, <1>2, <1>3, <1>5
  <2> HIDE DEF item, read, items, values
  <2>01. /\ read.reader \in MessageRecord
         /\ \A field \in {"refs", "mode", "busy", "chunks", "written"} : read.reader[field] = message[m][field]
         /\ Append(values, Value(item.kind, read.bytes)) \in Seq(Int \union Seq(Byte))
         /\ Reads(read.reader, items, Append(values, Value(item.kind, read.bytes)))
    BY <2>0, ReadGives
  <2>1. \A field \in {"refs", "mode", "busy", "chunks", "written"} : r[field] = message[m][field]
    BY <2>01
  <2>2. r \in MessageRecord /\ g \in Seq(Int \union Seq(Byte)) /\ Reads(r, put[m], g)
    BY <2>01, Zenon DEF items, values
  <2> HIDE DEF g
  <2>3. r.refs = message[m].refs /\ r.mode = "READ" /\ r.busy = message[m].busy /\ r.chunks = message[m].chunks
    BY <1>1, <2>1
  <2> HIDE DEF r
  <2>4. message' = [message EXCEPT ![m] = r] /\ got' = [got EXCEPT ![m] = g]
    BY <1>1, <1>5 DEF r
  <2>5. Counts(r, held[m], astray[m], Under(m))
    BY <1>1, <1>2, <2>3 DEF Counts
  <2>6. ContentOK(r, put[m], g)
    BY <1>1, <1>2, <2>2, <2>3 DEF ContentOK
  <2> QED BY <1>1, <1>2, <2>2, <2>3, <2>4, <2>5, <2>6, MessageStep
<1> QED BY <1>4, <1>5

\* A message whose content is left as it is.
LEMMA ContentStays ==
    ASSUME NEW o, NEW r, NEW items, NEW values, ContentOK(o, items, values),
           r.mode = o.mode, r.chunks = o.chunks, r.written = o.written, r.index = o.index, r.rest = o.rest,
           r.remain = o.remain, r.refs > 0 => o.refs > 0
    PROVE  ContentOK(r, items, values)
BY DEF ContentOK, Reads, Remaining, Upto

LEMMA UnreffedType ==
    ASSUME NEW o \in MessageRecord, o.refs > 0
    PROVE  /\ Unreffed(o) \in MessageRecord /\ Unreffed(o).refs = o.refs - 1 /\ Unreffed(o).busy = o.busy
           /\ o.refs = 1 => Unreffed(o).mode = "UNSET"
           /\ o.refs # 1 => /\ Unreffed(o).mode = o.mode /\ Unreffed(o).chunks = o.chunks
                            /\ Unreffed(o).written = o.written /\ Unreffed(o).index = o.index
                            /\ Unreffed(o).rest = o.rest /\ Unreffed(o).remain = o.remain
<1> DEFINE r == Unreffed(o)
           b == o.busy
<1>0. o.refs \in Nat /\ b \in BOOLEAN
  BY Parts
<1>1. CASE o.refs = 1
  <2> DEFINE f == Free
  <2>1. r = [f EXCEPT !.busy = b] /\ f \in MessageRecord
    BY <1>1, FreeType DEF Unreffed
  <2> HIDE DEF r, f, b
  <2>2. r \in MessageRecord /\ r.refs = f.refs /\ r.mode = f.mode /\ r.busy = b
    BY <1>0, <2>1 DEF MessageRecord
  <2>3. r.refs = 0 /\ r.mode = "UNSET"
    BY <2>2, FreeType DEF f
  <2> QED BY <1>1, <2>2, <2>3 DEF r, b
<1>2. CASE o.refs # 1
  <2> DEFINE n == o.refs - 1
  <2>1. r = [o EXCEPT !.refs = n] /\ n \in Nat
    BY <1>0, <1>2 DEF Unreffed
  <2> HIDE DEF r, n
  <2>2. r \in MessageRecord
    BY <1>0, <2>1 DEF MessageRecord
  <2>3. /\ r.refs = n /\ r.mode = o.mode /\ r.busy = o.busy /\ r.chunks = o.chunks /\ r.written = o.written
        /\ r.index = o.index /\ r.rest = o.rest /\ r.remain = o.remain
    BY <2>1 DEF MessageRecord
  <2> QED BY <1>2, <2>2, <2>3 DEF r, n
<1> QED BY <1>1, <1>2

LEMMA UnrefKeeps == ASSUME MessagesInv, NEW m \in Messages, Unref(m) PROVE MessagesInv'
<1> DEFINE o == message[m]
           r == Unreffed(o)
           h == held[m] - 1
<1>1. /\ held[m] > 0 /\ message' = [message EXCEPT ![m] = r] /\ held' = [held EXCEPT ![m] = h]
      /\ UNCHANGED <<astray, put, got, sender, touched, flight>>
  BY DEF Unref, MessagesInv, MessagesTypeOK
<1>2. /\ o \in MessageRecord /\ held[m] \in Nat /\ h \in Nat /\ astray[m] \in Nat /\ put[m] \in Seq(Put)
      /\ got[m] \in Seq(Int \union Seq(Byte)) /\ astray = [astray EXCEPT ![m] = astray[m]]
      /\ put = [put EXCEPT ![m] = put[m]] /\ got = [got EXCEPT ![m] = got[m]] /\ o.refs > 0
      /\ Counts(o, held[m], astray[m], Under(m)) /\ ContentOK(o, put[m], got[m])
      /\ sender \in [Sends -> SendRecord] /\ touched \in [Sends -> BOOLEAN]
  BY <1>1, HeldMessage
<1>3. Cardinality(Under(m)) \in Nat /\ (Cardinality(Under(m)) = 0 <=> Under(m) = {})
  BY UnderIsFinite
<1>4. /\ r \in MessageRecord /\ r.refs = o.refs - 1 /\ r.busy = o.busy
      /\ o.refs = 1 => r.mode = "UNSET"
      /\ o.refs # 1 => /\ r.mode = o.mode /\ r.chunks = o.chunks /\ r.written = o.written /\ r.index = o.index
                       /\ r.rest = o.rest /\ r.remain = o.remain
  BY <1>2, UnreffedType
<1> HIDE DEF r
<1>5. o.refs \in Nat /\ (o.refs = 1 => Under(m) = {} /\ astray[m] = 0 /\ ~ o.busy)
  BY <1>1, <1>2, <1>3, Parts, SMTT(20) DEF Counts
<1>6. Counts(r, h, astray[m], Under(m))
  BY <1>1, <1>2, <1>3, <1>4, <1>5, SMTT(20) DEF Counts
<1>7. ContentOK(r, put[m], got[m])
  <2>1. CASE o.refs = 1
    BY <1>4, <2>1 DEF ContentOK
  <2>2. CASE o.refs # 1
    <3> HIDE DEF o
    <3> QED BY <1>2, <1>4, <1>5, <2>2, ContentStays
  <2> QED BY <2>1, <2>2
<1>8. \A s \in Under(m) : r.chunks = o.chunks
  BY <1>4, <1>5
<1> QED BY <1>1, <1>2, <1>4, <1>6, <1>7, <1>8, MessageStep

LEMMA PreparedType ==
    ASSUME NEW o \in MessageRecord
    PROVE  /\ Prepared(o) \in MessageRecord /\ Prepared(o).refs = o.refs + 1 /\ Prepared(o).busy
           /\ Prepared(o).mode = o.mode /\ Prepared(o).chunks = o.chunks /\ Prepared(o).written = o.written
           /\ Prepared(o).index = o.index /\ Prepared(o).rest = o.rest /\ Prepared(o).remain = o.remain
<1> DEFINE r == Prepared(o)
           n == o.refs + 1
<1>1. r = [o EXCEPT !.busy = TRUE, !.refs = n] /\ n \in Nat
  BY Parts DEF Prepared
<1> HIDE DEF r, n
<1>2. /\ Remade(r, o) /\ r.refs = n /\ r.busy /\ r.busy \in BOOLEAN /\ r.mode = o.mode /\ r.chunks = o.chunks
      /\ r.written = o.written /\ r.index = o.index /\ r.rest = o.rest /\ r.remain = o.remain
  BY <1>1 DEF MessageRecord, Remade
<1>3. r \in MessageRecord
  BY <1>1, <1>2, Parts, RemadeType
<1> QED BY <1>2, <1>3 DEF r, n

LEMMA SendAstrayKeeps == ASSUME MessagesInv, NEW m \in Messages, SendAstray(m) PROVE MessagesInv'
<1> DEFINE o == message[m]
           r == Prepared(o)
<1>1. /\ held[m] > 0 /\ astray[m] = 0 /\ message' = [message EXCEPT ![m] = r] /\ astray' = [astray EXCEPT ![m] = 1]
      /\ UNCHANGED <<held, put, got, sender, touched, flight>>
  BY DEF SendAstray, MessagesInv, MessagesTypeOK
<1>2. /\ o \in MessageRecord /\ held[m] \in Nat /\ put[m] \in Seq(Put)
      /\ got[m] \in Seq(Int \union Seq(Byte)) /\ held = [held EXCEPT ![m] = held[m]]
      /\ put = [put EXCEPT ![m] = put[m]] /\ got = [got EXCEPT ![m] = got[m]] /\ o.refs > 0
      /\ Counts(o, held[m], astray[m], Under(m)) /\ ContentOK(o, put[m], got[m])
      /\ sender \in [Sends -> SendRecord] /\ touched \in [Sends -> BOOLEAN]
  BY <1>1, HeldMessage
<1>3. Cardinality(Under(m)) \in Nat /\ o.refs \in Nat
  BY <1>2, UnderIsFinite, Parts
<1>4. /\ r \in MessageRecord /\ r.refs = o.refs + 1 /\ r.busy
      /\ r.mode = o.mode /\ r.chunks = o.chunks /\ r.written = o.written /\ r.index = o.index
      /\ r.rest = o.rest /\ r.remain = o.remain
  BY <1>2, PreparedType
<1> HIDE DEF r
<1>5. Counts(r, held[m], 1, Under(m))
  BY <1>1, <1>2, <1>3, <1>4 DEF Counts
<1>6. ContentOK(r, put[m], got[m])
  <2> HIDE DEF o
  <2> QED BY <1>2, <1>4, ContentStays
<1>7. \A s \in Under(m) : r.chunks = o.chunks
  BY <1>4
<1>8. 1 \in Nat
  OBVIOUS
<1> QED BY <1>1, <1>2, <1>4, <1>5, <1>6, <1>7, <1>8, MessageStep

LEMMA TotalType ==
    ASSUME NEW c \in Seq(Seq(Byte)) PROVE FlattenSeq(c) \in Seq(Byte) /\ Total(c) \in Nat /\ Total(c) \in Int
<1>1. FlattenSeq(c) \in Seq(Byte)
  BY EmptyParts, FlattenAppend
<1> QED BY <1>1 DEF Total

LEMMA SendToPluginKeeps == ASSUME MessagesInv, NEW m \in Messages, SendToPlugin(m) PROVE MessagesInv'
<1> DEFINE o == message[m]
           n == Total(o.chunks)
           r == [o EXCEPT !.mode = "WRITE", !.written = n, !.busy = FALSE]
<1>1. /\ held[m] > 0 /\ message' = [message EXCEPT ![m] = r] /\ got' = [got EXCEPT ![m] = <<>>]
      /\ UNCHANGED <<held, astray, put, sender, touched, flight>>
  BY DEF SendToPlugin
<1>2. /\ o \in MessageRecord /\ held[m] \in Nat /\ astray[m] \in Nat /\ put[m] \in Seq(Put)
      /\ held = [held EXCEPT ![m] = held[m]] /\ astray = [astray EXCEPT ![m] = astray[m]]
      /\ put = [put EXCEPT ![m] = put[m]] /\ o.refs > 0
      /\ Counts(o, held[m], astray[m], Under(m)) /\ ContentOK(o, put[m], got[m])
      /\ sender \in [Sends -> SendRecord] /\ touched \in [Sends -> BOOLEAN]
  BY <1>1, HeldMessage
<1>3. n \in Int
  <2>1. o.chunks \in Seq(Seq(Byte))
    BY <1>2, Parts
  <2> QED BY <2>1, TotalType
<1>4. /\ r \in MessageRecord /\ r.refs = o.refs /\ ~ r.busy /\ r.mode = "WRITE" /\ r.chunks = o.chunks /\ r.written = n
  <2>1. r = [o EXCEPT !.mode = "WRITE", !.written = n, !.busy = FALSE] /\ o \in MessageRecord /\ n \in Int
    BY <1>2, <1>3
  <2> HIDE DEF r, o, n
  <2>2. /\ Remade(r, o) /\ r.refs = o.refs /\ ~ r.busy /\ r.busy \in BOOLEAN /\ r.mode = "WRITE" /\ r.chunks = o.chunks
        /\ r.written = n /\ r.index = o.index /\ r.rest = o.rest /\ r.remain = o.remain
    BY <2>1 DEF MessageRecord, Remade
  <2>3. r \in MessageRecord
    BY <2>1, <2>2, Parts, RemadeType
  <2> QED BY <2>2, <2>3
<1> HIDE DEF r
<1>5. Counts(r, held[m], astray[m], Under(m))
  BY <1>2, <1>4 DEF Counts
<1>6. ContentOK(r, put[m], <<>>)
  BY <1>2, <1>4 DEF ContentOK
<1>7. <<>> \in Seq(Int \union Seq(Byte)) /\ \A s \in Under(m) : r.chunks = o.chunks
  BY <1>4
<1> QED BY <1>1, <1>2, <1>4, <1>5, <1>6, <1>7, MessageStep

LEMMA EncodedAppend ==
    ASSUME NEW items \in Seq(Put), NEW item \in Put
    PROVE  Append(items, item) \in Seq(Put) /\ Encoded(Append(items, item)) = Encoded(items) \o Bytes(item)
<1> DEFINE P == Put
           one == <<item>>
<1>1. items \in Seq(P) /\ item \in P
  OBVIOUS
<1>2. one \in Seq(Put)
  OBVIOUS
<1>3. Append(items, item) = items \o one /\ Append(items, item) \in Seq(P)
  <2> HIDE DEF P
  <2> QED BY <1>1
<1> HIDE DEF one
<1>4. Encoded(items \o one) = Encoded(items) \o Encoded(one)
  BY <1>2, EncodedConcat
<1>5. Encoded(one) = Bytes(item)
  BY EncodedOne DEF one
<1> QED BY <1>3, <1>4, <1>5

\* What is put for the bytes that were written: the item, or the part that had room.
LEMMA PutForBytes ==
    ASSUME NEW item \in Items, NEW k \in 0 .. Len(Bytes(item)), NEW whole, whole => k = Len(Bytes(item)),
           NEW piece, whole => piece = item,
           NEW part, part = SubSeq(Bytes(item), 1, k),
           ~ whole => piece = [kind |-> "buffer", width |-> Len(part), value |-> part]
    PROVE  piece \in Put /\ Bytes(piece) = SubSeq(Bytes(item), 1, k)
<1>1. item \in Put
  BY DEF Put
<1> DEFINE b == Bytes(item)
<1>2. b \in Seq(Byte) /\ Len(b) \in Nat
  BY <1>1, BytesType
<1>3. part \in Seq(Byte) /\ Len(part) \in Nat /\ (k = Len(b) => part = b)
  <2> HIDE DEF b
  <2>1. k \in 0 .. Len(b) /\ part = SubSeq(b, 1, k)
    BY DEF b
  <2> QED BY <1>2, <2>1
<1>4. CASE whole
  BY <1>1, <1>3, <1>4
<1>5. CASE ~ whole
  <2>1. piece \in Put
    BY <1>3, <1>5 DEF Put
  <2>2. piece.kind = "buffer" /\ piece.value = part
    BY <1>5
  <2> QED BY <2>1, <2>2 DEF Bytes
<1> QED BY <1>4, <1>5

LEMMA WriteKeeps == ASSUME MessagesInv, NEW m \in Messages, NEW item \in Items, Write(m, item) PROVE MessagesInv'
<1> DEFINE o == message[m]
           c == o.chunks
           b == Bytes(item)
<1>1. PICK n \in Gets(c, b) :
         LET after == Filled(c, b, n)
         IN  /\ message' = [message EXCEPT
                   ![m].chunks = after, ![m].written = @ + Total(after) - Total(c)]
             /\ put' = [put EXCEPT ![m] =
                   Append(@, IF n = Needed(c, b) THEN item
                             ELSE LET part == SubSeq(b, 1, Total(after) - Total(c))
                                  IN  [kind |-> "buffer", width |-> Len(part), value |-> part])]
  BY DEF Write
<1> DEFINE after == Filled(c, b, n)
           w == o.written + Total(after) - Total(c)
           r == [o EXCEPT !.chunks = after, !.written = w]
           part == SubSeq(b, 1, Total(after) - Total(c))
           piece == IF n = Needed(c, b) THEN item ELSE [kind |-> "buffer", width |-> Len(part), value |-> part]
           p == Append(put[m], piece)
<1>2. /\ held[m] > 0 /\ o.mode = "WRITE" /\ o.written + Len(b) <= message_capacity
      /\ touched' = TouchedBy(m) /\ UNCHANGED <<held, astray, got, sender, flight>>
  BY DEF Write
<1>3. message \in [Messages -> MessageRecord] /\ put \in [Messages -> Seq(Put)]
  BY DEF MessagesInv, MessagesTypeOK
<1>4. message' = [message EXCEPT ![m] = r] /\ put' = [put EXCEPT ![m] = p]
  <2>1. message' = [message EXCEPT ![m].chunks = after, ![m].written = @ + Total(after) - Total(c)]
        /\ put' = [put EXCEPT ![m] = Append(@, piece)]
    BY <1>1
  <2> HIDE DEF after, piece, c
  <2> QED BY <1>3, <2>1
<1>5. /\ o \in MessageRecord /\ held[m] \in Nat /\ astray[m] \in Nat /\ put[m] \in Seq(Put)
      /\ got[m] \in Seq(Int \union Seq(Byte))
      /\ held = [held EXCEPT ![m] = held[m]] /\ astray = [astray EXCEPT ![m] = astray[m]]
      /\ got = [got EXCEPT ![m] = got[m]] /\ o.refs > 0
      /\ Counts(o, held[m], astray[m], Under(m)) /\ ContentOK(o, put[m], got[m]) /\ Holds(c, put[m])
      /\ sender \in [Sends -> SendRecord] /\ touched \in [Sends -> BOOLEAN]
  BY <1>2, HeldMessage
<1>6. /\ touched' \in [Sends -> BOOLEAN] /\ \A s \in Sends : touched[s] => touched'[s]
      /\ \A s \in Under(m) : touched'[s] \/ sender[s].stage = "sent"
  BY <1>2, TouchedType
<1>7. Packed(c) /\ FlattenSeq(c) = Encoded(put[m]) /\ o.written = Total(c) /\ Len(c) <= max_fragments
      /\ FlattenSeq(c) \in Seq(Byte) /\ Total(c) \in Nat /\ c \in Seq(Seq(Byte)) /\ item \in Put
  <2>1. Packed(c) /\ FlattenSeq(c) = Encoded(put[m]) /\ Len(c) <= max_fragments
    BY <1>5 DEF Holds
  <2>2. o.written = Total(c)
    BY <1>2, <1>5 DEF ContentOK
  <2>3. c \in Seq(Seq(Byte))
    BY <2>1 DEF Packed
  <2>4. item \in Put
    BY DEF Put
  <2> HIDE DEF c
  <2> QED BY <2>1, <2>2, <2>3, <2>4, TotalType
<1>8. b \in Seq(Byte) /\ Len(b) \in Nat
  BY <1>7, BytesType
<1>9. n \in 0 .. Needed(c, b) /\ Len(c) + n <= max_fragments
  BY DEF Gets
<1>10. /\ Packed(after) /\ Len(after) = Len(c) + n
       /\ \E k \in 0 .. Len(b) : /\ FlattenSeq(after) = FlattenSeq(c) \o SubSeq(b, 1, k)
                                 /\ n = Needed(c, b) => k = Len(b)
  <2> HIDE DEF c, b
  <2> QED BY <1>7, <1>8, <1>9, FilledHolds
<1>11. PICK k \in 0 .. Len(b) : FlattenSeq(after) = FlattenSeq(c) \o SubSeq(b, 1, k) /\ (n = Needed(c, b) => k = Len(b))
  BY <1>10
<1> HIDE DEF after
<1>12. SubSeq(b, 1, k) \in Seq(Byte) /\ Len(SubSeq(b, 1, k)) = k /\ k \in Nat /\ k <= Len(b)
  <2> HIDE DEF b
  <2> QED BY <1>8
<1>13. Total(after) = Total(c) + k /\ Total(after) \in Nat
  <2> DEFINE f == FlattenSeq(c)
             x == SubSeq(b, 1, k)
  <2>1. f \in Seq(Byte) /\ x \in Seq(Byte) /\ Len(x) = k /\ FlattenSeq(after) = f \o x /\ Total(c) = Len(f)
    BY <1>7, <1>11, <1>12 DEF Total
  <2> HIDE DEF f, x, c, b
  <2>2. Len(f \o x) = Len(f) + k /\ Len(f) \in Nat
    <3> DEFINE l == Len(x)
    <3>1. f \in Seq(Byte) /\ x \in Seq(Byte) /\ l = k
      BY <2>1
    <3>2. Len(f \o x) = Len(f) + Len(x) /\ Len(f) \in Nat
      BY <3>1, ConcatProperties, LenProperties
    <3> QED BY <3>1, <3>2
  <2> QED BY <1>12, <2>1, <2>2 DEF Total
<1>14. part = SubSeq(b, 1, k)
  <2>1. Total(after) - Total(c) = k
    BY <1>7, <1>12, <1>13
  <2> QED BY <2>1
<1>15. piece \in Put /\ Bytes(piece) = SubSeq(b, 1, k)
  <2> DEFINE whole == n = Needed(c, b)
  <2>1. whole => k = Len(Bytes(item))
    BY <1>11
  <2>2. (whole => piece = item) /\ (~ whole => piece = [kind |-> "buffer", width |-> Len(part), value |-> part])
    OBVIOUS
  <2>3. part = SubSeq(Bytes(item), 1, k)
    BY <1>14
  <2> HIDE DEF part, piece, whole
  <2>4. piece \in Put /\ Bytes(piece) = SubSeq(Bytes(item), 1, k)
    BY <2>1, <2>2, <2>3, PutForBytes
  <2> QED BY <2>4
<1> HIDE DEF piece
<1>16. p \in Seq(Put) /\ Encoded(p) = Encoded(put[m]) \o SubSeq(b, 1, k)
  <2> HIDE DEF b
  <2> QED BY <1>5, <1>15, EncodedAppend
<1> HIDE DEF p
<1>17. Holds(after, p)
  <2>1. FlattenSeq(after) = Encoded(p)
    BY <1>7, <1>11, <1>16
  <2>2. Total(after) <= message_capacity
    BY <1>2, <1>7, <1>8, <1>12, <1>13, MessageAssumption
  <2> HIDE DEF c, b
  <2>3. Len(after) <= max_fragments
    BY <1>9, <1>10
  <2> QED BY <1>10, <1>16, <2>1, <2>2, <2>3 DEF Holds
<1>18. /\ r \in MessageRecord /\ r.refs = o.refs /\ r.mode = "WRITE" /\ r.busy = o.busy /\ r.chunks = after
       /\ r.written = Total(after)
  <2>1. w = Total(after) /\ w \in Int
    BY <1>7, <1>13
  <2>2. after \in Seq(Seq(Byte))
    BY <1>17 DEF Holds, Packed
  <2>3. r = [o EXCEPT !.chunks = after, !.written = w] /\ o \in MessageRecord
    BY <1>5
  <2> HIDE DEF r, o, w
  <2>4. /\ Remade(r, o) /\ r.refs = o.refs /\ r.busy = o.busy /\ r.mode = o.mode /\ r.chunks = after
        /\ r.written = w /\ r.index = o.index /\ r.rest = o.rest /\ r.remain = o.remain
    BY <2>3 DEF MessageRecord, Remade
  <2>5. r \in MessageRecord
    BY <2>1, <2>2, <2>3, <2>4, Parts, RemadeType
  <2> QED BY <1>2, <2>1, <2>4, <2>5
<1> HIDE DEF r
<1>19. Counts(r, held[m], astray[m], Under(m))
  BY <1>5, <1>18 DEF Counts
<1>20. ContentOK(r, p, got[m])
  BY <1>17, <1>18 DEF ContentOK
<1>21. /\ sender' = sender /\ flight' = flight /\ held' = [held EXCEPT ![m] = held[m]]
       /\ astray' = [astray EXCEPT ![m] = astray[m]] /\ got' = [got EXCEPT ![m] = got[m]]
       /\ \A s \in Under(m) : touched'[s] \/ sender[s].stage = "sent" \/ r.chunks = message[m].chunks
  BY <1>2, <1>5, <1>6
<1> QED BY <1>4, <1>5, <1>6, <1>16, <1>18, <1>19, <1>20, <1>21, MessageStep

\* A step of one send: the others have their messages as they were.
LEMMA OneSend ==
    ASSUME MessagesInv, NEW s \in Sends, NEW x \in SendRecord, NEW t \in BOOLEAN,
           sender' = [sender EXCEPT ![s] = x], touched' = [touched EXCEPT ![s] = t],
           \A u \in Sends \ {s} : sender[u].stage # "idle" =>
               message'[sender[u].message].chunks = message[sender[u].message].chunks,
           x.stage # "idle" => x.message \in Messages /\ SendOK(x, t, message'[x.message].chunks)
    PROVE  SendInv' /\ sender' \in [Sends -> SendRecord] /\ touched' \in [Sends -> BOOLEAN]
<1>1. sender \in [Sends -> SendRecord] /\ touched \in [Sends -> BOOLEAN] /\ SendInv
  BY DEF MessagesInv, MessagesTypeOK
<1>2. /\ sender' \in [Sends -> SendRecord] /\ touched' \in [Sends -> BOOLEAN] /\ sender'[s] = x /\ touched'[s] = t
      /\ \A u \in Sends \ {s} : sender'[u] = sender[u] /\ touched'[u] = touched[u]
  BY <1>1
<1>3. ASSUME NEW u \in Sends, sender'[u].stage # "idle"
      PROVE  sender'[u].message \in Messages /\ SendOK(sender'[u], touched'[u], message'[sender'[u].message].chunks)
  <2>1. CASE u = s
    BY <1>2, <1>3, <2>1
  <2>2. CASE u # s
    <3>1. sender'[u] = sender[u] /\ touched'[u] = touched[u] /\ sender[u].stage # "idle"
      BY <1>2, <1>3, <2>2
    <3>2. sender[u].message \in Messages /\ SendOK(sender[u], touched[u], message[sender[u].message].chunks)
      BY <1>1, <3>1 DEF SendInv
    <3>3. message'[sender[u].message].chunks = message[sender[u].message].chunks
      BY <2>2, <3>1
    <3> QED BY <3>1, <3>2, <3>3
  <2> QED BY <2>1, <2>2
<1>4. SendInv'
  BY <1>3 DEF SendInv
<1> QED BY <1>2, <1>4

LEMMA OneFlight ==
    ASSUME MessagesInv, NEW s \in Sends, NEW f, flight' = [flight EXCEPT ![s] = f],
           f.under_way => \E c, x : CutFrom(f, c, x)
    PROVE  DOMAIN flight' = Sends /\ FlightInv'
<1>1. DOMAIN flight = Sends /\ FlightInv
  BY DEF MessagesInv, MessagesTypeOK
<1>2. DOMAIN flight' = Sends /\ flight'[s] = f /\ \A u \in Sends \ {s} : flight'[u] = flight[u]
  BY <1>1
<1>3. ASSUME NEW u \in Sends, flight'[u].under_way PROVE \E c, x : CutFrom(flight'[u], c, x)
  <2>1. CASE u = s
    BY <1>2, <1>3, <2>1
  <2>2. CASE u # s
    <3>1. flight'[u] = flight[u]
      BY <1>2, <2>2
    <3>2. \E c, x : CutFrom(flight[u], c, x)
      BY <1>1, <1>3, <3>1 DEF FlightInv
    <3> QED BY <3>1, <3>2
  <2> QED BY <2>1, <2>2
<1> QED BY <1>2, <1>3 DEF FlightInv

\* The messages, when none is changed.
LEMMA NoMessage ==
    ASSUME MessagesInv, UNCHANGED <<message, held, astray, put, got>>, sender' \in [Sends -> SendRecord],
           touched' \in [Sends -> BOOLEAN], DOMAIN flight' = Sends, \A m \in Messages : Under(m)' = Under(m)
    PROVE  MessagesTypeOK' /\ KeptWhileSent' /\ ContentInv'
<1>1. MessagesTypeOK /\ KeptWhileSent /\ ContentInv
  BY DEF MessagesInv
<1>2. MessagesTypeOK' /\ ContentInv'
  BY <1>1 DEF MessagesTypeOK, ContentInv
<1>3. KeptWhileSent'
  BY <1>1 DEF KeptWhileSent
<1> QED BY <1>2, <1>3

LEMMA LostKeeps == ASSUME MessagesInv, NEW s \in Sends, Lost(s) PROVE MessagesInv'
<1>1. /\ UNCHANGED <<message, held, astray, put, got>> /\ sender' = sender /\ touched' = touched
      /\ flight' = [flight EXCEPT ![s] = NoFlight]
  BY DEF Lost
<1>2. ~ NoFlight.under_way
  BY DEF NoFlight
<1>3. DOMAIN flight' = Sends /\ FlightInv'
  <2> DEFINE f == NoFlight
  <2>1. flight' = [flight EXCEPT ![s] = f] /\ ~ f.under_way
    BY <1>1, <1>2
  <2> HIDE DEF f
  <2> QED BY <2>1, OneFlight
<1>4. sender' \in [Sends -> SendRecord] /\ touched' \in [Sends -> BOOLEAN] /\ SendInv'
  BY <1>1 DEF MessagesInv, MessagesTypeOK, SendInv
<1>5. \A m \in Messages : Under(m)' = Under(m)
  BY <1>1 DEF Under
<1>6. MessagesTypeOK' /\ KeptWhileSent' /\ ContentInv'
  BY <1>1, <1>3, <1>4, <1>5, NoMessage
<1> QED BY <1>3, <1>4, <1>6 DEF MessagesInv

LEMMA SumKeeps == ASSUME MessagesInv, NEW s \in Sends, Sum(s) PROVE MessagesInv'
<1> DEFINE o == sender[s]
           c == message[o.message].chunks
           sum == Checksum(FlattenSeq(c))
           x == [o EXCEPT !.stage = "summed", !.checksum = sum]
<1>1. /\ o.stage = "summing" /\ UNCHANGED <<message, held, astray, put, got>> /\ touched' = touched /\ flight' = flight
      /\ sender' = [sender EXCEPT ![s] = x]
  BY DEF Sum, MessagesInv, MessagesTypeOK
<1>2. sender \in [Sends -> SendRecord] /\ touched \in [Sends -> BOOLEAN] /\ message \in [Messages -> MessageRecord]
      /\ SendInv
  BY DEF MessagesInv, MessagesTypeOK
<1>3. o.message \in Messages /\ SendOK(o, touched[s], c) /\ o \in SendRecord
  BY <1>1, <1>2 DEF SendInv
<1>4. sum \in Sums
  <2>1. c \in Seq(Seq(Byte))
    BY <1>2, <1>3, Parts
  <2> HIDE DEF c
  <2>2. FlattenSeq(c) \in Seq(Byte)
    BY <2>1, TotalType
  <2> QED BY <2>2 DEF Sums
<1>5. x \in SendRecord /\ x.stage = "summed" /\ x.message = o.message /\ x.checksum = sum
  <2> HIDE DEF sum, o
  <2> QED BY <1>3, <1>4 DEF SendRecord
<1>6. SendOK(x, touched[s], c)
  <2> HIDE DEF x, sum
  <2>1. ~ touched[s] => Len(c) >= 2
    BY <1>1, <1>3 DEF SendOK
  <2> QED BY <1>4, <1>5, <2>1 DEF SendOK, sum
<1> HIDE DEF x
<1>7. SendInv' /\ sender' \in [Sends -> SendRecord] /\ touched' \in [Sends -> BOOLEAN]
  <2> DEFINE t == touched[s]
  <2>1. touched' = [touched EXCEPT ![s] = t] /\ t \in BOOLEAN
    BY <1>1, <1>2
  <2>2. message' = message /\ SendOK(x, t, message'[x.message].chunks) /\ x.message \in Messages
    BY <1>1, <1>3, <1>5, <1>6
  <2> HIDE DEF t
  <2> QED BY <1>1, <1>5, <2>1, <2>2, OneSend
<1>8. \A m \in Messages : Under(m)' = Under(m)
  BY <1>1, <1>2, <1>5 DEF Under
<1>9. DOMAIN flight' = Sends /\ FlightInv'
  BY <1>1, FlightsStay
<1>10. MessagesTypeOK' /\ KeptWhileSent' /\ ContentInv'
  BY <1>1, <1>7, <1>8, <1>9, NoMessage
<1> QED BY <1>7, <1>9, <1>10 DEF MessagesInv

LEMMA DispatchKeeps == ASSUME MessagesInv, NEW s \in Sends, Dispatch(s) PROVE MessagesInv'
<1> DEFINE o == sender[s]
           m == o.message
           c == message[m].chunks
           f == [under_way |-> TRUE, put |-> put[m], touched |-> touched[s], fragments |-> Fragments(c, o.checksum)]
           x == [o EXCEPT !.stage = "sent"]
<1>1. /\ o.stage = "summed" /\ UNCHANGED <<message, held, astray, put, got>> /\ touched' = touched
      /\ sender' = [sender EXCEPT ![s] = x] /\ flight' = [flight EXCEPT ![s] = f]
  BY DEF Dispatch, Cut, MessagesInv, MessagesTypeOK
<1>2. sender \in [Sends -> SendRecord] /\ touched \in [Sends -> BOOLEAN] /\ message \in [Messages -> MessageRecord]
      /\ SendInv
  BY DEF MessagesInv, MessagesTypeOK
<1>3. m \in Messages /\ SendOK(o, touched[s], c) /\ o \in SendRecord
  BY <1>1, <1>2 DEF SendInv
<1>4. Holds(c, put[m])
  <2>1. s \in Under(m)
    BY <1>1 DEF Under
  <2> HIDE DEF m
  <2> QED BY <1>3, <2>1, HeldMessage
<1>5. \E d, y : CutFrom(f, d, y)
  <2>1. o.checksum \in Sums /\ (~ touched[s] => o.checksum = Checksum(FlattenSeq(c)))
    BY <1>1, <1>3 DEF SendOK
  <2> DEFINE y == o.checksum
             p == put[m]
             t == touched[s]
             fr == Fragments(c, y)
  <2>2. f = [under_way |-> TRUE, put |-> p, touched |-> t, fragments |-> fr]
    OBVIOUS
  <2> HIDE DEF f, c, y, p, t, fr
  <2>3. f.put = p /\ f.touched = t /\ f.fragments = fr
    BY <2>2
  <2>4. CutFrom(f, c, y)
    BY <1>4, <2>1, <2>3 DEF CutFrom, p, t, fr, y
  <2> QED BY <2>4
<1>6. DOMAIN flight' = Sends /\ FlightInv'
  <2> HIDE DEF f
  <2> QED BY <1>1, <1>5, OneFlight
<1>7. x \in SendRecord /\ x.stage = "sent" /\ x.message = m
  <2> HIDE DEF o
  <2> QED BY <1>3 DEF SendRecord
<1> HIDE DEF x
<1>8. SendInv' /\ sender' \in [Sends -> SendRecord] /\ touched' \in [Sends -> BOOLEAN]
  <2> DEFINE t == touched[s]
  <2>1. touched' = [touched EXCEPT ![s] = t] /\ t \in BOOLEAN
    BY <1>1, <1>2
  <2>2. message' = message /\ SendOK(x, t, message'[x.message].chunks) /\ x.message \in Messages
    BY <1>1, <1>3, <1>7 DEF SendOK
  <2> HIDE DEF t
  <2> QED BY <1>1, <1>7, <2>1, <2>2, OneSend
<1>9. \A n \in Messages : Under(n)' = Under(n)
  BY <1>1, <1>2, <1>7 DEF Under
<1>10. MessagesTypeOK' /\ KeptWhileSent' /\ ContentInv'
  BY <1>1, <1>6, <1>8, <1>9, NoMessage
<1> QED BY <1>6, <1>8, <1>10 DEF MessagesInv

LEMMA IdleType == Idle \in SendRecord /\ Idle.stage = "idle"
BY DEF Idle, SendRecord

LEMMA SendResultKeeps == ASSUME MessagesInv, NEW s \in Sends, SendResult(s) PROVE MessagesInv'
<1>0. PICK m \in Messages : m = sender[s].message
  BY DEF SendResult, MessagesInv, SendInv
<1> DEFINE o == message[m]
           b == [o EXCEPT !.busy = FALSE]
           r == Unreffed(b)
           x == Idle
<1>1. /\ sender[s].stage = "sent" /\ UNCHANGED <<held, astray, put, got>> /\ touched' = touched /\ flight' = flight
      /\ message' = [message EXCEPT ![m] = r] /\ sender' = [sender EXCEPT ![s] = x]
  BY <1>0 DEF SendResult, MessagesInv, MessagesTypeOK
<1>2. sender \in [Sends -> SendRecord] /\ touched \in [Sends -> BOOLEAN] /\ message \in [Messages -> MessageRecord]
      /\ SendInv
  BY DEF MessagesInv, MessagesTypeOK
<1>3. m \in Messages /\ s \in Under(m)
  BY <1>0, <1>1, <1>2 DEF SendInv, Under
<1>4. /\ o \in MessageRecord /\ held[m] \in Nat /\ astray[m] \in Nat /\ put[m] \in Seq(Put)
      /\ got[m] \in Seq(Int \union Seq(Byte)) /\ o.refs > 0
      /\ Counts(o, held[m], astray[m], Under(m)) /\ ContentOK(o, put[m], got[m])
      /\ held = [held EXCEPT ![m] = held[m]] /\ astray = [astray EXCEPT ![m] = astray[m]]
      /\ put = [put EXCEPT ![m] = put[m]] /\ got = [got EXCEPT ![m] = got[m]]
  BY <1>3, HeldMessage
<1>5. /\ b \in MessageRecord /\ b.refs = o.refs /\ ~ b.busy
      /\ b.mode = o.mode /\ b.chunks = o.chunks /\ b.written = o.written /\ b.index = o.index
      /\ b.rest = o.rest /\ b.remain = o.remain
  <2> HIDE DEF o
  <2> QED BY <1>4 DEF MessageRecord
<1> HIDE DEF b
<1>6. /\ r \in MessageRecord /\ r.refs = o.refs - 1 /\ ~ r.busy
      /\ o.refs = 1 => r.mode = "UNSET"
      /\ o.refs # 1 => /\ r.mode = o.mode /\ r.chunks = o.chunks /\ r.written = o.written /\ r.index = o.index
                       /\ r.rest = o.rest /\ r.remain = o.remain
  BY <1>4, <1>5, UnreffedType
<1> HIDE DEF r
<1>7. x \in SendRecord /\ x.stage = "idle"
  BY IdleType
<1> HIDE DEF x
<1>8. Under(m)' = Under(m) \ {s} /\ \A n \in Messages \ {m} : Under(n)' = Under(n)
  <2>1. sender'[s].stage = "idle" /\ \A u \in Sends \ {s} : sender'[u] = sender[u]
    BY <1>1, <1>2, <1>7
  <2>2. \A n : Under(n)' = Under(n) \ {s}
    BY <2>1 DEF Under
  <2>3. \A n \in Messages \ {m} : s \notin Under(n)
    BY <1>0 DEF Under
  <2> QED BY <2>2, <2>3
<1>9. /\ Cardinality(Under(m)') = Cardinality(Under(m)) - 1 /\ Cardinality(Under(m)) \in Nat
      /\ Cardinality(Under(m)') \in Nat /\ (Cardinality(Under(m)') = 0 => Under(m)' = {})
  <2> DEFINE S == Under(m)
  <2>1. IsFiniteSet(S) /\ s \in S /\ Cardinality(S) \in Nat
    BY <1>3, UnderIsFinite
  <2>2. IsFiniteSet(S \ {s}) /\ Cardinality(S \ {s}) = Cardinality(S) - 1
    <3> HIDE DEF S
    <3> QED BY <2>1, FS_RemoveElement
  <2>3. Cardinality(S \ {s}) \in Nat /\ (Cardinality(S \ {s}) = 0 => S \ {s} = {})
    <3> HIDE DEF S
    <3> QED BY <2>2, FS_CardinalityType, FS_EmptySet
  <2> QED BY <1>8, <2>1, <2>2, <2>3
<1>10. o.refs \in Nat /\ (o.refs = 1 => held[m] = 0 /\ astray[m] = 0 /\ Under(m)' = {})
  <2> DEFINE k == Cardinality(Under(m))
             l == Cardinality(Under(m)')
  <2>1. o.refs = held[m] + astray[m] + k
    BY <1>4 DEF Counts
  <2>2. l = k - 1 /\ l \in Nat /\ k \in Nat /\ (l = 0 => Under(m)' = {})
    BY <1>9
  <2>3. held[m] \in Nat /\ astray[m] \in Nat /\ o.refs \in Nat
    BY <1>4, Parts
  <2>4. o.refs = 1 => held[m] = 0 /\ astray[m] = 0 /\ l = 0
    <3> DEFINE i == held[m]
               j == astray[m]
               n == o.refs
    <3>1. n = i + j + k /\ l = k - 1 /\ l \in Nat /\ k \in Nat /\ i \in Nat /\ j \in Nat /\ n \in Nat
      BY <2>1, <2>2, <2>3
    <3> HIDE DEF i, j, k, l, n
    <3>2. n = 1 => i = 0 /\ j = 0 /\ l = 0
      BY <3>1
    <3> QED BY <3>2 DEF i, j, n
  <2> QED BY <2>2, <2>3, <2>4
<1>11. Counts(r, held[m], astray[m], Under(m)')
  <2>1. r.refs = held[m] + astray[m] + Cardinality(Under(m)')
    <3> DEFINE i == held[m]
               j == astray[m]
               n == o.refs
               k == Cardinality(Under(m))
               l == Cardinality(Under(m)')
    <3>1. n = i + j + k /\ l = k - 1 /\ k \in Nat /\ i \in Nat /\ j \in Nat /\ r.refs = n - 1
      BY <1>4, <1>6, <1>9 DEF Counts
    <3> HIDE DEF i, j, k, l, n
    <3>2. r.refs = i + j + l
      BY <3>1
    <3> QED BY <3>2 DEF i, j, l
  <2>2. r.refs = 0 => o.refs = 1
    BY <1>6, <1>10
  <2> QED BY <1>6, <2>1, <2>2 DEF Counts
<1>12. ContentOK(r, put[m], got[m])
  <2>1. CASE o.refs = 1
    BY <1>6, <2>1 DEF ContentOK
  <2>2. CASE o.refs # 1
    <3> HIDE DEF o
    <3> QED BY <1>4, <1>6, <1>10, <2>2, ContentStays
  <2> QED BY <2>1, <2>2
<1>13. SendInv' /\ sender' \in [Sends -> SendRecord] /\ touched' \in [Sends -> BOOLEAN]
  <2> DEFINE t == touched[s]
  <2>1. touched' = [touched EXCEPT ![s] = t] /\ t \in BOOLEAN
    BY <1>1, <1>2
  <2>2. ASSUME NEW u \in Sends \ {s}, sender[u].stage # "idle"
        PROVE  message'[sender[u].message].chunks = message[sender[u].message].chunks
    <3>1. CASE sender[u].message = m
      <4>1. u \in Under(m) \ {s}
        BY <1>3, <2>2, <3>1 DEF Under
      <4>2. o.refs # 1
        BY <1>8, <1>10, <4>1
      <4>3. message'[m] = r
        BY <1>1, <1>2, <1>3
      <4> QED BY <1>6, <3>1, <4>2, <4>3
    <3>2. CASE sender[u].message # m
      <4>1. sender[u].message \in Messages
        BY <1>2, <2>2 DEF SendInv
      <4>2. message'[sender[u].message] = message[sender[u].message]
        BY <1>1, <1>2, <3>2, <4>1
      <4> QED BY <4>2
    <3> QED BY <3>1, <3>2
  <2> HIDE DEF t
  <2> QED BY <1>1, <1>7, <2>1, <2>2, OneSend
<1>14. DOMAIN flight' = Sends /\ FlightInv'
  BY <1>1, FlightsStay
<1>15. MessagesTypeOK' /\ KeptWhileSent' /\ ContentInv'
  <2> DEFINE h == held[m]
             a == astray[m]
             p == put[m]
             g == got[m]
  <2>1. /\ held' = [held EXCEPT ![m] = h] /\ astray' = [astray EXCEPT ![m] = a]
        /\ put' = [put EXCEPT ![m] = p] /\ got' = [got EXCEPT ![m] = g]
        /\ h \in Nat /\ a \in Nat /\ p \in Seq(Put) /\ g \in Seq(Int \union Seq(Byte))
        /\ Counts(r, h, a, Under(m)') /\ ContentOK(r, p, g)
    BY <1>1, <1>4, <1>11, <1>12
  <2>2. m \in Messages /\ r \in MessageRecord /\ message' = [message EXCEPT ![m] = r]
    BY <1>1, <1>3, <1>6
  <2> HIDE DEF h, a, p, g
  <2> QED BY <1>8, <1>13, <1>14, <2>1, <2>2, OneMessage
<1> QED BY <1>13, <1>14, <1>15 DEF MessagesInv

LEMMA SendKeeps == ASSUME MessagesInv, NEW s \in Sends, NEW m \in Messages, Send(s, m) PROVE MessagesInv'
<1> DEFINE o == message[m]
           c == o.chunks
           r == Prepared(o)
           at_once == Len(c) < 2
           x == [Idle EXCEPT !.message = m, !.stage = IF at_once THEN "sent" ELSE "summing"]
           f == [under_way |-> TRUE, put |-> put[m], touched |-> FALSE, fragments |-> Fragments(c, <<>>)]
<1>1. /\ held[m] > 0 /\ sender[s].stage = "idle" /\ UNCHANGED <<held, astray, put, got>>
      /\ message' = [message EXCEPT ![m] = r] /\ touched' = [touched EXCEPT ![s] = FALSE]
  BY DEF Send, MessagesInv, MessagesTypeOK
<1>2. /\ sender' = [sender EXCEPT ![s] = x]
      /\ IF at_once THEN flight' = [flight EXCEPT ![s] = f] ELSE flight' = flight
  BY DEF Send
<1>3. sender \in [Sends -> SendRecord] /\ touched \in [Sends -> BOOLEAN] /\ message \in [Messages -> MessageRecord]
      /\ SendInv
  BY DEF MessagesInv, MessagesTypeOK
<1>4. /\ o \in MessageRecord /\ held[m] \in Nat /\ astray[m] \in Nat /\ put[m] \in Seq(Put)
      /\ got[m] \in Seq(Int \union Seq(Byte)) /\ o.refs > 0
      /\ Counts(o, held[m], astray[m], Under(m)) /\ ContentOK(o, put[m], got[m]) /\ Holds(c, put[m])
      /\ held = [held EXCEPT ![m] = held[m]] /\ astray = [astray EXCEPT ![m] = astray[m]]
      /\ put = [put EXCEPT ![m] = put[m]] /\ got = [got EXCEPT ![m] = got[m]]
  BY <1>1, HeldMessage
<1>5. /\ r \in MessageRecord /\ r.refs = o.refs + 1 /\ r.busy
      /\ r.mode = o.mode /\ r.chunks = o.chunks /\ r.written = o.written /\ r.index = o.index
      /\ r.rest = o.rest /\ r.remain = o.remain
  BY <1>4, PreparedType
<1> HIDE DEF r
<1>6. x \in SendRecord /\ x.message = m /\ x.stage = IF at_once THEN "sent" ELSE "summing"
  <2> DEFINE i == Idle
             n == IF at_once THEN "sent" ELSE "summing"
  <2>1. x = [i EXCEPT !.message = m, !.stage = n] /\ i \in SendRecord /\ n \in {"sent", "summing"}
    BY IdleType
  <2> HIDE DEF x, i, n
  <2>2. x \in SendRecord /\ x.message = m /\ x.stage = n
    BY <2>1 DEF SendRecord
  <2> QED BY <2>2 DEF n
<1> HIDE DEF x
<1>7. SendOK(x, FALSE, c)
  <2>1. c \in Seq(Seq(Byte))
    BY <1>4, Parts
  <2>2. x.stage # "summed" /\ (x.stage = "summing" => Len(c) >= 2)
    BY <1>6, <2>1
  <2> HIDE DEF c
  <2> QED BY <2>2 DEF SendOK
<1>8. CutFrom(f, c, <<>>) \/ ~ at_once
  <2> SUFFICES ASSUME at_once PROVE CutFrom(f, c, <<>>)
    OBVIOUS
  <2> DEFINE p == put[m]
             fr == Fragments(c, <<>>)
  <2>1. f = [under_way |-> TRUE, put |-> p, touched |-> FALSE, fragments |-> fr]
    OBVIOUS
  <2> HIDE DEF f, p, fr
  <2>2. f.put = p /\ f.fragments = fr
    BY <2>1
  <2>3. ~ (Len(c) >= 2)
    <3>1. c \in Seq(Seq(Byte))
      BY <1>4, Parts
    <3> QED BY <3>1
  <2> HIDE DEF c
  <2> QED BY <1>4, <2>2, <2>3 DEF CutFrom, p, fr
<1> HIDE DEF f
<1>9. DOMAIN flight' = Sends /\ FlightInv'
  <2> HIDE DEF at_once, c
  <2>1. CASE at_once
    BY <1>2, <1>8, <2>1, OneFlight
  <2>2. CASE ~ at_once
    BY <1>2, <2>2, FlightsStay
  <2> QED BY <2>1, <2>2
<1>10. Under(m)' = Under(m) \union {s} /\ s \notin Under(m) /\ \A n \in Messages \ {m} : Under(n)' = Under(n)
  <2>1. sender'[s].stage # "idle" /\ sender'[s].message = m /\ \A u \in Sends \ {s} : sender'[u] = sender[u]
    BY <1>2, <1>3, <1>6
  <2> QED BY <1>1, <2>1 DEF Under
<1>11. Cardinality(Under(m)') = Cardinality(Under(m)) + 1 /\ Cardinality(Under(m)) \in Nat
  <2> DEFINE S == Under(m)
  <2>1. IsFiniteSet(S) /\ s \notin S /\ Cardinality(S) \in Nat
    BY <1>10, UnderIsFinite
  <2>2. Cardinality(S \union {s}) = Cardinality(S) + 1
    <3> HIDE DEF S
    <3> QED BY <2>1, FS_AddElement
  <2> QED BY <1>10, <2>1, <2>2
<1>12. Counts(r, held[m], astray[m], Under(m)')
  <2>1. r.refs = held[m] + astray[m] + Cardinality(Under(m)')
    <3> DEFINE i == held[m]
               j == astray[m]
               n == o.refs
               k == Cardinality(Under(m))
               l == Cardinality(Under(m)')
    <3>1. n = i + j + k /\ l = k + 1 /\ k \in Nat /\ i \in Nat /\ j \in Nat /\ r.refs = n + 1
      BY <1>4, <1>5, <1>11 DEF Counts
    <3> HIDE DEF i, j, k, l, n
    <3>2. r.refs = i + j + l
      BY <3>1
    <3> QED BY <3>2 DEF i, j, l
  <2>2. r.refs # 0
    BY <1>4, <1>5, Parts
  <2> QED BY <1>5, <1>10, <2>1, <2>2 DEF Counts
<1>13. ContentOK(r, put[m], got[m])
  <2> HIDE DEF o
  <2> QED BY <1>4, <1>5, ContentStays
<1>14. SendInv' /\ sender' \in [Sends -> SendRecord] /\ touched' \in [Sends -> BOOLEAN]
  <2> DEFINE t == FALSE
  <2>1. touched' = [touched EXCEPT ![s] = t] /\ t \in BOOLEAN
    BY <1>1
  <2>2. ASSUME NEW n \in Messages PROVE message'[n].chunks = message[n].chunks
    BY <1>1, <1>3, <1>5
  <2>3. ASSUME NEW u \in Sends \ {s}, sender[u].stage # "idle"
        PROVE  message'[sender[u].message].chunks = message[sender[u].message].chunks
    <3>1. sender[u].message \in Messages
      BY <1>3, <2>3 DEF SendInv
    <3> QED BY <2>2, <3>1
  <2>4. x.message \in Messages /\ SendOK(x, t, message'[x.message].chunks)
    <3>1. message'[x.message].chunks = c
      BY <1>6, <2>2
    <3> HIDE DEF c
    <3> QED BY <1>6, <1>7, <3>1
  <2> HIDE DEF t
  <2> QED BY <1>2, <1>6, <2>1, <2>3, <2>4, OneSend
<1>15. MessagesTypeOK' /\ KeptWhileSent' /\ ContentInv'
  <2> DEFINE h == held[m]
             a == astray[m]
             p == put[m]
             g == got[m]
  <2>1. /\ held' = [held EXCEPT ![m] = h] /\ astray' = [astray EXCEPT ![m] = a]
        /\ put' = [put EXCEPT ![m] = p] /\ got' = [got EXCEPT ![m] = g]
        /\ h \in Nat /\ a \in Nat /\ p \in Seq(Put) /\ g \in Seq(Int \union Seq(Byte))
        /\ Counts(r, h, a, Under(m)') /\ ContentOK(r, p, g)
    BY <1>1, <1>4, <1>12, <1>13
  <2>2. r \in MessageRecord /\ message' = [message EXCEPT ![m] = r]
    BY <1>1, <1>5
  <2> HIDE DEF h, a, p, g
  <2> QED BY <1>9, <1>10, <1>14, <2>1, <2>2, OneMessage
<1> QED BY <1>9, <1>14, <1>15 DEF MessagesInv

\* A parcel that was just received gives all its items to read.
LEMMA FreshReads ==
    ASSUME NEW r, NEW c, NEW items, Holds(c, items), r.chunks = c, r.index = 0, r.rest = <<>>, r.remain = Total(c)
    PROVE  Reads(r, items, <<>>)
<1> DEFINE e == Encoded(items)
           l == Len(c)
           k == Len(items)
<1>1. c \in Seq(Seq(Byte)) /\ items \in Seq(Put) /\ FlattenSeq(c) = e
  BY DEF Holds, Packed
<1>2. l \in Nat /\ k \in Nat /\ SubSeq(c, 1, l) = c /\ SubSeq(items, 1, k) = items
  BY <1>1
<1>3. e \in Seq(Byte)
  BY <1>1, TotalType
<1>4. <<>> \o e = e
  <2> HIDE DEF e
  <2> QED BY <1>3
<1>5. Remaining(r) = e
  <2>1. Remaining(r) = <<>> \o FlattenSeq(SubSeq(c, 0 + 1, l))
    BY DEF Remaining, Upto
  <2> HIDE DEF e, l
  <2>2. SubSeq(c, 0 + 1, l) = SubSeq(c, 1, l)
    OBVIOUS
  <2> QED BY <1>1, <1>2, <1>4, <2>1, <2>2
<1>6. Unread(items, 0) = e
  <2> HIDE DEF k
  <2>1. SubSeq(items, 0 + 1, k) = items
    BY <1>2
  <2> QED BY <2>1 DEF Unread, k
<1>7. Len(<<>>) = 0
  OBVIOUS
<1>8. Len(<<>>) <= Len(items) /\ \A i \in 1 .. Len(<<>>) : <<>>[i] = items[i].value
  BY <1>2, <1>7
<1>9. r.index <= Len(r.chunks) /\ r.remain = Len(e)
  BY <1>1, <1>2 DEF Total
<1> HIDE DEF e
<1> QED BY <1>5, <1>6, <1>7, <1>8, <1>9 DEF Reads

LEMMA ReceiveKeeps == ASSUME MessagesInv, NEW s \in Sends, NEW m \in Messages, Receive(s, m) PROVE MessagesInv'
<1> DEFINE fr == flight[s].fragments
           p == flight[s].put
           b == message[m].busy
           c == Parcel(fr)
           n == Total(c)
           r == [Free EXCEPT !.refs = 1, !.mode = "READ", !.busy = b, !.chunks = c, !.remain = n]
<1>1. /\ flight[s].under_way /\ Verified(fr) /\ message[m].refs = 0
      /\ message' = [message EXCEPT ![m] = r] /\ held' = [held EXCEPT ![m] = 1]
      /\ put' = [put EXCEPT ![m] = p] /\ got' = [got EXCEPT ![m] = <<>>] /\ flight' = [flight EXCEPT ![s] = NoFlight]
      /\ UNCHANGED <<astray, sender, touched>>
  BY DEF Receive
<1>2. /\ message[m] \in MessageRecord /\ held[m] \in Nat /\ astray[m] \in Nat /\ astray = [astray EXCEPT ![m] = astray[m]]
      /\ Counts(message[m], held[m], astray[m], Under(m))
      /\ sender \in [Sends -> SendRecord] /\ touched \in [Sends -> BOOLEAN]
  BY HeldMessage
<1>3. astray[m] = 0 /\ Under(m) = {} /\ ~ b /\ b \in BOOLEAN
  BY <1>1, <1>2, UnderIsFinite, Parts DEF Counts
<1>4. Holds(c, p)
  <2>1. PICK d, x : CutFrom(flight[s], d, x)
    BY <1>1 DEF MessagesInv, FlightInv
  <2>2. Holds(d, p) /\ fr = Fragments(d, x) /\ (Len(d) >= 2 => x \in Sums)
    BY <2>1 DEF CutFrom
  <2>3. d # <<>>
    <3>1. SUFFICES ASSUME d = <<>> PROVE FALSE
      OBVIOUS
    <3>2. Len(<<>>) = 0
      OBVIOUS
    <3>3. Fragments(<<>>, x) = <<>>
      BY <3>2 DEF Fragments
    <3>4. fr # <<>>
      BY <1>1 DEF Verified
    <3> QED BY <2>2, <3>1, <3>3, <3>4
  <2>4. Packed(d)
    BY <2>2 DEF Holds
  <2>5. Parcel(Fragments(d, x)) = d
    BY <2>2, <2>3, <2>4, ParcelIsChunks
  <2> QED BY <2>2, <2>5
<1>5. c \in Seq(Seq(Byte)) /\ n \in Nat /\ n \in Int /\ p \in Seq(Put)
  <2>1. c \in Seq(Seq(Byte)) /\ p \in Seq(Put)
    BY <1>4 DEF Holds, Packed
  <2> HIDE DEF c
  <2> QED BY <2>1, TotalType
<1>6. /\ r \in MessageRecord /\ r.refs = 1 /\ r.mode = "READ" /\ r.busy = b /\ r.chunks = c /\ r.index = 0
      /\ r.rest = <<>> /\ r.remain = n
  <2> DEFINE o == Free
  <2>1. r = [o EXCEPT !.refs = 1, !.mode = "READ", !.busy = b, !.chunks = c, !.remain = n] /\ o \in MessageRecord
    BY FreeType
  <2> HIDE DEF r, o, b, c, n
  <2>2. /\ Remade(r, o) /\ r.refs = 1 /\ r.mode = "READ" /\ r.busy = b /\ r.chunks = c /\ r.written = o.written
        /\ r.index = o.index /\ r.rest = o.rest /\ r.remain = n
    BY <2>1 DEF MessageRecord, Remade
  <2>3. o.written \in Int /\ o.index \in Nat /\ o.rest \in Seq(Byte) /\ 1 \in Nat
    BY <2>1, Parts
  <2>4. r \in MessageRecord
    BY <1>3, <1>5, <2>1, <2>2, <2>3, RemadeType
  <2> QED BY <2>2, <2>4, FreeType DEF o
<1> HIDE DEF r
<1>7. Reads(r, p, <<>>)
  <2> HIDE DEF c, p
  <2> QED BY <1>4, <1>6, FreshReads
<1>8. ContentOK(r, p, <<>>)
  BY <1>4, <1>6, <1>7 DEF ContentOK
<1>9. Counts(r, 1, astray[m], Under(m))
  <2>1. Cardinality(Under(m)) = 0
    BY <1>3, FS_EmptySet
  <2> QED BY <1>3, <1>6, <2>1 DEF Counts
<1> HIDE DEF c, b, n, fr
<1>10. SendInv' /\ \A k : Under(k)' = Under(k)
  <2>1. sender' = sender /\ touched' \in [Sends -> BOOLEAN] /\ \A u \in Sends : touched[u] => touched'[u]
    BY <1>1, <1>2
  <2>2. \A u \in Under(m) : touched'[u] \/ sender[u].stage = "sent" \/ r.chunks = message[m].chunks
    BY <1>3
  <2> QED BY <1>1, <1>6, <2>1, <2>2, SendsStay
<1>11. DOMAIN flight' = Sends /\ FlightInv'
  <2> DEFINE f == NoFlight
  <2>1. flight' = [flight EXCEPT ![s] = f] /\ ~ f.under_way
    BY <1>1 DEF NoFlight
  <2> HIDE DEF f
  <2> QED BY <2>1, OneFlight
<1>12. MessagesTypeOK' /\ KeptWhileSent' /\ ContentInv'
  <2> DEFINE a == astray[m]
             h == 1
             g == <<>>
  <2>1. /\ held' = [held EXCEPT ![m] = h] /\ astray' = [astray EXCEPT ![m] = a]
        /\ put' = [put EXCEPT ![m] = p] /\ got' = [got EXCEPT ![m] = g]
        /\ h \in Nat /\ a \in Nat /\ g \in Seq(Int \union Seq(Byte))
        /\ Counts(r, h, a, Under(m)') /\ ContentOK(r, p, g)
    BY <1>1, <1>2, <1>8, <1>9, <1>10
  <2>2. sender' \in [Sends -> SendRecord] /\ touched' \in [Sends -> BOOLEAN]
    BY <1>1, <1>2
  <2>3. p \in Seq(Put) /\ r \in MessageRecord /\ message' = [message EXCEPT ![m] = r]
        /\ \A k \in Messages \ {m} : Under(k)' = Under(k)
    BY <1>1, <1>5, <1>6, <1>10
  <2> HIDE DEF h, a, p, g
  <2> QED BY <1>11, <2>1, <2>2, <2>3, OneMessage
<1> QED BY <1>10, <1>11, <1>12 DEF MessagesInv

LEMMA MessagesStart == MessagesInit => MessagesInv
<1> SUFFICES ASSUME MessagesInit PROVE MessagesInv
  OBVIOUS
<1>1. /\ message = [m \in Messages |-> Free] /\ held = [m \in Messages |-> 0] /\ astray = [m \in Messages |-> 0]
      /\ put = [m \in Messages |-> <<>>] /\ got = [m \in Messages |-> <<>>]
      /\ sender = [s \in Sends |-> Idle] /\ touched = [s \in Sends |-> FALSE] /\ flight = [s \in Sends |-> NoFlight]
  BY DEF MessagesInit
<1>2. <<>> \in Seq(Put) /\ <<>> \in Seq(Int \union Seq(Byte))
  OBVIOUS
<1>3. MessagesTypeOK
  <2>1. message \in [Messages -> MessageRecord] /\ sender \in [Sends -> SendRecord]
    BY <1>1, FreeType, IdleType
  <2>2. held \in [Messages -> Nat] /\ astray \in [Messages -> Nat] /\ touched \in [Sends -> BOOLEAN] /\ DOMAIN flight = Sends
    BY <1>1
  <2>3. put \in [Messages -> Seq(Put)] /\ got \in [Messages -> Seq(Int \union Seq(Byte))]
    BY <1>1, <1>2
  <2> QED BY <2>1, <2>2, <2>3 DEF MessagesTypeOK
<1>4. ASSUME NEW m \in Messages PROVE Under(m) = {} /\ Cardinality(Under(m)) = 0
  <2>1. Under(m) = {}
    BY <1>1, IdleType DEF Under
  <2> QED BY <2>1, FS_EmptySet
<1>5. KeptWhileSent
  BY <1>1, <1>4, FreeType DEF KeptWhileSent
<1>6. ContentInv
  BY <1>1, FreeType DEF ContentInv, ContentOK
<1>7. SendInv /\ FlightInv
  BY <1>1, IdleType DEF SendInv, FlightInv, NoFlight
<1> QED BY <1>3, <1>5, <1>6, <1>7 DEF MessagesInv

LEMMA MessagesStep == MessagesInv /\ [MessagesNext]_messageVars => MessagesInv'
<1> SUFFICES ASSUME MessagesInv, [MessagesNext]_messageVars PROVE MessagesInv'
  OBVIOUS
<1>1. ASSUME NEW m \in Messages, AcquireMessage(m) PROVE MessagesInv'
  BY <1>1, AcquireKeeps
<1>2. ASSUME NEW m \in Messages, Reset(m) PROVE MessagesInv'
  BY <1>2, ResetKeeps
<1>3. ASSUME NEW m \in Messages, ReadNext(m) PROVE MessagesInv'
  BY <1>3, ReadNextKeeps
<1>4. ASSUME NEW m \in Messages, Unref(m) PROVE MessagesInv'
  BY <1>4, UnrefKeeps
<1>5. ASSUME NEW m \in Messages, SendAstray(m) PROVE MessagesInv'
  BY <1>5, SendAstrayKeeps
<1>6. ASSUME NEW m \in Messages, SendToPlugin(m) PROVE MessagesInv'
  BY <1>6, SendToPluginKeeps
<1>7. ASSUME NEW m \in Messages, NEW item \in Items, Write(m, item) PROVE MessagesInv'
  BY <1>7, WriteKeeps
<1>8. ASSUME NEW s \in Sends, Sum(s) PROVE MessagesInv'
  BY <1>8, SumKeeps
<1>9. ASSUME NEW s \in Sends, Dispatch(s) PROVE MessagesInv'
  BY <1>9, DispatchKeeps
<1>10. ASSUME NEW s \in Sends, SendResult(s) PROVE MessagesInv'
  BY <1>10, SendResultKeeps
<1>11. ASSUME NEW s \in Sends, Lost(s) PROVE MessagesInv'
  BY <1>11, LostKeeps
<1>12. ASSUME NEW s \in Sends, NEW m \in Messages, Send(s, m) PROVE MessagesInv'
  BY <1>12, SendKeeps
<1>13. ASSUME NEW s \in Sends, NEW m \in Messages, Receive(s, m) PROVE MessagesInv'
  BY <1>13, ReceiveKeeps
<1>14. CASE UNCHANGED messageVars
  BY <1>14 DEF messageVars, MessagesInv, MessagesTypeOK, KeptWhileSent, ContentInv, SendInv, FlightInv, Under
<1> QED BY <1>1, <1>2, <1>3, <1>4, <1>5, <1>6, <1>7, <1>8, <1>9, <1>10, <1>11, <1>12, <1>13, <1>14, Zenon DEF MessagesNext

-------------------------------------------------------------------------------
(***************************************************************************)
(* Messages: what follows.                                                 *)
(***************************************************************************)

\* MessagesInv holds in every state: chunks are packed and hold what was put, a reader
\* has before it what was not yet read, and every reference is accounted for.
THEOREM MessagesAreConsistent == MessagesSpec => []MessagesInv
<1>1. MessagesInit => MessagesInv
  BY MessagesStart
<1>2. MessagesInv /\ [MessagesNext]_messageVars => MessagesInv'
  BY MessagesStep
<1> QED BY <1>1, <1>2, PTL DEF MessagesSpec

\* KeptWhileSent: a message is kept while a send of it has no result (message.c:179-194).
THEOREM SendsKeepTheirMessage == MessagesSpec => []KeptWhileSent
<1>1. MessagesInv => KeptWhileSent
  BY DEF MessagesInv
<1> QED BY <1>1, MessagesAreConsistent, PTL

LEMMA WhatWasRead == ASSUME MessagesInv PROVE ReadIsWritten
<1> SUFFICES ASSUME NEW m \in Messages, message[m].mode = "READ"
             PROVE  /\ Len(got[m]) <= Len(put[m])
                    /\ \A i \in DOMAIN got[m] : got[m][i] = put[m][i].value
  BY DEF ReadIsWritten
<1>1. Reads(message[m], put[m], got[m]) /\ got[m] \in Seq(Int \union Seq(Byte))
  BY HeldMessage DEF ContentOK
<1>2. DOMAIN got[m] = 1 .. Len(got[m])
  BY <1>1
<1> QED BY <1>1, <1>2 DEF Reads

LEMMA WhatIsLeft == ASSUME MessagesInv PROVE SizeIsContent
<1> SUFFICES ASSUME NEW m \in Messages, message[m].refs > 0
             PROVE  /\ Total(message[m].chunks) <= message_capacity /\ Len(message[m].chunks) <= max_fragments
                    /\ message[m].mode = "WRITE" => message[m].written = Total(message[m].chunks)
                    /\ message[m].mode = "READ" =>
                          message[m].remain = Total(message[m].chunks) -
                                                Len(Encoded(SubSeq(put[m], 1, Len(got[m]))))
  BY DEF SizeIsContent
<1> DEFINE c == message[m].chunks
           items == put[m]
           n == Len(got[m])
           before == Encoded(SubSeq(items, 1, n))
           after == Unread(items, n)
<1>1. /\ ContentOK(message[m], items, got[m]) /\ items \in Seq(Put) /\ got[m] \in Seq(Int \union Seq(Byte))
  BY HeldMessage
<1>2. Holds(c, items)
  BY <1>1 DEF ContentOK
<1>3. message[m].mode = "WRITE" => message[m].written = Total(c)
  BY <1>1 DEF ContentOK
<1>4. ASSUME message[m].mode = "READ" PROVE message[m].remain = Total(c) - Len(before)
  <2>1. message[m].remain = Len(after) /\ n \in 0 .. Len(items)
    <3>1. Reads(message[m], items, got[m])
      BY <1>1, <1>4 DEF ContentOK
    <3>2. n \in Nat /\ Len(items) \in Nat
      BY <1>1
    <3> QED BY <3>1, <3>2 DEF Reads
  <2>2. /\ SubSeq(items, 1, n) \in Seq(Put) /\ SubSeq(items, n + 1, Len(items)) \in Seq(Put)
        /\ Encoded(items) = before \o after
    <3> HIDE DEF items, n
    <3> QED BY <1>1, <2>1, EncodedCut DEF Unread
  <2>3. before \in Seq(Byte) /\ after \in Seq(Byte)
    <3> HIDE DEF items, n
    <3> QED BY <2>2, AllBytesType DEF Unread
  <2>4. Total(c) = Len(Encoded(items))
    BY <1>2 DEF Holds, Total
  <2> HIDE DEF before, after, c, items
  <2>5. Len(before \o after) = Len(before) + Len(after) /\ Len(before) \in Nat /\ Len(after) \in Nat
    BY <2>3, ConcatProperties, LenProperties
  <2> QED BY <2>1, <2>2, <2>4, <2>5
<1> QED BY <1>2, <1>3, <1>4 DEF Holds

\* ContentIsKept: the values that are read are the values that were written, and the
\* sizes that are kept are those of the chunks (message.c:359-539, parcel.c:252-395).
THEOREM MessagesKeepTheirContent == MessagesSpec => []ContentIsKept
<1>1. MessagesInv => ContentIsKept
  BY WhatWasRead, WhatIsLeft DEF ContentIsKept
<1> QED BY <1>1, MessagesAreConsistent, PTL

\* SentIsReceived: what was left alone until it was cut is put together again as it was
\* written, whatever its size (dispatcher.c:117-150, endpoint.c:75), when the fragments of
\* a message have room for its capacity and a checksum.
THEOREM ReceivedAsWritten ==
    ASSUME Roomy
    PROVE  MessagesSpec => []SentIsReceived
<1>1. ASSUME MessagesInv PROVE SentIsReceived
  <2> SUFFICES ASSUME NEW s \in Sends, flight[s].under_way, ~ flight[s].touched, Encoded(flight[s].put) # <<>>
               PROVE  /\ Verified(flight[s].fragments)
                      /\ FlattenSeq(Parcel(flight[s].fragments)) = Encoded(flight[s].put)
    BY DEF SentIsReceived
  <2> DEFINE fr == flight[s].fragments
             e == Encoded(flight[s].put)
  <2>1. PICK c, x : CutFrom(flight[s], c, x)
    BY <1>1 DEF MessagesInv, FlightInv
  <2>2. /\ Packed(c) /\ Len(c) <= max_fragments /\ Total(c) <= message_capacity /\ FlattenSeq(c) = e
        /\ fr = Fragments(c, x) /\ (Len(c) >= 2 => x \in Sums /\ x = Checksum(FlattenSeq(c)))
    BY <2>1 DEF CutFrom, Holds
  <2>3. c # <<>>
    BY <2>2, EncodedOne DEF FlattenSeq
  <2> HIDE DEF e, fr
  <2>4. Verified(Fragments(c, x))
    BY <2>2, <2>3, SentVerifies
  <2>5. Parcel(Fragments(c, x)) = c
    BY <2>2, <2>3, ParcelIsChunks
  <2> QED BY <2>2, <2>4, <2>5 DEF e, fr
<1> QED BY <1>1, MessagesAreConsistent, PTL

================================================================================
