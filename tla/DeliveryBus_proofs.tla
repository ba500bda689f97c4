-------------------------- MODULE DeliveryBus_proofs --------------------------
(***************************************************************************)
(* Theorems about the delivery bus, with their proofs.                     *)
(***************************************************************************)
EXTENDS DeliveryBus, DataTheorems

(***************************************************************************)
(* The inductive invariants.                                               *)
(***************************************************************************)

DispatcherRecord == [seq : Nat \ {0}, parcel : Nat \ {0}, mode : Modes, size : Nat \ {0}]
FragmentRecord == [seq : Nat \ {0}, parcel : Nat \ {0}, mode : Modes, size : Nat \ {0}, index : Nat]

\* The dispatchers up to this number have left the queue, and their fragments were sent.
Sent == Len(numbered) - Len(pending_dispatchers)

\* A fragment of one of the first n dispatchers.
PieceOf(f, n, s) == f.seq \in 1 .. n /\ \E i \in 1 .. s[f.seq].size : f = Fragment(s[f.seq], i)

PostedTypeOK ==
    /\ posted \in Seq([mode : Modes, size : Sizes]) /\ Len(posted) <= MaxParcels
    /\ summing \subseteq DOMAIN posted /\ Len(numbered) + Cardinality(summing) = Len(posted)

SenderTypeOK ==
    /\ numbered \in Seq(DispatcherRecord)
    /\ \A n \in DOMAIN numbered : numbered[n].seq = n /\ numbered[n] \in Dispatchers
    /\ pending_dispatchers \in Seq(DispatcherRecord) /\ Len(pending_dispatchers) <= Len(numbered)
    /\ \A k \in DOMAIN pending_dispatchers : pending_dispatchers[k] = numbered[Sent + k]
    /\ \/ incomplete_reliable_dispatcher = None
       \/ \E n \in 1 .. Sent : incomplete_reliable_dispatcher = numbered[n] /\ Reliable(numbered[n])

PiecesTypeOK ==
    /\ data \in Seq(FragmentRecord) /\ \A k \in DOMAIN data : PieceOf(data[k], Sent, numbered)
    /\ acks \in Seq(FragmentRecord) /\ \A k \in DOMAIN acks : PieceOf(acks[k], Sent, numbered) /\ Reliable(acks[k])
    /\ receivers \subseteq FragmentRecord /\ \A f \in receivers : PieceOf(f, Sent, numbered)

ReceiverTypeOK ==
    /\ delivered \in Seq(DispatcherRecord)
    /\ \A k \in DOMAIN delivered : \E n \in 1 .. Sent : delivered[k] = numbered[n]
    /\ last_recv_reliable_sequence \in Nat /\ last_recv_sequenced_sequence \in Nat
    /\ incomplete_reliable_receiver \in Nat

BusTypeOK == PostedTypeOK /\ SenderTypeOK /\ PiecesTypeOK /\ ReceiverTypeOK

\* A fragment that is not reliable is under way once, and is forgotten when its parcel
\* has been delivered; a worker verifies whole parcels.
FragmentsOnce ==
    /\ \A j, k \in DOMAIN data : data[j] = data[k] /\ ~ Reliable(data[j]) => j = k
    /\ \A k \in DOMAIN data : ~ Reliable(data[k]) => data[k] \notin receivers
    /\ \A n \in DOMAIN delivered : ~ Reliable(delivered[n]) =>
          /\ \A k \in DOMAIN data : data[k].seq # delivered[n].seq
          /\ \A f \in receivers : f.seq # delivered[n].seq
    /\ \A seq \in verifying :
          /\ seq \in 1 .. Sent /\ numbered[seq].size >= 2
          /\ \A i \in 1 .. numbered[seq].size : Fragment(numbered[seq], i) \in receivers

\* Nothing was delivered that is newer than the last sequenced parcel.
NoneIsNewer ==
    \A k \in DOMAIN delivered :
        delivered[k].mode = "SEQUENCED" => delivered[k].seq <= last_recv_sequenced_sequence

BusInv == BusTypeOK /\ FragmentsOnce /\ NoneIsNewer /\ SequencedOrder

\* The last reliable parcel that is complete at the receiving end is this one or one before.
Done == IF incomplete_reliable_receiver = 0 THEN last_recv_reliable_sequence
        ELSE last_recv_reliable_sequence - 1

ReliableAt(n) == n \in 1 .. Sent /\ Reliable(numbered[n])

\* One reliable parcel at a time: the receiving end has had all but the one that blocks
\* the bus.
OneAtATime ==
    LET blocking == incomplete_reliable_dispatcher.seq
    IN  /\ last_recv_reliable_sequence = 0 \/ ReliableAt(last_recv_reliable_sequence)
        /\ incomplete_reliable_receiver \in {0, last_recv_reliable_sequence}
        /\ \A n \in 1 .. Sent : ReliableAt(n) =>
              /\ n # blocking => n <= last_recv_reliable_sequence
              /\ incomplete_reliable_dispatcher # None => n <= blocking
        /\ \A f \in receivers : Reliable(f) => f.seq = incomplete_reliable_receiver

Has(f) == f \in receivers \/ f.seq <= Done

\* What is acknowledged is at the receiving end.
AcksAreTrue ==
    /\ \A k \in DOMAIN acks : Has(acks[k])
    /\ acked \subseteq 1 .. incomplete_reliable_dispatcher.size
    /\ incomplete_reliable_dispatcher # None => \A i \in acked : Has(Fragment(incomplete_reliable_dispatcher, i))

\* The reliable parcels of the first n.
ReliableTo(s, n) == OnlyReliable(SubSeq(s, 1, n))

\* The reliable parcels that are delivered are those that are complete.
DeliveredIsDone == OnlyReliable(delivered) = ReliableTo(numbered, Done)

ChannelInv == OneAtATime /\ AcksAreTrue /\ DeliveredIsDone

\* A step by which no fragment of a reliable parcel is received after one of a later parcel.
NoneIsLate == \A f \in ToSet(data) : ReceiveData(f) /\ Reliable(f) => last_recv_reliable_sequence <= f.seq

\* No reliable fragment under way is older than what has been received, and they are in order.
NoneIsOlder ==
    /\ \A k \in DOMAIN data : Reliable(data[k]) => last_recv_reliable_sequence <= data[k].seq
    /\ \A j, k \in DOMAIN data : j < k /\ Reliable(data[j]) /\ Reliable(data[k]) => data[j].seq <= data[k].seq

-----------------------------------------------------------------------------

(***************************************************************************)
(* The operators of the bus.                                               *)
(***************************************************************************)

LEMMA FirstReliable ==
    ASSUME NEW queue \in Seq(DispatcherRecord)
    PROVE  LET b == SelectInSeq(queue, Reliable)
           IN  \/ b = 0 /\ \A k \in 1 .. Len(queue) : ~ Reliable(queue[k])
               \/ b \in 1 .. Len(queue) /\ Reliable(queue[b]) /\ \A k \in 1 .. b - 1 : ~ Reliable(queue[k])
<1> DEFINE I == {i \in 1 .. Len(queue) : Reliable(queue[i])}
<1>1. SelectInSeq(queue, Reliable) = IF I # {} THEN Min(I) ELSE 0
  BY DEF SelectInSeq
<1>2. CASE I = {}
  BY <1>1, <1>2
<1>3. CASE I # {}
  <2>1. \E m \in I : \A k \in I : m <= k
    <3>1. I \in SUBSET Nat
      OBVIOUS
    <3> HIDE DEF I
    <3> QED BY <1>3, <3>1, Least
  <2>2. Min(I) \in I /\ \A k \in I : Min(I) <= k
    <3> HIDE DEF I
    <3> QED BY <2>1 DEF Min
  <2>3. \A k \in 1 .. Min(I) - 1 : ~ Reliable(queue[k])
    <3> SUFFICES ASSUME NEW k \in 1 .. Min(I) - 1, Reliable(queue[k]) PROVE FALSE
      OBVIOUS
    <3>1. k \in I /\ Min(I) \in Nat
      BY <2>2
    <3> HIDE DEF I
    <3> QED BY <2>2, <3>1
  <2>4. Min(I) \in 1 .. Len(queue) /\ Reliable(queue[Min(I)])
    BY <2>2
  <2> HIDE DEF I
  <2> QED BY <1>1, <1>3, <2>3, <2>4
<1> QED BY <1>2, <1>3

LEMMA FragmentType ==
    ASSUME NEW d \in DispatcherRecord, NEW i \in 1 .. d.size
    PROVE  /\ Fragment(d, i) \in FragmentRecord
           /\ Fragment(d, i).seq = d.seq /\ Fragment(d, i).index = i /\ Fragment(d, i).size = d.size
           /\ Fragment(d, i).parcel = d.parcel /\ Fragment(d, i).mode = d.mode
           /\ (Reliable(Fragment(d, i)) <=> Reliable(d))
BY DEF Fragment, FragmentRecord, DispatcherRecord, Reliable

\* pomelo_delivery_dispatcher_send: some fragments of d, in the order of their indices.
LEMMA FragmentsInOrder ==
    ASSUME NEW d \in DispatcherRecord, NEW done
    PROVE  /\ Fragments(d, done) \in Seq(FragmentRecord)
           /\ \E at : /\ \A k \in DOMAIN Fragments(d, done) :
                            at[k] \in 1 .. d.size /\ Fragments(d, done)[k] = Fragment(d, at[k])
                      /\ \A k, l \in DOMAIN Fragments(d, done) : k < l => at[k] < at[l]
<1> DEFINE s == [i \in 1 .. d.size |-> IF i \in done THEN <<>> ELSE <<Fragment(d, i)>>]
<1>1. d.size \in Nat
  BY DEF DispatcherRecord
<1>2. ASSUME NEW i \in 1 .. d.size
      PROVE  /\ s[i] \in Seq(FragmentRecord)
             /\ \A j \in DOMAIN s[i] : j = 1 /\ s[i][j] = Fragment(d, i)
  <2>1. CASE i \in done
    <3>1. s[i] = <<>>
      BY <2>1
    <3> HIDE DEF s
    <3> QED BY <3>1
  <2>2. CASE i \notin done
    <3>1. s[i] = <<Fragment(d, i)>> /\ Fragment(d, i) \in FragmentRecord
      BY <2>2, FragmentType
    <3> HIDE DEF s
    <3> QED BY <3>1
  <2> QED BY <2>1, <2>2
<1>3. s \in Seq(Seq(FragmentRecord)) /\ DOMAIN s = 1 .. d.size
  <2>1. s \in [1 .. d.size -> Seq(FragmentRecord)]
    BY <1>2
  <2> HIDE DEF s
  <2> QED BY <1>1, <2>1, IsASeq
<1>4. FlattenSeq(s) = Fragments(d, done)
  BY DEF Fragments
<1> HIDE DEF s
<1>5. FlattenSeq(s) \in Seq(FragmentRecord)
  BY <1>3, FlattenAppend, EmptySeq
<1>6. PICK row, column : Places(row, column, s)
  BY <1>3, FlattenPlaces
<1>7. ASSUME NEW k \in DOMAIN Fragments(d, done)
      PROVE  row[k] \in 1 .. d.size /\ Fragments(d, done)[k] = Fragment(d, row[k]) /\ column[k] = 1
  BY <1>2, <1>3, <1>4, <1>6 DEF Places
<1>8. ASSUME NEW k \in DOMAIN Fragments(d, done), NEW l \in DOMAIN Fragments(d, done), k < l
      PROVE  row[k] < row[l]
  <2>1. row[k] < row[l] \/ (row[k] = row[l] /\ column[k] < column[l])
    BY <1>4, <1>6, <1>8 DEF Places
  <2> QED BY <1>7, <2>1
<1> QED BY <1>4, <1>5, <1>7, <1>8

\* The fragments of some dispatchers, one dispatcher after the other.
OneByOne(more, row, at, going) ==
    /\ \A k \in DOMAIN more : /\ row[k] \in 1 .. Len(going) /\ at[k] \in 1 .. going[row[k]].size
                              /\ more[k] = Fragment(going[row[k]], at[k])
    /\ \A k, l \in DOMAIN more : k < l => row[k] < row[l] \/ (row[k] = row[l] /\ at[k] < at[l])

AllFragments(going) == FlattenSeq([i \in 1 .. Len(going) |-> Fragments(going[i], {})])

LEMMA AllFragmentsInOrder ==
    ASSUME NEW going \in Seq(DispatcherRecord)
    PROVE  /\ AllFragments(going) \in Seq(FragmentRecord)
           /\ \E row, at : OneByOne(AllFragments(going), row, at, going)
<1> DEFINE s == [i \in 1 .. Len(going) |-> Fragments(going[i], {})]
           more == FlattenSeq(s)
<1>1. Len(going) \in Nat /\ \A i \in 1 .. Len(going) : going[i] \in DispatcherRecord
  BY ElementOfSeq, LenProperties
<1>2. \A i \in 1 .. Len(going) : s[i] \in Seq(FragmentRecord) /\ s[i] = Fragments(going[i], {})
  BY <1>1, FragmentsInOrder
<1>3. s \in Seq(Seq(FragmentRecord)) /\ DOMAIN s = 1 .. Len(going)
  <2>1. s \in [1 .. Len(going) -> Seq(FragmentRecord)]
    BY <1>2
  <2> HIDE DEF s
  <2> QED BY <1>1, <2>1, IsASeq
<1> DEFINE Order(at, i) ==
       /\ \A k \in DOMAIN s[i] : at[k] \in 1 .. going[i].size /\ s[i][k] = Fragment(going[i], at[k])
       /\ \A k, l \in DOMAIN s[i] : k < l => at[k] < at[l]
<1> DEFINE index == [i \in 1 .. Len(going) |-> CHOOSE at : Order(at, i)]
<1> HIDE DEF s
<1>4. \A i \in 1 .. Len(going) : Order(index[i], i)
  <2>1. ASSUME NEW i \in 1 .. Len(going) PROVE \E at : Order(at, i)
    <3>1. PICK at : /\ \A k \in DOMAIN Fragments(going[i], {}) :
                           at[k] \in 1 .. going[i].size /\ Fragments(going[i], {})[k] = Fragment(going[i], at[k])
                    /\ \A k, l \in DOMAIN Fragments(going[i], {}) : k < l => at[k] < at[l]
      BY <1>1, FragmentsInOrder
    <3>2. s[i] = Fragments(going[i], {})
      BY <1>2
    <3>3. Order(at, i)
      BY <3>1, <3>2
    <3> QED BY <3>3
  <2> HIDE DEF Order
  <2> QED BY <2>1
<1> HIDE DEF index
<1>5. PICK row, column : Places(row, column, s)
  BY <1>3, FlattenPlaces
<1>6. more \in Seq(FragmentRecord)
  BY <1>3, FlattenAppend, EmptySeq
<1> DEFINE at == [k \in DOMAIN more |-> index[row[k]][column[k]]]
<1>7. ASSUME NEW k \in DOMAIN more
      PROVE  /\ row[k] \in 1 .. Len(going) /\ at[k] = index[row[k]][column[k]] /\ column[k] \in DOMAIN s[row[k]]
             /\ at[k] \in 1 .. going[row[k]].size /\ more[k] = Fragment(going[row[k]], at[k])
  <2>1. row[k] \in 1 .. Len(going) /\ column[k] \in DOMAIN s[row[k]] /\ more[k] = s[row[k]][column[k]]
    BY <1>3, <1>5 DEF Places
  <2> HIDE DEF more
  <2> QED BY <1>4, <2>1
<1>8. ASSUME NEW k \in DOMAIN more, NEW l \in DOMAIN more, k < l
      PROVE  row[k] < row[l] \/ (row[k] = row[l] /\ at[k] < at[l])
  <2>1. row[k] < row[l] \/ (row[k] = row[l] /\ column[k] < column[l])
    BY <1>5, <1>8 DEF Places
  <2> HIDE DEF more, at
  <2>2. CASE row[k] = row[l] /\ column[k] < column[l]
    BY <1>4, <1>7, <2>2
  <2> QED BY <2>1, <2>2
<1>9. more = AllFragments(going)
  BY DEF s, AllFragments
<1> HIDE DEF more, at
<1>10. OneByOne(more, row, at, going)
  BY <1>7, <1>8 DEF OneByOne
<1> QED BY <1>6, <1>9, <1>10

LEMMA Carried ==
    ASSUME NEW S, NEW channel \in Seq(S), NEW more \in Seq(S)
    PROVE  /\ Carries(channel, more) \in Seq(S)
           /\ \A k \in DOMAIN Carries(channel, more) :
                 \/ k \in DOMAIN channel /\ Carries(channel, more)[k] = channel[k]
                 \/ /\ k > Len(channel) /\ k - Len(channel) \in DOMAIN more
                    /\ Carries(channel, more)[k] = more[k - Len(channel)]
<1> DEFINE all == channel \o more
           n == IF Len(all) < MaxInFlight THEN Len(all) ELSE MaxInFlight
<1>1. /\ all \in Seq(S) /\ Len(all) = Len(channel) + Len(more) /\ Len(channel) \in Nat /\ Len(more) \in Nat
      /\ \A k \in 1 .. Len(channel) + Len(more) :
            all[k] = IF k <= Len(channel) THEN channel[k] ELSE more[k - Len(channel)]
  BY ConcatProperties
<1>2. n \in 0 .. Len(all) /\ Carries(channel, more) = SubSeq(all, 1, n)
  BY <1>1, BusAssumption DEF Carries
<1> HIDE DEF all, n
<1>3. SubSeq(all, 1, n) \in Seq(S) /\ DOMAIN SubSeq(all, 1, n) = 1 .. n /\ \A k \in 1 .. n : SubSeq(all, 1, n)[k] = all[k]
  BY <1>1, <1>2
<1>4. DOMAIN channel = 1 .. Len(channel) /\ DOMAIN more = 1 .. Len(more)
  OBVIOUS
<1> QED BY <1>1, <1>2, <1>3, <1>4

LEMMA RemovedAt ==
    ASSUME NEW S, NEW s \in Seq(S), NEW i \in DOMAIN s
    PROVE  /\ RemoveAt(s, i) \in Seq(S) /\ DOMAIN RemoveAt(s, i) = 1 .. Len(s) - 1
           /\ \A k \in 1 .. Len(s) - 1 : RemoveAt(s, i)[k] = s[IF k < i THEN k ELSE k + 1]
<1> DEFINE a == SubSeq(s, 1, i - 1)
           b == SubSeq(s, i + 1, Len(s))
<1>1. i \in 1 .. Len(s) /\ Len(s) \in Nat
  OBVIOUS
<1>2. a \in Seq(S) /\ Len(a) = i - 1 /\ \A k \in 1 .. i - 1 : a[k] = s[k]
  BY <1>1
<1>3. b \in Seq(S) /\ Len(b) = Len(s) - i /\ \A k \in 1 .. Len(s) - i : b[k] = s[i + k]
  BY <1>1
<1>4. RemoveAt(s, i) = a \o b
  BY DEF RemoveAt
<1> HIDE DEF a, b
<1>5. a \o b \in Seq(S) /\ Len(a \o b) = Len(s) - 1
      /\ \A k \in 1 .. Len(s) - 1 : (a \o b)[k] = IF k <= i - 1 THEN a[k] ELSE b[k - (i - 1)]
  <2>1. Len(a) + Len(b) = Len(s) - 1 /\ i - 1 \in Nat
    BY <1>1, <1>2, <1>3
  <2>2. a \o b \in Seq(S) /\ Len(a \o b) = Len(a) + Len(b)
        /\ \A k \in 1 .. Len(a) + Len(b) : (a \o b)[k] = IF k <= Len(a) THEN a[k] ELSE b[k - Len(a)]
    BY <1>2, <1>3, ConcatProperties
  <2> QED BY <1>2, <2>1, <2>2
<1>6. ASSUME NEW k \in 1 .. Len(s) - 1 PROVE (a \o b)[k] = s[IF k < i THEN k ELSE k + 1]
  <2>1. CASE k < i
    BY <1>1, <1>2, <1>5, <2>1
  <2>2. CASE ~ (k < i)
    <3>1. k - (i - 1) \in 1 .. Len(s) - i /\ i + (k - (i - 1)) = k + 1 /\ ~ (k <= i - 1)
      BY <1>1, <2>2
    <3>2. (a \o b)[k] = b[k - (i - 1)]
      BY <1>5, <3>1
    <3>3. b[k - (i - 1)] = s[k + 1]
      BY <1>3, <3>1
    <3> QED BY <2>2, <3>2, <3>3
  <2> QED BY <2>1, <2>2
<1> QED BY <1>4, <1>5, <1>6

LEMMA RemovedElements ==
    ASSUME NEW S, NEW s \in Seq(S), NEW i \in DOMAIN s
    PROVE  /\ RemoveAt(s, i) \in Seq(S)
           /\ \A k \in DOMAIN RemoveAt(s, i) : \E j \in DOMAIN s : RemoveAt(s, i)[k] = s[j]
<1>1. /\ RemoveAt(s, i) \in Seq(S) /\ DOMAIN RemoveAt(s, i) = 1 .. Len(s) - 1
      /\ \A k \in 1 .. Len(s) - 1 : RemoveAt(s, i)[k] = s[IF k < i THEN k ELSE k + 1]
  BY RemovedAt
<1>2. i \in 1 .. Len(s) /\ Len(s) \in Nat /\ DOMAIN s = 1 .. Len(s)
  OBVIOUS
<1>3. \A k \in 1 .. Len(s) - 1 : (IF k < i THEN k ELSE k + 1) \in DOMAIN s
  BY <1>2
<1> QED BY <1>1, <1>3

\* What pomelo_delivery_bus_process_sending_deferred does: the first count dispatchers of
\* the queue go.
Goes(queue, incomplete, count, more, row, at) ==
    /\ count \in 0 .. Len(queue) /\ (incomplete # None => count = 0)
    /\ pending_dispatchers' \in Seq(DispatcherRecord) /\ Len(pending_dispatchers') = Len(queue) - count
    /\ \A k \in 1 .. Len(queue) - count : pending_dispatchers'[k] = queue[count + k]
    /\ more \in Seq(FragmentRecord) /\ data' = Carries(data, more)
    /\ \A k \in DOMAIN more : /\ row[k] \in 1 .. count /\ at[k] \in 1 .. queue[row[k]].size
                              /\ more[k] = Fragment(queue[row[k]], at[k])
    /\ \A k, l \in DOMAIN more : k < l => row[k] < row[l] \/ (row[k] = row[l] /\ at[k] < at[l])
    /\ \A k \in 1 .. count : Reliable(queue[k]) => k = count /\ incomplete_reliable_dispatcher' = queue[count]
    /\ (\A k \in 1 .. count : ~ Reliable(queue[k])) => incomplete_reliable_dispatcher' = incomplete
    /\ acked' = IF incomplete # None THEN acked ELSE {}
    /\ \A d : Reliable(d) => (d \in succeeded' <=>
              d \in succeeded \/ (d = incomplete_reliable_dispatcher /\ d # None /\ d # incomplete))

LEMMA ProcessSendingGoes ==
    ASSUME NEW queue \in Seq(DispatcherRecord), NEW incomplete, ProcessSending(queue, incomplete)
    PROVE  \E count, more, row, at : Goes(queue, incomplete, count, more, row, at)
<1> DEFINE blocking == SelectInSeq(queue, Reliable)
           count == IF incomplete # None THEN 0 ELSE IF blocking # 0 THEN blocking ELSE Len(queue)
           going == SubSeq(queue, 1, count)
           more == FlattenSeq([i \in 1 .. count |-> Fragments(going[i], {})])
<1>1. /\ pending_dispatchers' = SubSeq(queue, count + 1, Len(queue)) /\ data' = Carries(data, more)
      /\ incomplete_reliable_dispatcher' = IF count > 0 /\ blocking # 0 THEN queue[blocking] ELSE incomplete
      /\ acked' = IF incomplete # None THEN acked ELSE {}
      /\ succeeded' = succeeded \cup {d \in ToSet(going) : ~ Reliable(d)}
                        \cup ({incomplete_reliable_dispatcher} \ {None, incomplete})
  BY DEF ProcessSending
<1>2. \/ blocking = 0 /\ \A k \in 1 .. Len(queue) : ~ Reliable(queue[k])
      \/ /\ blocking \in 1 .. Len(queue) /\ Reliable(queue[blocking])
         /\ \A k \in 1 .. blocking - 1 : ~ Reliable(queue[k])
  BY FirstReliable
<1>3. Len(queue) \in Nat
  BY LenProperties
<1> HIDE DEF blocking
<1>4. count \in 0 .. Len(queue) /\ (incomplete # None => count = 0)
  BY <1>2, <1>3
<1>5. /\ \A k \in 1 .. count : Reliable(queue[k]) => k = count /\ blocking = count /\ count > 0
      /\ (\A k \in 1 .. count : ~ Reliable(queue[k])) => count = 0 \/ blocking = 0
  BY <1>2, <1>3
<1> HIDE DEF count
<1>6. going \in Seq(DispatcherRecord) /\ Len(going) = count /\ \A k \in 1 .. count : going[k] = queue[k]
  BY <1>3, <1>4
<1>7. more = AllFragments(going)
  BY <1>6 DEF AllFragments
<1> HIDE DEF going, more
<1>8. PICK row, at : OneByOne(more, row, at, going)
  BY <1>6, <1>7, AllFragmentsInOrder
<1>9. more \in Seq(FragmentRecord)
  BY <1>6, <1>7, AllFragmentsInOrder
<1>10. /\ pending_dispatchers' \in Seq(DispatcherRecord) /\ Len(pending_dispatchers') = Len(queue) - count
       /\ \A k \in 1 .. Len(queue) - count : pending_dispatchers'[k] = queue[count + k]
  BY <1>1, <1>3, <1>4
<1>11. /\ \A k \in DOMAIN more : /\ row[k] \in 1 .. count /\ at[k] \in 1 .. queue[row[k]].size
                                 /\ more[k] = Fragment(queue[row[k]], at[k])
       /\ \A k, l \in DOMAIN more : k < l => row[k] < row[l] \/ (row[k] = row[l] /\ at[k] < at[l])
  BY <1>6, <1>8 DEF OneByOne
<1>12. /\ \A k \in 1 .. count : Reliable(queue[k]) => k = count /\ incomplete_reliable_dispatcher' = queue[count]
       /\ (\A k \in 1 .. count : ~ Reliable(queue[k])) => incomplete_reliable_dispatcher' = incomplete
  <2>1. /\ count > 0 /\ blocking # 0 => incomplete_reliable_dispatcher' = queue[blocking]
        /\ ~ (count > 0 /\ blocking # 0) => incomplete_reliable_dispatcher' = incomplete
    BY <1>1
  <2>2. ASSUME NEW k \in 1 .. count, Reliable(queue[k])
        PROVE  k = count /\ incomplete_reliable_dispatcher' = queue[count]
    <3>1. k = count /\ blocking = count /\ count > 0
      BY <1>5, <2>2
    <3> QED BY <2>1, <3>1
  <2>3. ASSUME \A k \in 1 .. count : ~ Reliable(queue[k]) PROVE incomplete_reliable_dispatcher' = incomplete
    <3>1. count = 0 \/ blocking = 0
      BY <1>5, <2>3
    <3> QED BY <2>1, <3>1
  <2> QED BY <2>2, <2>3
<1>13. \A d : Reliable(d) => (d \in succeeded' <=>
              d \in succeeded \/ (d = incomplete_reliable_dispatcher /\ d # None /\ d # incomplete))
  <2> SUFFICES ASSUME NEW d, Reliable(d)
               PROVE  d \in succeeded' <=> \/ d \in succeeded
                                           \/ d = incomplete_reliable_dispatcher /\ d # None /\ d # incomplete
    OBVIOUS
  <2>1. d \notin {e \in ToSet(going) : ~ Reliable(e)}
    OBVIOUS
  <2>2. d \in {incomplete_reliable_dispatcher} \ {None, incomplete}
          <=> d = incomplete_reliable_dispatcher /\ d # None /\ d # incomplete
    OBVIOUS
  <2> QED BY <1>1, <2>1, <2>2
<1>14. Goes(queue, incomplete, count, more, row, at)
  BY <1>1, <1>4, <1>9, <1>10, <1>11, <1>12, <1>13 DEF Goes
<1> QED BY <1>14

-----------------------------------------------------------------------------
(***************************************************************************)
(* Sequenced parcels.                                                      *)
(***************************************************************************)

\* What the sender's end does before it sends: a dispatcher may be numbered.
Queued(queue) ==
    /\ queue \in Seq(DispatcherRecord)
    /\ numbered' \in Seq(DispatcherRecord) /\ Len(numbered') >= Len(numbered)
    /\ \A n \in DOMAIN numbered : numbered'[n] = numbered[n]
    /\ \A n \in DOMAIN numbered' : numbered'[n].seq = n /\ numbered'[n] \in Dispatchers
    /\ Len(numbered') - Len(queue) = Sent
    /\ \A k \in DOMAIN queue : queue[k] = numbered'[Sent + k]

LEMMA SentGrows ==
    ASSUME SenderTypeOK, NEW queue, Queued(queue), NEW incomplete, NEW count, NEW more, NEW row, NEW at,
           Goes(queue, incomplete, count, more, row, at)
    PROVE  /\ Sent \in Nat /\ Sent' = Sent + count /\ count \in Nat /\ Sent <= Len(numbered)
           /\ \A n \in 1 .. Sent : numbered'[n] = numbered[n]
           /\ \A k \in 1 .. count : queue[k] = numbered'[Sent + k] /\ queue[k] \in DispatcherRecord
           /\ \A f : PieceOf(f, Sent, numbered) => PieceOf(f, Sent', numbered')
<1>1. /\ Len(numbered) \in Nat /\ Len(pending_dispatchers) \in Nat /\ Len(numbered') \in Nat /\ Len(queue) \in Nat
      /\ Sent \in Nat /\ Sent <= Len(numbered)
      /\ DOMAIN numbered = 1 .. Len(numbered) /\ DOMAIN queue = 1 .. Len(queue)
  BY LenProperties DEF SenderTypeOK, Queued, Sent
<1>2. Sent' = Len(numbered') - Len(pending_dispatchers')
  BY DEF Sent
<1>3. Sent' = Sent + count /\ count \in 0 .. Len(queue)
  <2>1. Len(numbered') - Len(queue) = Sent /\ Len(pending_dispatchers') = Len(queue) - count /\ count \in 0 .. Len(queue)
    BY DEF Queued, Goes
  <2> QED BY <1>1, <1>2, <2>1
<1>4. \A n \in 1 .. Sent : numbered'[n] = numbered[n]
  BY <1>1 DEF Queued
<1>5. \A k \in 1 .. count : queue[k] = numbered'[Sent + k] /\ queue[k] \in DispatcherRecord
  BY <1>1, <1>3 DEF Queued
<1>6. ASSUME NEW f, PieceOf(f, Sent, numbered) PROVE PieceOf(f, Sent', numbered')
  <2>1. f.seq \in 1 .. Sent /\ f.seq \in 1 .. Sent' /\ \E i \in 1 .. numbered[f.seq].size : f = Fragment(numbered[f.seq], i)
    BY <1>1, <1>3, <1>6 DEF PieceOf
  <2> QED BY <1>4, <2>1 DEF PieceOf
<1> QED BY <1>1, <1>3, <1>4, <1>5, <1>6

LEMMA SendingKeepsTypes ==
    ASSUME SenderTypeOK, PiecesTypeOK, ReceiverTypeOK, NEW queue, Queued(queue),
           NEW incomplete \in {None, incomplete_reliable_dispatcher},
           NEW count, NEW more, NEW row, NEW at, Goes(queue, incomplete, count, more, row, at),
           UNCHANGED receiverVars, acks' \in Seq(FragmentRecord),
           \A k \in DOMAIN acks' : \E j \in DOMAIN acks : acks'[k] = acks[j]
    PROVE  SenderTypeOK' /\ PiecesTypeOK' /\ ReceiverTypeOK'
<1>1. /\ Sent \in Nat /\ Sent' = Sent + count /\ count \in Nat /\ Sent <= Len(numbered)
      /\ \A n \in 1 .. Sent : numbered'[n] = numbered[n]
      /\ \A k \in 1 .. count : queue[k] = numbered'[Sent + k] /\ queue[k] \in DispatcherRecord
      /\ \A f : PieceOf(f, Sent, numbered) => PieceOf(f, Sent', numbered')
  BY SentGrows
<1>2. Len(queue) \in Nat /\ Len(numbered') \in Nat /\ DOMAIN queue = 1 .. Len(queue) /\ DOMAIN numbered' = 1 .. Len(numbered')
      /\ Len(numbered') = Sent + Len(queue) /\ count \in 0 .. Len(queue)
  BY <1>1, LenProperties DEF Queued, Goes
<1>3. SenderTypeOK'
  <2>1. /\ numbered' \in Seq(DispatcherRecord)
        /\ \A n \in DOMAIN numbered' : numbered'[n].seq = n /\ numbered'[n] \in Dispatchers
    BY DEF Queued
  <2>2. /\ pending_dispatchers' \in Seq(DispatcherRecord) /\ Len(pending_dispatchers') = Len(queue) - count
        /\ \A k \in 1 .. Len(queue) - count : pending_dispatchers'[k] = queue[count + k]
    BY DEF Goes
  <2>3. \A k \in DOMAIN pending_dispatchers' : pending_dispatchers'[k] = numbered'[Sent' + k]
    <3> SUFFICES ASSUME NEW k \in DOMAIN pending_dispatchers' PROVE pending_dispatchers'[k] = numbered'[Sent' + k]
      OBVIOUS
    <3>1. k \in 1 .. Len(queue) - count /\ count + k \in 1 .. Len(queue)
      BY <1>2, <2>2
    <3>2. queue[count + k] = numbered'[Sent + (count + k)]
      BY <1>2, <3>1 DEF Queued
    <3>3. Sent + (count + k) = Sent' + k
      BY <1>1, <3>1
    <3> QED BY <2>2, <3>1, <3>2, <3>3
  <2>4. \/ incomplete_reliable_dispatcher' = None
        \/ \E n \in 1 .. Sent' : incomplete_reliable_dispatcher' = numbered'[n] /\ Reliable(numbered'[n])
    <3>1. CASE \A k \in 1 .. count : ~ Reliable(queue[k])
      <4>1. incomplete_reliable_dispatcher' = incomplete
        BY <3>1 DEF Goes
      <4>2. \/ incomplete = None
            \/ \E n \in 1 .. Sent : incomplete = numbered[n] /\ Reliable(numbered[n])
        BY DEF SenderTypeOK
      <4> QED BY <1>1, <4>1, <4>2
    <3>2. ASSUME NEW k \in 1 .. count, Reliable(queue[k])
          PROVE  \E n \in 1 .. Sent' : incomplete_reliable_dispatcher' = numbered'[n] /\ Reliable(numbered'[n])
      <4>1. k = count /\ incomplete_reliable_dispatcher' = queue[count]
        BY <3>2 DEF Goes
      <4>2. Sent + k \in 1 .. Sent' /\ queue[k] = numbered'[Sent + k]
        BY <1>1
      <4> QED BY <3>2, <4>1, <4>2
    <3> QED BY <3>1, <3>2
  <2>5. Len(pending_dispatchers') <= Len(numbered')
    BY <1>1, <1>2, <2>2
  <2> QED BY <2>1, <2>2, <2>3, <2>4, <2>5 DEF SenderTypeOK
<1>4. PiecesTypeOK'
  <2>1. more \in Seq(FragmentRecord) /\ data' = Carries(data, more) /\ data \in Seq(FragmentRecord)
    BY DEF Goes, PiecesTypeOK
  <2>2. ASSUME NEW k \in DOMAIN more PROVE PieceOf(more[k], Sent', numbered')
    <3>1. row[k] \in 1 .. count /\ at[k] \in 1 .. queue[row[k]].size /\ more[k] = Fragment(queue[row[k]], at[k])
      BY DEF Goes
    <3>2. /\ queue[row[k]] = numbered'[Sent + row[k]] /\ queue[row[k]] \in DispatcherRecord
          /\ Sent + row[k] \in 1 .. Sent' /\ Sent + row[k] \in DOMAIN numbered'
      <4>1. Sent + row[k] \in 1 .. Sent' /\ Sent + row[k] \in DOMAIN numbered'
        BY <1>1, <1>2, <3>1
      <4> QED BY <1>1, <3>1, <4>1
    <3>3. more[k].seq = Sent + row[k]
      <4>1. queue[row[k]].seq = Sent + row[k]
        BY <3>2 DEF Queued
      <4>2. Fragment(queue[row[k]], at[k]).seq = queue[row[k]].seq
        BY <3>1, <3>2, FragmentType
      <4> QED BY <3>1, <4>1, <4>2
    <3> QED BY <3>1, <3>2, <3>3 DEF PieceOf
  <2>3. data' \in Seq(FragmentRecord) /\ \A k \in DOMAIN data' : PieceOf(data'[k], Sent', numbered')
    <3>1. \A k \in DOMAIN data : PieceOf(data[k], Sent', numbered')
      BY <1>1 DEF PiecesTypeOK
    <3> QED BY <2>1, <2>2, <3>1, Carried
  <2>4. \A k \in DOMAIN acks' : PieceOf(acks'[k], Sent', numbered') /\ Reliable(acks'[k])
    BY <1>1 DEF PiecesTypeOK
  <2>5. receivers' \subseteq FragmentRecord /\ \A f \in receivers' : PieceOf(f, Sent', numbered')
    BY <1>1 DEF PiecesTypeOK, receiverVars
  <2> QED BY <2>3, <2>4, <2>5 DEF PiecesTypeOK
<1>5. ReceiverTypeOK'
  <2>1. \A k \in DOMAIN delivered : \E n \in 1 .. Sent' : delivered[k] = numbered'[n]
    <3> SUFFICES ASSUME NEW k \in DOMAIN delivered PROVE \E n \in 1 .. Sent' : delivered[k] = numbered'[n]
      OBVIOUS
    <3>1. PICK n \in 1 .. Sent : delivered[k] = numbered[n]
      BY DEF ReceiverTypeOK
    <3>2. n \in 1 .. Sent' /\ delivered[k] = numbered'[n]
      BY <1>1, <3>1
    <3> QED BY <3>2
  <2> QED BY <2>1 DEF ReceiverTypeOK, receiverVars
<1> QED BY <1>3, <1>4, <1>5

LEMMA MoreIsNew ==
    ASSUME SenderTypeOK, NEW queue, Queued(queue), NEW incomplete, NEW count, NEW more, NEW row, NEW at,
           Goes(queue, incomplete, count, more, row, at), NEW k \in DOMAIN more
    PROVE  /\ row[k] \in 1 .. count /\ row[k] \in Nat /\ at[k] \in Nat
           /\ more[k].seq = Sent + row[k] /\ more[k].index = at[k]
           /\ Reliable(more[k]) <=> Reliable(queue[row[k]])
<1>1. row[k] \in 1 .. count /\ at[k] \in 1 .. queue[row[k]].size /\ more[k] = Fragment(queue[row[k]], at[k])
  BY DEF Goes
<1>2. /\ Sent \in Nat /\ Sent' = Sent + count /\ count \in Nat
      /\ queue[row[k]] = numbered'[Sent + row[k]] /\ queue[row[k]] \in DispatcherRecord
  BY <1>1, SentGrows
<1>3. Len(numbered') \in Nat /\ Sent + row[k] \in DOMAIN numbered'
  <2>1. count <= Len(queue) /\ Len(numbered') - Len(queue) = Sent
    BY DEF Queued, Goes
  <2>2. Len(queue) \in Nat /\ Len(numbered') \in Nat /\ DOMAIN numbered' = 1 .. Len(numbered')
    BY LenProperties DEF Queued
  <2> QED BY <1>1, <1>2, <2>1, <2>2
<1>4. queue[row[k]].seq = Sent + row[k]
  BY <1>2, <1>3 DEF Queued
<1>5. row[k] \in Nat /\ at[k] \in Nat
  <2>1. queue[row[k]].size \in Nat
    BY <1>2 DEF DispatcherRecord
  <2> QED BY <1>1, <1>2, <2>1
<1> DEFINE d == queue[row[k]]
<1> HIDE DEF d
<1>6. /\ more[k] = Fragment(d, at[k]) /\ d \in DispatcherRecord /\ at[k] \in 1 .. d.size
      /\ d.seq = Sent + row[k]
  BY <1>1, <1>2, <1>4 DEF d
<1>7. more[k].seq = d.seq /\ more[k].index = at[k] /\ (Reliable(more[k]) <=> Reliable(d))
  BY <1>6, FragmentType
<1> QED BY <1>1, <1>5, <1>6, <1>7 DEF d

LEMMA DeliveredNumbers ==
    ASSUME SenderTypeOK, ReceiverTypeOK, NEW k \in DOMAIN delivered
    PROVE  delivered[k].seq \in 1 .. Sent /\ delivered[k] = numbered[delivered[k].seq]
<1>1. PICK n \in 1 .. Sent : delivered[k] = numbered[n]
  BY DEF ReceiverTypeOK
<1>2. n \in DOMAIN numbered /\ numbered[n].seq = n
  BY LenProperties DEF SenderTypeOK, Sent
<1> QED BY <1>1, <1>2

LEMMA SendingKeepsOnce ==
    ASSUME BusInv, NEW queue, Queued(queue), NEW incomplete, NEW count, NEW more, NEW row, NEW at,
           Goes(queue, incomplete, count, more, row, at), UNCHANGED receiverVars
    PROVE  FragmentsOnce' /\ NoneIsNewer' /\ SequencedOrder'
<1>1. /\ SenderTypeOK /\ PiecesTypeOK /\ ReceiverTypeOK /\ FragmentsOnce
      /\ UNCHANGED <<receivers, verifying, delivered, last_recv_sequenced_sequence>>
  BY DEF BusInv, BusTypeOK, receiverVars
<1>2. /\ Sent \in Nat /\ Sent' = Sent + count /\ count \in Nat
      /\ \A n \in 1 .. Sent : numbered'[n] = numbered[n]
  BY <1>1, SentGrows
<1>3. more \in Seq(FragmentRecord) /\ data' = Carries(data, more) /\ data \in Seq(FragmentRecord)
  BY <1>1 DEF Goes, PiecesTypeOK
<1>4. \A k \in DOMAIN data' : \/ k \in DOMAIN data /\ data'[k] = data[k]
                              \/ /\ k > Len(data) /\ k - Len(data) \in DOMAIN more
                                 /\ data'[k] = more[k - Len(data)]
  BY <1>3, Carried
<1>5. \A k \in DOMAIN data : data[k].seq \in 1 .. Sent
  BY <1>1 DEF PiecesTypeOK, PieceOf
<1>6. \A k \in DOMAIN more : more[k].seq \in Nat /\ more[k].seq > Sent
  BY <1>1, <1>2, MoreIsNew
<1>7. ASSUME NEW j \in DOMAIN more, NEW k \in DOMAIN more, more[j] = more[k] PROVE j = k
  <2>1. row[j] = row[k] /\ at[j] = at[k] /\ row[j] \in Nat /\ at[j] \in Nat
    BY <1>1, <1>2, <1>7, MoreIsNew
  <2>2. \A a, b \in DOMAIN more : a < b => row[a] < row[b] \/ (row[a] = row[b] /\ at[a] < at[b])
    BY DEF Goes
  <2>3. j \in Int /\ k \in Int /\ ~ (j < k) /\ ~ (k < j)
    <3>1. DOMAIN more = 1 .. Len(more) /\ Len(more) \in Nat
      BY <1>3
    <3> QED BY <2>1, <2>2, <3>1
  <2> QED BY <2>3
<1>8. Len(data) \in Nat /\ DOMAIN data = 1 .. Len(data) /\ DOMAIN data' \subseteq Int
  <2>1. data' \in Seq(FragmentRecord)
    BY <1>3, Carried
  <2> QED BY <1>3, <2>1
<1>9. ASSUME NEW j \in DOMAIN data', NEW k \in DOMAIN data', data'[j] = data'[k], ~ Reliable(data'[j])
      PROVE  j = k
  <2>1. CASE j \in DOMAIN data /\ data'[j] = data[j] /\ k \in DOMAIN data /\ data'[k] = data[k]
    BY <1>1, <1>9, <2>1 DEF FragmentsOnce
  <2>2. CASE /\ j - Len(data) \in DOMAIN more /\ data'[j] = more[j - Len(data)]
             /\ k - Len(data) \in DOMAIN more /\ data'[k] = more[k - Len(data)]
    <3>1. j - Len(data) = k - Len(data)
      BY <1>7, <1>9, <2>2
    <3> QED BY <1>8, <3>1
  <2>3. ASSUME NEW a \in DOMAIN data', NEW b \in DOMAIN data', a \in DOMAIN data, data'[a] = data[a],
               b - Len(data) \in DOMAIN more, data'[b] = more[b - Len(data)]
        PROVE  data'[a] # data'[b]
    <3>1. data'[a].seq \in 1 .. Sent /\ data'[b].seq > Sent /\ data'[b].seq \in Nat
      BY <1>5, <1>6, <2>3
    <3> QED BY <1>2, <3>1
  <2> QED BY <1>4, <1>9, <2>1, <2>2, <2>3
<1>10. \A f \in receivers : f.seq \in 1 .. Sent
  BY <1>1 DEF PiecesTypeOK, PieceOf
<1>11. ASSUME NEW k \in DOMAIN data', ~ Reliable(data'[k]) PROVE data'[k] \notin receivers
  <2>1. CASE k \in DOMAIN data /\ data'[k] = data[k]
    BY <1>1, <1>11, <2>1 DEF FragmentsOnce
  <2>2. CASE k - Len(data) \in DOMAIN more /\ data'[k] = more[k - Len(data)]
    <3>1. data'[k].seq \notin 1 .. Sent
      BY <1>2, <1>6, <2>2
    <3> QED BY <1>10, <3>1
  <2> QED BY <1>4, <2>1, <2>2
<1>12. ASSUME NEW n \in DOMAIN delivered, ~ Reliable(delivered[n])
       PROVE  \A k \in DOMAIN data' : data'[k].seq # delivered[n].seq
  <2>1. delivered[n].seq \in 1 .. Sent
    BY <1>1, DeliveredNumbers
  <2>2. ASSUME NEW k \in DOMAIN data' PROVE data'[k].seq # delivered[n].seq
    <3>1. CASE k \in DOMAIN data /\ data'[k] = data[k]
      BY <1>1, <1>12, <3>1 DEF FragmentsOnce
    <3>2. CASE k - Len(data) \in DOMAIN more /\ data'[k] = more[k - Len(data)]
      BY <1>2, <1>6, <2>1, <3>2
    <3> QED BY <1>4, <3>1, <3>2
  <2> QED BY <2>2
<1>13. ASSUME NEW seq \in verifying
       PROVE  /\ seq \in 1 .. Sent' /\ numbered'[seq].size >= 2
              /\ \A i \in 1 .. numbered'[seq].size : Fragment(numbered'[seq], i) \in receivers
  BY <1>1, <1>2 DEF FragmentsOnce
<1>14. FragmentsOnce'
  <2>1. \A n \in DOMAIN delivered : ~ Reliable(delivered[n]) => \A f \in receivers : f.seq # delivered[n].seq
    BY <1>1 DEF FragmentsOnce
  <2> QED BY <1>1, <1>9, <1>11, <1>12, <1>13, <2>1 DEF FragmentsOnce
<1>15. NoneIsNewer' /\ SequencedOrder'
  BY <1>1 DEF BusInv, NoneIsNewer, SequencedOrder
<1> QED BY <1>14, <1>15

\* What was sent is received or lost: the rest of the channel.
Fewer(old) ==
    /\ data' \in Seq(FragmentRecord)
    /\ \A k \in DOMAIN data' : old[k] \in DOMAIN data /\ data'[k] = data[old[k]]
    /\ \A j, k \in DOMAIN data' : j < k => old[j] < old[k]

LEMMA FewerWithout ==
    ASSUME data \in Seq(FragmentRecord), NEW i \in DOMAIN data, data' = RemoveAt(data, i)
    PROVE  \E old : Fewer(old) /\ \A k \in DOMAIN data' : old[k] # i
<1> DEFINE old == [k \in 1 .. Len(data) - 1 |-> IF k < i THEN k ELSE k + 1]
<1>1. /\ data' \in Seq(FragmentRecord) /\ DOMAIN data' = 1 .. Len(data) - 1
      /\ \A k \in 1 .. Len(data) - 1 : data'[k] = data[IF k < i THEN k ELSE k + 1]
  BY RemovedAt
<1>2. DOMAIN data = 1 .. Len(data) /\ Len(data) \in Nat /\ i \in 1 .. Len(data)
  OBVIOUS
<1>3. /\ \A k \in DOMAIN data' : old[k] \in DOMAIN data /\ data'[k] = data[old[k]] /\ old[k] # i
      /\ \A j, k \in DOMAIN data' : j < k => old[j] < old[k]
  BY <1>1, <1>2
<1> HIDE DEF old
<1> QED BY <1>1, <1>3 DEF Fewer

LEMMA FewerIsOnce ==
    ASSUME data \in Seq(FragmentRecord), NEW old, Fewer(old), FragmentsOnce
    PROVE  \A j, k \in DOMAIN data' : data'[j] = data'[k] /\ ~ Reliable(data'[j]) => j = k
<1> SUFFICES ASSUME NEW j \in DOMAIN data', NEW k \in DOMAIN data', data'[j] = data'[k], ~ Reliable(data'[j])
             PROVE  j = k
  OBVIOUS
<1>1. old[j] = old[k] /\ old[j] \in DOMAIN data
  BY DEF Fewer, FragmentsOnce
<1>2. old[j] \in Int /\ j \in Int /\ k \in Int
  BY <1>1 DEF Fewer
<1>3. ~ (j < k) /\ ~ (k < j)
  BY <1>1, <1>2 DEF Fewer
<1> QED BY <1>2, <1>3

LEMMA DispatcherOf ==
    ASSUME SenderTypeOK, NEW f \in FragmentRecord, PieceOf(f, Sent, numbered)
    PROVE  /\ f.seq \in 1 .. Sent /\ f.seq \in DOMAIN numbered /\ numbered[f.seq] \in DispatcherRecord
           /\ Dispatcher(f) = numbered[f.seq] /\ numbered[f.seq].seq = f.seq /\ numbered[f.seq].size = f.size
           /\ numbered[f.seq].mode = f.mode
           /\ f.index \in 1 .. f.size /\ f = Fragment(numbered[f.seq], f.index)
           /\ \A i : Fragment(f, i) = Fragment(numbered[f.seq], i)
<1>1. f.seq \in 1 .. Sent /\ f.seq \in DOMAIN numbered /\ numbered[f.seq] \in DispatcherRecord /\ numbered[f.seq].seq = f.seq
  BY LenProperties, ElementOfSeq DEF PieceOf, SenderTypeOK, Sent
<1>2. PICK i \in 1 .. numbered[f.seq].size : f = Fragment(numbered[f.seq], i)
  BY DEF PieceOf
<1> DEFINE d == numbered[f.seq]
<1>3. f = Fragment(d, i) /\ d \in DispatcherRecord /\ d.seq = f.seq /\ i \in 1 .. d.size
  BY <1>1, <1>2
<1> HIDE DEF d
<1>4. f.parcel = d.parcel /\ f.mode = d.mode /\ f.size = d.size /\ f.index = i
  BY <1>3, FragmentType
<1>5. Dispatcher(f) = d
  BY <1>3, <1>4 DEF Dispatcher, DispatcherRecord
<1>6. \A j : Fragment(f, j) = Fragment(d, j)
  BY <1>3, <1>4 DEF Fragment
<1> QED BY <1>1, <1>3, <1>4, <1>5, <1>6 DEF d

\* What the receiving end and the network leave to the sending end.
LEMMA SenderSame ==
    ASSUME SenderTypeOK, UNCHANGED senderVars
    PROVE  /\ SenderTypeOK' /\ Sent' = Sent /\ numbered' = numbered
           /\ PostedTypeOK => PostedTypeOK'
BY DEF senderVars, SenderTypeOK, Sent, PostedTypeOK

LEMMA FewerPieces ==
    ASSUME PiecesTypeOK, SenderTypeOK, UNCHANGED senderVars, NEW old, Fewer(old),
           acks' \in Seq(FragmentRecord),
           \A k \in DOMAIN acks' : PieceOf(acks'[k], Sent, numbered) /\ Reliable(acks'[k]),
           receivers' \subseteq FragmentRecord, \A f \in receivers' : PieceOf(f, Sent, numbered)
    PROVE  PiecesTypeOK'
<1>1. Sent' = Sent /\ numbered' = numbered
  BY SenderSame
<1>2. data' \in Seq(FragmentRecord) /\ \A k \in DOMAIN data' : PieceOf(data'[k], Sent, numbered)
  BY DEF Fewer, PiecesTypeOK
<1> QED BY <1>1, <1>2 DEF PiecesTypeOK

\* pomelo_delivery_bus_handle_receiver_complete, for the dispatcher numbered s.
LEMMA CompleteKeeps ==
    ASSUME BusInv, UNCHANGED senderVars, PiecesTypeOK', NEW old, Fewer(old),
           NEW s \in 1 .. Sent, NEW rest, Complete(numbered[s], rest),
           last_recv_reliable_sequence' \in Nat,
           ~ Reliable(numbered[s]) =>
              /\ \A k \in DOMAIN data' : data'[k].seq # s
              /\ \A k \in DOMAIN delivered : delivered[k].seq # s,
           \A k \in DOMAIN data' : ~ Reliable(data'[k]) => data'[k] \notin rest,
           \A n \in DOMAIN delivered : ~ Reliable(delivered[n]) => \A f \in rest : f.seq # delivered[n].seq,
           \A q \in verifying' :
              /\ q # s /\ q \in 1 .. Sent /\ numbered[q].size >= 2
              /\ \A i \in 1 .. numbered[q].size : Fragment(numbered[q], i) \in rest
    PROVE  BusInv'
<1> DEFINE d == numbered[s]
<1>1. /\ PostedTypeOK /\ SenderTypeOK /\ PiecesTypeOK /\ ReceiverTypeOK /\ FragmentsOnce /\ NoneIsNewer /\ SequencedOrder
      /\ data \in Seq(FragmentRecord)
  BY DEF BusInv, BusTypeOK, PiecesTypeOK
<1>2. Sent' = Sent /\ numbered' = numbered /\ SenderTypeOK' /\ PostedTypeOK'
  BY <1>1, SenderSame
<1>3. s \in DOMAIN numbered /\ d \in DispatcherRecord /\ d.seq = s /\ s \in Nat
  BY <1>1, LenProperties, ElementOfSeq DEF SenderTypeOK, Sent
<1>4. /\ receivers' = {f \in rest : f.seq # s}
      /\ incomplete_reliable_receiver' = IF Reliable(d) THEN 0 ELSE incomplete_reliable_receiver
      /\ delivered' = IF Late(d) THEN delivered ELSE Append(delivered, d)
      /\ last_recv_sequenced_sequence' =
             IF d.mode = "SEQUENCED" /\ ~Late(d) THEN s ELSE last_recv_sequenced_sequence
  BY <1>3 DEF Complete
<1>5. delivered \in Seq(DispatcherRecord) /\ Len(delivered) \in Nat /\ DOMAIN delivered = 1 .. Len(delivered)
  BY <1>1, LenProperties DEF ReceiverTypeOK
<1>6. /\ delivered' \in Seq(DispatcherRecord)
      /\ \A k \in DOMAIN delivered' : \/ k \in DOMAIN delivered /\ delivered'[k] = delivered[k]
                                      \/ k = Len(delivered) + 1 /\ delivered'[k] = d /\ ~ Late(d)
      /\ DOMAIN delivered' \subseteq Int
  <2> HIDE DEF d
  <2>1. CASE Late(d)
    BY <1>4, <1>5, <2>1
  <2>2. CASE ~ Late(d)
    <3>1. delivered' = Append(delivered, d)
      BY <1>4, <2>2
    <3> QED BY <1>3, <1>5, <2>2, <3>1, AppendProperties
  <2> QED BY <2>1, <2>2
<1>7. ReceiverTypeOK'
  <2>1. ASSUME NEW k \in DOMAIN delivered' PROVE \E n \in 1 .. Sent : delivered'[k] = numbered[n]
    BY <1>1, <1>6 DEF ReceiverTypeOK
  <2>2. last_recv_sequenced_sequence' \in Nat /\ incomplete_reliable_receiver' \in Nat
    BY <1>1, <1>3, <1>4 DEF ReceiverTypeOK
  <2> QED BY <1>2, <1>6, <2>1, <2>2 DEF ReceiverTypeOK
<1>8. FragmentsOnce'
  <2>1. \A j, k \in DOMAIN data' : data'[j] = data'[k] /\ ~ Reliable(data'[j]) => j = k
    BY <1>1, FewerIsOnce
  <2>2. \A k \in DOMAIN data' : ~ Reliable(data'[k]) => data'[k] \notin receivers'
    BY <1>4
  <2>3. ASSUME NEW n \in DOMAIN delivered', ~ Reliable(delivered'[n])
        PROVE  /\ \A k \in DOMAIN data' : data'[k].seq # delivered'[n].seq
               /\ \A f \in receivers' : f.seq # delivered'[n].seq
    <3>1. CASE n \in DOMAIN delivered /\ delivered'[n] = delivered[n]
      <4>1. \A k \in DOMAIN data : data[k].seq # delivered[n].seq
        BY <1>1, <2>3, <3>1 DEF FragmentsOnce
      <4>2. \A k \in DOMAIN data' : data'[k].seq # delivered[n].seq
        BY <4>1 DEF Fewer
      <4> QED BY <1>4, <2>3, <3>1, <4>2
    <3>2. CASE delivered'[n] = d
      BY <1>3, <1>4, <2>3, <3>2
    <3> QED BY <1>6, <3>1, <3>2
  <2>4. ASSUME NEW q \in verifying'
        PROVE  /\ q \in 1 .. Sent' /\ numbered'[q].size >= 2
               /\ \A i \in 1 .. numbered'[q].size : Fragment(numbered'[q], i) \in receivers'
    <3>1. ASSUME NEW i \in 1 .. numbered[q].size PROVE Fragment(numbered[q], i) \in receivers'
      <4>1. q \in DOMAIN numbered /\ numbered[q] \in DispatcherRecord /\ numbered[q].seq = q
        BY <1>1, LenProperties, ElementOfSeq DEF SenderTypeOK, Sent
      <4>2. Fragment(numbered[q], i).seq = q
        BY <4>1, FragmentType
      <4> QED BY <1>4, <4>2
    <3> QED BY <1>2, <3>1
  <2> QED BY <2>1, <2>2, <2>3, <2>4 DEF FragmentsOnce
<1>9. ASSUME NEW k \in DOMAIN delivered, delivered[k].mode = "SEQUENCED"
      PROVE  /\ delivered[k].seq <= last_recv_sequenced_sequence /\ delivered[k].seq \in Nat
             /\ last_recv_sequenced_sequence \in Nat
             /\ d.mode = "SEQUENCED" /\ ~ Late(d) => delivered[k].seq < s
  <2>1. /\ delivered[k].seq <= last_recv_sequenced_sequence /\ delivered[k].seq \in Nat
        /\ last_recv_sequenced_sequence \in Nat
    BY <1>1, <1>9, DeliveredNumbers DEF NoneIsNewer, ReceiverTypeOK
  <2>2. ASSUME d.mode = "SEQUENCED", ~ Late(d) PROVE delivered[k].seq < s
    <3>1. ~ (s < last_recv_sequenced_sequence)
      BY <1>3, <2>2 DEF Late
    <3>2. delivered[k].seq # s
      BY <2>2 DEF Reliable
    <3> QED BY <1>3, <2>1, <3>1, <3>2
  <2> QED BY <2>1, <2>2
<1>10. NoneIsNewer'
  <2> SUFFICES ASSUME NEW k \in DOMAIN delivered', delivered'[k].mode = "SEQUENCED"
               PROVE  delivered'[k].seq <= last_recv_sequenced_sequence'
    BY DEF NoneIsNewer
  <2> HIDE DEF d
  <2>1. CASE k \in DOMAIN delivered /\ delivered'[k] = delivered[k]
    BY <1>3, <1>4, <1>9, <2>1
  <2>2. CASE delivered'[k] = d /\ ~ Late(d)
    BY <1>3, <1>4, <2>2
  <2> QED BY <1>6, <2>1, <2>2
<1>11. SequencedOrder'
  <2> SUFFICES ASSUME NEW j \in DOMAIN delivered', NEW k \in DOMAIN delivered', j < k,
                      delivered'[j].mode = "SEQUENCED", delivered'[k].mode = "SEQUENCED"
               PROVE  delivered'[j].seq < delivered'[k].seq
    BY DEF SequencedOrder
  <2> HIDE DEF d
  <2>1. CASE k \in DOMAIN delivered /\ delivered'[k] = delivered[k]
    <3>1. j \in DOMAIN delivered /\ delivered'[j] = delivered[j]
      BY <1>5, <1>6, <2>1
    <3> QED BY <1>1, <2>1, <3>1 DEF SequencedOrder
  <2>2. CASE k = Len(delivered) + 1 /\ delivered'[k] = d /\ ~ Late(d)
    <3>1. j \in DOMAIN delivered /\ delivered'[j] = delivered[j]
      BY <1>5, <1>6, <2>2
    <3> QED BY <1>3, <1>9, <2>2, <3>1
  <2> QED BY <1>6, <2>1, <2>2
<1> QED BY <1>2, <1>7, <1>8, <1>10, <1>11 DEF BusInv, BusTypeOK

\* What may change when nothing is completed.
LEMMA NothingComplete ==
    ASSUME BusInv, UNCHANGED senderVars, PiecesTypeOK', NEW old, Fewer(old),
           UNCHANGED <<delivered, last_recv_sequenced_sequence>>,
           last_recv_reliable_sequence' \in Nat, incomplete_reliable_receiver' \in Nat,
           \A k \in DOMAIN data' : ~ Reliable(data'[k]) => data'[k] \notin receivers',
           \A n \in DOMAIN delivered : ~ Reliable(delivered[n]) => \A f \in receivers' : f.seq # delivered[n].seq,
           \A q \in verifying' :
              /\ q \in 1 .. Sent /\ numbered[q].size >= 2
              /\ \A i \in 1 .. numbered[q].size : Fragment(numbered[q], i) \in receivers'
    PROVE  BusInv'
<1>1. /\ PostedTypeOK /\ SenderTypeOK /\ PiecesTypeOK /\ ReceiverTypeOK /\ FragmentsOnce /\ NoneIsNewer /\ SequencedOrder
      /\ data \in Seq(FragmentRecord)
  BY DEF BusInv, BusTypeOK, PiecesTypeOK
<1>2. Sent' = Sent /\ numbered' = numbered /\ SenderTypeOK' /\ PostedTypeOK'
  BY <1>1, SenderSame
<1>3. ReceiverTypeOK'
  BY <1>1, <1>2 DEF ReceiverTypeOK
<1>4. FragmentsOnce'
  <2>1. \A j, k \in DOMAIN data' : data'[j] = data'[k] /\ ~ Reliable(data'[j]) => j = k
    BY <1>1, FewerIsOnce
  <2>2. ASSUME NEW n \in DOMAIN delivered, ~ Reliable(delivered[n])
        PROVE  \A k \in DOMAIN data' : data'[k].seq # delivered[n].seq
    <3>1. \A k \in DOMAIN data : data[k].seq # delivered[n].seq
      BY <1>1, <2>2 DEF FragmentsOnce
    <3> QED BY <3>1 DEF Fewer
  <2> QED BY <1>2, <2>1, <2>2 DEF FragmentsOnce
<1>5. NoneIsNewer' /\ SequencedOrder'
  BY <1>1 DEF NoneIsNewer, SequencedOrder
<1> QED BY <1>2, <1>3, <1>4, <1>5 DEF BusInv, BusTypeOK

LEMMA ReplyAckKeeps ==
    ASSUME PiecesTypeOK, NEW f \in FragmentRecord, PieceOf(f, Sent, numbered), ReplyAck(f)
    PROVE  /\ acks' \in Seq(FragmentRecord)
           /\ \A k \in DOMAIN acks' : /\ PieceOf(acks'[k], Sent, numbered) /\ Reliable(acks'[k])
                                      /\ acks'[k] = f \/ \E j \in DOMAIN acks : acks'[k] = acks[j]
<1>1. acks \in Seq(FragmentRecord) /\ \A k \in DOMAIN acks : PieceOf(acks[k], Sent, numbered) /\ Reliable(acks[k])
  BY DEF PiecesTypeOK
<1>2. CASE ~ Reliable(f)
  BY <1>1, <1>2 DEF ReplyAck
<1>3. CASE Reliable(f)
  <2> DEFINE more == <<f>>
  <2>1. more \in Seq(FragmentRecord) /\ \A k \in DOMAIN more : more[k] = f
    OBVIOUS
  <2>2. acks' = Carries(acks, more)
    BY <1>3 DEF ReplyAck
  <2> HIDE DEF more
  <2>3. acks' \in Seq(FragmentRecord) /\ \A k \in DOMAIN acks' : acks'[k] = f \/ \E j \in DOMAIN acks : acks'[k] = acks[j]
    BY <1>1, <2>1, <2>2, Carried
  <2> QED BY <1>1, <1>3, <2>3
<1> QED BY <1>2, <1>3

\* The network loses data, or acknowledgements.
LEMMA ChannelsLose ==
    ASSUME BusInv, UNCHANGED <<senderVars, receiverVars>>, NEW old, Fewer(old),
           acks' \in Seq(FragmentRecord),
           \A k \in DOMAIN acks' : PieceOf(acks'[k], Sent, numbered) /\ Reliable(acks'[k])
    PROVE  BusInv'
<1>1. /\ SenderTypeOK /\ PiecesTypeOK /\ ReceiverTypeOK /\ FragmentsOnce
      /\ UNCHANGED <<receivers, verifying, delivered, last_recv_sequenced_sequence, last_recv_reliable_sequence,
                     incomplete_reliable_receiver>>
  BY DEF BusInv, BusTypeOK, receiverVars
<1>2. PiecesTypeOK'
  <2>1. receivers' \subseteq FragmentRecord /\ \A f \in receivers' : PieceOf(f, Sent, numbered)
    BY <1>1 DEF PiecesTypeOK
  <2> QED BY <1>1, <2>1, FewerPieces
<1>3. \A k \in DOMAIN data' : ~ Reliable(data'[k]) => data'[k] \notin receivers'
  BY <1>1 DEF Fewer, FragmentsOnce
<1>4. /\ \A n \in DOMAIN delivered : ~ Reliable(delivered[n]) => \A f \in receivers' : f.seq # delivered[n].seq
      /\ \A q \in verifying' :
           /\ q \in 1 .. Sent /\ numbered[q].size >= 2
           /\ \A i \in 1 .. numbered[q].size : Fragment(numbered[q], i) \in receivers'
  BY <1>1 DEF FragmentsOnce
<1>5. last_recv_reliable_sequence' \in Nat /\ incomplete_reliable_receiver' \in Nat
  BY <1>1 DEF ReceiverTypeOK
<1> QED BY <1>1, <1>2, <1>3, <1>4, <1>5, NothingComplete

LEMMA AddFragmentKeeps ==
    ASSUME BusInv, UNCHANGED senderVars, NEW f \in FragmentRecord, PieceOf(f, Sent, numbered),
           NEW old, Fewer(old), ~ Reliable(f) => \A k \in DOMAIN data' : data'[k] # f,
           \E k \in DOMAIN data : data[k] = f,
           ReplyAck(f), NEW over, AddFragment(f, over)
    PROVE  BusInv'
<1> DEFINE d == numbered[f.seq]
           rest == {g \in receivers : g.seq \notin over} \cup {f}
           whole == f \notin receivers /\ \A i \in 1 .. f.size : Fragment(f, i) \in rest
<1>1. /\ PostedTypeOK /\ SenderTypeOK /\ PiecesTypeOK /\ ReceiverTypeOK /\ FragmentsOnce /\ NoneIsNewer /\ SequencedOrder
      /\ data \in Seq(FragmentRecord)
  BY DEF BusInv, BusTypeOK, PiecesTypeOK
<1>2. /\ f.seq \in 1 .. Sent /\ d \in DispatcherRecord /\ Dispatcher(f) = d /\ d.seq = f.seq /\ d.size = f.size
      /\ d.mode = f.mode /\ f.index \in 1 .. f.size /\ f = Fragment(d, f.index)
      /\ \A i : Fragment(f, i) = Fragment(d, i)
  BY <1>1, DispatcherOf
<1>3. /\ last_recv_reliable_sequence' = IF Reliable(f) THEN f.seq ELSE last_recv_reliable_sequence
      /\ verifying' = (verifying \ over) \cup (IF whole /\ f.size >= 2 THEN {f.seq} ELSE {})
      /\ whole /\ f.size = 1 => Complete(d, rest)
      /\ ~ (whole /\ f.size = 1) =>
           /\ receivers' = rest
           /\ incomplete_reliable_receiver' = IF Reliable(f) THEN f.seq ELSE incomplete_reliable_receiver
           /\ UNCHANGED <<delivered, last_recv_sequenced_sequence>>
  BY <1>2 DEF AddFragment
<1>4. rest \subseteq FragmentRecord /\ \A g \in rest : PieceOf(g, Sent, numbered) /\ (g \in receivers \/ g = f)
  BY <1>1 DEF PiecesTypeOK
<1>5. receivers' \subseteq rest
  BY <1>3 DEF Complete
<1>6. last_recv_reliable_sequence' \in Nat /\ f.seq \in Nat
  BY <1>1, <1>3 DEF ReceiverTypeOK, FragmentRecord
<1>7. PiecesTypeOK'
  <2>1. /\ acks' \in Seq(FragmentRecord)
        /\ \A k \in DOMAIN acks' : PieceOf(acks'[k], Sent, numbered) /\ Reliable(acks'[k])
    BY <1>1, ReplyAckKeeps
  <2>2. receivers' \subseteq FragmentRecord /\ \A g \in receivers' : PieceOf(g, Sent, numbered)
    BY <1>4, <1>5
  <2> QED BY <1>1, <2>1, <2>2, FewerPieces
<1>8. \A k \in DOMAIN data' : ~ Reliable(data'[k]) => data'[k] \notin rest
  <2> SUFFICES ASSUME NEW k \in DOMAIN data', ~ Reliable(data'[k]), data'[k] \in rest PROVE FALSE
    OBVIOUS
  <2>1. data'[k] \notin receivers
    BY <1>1 DEF Fewer, FragmentsOnce
  <2>2. data'[k] = f
    BY <1>4, <2>1
  <2> QED BY <2>2
<1>9. \A n \in DOMAIN delivered : ~ Reliable(delivered[n]) => f.seq # delivered[n].seq
  BY <1>1 DEF FragmentsOnce
<1>10. \A n \in DOMAIN delivered : ~ Reliable(delivered[n]) => \A g \in rest : g.seq # delivered[n].seq
  BY <1>1, <1>4, <1>9 DEF FragmentsOnce
<1>11. ASSUME NEW q \in verifying, q \notin over
       PROVE  /\ q \in 1 .. Sent /\ numbered[q].size >= 2
              /\ \A i \in 1 .. numbered[q].size : Fragment(numbered[q], i) \in rest
  <2>1. /\ q \in 1 .. Sent /\ numbered[q].size >= 2
        /\ \A i \in 1 .. numbered[q].size : Fragment(numbered[q], i) \in receivers
    BY <1>1 DEF FragmentsOnce
  <2>2. q \in DOMAIN numbered /\ numbered[q] \in DispatcherRecord /\ numbered[q].seq = q
    BY <1>1, <2>1, LenProperties, ElementOfSeq DEF SenderTypeOK, Sent
  <2>3. \A i \in 1 .. numbered[q].size : Fragment(numbered[q], i).seq = q
    BY <2>2, FragmentType
  <2> QED BY <1>11, <2>1, <2>3
<1>12. whole => \A i \in 1 .. d.size : Fragment(d, i) \in rest
  BY <1>2
<1>13. CASE ~ (whole /\ f.size = 1)
  <2>1. /\ receivers' = rest /\ UNCHANGED <<delivered, last_recv_sequenced_sequence>>
        /\ incomplete_reliable_receiver' \in Nat
    BY <1>1, <1>3, <1>6, <1>13 DEF ReceiverTypeOK
  <2>2. ASSUME NEW q \in verifying'
        PROVE  /\ q \in 1 .. Sent /\ numbered[q].size >= 2
               /\ \A i \in 1 .. numbered[q].size : Fragment(numbered[q], i) \in rest
    <3> HIDE DEF rest, whole
    <3>1. CASE q \in verifying \ over
      BY <1>11, <3>1
    <3>2. CASE whole /\ f.size >= 2 /\ q = f.seq
      BY <1>2, <1>12, <3>2
    <3> QED BY <1>3, <3>1, <3>2
  <2> HIDE DEF rest, whole, d
  <2> QED BY <1>6, <1>7, <1>8, <1>10, <2>1, <2>2, NothingComplete
<1>14. CASE whole /\ f.size = 1
  <2>1. f = Fragment(d, 1)
    BY <1>2, <1>14
  <2>2. ~ Reliable(d) => /\ \A k \in DOMAIN data' : data'[k].seq # f.seq
                         /\ \A k \in DOMAIN delivered : delivered[k].seq # f.seq
    <3> SUFFICES ASSUME ~ Reliable(d)
                 PROVE  /\ \A k \in DOMAIN data' : data'[k].seq # f.seq
                        /\ \A k \in DOMAIN delivered : delivered[k].seq # f.seq
      OBVIOUS
    <3>1. ASSUME NEW k \in DOMAIN data' PROVE data'[k].seq # f.seq
      <4>1. data'[k] \in FragmentRecord /\ PieceOf(data'[k], Sent, numbered)
        <5>1. PiecesTypeOK' /\ Sent' = Sent /\ numbered' = numbered
          BY <1>1, <1>7, SenderSame
        <5> QED BY <5>1, ElementOfSeq DEF PiecesTypeOK
      <4>2. ASSUME data'[k].seq = f.seq PROVE data'[k] = f
        <5>1. data'[k] = Fragment(numbered[data'[k].seq], data'[k].index) /\ data'[k].index \in 1 .. data'[k].size
              /\ numbered[data'[k].seq].size = data'[k].size
          BY <1>1, <4>1, DispatcherOf
        <5> QED BY <1>2, <1>14, <2>1, <4>2, <5>1
      <4>3. ~ Reliable(f)
        BY <1>2 DEF Reliable
      <4> QED BY <4>2, <4>3
    <3>2. ASSUME NEW k \in DOMAIN delivered PROVE delivered[k].seq # f.seq
      <4>1. delivered[k].seq \in 1 .. Sent /\ delivered[k] = numbered[delivered[k].seq]
        BY <1>1, DeliveredNumbers
      <4> QED BY <1>9, <4>1
    <3> QED BY <3>1, <3>2
  <2>3. ASSUME NEW q \in verifying'
        PROVE  /\ q # f.seq /\ q \in 1 .. Sent /\ numbered[q].size >= 2
               /\ \A i \in 1 .. numbered[q].size : Fragment(numbered[q], i) \in rest
    <3>1. q \in verifying /\ q \notin over
      BY <1>3, <1>14
    <3> HIDE DEF rest, whole
    <3>2. /\ q \in 1 .. Sent /\ numbered[q].size >= 2
          /\ \A i \in 1 .. numbered[q].size : Fragment(numbered[q], i) \in rest
      BY <1>11, <3>1
    <3> QED BY <1>2, <1>14, <3>2
  <2>4. Complete(d, rest)
    BY <1>3, <1>14
  <2> HIDE DEF rest, whole
  <2> QED BY <1>2, <1>6, <1>7, <1>8, <1>10, <2>2, <2>3, <2>4, CompleteKeeps
<1> QED BY <1>13, <1>14

LEMMA FewerSame == ASSUME data \in Seq(FragmentRecord), UNCHANGED data PROVE \E old : Fewer(old)
<1> DEFINE old == [k \in DOMAIN data |-> k]
<1>1. \A k \in DOMAIN data : old[k] = k
  OBVIOUS
<1> HIDE DEF old
<1>2. Fewer(old)
  BY <1>1 DEF Fewer
<1> QED BY <1>2

\* pomelo_delivery_bus_recv_fragment_data
LEMMA ReceiveDataKeeps == ASSUME BusInv, NEW f \in ToSet(data), ReceiveData(f) PROVE BusInv'
<1>1. PICK i \in Arriving(data) : data[i] = f /\ data' = RemoveAt(data, i) /\ RecvFragment(f) /\ UNCHANGED senderVars
  BY DEF ReceiveData
<1>2. /\ SenderTypeOK /\ PiecesTypeOK /\ FragmentsOnce /\ data \in Seq(FragmentRecord) /\ i \in DOMAIN data
      /\ acks \in Seq(FragmentRecord) /\ \A k \in DOMAIN acks : PieceOf(acks[k], Sent, numbered) /\ Reliable(acks[k])
  BY DEF BusInv, BusTypeOK, PiecesTypeOK, Arriving
<1>3. f \in FragmentRecord /\ PieceOf(f, Sent, numbered)
  BY <1>1, <1>2, ElementOfSeq DEF PiecesTypeOK
<1>4. PICK old : Fewer(old) /\ \A k \in DOMAIN data' : old[k] # i
  BY <1>1, <1>2, FewerWithout
<1>5. ~ Reliable(f) => \A k \in DOMAIN data' : data'[k] # f
  <2>1. /\ \A j, k \in DOMAIN data : data[j] = data[k] /\ ~ Reliable(data[j]) => j = k
        /\ \A k \in DOMAIN data' : old[k] \in DOMAIN data /\ data'[k] = data[old[k]] /\ old[k] # i
    BY <1>2, <1>4 DEF Fewer, FragmentsOnce
  <2> QED BY <1>1, <1>2, <2>1
<1>6. CASE AlreadyReceived(f)
  <2>1. ReplyAck(f) /\ UNCHANGED receiverVars
    BY <1>1, <1>6 DEF RecvFragment
  <2>2. /\ acks' \in Seq(FragmentRecord)
        /\ \A k \in DOMAIN acks' : PieceOf(acks'[k], Sent, numbered) /\ Reliable(acks'[k])
    BY <1>2, <1>3, <2>1, ReplyAckKeeps
  <2> QED BY <1>1, <1>4, <2>1, <2>2, ChannelsLose
<1>7. CASE ~ AlreadyReceived(f) /\ Refused(f)
  <2>1. UNCHANGED <<receiverVars, acks>>
    BY <1>1, <1>7 DEF RecvFragment
  <2> QED BY <1>1, <1>2, <1>4, <2>1, ChannelsLose
<1>8. CASE ~ AlreadyReceived(f) /\ ~ Refused(f)
  <2>1. PICK over \in SUBSET Expirable : ReplyAck(f) /\ AddFragment(f, over)
    BY <1>1, <1>8 DEF RecvFragment
  <2> QED BY <1>1, <1>2, <1>3, <1>4, <1>5, <2>1, AddFragmentKeeps
<1> QED BY <1>6, <1>7, <1>8

\* verify_checksum_complete
LEMMA ChecksumVerifiedKeeps == ASSUME BusInv, NEW seq \in verifying, ChecksumVerified(seq) PROVE BusInv'
<1>1. /\ SenderTypeOK /\ PiecesTypeOK /\ ReceiverTypeOK /\ FragmentsOnce /\ data \in Seq(FragmentRecord)
      /\ acks \in Seq(FragmentRecord) /\ \A k \in DOMAIN acks : PieceOf(acks[k], Sent, numbered) /\ Reliable(acks[k])
      /\ receivers \subseteq FragmentRecord /\ \A g \in receivers : PieceOf(g, Sent, numbered)
  BY DEF BusInv, BusTypeOK, PiecesTypeOK
<1>2. PICK f \in receivers : f.seq = seq /\ Complete(Dispatcher(f), receivers)
  BY DEF ChecksumVerified, FragmentsOf
<1>3. /\ verifying' = verifying \ {seq} /\ UNCHANGED senderVars
      /\ UNCHANGED <<last_recv_reliable_sequence, data, acks>>
  BY DEF ChecksumVerified
<1>4. f \in FragmentRecord /\ PieceOf(f, Sent, numbered)
  BY <1>1
<1>5. seq \in 1 .. Sent /\ Dispatcher(f) = numbered[seq] /\ numbered[seq] \in DispatcherRecord /\ numbered[seq].seq = seq
  BY <1>1, <1>2, <1>4, DispatcherOf
<1>6. PICK old : Fewer(old)
  BY <1>1, <1>3, FewerSame
<1>7. receivers' \subseteq receivers
  BY <1>2 DEF Complete
<1>8. PiecesTypeOK'
  BY <1>1, <1>3, <1>6, <1>7, FewerPieces
<1>9. ASSUME ~ Reliable(numbered[seq])
      PROVE  /\ \A k \in DOMAIN data' : data'[k].seq # seq
             /\ \A k \in DOMAIN delivered : delivered[k].seq # seq
  <2>1. ASSUME NEW k \in DOMAIN data, data[k].seq = seq PROVE FALSE
    <3>1. data[k] \in FragmentRecord /\ PieceOf(data[k], Sent, numbered)
      BY <1>1, ElementOfSeq DEF PiecesTypeOK
    <3>2. /\ data[k] = Fragment(numbered[seq], data[k].index) /\ data[k].index \in 1 .. numbered[seq].size
          /\ numbered[seq].mode = data[k].mode
      BY <1>1, <2>1, <3>1, DispatcherOf
    <3>3. data[k] \in receivers
      BY <1>1, <3>2 DEF FragmentsOnce
    <3>4. ~ Reliable(data[k])
      BY <1>9, <3>2 DEF Reliable
    <3> QED BY <1>1, <3>3, <3>4 DEF FragmentsOnce
  <2>2. ASSUME NEW k \in DOMAIN delivered, delivered[k].seq = seq PROVE FALSE
    <3>1. delivered[k] = numbered[seq]
      BY <1>1, <2>2, DeliveredNumbers
    <3> QED BY <1>1, <1>2, <1>9, <2>2, <3>1 DEF FragmentsOnce
  <2> QED BY <1>3, <2>1, <2>2
<1>10. \A k \in DOMAIN data' : ~ Reliable(data'[k]) => data'[k] \notin receivers
  BY <1>1, <1>3 DEF FragmentsOnce
<1>11. \A n \in DOMAIN delivered : ~ Reliable(delivered[n]) => \A g \in receivers : g.seq # delivered[n].seq
  BY <1>1 DEF FragmentsOnce
<1>12. \A q \in verifying' :
          /\ q # seq /\ q \in 1 .. Sent /\ numbered[q].size >= 2
          /\ \A i \in 1 .. numbered[q].size : Fragment(numbered[q], i) \in receivers
  BY <1>1, <1>3 DEF FragmentsOnce
<1>13. last_recv_reliable_sequence' \in Nat
  BY <1>1, <1>3 DEF ReceiverTypeOK
<1>14. Complete(numbered[seq], receivers)
  BY <1>2, <1>5
<1> QED BY <1>3, <1>5, <1>6, <1>8, <1>9, <1>10, <1>11, <1>12, <1>13, <1>14, CompleteKeeps

LEMMA SummingCounted ==
    ASSUME PostedTypeOK
    PROVE  IsFiniteSet(summing) /\ Cardinality(summing) \in Nat /\ Len(posted) \in Nat /\ DOMAIN posted = 1 .. Len(posted)
<1>1. Len(posted) \in Nat /\ DOMAIN posted = 1 .. Len(posted) /\ summing \subseteq 1 .. Len(posted)
  BY LenProperties DEF PostedTypeOK
<1>2. IsFiniteSet(1 .. Len(posted))
  BY <1>1, FS_Interval
<1>3. IsFiniteSet(summing)
  BY <1>1, <1>2, FS_Subset
<1> QED BY <1>1, <1>3, FS_CardinalityType

\* pomelo_delivery_bus_process_sending_deferred
LEMMA SendingKeeps ==
    ASSUME BusInv, PostedTypeOK', NEW queue, Queued(queue), NEW incomplete \in {None, incomplete_reliable_dispatcher},
           ProcessSending(queue, incomplete), UNCHANGED receiverVars, acks' \in Seq(FragmentRecord),
           \A k \in DOMAIN acks' : \E j \in DOMAIN acks : acks'[k] = acks[j]
    PROVE  BusInv'
<1>1. SenderTypeOK /\ PiecesTypeOK /\ ReceiverTypeOK /\ queue \in Seq(DispatcherRecord)
  BY DEF BusInv, BusTypeOK, Queued
<1>2. PICK count, more, row, at : Goes(queue, incomplete, count, more, row, at)
  BY <1>1, ProcessSendingGoes
<1>3. SenderTypeOK' /\ PiecesTypeOK' /\ ReceiverTypeOK'
  BY <1>1, <1>2, SendingKeepsTypes
<1>4. FragmentsOnce' /\ NoneIsNewer' /\ SequencedOrder'
  BY <1>2, SendingKeepsOnce
<1> QED BY <1>3, <1>4 DEF BusInv, BusTypeOK

\* pomelo_delivery_sender_dispatch
LEMMA DispatchQueues ==
    ASSUME PostedTypeOK, SenderTypeOK, NEW id, id \in 1 .. Len(posted'), PostedTypeOK',
           numbered' = Append(numbered, Numbered(id)), Len(numbered) + 1 <= MaxParcels
    PROVE  Queued(Append(pending_dispatchers, Numbered(id)))
<1> DEFINE d == Numbered(id)
           queue == Append(pending_dispatchers, d)
<1>1. Len(posted') \in Nat /\ Len(posted') <= MaxParcels /\ posted' \in Seq([mode : Modes, size : Sizes])
  BY LenProperties DEF PostedTypeOK
<1>2. /\ numbered \in Seq(DispatcherRecord) /\ Len(numbered) \in Nat /\ DOMAIN numbered = 1 .. Len(numbered)
      /\ pending_dispatchers \in Seq(DispatcherRecord) /\ Len(pending_dispatchers) \in Nat
      /\ DOMAIN pending_dispatchers = 1 .. Len(pending_dispatchers)
      /\ Len(pending_dispatchers) <= Len(numbered) /\ Sent = Len(numbered) - Len(pending_dispatchers)
  BY LenProperties DEF SenderTypeOK, Sent
<1>3. d \in DispatcherRecord /\ d \in Dispatchers /\ d.seq = Len(numbered) + 1
  <2>1. posted'[id] \in [mode : Modes, size : Sizes]
    BY <1>1, ElementOfSeq
  <2>2. id \in 1 .. MaxParcels /\ id \in Nat \ {0} /\ Len(numbered) + 1 \in 1 .. MaxParcels /\ Len(numbered) + 1 \in Nat \ {0}
    BY <1>1, <1>2, BusAssumption
  <2>3. posted'[id].mode \in Modes /\ posted'[id].size \in Sizes /\ posted'[id].size \in Nat \ {0}
    BY <2>1, BusAssumption
  <2> QED BY <2>2, <2>3 DEF Numbered, DispatcherRecord, Dispatchers
<1> HIDE DEF d
<1>4. numbered' = Append(numbered, d)
  BY DEF d
<1>5. /\ numbered' \in Seq(DispatcherRecord) /\ Len(numbered') = Len(numbered) + 1
      /\ numbered'[Len(numbered) + 1] = d /\ \A n \in 1 .. Len(numbered) : numbered'[n] = numbered[n]
      /\ DOMAIN numbered' = 1 .. Len(numbered) + 1
  BY <1>2, <1>3, <1>4, AppendProperties
<1>6. /\ queue \in Seq(DispatcherRecord) /\ Len(queue) = Len(pending_dispatchers) + 1
      /\ queue[Len(pending_dispatchers) + 1] = d
      /\ \A k \in 1 .. Len(pending_dispatchers) : queue[k] = pending_dispatchers[k]
      /\ DOMAIN queue = 1 .. Len(pending_dispatchers) + 1
  BY <1>2, <1>3, AppendProperties
<1> HIDE DEF queue
<1>7. ASSUME NEW k \in DOMAIN queue PROVE queue[k] = numbered'[Sent + k]
  <2>1. CASE k \in 1 .. Len(pending_dispatchers)
    <3>1. queue[k] = numbered[Sent + k]
      BY <1>2, <1>6, <2>1 DEF SenderTypeOK
    <3>2. Sent + k \in 1 .. Len(numbered)
      BY <1>2, <2>1
    <3> QED BY <1>5, <3>1, <3>2
  <2>2. CASE k = Len(pending_dispatchers) + 1
    BY <1>2, <1>5, <1>6, <2>2
  <2> QED BY <1>2, <1>6, <2>1, <2>2
<1>8. \A n \in DOMAIN numbered' : numbered'[n].seq = n /\ numbered'[n] \in Dispatchers
  BY <1>2, <1>3, <1>5 DEF SenderTypeOK
<1>9. Queued(queue)
  BY <1>2, <1>5, <1>6, <1>7, <1>8 DEF Queued
<1> QED BY <1>9 DEF queue, d

LEMMA DispatchKeeps ==
    ASSUME BusInv, NEW id, id \in 1 .. Len(posted'), PostedTypeOK', Dispatch(id), Len(numbered) + 1 <= MaxParcels,
           UNCHANGED <<receiverVars, acks>>
    PROVE  BusInv'
<1>1. PostedTypeOK /\ SenderTypeOK /\ acks \in Seq(FragmentRecord)
  BY DEF BusInv, BusTypeOK, PiecesTypeOK
<1>2. Queued(Append(pending_dispatchers, Numbered(id)))
  BY <1>1, DispatchQueues DEF Dispatch
<1>3. ProcessSending(Append(pending_dispatchers, Numbered(id)), incomplete_reliable_dispatcher)
  BY DEF Dispatch
<1> QED BY <1>1, <1>2, <1>3, SendingKeeps

\* pomelo_delivery_sender_submit
LEMMA PostKeeps == ASSUME BusInv, NEW mode \in Modes, NEW size \in Sizes, Post(mode, size) PROVE BusInv'
<1> DEFINE id == Len(posted) + 1
           p == [mode |-> mode, size |-> size]
<1>1. PostedTypeOK /\ SenderTypeOK
  BY DEF BusInv, BusTypeOK
<1>2. /\ IsFiniteSet(summing) /\ Cardinality(summing) \in Nat /\ Len(posted) \in Nat /\ DOMAIN posted = 1 .. Len(posted)
      /\ posted \in Seq([mode : Modes, size : Sizes]) /\ summing \subseteq 1 .. Len(posted)
      /\ Len(numbered) + Cardinality(summing) = Len(posted) /\ Len(numbered) \in Nat
  BY <1>1, SummingCounted, LenProperties DEF PostedTypeOK, SenderTypeOK
<1>3. id <= MaxParcels /\ posted' = Append(posted, p) /\ UNCHANGED <<receiverVars, acks>>
  BY DEF Post
<1>4. /\ posted' \in Seq([mode : Modes, size : Sizes]) /\ Len(posted') = id /\ DOMAIN posted' = 1 .. id
      /\ id \in Nat /\ id \in 1 .. id
  BY <1>2, <1>3, AppendProperties
<1>5. CASE size >= 2
  <2>1. /\ summing' = summing \cup {id}
        /\ UNCHANGED <<numbered, pending_dispatchers, succeeded, incomplete_reliable_dispatcher, acked, data>>
    BY <1>5 DEF Post
  <2>2. Cardinality(summing') = Cardinality(summing) + 1
    <3>1. id \notin summing
      BY <1>2
    <3> QED BY <1>2, <2>1, <3>1, FS_AddElement
  <2>3. PostedTypeOK'
    <3>1. numbered' = numbered /\ summing \subseteq 1 .. Len(posted) /\ Len(posted) \in Nat
      BY <1>2, <2>1
    <3>2. summing' \subseteq 1 .. Len(posted) + 1
      <4>1. ASSUME NEW n \in Nat, NEW S, S \subseteq 1 .. n PROVE S \cup {n + 1} \subseteq 1 .. n + 1
        BY <4>1
      <4>2. summing' = summing \cup {Len(posted) + 1}
        BY <2>1
      <4> QED BY <3>1, <4>1, <4>2
    <3>3. Len(posted') = Len(posted) + 1 /\ Len(posted') <= MaxParcels
      BY <1>3, <1>4
    <3>4. Len(numbered') + Cardinality(summing') = Len(posted')
      BY <1>2, <2>2, <3>1, <3>3
    <3> QED BY <1>4, <3>2, <3>3, <3>4 DEF PostedTypeOK
  <2>4. Sent' = Sent
    BY <2>1 DEF Sent
  <2>5. SenderTypeOK' /\ PiecesTypeOK' /\ ReceiverTypeOK'
    <3>1. SenderTypeOK'
      BY <1>1, <2>1, <2>4 DEF SenderTypeOK
    <3>2. PiecesTypeOK /\ ReceiverTypeOK
      BY DEF BusInv, BusTypeOK
    <3>3. PiecesTypeOK'
      BY <1>3, <2>1, <2>4, <3>2 DEF PiecesTypeOK, receiverVars
    <3>4. ReceiverTypeOK'
      BY <1>3, <2>1, <2>4, <3>2 DEF ReceiverTypeOK, receiverVars
    <3> QED BY <3>1, <3>3, <3>4
  <2>6. FragmentsOnce' /\ NoneIsNewer' /\ SequencedOrder'
    BY <1>3, <2>1, <2>4 DEF BusInv, FragmentsOnce, NoneIsNewer, SequencedOrder, receiverVars
  <2> QED BY <2>3, <2>5, <2>6 DEF BusInv, BusTypeOK
<1>6. CASE ~ (size >= 2)
  <2>1. Dispatch(id) /\ UNCHANGED summing
    BY <1>6 DEF Post
  <2>2. Len(numbered') = Len(numbered) + 1
    BY <1>1, <2>1 DEF Dispatch, SenderTypeOK
  <2>3. PostedTypeOK'
    BY <1>2, <1>3, <1>4, <2>1, <2>2 DEF PostedTypeOK
  <2>4. Len(numbered) + 1 <= MaxParcels
    BY <1>2, <1>3, BusAssumption
  <2> QED BY <1>3, <1>4, <2>1, <2>3, <2>4, DispatchKeeps
<1> QED BY <1>5, <1>6

\* update_checksum_complete
LEMMA ChecksumComputedKeeps == ASSUME BusInv, NEW id \in summing, ChecksumComputed(id) PROVE BusInv'
<1>1. PostedTypeOK /\ SenderTypeOK
  BY DEF BusInv, BusTypeOK
<1>2. /\ IsFiniteSet(summing) /\ Cardinality(summing) \in Nat /\ Len(posted) \in Nat /\ DOMAIN posted = 1 .. Len(posted)
      /\ posted \in Seq([mode : Modes, size : Sizes]) /\ summing \subseteq 1 .. Len(posted)
      /\ Len(numbered) + Cardinality(summing) = Len(posted) /\ Len(numbered) \in Nat /\ Len(posted) <= MaxParcels
  BY <1>1, SummingCounted, LenProperties DEF PostedTypeOK, SenderTypeOK
<1>3. /\ summing' = summing \ {id} /\ UNCHANGED posted /\ Dispatch(id) /\ UNCHANGED <<receiverVars, acks>>
  BY DEF ChecksumComputed
<1>4. Cardinality(summing') = Cardinality(summing) - 1 /\ IsFiniteSet(summing')
  BY <1>2, <1>3, FS_RemoveElement
<1>5. Cardinality(summing') \in Nat
  BY <1>4, FS_CardinalityType
<1>6. Len(numbered') = Len(numbered) + 1
  BY <1>1, <1>3 DEF Dispatch, SenderTypeOK
<1>7. PostedTypeOK'
  BY <1>2, <1>3, <1>4, <1>6 DEF PostedTypeOK
<1>8. Len(numbered) + 1 <= MaxParcels
  BY <1>2, <1>4, <1>5, BusAssumption
<1>9. id \in 1 .. Len(posted')
  BY <1>2, <1>3
<1> QED BY <1>3, <1>7, <1>8, <1>9, DispatchKeeps

\* pomelo_delivery_dispatcher_resend: the fragments of the parcel that blocks the bus.
LEMMA ResentPieces ==
    ASSUME SenderTypeOK, PiecesTypeOK, Resend
    PROVE  LET d == incomplete_reliable_dispatcher
               more == Fragments(d, acked)
           IN  /\ d.seq \in 1 .. Sent /\ d = numbered[d.seq] /\ Reliable(d) /\ d \in DispatcherRecord
               /\ more \in Seq(FragmentRecord)
               /\ \A k \in DOMAIN more : more[k].seq = d.seq /\ Reliable(more[k]) /\ PieceOf(more[k], Sent, numbered)
               /\ data' \in Seq(FragmentRecord) /\ data \in Seq(FragmentRecord)
               /\ \A k \in DOMAIN data' : \/ k \in DOMAIN data /\ data'[k] = data[k]
                                         \/ /\ k > Len(data) /\ k - Len(data) \in DOMAIN more
                                            /\ data'[k] = more[k - Len(data)]
<1> DEFINE d == incomplete_reliable_dispatcher
           more == Fragments(d, acked)
<1>1. d # None /\ data' = Carries(data, more) /\ data \in Seq(FragmentRecord)
  BY DEF Resend, PiecesTypeOK
<1>2. PICK n \in 1 .. Sent : d = numbered[n] /\ Reliable(numbered[n])
  BY <1>1 DEF SenderTypeOK
<1>3. n \in DOMAIN numbered /\ d.seq = n /\ d \in DispatcherRecord /\ Reliable(d)
  BY <1>2, LenProperties, ElementOfSeq DEF SenderTypeOK, Sent
<1> HIDE DEF d
<1>4. more \in Seq(FragmentRecord) /\ \A k \in DOMAIN more : \E i \in 1 .. d.size : more[k] = Fragment(d, i)
  BY <1>3, FragmentsInOrder
<1> HIDE DEF more
<1>5. ASSUME NEW k \in DOMAIN more
      PROVE  more[k].seq = d.seq /\ Reliable(more[k]) /\ PieceOf(more[k], Sent, numbered)
  <2>1. PICK i \in 1 .. d.size : more[k] = Fragment(d, i)
    BY <1>4
  <2>2. more[k].seq = d.seq /\ Reliable(more[k])
    BY <1>3, <2>1, FragmentType
  <2> QED BY <1>2, <1>3, <2>1, <2>2 DEF PieceOf
<1>6. /\ data' \in Seq(FragmentRecord)
      /\ \A k \in DOMAIN data' : \/ k \in DOMAIN data /\ data'[k] = data[k]
                                \/ /\ k > Len(data) /\ k - Len(data) \in DOMAIN more
                                   /\ data'[k] = more[k - Len(data)]
  BY <1>1, <1>4, Carried
<1> QED BY <1>1, <1>2, <1>3, <1>4, <1>5, <1>6 DEF d, more

LEMMA ResendKeeps == ASSUME BusInv, Resend PROVE BusInv'
<1> DEFINE d == incomplete_reliable_dispatcher
           more == Fragments(d, acked)
<1>1. /\ SenderTypeOK /\ PiecesTypeOK /\ ReceiverTypeOK /\ PostedTypeOK /\ FragmentsOnce /\ NoneIsNewer /\ SequencedOrder
      /\ UNCHANGED senderVars /\ UNCHANGED acks
      /\ UNCHANGED <<receivers, verifying, delivered, last_recv_sequenced_sequence, last_recv_reliable_sequence,
                     incomplete_reliable_receiver>>
  BY DEF BusInv, BusTypeOK, Resend, receiverVars
<1>2. /\ d.seq \in 1 .. Sent /\ d = numbered[d.seq] /\ Reliable(d) /\ d \in DispatcherRecord
      /\ more \in Seq(FragmentRecord)
      /\ \A k \in DOMAIN more : more[k].seq = d.seq /\ Reliable(more[k]) /\ PieceOf(more[k], Sent, numbered)
      /\ data' \in Seq(FragmentRecord) /\ data \in Seq(FragmentRecord)
      /\ \A k \in DOMAIN data' : \/ k \in DOMAIN data /\ data'[k] = data[k]
                                \/ /\ k > Len(data) /\ k - Len(data) \in DOMAIN more
                                   /\ data'[k] = more[k - Len(data)]
  BY <1>1, ResentPieces, Zenon
<1> HIDE DEF d, more
<1>3. SenderTypeOK' /\ Sent' = Sent /\ numbered' = numbered /\ PostedTypeOK'
  BY <1>1, SenderSame
<1>4. PiecesTypeOK'
  <2>1. \A k \in DOMAIN data' : PieceOf(data'[k], Sent, numbered)
    BY <1>1, <1>2 DEF PiecesTypeOK
  <2> QED BY <1>1, <1>2, <1>3, <2>1 DEF PiecesTypeOK
<1>5. ReceiverTypeOK'
  BY <1>1, <1>3 DEF ReceiverTypeOK
<1>6. FragmentsOnce'
  <2>1. \A k \in DOMAIN data' : ~ Reliable(data'[k]) => k \in DOMAIN data /\ data'[k] = data[k]
    BY <1>2
  <2>2. ASSUME NEW n \in DOMAIN delivered, ~ Reliable(delivered[n]), NEW k \in DOMAIN data'
        PROVE  data'[k].seq # delivered[n].seq
    <3>1. delivered[n] = numbered[delivered[n].seq]
      BY <1>1, DeliveredNumbers
    <3>2. d.seq # delivered[n].seq
      BY <1>2, <2>2, <3>1
    <3> QED BY <1>1, <1>2, <2>2, <3>2 DEF FragmentsOnce
  <2>3. \A j, k \in DOMAIN data' : data'[j] = data'[k] /\ ~ Reliable(data'[j]) => j = k
    BY <1>1, <2>1 DEF FragmentsOnce
  <2>4. \A k \in DOMAIN data' : ~ Reliable(data'[k]) => data'[k] \notin receivers
    BY <1>1, <2>1 DEF FragmentsOnce
  <2>5. /\ \A n \in DOMAIN delivered : ~ Reliable(delivered[n]) => \A f \in receivers : f.seq # delivered[n].seq
        /\ \A seq \in verifying :
             /\ seq \in 1 .. Sent /\ numbered[seq].size >= 2
             /\ \A i \in 1 .. numbered[seq].size : Fragment(numbered[seq], i) \in receivers
    BY <1>1 DEF FragmentsOnce
  <2> QED BY <1>1, <1>3, <2>2, <2>3, <2>4, <2>5 DEF FragmentsOnce
<1>7. NoneIsNewer' /\ SequencedOrder'
  BY <1>1 DEF NoneIsNewer, SequencedOrder
<1> QED BY <1>3, <1>4, <1>5, <1>6, <1>7 DEF BusInv, BusTypeOK

\* An acknowledgement goes and nothing is sent.
LEMMA AckGoes ==
    ASSUME BusInv, NEW i \in DOMAIN acks, acks' = RemoveAt(acks, i),
           UNCHANGED <<posted, summing, numbered, pending_dispatchers, incomplete_reliable_dispatcher, data, receiverVars>>
    PROVE  BusInv'
<1>1. /\ SenderTypeOK /\ PiecesTypeOK /\ ReceiverTypeOK /\ PostedTypeOK /\ FragmentsOnce /\ NoneIsNewer /\ SequencedOrder
      /\ UNCHANGED <<receivers, verifying, delivered, last_recv_sequenced_sequence, last_recv_reliable_sequence,
                     incomplete_reliable_receiver>>
  BY DEF BusInv, BusTypeOK, receiverVars
<1>2. SenderTypeOK' /\ Sent' = Sent /\ numbered' = numbered /\ PostedTypeOK'
  BY <1>1 DEF SenderTypeOK, Sent, PostedTypeOK
<1>3. acks \in Seq(FragmentRecord) /\ \A k \in DOMAIN acks : PieceOf(acks[k], Sent, numbered) /\ Reliable(acks[k])
  BY <1>1 DEF PiecesTypeOK
<1>4. acks' \in Seq(FragmentRecord) /\ \A k \in DOMAIN acks' : PieceOf(acks'[k], Sent, numbered) /\ Reliable(acks'[k])
  BY <1>3, RemovedElements
<1>5. PiecesTypeOK'
  BY <1>1, <1>2, <1>4 DEF PiecesTypeOK
<1>6. ReceiverTypeOK' /\ NoneIsNewer' /\ SequencedOrder'
  BY <1>1, <1>2 DEF ReceiverTypeOK, NoneIsNewer, SequencedOrder
<1>7. FragmentsOnce'
  BY <1>1, <1>2 DEF FragmentsOnce
<1> QED BY <1>2, <1>5, <1>6, <1>7 DEF BusInv, BusTypeOK

\* pomelo_delivery_bus_recv_fragment_ack
LEMMA ReceiveAckKeeps == ASSUME BusInv, NEW ack \in ToSet(acks), ReceiveAck(ack) PROVE BusInv'
<1>1. PICK i \in Arriving(acks) : acks' = RemoveAt(acks, i) /\ RecvAck(ack) /\ UNCHANGED receiverVars
  BY DEF ReceiveAck
<1>2. SenderTypeOK /\ PostedTypeOK /\ acks \in Seq(FragmentRecord) /\ i \in DOMAIN acks
  BY DEF BusInv, BusTypeOK, PiecesTypeOK, Arriving
<1>3. acks' \in Seq(FragmentRecord) /\ \A k \in DOMAIN acks' : \E j \in DOMAIN acks : acks'[k] = acks[j]
  BY <1>1, <1>2, RemovedElements
<1>4. UNCHANGED <<posted, summing, numbered>>
  BY <1>1 DEF RecvAck
<1>5. \/ ProcessSending(pending_dispatchers, None)
      \/ UNCHANGED <<pending_dispatchers, incomplete_reliable_dispatcher, data>>
  BY <1>1 DEF RecvAck
<1>6. CASE ProcessSending(pending_dispatchers, None)
  <2>1. Queued(pending_dispatchers)
    BY <1>2, <1>4, LenProperties DEF SenderTypeOK, Sent, Queued
  <2>2. PostedTypeOK'
    BY <1>2, <1>4 DEF PostedTypeOK
  <2> QED BY <1>1, <1>3, <1>6, <2>1, <2>2, SendingKeeps
<1>7. CASE UNCHANGED <<pending_dispatchers, incomplete_reliable_dispatcher, data>>
  BY <1>1, <1>2, <1>4, <1>7, AckGoes
<1> QED BY <1>5, <1>6, <1>7

LEMMA BusInitial == Init => BusInv
<1> SUFFICES ASSUME Init PROVE BusInv
  OBVIOUS
<1>1. PostedTypeOK
  <2>1. posted = <<>> /\ summing = {} /\ numbered = <<>>
    BY DEF Init
  <2>2. Cardinality(summing) = 0 /\ Len(posted) = 0 /\ Len(numbered) = 0 /\ 0 <= MaxParcels
    BY <2>1, FS_EmptySet, EmptySeq, BusAssumption
  <2> QED BY <2>1, <2>2 DEF PostedTypeOK
<1>2. SenderTypeOK /\ PiecesTypeOK /\ ReceiverTypeOK
  BY DEF Init, SenderTypeOK, PiecesTypeOK, ReceiverTypeOK
<1>3. FragmentsOnce /\ NoneIsNewer /\ SequencedOrder
  BY DEF Init, FragmentsOnce, NoneIsNewer, SequencedOrder
<1> QED BY <1>1, <1>2, <1>3 DEF BusInv, BusTypeOK

\* verify_checksum_complete of a receiver that was canceled: nothing else changes.
LEMMA CanceledVerifiedKeeps == ASSUME BusInv, NEW d \in canceled, CanceledVerified(d) PROVE BusInv'
<1>1. /\ UNCHANGED senderVars
      /\ UNCHANGED <<receivers, verifying, incomplete_reliable_receiver, last_recv_reliable_sequence,
                     last_recv_sequenced_sequence, delivered, data, acks>>
  BY DEF CanceledVerified
<1>2. UNCHANGED <<posted, summing, numbered, pending_dispatchers, incomplete_reliable_dispatcher, acked, succeeded>>
  BY <1>1 DEF senderVars
<1>3. Sent' = Sent
  BY <1>2 DEF Sent
<1>4. PostedTypeOK' /\ SenderTypeOK'
  BY <1>2, <1>3 DEF BusInv, BusTypeOK, PostedTypeOK, SenderTypeOK
<1>5. PiecesTypeOK' /\ ReceiverTypeOK'
  BY <1>1, <1>2, <1>3 DEF BusInv, BusTypeOK, PiecesTypeOK, ReceiverTypeOK
<1>6. FragmentsOnce' /\ NoneIsNewer' /\ SequencedOrder'
  BY <1>1, <1>2, <1>3 DEF BusInv, FragmentsOnce, NoneIsNewer, SequencedOrder
<1> QED BY <1>4, <1>5, <1>6 DEF BusInv, BusTypeOK

LEMMA BusStep == BusInv /\ [Next]_vars => BusInv'
<1> SUFFICES ASSUME BusInv, [Next]_vars PROVE BusInv'
  OBVIOUS
<1>1. ASSUME NEW mode \in Modes, NEW size \in Sizes, Post(mode, size) PROVE BusInv'
  BY <1>1, PostKeeps
<1>2. ASSUME NEW id \in summing, ChecksumComputed(id) PROVE BusInv'
  BY <1>2, ChecksumComputedKeeps
<1>3. CASE Resend
  BY <1>3, ResendKeeps
<1>4. ASSUME NEW f \in ToSet(data), ReceiveData(f) PROVE BusInv'
  BY <1>4, ReceiveDataKeeps
<1>5. ASSUME NEW f \in ToSet(acks), ReceiveAck(f) PROVE BusInv'
  BY <1>5, ReceiveAckKeeps
<1>6. ASSUME NEW seq \in verifying, ChecksumVerified(seq) PROVE BusInv'
  BY <1>6, ChecksumVerifiedKeeps
<1>7. CASE LoseData
  <2>1. PICK i \in Arriving(data) : data' = RemoveAt(data, i) /\ UNCHANGED <<senderVars, receiverVars, acks>>
    BY <1>7 DEF LoseData
  <2>2. /\ data \in Seq(FragmentRecord) /\ i \in DOMAIN data /\ acks \in Seq(FragmentRecord)
        /\ \A k \in DOMAIN acks : PieceOf(acks[k], Sent, numbered) /\ Reliable(acks[k])
    BY DEF BusInv, BusTypeOK, PiecesTypeOK, Arriving
  <2>3. PICK old : Fewer(old)
    BY <2>1, <2>2, FewerWithout
  <2> QED BY <2>1, <2>2, <2>3, ChannelsLose
<1>8. CASE LoseAck
  <2>1. PICK i \in Arriving(acks) : acks' = RemoveAt(acks, i) /\ UNCHANGED <<senderVars, receiverVars, data>>
    BY <1>8 DEF LoseAck
  <2>2. i \in DOMAIN acks /\ UNCHANGED <<posted, summing, numbered, pending_dispatchers, incomplete_reliable_dispatcher>>
    BY <2>1 DEF Arriving, senderVars
  <2> QED BY <2>1, <2>2, AckGoes
<1>9. CASE UNCHANGED vars
  <2>1. UNCHANGED senderVars /\ UNCHANGED receiverVars /\ UNCHANGED <<data, acks>>
    BY <1>9 DEF vars
  <2>2. /\ data \in Seq(FragmentRecord) /\ acks \in Seq(FragmentRecord)
        /\ \A k \in DOMAIN acks : PieceOf(acks[k], Sent, numbered) /\ Reliable(acks[k])
    BY DEF BusInv, BusTypeOK, PiecesTypeOK
  <2>3. PICK old : Fewer(old)
    BY <2>1, <2>2, FewerSame
  <2> QED BY <2>1, <2>2, <2>3, ChannelsLose
<1>10. ASSUME NEW d \in canceled, CanceledVerified(d) PROVE BusInv'
  BY <1>10, CanceledVerifiedKeeps
<1> QED BY <1>1, <1>2, <1>3, <1>4, <1>5, <1>6, <1>7, <1>8, <1>9, <1>10 DEF Next

\* Sequenced parcels arrive in the order of their numbers, each at most once
\* (pomelo_delivery_bus_handle_receiver_complete), whether or not the network reorders:
\* Late lets a parcel through that is as new as the last one, and FragmentsOnce says
\* why that one is never the same parcel again.
THEOREM SequencedInOrder == Spec => []SequencedOrder
<1>1. BusInv => SequencedOrder
  BY DEF BusInv
<1> QED BY <1>1, BusInitial, BusStep, PTL DEF Spec

-----------------------------------------------------------------------------
(***************************************************************************)
(* The reliable parcels of a sequence of dispatchers.                      *)
(***************************************************************************)

LEMMA OnlyReliableEmpty == OnlyReliable(<<>>) = <<>> /\ \A S : OnlyReliable(<<>>) \in Seq(S)
<1> DEFINE f == [i \in DOMAIN <<>> |-> IF Reliable(<<>>[i]) THEN <<(<<>>)[i]>> ELSE <<>>]
<1>1. DOMAIN <<>> = 1 .. 0 /\ 1 .. 0 = {}
  OBVIOUS
<1>2. f \in [1 .. 0 -> Seq({})]
  BY <1>1
<1>3. OnlyReliable(<<>>) = FlattenSeq(f)
  BY DEF OnlyReliable
<1> HIDE DEF f
<1>4. f \in Seq(Seq({})) /\ Len(f) = 0
  BY <1>2, IsASeq, LenProperties
<1>5. f = <<>>
  BY <1>4, EmptySeq
<1>6. FlattenSeq(f) = <<>>
  BY <1>5, EmptySeq DEF FlattenSeq
<1>7. OnlyReliable(<<>>) = <<>>
  BY <1>3, <1>6
<1> QED BY <1>7, EmptySeq

LEMMA OnlyReliableAppend ==
    ASSUME NEW S, NEW s \in Seq(S), NEW x \in S
    PROVE  /\ OnlyReliable(s) \in Seq(S)
           /\ OnlyReliable(Append(s, x)) = IF Reliable(x) THEN Append(OnlyReliable(s), x) ELSE OnlyReliable(s)
<1> DEFINE One(y) == IF Reliable(y) THEN <<y>> ELSE <<>>
           t == [i \in DOMAIN s |-> One(s[i])]
           u == [i \in DOMAIN Append(s, x) |-> One(Append(s, x)[i])]
<1>1. ASSUME NEW y \in S PROVE One(y) \in Seq(S)
  OBVIOUS
<1>2. DOMAIN s = 1 .. Len(s) /\ Len(s) \in Nat /\ \A i \in 1 .. Len(s) : s[i] \in S
  BY ElementOfSeq
<1>3. /\ DOMAIN Append(s, x) = 1 .. Len(s) + 1 /\ Append(s, x)[Len(s) + 1] = x
      /\ \A i \in 1 .. Len(s) : Append(s, x)[i] = s[i]
  BY AppendProperties
<1>4. OnlyReliable(s) = FlattenSeq(t) /\ OnlyReliable(Append(s, x)) = FlattenSeq(u)
  BY DEF OnlyReliable
<1> HIDE DEF One
<1>5. t \in [1 .. Len(s) -> Seq(S)] /\ t = [i \in 1 .. Len(s) |-> One(s[i])]
  BY <1>1, <1>2
<1>6. t \in Seq(Seq(S)) /\ Len(t) = Len(s) /\ One(x) \in Seq(S)
  <2> HIDE DEF t
  <2> QED BY <1>1, <1>2, <1>5, IsASeq, LenProperties
<1>7. u = Append(t, One(x))
  <2>1. /\ Append(t, One(x)) \in Seq(Seq(S)) /\ Len(Append(t, One(x))) = Len(s) + 1
        /\ Append(t, One(x))[Len(s) + 1] = One(x)
        /\ \A i \in 1 .. Len(s) : Append(t, One(x))[i] = t[i]
    <3> HIDE DEF t
    <3> QED BY <1>6, AppendProperties
  <2>2. \A i \in 1 .. Len(s) : t[i] = One(s[i])
    BY <1>5
  <2>3. u \in [1 .. Len(s) + 1 -> Seq(S)]
    <3>1. ASSUME NEW i \in 1 .. Len(s) + 1 PROVE Append(s, x)[i] \in S
      <4>1. i \in 1 .. Len(s) \/ i = Len(s) + 1
        BY <1>2
      <4> QED BY <1>2, <1>3, <4>1
    <3> QED BY <1>1, <1>3, <3>1
  <2>4. \A i \in 1 .. Len(s) + 1 : u[i] = One(Append(s, x)[i])
    BY <1>3
  <2> HIDE DEF t, u
  <2>5. u \in Seq(Seq(S)) /\ Len(u) = Len(s) + 1
    BY <1>2, <2>3, IsASeq, LenProperties
  <2>6. ASSUME NEW i \in 1 .. Len(u) PROVE u[i] = Append(t, One(x))[i]
    <3>1. i \in 1 .. Len(s) \/ i = Len(s) + 1
      BY <1>2, <2>5
    <3> QED BY <1>2, <1>3, <2>1, <2>2, <2>4, <2>5, <3>1
  <2> QED BY <2>1, <2>5, <2>6, SeqEqual
<1> HIDE DEF t, u
<1>8. /\ FlattenSeq(t) \in Seq(S)
      /\ FlattenSeq(u) = FlattenSeq(t) \o One(x)
  BY <1>6, <1>7, FlattenAppend
<1>9. CASE Reliable(x)
  <2>1. FlattenSeq(u) = FlattenSeq(t) \o <<x>>
    BY <1>8, <1>9 DEF One
  <2>2. FlattenSeq(t) \o <<x>> = Append(FlattenSeq(t), x)
    BY <1>8, AppendIsConcat
  <2> QED BY <1>4, <1>8, <1>9, <2>1, <2>2
<1>10. CASE ~ Reliable(x)
  <2>1. FlattenSeq(u) = FlattenSeq(t) \o <<>>
    BY <1>8, <1>10 DEF One
  <2> QED BY <1>4, <1>8, <1>10, <2>1, ConcatEmptySeq
<1> QED BY <1>9, <1>10

LEMMA ReliableOneMore ==
    ASSUME NEW S, NEW s \in Seq(S), NEW n \in Nat, n < Len(s)
    PROVE  /\ ReliableTo(s, n) \in Seq(S)
           /\ ReliableTo(s, n + 1) = IF Reliable(s[n + 1]) THEN Append(ReliableTo(s, n), s[n + 1]) ELSE ReliableTo(s, n)
<1>1. Len(s) \in Nat /\ \A i \in 1 .. Len(s) : s[i] \in S
  BY ElementOfSeq
<1>2. SubSeq(s, 1, n) \in Seq(S) /\ s[n + 1] \in S
  BY <1>1
<1>3. SubSeq(s, 1, n + 1) = Append(SubSeq(s, 1, n), s[n + 1])
  <2>1. /\ SubSeq(s, 1, n + 1) \in Seq(S) /\ Len(SubSeq(s, 1, n + 1)) = n + 1
        /\ \A i \in 1 .. n + 1 : SubSeq(s, 1, n + 1)[i] = s[i]
    BY <1>1
  <2>2. Len(SubSeq(s, 1, n)) = n /\ \A i \in 1 .. n : SubSeq(s, 1, n)[i] = s[i]
    BY <1>1
  <2> DEFINE a == SubSeq(s, 1, n)
             b == SubSeq(s, 1, n + 1)
             c == Append(a, s[n + 1])
  <2> HIDE DEF a, b
  <2>3. /\ c \in Seq(S) /\ Len(c) = n + 1 /\ c[n + 1] = s[n + 1] /\ \A i \in 1 .. n : c[i] = s[i]
    BY <1>2, <2>2, AppendProperties DEF a
  <2> HIDE DEF c
  <2>4. b \in Seq(S) /\ Len(b) = n + 1 /\ \A i \in 1 .. n + 1 : b[i] = s[i]
    BY <2>1 DEF b
  <2>5. ASSUME NEW i \in 1 .. Len(b) PROVE b[i] = c[i]
    <3>1. i \in 1 .. n \/ i = n + 1
      BY <2>4
    <3> QED BY <2>3, <2>4, <3>1
  <2>6. b = c
    BY <2>3, <2>4, <2>5, SeqEqual
  <2> QED BY <2>6 DEF a, b, c
<1> QED BY <1>2, <1>3, OnlyReliableAppend DEF ReliableTo

LEMMA ReliableSkip ==
    ASSUME NEW S, NEW s \in Seq(S), NEW n \in Nat, NEW m \in Nat, n <= m, m <= Len(s),
           \A i \in n + 1 .. m : ~ Reliable(s[i])
    PROVE  ReliableTo(s, m) = ReliableTo(s, n)
<1> DEFINE T == {k \in n .. m : ReliableTo(s, k) # ReliableTo(s, n)}
<1>0. Len(s) \in Nat
  BY LenProperties
<1>1. ASSUME NEW k \in T, \A l \in T : k <= l PROVE FALSE
  <2>1. k \in n .. m /\ ReliableTo(s, k) # ReliableTo(s, n)
    OBVIOUS
  <2>2. k # n
    BY <2>1
  <2>3. k - 1 \in n .. m /\ k - 1 \in Nat /\ k - 1 < Len(s) /\ (k - 1) + 1 = k /\ k \in n + 1 .. m /\ ~ (k <= k - 1)
    BY <1>0, <2>1, <2>2
  <2>4. ReliableTo(s, k - 1) = ReliableTo(s, n)
    BY <1>1, <2>3
  <2>5. ReliableTo(s, k) = ReliableTo(s, k - 1)
    BY <2>3, ReliableOneMore
  <2> QED BY <2>1, <2>4, <2>5
<1>2. T \in SUBSET Nat
  OBVIOUS
<1>3. T = {}
  <2> HIDE DEF T
  <2> QED BY <1>1, <1>2, Least
<1>4. m \in n .. m
  OBVIOUS
<1> QED BY <1>3, <1>4

LEMMA ReliablePrefix ==
    ASSUME NEW S, NEW s \in Seq(S), NEW n \in Nat, NEW m \in Nat, n <= m, m <= Len(s)
    PROVE  /\ ReliableTo(s, n) \in Seq(S) /\ ReliableTo(s, m) \in Seq(S)
           /\ Len(ReliableTo(s, n)) <= Len(ReliableTo(s, m))
           /\ \A i \in 1 .. Len(ReliableTo(s, n)) : ReliableTo(s, m)[i] = ReliableTo(s, n)[i]
<1> DEFINE a == ReliableTo(s, n)
           P(k) == /\ ReliableTo(s, k) \in Seq(S) /\ Len(a) <= Len(ReliableTo(s, k))
                   /\ \A i \in 1 .. Len(a) : ReliableTo(s, k)[i] = a[i]
           T == {k \in n .. m : ~ P(k)}
<1>0. Len(s) \in Nat
  BY LenProperties
<1>1. a \in Seq(S) /\ Len(a) \in Nat
  <2>1. SubSeq(s, 1, n) \in Seq(S)
    <3>1. \A i \in 1 .. n : s[i] \in S
      BY <1>0, ElementOfSeq
    <3> QED BY <3>1, SubSeqProperties
  <2>2. OnlyReliable(SubSeq(s, 1, n)) \in Seq(S)
    <3>1. CASE SubSeq(s, 1, n) = <<>>
      BY <3>1, OnlyReliableEmpty
    <3>2. CASE SubSeq(s, 1, n) # <<>>
      <4>1. PICK r \in Seq(S), x \in S : SubSeq(s, 1, n) = Append(r, x)
        BY <2>1, <3>2, SequenceEmptyOrAppend
      <4>2. OnlyReliable(r) \in Seq(S) /\ Append(OnlyReliable(r), x) \in Seq(S)
        BY OnlyReliableAppend, AppendProperties
      <4>3. OnlyReliable(Append(r, x)) = IF Reliable(x) THEN Append(OnlyReliable(r), x) ELSE OnlyReliable(r)
        BY OnlyReliableAppend
      <4>4. OnlyReliable(Append(r, x)) \in Seq(S)
        BY <4>2, <4>3
      <4> QED BY <4>1, <4>4
    <3> QED BY <3>1, <3>2
  <2> QED BY <2>2, LenProperties DEF ReliableTo
<1>2. ASSUME NEW k \in T, \A l \in T : k <= l PROVE FALSE
  <2>1. k \in n .. m /\ ~ P(k)
    OBVIOUS
  <2> HIDE DEF P
  <2>2. k # n
    BY <1>1, <2>1 DEF P
  <2>3. k - 1 \in n .. m /\ k - 1 \in Nat /\ k - 1 < Len(s) /\ (k - 1) + 1 = k /\ ~ (k <= k - 1)
    BY <1>0, <2>1, <2>2
  <2>4. P(k - 1)
    BY <1>2, <2>3
  <2> DEFINE b == ReliableTo(s, k - 1)
  <2>5. /\ b \in Seq(S) /\ Len(b) \in Nat /\ Len(a) <= Len(b) /\ \A i \in 1 .. Len(a) : b[i] = a[i]
        /\ ReliableTo(s, k) = IF Reliable(s[k]) THEN Append(b, s[k]) ELSE b
    BY <2>3, <2>4, ReliableOneMore, LenProperties DEF P
  <2>6. s[k] \in S
    BY <1>0, <2>1, <2>3, ElementOfSeq
  <2> HIDE DEF a, b
  <2>7. /\ Append(b, s[k]) \in Seq(S) /\ Len(Append(b, s[k])) = Len(b) + 1
        /\ \A i \in 1 .. Len(b) : Append(b, s[k])[i] = b[i]
    BY <2>5, <2>6, AppendProperties
  <2>8. P(k)
    BY <1>1, <2>5, <2>7 DEF P
  <2> QED BY <2>1, <2>8
<1>3. T \in SUBSET Nat
  OBVIOUS
<1>4. T = {}
  <2> HIDE DEF T
  <2> QED BY <1>2, <1>3, Least
<1>5. m \in n .. m
  OBVIOUS
<1> HIDE DEF P
<1>6. P(m)
  BY <1>4, <1>5
<1> QED BY <1>1, <1>6 DEF P

\* The k-th parcel, when it is reliable, is the next one after the reliable ones before it.
LEMMA ReliableNext ==
    ASSUME NEW S, NEW s \in Seq(S), NEW k \in 1 .. Len(s), Reliable(s[k])
    PROVE  LET a == ReliableTo(s, k - 1)
           IN  /\ a \in Seq(S) /\ Len(a) \in Nat /\ ReliableTo(s, k) = Append(a, s[k])
               /\ OnlyReliable(s) \in Seq(S) /\ Len(a) < Len(OnlyReliable(s))
               /\ OnlyReliable(s)[Len(a) + 1] = s[k]
<1> DEFINE a == ReliableTo(s, k - 1)
           b == ReliableTo(s, k)
<1>1. Len(s) \in Nat /\ k - 1 \in Nat /\ k \in Nat /\ k - 1 < Len(s) /\ (k - 1) + 1 = k /\ k <= Len(s) /\ Len(s) <= Len(s)
  BY LenProperties
<1>2. a \in Seq(S) /\ b = Append(a, s[k]) /\ s[k] \in S
  BY <1>1, ReliableOneMore, ElementOfSeq
<1>3. ReliableTo(s, Len(s)) = OnlyReliable(s)
  BY SubSeqFull DEF ReliableTo
<1>4. /\ OnlyReliable(s) \in Seq(S) /\ Len(b) <= Len(OnlyReliable(s))
      /\ \A i \in 1 .. Len(b) : OnlyReliable(s)[i] = b[i]
  BY <1>1, <1>3, ReliablePrefix
<1> HIDE DEF a, b
<1>5. Len(a) \in Nat /\ Len(b) = Len(a) + 1 /\ b[Len(a) + 1] = s[k] /\ Len(a) + 1 \in 1 .. Len(b)
  BY <1>2, AppendProperties, LenProperties
<1>6. Len(OnlyReliable(s)) \in Nat
  BY <1>4, LenProperties
<1> QED BY <1>2, <1>4, <1>5, <1>6 DEF a, b

-----------------------------------------------------------------------------
(***************************************************************************)
(* Reliable parcels.                                                       *)
(***************************************************************************)

LEMMA Numbers ==
    ASSUME BusInv, ChannelInv
    PROVE  /\ Sent \in Nat /\ Len(numbered) \in Nat /\ Sent <= Len(numbered)
           /\ last_recv_reliable_sequence \in 0 .. Sent /\ Done \in Nat /\ Done <= Sent
           /\ \/ incomplete_reliable_receiver = 0 /\ Done = last_recv_reliable_sequence
              \/ /\ incomplete_reliable_receiver = last_recv_reliable_sequence
                 /\ last_recv_reliable_sequence # 0 /\ Done = last_recv_reliable_sequence - 1
<1>1. SenderTypeOK /\ ReceiverTypeOK /\ OneAtATime
  BY DEF BusInv, BusTypeOK, ChannelInv
<1>2. Sent \in Nat /\ Len(numbered) \in Nat /\ Sent <= Len(numbered)
  BY <1>1, LenProperties DEF SenderTypeOK, Sent
<1>3. last_recv_reliable_sequence \in 0 .. Sent
  BY <1>1, <1>2 DEF OneAtATime, ReliableAt
<1>4. incomplete_reliable_receiver \in {0, last_recv_reliable_sequence}
  BY <1>1 DEF OneAtATime
<1> QED BY <1>2, <1>3, <1>4 DEF Done

\* The reliable parcel that blocks the bus.
LEMMA Blocking ==
    ASSUME BusInv
    PROVE  LET d == incomplete_reliable_dispatcher
           IN  \/ d = None /\ d.seq = 0
               \/ d # None /\ d.seq \in 1 .. Sent /\ d = numbered[d.seq] /\ Reliable(d) /\ d \in DispatcherRecord
<1> DEFINE d == incomplete_reliable_dispatcher
<1>1. CASE d = None
  BY <1>1 DEF None
<1>2. CASE d # None
  <2>1. SenderTypeOK
    BY DEF BusInv, BusTypeOK
  <2>2. PICK n \in 1 .. Sent : d = numbered[n] /\ Reliable(numbered[n])
    BY <1>2, <2>1 DEF SenderTypeOK
  <2>3. n \in DOMAIN numbered /\ numbered[n].seq = n /\ numbered[n] \in DispatcherRecord
    BY <2>1, LenProperties, ElementOfSeq DEF SenderTypeOK, Sent
  <2> HIDE DEF d
  <2> QED BY <1>2, <2>2, <2>3 DEF d
<1> QED BY <1>1, <1>2

\* The parcel of a reliable fragment is reliable and has been sent.
LEMMA ReliablePiece ==
    ASSUME SenderTypeOK, NEW f \in FragmentRecord, PieceOf(f, Sent, numbered), Reliable(f)
    PROVE  ReliableAt(f.seq)
<1>1. f.seq \in 1 .. Sent /\ numbered[f.seq].mode = f.mode
  BY DispatcherOf
<1> QED BY <1>1 DEF ReliableAt, Reliable

\* pomelo_delivery_bus_process_sending_deferred: nothing reliable goes before the last
\* reliable parcel is at the other end.
LEMMA SendingKeepsChannel ==
    ASSUME BusInv, ChannelInv, NEW queue, Queued(queue),
           NEW incomplete \in {None, incomplete_reliable_dispatcher}, ProcessSending(queue, incomplete),
           incomplete = None => incomplete_reliable_dispatcher.seq <= last_recv_reliable_sequence,
           UNCHANGED receiverVars,
           \A k \in DOMAIN acks' : \E j \in DOMAIN acks : acks'[k] = acks[j]
    PROVE  ChannelInv'
<1> DEFINE last == last_recv_reliable_sequence
           cur == incomplete_reliable_dispatcher
<1>1. /\ SenderTypeOK /\ PiecesTypeOK /\ ReceiverTypeOK
      /\ OneAtATime /\ AcksAreTrue /\ DeliveredIsDone /\ queue \in Seq(DispatcherRecord)
      /\ UNCHANGED <<receivers, verifying, delivered, last_recv_sequenced_sequence, last_recv_reliable_sequence,
                     incomplete_reliable_receiver>>
  BY DEF BusInv, BusTypeOK, ChannelInv, receiverVars, Queued
<1>2. PICK count, more, row, at : Goes(queue, incomplete, count, more, row, at)
  BY <1>1, ProcessSendingGoes
<1>3. /\ Sent \in Nat /\ Sent' = Sent + count /\ count \in Nat /\ Sent <= Len(numbered)
      /\ \A n \in 1 .. Sent : numbered'[n] = numbered[n]
      /\ \A k \in 1 .. count : queue[k] = numbered'[Sent + k] /\ queue[k] \in DispatcherRecord
  BY <1>1, <1>2, SentGrows
<1>4. /\ Len(numbered) \in Nat /\ last \in 0 .. Sent /\ Done \in Nat /\ Done <= Sent /\ Done' = Done
  BY <1>1, Numbers DEF Done
<1>5. \A f : Has(f)' <=> Has(f)
  BY <1>1, <1>4 DEF Has
<1>6. \A n \in 1 .. Sent : ReliableAt(n)' <=> ReliableAt(n)
  BY <1>3 DEF ReliableAt
<1>7. ASSUME NEW n, ReliableAt(n)'
      PROVE  \/ n \in 1 .. Sent /\ ReliableAt(n)
             \/ /\ n = Sent' /\ count \in 1 .. count /\ Reliable(queue[count]) /\ incomplete = None
                /\ incomplete_reliable_dispatcher' = queue[count] /\ incomplete_reliable_dispatcher'.seq = n
  <2>1. CASE n \in 1 .. Sent
    BY <1>6, <1>7, <2>1
  <2>2. CASE n \notin 1 .. Sent
    <3>1. n \in 1 .. Sent' /\ Reliable(numbered'[n])
      BY <1>7 DEF ReliableAt
    <3>2. n - Sent \in 1 .. count /\ Sent + (n - Sent) = n
      BY <1>3, <2>2, <3>1
    <3>3. queue[n - Sent] = numbered'[n]
      BY <1>3, <3>2
    <3>4. n - Sent = count /\ incomplete_reliable_dispatcher' = queue[count] /\ (incomplete # None => count = 0)
      BY <1>2, <3>1, <3>2, <3>3 DEF Goes
    <3>5. queue[count].seq = n
      <4>1. n \in DOMAIN numbered'
        BY <1>2, <1>3, <3>1, LenProperties DEF Queued, Goes
      <4> QED BY <3>3, <3>4, <4>1 DEF Queued
    <3> QED BY <1>3, <3>1, <3>2, <3>3, <3>4, <3>5
  <2> QED BY <2>1, <2>2
<1>8. OneAtATime'
  <2>1. last_recv_reliable_sequence' = 0 \/ ReliableAt(last_recv_reliable_sequence)'
    <3>1. last = 0 \/ (last \in 1 .. Sent /\ ReliableAt(last))
      BY <1>1 DEF OneAtATime, ReliableAt
    <3> QED BY <1>1, <1>3, <3>1 DEF ReliableAt
  <2>2. ASSUME NEW n \in 1 .. Sent', ReliableAt(n)'
        PROVE  /\ n # incomplete_reliable_dispatcher'.seq => n <= last
               /\ incomplete_reliable_dispatcher' # None => n <= incomplete_reliable_dispatcher'.seq
    <3>1. CASE \A k \in 1 .. count : ~ Reliable(queue[k])
      <4>1. incomplete_reliable_dispatcher' = incomplete
        BY <1>2, <3>1 DEF Goes
      <4>2. n \in 1 .. Sent /\ ReliableAt(n)
        BY <1>7, <2>2, <3>1
      <4>3. /\ n # cur.seq => n <= last
            /\ cur # None => n <= cur.seq
        BY <1>1, <4>2 DEF OneAtATime
      <4>4. CASE incomplete = None
        BY <1>3, <1>4, <4>1, <4>2, <4>3, <4>4
      <4> QED BY <4>1, <4>3, <4>4
    <3>2. ASSUME NEW k \in 1 .. count, Reliable(queue[k])
          PROVE  /\ n # incomplete_reliable_dispatcher'.seq => n <= last
                 /\ n <= incomplete_reliable_dispatcher'.seq
      <4>1. k = count /\ incomplete_reliable_dispatcher' = queue[count] /\ (incomplete # None => count = 0)
        BY <1>2, <3>2 DEF Goes
      <4>2. queue[count].seq = Sent'
        <5>1. Sent + count = Sent' /\ Sent' \in DOMAIN numbered'
          BY <1>2, <1>3, <3>2, LenProperties DEF Queued, Goes
        <5> QED BY <1>3, <3>2, <4>1, <5>1 DEF Queued
      <4>3. incomplete = None
        BY <1>3, <4>1, <3>2
      <4>4. n # Sent' => n <= last
        <5>1. CASE n \in 1 .. Sent /\ ReliableAt(n)
          <6>1. n # cur.seq => n <= last
            BY <1>1, <5>1 DEF OneAtATime
          <6> QED BY <4>3, <6>1
        <5> QED BY <1>7, <2>2, <5>1
      <4> QED BY <1>3, <2>2, <4>1, <4>2, <4>4
    <3> QED BY <3>1, <3>2
  <2>3. \A f \in receivers' : Reliable(f) => f.seq = incomplete_reliable_receiver'
    BY <1>1 DEF OneAtATime
  <2>4. incomplete_reliable_receiver' \in {0, last_recv_reliable_sequence'}
    BY <1>1 DEF OneAtATime
  <2> QED BY <1>1, <2>1, <2>2, <2>3, <2>4 DEF OneAtATime
<1>10. AcksAreTrue'
  <2>1. \A k \in DOMAIN acks' : Has(acks'[k])
    BY <1>1 DEF AcksAreTrue
  <2>2. acked' = IF incomplete # None THEN acked ELSE {}
    BY <1>2 DEF Goes
  <2>3. CASE incomplete = None
    BY <1>5, <2>1, <2>2, <2>3 DEF AcksAreTrue, Has
  <2>4. CASE incomplete # None
    <3>1. count = 0 /\ incomplete = cur
      BY <1>2, <2>4 DEF Goes
    <3>2. incomplete_reliable_dispatcher' = cur
      <4>1. \A k \in 1 .. count : ~ Reliable(queue[k])
        BY <3>1
      <4> QED BY <1>2, <3>1, <4>1 DEF Goes
    <3>3. acked \subseteq 1 .. cur.size /\ (cur # None => \A i \in acked : Has(Fragment(cur, i)))
      BY <1>1 DEF AcksAreTrue
    <3> QED BY <1>1, <1>4, <2>1, <2>2, <2>4, <3>2, <3>3 DEF AcksAreTrue, Has
  <2> QED BY <2>3, <2>4
<1>11. DeliveredIsDone'
  <2>1. SubSeq(numbered', 1, Done) = SubSeq(numbered, 1, Done)
    <3>1. \A i \in 1 .. Done : numbered'[i] = numbered[i]
      BY <1>3, <1>4
    <3> QED BY <1>4, <3>1
  <2> QED BY <1>1, <1>4, <2>1 DEF DeliveredIsDone, ReliableTo
<1> QED BY <1>8, <1>10, <1>11 DEF ChannelInv

\* What may change when nothing is sent for the first time and nothing is received.
LEMMA NothingNew ==
    ASSUME BusInv, ChannelInv, UNCHANGED <<numbered, pending_dispatchers, incomplete_reliable_dispatcher>>,
           UNCHANGED receiverVars,
           \A k \in DOMAIN acks' : Has(acks'[k]),
           acked' \subseteq 1 .. incomplete_reliable_dispatcher.size,
           incomplete_reliable_dispatcher # None => \A i \in acked' : Has(Fragment(incomplete_reliable_dispatcher, i))
    PROVE  ChannelInv'
<1>1. /\ OneAtATime /\ DeliveredIsDone
      /\ UNCHANGED <<receivers, verifying, delivered, last_recv_sequenced_sequence, last_recv_reliable_sequence,
                     incomplete_reliable_receiver>>
  BY DEF ChannelInv, receiverVars
<1>2. Sent' = Sent /\ Done' = Done
  BY <1>1 DEF Sent, Done
<1>3. OneAtATime'
  BY <1>1, <1>2 DEF OneAtATime, ReliableAt
<1>4. AcksAreTrue'
  BY <1>1, <1>2 DEF AcksAreTrue, Has
<1>5. DeliveredIsDone'
  BY <1>1, <1>2 DEF DeliveredIsDone
<1> QED BY <1>3, <1>4, <1>5 DEF ChannelInv

\* pomelo_delivery_dispatcher_resend
LEMMA ResendKeepsChannel == ASSUME BusInv, ChannelInv, Resend PROVE ChannelInv'
<1>1. UNCHANGED senderVars /\ UNCHANGED acks /\ UNCHANGED receiverVars /\ AcksAreTrue
  BY DEF Resend, ChannelInv
<1>2. UNCHANGED <<numbered, pending_dispatchers, incomplete_reliable_dispatcher, acked>>
  BY <1>1 DEF senderVars
<1> QED BY <1>1, <1>2, NothingNew DEF AcksAreTrue

\* pomelo_delivery_sender_dispatch: the bus is free, or it stays blocked.
LEMMA DispatchKeepsChannel ==
    ASSUME BusInv, ChannelInv, PostedTypeOK', NEW id, id \in 1 .. Len(posted'), Dispatch(id),
           Len(numbered) + 1 <= MaxParcels, UNCHANGED <<receiverVars, acks>>
    PROVE  ChannelInv'
<1>1. PostedTypeOK /\ SenderTypeOK
  BY DEF BusInv, BusTypeOK
<1>2. Queued(Append(pending_dispatchers, Numbered(id)))
  BY <1>1, DispatchQueues DEF Dispatch
<1>3. ProcessSending(Append(pending_dispatchers, Numbered(id)), incomplete_reliable_dispatcher)
  BY DEF Dispatch
<1>4. incomplete_reliable_dispatcher = None => incomplete_reliable_dispatcher.seq <= last_recv_reliable_sequence
  <2>1. None.seq = 0 /\ last_recv_reliable_sequence \in Nat
    BY Numbers DEF None
  <2> QED BY <2>1
<1>5. UNCHANGED receiverVars /\ \A k \in DOMAIN acks' : \E j \in DOMAIN acks : acks'[k] = acks[j]
  OBVIOUS
<1> QED BY <1>2, <1>3, <1>4, <1>5, SendingKeepsChannel

\* The first acknowledgement of a parcel shows that the other end has begun to receive it.
LEMMA Acknowledged ==
    ASSUME BusInv, ChannelInv, NEW i \in DOMAIN acks, OfThisParcel(acks[i])
    PROVE  LET d == incomplete_reliable_dispatcher
           IN  /\ d # None /\ acks[i].index \in 1 .. d.size /\ acks[i] = Fragment(d, acks[i].index)
               /\ d.seq <= last_recv_reliable_sequence
<1> DEFINE d == incomplete_reliable_dispatcher
           ack == acks[i]
<1>1. /\ SenderTypeOK /\ PiecesTypeOK /\ OneAtATime /\ acks \in Seq(FragmentRecord)
      /\ ack \in FragmentRecord /\ PieceOf(ack, Sent, numbered) /\ Reliable(ack) /\ Has(ack)
  BY ElementOfSeq DEF BusInv, BusTypeOK, PiecesTypeOK, ChannelInv, AcksAreTrue
<1> HIDE DEF ack
<1>2. /\ ack.seq \in 1 .. Sent /\ numbered[ack.seq].size = ack.size /\ ack.index \in 1 .. ack.size
      /\ ack = Fragment(numbered[ack.seq], ack.index)
  BY <1>1, DispatcherOf
<1>3. ack.seq = d.seq
  BY DEF OfThisParcel, ack
<1>4. d # None /\ d = numbered[d.seq]
  BY <1>2, <1>3, Blocking
<1>5. ack.seq <= last_recv_reliable_sequence
  <2>1. CASE ack \in receivers
    <3>1. ack.seq = incomplete_reliable_receiver
      BY <1>1, <2>1 DEF OneAtATime
    <3> QED BY <1>2, <3>1, Numbers
  <2>2. CASE ack.seq <= Done
    BY <1>2, <2>2, Numbers
  <2> QED BY <1>1, <2>1, <2>2 DEF Has
<1> QED BY <1>2, <1>3, <1>4, <1>5 DEF ack

\* pomelo_delivery_bus_recv_fragment_ack
LEMMA ReceiveAckKeepsChannel == ASSUME BusInv, ChannelInv, NEW ack \in ToSet(acks), ReceiveAck(ack) PROVE ChannelInv'
<1> DEFINE d == incomplete_reliable_dispatcher
           indices == acked \cup {ack.index}
<1>1. PICK i \in Arriving(acks) : acks[i] = ack /\ acks' = RemoveAt(acks, i) /\ RecvAck(ack) /\ UNCHANGED receiverVars
  BY DEF ReceiveAck
<1>2. /\ SenderTypeOK /\ acks \in Seq(FragmentRecord) /\ i \in DOMAIN acks
      /\ \A k \in DOMAIN acks : Has(acks[k])
      /\ acked \subseteq 1 .. d.size /\ (d # None => \A k \in acked : Has(Fragment(d, k)))
  BY DEF BusInv, BusTypeOK, PiecesTypeOK, Arriving, ChannelInv, AcksAreTrue
<1>3. \A k \in DOMAIN acks' : \E j \in DOMAIN acks : acks'[k] = acks[j]
  BY <1>1, <1>2, RemovedElements
<1>4. UNCHANGED numbered
  BY <1>1 DEF RecvAck
<1>5. OfThisParcel(ack) => /\ d # None /\ ack.index \in 1 .. d.size /\ ack = Fragment(d, ack.index)
                           /\ d.seq <= last_recv_reliable_sequence
  BY <1>1, <1>2, Acknowledged
<1>6. CASE ~ OfThisParcel(ack) \/ indices # 1 .. d.size
  <2>1. UNCHANGED <<pending_dispatchers, incomplete_reliable_dispatcher, data>>
        /\ (acked' = acked \/ (OfThisParcel(ack) /\ acked' = indices))
    BY <1>1, <1>6 DEF RecvAck
  <2>3. acked' \subseteq 1 .. d.size /\ (d # None => \A k \in acked' : Has(Fragment(d, k)))
    <3>1. Has(ack)
      BY <1>1, <1>2
    <3> HIDE DEF d
    <3> QED BY <1>2, <1>5, <2>1, <3>1
  <2>4. \A k \in DOMAIN acks' : Has(acks'[k])
    BY <1>2, <1>3
  <2> QED BY <1>1, <1>4, <2>1, <2>3, <2>4, NothingNew
<1>7. CASE OfThisParcel(ack) /\ indices = 1 .. d.size
  <2>1. ProcessSending(pending_dispatchers, None)
    BY <1>1, <1>7 DEF RecvAck
  <2>2. Queued(pending_dispatchers)
    BY <1>2, <1>4, LenProperties DEF SenderTypeOK, Sent, Queued
  <2> QED BY <1>1, <1>3, <1>5, <1>7, <2>1, <2>2, SendingKeepsChannel
<1> QED BY <1>6, <1>7

\* What a fragment, or a checksum, may change at the receiving end.
LEMMA ReceivingKeeps ==
    ASSUME BusInv, ChannelInv, UNCHANGED senderVars,
           \/ UNCHANGED last_recv_reliable_sequence
           \/ ReliableAt(last_recv_reliable_sequence') /\ last_recv_reliable_sequence <= last_recv_reliable_sequence',
           incomplete_reliable_receiver' \in {0, last_recv_reliable_sequence'},
           \A f \in receivers' : Reliable(f) => f.seq = incomplete_reliable_receiver',
           \A f \in FragmentRecord : Reliable(f) /\ Has(f) => Has(f)',
           \A k \in DOMAIN acks' : \E f : acks'[k] = f /\ Has(f)',
           OnlyReliable(delivered') = ReliableTo(numbered, Done')
    PROVE  ChannelInv'
<1> DEFINE d == incomplete_reliable_dispatcher
<1>1. OneAtATime /\ AcksAreTrue /\ SenderTypeOK
  BY DEF ChannelInv, BusInv, BusTypeOK
<1>2. UNCHANGED <<numbered, acked, incomplete_reliable_dispatcher>> /\ Sent' = Sent
  BY <1>1, SenderSame DEF senderVars
<1>3. Sent \in Nat /\ last_recv_reliable_sequence \in 0 .. Sent
  BY Numbers
<1>4. OneAtATime'
  <2>1. last_recv_reliable_sequence' = 0 \/ ReliableAt(last_recv_reliable_sequence)'
    BY <1>1, <1>2 DEF OneAtATime, ReliableAt
  <2>2. last_recv_reliable_sequence' \in Nat /\ last_recv_reliable_sequence <= last_recv_reliable_sequence'
    BY <1>3 DEF ReliableAt
  <2>3. ASSUME NEW n \in 1 .. Sent', ReliableAt(n)'
        PROVE  /\ n # incomplete_reliable_dispatcher'.seq => n <= last_recv_reliable_sequence'
               /\ incomplete_reliable_dispatcher' # None => n <= incomplete_reliable_dispatcher'.seq
    <3>1. ReliableAt(n) /\ n \in 1 .. Sent
      BY <1>2, <2>3 DEF ReliableAt
    <3>2. /\ n # d.seq => n <= last_recv_reliable_sequence
          /\ d # None => n <= d.seq
      BY <1>1, <3>1 DEF OneAtATime
    <3> QED BY <1>2, <1>3, <2>2, <3>1, <3>2
  <2> QED BY <2>1, <2>3 DEF OneAtATime
<1>5. AcksAreTrue'
  <2>1. \A k \in DOMAIN acks' : Has(acks[k])'
    BY DEF Has
  <2>2. acked \subseteq 1 .. d.size /\ (d # None => \A i \in acked : Has(Fragment(d, i)))
    BY <1>1 DEF AcksAreTrue
  <2>3. ASSUME d # None, NEW i \in acked PROVE Has(Fragment(d, i))'
    <3>1. d \in DispatcherRecord /\ Reliable(d) /\ i \in 1 .. d.size
      BY <2>2, <2>3, Blocking
    <3>2. Reliable(Fragment(d, i)) /\ Has(Fragment(d, i)) /\ Fragment(d, i) \in FragmentRecord
      BY <2>2, <2>3, <3>1, FragmentType
    <3>3. PICK f : f = Fragment(d, i)
      OBVIOUS
    <3>4. Has(f)'
      BY <3>2, <3>3
    <3> QED BY <1>2, <3>3, <3>4 DEF Has, Fragment
  <2> QED BY <1>2, <2>1, <2>2, <2>3 DEF AcksAreTrue
<1>6. DeliveredIsDone'
  BY <1>2 DEF DeliveredIsDone
<1> QED BY <1>4, <1>5, <1>6 DEF ChannelInv

\* What is not reliable changes nothing of it.
LEMMA UnreliableKeeps ==
    ASSUME BusInv, ChannelInv, UNCHANGED senderVars,
           UNCHANGED <<last_recv_reliable_sequence, incomplete_reliable_receiver>>,
           \A f : Reliable(f) => (f \in receivers' <=> f \in receivers),
           \A k \in DOMAIN acks' : \E j \in DOMAIN acks : acks'[k] = acks[j],
           NEW d \in DispatcherRecord, ~ Reliable(d),
           delivered' = delivered \/ delivered' = Append(delivered, d)
    PROVE  ChannelInv'
<1>1. OneAtATime /\ AcksAreTrue /\ DeliveredIsDone /\ PiecesTypeOK /\ ReceiverTypeOK
  BY DEF ChannelInv, BusInv, BusTypeOK
<1>2. Done' = Done
  BY DEF Done
<1>3. \A f \in FragmentRecord : Reliable(f) /\ Has(f) => Has(f)'
  BY <1>2 DEF Has
<1>4. ASSUME NEW k \in DOMAIN acks' PROVE \E f : acks'[k] = f /\ Has(f)'
  <2>1. PICK j \in DOMAIN acks : acks'[k] = acks[j]
    OBVIOUS
  <2>2. Reliable(acks[j]) /\ Has(acks[j]) /\ acks[j] \in FragmentRecord
    BY <1>1, ElementOfSeq DEF PiecesTypeOK, AcksAreTrue
  <2>3. PICK f : f = acks[j]
    OBVIOUS
  <2> QED BY <1>3, <2>1, <2>2, <2>3
<1>5. delivered \in Seq(DispatcherRecord)
  BY <1>1 DEF ReceiverTypeOK
<1>6. OnlyReliable(delivered') = OnlyReliable(delivered)
  <2>1. OnlyReliable(Append(delivered, d)) = OnlyReliable(delivered)
    BY <1>5, OnlyReliableAppend
  <2> QED BY <2>1
<1>7. OnlyReliable(delivered') = ReliableTo(numbered, Done')
  BY <1>1, <1>2, <1>6 DEF DeliveredIsDone
<1>8. /\ \A f \in receivers' : Reliable(f) => f.seq = incomplete_reliable_receiver'
      /\ incomplete_reliable_receiver' \in {0, last_recv_reliable_sequence'}
  BY <1>1 DEF OneAtATime
<1> QED BY <1>3, <1>4, <1>7, <1>8, ReceivingKeeps

\* The reliable parcel number s is delivered after those before it.
LEMMA ReliableDelivered ==
    ASSUME BusInv, NEW s \in 1 .. Sent, Reliable(numbered[s]), NEW rest, Complete(numbered[s], rest),
           OnlyReliable(delivered) = ReliableTo(numbered, s - 1)
    PROVE  /\ OnlyReliable(delivered') = ReliableTo(numbered, s)
           /\ delivered' = Append(delivered, numbered[s]) /\ incomplete_reliable_receiver' = 0
           /\ receivers' = {f \in rest : f.seq # s}
<1> DEFINE d == numbered[s]
<1>1. /\ numbered \in Seq(DispatcherRecord) /\ s \in 1 .. Len(numbered) /\ d \in DispatcherRecord /\ d.seq = s
      /\ delivered \in Seq(DispatcherRecord)
  BY LenProperties, ElementOfSeq DEF BusInv, BusTypeOK, SenderTypeOK, ReceiverTypeOK, Sent
<1>2. ~ Late(d)
  BY DEF Reliable, Late
<1>3. /\ delivered' = Append(delivered, d) /\ incomplete_reliable_receiver' = 0
      /\ receivers' = {f \in rest : f.seq # s}
  BY <1>1, <1>2 DEF Complete
<1>4. ReliableTo(numbered, s) = Append(ReliableTo(numbered, s - 1), d)
  BY <1>1, ReliableNext
<1>5. OnlyReliable(delivered') = Append(OnlyReliable(delivered), d)
  <2> HIDE DEF d
  <2>1. Reliable(d)
    BY DEF d
  <2> QED BY <1>1, <1>3, <2>1, OnlyReliableAppend
<1> QED BY <1>3, <1>4, <1>5

\* The parcels that are expired are not reliable.
LEMMA ExpiredUnreliable ==
    ASSUME SenderTypeOK, PiecesTypeOK, NEW over \in SUBSET Expirable, NEW g \in receivers, Reliable(g)
    PROVE  g.seq \notin over
<1> SUFFICES ASSUME g.seq \in over PROVE FALSE
  OBVIOUS
<1>1. PICK h \in receivers : ~ Reliable(h) /\ h.seq = g.seq
  BY DEF Expirable
<1>2. /\ g \in FragmentRecord /\ PieceOf(g, Sent, numbered)
      /\ h \in FragmentRecord /\ PieceOf(h, Sent, numbered)
  BY DEF PiecesTypeOK
<1>3. numbered[g.seq].mode = g.mode /\ numbered[h.seq].mode = h.mode
  BY <1>2, DispatcherOf
<1> QED BY <1>1, <1>3 DEF Reliable

\* A reliable fragment that is not refused is of the next reliable parcel.
LEMMA NextParcel ==
    ASSUME BusInv, ChannelInv, NEW s, ReliableAt(s), last_recv_reliable_sequence <= s,
           incomplete_reliable_receiver = 0 => s # last_recv_reliable_sequence,
           incomplete_reliable_receiver # 0 => s = last_recv_reliable_sequence
    PROVE  /\ s \in Nat /\ s - 1 \in Nat /\ Done <= s - 1
           /\ OnlyReliable(delivered) = ReliableTo(numbered, s - 1)
           /\ \A f \in receivers : Reliable(f) => f.seq = s
<1>1. /\ OneAtATime /\ DeliveredIsDone /\ PiecesTypeOK /\ numbered \in Seq(DispatcherRecord)
  BY DEF ChannelInv, BusInv, BusTypeOK, SenderTypeOK
<1>2. s \in 1 .. Sent /\ Reliable(numbered[s])
  BY DEF ReliableAt
<1>3. /\ Sent \in Nat /\ Len(numbered) \in Nat /\ Sent <= Len(numbered)
      /\ last_recv_reliable_sequence \in 0 .. Sent /\ Done \in Nat /\ Done <= Sent
      /\ \/ incomplete_reliable_receiver = 0 /\ Done = last_recv_reliable_sequence
         \/ /\ incomplete_reliable_receiver = last_recv_reliable_sequence
            /\ last_recv_reliable_sequence # 0 /\ Done = last_recv_reliable_sequence - 1
  BY Numbers
<1>4. s \in Nat /\ s - 1 \in Nat /\ Done <= s - 1
  BY <1>2, <1>3
<1>5. ASSUME NEW i \in Done + 1 .. s - 1, Reliable(numbered[i]) PROVE FALSE
  <2>1. i \in 1 .. Sent /\ i \in Nat /\ ReliableAt(i) /\ i < s
    BY <1>2, <1>3, <1>4, <1>5 DEF ReliableAt
  <2>2. CASE incomplete_reliable_receiver = 0
    <3>1. s # incomplete_reliable_dispatcher.seq => s <= last_recv_reliable_sequence
      BY <1>1, <1>2 DEF OneAtATime
    <3>2. s = incomplete_reliable_dispatcher.seq
      BY <1>2, <1>3, <2>2, <3>1
    <3>3. i # incomplete_reliable_dispatcher.seq => i <= last_recv_reliable_sequence
      BY <1>1, <2>1 DEF OneAtATime
    <3> QED BY <1>3, <1>5, <2>1, <2>2, <3>2, <3>3
  <2>3. CASE incomplete_reliable_receiver # 0
    BY <1>2, <1>3, <1>5, <2>1, <2>3
  <2> QED BY <2>2, <2>3
<1>6. ReliableTo(numbered, s - 1) = ReliableTo(numbered, Done)
  <2>1. s - 1 <= Len(numbered)
    BY <1>2, <1>3
  <2> QED BY <1>1, <1>3, <1>4, <1>5, <2>1, ReliableSkip
<1>7. ASSUME NEW f \in receivers, Reliable(f) PROVE f.seq = s
  <2>1. f.seq = incomplete_reliable_receiver /\ f.seq # 0
    BY <1>1, <1>7 DEF OneAtATime, PiecesTypeOK, FragmentRecord
  <2> QED BY <1>3, <2>1
<1> QED BY <1>1, <1>4, <1>6, <1>7 DEF DeliveredIsDone

\* pomelo_delivery_receiver_add_fragment, for a fragment that is not reliable.
LEMMA AddUnreliableKeeps ==
    ASSUME BusInv, ChannelInv, UNCHANGED senderVars, NEW f \in FragmentRecord, PieceOf(f, Sent, numbered),
           ~ Reliable(f), ReplyAck(f), NEW over \in SUBSET Expirable, AddFragment(f, over)
    PROVE  ChannelInv'
<1> DEFINE d == numbered[f.seq]
           rest == {g \in receivers : g.seq \notin over} \cup {f}
           whole == f \notin receivers /\ \A i \in 1 .. f.size : Fragment(f, i) \in rest
<1>1. SenderTypeOK /\ PiecesTypeOK
  BY DEF BusInv, BusTypeOK
<1>2. /\ f.seq \in 1 .. Sent /\ d \in DispatcherRecord /\ Dispatcher(f) = d /\ d.seq = f.seq /\ d.mode = f.mode
  BY <1>1, DispatcherOf
<1>3. /\ UNCHANGED last_recv_reliable_sequence /\ acks' = acks
      /\ whole /\ f.size = 1 => Complete(d, rest)
      /\ ~ (whole /\ f.size = 1) =>
           /\ receivers' = rest
           /\ UNCHANGED incomplete_reliable_receiver
           /\ UNCHANGED <<delivered, last_recv_sequenced_sequence>>
  BY <1>2 DEF AddFragment, ReplyAck
<1>4. ~ Reliable(d)
  BY <1>2 DEF Reliable
<1>5. \A g : Reliable(g) => (g \in rest <=> g \in receivers)
  BY <1>1, ExpiredUnreliable
<1>6. ASSUME NEW g, g \in receivers, Reliable(g) PROVE g.seq # f.seq
  <2>1. g \in FragmentRecord /\ PieceOf(g, Sent, numbered)
    BY <1>1, <1>6 DEF PiecesTypeOK
  <2>2. numbered[g.seq].mode = g.mode
    BY <1>1, <2>1, DispatcherOf
  <2> QED BY <1>2, <1>6, <2>2 DEF Reliable
<1> HIDE DEF whole, rest
<1>7. /\ UNCHANGED incomplete_reliable_receiver
      /\ \A g : Reliable(g) => (g \in receivers' <=> g \in receivers)
      /\ delivered' = delivered \/ delivered' = Append(delivered, d)
  <2>1. CASE whole /\ f.size = 1
    <3>1. Complete(d, rest)
      BY <1>3, <2>1
    <3> HIDE DEF d
    <3>2. /\ UNCHANGED incomplete_reliable_receiver
          /\ receivers' = {g \in rest : g.seq # f.seq}
          /\ delivered' = delivered \/ delivered' = Append(delivered, d)
      BY <1>2, <1>4, <3>1 DEF Complete
    <3> QED BY <1>5, <1>6, <3>2 
  <2>2. CASE ~ (whole /\ f.size = 1)
    BY <1>3, <1>5, <2>2
  <2> QED BY <2>1, <2>2
<1>8. \A k \in DOMAIN acks' : \E j \in DOMAIN acks : acks'[k] = acks[j]
  BY <1>3
<1> HIDE DEF d
<1> QED BY <1>2, <1>3, <1>4, <1>7, <1>8, UnreliableKeeps

\* pomelo_delivery_receiver_add_fragment, for a reliable fragment.
LEMMA AddReliableKeeps ==
    ASSUME BusInv, ChannelInv, UNCHANGED senderVars, NEW f \in FragmentRecord, PieceOf(f, Sent, numbered),
           Reliable(f), ~ AlreadyReceived(f), ~ Refused(f), last_recv_reliable_sequence <= f.seq,
           ReplyAck(f), NEW over \in SUBSET Expirable, AddFragment(f, over)
    PROVE  ChannelInv'
<1> DEFINE s == f.seq
           d == numbered[f.seq]
           rest == {g \in receivers : g.seq \notin over} \cup {f}
           whole == f \notin receivers /\ \A i \in 1 .. f.size : Fragment(f, i) \in rest
<1>1. SenderTypeOK /\ PiecesTypeOK /\ AcksAreTrue
  BY DEF BusInv, BusTypeOK, ChannelInv
<1>2. /\ s \in 1 .. Sent /\ d \in DispatcherRecord /\ Dispatcher(f) = d /\ d.seq = s /\ Reliable(d) /\ ReliableAt(s)
  BY <1>1, DispatcherOf, ReliablePiece DEF ReliableAt
<1>3. /\ last_recv_reliable_sequence' = s
      /\ whole /\ f.size = 1 => Complete(d, rest)
      /\ ~ (whole /\ f.size = 1) => receivers' = rest /\ incomplete_reliable_receiver' = s /\ UNCHANGED delivered
  BY <1>2 DEF AddFragment
<1>4. /\ incomplete_reliable_receiver = 0 => s # last_recv_reliable_sequence
      /\ incomplete_reliable_receiver # 0 => s = last_recv_reliable_sequence
  BY DEF AlreadyReceived, Refused, Reliable
<1>5. /\ s \in Nat /\ s - 1 \in Nat /\ Done <= s - 1 /\ Done \in Nat
      /\ OnlyReliable(delivered) = ReliableTo(numbered, s - 1)
      /\ \A g \in receivers : Reliable(g) => g.seq = s
  BY <1>2, <1>4, NextParcel, Numbers
<1>6. \A g : Reliable(g) => (g \in rest <=> g \in receivers \/ g = f)
  BY <1>1, ExpiredUnreliable
<1> HIDE DEF rest, whole
<1>7. /\ incomplete_reliable_receiver' \in {0, s}
      /\ \A g \in receivers' : Reliable(g) => g.seq = incomplete_reliable_receiver'
      /\ \A g \in FragmentRecord : Reliable(g) /\ (Has(g) \/ g = f) => Has(g)'
      /\ OnlyReliable(delivered') = ReliableTo(numbered, Done')
  <2>1. CASE whole /\ f.size = 1
    <3>1. Complete(numbered[s], rest)
      BY <1>3, <2>1
    <3>2. /\ OnlyReliable(delivered') = ReliableTo(numbered, s) /\ incomplete_reliable_receiver' = 0
          /\ receivers' = {g \in rest : g.seq # s}
      BY <1>2, <1>5, <3>1, ReliableDelivered
    <3>3. Done' = s
      BY <1>3, <3>2 DEF Done
    <3>4. \A g \in receivers' : ~ Reliable(g)
      BY <1>5, <1>6, <3>2
    <3>5. ASSUME NEW g \in FragmentRecord, Reliable(g), Has(g) \/ g = f PROVE Has(g)'
      <4>1. g.seq \in Nat
        BY DEF FragmentRecord
      <4>2. g.seq <= s
        BY <1>5, <3>5, <4>1 DEF Has
      <4> QED BY <3>3, <4>2 DEF Has
    <3> QED BY <3>2, <3>3, <3>4, <3>5
  <2>2. CASE ~ (whole /\ f.size = 1)
    <3>1. receivers' = rest /\ incomplete_reliable_receiver' = s /\ delivered' = delivered
      BY <1>3, <2>2
    <3>2. Done' = s - 1
      BY <1>2, <1>3, <3>1 DEF Done
    <3>3. ASSUME NEW g \in FragmentRecord, Reliable(g), Has(g) \/ g = f PROVE Has(g)'
      <4>1. g.seq \in Nat /\ (g \in receivers \/ g = f => g \in receivers')
        BY <1>6, <3>1, <3>3 DEF FragmentRecord
      <4>2. CASE g.seq <= Done
        <5>1. g.seq <= Done'
          BY <1>5, <3>2, <4>1, <4>2
        <5> QED BY <5>1 DEF Has
      <4> QED BY <3>3, <4>1, <4>2 DEF Has
    <3> QED BY <1>5, <1>6, <3>1, <3>2, <3>3
  <2> QED BY <2>1, <2>2
<1>8. ASSUME NEW k \in DOMAIN acks' PROVE \E g : acks'[k] = g /\ Has(g)'
  <2>1. acks'[k] = f \/ \E j \in DOMAIN acks : acks'[k] = acks[j]
    BY <1>1, ReplyAckKeeps
  <2>2. PICK g : g = acks'[k]
    OBVIOUS
  <2>3. Reliable(g) /\ (Has(g) \/ g = f) /\ g \in FragmentRecord
    BY <1>1, <2>1, <2>2, ElementOfSeq DEF PiecesTypeOK, AcksAreTrue
  <2> QED BY <1>7, <2>2, <2>3
<1> QED BY <1>2, <1>3, <1>7, <1>8, ReceivingKeeps

\* pomelo_delivery_bus_recv_fragment_data, of a fragment that is not late.
LEMMA ReceiveDataKeepsChannel ==
    ASSUME BusInv, ChannelInv, NEW f \in ToSet(data), ReceiveData(f),
           Reliable(f) => last_recv_reliable_sequence <= f.seq
    PROVE  ChannelInv'
<1> DEFINE d == incomplete_reliable_dispatcher
<1>1. PICK i \in Arriving(data) : data[i] = f /\ data' = RemoveAt(data, i) /\ RecvFragment(f) /\ UNCHANGED senderVars
  BY DEF ReceiveData
<1>2. /\ SenderTypeOK /\ PiecesTypeOK /\ data \in Seq(FragmentRecord) /\ i \in DOMAIN data
      /\ OneAtATime /\ AcksAreTrue
  BY DEF BusInv, BusTypeOK, PiecesTypeOK, Arriving, ChannelInv
<1>3. f \in FragmentRecord /\ PieceOf(f, Sent, numbered)
  BY <1>1, <1>2, ElementOfSeq DEF PiecesTypeOK
<1>5. UNCHANGED <<numbered, pending_dispatchers, incomplete_reliable_dispatcher, acked>>
  BY <1>1 DEF senderVars
<1>6. ASSUME UNCHANGED receiverVars, \A k \in DOMAIN acks' : Has(acks'[k]) PROVE ChannelInv'
  <2>2. acked' \subseteq 1 .. d.size /\ (d # None => \A k \in acked' : Has(Fragment(d, k)))
    BY <1>2, <1>5 DEF AcksAreTrue
  <2> QED BY <1>5, <1>6, <2>2, NothingNew
<1>7. CASE AlreadyReceived(f)
  <2>1. ReplyAck(f) /\ UNCHANGED receiverVars
    BY <1>1, <1>7 DEF RecvFragment
  <2>2. Has(f)
    BY <1>7, Numbers DEF AlreadyReceived, Has
  <2>3. \A k \in DOMAIN acks' : Has(acks'[k])
    BY <1>2, <1>3, <2>1, <2>2, ReplyAckKeeps DEF AcksAreTrue
  <2> QED BY <1>6, <2>1, <2>3
<1>8. CASE ~ AlreadyReceived(f) /\ Refused(f)
  <2>1. UNCHANGED <<receiverVars, acks>>
    BY <1>1, <1>8 DEF RecvFragment
  <2>2. \A k \in DOMAIN acks' : Has(acks'[k])
    BY <1>2, <2>1 DEF AcksAreTrue
  <2> QED BY <1>6, <2>1, <2>2
<1>9. CASE ~ AlreadyReceived(f) /\ ~ Refused(f)
  <2>1. PICK over \in SUBSET Expirable : ReplyAck(f) /\ AddFragment(f, over)
    BY <1>1, <1>9 DEF RecvFragment
  <2>2. CASE ~ Reliable(f)
    BY <1>1, <1>3, <2>1, <2>2, AddUnreliableKeeps
  <2>3. CASE Reliable(f)
    BY <1>1, <1>3, <1>9, <2>1, <2>3, AddReliableKeeps
  <2> QED BY <2>2, <2>3
<1> QED BY <1>7, <1>8, <1>9

\* verify_checksum_complete
LEMMA ChecksumVerifiedKeepsChannel ==
    ASSUME BusInv, ChannelInv, NEW seq \in verifying, ChecksumVerified(seq)
    PROVE  ChannelInv'
<1> DEFINE d == numbered[seq]
<1>1. /\ SenderTypeOK /\ PiecesTypeOK /\ FragmentsOnce /\ OneAtATime /\ AcksAreTrue /\ DeliveredIsDone
      /\ acks \in Seq(FragmentRecord)
  BY DEF BusInv, BusTypeOK, PiecesTypeOK, ChannelInv
<1>2. PICK f \in receivers : f.seq = seq /\ Complete(Dispatcher(f), receivers)
  BY DEF ChecksumVerified, FragmentsOf
<1>3. UNCHANGED senderVars /\ UNCHANGED <<last_recv_reliable_sequence, data, acks>>
  BY DEF ChecksumVerified
<1>4. /\ seq \in 1 .. Sent /\ Dispatcher(f) = d /\ d \in DispatcherRecord /\ d.seq = seq /\ d.mode = f.mode
      /\ f \in FragmentRecord
  BY <1>1, <1>2, DispatcherOf DEF PiecesTypeOK
<1>5. Complete(d, receivers)
  BY <1>2, <1>4
<1>7. CASE ~ Reliable(d)
  <2>1. /\ UNCHANGED incomplete_reliable_receiver
        /\ receivers' = {g \in receivers : g.seq # seq}
        /\ delivered' = delivered \/ delivered' = Append(delivered, d)
    <3> HIDE DEF d
    <3> QED BY <1>4, <1>5, <1>7 DEF Complete
  <2>2. ASSUME NEW g \in receivers, Reliable(g) PROVE g.seq # seq
    <3>1. numbered[g.seq].mode = g.mode
      BY <1>1, DispatcherOf DEF PiecesTypeOK
    <3> QED BY <1>7, <2>2, <3>1 DEF Reliable
  <2>3. \A g : Reliable(g) => (g \in receivers' <=> g \in receivers)
    BY <2>1, <2>2
  <2>4. \A k \in DOMAIN acks' : \E j \in DOMAIN acks : acks'[k] = acks[j]
    BY <1>3
  <2> HIDE DEF d
  <2> QED BY <1>3, <1>4, <1>7, <2>1, <2>3, <2>4, UnreliableKeeps
<1>8. CASE Reliable(d)
  <2>1. Reliable(f)
    BY <1>4, <1>8 DEF Reliable
  <2>2. incomplete_reliable_receiver = seq /\ seq # 0
    BY <1>1, <1>2, <1>4, <2>1 DEF OneAtATime
  <2>3. last_recv_reliable_sequence = seq /\ Done = seq - 1 /\ seq \in Nat
    BY <1>4, <2>2, Numbers
  <2>4. OnlyReliable(delivered) = ReliableTo(numbered, seq - 1)
    BY <1>1, <2>3 DEF DeliveredIsDone
  <2>5. /\ OnlyReliable(delivered') = ReliableTo(numbered, seq) /\ incomplete_reliable_receiver' = 0
        /\ receivers' = {g \in receivers : g.seq # seq}
    BY <1>4, <1>5, <1>8, <2>4, ReliableDelivered
  <2>6. Done' = seq
    BY <1>3, <2>3, <2>5 DEF Done
  <2>7. \A g \in receivers' : ~ Reliable(g)
    BY <1>1, <2>2, <2>5 DEF OneAtATime
  <2>8. ASSUME NEW g \in FragmentRecord, Reliable(g), Has(g) PROVE Has(g)'
    <3>1. g.seq \in Nat /\ (g.seq = seq \/ g.seq <= Done)
      BY <1>1, <2>2, <2>8 DEF Has, OneAtATime, FragmentRecord
    <3>2. g.seq <= seq
      BY <2>3, <3>1
    <3> QED BY <2>6, <3>2 DEF Has
  <2>9. ASSUME NEW k \in DOMAIN acks' PROVE \E g : acks'[k] = g /\ Has(g)'
    <3>1. PICK g : g = acks'[k]
      OBVIOUS
    <3>2. g \in FragmentRecord /\ Reliable(g) /\ Has(g)
      BY <1>1, <1>3, <3>1, ElementOfSeq DEF PiecesTypeOK, AcksAreTrue
    <3> QED BY <2>8, <3>1, <3>2
  <2> QED BY <1>3, <2>3, <2>5, <2>6, <2>7, <2>8, <2>9, ReceivingKeeps
<1> QED BY <1>7, <1>8

LEMMA ChannelInitial == Init => ChannelInv
<1> SUFFICES ASSUME Init PROVE ChannelInv
  OBVIOUS
<1>1. Sent = 0 /\ Done = 0
  <2>1. numbered = <<>> /\ pending_dispatchers = <<>> /\ Len(<<>>) = 0
    BY EmptySeq DEF Init
  <2>2. incomplete_reliable_receiver = 0 /\ last_recv_reliable_sequence = 0
    BY DEF Init
  <2> QED BY <2>1, <2>2 DEF Sent, Done
<1>2. OneAtATime /\ AcksAreTrue
  BY <1>1 DEF Init, OneAtATime, AcksAreTrue
<1>3. DeliveredIsDone
  <2>1. delivered = <<>> /\ numbered = <<>>
    BY DEF Init
  <2>2. SubSeq(numbered, 1, 0) = <<>>
    BY SubSeqEmpty
  <2> QED BY <1>1, <2>1, <2>2 DEF DeliveredIsDone, ReliableTo
<1> QED BY <1>2, <1>3 DEF ChannelInv

LEMMA ChannelStep == BusInv /\ ChannelInv /\ [Next]_vars /\ [NoneIsLate]_vars => ChannelInv'
<1> SUFFICES ASSUME BusInv, ChannelInv, [Next]_vars, [NoneIsLate]_vars PROVE ChannelInv'
  OBVIOUS
<1> DEFINE d == incomplete_reliable_dispatcher
<1>1. /\ PostedTypeOK /\ SenderTypeOK /\ PiecesTypeOK /\ AcksAreTrue
      /\ data \in Seq(FragmentRecord) /\ acks \in Seq(FragmentRecord)
      /\ acked \subseteq 1 .. d.size /\ (d # None => \A k \in acked : Has(Fragment(d, k)))
  BY DEF BusInv, BusTypeOK, PiecesTypeOK, ChannelInv, AcksAreTrue
<1>2. PostedTypeOK'
  BY BusStep DEF BusInv, BusTypeOK
<1>3. /\ IsFiniteSet(summing) /\ Cardinality(summing) \in Nat /\ Len(posted) \in Nat /\ DOMAIN posted = 1 .. Len(posted)
      /\ posted \in Seq([mode : Modes, size : Sizes]) /\ summing \subseteq 1 .. Len(posted)
      /\ Len(numbered) + Cardinality(summing) = Len(posted) /\ Len(numbered) \in Nat /\ Len(posted) <= MaxParcels
  BY <1>1, SummingCounted, LenProperties DEF PostedTypeOK, SenderTypeOK
<1>4. ASSUME UNCHANGED <<numbered, pending_dispatchers, incomplete_reliable_dispatcher, acked>>,
             UNCHANGED receiverVars,
             \A k \in DOMAIN acks' : \E j \in DOMAIN acks : acks'[k] = acks[j]
      PROVE  ChannelInv'
  <2>2. acked' \subseteq 1 .. d.size /\ (d # None => \A k \in acked' : Has(Fragment(d, k)))
    BY <1>1, <1>4
  <2>3. \A k \in DOMAIN acks' : Has(acks'[k])
    BY <1>1, <1>4 DEF AcksAreTrue
  <2> QED BY <1>4, <2>2, <2>3, NothingNew
<1>6. ASSUME NEW mode \in Modes, NEW size \in Sizes, Post(mode, size) PROVE ChannelInv'
  <2>1. /\ Len(posted) + 1 <= MaxParcels /\ posted' = Append(posted, [mode |-> mode, size |-> size])
        /\ UNCHANGED receiverVars /\ UNCHANGED acks
    BY <1>6 DEF Post
  <2>2. Len(posted') = Len(posted) + 1 /\ Len(posted) + 1 \in 1 .. Len(posted')
    BY <1>3, <2>1, AppendProperties
  <2>3. CASE size >= 2
    <3>1. UNCHANGED <<numbered, pending_dispatchers, incomplete_reliable_dispatcher, acked, data>>
      BY <1>6, <2>3 DEF Post
    <3> QED BY <1>4, <2>1, <3>1
  <2>4. CASE ~ (size >= 2)
    <3>1. Dispatch(Len(posted) + 1) /\ Len(numbered) + 1 <= MaxParcels
      BY <1>3, <1>6, <2>1, <2>4, BusAssumption DEF Post
    <3> QED BY <1>2, <2>1, <2>2, <3>1, DispatchKeepsChannel
  <2> QED BY <2>3, <2>4
<1>7. ASSUME NEW id \in summing, ChecksumComputed(id) PROVE ChannelInv'
  <2>1. /\ summing' = summing \ {id} /\ UNCHANGED posted /\ Dispatch(id) /\ UNCHANGED <<receiverVars, acks>>
    BY <1>7 DEF ChecksumComputed
  <2>2. Cardinality(summing) - 1 \in Nat
    <3>1. Cardinality(summing \ {id}) = Cardinality(summing) - 1 /\ IsFiniteSet(summing \ {id})
      BY <1>3, FS_RemoveElement
    <3> QED BY <3>1, FS_CardinalityType
  <2>3. Len(numbered) + 1 <= MaxParcels
    BY <1>3, <2>2, BusAssumption
  <2>4. id \in 1 .. Len(posted')
    BY <1>3, <2>1
  <2> QED BY <1>2, <2>1, <2>3, <2>4, DispatchKeepsChannel
<1>8. CASE Resend
  BY <1>8, ResendKeepsChannel
<1>9. ASSUME NEW f \in ToSet(data), ReceiveData(f), ~ UNCHANGED vars PROVE ChannelInv'
  <2>1. Reliable(f) => last_recv_reliable_sequence <= f.seq
    BY <1>9 DEF NoneIsLate
  <2> QED BY <1>9, <2>1, ReceiveDataKeepsChannel
<1>10. ASSUME NEW f \in ToSet(acks), ReceiveAck(f) PROVE ChannelInv'
  BY <1>10, ReceiveAckKeepsChannel
<1>11. ASSUME NEW seq \in verifying, ChecksumVerified(seq) PROVE ChannelInv'
  BY <1>11, ChecksumVerifiedKeepsChannel
<1>12. CASE LoseData
  <2>1. PICK i \in Arriving(data) : data' = RemoveAt(data, i) /\ UNCHANGED <<senderVars, receiverVars, acks>>
    BY <1>12 DEF LoseData
  <2> QED BY <1>4, <2>1 DEF senderVars
<1>13. CASE LoseAck
  <2>1. PICK i \in Arriving(acks) : acks' = RemoveAt(acks, i) /\ UNCHANGED <<senderVars, receiverVars, data>>
    BY <1>13 DEF LoseAck
  <2>2. \A k \in DOMAIN acks' : \E j \in DOMAIN acks : acks'[k] = acks[j]
    BY <1>1, <2>1, RemovedElements DEF Arriving
  <2> QED BY <1>4, <2>1, <2>2 DEF senderVars
<1>14. CASE UNCHANGED vars
  BY <1>4, <1>14 DEF vars, senderVars
<1>15. ASSUME NEW e \in canceled, CanceledVerified(e) PROVE ChannelInv'
  <2>1. /\ UNCHANGED senderVars
        /\ UNCHANGED <<receivers, incomplete_reliable_receiver, last_recv_reliable_sequence, delivered, acks>>
    BY <1>15 DEF CanceledVerified
  <2>2. UNCHANGED <<numbered, pending_dispatchers, incomplete_reliable_dispatcher, acked>>
    BY <2>1 DEF senderVars
  <2>3. Sent' = Sent /\ Done' = Done
    BY <2>1, <2>2 DEF Sent, Done
  <2>4. OneAtATime' /\ AcksAreTrue' /\ DeliveredIsDone'
    BY <2>1, <2>2, <2>3 DEF ChannelInv, OneAtATime, ReliableAt, AcksAreTrue, Has, DeliveredIsDone
  <2> QED BY <2>4 DEF ChannelInv
<1> QED BY <1>6, <1>7, <1>8, <1>9, <1>10, <1>11, <1>12, <1>13, <1>14, <1>15 DEF Next

-----------------------------------------------------------------------------
(***************************************************************************)
(* The bus is a reliable channel.                                          *)
(***************************************************************************)

\* The receiving end hands over the next reliable parcel, or one that is not reliable.
LEMMA Arrives ==
    ASSUME BusInv, ChannelInv, ChannelInv', UNCHANGED senderVars,
           delivered' = delivered \/ \E s \in 1 .. Sent : delivered' = Append(delivered, numbered[s])
    PROVE  [Channel!CNext]_(Channel!cvars)
<1> DEFINE t == OnlyReliable(numbered)
           a == OnlyReliable(delivered)
<1>1. /\ numbered \in Seq(DispatcherRecord) /\ delivered \in Seq(DispatcherRecord)
      /\ UNCHANGED <<numbered, succeeded>> /\ SenderTypeOK /\ OneAtATime' /\ DeliveredIsDone'
  BY DEF BusInv, BusTypeOK, SenderTypeOK, ReceiverTypeOK, senderVars, ChannelInv
<1>2. Sent' = Sent /\ Sent \in Nat /\ Len(numbered) \in Nat /\ Sent <= Len(numbered)
  BY <1>1, SenderSame, Numbers
<1>3. Done' \in Nat /\ Done' <= Len(numbered)
  <2>1. /\ last_recv_reliable_sequence' = 0 \/ last_recv_reliable_sequence' \in 1 .. Sent'
        /\ incomplete_reliable_receiver' \in {0, last_recv_reliable_sequence'}
    BY <1>1 DEF OneAtATime, ReliableAt
  <2> QED BY <1>2, <2>1 DEF Done
<1>4. CASE OnlyReliable(delivered') = a
  BY <1>1, <1>4 DEF Channel!cvars
<1>5. ASSUME NEW s \in 1 .. Sent, delivered' = Append(delivered, numbered[s]), Reliable(numbered[s])
      PROVE  Channel!Arrive
  <2>1. numbered[s] \in DispatcherRecord
    BY <1>1, <1>2, ElementOfSeq
  <2> DEFINE b == OnlyReliable(delivered')
  <2>2. a \in Seq(DispatcherRecord) /\ b = Append(a, numbered[s])
    BY <1>1, <1>5, <2>1, OnlyReliableAppend
  <2>3. b = ReliableTo(numbered, Done') /\ ReliableTo(numbered, Len(numbered)) = t
    BY <1>1, SubSeqFull DEF DeliveredIsDone, ReliableTo
  <2>4. /\ t \in Seq(DispatcherRecord) /\ Len(b) <= Len(t)
        /\ \A i \in 1 .. Len(b) : t[i] = b[i]
    BY <1>1, <1>2, <1>3, <2>3, ReliablePrefix
  <2> HIDE DEF a, b, t
  <2>5. Len(a) \in Nat /\ Len(b) = Len(a) + 1 /\ b[Len(a) + 1] = numbered[s] /\ Len(t) \in Nat
    BY <2>1, <2>2, <2>4, AppendProperties, LenProperties
  <2>6. Len(a) < Len(t) /\ b = Append(a, t[Len(a) + 1])
    BY <2>2, <2>4, <2>5
  <2> QED BY <1>1, <2>6 DEF Channel!Arrive, a, b, t
<1>6. ASSUME NEW s \in 1 .. Sent, delivered' = Append(delivered, numbered[s]), ~ Reliable(numbered[s])
      PROVE  OnlyReliable(delivered') = a
  <2>1. numbered[s] \in DispatcherRecord
    BY <1>1, <1>2, ElementOfSeq
  <2> QED BY <1>1, <1>6, <2>1, OnlyReliableAppend
<1>7. CASE delivered' = delivered
  BY <1>4, <1>7
<1> QED BY <1>4, <1>5, <1>6, <1>7 DEF Channel!CNext

\* pomelo_delivery_sender_dispatch: a reliable parcel is taken on with its number.
LEMMA Takes ==
    ASSUME BusInv, PostedTypeOK', NEW id, id \in 1 .. Len(posted'), Dispatch(id),
           Len(numbered) + 1 <= MaxParcels, UNCHANGED receiverVars
    PROVE  [Channel!CNext]_(Channel!cvars)
<1> DEFINE p == Numbered(id)
           queue == Append(pending_dispatchers, p)
<1>1. /\ PostedTypeOK /\ SenderTypeOK /\ numbered \in Seq(DispatcherRecord) /\ UNCHANGED delivered
      /\ numbered' = Append(numbered, p) /\ ProcessSending(queue, incomplete_reliable_dispatcher)
  BY DEF BusInv, BusTypeOK, SenderTypeOK, receiverVars, Dispatch
<1>2. Queued(queue)
  BY <1>1, DispatchQueues
<1>3. p \in DispatcherRecord /\ p \in Dispatchers
  <2>1. numbered' \in Seq(DispatcherRecord) /\ \A n \in DOMAIN numbered' : numbered'[n] \in Dispatchers
    BY <1>2 DEF Queued
  <2>2. Len(numbered) + 1 \in DOMAIN numbered' /\ Len(numbered) + 1 \in 1 .. Len(numbered')
        /\ numbered'[Len(numbered) + 1] = p
    <3> HIDE DEF p
    <3> QED BY <1>1, <2>1, LenProperties
  <2> QED BY <2>1, <2>2, ElementOfSeq
<1> HIDE DEF p
<1>4. OnlyReliable(numbered') = IF Reliable(p) THEN Append(OnlyReliable(numbered), p) ELSE OnlyReliable(numbered)
  BY <1>1, <1>3, OnlyReliableAppend
<1>5. \A d : Reliable(d) => (d \in succeeded' <=> d \in succeeded)
  <2>1. queue \in Seq(DispatcherRecord)
    BY <1>2 DEF Queued
  <2>2. PICK count, more, row, at : Goes(queue, incomplete_reliable_dispatcher, count, more, row, at)
    BY <1>1, <2>1, ProcessSendingGoes
  <2> QED BY <2>2 DEF Goes
<1>6. {d \in succeeded' : Reliable(d)} = {d \in succeeded : Reliable(d)}
  BY <1>5
<1>7. CASE Reliable(p)
  <2>1. Channel!Take(p)
    BY <1>1, <1>4, <1>6, <1>7 DEF Channel!Take
  <2> QED BY <1>3, <2>1 DEF Channel!CNext
<1>8. CASE ~ Reliable(p)
  BY <1>1, <1>4, <1>6, <1>8 DEF Channel!cvars
<1> QED BY <1>7, <1>8

\* pomelo_delivery_dispatcher_recv_ack: success is reported of a parcel that has arrived,
\* or of the next one, whose checksum the other end still verifies.
LEMMA Reports ==
    ASSUME BusInv, ChannelInv, NEW ack \in ToSet(acks), ReceiveAck(ack)
    PROVE  [Channel!CNext]_(Channel!cvars)
<1> DEFINE d == incomplete_reliable_dispatcher
           t == OnlyReliable(numbered)
           a == OnlyReliable(delivered)
<1>1. PICK i \in Arriving(acks) : acks[i] = ack /\ RecvAck(ack) /\ UNCHANGED receiverVars
  BY DEF ReceiveAck
<1>2. /\ i \in DOMAIN acks /\ UNCHANGED <<numbered, delivered>> /\ pending_dispatchers \in Seq(DispatcherRecord)
      /\ DeliveredIsDone /\ numbered \in Seq(DispatcherRecord)
  BY <1>1 DEF Arriving, RecvAck, receiverVars, BusInv, BusTypeOK, SenderTypeOK, ChannelInv
<1>3. CASE UNCHANGED succeeded
  BY <1>2, <1>3 DEF Channel!cvars
<1>4. CASE OfThisParcel(ack) /\ ProcessSending(pending_dispatchers, None)
  <2>1. d # None /\ d.seq <= last_recv_reliable_sequence
    BY <1>1, <1>2, <1>4, Acknowledged
  <2>2. d.seq \in 1 .. Sent /\ d = numbered[d.seq] /\ Reliable(d) /\ d.seq \in 1 .. Len(numbered) /\ Reliable(numbered[d.seq])
    BY <2>1, Blocking, Numbers
  <2>3. PICK count, more, row, at : Goes(pending_dispatchers, None, count, more, row, at)
    BY <1>2, <1>4, ProcessSendingGoes
  <2>4. {e \in succeeded' : Reliable(e)} = {e \in succeeded : Reliable(e)} \cup {d}
    <3>1. \A e : Reliable(e) => (e \in succeeded' <=> e \in succeeded \/ e = d)
      BY <2>1, <2>3 DEF Goes
    <3> QED BY <2>2, <3>1
  <2> DEFINE before == ReliableTo(numbered, d.seq - 1)
  <2>5. /\ Len(before) \in Nat /\ t \in Seq(DispatcherRecord) /\ Len(before) < Len(t) /\ t[Len(before) + 1] = d
    BY <1>2, <2>2, ReliableNext
  <2>6. Len(before) <= Len(a) /\ a \in Seq(DispatcherRecord)
    <3>1. d.seq - 1 \in Nat /\ Done \in Nat /\ d.seq - 1 <= Done /\ Done <= Len(numbered)
      BY <2>1, <2>2, Numbers
    <3>2. a = ReliableTo(numbered, Done)
      BY <1>2 DEF DeliveredIsDone
    <3> QED BY <1>2, <3>1, <3>2, ReliablePrefix
  <2> HIDE DEF before, t, a, d
  <2>7. Len(before) + 1 \in 1 .. Len(t) /\ Len(before) + 1 <= Len(a) + 1
    BY <2>5, <2>6, LenProperties
  <2>8. Channel!Report
    BY <1>2, <2>4, <2>5, <2>7 DEF Channel!Report, t, a
  <2> QED BY <2>8 DEF Channel!CNext
<1> QED BY <1>1, <1>3, <1>4 DEF RecvAck

LEMMA ChannelSteps ==
    ASSUME BusInv, ChannelInv, ChannelInv', PostedTypeOK', [Next]_vars
    PROVE  [Channel!CNext]_(Channel!cvars)
<1>1. ASSUME UNCHANGED <<numbered, succeeded, delivered>> PROVE [Channel!CNext]_(Channel!cvars)
  BY <1>1 DEF Channel!cvars
<1>2. /\ PostedTypeOK /\ SenderTypeOK /\ PiecesTypeOK
      /\ data \in Seq(FragmentRecord)
  BY DEF BusInv, BusTypeOK, PiecesTypeOK
<1>3. /\ IsFiniteSet(summing) /\ Cardinality(summing) \in Nat /\ Len(posted) \in Nat /\ DOMAIN posted = 1 .. Len(posted)
      /\ posted \in Seq([mode : Modes, size : Sizes]) /\ summing \subseteq 1 .. Len(posted)
      /\ Len(numbered) + Cardinality(summing) = Len(posted) /\ Len(numbered) \in Nat /\ Len(posted) <= MaxParcels
  BY <1>2, SummingCounted, LenProperties DEF PostedTypeOK, SenderTypeOK
<1>4. ASSUME NEW mode \in Modes, NEW size \in Sizes, Post(mode, size) PROVE [Channel!CNext]_(Channel!cvars)
  <2>1. /\ Len(posted) + 1 <= MaxParcels /\ posted' = Append(posted, [mode |-> mode, size |-> size])
        /\ UNCHANGED receiverVars
    BY <1>4 DEF Post
  <2>2. Len(posted') = Len(posted) + 1 /\ Len(posted) + 1 \in 1 .. Len(posted')
    BY <1>3, <2>1, AppendProperties
  <2>3. CASE size >= 2
    BY <1>1, <1>4, <2>1, <2>3 DEF Post, receiverVars
  <2>4. CASE ~ (size >= 2)
    <3>1. Dispatch(Len(posted) + 1) /\ Len(numbered) + 1 <= MaxParcels
      BY <1>3, <1>4, <2>1, <2>4, BusAssumption DEF Post
    <3> QED BY <2>1, <2>2, <3>1, Takes
  <2> QED BY <2>3, <2>4
<1>5. ASSUME NEW id \in summing, ChecksumComputed(id) PROVE [Channel!CNext]_(Channel!cvars)
  <2>1. /\ UNCHANGED posted /\ Dispatch(id) /\ UNCHANGED <<receiverVars, acks>>
    BY <1>5 DEF ChecksumComputed
  <2>2. Cardinality(summing) - 1 \in Nat
    <3>1. Cardinality(summing \ {id}) = Cardinality(summing) - 1 /\ IsFiniteSet(summing \ {id})
      BY <1>3, FS_RemoveElement
    <3> QED BY <3>1, FS_CardinalityType
  <2>3. Len(numbered) + 1 <= MaxParcels /\ id \in 1 .. Len(posted')
    BY <1>3, <2>1, <2>2, BusAssumption
  <2> QED BY <2>1, <2>3, Takes
<1>6. CASE Resend
  BY <1>1, <1>6 DEF Resend, senderVars, receiverVars
<1>7. ASSUME NEW f \in ToSet(data), ReceiveData(f) PROVE [Channel!CNext]_(Channel!cvars)
  <2>1. PICK i \in Arriving(data) : data[i] = f /\ RecvFragment(f) /\ UNCHANGED senderVars
    BY <1>7 DEF ReceiveData
  <2>2. f \in FragmentRecord /\ PieceOf(f, Sent, numbered)
    BY <1>2, <2>1, ElementOfSeq DEF PiecesTypeOK, Arriving
  <2>3. f.seq \in 1 .. Sent /\ Dispatcher(f) = numbered[f.seq]
    BY <1>2, <2>2, DispatcherOf
  <2>4. delivered' = delivered \/ delivered' = Append(delivered, Dispatcher(f))
    BY <2>1 DEF RecvFragment, receiverVars, AddFragment, Complete
  <2> QED BY <2>1, <2>3, <2>4, Arrives
<1>8. ASSUME NEW f \in ToSet(acks), ReceiveAck(f) PROVE [Channel!CNext]_(Channel!cvars)
  BY <1>8, Reports
<1>9. ASSUME NEW seq \in verifying, ChecksumVerified(seq) PROVE [Channel!CNext]_(Channel!cvars)
  <2>1. PICK f \in receivers : Complete(Dispatcher(f), receivers) /\ UNCHANGED senderVars
    BY <1>9 DEF ChecksumVerified, FragmentsOf
  <2>2. f \in FragmentRecord /\ PieceOf(f, Sent, numbered)
    BY <1>2 DEF PiecesTypeOK
  <2>3. f.seq \in 1 .. Sent /\ Dispatcher(f) = numbered[f.seq]
    BY <1>2, <2>2, DispatcherOf
  <2>4. delivered' = delivered \/ delivered' = Append(delivered, Dispatcher(f))
    BY <2>1 DEF Complete
  <2> QED BY <2>1, <2>3, <2>4, Arrives
<1>10. CASE LoseData
  BY <1>1, <1>10 DEF LoseData, senderVars, receiverVars
<1>11. CASE LoseAck
  BY <1>1, <1>11 DEF LoseAck, senderVars, receiverVars
<1>12. CASE UNCHANGED vars
  BY <1>1, <1>12 DEF vars, senderVars, receiverVars
<1>13. ASSUME NEW d \in canceled, CanceledVerified(d) PROVE [Channel!CNext]_(Channel!cvars)
  BY <1>1, <1>13 DEF CanceledVerified, senderVars
<1> QED BY <1>4, <1>5, <1>6, <1>7, <1>8, <1>9, <1>10, <1>11, <1>12, <1>13 DEF Next

\* What common.h:90 promises of a reliable channel (ReliableChannel), the two ends of a
\* bus keep over a network that loses and reorders fragments and acknowledgements, as
\* long as no fragment of a reliable parcel comes after one of a later parcel: reliable
\* parcels arrive in the order of their numbers, once, and success is reported of no
\* parcel the other end has not received.  bus.c:241 knows a copy only of the last
\* parcel that is complete: one that is later still is taken for a new parcel, and the
\* promise does not hold (ReliableOrder).
THEOREM BusIsReliableChannel == Spec /\ [][NoneIsLate]_vars => ImplementsChannel
<1>1. Init => Channel!CInit
  <2> SUFFICES ASSUME Init PROVE Channel!CInit
    OBVIOUS
  <2>1. numbered = <<>> /\ delivered = <<>> /\ succeeded = {}
    BY DEF Init
  <2>2. OnlyReliable(numbered) = <<>> /\ OnlyReliable(delivered) = <<>> /\ {d \in succeeded : Reliable(d)} = {}
    BY <2>1, OnlyReliableEmpty
  <2> QED BY <2>2 DEF Channel!CInit
<1>2. BusInv' => PostedTypeOK'
  BY DEF BusInv, BusTypeOK
<1>3. BusInv /\ ChannelInv /\ BusInv' /\ ChannelInv' /\ [Next]_vars => [Channel!CNext]_(Channel!cvars)
  BY <1>2, ChannelSteps
<1>4. Spec => []BusInv
  BY BusInitial, BusStep, PTL DEF Spec
<1>5. Spec /\ [][NoneIsLate]_vars => []ChannelInv
  BY <1>4, ChannelInitial, ChannelStep, PTL DEF Spec
<1> QED BY <1>1, <1>3, <1>4, <1>5, PTL DEF Spec, ImplementsChannel, Channel!CSpec

-----------------------------------------------------------------------------
(***************************************************************************)
(* Parcels that expired.                                                   *)
(***************************************************************************)

\* The receiving end gave up a fragment of this parcel, which is nowhere any more.
GivenUp(seq) ==
    \E i \in 1 .. numbered[seq].size :
        /\ Fragment(numbered[seq], i) \notin receivers
        /\ \A k \in DOMAIN data : data[k] # Fragment(numbered[seq], i)

ExpiredInv ==
    \A seq \in expired :
        /\ seq \in 1 .. Sent /\ ~ Reliable(numbered[seq])
        /\ \A k \in DOMAIN delivered : delivered[k].seq # seq
        /\ GivenUp(seq)

\* What is sent again is reliable, and what is sent for the first time is of another parcel.
SendsOthers ==
    /\ Sent' \in Nat /\ Sent <= Sent' /\ \A n \in 1 .. Sent : numbered'[n] = numbered[n]
    /\ \A k \in DOMAIN data' : \/ \E j \in DOMAIN data : data'[k] = data[j]
                               \/ Reliable(data'[k]) \/ data'[k].seq > Sent

\* A fragment of a parcel that expired, which has left data, does not come back.
LEMMA StaysAway ==
    ASSUME SenderTypeOK, SendsOthers, NEW seq \in 1 .. Sent, ~ Reliable(numbered[seq]),
           NEW i, \A k \in DOMAIN data : data[k] # Fragment(numbered[seq], i)
    PROVE  \A k \in DOMAIN data' : data'[k] # Fragment(numbered[seq], i)
<1> SUFFICES ASSUME NEW k \in DOMAIN data', data'[k] = Fragment(numbered[seq], i) PROVE FALSE
  OBVIOUS
<1> DEFINE d == numbered[seq]
<1>1. d.seq = seq /\ ~ Reliable(d) /\ Sent \in Nat
  BY LenProperties DEF SenderTypeOK, Sent
<1> HIDE DEF d
<1>2. data'[k].seq = seq /\ ~ Reliable(data'[k])
  BY <1>1 DEF Fragment, Reliable, d
<1>3. \E j \in DOMAIN data : data'[k] = data[j]
  BY <1>1, <1>2 DEF SendsOthers
<1> QED BY <1>3

\* Whatever the sending end and the network do.
LEMMA ExpiredSame ==
    ASSUME SenderTypeOK, ExpiredInv, SendsOthers, UNCHANGED <<expired, receivers, delivered>>
    PROVE  ExpiredInv'
<1> SUFFICES ASSUME NEW seq \in expired
             PROVE  /\ seq \in 1 .. Sent' /\ ~ Reliable(numbered'[seq])
                    /\ \A k \in DOMAIN delivered : delivered[k].seq # seq
                    /\ \E i \in 1 .. numbered'[seq].size :
                          /\ Fragment(numbered'[seq], i) \notin receivers
                          /\ \A k \in DOMAIN data' : data'[k] # Fragment(numbered'[seq], i)
  BY DEF ExpiredInv, GivenUp
<1>1. /\ seq \in 1 .. Sent /\ ~ Reliable(numbered[seq]) /\ GivenUp(seq)
      /\ \A k \in DOMAIN delivered : delivered[k].seq # seq
  BY DEF ExpiredInv
<1>2. seq \in 1 .. Sent' /\ numbered'[seq] = numbered[seq]
  <2>1. Sent \in Nat /\ Sent' \in Nat /\ Sent <= Sent' /\ numbered'[seq] = numbered[seq]
    BY <1>1, LenProperties DEF SendsOthers, SenderTypeOK, Sent
  <2> QED BY <1>1, <2>1
<1>3. PICK i \in 1 .. numbered[seq].size :
          /\ Fragment(numbered[seq], i) \notin receivers
          /\ \A k \in DOMAIN data : data[k] # Fragment(numbered[seq], i)
  BY <1>1 DEF GivenUp
<1>4. \A k \in DOMAIN data' : data'[k] # Fragment(numbered[seq], i)
  BY <1>1, <1>3, StaysAway
<1>5. PICK d : d = numbered[seq]
  OBVIOUS
<1> QED BY <1>1, <1>2, <1>3, <1>4

\* What the network takes away leaves nothing new.
LEMMA SendsNothing ==
    ASSUME SenderTypeOK, UNCHANGED <<numbered, pending_dispatchers>>,
           \A k \in DOMAIN data' : \E j \in DOMAIN data : data'[k] = data[j]
    PROVE  SendsOthers
<1>1. Sent' = Sent /\ Sent \in Nat
  BY LenProperties DEF SenderTypeOK, Sent
<1> QED BY <1>1 DEF SendsOthers

LEMMA SendingSendsOthers ==
    ASSUME SenderTypeOK, PiecesTypeOK, NEW queue, Queued(queue),
           NEW incomplete \in {None, incomplete_reliable_dispatcher}, ProcessSending(queue, incomplete)
    PROVE  SendsOthers
<1>1. queue \in Seq(DispatcherRecord) /\ data \in Seq(FragmentRecord)
  BY DEF Queued, PiecesTypeOK
<1>2. PICK count, more, row, at : Goes(queue, incomplete, count, more, row, at)
  BY <1>1, ProcessSendingGoes
<1>3. /\ Sent \in Nat /\ Sent' = Sent + count /\ count \in Nat
      /\ \A n \in 1 .. Sent : numbered'[n] = numbered[n]
  BY <1>2, SentGrows
<1>4. more \in Seq(FragmentRecord) /\ data' = Carries(data, more)
  BY <1>2 DEF Goes
<1>5. \A k \in DOMAIN data' : \/ k \in DOMAIN data /\ data'[k] = data[k]
                              \/ k - Len(data) \in DOMAIN more /\ data'[k] = more[k - Len(data)]
  BY <1>1, <1>4, Carried
<1>6. \A k \in DOMAIN more : more[k].seq = Sent + row[k] /\ row[k] \in 1 .. count
  BY <1>2, MoreIsNew
<1>7. ASSUME NEW k \in DOMAIN data'
      PROVE  (\E j \in DOMAIN data : data'[k] = data[j]) \/ data'[k].seq > Sent
  <2>1. CASE k \in DOMAIN data /\ data'[k] = data[k]
    BY <2>1
  <2>2. CASE k - Len(data) \in DOMAIN more /\ data'[k] = more[k - Len(data)]
    BY <1>3, <1>6, <2>2
  <2> QED BY <1>5, <2>1, <2>2
<1> QED BY <1>3, <1>7 DEF SendsOthers

\* pomelo_delivery_receiver_add_fragment, with pomelo_delivery_bus_cleanup_expired_receivers:
\* a fragment the receiving end gives up is not under way any more, nor is its parcel
\* delivered already.
LEMMA AddFragmentExpires ==
    ASSUME BusInv, ExpiredInv, UNCHANGED senderVars, NEW f \in FragmentRecord, f \in ToSet(data),
           PieceOf(f, Sent, numbered), NEW over \in SUBSET Expirable, AddFragment(f, over),
           \A k \in DOMAIN data' : \E j \in DOMAIN data : data'[k] = data[j]
    PROVE  ExpiredInv'
<1> DEFINE rest == {g \in receivers : g.seq \notin over} \cup {f}
           whole == f \notin receivers /\ \A i \in 1 .. f.size : Fragment(f, i) \in rest
<1>1. SenderTypeOK /\ PiecesTypeOK /\ ReceiverTypeOK /\ FragmentsOnce
  BY DEF BusInv, BusTypeOK
<1>2. UNCHANGED numbered /\ Sent' = Sent
  BY <1>1, SenderSame DEF senderVars
<1>3. /\ f.seq \in 1 .. Sent /\ numbered[f.seq].size = f.size /\ Dispatcher(f) = numbered[f.seq]
      /\ numbered[f.seq].seq = f.seq /\ \A i : Fragment(f, i) = Fragment(numbered[f.seq], i)
      /\ numbered[f.seq] \in DispatcherRecord
  BY <1>1, DispatcherOf
<1>4. /\ expired' = expired \cup over
      /\ whole /\ f.size = 1 => Complete(Dispatcher(f), rest)
      /\ ~ (whole /\ f.size = 1) => receivers' = rest /\ UNCHANGED delivered
  BY DEF AddFragment
<1>5. ASSUME NEW seq \in expired'
      PROVE  /\ seq \in 1 .. Sent /\ ~ Reliable(numbered[seq])
             /\ \A k \in DOMAIN delivered : delivered[k].seq # seq
             /\ \E i \in 1 .. numbered[seq].size :
                   /\ Fragment(numbered[seq], i) \notin rest
                   /\ \A k \in DOMAIN data : data[k] # Fragment(numbered[seq], i)
  <2>1. CASE seq \in expired
    <3>1. PICK i \in 1 .. numbered[seq].size :
              /\ Fragment(numbered[seq], i) \notin receivers
              /\ \A k \in DOMAIN data : data[k] # Fragment(numbered[seq], i)
      BY <2>1 DEF ExpiredInv, GivenUp
    <3>2. f # Fragment(numbered[seq], i)
      BY <3>1 DEF ToSet
    <3> QED BY <2>1, <3>1, <3>2 DEF ExpiredInv
  <2>2. CASE seq \in over
    <3>1. PICK g \in receivers : ~ Reliable(g) /\ g.seq = seq
      BY <2>2 DEF Expirable
    <3>2. g \in FragmentRecord /\ PieceOf(g, Sent, numbered)
      BY <1>1 DEF PiecesTypeOK
    <3>3. /\ seq \in 1 .. Sent /\ numbered[seq].mode = g.mode /\ numbered[seq].size = g.size
          /\ g.index \in 1 .. g.size /\ g = Fragment(numbered[seq], g.index)
      BY <1>1, <3>1, <3>2, DispatcherOf
    <3>4. ~ Reliable(numbered[seq])
      BY <3>1, <3>3 DEF Reliable
    <3>5. \A k \in DOMAIN data : data[k] # g
      BY <1>1, <3>1 DEF FragmentsOnce
    <3>6. g \notin rest
      BY <2>2, <3>1, <3>5 DEF ToSet
    <3>7. ASSUME NEW k \in DOMAIN delivered, delivered[k].seq = seq PROVE FALSE
      <4>1. delivered[k] = numbered[seq]
        BY <1>1, <3>7, DeliveredNumbers
      <4> QED BY <1>1, <3>1, <3>4, <3>7, <4>1 DEF FragmentsOnce
    <3> QED BY <3>3, <3>4, <3>5, <3>6, <3>7
  <2> QED BY <1>4, <2>1, <2>2
<1> HIDE DEF rest
<1>6. receivers' \subseteq rest
  BY <1>4 DEF Complete
<1>7. delivered \in Seq(DispatcherRecord)
  BY <1>1 DEF ReceiverTypeOK
<1>8. ASSUME NEW seq \in expired', NEW k \in DOMAIN delivered', delivered'[k].seq = seq PROVE FALSE
  <2>1. CASE delivered' = delivered
    BY <1>5, <1>8, <2>1
  <2>2. CASE delivered' = Append(delivered, numbered[f.seq]) /\ whole
    <3>1. k \in DOMAIN delivered \/ delivered'[k] = numbered[f.seq]
      BY <1>3, <1>7, <1>8, <2>2
    <3>2. k \in DOMAIN delivered => delivered'[k] = delivered[k]
      BY <1>3, <1>7, <2>2
    <3>3. f.seq = seq
      BY <1>3, <1>5, <1>8, <3>1, <3>2
    <3> QED BY <1>3, <1>5, <2>2, <3>3
  <2>3. delivered' = delivered \/ (delivered' = Append(delivered, numbered[f.seq]) /\ whole)
    BY <1>3, <1>4 DEF Complete
  <2> QED BY <2>1, <2>2, <2>3
<1>9. ASSUME NEW seq \in expired'
      PROVE  \E i \in 1 .. numbered[seq].size :
                 /\ Fragment(numbered[seq], i) \notin receivers'
                 /\ \A k \in DOMAIN data' : data'[k] # Fragment(numbered[seq], i)
  <2>1. PICK i \in 1 .. numbered[seq].size :
            /\ Fragment(numbered[seq], i) \notin rest
            /\ \A k \in DOMAIN data : data[k] # Fragment(numbered[seq], i)
    BY <1>5
  <2> QED BY <1>6, <2>1
<1>10. \A seq \in expired' : GivenUp(seq)'
  BY <1>2, <1>9 DEF GivenUp, Fragment
<1> QED BY <1>2, <1>5, <1>8, <1>10 DEF ExpiredInv

\* verify_checksum_complete: what is whole has not expired.
LEMMA ChecksumVerifiedExpires ==
    ASSUME BusInv, ExpiredInv, NEW seq \in verifying, ChecksumVerified(seq)
    PROVE  ExpiredInv'
<1>1. SenderTypeOK /\ PiecesTypeOK /\ ReceiverTypeOK /\ FragmentsOnce /\ delivered \in Seq(DispatcherRecord)
  BY DEF BusInv, BusTypeOK, ReceiverTypeOK
<1>2. PICK f \in receivers : f.seq = seq /\ Complete(Dispatcher(f), receivers)
  BY DEF ChecksumVerified, FragmentsOf
<1>3. UNCHANGED senderVars /\ UNCHANGED <<expired, data>>
  BY DEF ChecksumVerified
<1>4. UNCHANGED numbered /\ Sent' = Sent
  BY <1>1, <1>3, SenderSame DEF senderVars
<1>5. f \in FragmentRecord /\ PieceOf(f, Sent, numbered)
  BY <1>1 DEF PiecesTypeOK
<1>6. Dispatcher(f) = numbered[seq] /\ numbered[seq].seq = seq /\ numbered[seq] \in DispatcherRecord
  BY <1>1, <1>2, <1>5, DispatcherOf
<1>7. seq \notin expired
  BY <1>1 DEF FragmentsOnce, ExpiredInv, GivenUp
<1>8. receivers' \subseteq receivers /\ (delivered' = delivered \/ delivered' = Append(delivered, numbered[seq]))
  BY <1>2, <1>6 DEF Complete
<1>9. ASSUME NEW q \in expired, NEW k \in DOMAIN delivered', delivered'[k].seq = q PROVE FALSE
  <2>1. (k \in DOMAIN delivered /\ delivered'[k] = delivered[k]) \/ delivered'[k] = numbered[seq]
    BY <1>1, <1>6, <1>8
  <2> QED BY <1>6, <1>7, <1>9, <2>1 DEF ExpiredInv
<1>10. \A q \in expired : GivenUp(q)'
  <2> SUFFICES ASSUME NEW q \in expired PROVE GivenUp(q)'
    OBVIOUS
  <2>1. PICK i \in 1 .. numbered[q].size :
            /\ Fragment(numbered[q], i) \notin receivers
            /\ \A k \in DOMAIN data : data[k] # Fragment(numbered[q], i)
    BY DEF ExpiredInv, GivenUp
  <2>2. Fragment(numbered[q], i) \notin receivers'
    BY <1>8, <2>1
  <2> QED BY <1>3, <1>4, <2>1, <2>2 DEF GivenUp, Fragment
<1> QED BY <1>3, <1>4, <1>9, <1>10 DEF ExpiredInv

LEMMA ExpiredStep == BusInv /\ ExpiredInv /\ [Next]_vars => ExpiredInv'
<1> SUFFICES ASSUME BusInv, ExpiredInv, [Next]_vars PROVE ExpiredInv'
  OBVIOUS
<1>1. /\ PostedTypeOK /\ SenderTypeOK /\ PiecesTypeOK /\ data \in Seq(FragmentRecord)
  BY DEF BusInv, BusTypeOK, PiecesTypeOK
<1>2. PostedTypeOK'
  BY BusStep DEF BusInv, BusTypeOK
<1>3. /\ IsFiniteSet(summing) /\ Cardinality(summing) \in Nat /\ Len(posted) \in Nat /\ DOMAIN posted = 1 .. Len(posted)
      /\ posted \in Seq([mode : Modes, size : Sizes]) /\ summing \subseteq 1 .. Len(posted)
      /\ Len(numbered) + Cardinality(summing) = Len(posted) /\ Len(numbered) \in Nat /\ Len(posted) <= MaxParcels
  BY <1>1, SummingCounted, LenProperties DEF PostedTypeOK, SenderTypeOK
<1>4. ASSUME UNCHANGED <<numbered, pending_dispatchers>>, UNCHANGED <<expired, receivers, delivered>>,
             \A k \in DOMAIN data' : \E j \in DOMAIN data : data'[k] = data[j]
      PROVE  ExpiredInv'
  BY <1>1, <1>4, SendsNothing, ExpiredSame
<1>5. ASSUME NEW id, id \in 1 .. Len(posted'), Dispatch(id), Len(numbered) + 1 <= MaxParcels,
             UNCHANGED receiverVars
      PROVE  ExpiredInv'
  <2>1. Queued(Append(pending_dispatchers, Numbered(id)))
    BY <1>1, <1>2, <1>5, DispatchQueues DEF Dispatch
  <2>2. ProcessSending(Append(pending_dispatchers, Numbered(id)), incomplete_reliable_dispatcher)
    BY <1>5 DEF Dispatch
  <2> QED BY <1>1, <1>5, <2>1, <2>2, SendingSendsOthers, ExpiredSame DEF receiverVars
<1>6. ASSUME NEW mode \in Modes, NEW size \in Sizes, Post(mode, size) PROVE ExpiredInv'
  <2>1. /\ Len(posted) + 1 <= MaxParcels /\ posted' = Append(posted, [mode |-> mode, size |-> size])
        /\ UNCHANGED receiverVars
    BY <1>6 DEF Post
  <2>2. Len(posted') = Len(posted) + 1 /\ Len(posted) + 1 \in 1 .. Len(posted')
    BY <1>3, <2>1, AppendProperties
  <2>3. CASE size >= 2
    BY <1>4, <1>6, <2>1, <2>3 DEF Post, receiverVars
  <2>4. CASE ~ (size >= 2)
    <3>1. Dispatch(Len(posted) + 1) /\ Len(numbered) + 1 <= MaxParcels
      BY <1>3, <1>6, <2>1, <2>4, BusAssumption DEF Post
    <3> QED BY <1>5, <2>1, <2>2, <3>1
  <2> QED BY <2>3, <2>4
<1>7. ASSUME NEW id \in summing, ChecksumComputed(id) PROVE ExpiredInv'
  <2>1. /\ UNCHANGED posted /\ Dispatch(id) /\ UNCHANGED receiverVars
    BY <1>7 DEF ChecksumComputed
  <2>2. Cardinality(summing) - 1 \in Nat
    <3>1. Cardinality(summing \ {id}) = Cardinality(summing) - 1 /\ IsFiniteSet(summing \ {id})
      BY <1>3, FS_RemoveElement
    <3> QED BY <3>1, FS_CardinalityType
  <2>3. Len(numbered) + 1 <= MaxParcels /\ id \in 1 .. Len(posted')
    BY <1>3, <2>1, <2>2, BusAssumption
  <2> QED BY <1>5, <2>1, <2>3
<1>8. CASE Resend
  <2> DEFINE more == Fragments(incomplete_reliable_dispatcher, acked)
  <2>1. /\ \A k \in DOMAIN more : Reliable(more[k])
        /\ \A k \in DOMAIN data' : \/ k \in DOMAIN data /\ data'[k] = data[k]
                                   \/ k - Len(data) \in DOMAIN more /\ data'[k] = more[k - Len(data)]
    <3>1. LET d == incomplete_reliable_dispatcher
          IN  /\ d.seq \in 1 .. Sent /\ d = numbered[d.seq] /\ Reliable(d) /\ d \in DispatcherRecord
              /\ more \in Seq(FragmentRecord)
              /\ \A k \in DOMAIN more : more[k].seq = d.seq /\ Reliable(more[k]) /\ PieceOf(more[k], Sent, numbered)
              /\ data' \in Seq(FragmentRecord) /\ data \in Seq(FragmentRecord)
              /\ \A k \in DOMAIN data' : \/ k \in DOMAIN data /\ data'[k] = data[k]
                                         \/ /\ k > Len(data) /\ k - Len(data) \in DOMAIN more
                                            /\ data'[k] = more[k - Len(data)]
      BY <1>1, <1>8, ResentPieces, Zenon
    <3> HIDE DEF more
    <3> QED BY <3>1
  <2> HIDE DEF more
  <2>2. UNCHANGED senderVars /\ UNCHANGED <<expired, receivers, delivered>>
    BY <1>8 DEF Resend, receiverVars
  <2>3. Sent' = Sent /\ Sent \in Nat /\ UNCHANGED numbered
    BY <1>1, <2>2, LenProperties DEF senderVars, SenderTypeOK, Sent
  <2>4. SendsOthers
    BY <2>1, <2>3 DEF SendsOthers
  <2> QED BY <1>1, <2>2, <2>4, ExpiredSame
<1>9. ASSUME NEW f \in ToSet(data), ReceiveData(f) PROVE ExpiredInv'
  <2>1. PICK i \in Arriving(data) : data[i] = f /\ data' = RemoveAt(data, i) /\ RecvFragment(f) /\ UNCHANGED senderVars
    BY <1>9 DEF ReceiveData
  <2>2. i \in DOMAIN data /\ f \in FragmentRecord /\ PieceOf(f, Sent, numbered)
    BY <1>1, <2>1, ElementOfSeq DEF PiecesTypeOK, Arriving
  <2>3. \A k \in DOMAIN data' : \E j \in DOMAIN data : data'[k] = data[j]
    BY <1>1, <2>1, <2>2, RemovedElements
  <2>4. CASE UNCHANGED receiverVars
    BY <1>4, <2>1, <2>3, <2>4 DEF senderVars, receiverVars
  <2>5. CASE \E over \in SUBSET Expirable : AddFragment(f, over)
    BY <1>9, <2>1, <2>2, <2>3, <2>5, AddFragmentExpires
  <2> QED BY <2>1, <2>4, <2>5 DEF RecvFragment
<1>10. ASSUME NEW ack \in ToSet(acks), ReceiveAck(ack) PROVE ExpiredInv'
  <2>1. RecvAck(ack) /\ UNCHANGED numbered /\ UNCHANGED receiverVars
    BY <1>10 DEF ReceiveAck, RecvAck
  <2>2. CASE UNCHANGED <<data, pending_dispatchers>>
    BY <1>4, <2>1, <2>2 DEF receiverVars
  <2>3. CASE ProcessSending(pending_dispatchers, None)
    <3>1. Queued(pending_dispatchers)
      BY <1>1, <2>1, LenProperties DEF SenderTypeOK, Sent, Queued
    <3> QED BY <1>1, <2>1, <2>3, <3>1, SendingSendsOthers, ExpiredSame DEF receiverVars
  <2> QED BY <2>1, <2>2, <2>3 DEF RecvAck
<1>11. ASSUME NEW seq \in verifying, ChecksumVerified(seq) PROVE ExpiredInv'
  BY <1>11, ChecksumVerifiedExpires
<1>12. ASSUME NEW d \in canceled, CanceledVerified(d) PROVE ExpiredInv'
  BY <1>4, <1>12 DEF CanceledVerified, senderVars
<1>13. CASE LoseData
  <2>1. PICK i \in Arriving(data) : data' = RemoveAt(data, i) /\ UNCHANGED <<senderVars, receiverVars>>
    BY <1>13 DEF LoseData
  <2>2. \A k \in DOMAIN data' : \E j \in DOMAIN data : data'[k] = data[j]
    BY <1>1, <2>1, RemovedElements DEF Arriving
  <2> QED BY <1>4, <2>1, <2>2 DEF senderVars, receiverVars
<1>14. CASE LoseAck \/ UNCHANGED vars
  BY <1>4, <1>14 DEF LoseAck, vars, senderVars, receiverVars
<1> QED BY <1>6, <1>7, <1>8, <1>9, <1>10, <1>11, <1>12, <1>13, <1>14 DEF Next

\* What has expired is lost, over any network that does not repeat datagrams, whenever
\* fragments come and workers answer (pomelo_delivery_receiver_cancel): a fragment that
\* the receiving end gives up is nowhere any more, so that the parcel never gets whole
\* again; and the answer of a worker for a receiver that was canceled delivers nothing.
THEOREM ExpiredStaysLost == Spec => []ExpiredIsLost
<1>1. Init => ExpiredInv
  BY DEF Init, ExpiredInv
<1>2. ExpiredInv => ExpiredIsLost
  BY DEF ExpiredInv, ExpiredIsLost
<1>3. Spec => []BusInv
  BY BusInitial, BusStep, PTL DEF Spec
<1> QED BY <1>1, <1>2, <1>3, ExpiredStep, PTL DEF Spec

-----------------------------------------------------------------------------
(***************************************************************************)
(* A network that keeps the order: none is late.                           *)
(***************************************************************************)

LEMMA FewerAreNotOlder ==
    ASSUME NoneIsOlder, NEW old, Fewer(old), UNCHANGED last_recv_reliable_sequence
    PROVE  NoneIsOlder'
BY DEF NoneIsOlder, Fewer

\* pomelo_delivery_bus_process_sending_deferred: what is sent is newer than all the rest.
LEMMA SendingKeepsOrder ==
    ASSUME BusInv, ChannelInv, NoneIsOlder, NEW queue, Queued(queue),
           NEW incomplete \in {None, incomplete_reliable_dispatcher}, ProcessSending(queue, incomplete),
           UNCHANGED last_recv_reliable_sequence
    PROVE  NoneIsOlder'
<1> DEFINE last == last_recv_reliable_sequence
<1>1. SenderTypeOK /\ PiecesTypeOK /\ queue \in Seq(DispatcherRecord) /\ NoneIsOlder /\ last' = last
  BY DEF BusInv, BusTypeOK, Queued
<1>2. PICK count, more, row, at : Goes(queue, incomplete, count, more, row, at)
  BY <1>1, ProcessSendingGoes
<1>3. Sent \in Nat /\ count \in Nat
  BY <1>1, <1>2, SentGrows
<1>4. last \in 0 .. Sent
  BY Numbers
<1>5. more \in Seq(FragmentRecord) /\ data' = Carries(data, more) /\ data \in Seq(FragmentRecord)
  BY <1>1, <1>2 DEF Goes, PiecesTypeOK
<1>6. \A k \in DOMAIN data' : \/ k \in DOMAIN data /\ data'[k] = data[k]
                              \/ /\ k > Len(data) /\ k - Len(data) \in DOMAIN more
                                 /\ data'[k] = more[k - Len(data)]
  BY <1>5, Carried
<1>7. Len(data) \in Nat /\ DOMAIN data = 1 .. Len(data) /\ DOMAIN data' \subseteq Int
  <2>1. data' \in Seq(FragmentRecord)
    BY <1>5, Carried
  <2> QED BY <1>5, <2>1
<1>8. \A k \in DOMAIN data : data[k].seq \in 1 .. Sent
  BY <1>1 DEF PiecesTypeOK, PieceOf
<1>9. \A k \in DOMAIN more : more[k].seq = Sent + row[k] /\ row[k] \in Nat /\ row[k] >= 1
  BY <1>1, <1>2, <1>3, MoreIsNew
<1>10. \A k \in DOMAIN data' : Reliable(data'[k]) => last <= data'[k].seq
  BY <1>1, <1>3, <1>4, <1>6, <1>9 DEF NoneIsOlder
<1>11. ASSUME NEW j \in DOMAIN data', NEW k \in DOMAIN data', j < k, Reliable(data'[j]), Reliable(data'[k])
      PROVE  data'[j].seq <= data'[k].seq
  <2>1. CASE k \in DOMAIN data /\ data'[k] = data[k]
    <3>1. j \in DOMAIN data /\ data'[j] = data[j]
      BY <1>6, <1>7, <1>11, <2>1
    <3> QED BY <1>1, <1>11, <2>1, <3>1 DEF NoneIsOlder
  <2>2. CASE k - Len(data) \in DOMAIN more /\ data'[k] = more[k - Len(data)]
    <3>1. CASE j \in DOMAIN data /\ data'[j] = data[j]
      BY <1>3, <1>8, <1>9, <2>2, <3>1
    <3>2. CASE j - Len(data) \in DOMAIN more /\ data'[j] = more[j - Len(data)]
      <4>1. j - Len(data) < k - Len(data)
        BY <1>7, <1>11
      <4>2. row[j - Len(data)] <= row[k - Len(data)]
        <5>1. \/ row[j - Len(data)] < row[k - Len(data)]
              \/ row[j - Len(data)] = row[k - Len(data)]
          BY <1>2, <2>2, <3>2, <4>1 DEF Goes
        <5> QED BY <1>9, <2>2, <3>2, <5>1
      <4> QED BY <1>3, <1>9, <2>2, <3>2, <4>2
    <3> QED BY <1>6, <3>1, <3>2
  <2> QED BY <1>6, <2>1, <2>2
<1> QED BY <1>1, <1>10, <1>11 DEF NoneIsOlder

\* pomelo_delivery_dispatcher_resend: no reliable parcel was sent after this one.
LEMMA ResendKeepsOrder == ASSUME BusInv, ChannelInv, NoneIsOlder, Resend PROVE NoneIsOlder'
<1> DEFINE d == incomplete_reliable_dispatcher
           more == Fragments(d, acked)
           last == last_recv_reliable_sequence
<1>1. /\ SenderTypeOK /\ PiecesTypeOK /\ OneAtATime /\ NoneIsOlder /\ AcksAreTrue /\ d # None
      /\ UNCHANGED senderVars /\ UNCHANGED acks /\ UNCHANGED receiverVars
  BY DEF BusInv, BusTypeOK, Resend, ChannelInv
<1>2. UNCHANGED last_recv_reliable_sequence
      /\ UNCHANGED <<numbered, pending_dispatchers, incomplete_reliable_dispatcher, acked>>
  BY <1>1 DEF receiverVars, senderVars
<1>3. Sent \in Nat /\ last \in 0 .. Sent /\ d.seq \in 1 .. Sent
  BY <1>1, Numbers, Blocking
<1>4. /\ \A k \in DOMAIN more : more[k].seq = d.seq
      /\ data' \in Seq(FragmentRecord) /\ data \in Seq(FragmentRecord)
      /\ \A k \in DOMAIN data' : \/ k \in DOMAIN data /\ data'[k] = data[k]
                                \/ /\ k > Len(data) /\ k - Len(data) \in DOMAIN more
                                   /\ data'[k] = more[k - Len(data)]
  <2>1. /\ d.seq \in 1 .. Sent /\ d = numbered[d.seq] /\ Reliable(d) /\ d \in DispatcherRecord
        /\ more \in Seq(FragmentRecord)
        /\ \A k \in DOMAIN more : more[k].seq = d.seq /\ Reliable(more[k]) /\ PieceOf(more[k], Sent, numbered)
        /\ data' \in Seq(FragmentRecord) /\ data \in Seq(FragmentRecord)
        /\ \A k \in DOMAIN data' : \/ k \in DOMAIN data /\ data'[k] = data[k]
                                  \/ /\ k > Len(data) /\ k - Len(data) \in DOMAIN more
                                     /\ data'[k] = more[k - Len(data)]
    BY <1>1, ResentPieces, Zenon
  <2> QED BY <2>1
<1> HIDE DEF more
<1>5. last <= d.seq
  BY <1>1, <1>3 DEF OneAtATime, ReliableAt
<1>6. ASSUME NEW k \in DOMAIN data, Reliable(data[k]) PROVE data[k].seq <= d.seq /\ data[k].seq \in Nat
  <2>1. data[k] \in FragmentRecord /\ PieceOf(data[k], Sent, numbered)
    BY <1>1, <1>4, ElementOfSeq DEF PiecesTypeOK
  <2>2. ReliableAt(data[k].seq) /\ data[k].seq \in 1 .. Sent
    BY <1>1, <1>6, <2>1, ReliablePiece DEF ReliableAt
  <2> QED BY <1>1, <1>3, <2>2 DEF OneAtATime
<1>7. \A k \in DOMAIN data' : Reliable(data'[k]) => last <= data'[k].seq
  BY <1>1, <1>4, <1>5 DEF NoneIsOlder
<1>8. Len(data) \in Nat /\ DOMAIN data = 1 .. Len(data) /\ DOMAIN data' \subseteq Int
  BY <1>4
<1>9. ASSUME NEW j \in DOMAIN data', NEW k \in DOMAIN data', j < k, Reliable(data'[j]), Reliable(data'[k])
      PROVE  data'[j].seq <= data'[k].seq
  <2>1. CASE k \in DOMAIN data /\ data'[k] = data[k]
    <3>1. j \in DOMAIN data /\ data'[j] = data[j]
      BY <1>4, <1>8, <1>9, <2>1
    <3> QED BY <1>1, <1>9, <2>1, <3>1 DEF NoneIsOlder
  <2>2. CASE k - Len(data) \in DOMAIN more /\ data'[k] = more[k - Len(data)]
    <3>1. data'[k].seq = d.seq
      BY <1>4, <2>2
    <3>2. data'[j].seq <= d.seq
      BY <1>3, <1>4, <1>6, <1>9
    <3> QED BY <3>1, <3>2
  <2> QED BY <1>4, <2>1, <2>2
<1> QED BY <1>2, <1>7, <1>9 DEF NoneIsOlder

\* pomelo_delivery_sender_dispatch
LEMMA DispatchKeepsOrder ==
    ASSUME BusInv, ChannelInv, NoneIsOlder, PostedTypeOK', NEW id, id \in 1 .. Len(posted'), Dispatch(id),
           Len(numbered) + 1 <= MaxParcels, UNCHANGED receiverVars
    PROVE  NoneIsOlder'
<1>1. PostedTypeOK /\ SenderTypeOK /\ UNCHANGED last_recv_reliable_sequence
  BY DEF BusInv, BusTypeOK, receiverVars
<1>2. Queued(Append(pending_dispatchers, Numbered(id)))
  BY <1>1, DispatchQueues DEF Dispatch
<1>3. ProcessSending(Append(pending_dispatchers, Numbered(id)), incomplete_reliable_dispatcher)
  BY DEF Dispatch
<1> QED BY <1>1, <1>2, <1>3, SendingKeepsOrder

\* pomelo_delivery_bus_recv_fragment_data: what is received first is of the oldest parcel.
LEMMA ReceiveDataKeepsOrder ==
    ASSUME ~ Reorders, BusInv, ChannelInv, NoneIsOlder, NEW f \in ToSet(data), ReceiveData(f)
    PROVE  NoneIsOlder'
<1>1. PICK i \in Arriving(data) : data[i] = f /\ data' = RemoveAt(data, i) /\ RecvFragment(f)
  BY DEF ReceiveData
<1>2. data \in Seq(FragmentRecord) /\ i \in DOMAIN data /\ i = 1
  BY DEF BusInv, BusTypeOK, PiecesTypeOK, Arriving
<1>3. PICK old : Fewer(old) /\ \A k \in DOMAIN data' : old[k] # i
  BY <1>1, <1>2, FewerWithout
<1>4. \/ UNCHANGED last_recv_reliable_sequence
      \/ Reliable(f) /\ last_recv_reliable_sequence' = f.seq
  BY <1>1 DEF RecvFragment, receiverVars, AddFragment
<1>5. /\ DOMAIN data = 1 .. Len(data) /\ Len(data) \in Nat
      /\ \A k \in DOMAIN data' : old[k] \in DOMAIN data /\ data'[k] = data[old[k]] /\ 1 < old[k]
  <2>1. \A k \in DOMAIN data' : old[k] \in DOMAIN data /\ data'[k] = data[old[k]] /\ old[k] # 1
    BY <1>2, <1>3 DEF Fewer
  <2>2. DOMAIN data = 1 .. Len(data) /\ Len(data) \in Nat
    BY <1>2
  <2> QED BY <2>1, <2>2
<1>6. \A j, k \in DOMAIN data' : j < k => old[j] < old[k]
  BY <1>3 DEF Fewer
<1>7. ASSUME NEW k \in DOMAIN data', Reliable(data'[k]) PROVE last_recv_reliable_sequence' <= data'[k].seq
  <2>1. last_recv_reliable_sequence <= data[old[k]].seq
    BY <1>5, <1>7 DEF NoneIsOlder
  <2>2. Reliable(data[1]) => data[1].seq <= data[old[k]].seq
    BY <1>2, <1>5, <1>7 DEF NoneIsOlder
  <2> QED BY <1>1, <1>2, <1>4, <1>5, <2>1, <2>2
<1>8. ASSUME NEW j \in DOMAIN data', NEW k \in DOMAIN data', j < k, Reliable(data'[j]), Reliable(data'[k])
      PROVE  data'[j].seq <= data'[k].seq
  BY <1>5, <1>6, <1>8 DEF NoneIsOlder
<1> QED BY <1>7, <1>8 DEF NoneIsOlder

LEMMA OrderStep == ASSUME ~ Reorders, BusInv, ChannelInv, NoneIsOlder, [Next]_vars PROVE NoneIsOlder'
<1>1. /\ PostedTypeOK /\ SenderTypeOK /\ data \in Seq(FragmentRecord)
  BY DEF BusInv, BusTypeOK, PiecesTypeOK
<1>2. PostedTypeOK'
  BY BusStep DEF BusInv, BusTypeOK
<1>3. /\ IsFiniteSet(summing) /\ Cardinality(summing) \in Nat /\ Len(posted) \in Nat /\ DOMAIN posted = 1 .. Len(posted)
      /\ posted \in Seq([mode : Modes, size : Sizes]) /\ summing \subseteq 1 .. Len(posted)
      /\ Len(numbered) + Cardinality(summing) = Len(posted) /\ Len(numbered) \in Nat /\ Len(posted) <= MaxParcels
  BY <1>1, SummingCounted, LenProperties DEF PostedTypeOK, SenderTypeOK
<1>4. ASSUME UNCHANGED <<data, last_recv_reliable_sequence>> PROVE NoneIsOlder'
  BY <1>4 DEF NoneIsOlder
<1>5. ASSUME NEW mode \in Modes, NEW size \in Sizes, Post(mode, size) PROVE NoneIsOlder'
  <2>1. /\ Len(posted) + 1 <= MaxParcels /\ posted' = Append(posted, [mode |-> mode, size |-> size])
        /\ UNCHANGED receiverVars
    BY <1>5 DEF Post
  <2>2. Len(posted') = Len(posted) + 1 /\ Len(posted) + 1 \in 1 .. Len(posted')
    BY <1>3, <2>1, AppendProperties
  <2>3. CASE size >= 2
    BY <1>4, <1>5, <2>1, <2>3 DEF Post, receiverVars
  <2>4. CASE ~ (size >= 2)
    <3>1. Dispatch(Len(posted) + 1) /\ Len(numbered) + 1 <= MaxParcels
      BY <1>3, <1>5, <2>1, <2>4, BusAssumption DEF Post
    <3> QED BY <1>2, <2>1, <2>2, <3>1, DispatchKeepsOrder
  <2> QED BY <2>3, <2>4
<1>6. ASSUME NEW id \in summing, ChecksumComputed(id) PROVE NoneIsOlder'
  <2>1. /\ UNCHANGED posted /\ Dispatch(id) /\ UNCHANGED receiverVars
    BY <1>6 DEF ChecksumComputed
  <2>2. Cardinality(summing) - 1 \in Nat
    <3>1. Cardinality(summing \ {id}) = Cardinality(summing) - 1 /\ IsFiniteSet(summing \ {id})
      BY <1>3, FS_RemoveElement
    <3> QED BY <3>1, FS_CardinalityType
  <2>3. Len(numbered) + 1 <= MaxParcels /\ id \in 1 .. Len(posted')
    BY <1>3, <2>1, <2>2, BusAssumption
  <2> QED BY <1>2, <2>1, <2>3, DispatchKeepsOrder
<1>7. CASE Resend
  BY <1>7, ResendKeepsOrder
<1>8. ASSUME NEW f \in ToSet(data), ReceiveData(f) PROVE NoneIsOlder'
  BY <1>8, ReceiveDataKeepsOrder
<1>9. ASSUME NEW ack \in ToSet(acks), ReceiveAck(ack) PROVE NoneIsOlder'
  <2>1. RecvAck(ack) /\ UNCHANGED numbered /\ UNCHANGED last_recv_reliable_sequence
    BY <1>9 DEF ReceiveAck, RecvAck, receiverVars
  <2>2. CASE UNCHANGED data
    BY <1>4, <2>1, <2>2
  <2>3. CASE ProcessSending(pending_dispatchers, None)
    <3>1. Queued(pending_dispatchers)
      BY <1>1, <2>1, LenProperties DEF SenderTypeOK, Sent, Queued
    <3> QED BY <2>1, <2>3, <3>1, SendingKeepsOrder
  <2> QED BY <2>1, <2>2, <2>3 DEF RecvAck
<1>10. ASSUME NEW seq \in verifying, ChecksumVerified(seq) PROVE NoneIsOlder'
  BY <1>4, <1>10 DEF ChecksumVerified
<1>11. ASSUME NEW d \in canceled, CanceledVerified(d) PROVE NoneIsOlder'
  BY <1>4, <1>11 DEF CanceledVerified
<1>12. CASE LoseData
  <2>1. PICK i \in Arriving(data) : data' = RemoveAt(data, i) /\ UNCHANGED receiverVars
    BY <1>12 DEF LoseData
  <2>2. PICK old : Fewer(old)
    BY <1>1, <2>1, FewerWithout DEF Arriving
  <2> QED BY <2>1, <2>2, FewerAreNotOlder DEF receiverVars
<1>13. CASE LoseAck \/ UNCHANGED vars
  BY <1>4, <1>13 DEF LoseAck, vars, receiverVars
<1> QED BY <1>5, <1>6, <1>7, <1>8, <1>9, <1>10, <1>11, <1>12, <1>13 DEF Next

\* A network that keeps the order brings no fragment late, although the resend timer
\* sends them again: over it the bus is a reliable channel without a condition.
THEOREM OrderedIsReliable == ASSUME ~ Reorders PROVE Spec => ImplementsChannel
<1>1. Init => NoneIsOlder
  BY DEF Init, NoneIsOlder
<1>2. NoneIsOlder => [NoneIsLate]_vars
  <2>1. ASSUME NoneIsOlder, NEW f \in ToSet(data), ReceiveData(f), Reliable(f)
        PROVE  last_recv_reliable_sequence <= f.seq
    <3>1. PICK i \in DOMAIN data : data[i] = f
      BY <2>1 DEF ReceiveData, Arriving
    <3> QED BY <2>1, <3>1 DEF NoneIsOlder
  <2> QED BY <2>1 DEF NoneIsLate
<1>3. Spec => []BusInv
  BY BusInitial, BusStep, PTL DEF Spec
<1>4. BusInv /\ ChannelInv /\ NoneIsOlder /\ [Next]_vars => ChannelInv' /\ NoneIsOlder'
  BY <1>2, ChannelStep, OrderStep
<1>5. Spec => [](ChannelInv /\ NoneIsOlder)
  BY <1>1, <1>3, <1>4, ChannelInitial, PTL DEF Spec
<1>6. Spec => [][NoneIsLate]_vars
  BY <1>2, <1>5, PTL
<1> QED BY <1>6, BusIsReliableChannel

===============================================================================
