---------------------------- MODULE OrwHelloProofs ----------------------------
(***************************************************************************)
(* Proofs about OrwHello, for every list of destinations, every capacity   *)
(* of the record, every rate and any number of starts.                     *)
(*                                                                         *)
(* The application counts, rounds down and forgets.  A start that sends no *)
(* hello has found every destination with more records than the rounded    *)
(* number expected since the oldest record, which is no younger than the   *)
(* last one; and no destination has more records than fit.  HelloInv adds  *)
(* to the bound on the silence what that takes: the records are in the     *)
(* order of their cycles, and there is one as soon as a hello was sent.    *)
(***************************************************************************)
EXTENDS OrwHello, FiniteSetTheorems, TLAPS

RecordsInOrder ==
    /\ \A i \in DOMAIN sentMessageQueue : sentMessageQueue[i].id <= onOffCycles
    /\ \A i, j \in DOMAIN sentMessageQueue :
         i <= j => sentMessageQueue[i].id <= sentMessageQueue[j].id

HelloInv ==
    /\ HelloTypeOK
    /\ RecordsInOrder
    /\ numSent > 0 => sentMessageQueue # <<>>
    /\ SilenceBounded

-----------------------------------------------------------------------------
(***************************************************************************)
(* The arithmetic of handleStartOperation                                  *)
(***************************************************************************)

\* What a number rounded down below a bound says of the number
LEMMA RoundedBelow ==
    ASSUME NEW d \in Nat, d > 0, NEW x \in Nat, NEW bound \in Nat, x \div d < bound
    PROVE  x < d * bound
<1> DEFINE q == x \div d
           r == x % d
<1>1. q \in Int /\ r \in 0..(d - 1) /\ x = d * q + r
  OBVIOUS
<1> HIDE DEF q, r
<1>2. q + 1 <= bound
  BY <1>1 DEF q
<1>3. d * (q + 1) <= d * bound
  BY <1>1, <1>2
<1>4. d * (q + 1) = d * q + d
  BY <1>1
<1> QED
  BY <1>1, <1>3, <1>4

\* More cycles ask for no fewer transmissions.
LEMMA RateGrows ==
    ASSUME NEW n \in Nat, NEW a \in Nat, NEW b \in Nat, a <= b
    PROVE  n * a \in Nat /\ n * b \in Nat /\ n * a <= n * b
OBVIOUS

-----------------------------------------------------------------------------
(***************************************************************************)
(* The record                                                              *)
(***************************************************************************)

\* The cycle of a record is a number.
LEMMA RecordTyped ==
    ASSUME sentMessageQueue \in Seq(Record), NEW i \in DOMAIN sentMessageQueue
    PROVE  sentMessageQueue[i].id \in Nat
<1>1. sentMessageQueue[i] \in Record
  OBVIOUS
<1> QED
  BY <1>1 DEF Record

\* A later cycle leaves the records in order.
LEMMA OrderKept ==
    ASSUME HelloTypeOK, RecordsInOrder, UNCHANGED sentMessageQueue,
           onOffCycles' \in Nat, onOffCycles <= onOffCycles'
    PROVE  RecordsInOrder'
<1>1. \A i \in DOMAIN sentMessageQueue : sentMessageQueue[i].id \in Nat
  BY RecordTyped DEF HelloTypeOK
<1>2. onOffCycles \in Nat
  BY OrwHelloAssumption DEF HelloTypeOK
<1> QED
  BY <1>1, <1>2 DEF RecordsInOrder

\* No destination has more records than there are.
LEMMA CountWithinRecord ==
    ASSUME sentMessageQueue \in Seq(Record), NEW k
    PROVE  DestinationCount(k) \in Nat /\ DestinationCount(k) <= Len(sentMessageQueue)
<1> DEFINE own == {i \in DOMAIN sentMessageQueue : sentMessageQueue[i].dest = DestAddresses[k]}
<1>1. Len(sentMessageQueue) \in Nat /\ own \subseteq 1..Len(sentMessageQueue)
  OBVIOUS
<1>2. IsFiniteSet(1..Len(sentMessageQueue))
        /\ Cardinality(1..Len(sentMessageQueue)) = Len(sentMessageQueue)
  <2>1. \A a, b \in Int : /\ IsFiniteSet(a..b)
                          /\ Cardinality(a..b) = IF a > b THEN 0 ELSE b - a + 1
    BY FS_Interval
  <2>2. 1 \in Int /\ Len(sentMessageQueue) \in Int
    BY <1>1
  <2>3. /\ IsFiniteSet(1..Len(sentMessageQueue))
        /\ Cardinality(1..Len(sentMessageQueue)) =
             IF 1 > Len(sentMessageQueue) THEN 0 ELSE Len(sentMessageQueue) - 1 + 1
    BY <2>1, <2>2, Zenon
  <2> QED
    BY <1>1, <2>3
<1>3. IsFiniteSet(own) /\ Cardinality(own) <= Cardinality(1..Len(sentMessageQueue))
  BY <1>1, <1>2, FS_Subset
<1>4. Cardinality(own) \in Nat
  BY <1>3, FS_CardinalityType
<1> QED
  BY <1>2, <1>3, <1>4 DEF DestinationCount

\* A start that sends no hello comes before the silence is too long.
LEMMA NotTooQuiet ==
    ASSUME HelloTypeOK, RecordsInOrder, sentMessageQueue # <<>>,
           NEW cycle \in Nat, onOffCycles <= cycle, ~TooQuiet(cycle)
    PROVE  RateNum * (cycle - Last(sentMessageQueue).id) < RateDen * PacketCapacity
<1> DEFINE first == sentMessageQueue[1].id
           last == Last(sentMessageQueue).id
           n == Len(sentMessageQueue)
<1>1. /\ sentMessageQueue \in Seq(Record) /\ n \in Nat \ {0}
      /\ n <= PacketCapacity /\ DOMAIN sentMessageQueue = 1..n
  BY DEF HelloTypeOK
<1>2. first \in Nat /\ last \in Nat
  BY <1>1, RecordTyped DEF Last
<1>3. first <= last /\ last <= cycle
  BY <1>1, <1>2 DEF RecordsInOrder, Last, HelloTypeOK
<1>4. 1 \in DOMAIN DestAddresses
  BY OrwHelloAssumption
<1>5. TransmissionsExpected(cycle) \in Int
  <2>1. RateNum * (cycle - first) \in Int /\ RateDen \in Nat \ {0}
    BY <1>2, OrwHelloAssumption
  <2> HIDE DEF first
  <2>2. (RateNum * (cycle - first)) \div RateDen \in Int
    BY <2>1
  <2> QED
    BY <2>2 DEF TransmissionsExpected, first
<1>6. TransmissionsExpected(cycle) < DestinationCount(1)
  <2>1. ~(DestinationCount(1) <= TransmissionsExpected(cycle))
    BY <1>4 DEF TooQuiet
  <2>2. DestinationCount(1) \in Nat
    BY <1>1, CountWithinRecord
  <2> QED
    BY <1>5, <2>1, <2>2
<1>7. (RateNum * (cycle - first)) \div RateDen < PacketCapacity
  <2>1. DestinationCount(1) \in Nat /\ DestinationCount(1) <= n
    BY <1>1, CountWithinRecord
  <2>2. TransmissionsExpected(cycle) < PacketCapacity
    BY <1>1, <1>6, <1>5, <2>1, OrwHelloAssumption
  <2> QED
    BY <2>2 DEF TransmissionsExpected
<1> HIDE DEF first, last
<1>8. /\ cycle - last \in Nat /\ cycle - first \in Nat
      /\ cycle - last <= cycle - first
  BY <1>2, <1>3
<1>9. /\ RateNum * (cycle - last) \in Nat /\ RateNum * (cycle - first) \in Nat
      /\ RateNum * (cycle - last) <= RateNum * (cycle - first)
  BY <1>8, RateGrows, OrwHelloAssumption
<1>10. RateNum * (cycle - first) < RateDen * PacketCapacity
  BY <1>7, <1>9, RoundedBelow, OrwHelloAssumption
<1>11. RateDen * PacketCapacity \in Nat
  BY OrwHelloAssumption
<1> QED
  BY <1>9, <1>10, <1>11 DEF last

\* A transmission is the last record, and the others keep their order.
LEMMA RecordSentStep ==
    ASSUME HelloTypeOK, RecordsInOrder, NEW a \in Address, NEW cycle \in Nat,
           onOffCycles <= cycle, onOffCycles' = cycle, RecordSent(a, cycle)
    PROVE  /\ sentMessageQueue' \in Seq(Record)
           /\ sentMessageQueue' # <<>>
           /\ Len(sentMessageQueue') <= PacketCapacity
           /\ Last(sentMessageQueue').id = cycle
           /\ RecordsInOrder'
<1> DEFINE kept == IF Len(sentMessageQueue) < PacketCapacity THEN sentMessageQueue
                   ELSE Tail(sentMessageQueue)
           record == [id |-> cycle, dest |-> a]
<1>1. sentMessageQueue \in Seq(Record) /\ Len(sentMessageQueue) \in Nat
        /\ Len(sentMessageQueue) <= PacketCapacity /\ onOffCycles \in Nat
  BY DEF HelloTypeOK
<1>2. record \in Record /\ record.id = cycle
  BY DEF Record
<1>3. /\ kept \in Seq(Record)
      /\ Len(kept) \in Nat /\ Len(kept) + 1 <= PacketCapacity
      /\ \A i \in 1..Len(kept) : kept[i].id \in Nat /\ kept[i].id <= cycle
      /\ \A i, j \in 1..Len(kept) : i <= j => kept[i].id <= kept[j].id
  <2>1. \A i \in 1..Len(sentMessageQueue) :
           sentMessageQueue[i].id \in Nat /\ sentMessageQueue[i].id <= cycle
    BY <1>1, RecordTyped DEF RecordsInOrder
  <2>2. CASE Len(sentMessageQueue) < PacketCapacity
    <3>1. kept = sentMessageQueue
      BY <2>2
    <3> HIDE DEF kept
    <3>2. Len(kept) + 1 <= PacketCapacity
      BY <1>1, <2>2, <3>1, OrwHelloAssumption
    <3>3. \A i, j \in 1..Len(kept) : i <= j => kept[i].id <= kept[j].id
      BY <1>1, <3>1 DEF RecordsInOrder
    <3> QED
      BY <1>1, <2>1, <3>1, <3>2, <3>3
  <2>3. CASE ~(Len(sentMessageQueue) < PacketCapacity)
    <3>1. sentMessageQueue # <<>> /\ Len(sentMessageQueue) = PacketCapacity
      BY <1>1, <2>3, OrwHelloAssumption
    <3>2. /\ kept \in Seq(Record) /\ Len(kept) = Len(sentMessageQueue) - 1
          /\ \A i \in 1..Len(kept) :
               /\ kept[i] = sentMessageQueue[i + 1]
               /\ i + 1 \in 1..Len(sentMessageQueue)
      BY <1>1, <2>3, <3>1
    <3> HIDE DEF kept
    <3>3. Len(kept) \in Nat /\ Len(kept) + 1 <= PacketCapacity
      BY <1>1, <3>1, <3>2, OrwHelloAssumption
    <3>4. \A i \in 1..Len(kept) : kept[i].id \in Nat /\ kept[i].id <= cycle
      BY <2>1, <3>2
    <3>5. ASSUME NEW i \in 1..Len(kept), NEW j \in 1..Len(kept), i <= j
          PROVE  kept[i].id <= kept[j].id
      <4>1. /\ i + 1 \in DOMAIN sentMessageQueue /\ j + 1 \in DOMAIN sentMessageQueue
            /\ i + 1 <= j + 1
        BY <1>1, <3>2, <3>3, <3>5
      <4>2. sentMessageQueue[i + 1].id <= sentMessageQueue[j + 1].id
        BY <4>1 DEF RecordsInOrder
      <4> QED
        BY <3>2, <4>2
    <3> QED
      BY <3>2, <3>3, <3>4, <3>5
  <2> QED
    BY <2>2, <2>3
<1>4. sentMessageQueue' = Append(kept, record)
  BY DEF RecordSent
<1> HIDE DEF kept, record
<1>5. /\ sentMessageQueue' \in Seq(Record)
      /\ Len(sentMessageQueue') = Len(kept) + 1
      /\ DOMAIN sentMessageQueue' = 1..(Len(kept) + 1)
      /\ \A i \in 1..Len(kept) : sentMessageQueue'[i] = kept[i]
      /\ sentMessageQueue'[Len(kept) + 1] = record
  BY <1>2, <1>3, <1>4
<1>6. sentMessageQueue' # <<>>
  BY <1>3, <1>5
<1>7. Last(sentMessageQueue').id = cycle
  BY <1>2, <1>5 DEF Last
<1>8. RecordsInOrder'
  <2>1. \A i \in 1..(Len(kept) + 1) : i \in 1..Len(kept) \/ i = Len(kept) + 1
    BY <1>3
  <2>2. \A i \in 1..(Len(kept) + 1) : sentMessageQueue'[i].id <= cycle
    BY <1>2, <1>3, <1>5, <2>1
  <2>3. \A i, j \in 1..(Len(kept) + 1) :
           i <= j => sentMessageQueue'[i].id <= sentMessageQueue'[j].id
    BY <1>2, <1>3, <1>5, <2>1
  <2> QED
    BY <1>5, <2>2, <2>3 DEF RecordsInOrder
<1> QED
  BY <1>3, <1>5, <1>6, <1>7, <1>8

-----------------------------------------------------------------------------
\* Nothing is recorded before the first start.
LEMMA HelloInvInit == Init => HelloInv
<1> SUFFICES ASSUME Init PROVE HelloInv
  OBVIOUS
<1>1. /\ sentMessageQueue = <<>> /\ sentMessageQueue \in Seq(Record)
      /\ Len(sentMessageQueue) = 0 /\ DOMAIN sentMessageQueue = {}
  BY DEF Init
<1>2. HelloTypeOK
  <2>1. operating \in BOOLEAN /\ sendTimer \in {"off", "START", "NEXT"}
    BY Zenon DEF Init
  <2>2. /\ onOffCycles \in 0..MaxCycles /\ numSent \in 0..1
        /\ Len(sentMessageQueue) <= PacketCapacity
    BY OrwHelloAssumption, <1>1 DEF Init
  <2> QED
    BY <1>1, <2>1, <2>2 DEF HelloTypeOK
<1> QED
  BY <1>1, <1>2 DEF Init, HelloInv, RecordsInOrder, SilenceBounded

\* A hello or another transmission of this cycle ends the silence.
LEMMA SentKeepsInv ==
    ASSUME HelloInv, NEW a \in Address, NEW cycle \in Nat,
           onOffCycles <= cycle, onOffCycles' = cycle, cycle <= MaxCycles, RecordSent(a, cycle),
           operating' \in BOOLEAN, numSent' \in 0..1, sendTimer' \in {"off", "START", "NEXT"}
    PROVE  HelloInv'
<1>1. /\ sentMessageQueue' \in Seq(Record) /\ sentMessageQueue' # <<>>
      /\ Len(sentMessageQueue') <= PacketCapacity
      /\ Last(sentMessageQueue').id = cycle
      /\ RecordsInOrder'
  BY RecordSentStep DEF HelloInv
<1>2. HelloTypeOK'
  BY <1>1 DEF HelloTypeOK
<1>3. SilenceBounded'
  <2>1. RateNum * (cycle - cycle) = 0 /\ RateDen * PacketCapacity > 0
    BY OrwHelloAssumption
  <2> QED
    BY <1>1, <2>1 DEF SilenceBounded
<1> QED
  BY <1>1, <1>2, <1>3 DEF HelloInv

\* A hello goes to one of the destinations.
LEMMA SendPacketSends ==
    ASSUME NEW cycle, SendPacket(cycle)
    PROVE  numSent' = 1 /\ \E a \in Address : RecordSent(a, cycle)
<1>1. PICK k \in DOMAIN DestAddresses : RecordSent(DestAddresses[k], cycle)
  BY DEF SendPacket
<1>2. DestAddresses[k] \in Address
  BY OrwHelloAssumption DEF Address
<1> QED
  BY <1>1, <1>2 DEF SendPacket

\* Every operation preserves the invariant.
LEMMA HelloInvStep == HelloInv /\ [Next]_vars => HelloInv'
<1> SUFFICES ASSUME HelloInv, [Next]_vars PROVE HelloInv'
  OBVIOUS
<1>0. HelloTypeOK /\ RecordsInOrder /\ (numSent > 0 => sentMessageQueue # <<>>) /\ SilenceBounded
  BY DEF HelloInv
<1>1. onOffCycles \in Nat /\ onOffCycles <= MaxCycles /\ MaxCycles \in Nat
  BY <1>0, OrwHelloAssumption DEF HelloTypeOK
<1>2. CASE HandleStartBeforeFirst
  <2>1. HelloTypeOK'
    BY <1>0, <1>1, <1>2 DEF HandleStartBeforeFirst, HelloTypeOK
  <2>2. RecordsInOrder'
    BY <1>0, <1>1, <1>2, OrderKept DEF HandleStartBeforeFirst
  <2> QED
    BY <1>0, <1>2, <2>1, <2>2 DEF HandleStartBeforeFirst, HelloInv, SilenceBounded
<1>3. CASE HandleStartOperation
  <2>1. /\ onOffCycles' = onOffCycles + 1 /\ onOffCycles' \in Nat
        /\ onOffCycles <= onOffCycles' /\ onOffCycles' <= MaxCycles
    BY <1>1, <1>3 DEF HandleStartOperation
  <2>2. CASE TooQuiet(onOffCycles')
    <3>1. SendPacket(onOffCycles') /\ operating' \in BOOLEAN /\ sendTimer' = "NEXT"
      BY <1>3, <2>2 DEF HandleStartOperation
    <3> QED
      BY <2>1, <3>1, SendPacketSends, SentKeepsInv
  <2>3. CASE ~TooQuiet(onOffCycles')
    <3>1. /\ sentMessageQueue' = sentMessageQueue /\ numSent' = numSent /\ numSent > 0
          /\ operating' = TRUE /\ sendTimer' = "NEXT"
      BY <1>3, <2>3 DEF HandleStartOperation
    <3>2. HelloTypeOK'
      BY <1>0, <2>1, <3>1 DEF HelloTypeOK
    <3>3. RecordsInOrder'
      BY <1>0, <2>1, <3>1, OrderKept
    <3>4. SilenceBounded'
      BY <1>0, <2>1, <2>3, <3>1, NotTooQuiet DEF SilenceBounded
    <3> QED
      BY <1>0, <3>1, <3>2, <3>3, <3>4 DEF HelloInv
  <2> QED
    BY <2>2, <2>3
<1>4. CASE TimerFires
  <2>1. /\ SendPacket(onOffCycles) /\ onOffCycles' = onOffCycles
        /\ operating' \in BOOLEAN /\ sendTimer' = "NEXT"
    BY <1>0, <1>4 DEF TimerFires, HelloTypeOK
  <2> QED
    BY <1>1, <2>1, SendPacketSends, SentKeepsInv
<1>5. ASSUME NEW a \in Address, NetworkLayerSends(a) PROVE HelloInv'
  <2>1. /\ RecordSent(a, onOffCycles) /\ onOffCycles' = onOffCycles
        /\ operating' \in BOOLEAN /\ numSent' \in 0..1
        /\ sendTimer' \in {"off", "START", "NEXT"}
    BY <1>0, <1>5 DEF NetworkLayerSends, HelloTypeOK
  <2> QED
    BY <1>1, <2>1, SentKeepsInv
<1>6. CASE HandleStopOperation
  BY <1>0, <1>6 DEF HandleStopOperation, HelloInv, HelloTypeOK, RecordsInOrder, SilenceBounded
<1>7. CASE UNCHANGED vars
  BY <1>0, <1>7 DEF vars, HelloInv, HelloTypeOK, RecordsInOrder, SilenceBounded
<1> QED
  BY <1>2, <1>3, <1>4, <1>5, <1>6, <1>7 DEF Next

\* The invariant holds in every state.
THEOREM HelloInvariant == Spec => []HelloInv
BY HelloInvInit, HelloInvStep, PTL DEF Spec

\* The record of transmissions never holds more than fit.
THEOREM HelloTypeCorrect == Spec => []HelloTypeOK
BY HelloInvariant, PTL DEF HelloInv

\* A node that was once heard is never silent for longer than the rate and the
\* capacity of the record allow, for every rate, capacity and destinations.
THEOREM SilenceAlwaysBounded == Spec => []SilenceBounded
BY HelloInvariant, PTL DEF HelloInv
=============================================================================
