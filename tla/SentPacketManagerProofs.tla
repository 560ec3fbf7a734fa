----------------------- MODULE SentPacketManagerProofs -----------------------
(***************************************************************************)
(* The invariants of SentPacketManager for every number of packets, window *)
(* and reordering threshold.  IInv is preserved by every step; what the    *)
(* two detection paths have in common is in the lemmas on DetectLosses and *)
(* on RemoveObsoletePackets.                                               *)
(***************************************************************************)
EXTENDS SentPacketManager, FiniteSetTheorems, WellFoundedInduction, TLAPS

USE MaxPacketAssumption, CwndAssumption, ThresholdAssumption,
    MaxRtoAssumption, DuplicatedAssumption

----------------------------------------------------------------------------
(* Sets of packet numbers.                                                 *)

\* Min of a set of natural numbers is its least element: the initial segments
\* of the set are finite, and the smallest of them ends in its least element.
LEMMA MinOfNaturals ==
  ASSUME NEW S \in SUBSET Nat, S # {}
  PROVE  /\ Min(S) \in S
         /\ \A y \in S : Min(S) <= y
<1> DEFINE UpTo(x) == {k \in S : k <= x}
           Segments == {UpTo(x) : x \in S}
<1>1. Segments \in SUBSET FiniteSubsetsOf(S)
  <2> SUFFICES ASSUME NEW x \in S
               PROVE  IsFiniteSet(UpTo(x))
    BY DEF FiniteSubsetsOf
  <2>1. x \in Nat /\ \A k \in UpTo(x) : k \in 0 .. x
    OBVIOUS
  <2>2. UpTo(x) \in SUBSET (0 .. x)
    BY ONLY <2>1
  <2>3. IsFiniteSet(0 .. x)
    BY <2>1, FS_Interval
  <2> QED BY <2>2, <2>3, FS_Subset
<1>2. Segments # {}
  OBVIOUS
<1>3. PICK U \in Segments :
        \A V \in Segments : <<V, U>> \notin StrictSubsetOrdering(S)
  BY <1>1, <1>2, FS_StrictSubsetOrderingWellFounded, WFMin
<1>4. PICK x \in S : U = UpTo(x)
  OBVIOUS
<1>5. ASSUME NEW y \in S, y < x
      PROVE  FALSE
  <2> x \in Nat /\ y \in Nat
    OBVIOUS
  <2>1. x \in UpTo(x) /\ x \notin UpTo(y) /\ \A k \in UpTo(y) : k \in UpTo(x)
    BY <1>5
  <2>2. <<UpTo(y), UpTo(x)>> \in StrictSubsetOrdering(S)
    BY <2>1 DEF StrictSubsetOrdering
  <2> QED BY <1>3, <1>4, <2>2
<1>6. x \in S /\ \A y \in S : x <= y
  BY <1>5
<1> QED BY <1>6 DEF Min

\* Any element below all the others is Min.
LEMMA MinIsUnique ==
  ASSUME NEW S \in SUBSET Nat, NEW m \in S, \A y \in S : m <= y
  PROVE  Min(S) = m
<1>1. Min(S) \in S /\ \A y \in S : Min(S) <= y
  BY MinOfNaturals
<1>2. m \in Nat /\ Min(S) \in Nat
  BY <1>1
<1> QED BY <1>1, <1>2

\* A set of packet numbers is finite and has at most MaxPacket members.
LEMMA PacketSetsAreFinite ==
  ASSUME NEW S \in SUBSET Packets
  PROVE  /\ IsFiniteSet(S)
         /\ Cardinality(S) \in 0 .. MaxPacket
<1>1. IsFiniteSet(Packets) /\ Cardinality(Packets) = MaxPacket
  BY FS_Interval DEF Packets
<1>2. IsFiniteSet(S) /\ Cardinality(S) <= MaxPacket
  BY <1>1, FS_Subset
<1> QED BY <1>2, FS_CardinalityType

\* Removing a part of a set of packets takes its size off.
LEMMA RemovingSubset ==
  ASSUME NEW S \in SUBSET Packets, NEW T \in SUBSET S
  PROVE  Cardinality(S \ T) = Cardinality(S) - Cardinality(T)
<1>1. S \cap T = T
  OBVIOUS
<1> QED BY <1>1, PacketSetsAreFinite, FS_Difference

----------------------------------------------------------------------------
(* Loss detection.                                                         *)

\* The scan starts at or below every packet in flight.
LEMMA ScanStartsBelowFlight ==
  ASSUME IInv
  PROVE  /\ ScanStart \in Nat \ {0}
         /\ \A p \in in_flight : ScanStart <= p /\ least_unacked <= p
<1>1. in_flight \cup {largest_sent + 1} \in SUBSET Nat
  BY DEF IInv, TypeOK, Packets
<1>2. \A p \in in_flight : least_unacked <= p
  BY <1>1, MinOfNaturals DEF IInv, MapStartsInFlight
<1> QED BY <1>2 DEF IInv, TypeOK, ScanMissesNothing, ScanStart

\* InvokeLossDetection's largest_newly_acked_ and what it finds lost.
Newest(acked) == IF acked # None THEN acked ELSE largest_newly_acked
Found(flight, acked, expired) ==
  DetectedLost(flight, acked, Newest(acked), expired)

\* What DetectLosses leaves behind, after an ack and after a timeout: only
\* packets older than every survivor and than the newest ack are lost, the
\* survivors lie at or above least_in_flight, the timer is the oldest of them
\* and an acked packet leaves no survivor beyond the reordering threshold.
LEMMA DetectionIsSound ==
  ASSUME IInv,
         NEW flight, flight \subseteq in_flight,
         NEW acked \in 0 .. largest_sent, acked \notin flight,
         NEW expired \in 0 .. MaxPacket,
         InvokeLossDetection(flight, acked, expired)
  PROVE  /\ largest_newly_acked' = Newest(acked)
         /\ Newest(acked) \in 0 .. largest_sent
         /\ Newest(acked) \notin flight
         /\ declared_lost' = declared_lost \cup Found(flight, acked, expired)
         /\ in_flight' = flight \ Found(flight, acked, expired)
         /\ Found(flight, acked, expired) \subseteq flight
         /\ \A p \in Found(flight, acked, expired) :
              p < Newest(acked) /\ \A q \in in_flight' : p < q
         /\ \A p \in in_flight' : least_in_flight' <= p
         /\ least_in_flight' \in 1 .. largest_sent + 1
         /\ loss_timer' = None \/ ( /\ loss_timer' \in in_flight'
                                    /\ loss_timer' = least_in_flight'
                                    /\ loss_timer' < Newest(acked) )
         /\ acked # None =>
              \A p \in in_flight' : acked - p < ReorderingThreshold
<1> DEFINE newest == Newest(acked)
           lost == Found(flight, acked, expired)
           rest == NotYetLost(flight, acked, newest, expired)
<1>1. /\ largest_newly_acked' = newest
      /\ loss_timer' = IF rest = {} THEN None ELSE Min(rest)
      /\ least_in_flight' = IF rest = {} THEN newest + 1 ELSE Min(rest)
      /\ declared_lost' = declared_lost \cup lost
      /\ in_flight' = flight \ lost
  BY DEF InvokeLossDetection, Newest, Found
<1>2. /\ newest \in 0 .. largest_sent
      /\ newest \notin flight
      /\ \A p \in flight : p \in Nat /\ p \in 1 .. largest_sent
      /\ largest_sent \in Nat
      /\ largest_sent <= MaxPacket
  BY DEF IInv, TypeOK, ScanIsBounded, None, Newest
<1>3. \A p \in flight : ScanStart <= p
  BY ScanStartsBelowFlight
<1>4. lost = DetectedLost(flight, acked, newest, expired)
  BY DEF Found
<1>5. newest = IF acked # None THEN acked ELSE largest_newly_acked
  BY DEF Newest
<1> HIDE DEF newest, lost
<1>6. CASE NothingMissing(acked)
  <2>1. lost = {} /\ rest = {} /\ newest = acked /\ acked = least_in_flight
    BY <1>4, <1>5, <1>6 DEF NothingMissing, DetectedLost, NotYetLost
  <2>2. \A p \in flight : acked < p
    BY <2>1, <1>2 DEF IInv, ScanMissesNothing
  <2> QED BY <1>1, <1>2, <2>1, <2>2 DEF newest, lost, None
<1>7. CASE ~ NothingMissing(acked)
  <2>1. /\ \A p \in lost : p \in flight
        /\ \A p \in rest : p \in flight
        /\ \A p \in flight : /\ p \in lost <=>
                                  p < newest /\ IsLost(p, newest, expired)
                             /\ p \in rest <=>
                                  p < newest /\ ~ IsLost(p, newest, expired)
    <3>1. lost = {p \in Scanned(flight, newest) : IsLost(p, newest, expired)}
      BY <1>4, <1>7 DEF DetectedLost
    <3>2. rest = Scanned(flight, newest) \ lost
      BY <1>4, <1>7 DEF NotYetLost
    <3>3. \A p \in flight : p \in Scanned(flight, newest) <=> p < newest
      BY <1>2, <1>3 DEF Scanned
    <3>4. \A p \in Scanned(flight, newest) : p \in flight
      BY DEF Scanned
    <3> QED BY <3>1, <3>2, <3>3, <3>4
  <2>2. ASSUME NEW p \in lost, NEW q \in flight \ lost
        PROVE  p < q
    <3>1. p \in flight /\ p < newest /\ IsLost(p, newest, expired)
      BY <2>1
    <3>2. newest < q \/ ~ IsLost(q, newest, expired)
      BY <1>2, <2>1
    <3>3. p \in Nat /\ q \in Nat /\ newest \in Nat
      BY <1>2, <3>1
    <3> QED BY <3>1, <3>2, <3>3 DEF IsLost
  <2>3. rest \in SUBSET Nat
    <3>1. \A p \in rest : p \in Nat
      BY <2>1, <1>2
    <3> QED BY ONLY <3>1
  <2>4. rest = {} => \A p \in in_flight' : newest + 1 <= p
    BY <1>1, <1>2, <2>1
  <2>5. rest # {} => /\ Min(rest) \in in_flight'
                     /\ Min(rest) < newest
                     /\ \A p \in in_flight' : Min(rest) <= p
    <3> SUFFICES ASSUME rest # {}
                 PROVE  /\ Min(rest) \in in_flight'
                        /\ Min(rest) < newest
                        /\ \A p \in in_flight' : Min(rest) <= p
      OBVIOUS
    <3>1. Min(rest) \in rest /\ \A p \in rest : Min(rest) <= p
      BY <2>3, MinOfNaturals
    <3>2. \A p \in in_flight' : p \in rest \/ newest < p
      BY <1>1, <1>2, <2>1
    <3> QED BY <1>1, <1>2, <2>1, <2>3, <3>1, <3>2
  <2>6. acked # None => \A p \in in_flight' : acked - p < ReorderingThreshold
    BY <1>1, <1>2, <1>5, <2>1 DEF IsLost
  <2>7. least_in_flight' \in 1 .. largest_sent + 1
    BY <1>1, <1>2, <2>4, <2>5
  <2>8. /\ \A p \in in_flight' : least_in_flight' <= p
        /\ loss_timer' = None \/ ( /\ loss_timer' \in in_flight'
                                   /\ loss_timer' = least_in_flight'
                                   /\ loss_timer' < newest )
    BY <1>1, <2>4, <2>5
  <2>9. lost \subseteq flight /\ \A p \in lost : p < newest
    BY <2>1
  <2> QED BY <1>1, <1>2, <2>2, <2>6, <2>7, <2>8, <2>9 DEF newest, lost
<1> QED BY <1>6, <1>7 DEF newest, lost

----------------------------------------------------------------------------
(* The deque and the map.                                                  *)

\* RemoveObsoletePackets moves the front to the oldest packet in flight, and
\* popping that many records keeps begin_ in the block.
LEMMA FrontFollowsFlight ==
  ASSUME IInv,
         in_flight' \subseteq in_flight,
         largest_sent' = largest_sent,
         \A p \in Packets : IsAckable(state'[p]) => p \in in_flight',
         RemoveObsoletePackets
  PROVE  /\ MapStartsInFlight'
         /\ least_unacked' \in least_unacked .. largest_sent + 1
         /\ begin' \in Nat
         /\ data_capacity' = data_capacity
         /\ DequeFits'
<1> DEFINE useful == {p \in least_unacked .. largest_sent :
                        p \in in_flight' \/ IsAckable(state'[p])}
           ends == in_flight' \cup {largest_sent + 1}
<1>1. /\ least_unacked \in Nat \ {0}
      /\ largest_sent \in Nat
      /\ largest_sent <= MaxPacket
      /\ least_unacked <= largest_sent + 1
      /\ begin \in Nat
      /\ data_capacity \in Nat
  BY DEF IInv, TypeOK
<1>2. \A p \in in_flight : p \in least_unacked .. largest_sent
  BY <1>1, ScanStartsBelowFlight DEF IInv, ScanIsBounded
<1>3. useful = in_flight'
  <2>1. \A p \in least_unacked .. largest_sent : p \in Packets
    BY <1>1 DEF Packets
  <2>2. \A p : p \in useful <=> p \in in_flight'
    BY <1>2, <2>1
  <2> QED BY ONLY <2>2
<1>4. /\ least_unacked' = Min(ends)
      /\ PopFront(least_unacked' - least_unacked)
  BY <1>3 DEF RemoveObsoletePackets
<1>5. Min(ends) \in ends
  <2>1. \A p \in ends : p \in Nat
    BY <1>1, <1>2
  <2>2. ends \in SUBSET Nat
    BY ONLY <2>1
  <2> QED BY <2>2, MinOfNaturals
<1>6. least_unacked' \in least_unacked .. largest_sent + 1
  BY <1>1, <1>2, <1>4, <1>5
<1>7. MapStartsInFlight'
  BY <1>4 DEF MapStartsInFlight
<1>8. data_capacity' = data_capacity /\ begin' \in Nat /\ DequeFits'
  <2>1. /\ Size <= Capacity
        /\ data_capacity > 0 => begin < data_capacity
        /\ largest_sent > 0 => data_capacity > 0
    BY DEF IInv, DequeFits
  <2>2. /\ data_capacity' = data_capacity
        /\ begin' = IF begin + (least_unacked' - least_unacked) < data_capacity
                      THEN begin + (least_unacked' - least_unacked)
                      ELSE begin + (least_unacked' - least_unacked) - data_capacity
    BY <1>4 DEF PopFront
  <2>3. largest_sent = 0 \/ data_capacity > 0
    BY <1>1, <2>1
  <2>4. CASE data_capacity > 0
    <3>1. Capacity = data_capacity - 1 /\ Capacity' = data_capacity - 1
      BY <2>2, <2>4 DEF Capacity
    <3>2. largest_sent + 1 - least_unacked <= data_capacity - 1
      BY <2>1, <3>1 DEF Size
    <3>3. begin < data_capacity
      BY <2>1, <2>4
    <3>4. PICK u \in least_unacked .. largest_sent + 1 : least_unacked' = u
      BY <1>6
    <3>5. /\ u - least_unacked \in 0 .. data_capacity - 1
          /\ largest_sent + 1 - u <= data_capacity - 1
      BY <1>1, <3>2
    <3>6. begin' \in Nat /\ begin' < data_capacity
      BY <1>1, <2>2, <3>3, <3>4, <3>5
    <3>7. Size' <= Capacity'
      BY <3>1, <3>4, <3>5 DEF Size
    <3> QED BY <2>2, <2>3, <2>4, <3>6, <3>7 DEF DequeFits
  <2>5. CASE data_capacity = 0
    <3>1. largest_sent = 0 /\ least_unacked = 1 /\ least_unacked' = 1
      BY <1>1, <1>6, <2>1, <2>3, <2>5 DEF Size, Capacity
    <3> QED BY <1>1, <2>1, <2>2, <2>5, <3>1 DEF DequeFits, Size, Capacity
  <2> QED BY <1>1, <2>4, <2>5
<1> QED BY <1>6, <1>7, <1>8

\* Pushing one record keeps a slot of the block free.
LEMMA PushBackFits ==
  ASSUME IInv, PushBack, largest_sent' = largest_sent + 1,
         least_unacked' = least_unacked
  PROVE  /\ begin' \in Nat
         /\ data_capacity' \in Nat
         /\ DequeFits'
<1>1. /\ least_unacked \in Nat \ {0}
      /\ largest_sent \in Nat
      /\ least_unacked <= largest_sent + 1
      /\ begin \in Nat
      /\ data_capacity \in Nat
      /\ Size <= Capacity
      /\ data_capacity > 0 => begin < data_capacity
  BY DEF IInv, TypeOK, DequeFits
<1>2. Size \in Nat /\ Capacity \in Nat
  BY <1>1 DEF Size, Capacity
<1>3. CASE Capacity >= Size + 1
  <2>1. begin' = begin /\ data_capacity' = data_capacity
    BY <1>3 DEF PushBack, dequeVars
  <2> QED BY <1>1, <1>2, <1>3, <2>1 DEF DequeFits, Size, Capacity
<1>4. CASE ~ (Capacity >= Size + 1)
  <2> DEFINE grown == Larger(Size + 1, Capacity
                        + Larger(MinCapacityIncrement, Capacity \div 4))
  <2>1. begin' = 0 /\ data_capacity' = 1 + grown
    BY <1>4 DEF PushBack
  <2>2. Capacity \div 4 \in Nat
    BY <1>2
  <2>3. grown \in Nat /\ grown >= Size + 1
    BY <1>2, <2>2 DEF Larger, MinCapacityIncrement
  <2>4. /\ data_capacity' \in Nat
        /\ data_capacity' > 1
        /\ data_capacity' - 1 >= Size + 1
    BY <1>2, <2>1, <2>3
  <2>5. Size' = Size + 1
    BY <1>1 DEF Size
  <2>6. Capacity' = data_capacity' - 1
    <3>1. data_capacity' # 0
      BY <2>4
    <3> QED BY <3>1 DEF Capacity
  <2> QED BY <1>2, <2>1, <2>4, <2>5, <2>6 DEF DequeFits
<1> QED BY <1>3, <1>4

\* The record an echo reaches is one of those sent, the echo's own if its
\* packet is still in flight.
LEMMA HandledRecords ==
  ASSUME IInv, NEW pn \in Packets, pn <= largest_sent
  PROVE  /\ \A p \in Handled(pn) : p \in 1 .. largest_sent
         /\ \A p, q \in Handled(pn) : p = q
         /\ pn \in in_flight => Handled(pn) = {pn}
         /\ pn \notin FlightAfterAck(pn)
         /\ FlightAfterAck(pn) = in_flight \ LeavesFlight(pn)
         /\ LeavesFlight(pn) \subseteq in_flight
<1>1. /\ pn \in Nat \ {0}
      /\ data_capacity \in Nat
      /\ largest_sent \in Nat
      /\ least_unacked \in Nat
  BY DEF IInv, TypeOK, Packets
<1>2. RecordAt(pn) \in 1 .. largest_sent
  BY <1>1 DEF RecordAt
<1>3. ASSUME pn \in in_flight
      PROVE  Handled(pn) = {pn}
  <2>1. least_unacked <= pn
    BY <1>3, ScanStartsBelowFlight
  <2> QED BY <1>1, <2>1 DEF Handled, OutsideBlock, RecordAt
<1> QED BY <1>2, <1>3 DEF Handled, FlightAfterAck, LeavesFlight

----------------------------------------------------------------------------
(* What acks and loss timeouts have in common.                             *)

\* The counter loses one for each packet that leaves flight.
LEMMA CounterFollowsFlight ==
  ASSUME IInv,
         NEW left, left \subseteq in_flight,
         NEW lost, lost \subseteq in_flight \ left,
         in_flight' = (in_flight \ left) \ lost,
         packets_in_flight' =
            packets_in_flight - Cardinality(left) - Cardinality(lost)
  PROVE  /\ packets_in_flight' = Cardinality(in_flight')
         /\ packets_in_flight' \in 0 .. MaxPacket
<1>1. in_flight \in SUBSET Packets /\ packets_in_flight = Cardinality(in_flight)
  BY DEF IInv, TypeOK, FlightAccounting
<1>2. Cardinality(in_flight \ left) = Cardinality(in_flight) - Cardinality(left)
  BY <1>1, RemovingSubset
<1>3. Cardinality((in_flight \ left) \ lost) =
        Cardinality(in_flight \ left) - Cardinality(lost)
  <2>1. in_flight \ left \in SUBSET Packets
    BY <1>1
  <2> QED BY <2>1, RemovingSubset
<1>4. packets_in_flight' = Cardinality(in_flight')
  BY <1>1, <1>2, <1>3
<1>5. (in_flight \ left) \ lost \in SUBSET Packets
  BY <1>1
<1> QED BY <1>4, <1>5, PacketSetsAreFinite

\* A detection after the ack of `acked', or after a timeout (None), preserves
\* what relates the flight, the timer, the scan and the processed echoes.
LEMMA DetectionPreservesScan ==
  ASSUME IInv,
         NEW flight, flight \subseteq in_flight,
         NEW acked \in 0 .. largest_sent, acked \notin flight,
         NEW expired \in 0 .. MaxPacket,
         InvokeLossDetection(flight, acked, expired),
         largest_sent' = largest_sent,
         delivered' = IF acked = None THEN delivered ELSE delivered \cup {acked},
         \A p \in Packets : state'[p] # "LOST",
         MapStartsInFlight'
  PROVE  /\ ScanMissesNothing'
         /\ LossTimerIsLive'
         /\ ScanIsBounded'
         /\ PacketThreshold'
         /\ DeliveredLeavesFlight'
         /\ LossNeedsNewerAck'
<1> DEFINE newest == Newest(acked)
           lost == Found(flight, acked, expired)
<1>1. /\ largest_newly_acked' = newest
      /\ newest \in 0 .. largest_sent
      /\ newest \notin flight
      /\ declared_lost' = declared_lost \cup lost
      /\ in_flight' = flight \ lost
      /\ lost \subseteq flight
      /\ \A p \in lost : p < newest
      /\ \A p \in in_flight' : least_in_flight' <= p
      /\ least_in_flight' \in 1 .. largest_sent + 1
      /\ loss_timer' = None \/ ( /\ loss_timer' \in in_flight'
                                 /\ loss_timer' = least_in_flight'
                                 /\ loss_timer' < newest )
      /\ acked # None =>
           \A p \in in_flight' : acked - p < ReorderingThreshold
  BY DetectionIsSound
<1> HIDE DEF lost
<1>2. /\ \A p \in in_flight : p \in Nat /\ p \in 1 .. largest_sent
      /\ in_flight' \subseteq in_flight
      /\ largest_sent \in Nat
      /\ largest_newly_acked \in delivered \cup {None}
      /\ delivered \subseteq 1 .. largest_sent
  BY <1>1 DEF IInv, TypeOK, ScanIsBounded
<1>3. newest \in delivered' \cup {None}
  BY <1>2 DEF Newest
<1>4. ScanMissesNothing'
  BY <1>1 DEF ScanMissesNothing
<1>5. LossTimerIsLive'
  <2> SUFFICES ASSUME loss_timer' # None
               PROVE  loss_timer' = least_unacked'
    BY <1>1 DEF LossTimerIsLive
  <2>1. PICK t \in Nat : t = loss_timer'
    BY <1>1, <1>2
  <2>2. t \in in_flight' /\ t <= largest_sent
    BY <1>1, <1>2, <2>1
  <2>3. \A p \in in_flight' \cup {largest_sent + 1} : t <= p /\ p \in Nat
    BY <1>1, <1>2, <2>1, <2>2
  <2>4. in_flight' \cup {largest_sent + 1} \in SUBSET Nat
    BY ONLY <2>3
  <2>5. Min(in_flight' \cup {largest_sent + 1}) = t
    BY <2>2, <2>3, <2>4, MinIsUnique
  <2> QED BY <2>1, <2>5 DEF MapStartsInFlight
<1>6. ScanIsBounded'
  <2>1. largest_newly_acked' \in (delivered \cup {None})'
    BY <1>1, <1>3 DEF None
  <2>2. largest_newly_acked' \notin in_flight'
    BY <1>1
  <2>3. in_flight' \cup delivered' \subseteq 1 .. largest_sent'
    <3>1. \A p \in delivered' : p \in 1 .. largest_sent
      BY <1>2 DEF None
    <3>2. \A p \in in_flight' : p \in 1 .. largest_sent
      BY <1>2
    <3> QED BY <3>1, <3>2
  <2>4. least_in_flight' <= largest_sent' + 1
    <3>1. PICK f \in 1 .. largest_sent + 1 : f = least_in_flight'
      BY <1>1
    <3> QED BY <1>2, <3>1
  <2> QED BY <2>1, <2>2, <2>3, <2>4 DEF ScanIsBounded, None, Packets
<1>7. PacketThreshold'
  BY <1>1, <1>2 DEF IInv, PacketThreshold
<1>8. DeliveredLeavesFlight'
  BY <1>1, <1>2 DEF IInv, DeliveredLeavesFlight
<1>9. LossNeedsNewerAck'
  <2> SUFFICES ASSUME NEW p \in declared_lost'
               PROVE  \E q \in delivered' : q > p
    BY DEF LossNeedsNewerAck
  <2>1. CASE p \in declared_lost
    BY <2>1 DEF IInv, LossNeedsNewerAck
  <2>2. CASE p \in lost
    <3>1. p \in Nat /\ p < newest /\ newest \in Nat
      BY <1>1, <1>2, <2>2
    <3>2. newest # None
      BY <3>1 DEF None
    <3> QED BY <1>3, <3>1, <3>2
  <2> QED BY <1>1, <2>1, <2>2
<1> QED BY <1>4, <1>5, <1>6, <1>7, <1>8, <1>9

----------------------------------------------------------------------------
(* Every step preserves IInv.                                              *)

\* A manager just constructed, with no packet sent, satisfies IInv.
LEMMA InitEstablishes ==
  Init => IInv
<1> SUFFICES ASSUME Init
             PROVE  IInv
  OBVIOUS
<1>1. TypeOK
  <2>1. /\ 0 \in 0 .. MaxPacket /\ 0 \in 0 .. MaxRtoCount
        /\ 1 \in 1 .. MaxPacket + 1 /\ 1 \in 1 .. 0 + 1
    OBVIOUS
  <2>2. state \in [Packets -> States]
    BY DEF Init, States
  <2> QED BY <2>1, <2>2 DEF Init, TypeOK, None
<1>2. FlightAccounting
  BY FS_EmptySet DEF Init, FlightAccounting
<1>3. MapStartsInFlight
  <2>1. in_flight \cup {largest_sent + 1} = {1} /\ least_unacked = 1
    BY DEF Init
  <2>2. Min({1}) = 1
    BY MinIsUnique
  <2> QED BY <2>1, <2>2 DEF MapStartsInFlight
<1>4. DequeFits
  BY DEF Init, DequeFits, Size, Capacity
<1> QED BY <1>1, <1>2, <1>3, <1>4
        DEF Init, IInv, ScanMissesNothing, LossTimerIsLive, ScanIsBounded,
            PacketThreshold, DeliveredLeavesFlight, LossNeedsNewerAck

\* OnPacketSent preserves IInv: the new packet is newer than every echo and
\* its record fits the deque.
LEMMA SendPacketPreserves ==
  ASSUME IInv, SendPacket
  PROVE  IInv'
<1> DEFINE pn == largest_sent + 1
<1>1. /\ pn \in Packets
      /\ largest_sent \in Nat
      /\ largest_sent' = pn
      /\ in_flight' = in_flight \cup {pn}
      /\ state' = [state EXCEPT ![pn] = "OUTSTANDING"]
      /\ packets_in_flight' = packets_in_flight + 1
      /\ PushBack
      /\ UNCHANGED <<least_unacked, largest_newly_acked, consecutive_rto_count,
                     lossVars, historyVars, memory_fault>>
  BY DEF IInv, TypeOK, SendPacket, AddSentPacket, Packets
<1>2. /\ \A p \in in_flight : p \in Nat /\ p < pn
      /\ \A p \in delivered : p \in Nat /\ p < pn
      /\ least_in_flight <= pn
      /\ least_unacked <= pn
      /\ least_unacked \in Nat \ {0}
      /\ largest_newly_acked < pn
  <2>1. /\ in_flight \cup delivered \subseteq 1 .. largest_sent
        /\ least_in_flight <= largest_sent + 1
        /\ least_unacked \in 1 .. largest_sent + 1
        /\ largest_newly_acked \in delivered \cup {0}
    BY DEF IInv, TypeOK, ScanIsBounded, None
  <2>2. \A p \in in_flight \cup delivered : p \in Nat /\ p < pn
    BY <1>1, <2>1
  <2> QED BY <1>1, <2>1, <2>2
<1>3. in_flight' \in SUBSET Packets
  BY <1>1 DEF IInv, TypeOK
<1>4. FlightAccounting' /\ packets_in_flight' \in 0 .. MaxPacket
  <2>1. in_flight \in SUBSET Packets /\ pn \notin in_flight
    BY <1>2 DEF IInv, TypeOK
  <2>2. packets_in_flight' = Cardinality(in_flight')
    BY <1>1, <2>1, PacketSetsAreFinite, FS_AddElement
       DEF IInv, FlightAccounting
  <2>3. in_flight' = {p \in Packets : state'[p] = "OUTSTANDING"}
    BY <1>1 DEF IInv, TypeOK, FlightAccounting
  <2> QED BY <1>3, <2>2, <2>3, PacketSetsAreFinite DEF FlightAccounting, Packets
<1>5. MapStartsInFlight'
  <2> DEFINE before == in_flight \cup {pn}
             after == in_flight' \cup {pn + 1}
  <2>1. least_unacked = Min(before)
    BY DEF IInv, MapStartsInFlight
  <2>2. \A p \in before \cup after : p \in Nat
    BY <1>1, <1>2
  <2>3. before \in SUBSET Nat /\ after \in SUBSET Nat
    BY ONLY <2>2
  <2>4. least_unacked \in before /\ \A p \in before : least_unacked <= p
    BY <2>1, <2>3, MinOfNaturals
  <2>5. least_unacked \in after /\ \A p \in after : least_unacked <= p
    BY <1>1, <1>2, <2>4
  <2>6. Min(after) = least_unacked
    BY <2>3, <2>5, MinIsUnique
  <2> QED BY <1>1, <2>6 DEF MapStartsInFlight
<1>6. DequeFits' /\ begin' \in Nat /\ data_capacity' \in Nat
  BY <1>1, PushBackFits
<1>7. TypeOK'
  BY <1>1, <1>2, <1>3, <1>4, <1>6
     DEF IInv, TypeOK, lossVars, historyVars, Packets, States
<1>8. ScanMissesNothing'
  BY <1>1, <1>2 DEF IInv, ScanMissesNothing, lossVars
<1>9. LossTimerIsLive'
  BY <1>1 DEF IInv, LossTimerIsLive, lossVars
<1>10. ScanIsBounded'
  <2>1. in_flight' \cup delivered' \subseteq 1 .. largest_sent'
    <3>1. \A p \in in_flight' \cup delivered' : p \in 1 .. pn
      BY <1>1, <1>2 DEF IInv, ScanIsBounded, historyVars
    <3> QED BY <1>1, <3>1
  <2>2. largest_newly_acked' \notin in_flight'
    BY <1>1, <1>2 DEF IInv, TypeOK, ScanIsBounded
  <2>3. least_in_flight' <= largest_sent' + 1
    BY <1>1, <1>2 DEF IInv, TypeOK, lossVars
  <2>4. \A p \in Packets : state'[p] # "LOST"
    BY <1>1 DEF IInv, TypeOK, ScanIsBounded
  <2> QED BY <1>1, <2>1, <2>2, <2>3, <2>4
          DEF IInv, ScanIsBounded, historyVars, Packets
<1>11. PacketThreshold'
  BY <1>1, <1>2 DEF IInv, PacketThreshold, historyVars
<1>12. DeliveredLeavesFlight'
  BY <1>1, <1>2 DEF IInv, DeliveredLeavesFlight, historyVars
<1>13. LossNeedsNewerAck'
  BY <1>1 DEF IInv, LossNeedsNewerAck, historyVars
<1> QED BY <1>4, <1>5, <1>6, <1>7, <1>8, <1>9, <1>10, <1>11, <1>12, <1>13
        DEF IInv

\* An ack frame preserves IInv, also when its packet number reaches the record
\* of another packet.
LEMMA OnPacketReceivedPreserves ==
  ASSUME IInv, NEW pn \in Packets, NEW expired \in 0 .. MaxPacket,
         OnPacketReceived(pn, expired)
  PROVE  IInv'
<1> DEFINE flight == FlightAfterAck(pn)
           lost == LostOnAck(pn, expired)
<1>1. /\ pn <= largest_sent
      /\ pn \in 1 .. largest_sent /\ pn \in 0 .. largest_sent
      /\ pn # None
      /\ largest_sent \in Nat
      /\ largest_sent' = largest_sent
      /\ InvokeLossDetection(flight, pn, expired)
      /\ RemoveObsoletePackets
      /\ delivered' = delivered \cup {pn}
      /\ spurious' = spurious \cup SpuriouslyLost(pn)
      /\ memory_fault' = memory_fault
  BY DEF IInv, TypeOK, OnPacketReceived, EchoMayArrive, Packets, None
<1>2. /\ \A p \in Handled(pn) : p \in Packets
      /\ pn \notin flight
      /\ flight = in_flight \ Handled(pn)
      /\ flight = in_flight \ LeavesFlight(pn)
      /\ LeavesFlight(pn) \subseteq in_flight
      /\ in_flight \subseteq Packets
  <2>1. \A p \in 1 .. largest_sent : p \in Packets
    BY DEF IInv, TypeOK, Packets
  <2> QED BY <1>1, <2>1, HandledRecords DEF IInv, TypeOK, FlightAfterAck
<1>3. /\ largest_newly_acked' = pn
      /\ declared_lost' = declared_lost \cup lost
      /\ in_flight' = flight \ lost
      /\ lost \subseteq flight
      /\ least_in_flight' \in 1 .. largest_sent + 1
      /\ loss_timer' = None \/ loss_timer' \in in_flight'
  <2>1. Newest(pn) = pn /\ lost = Found(flight, pn, expired)
    BY <1>1 DEF LostOnAck, Newest, Found
  <2> HIDE DEF flight, lost
  <2>2. flight \subseteq in_flight
    BY <1>2
  <2> QED BY <1>1, <1>2, <2>1, <2>2, DetectionIsSound
<1> HIDE DEF flight, lost
<1>4. /\ state' \in [Packets -> States]
      /\ \A p \in Packets :
           state'[p] = IF p \in lost THEN "NEVER_SENT"
                       ELSE IF p \in Handled(pn) THEN "ACKED"
                       ELSE state[p]
  BY DEF IInv, TypeOK, States, OnPacketReceived, lost
<1>5. in_flight' = {p \in Packets : state'[p] = "OUTSTANDING"}
  <2>1. in_flight = {p \in Packets : state[p] = "OUTSTANDING"}
    BY DEF IInv, FlightAccounting
  <2>2. in_flight' = {p \in Packets : state'[p] = "OUTSTANDING"}
    BY <1>2, <1>3, <1>4, <2>1
  <2> QED BY <2>2
<1>6. /\ packets_in_flight' = Cardinality(in_flight')
      /\ packets_in_flight' \in 0 .. MaxPacket
  BY <1>2, <1>3, CounterFollowsFlight DEF OnPacketReceived, lost
<1>7. \A p \in Packets : state'[p] # "LOST"
  BY <1>4 DEF IInv, ScanIsBounded
<1>8. /\ MapStartsInFlight'
      /\ least_unacked' \in least_unacked .. largest_sent + 1
      /\ begin' \in Nat
      /\ data_capacity' = data_capacity
      /\ DequeFits'
  <2>1. \A p \in Packets : IsAckable(state'[p]) => p \in in_flight'
    BY <1>4, <1>5, <1>7 DEF IsAckable, States
  <2>2. in_flight' \subseteq in_flight
    BY <1>2, <1>3
  <2> QED BY <1>1, <2>1, <2>2, FrontFollowsFlight
<1>9. /\ ScanMissesNothing'
      /\ LossTimerIsLive'
      /\ ScanIsBounded'
      /\ PacketThreshold'
      /\ DeliveredLeavesFlight'
      /\ LossNeedsNewerAck'
  BY <1>1, <1>2, <1>7, <1>8, DetectionPreservesScan
<1>10. TypeOK'
  <2>1. /\ least_unacked' \in 1 .. largest_sent' + 1
        /\ least_in_flight' \in 1 .. MaxPacket + 1
        /\ pn \in 0 .. MaxPacket
    BY <1>1, <1>3, <1>8 DEF IInv, TypeOK
  <2>2. consecutive_rto_count' \in 0 .. MaxRtoCount
    BY DEF IInv, TypeOK, OnPacketReceived
  <2>3. in_flight' \subseteq Packets /\ declared_lost' \subseteq Packets
    BY <1>2, <1>3 DEF IInv, TypeOK
  <2>4. loss_timer' \in 0 .. MaxPacket
    <3>1. \A t \in Packets \cup {None} : t \in 0 .. MaxPacket
      BY DEF Packets, None
    <3> QED BY <1>3, <2>3, <3>1
  <2>5. delivered' \subseteq Packets /\ spurious' \subseteq Packets
    BY <1>1, <1>2 DEF IInv, TypeOK, SpuriouslyLost
  <2> QED BY <1>1, <1>3, <1>4, <1>6, <1>8, <2>1, <2>2, <2>3, <2>4, <2>5
          DEF IInv, TypeOK
<1> QED BY <1>5, <1>6, <1>8, <1>9, <1>10 DEF IInv, FlightAccounting

\* A lookup outside the deque changes no record and its packet is older than
\* every packet in flight.
LEMMA OnPacketReceivedFaultPreserves ==
  ASSUME IInv, NEW pn \in Packets, OnPacketReceivedFault(pn)
  PROVE  IInv'
<1>1. /\ pn \in Nat /\ pn \in 1 .. largest_sent
      /\ pn < least_unacked
      /\ memory_fault' = TRUE
      /\ delivered' = delivered \cup {pn}
      /\ UNCHANGED <<state, in_flight, packets_in_flight, least_unacked,
                     largest_sent, begin, data_capacity, largest_newly_acked,
                     consecutive_rto_count, least_in_flight, loss_timer,
                     declared_lost, spurious>>
  BY DEF IInv, TypeOK, OnPacketReceivedFault, EchoMayArrive, OutsideBlock,
         Packets, mapVars, dequeVars, lossVars
<1>2. \A p \in in_flight : p \in Nat /\ pn < p
  <2>1. \A p \in in_flight : p \in Nat /\ least_unacked <= p
    BY ScanStartsBelowFlight DEF IInv, TypeOK, Packets
  <2> QED BY <1>1, <2>1 DEF IInv, TypeOK
<1>3. TypeOK' /\ FlightAccounting'
  BY <1>1 DEF IInv, TypeOK, FlightAccounting
<1>4. MapStartsInFlight' /\ DequeFits'
  BY <1>1 DEF IInv, MapStartsInFlight, DequeFits, Size, Capacity
<1>5. ScanMissesNothing' /\ LossTimerIsLive'
  BY <1>1 DEF IInv, ScanMissesNothing, LossTimerIsLive
<1>6. ScanIsBounded'
  BY <1>1 DEF IInv, ScanIsBounded
<1>7. PacketThreshold' /\ DeliveredLeavesFlight'
  BY <1>1, <1>2 DEF IInv, PacketThreshold, DeliveredLeavesFlight
<1>8. LossNeedsNewerAck'
  BY <1>1 DEF IInv, LossNeedsNewerAck
<1> QED BY <1>3, <1>4, <1>5, <1>6, <1>7, <1>8 DEF IInv

\* OnRetransmissionTimeout in LOSS_MODE preserves IInv.
LEMMA OnLossTimeoutPreserves ==
  ASSUME IInv, NEW expired \in 0 .. MaxPacket, OnLossTimeout(expired)
  PROVE  IInv'
<1> DEFINE lost == LostOnTimeout(expired)
<1>1. /\ InvokeLossDetection(in_flight, None, expired)
      /\ largest_sent' = largest_sent
      /\ largest_sent \in Nat /\ None \in 0 .. largest_sent
      /\ delivered' = delivered
      /\ None \notin in_flight
      /\ in_flight \subseteq Packets
      /\ packets_in_flight' = packets_in_flight - Cardinality(lost)
  BY DEF IInv, TypeOK, OnLossTimeout, Packets, None
<1>2. /\ largest_newly_acked' = largest_newly_acked
      /\ declared_lost' = declared_lost \cup lost
      /\ in_flight' = in_flight \ lost
      /\ lost \subseteq in_flight
      /\ least_in_flight' \in 1 .. largest_sent + 1
      /\ loss_timer' = None \/ loss_timer' \in in_flight'
  <2>1. /\ Newest(None) = largest_newly_acked
        /\ lost = Found(in_flight, None, expired)
    BY DEF LostOnTimeout, Newest, Found
  <2>2. in_flight \subseteq in_flight
    OBVIOUS
  <2> HIDE DEF lost
  <2> QED BY <1>1, <2>1, <2>2, DetectionIsSound
<1> HIDE DEF lost
<1>3. /\ state' \in [Packets -> States]
      /\ \A p \in Packets :
           state'[p] = IF p \in lost THEN "NEVER_SENT" ELSE state[p]
  BY DEF IInv, TypeOK, States, OnLossTimeout, lost
<1>4. in_flight' = {p \in Packets : state'[p] = "OUTSTANDING"}
  BY <1>1, <1>2, <1>3 DEF IInv, FlightAccounting
<1>5. /\ packets_in_flight' = Cardinality(in_flight')
      /\ packets_in_flight' \in 0 .. MaxPacket
  <2>1. /\ {} \subseteq in_flight
        /\ lost \subseteq in_flight \ {}
        /\ in_flight' = (in_flight \ {}) \ lost
    BY <1>2
  <2>2. packets_in_flight' =
          packets_in_flight - Cardinality({}) - Cardinality(lost)
    BY <1>1, FS_EmptySet DEF IInv, TypeOK
  <2> QED BY <2>1, <2>2, CounterFollowsFlight
<1>6. \A p \in Packets : state'[p] # "LOST"
  BY <1>3 DEF IInv, ScanIsBounded
<1>7. /\ MapStartsInFlight'
      /\ least_unacked' \in 1 .. largest_sent + 1
      /\ begin' \in Nat
      /\ data_capacity' = data_capacity
      /\ DequeFits'
  <2>1. CASE lost = {}
    <3>1. /\ least_unacked' = least_unacked
          /\ begin' = begin /\ data_capacity' = data_capacity
          /\ in_flight' = in_flight
      BY <1>2, <2>1 DEF OnLossTimeout, lost, dequeVars
    <3> QED BY <1>1, <3>1 DEF IInv, TypeOK, MapStartsInFlight, DequeFits,
                              Size, Capacity
  <2>2. CASE lost # {}
    <3>1. RemoveObsoletePackets
      BY <2>2 DEF OnLossTimeout, lost
    <3>2. \A p \in Packets : IsAckable(state'[p]) => p \in in_flight'
      BY <1>3, <1>4, <1>6 DEF IsAckable, States
    <3>3. in_flight' \subseteq in_flight
      BY <1>2
    <3> QED BY <1>1, <3>1, <3>2, <3>3, FrontFollowsFlight DEF IInv, TypeOK
  <2> QED BY <2>1, <2>2
<1>8. /\ ScanMissesNothing'
      /\ LossTimerIsLive'
      /\ ScanIsBounded'
      /\ PacketThreshold'
      /\ DeliveredLeavesFlight'
      /\ LossNeedsNewerAck'
  BY <1>1, <1>6, <1>7, DetectionPreservesScan
<1>9. TypeOK'
  <2>1. least_in_flight' \in 1 .. MaxPacket + 1
    BY <1>1, <1>2 DEF IInv, TypeOK
  <2>2. in_flight' \subseteq Packets /\ declared_lost' \subseteq Packets
    BY <1>1, <1>2 DEF IInv, TypeOK
  <2>3. loss_timer' \in 0 .. MaxPacket
    <3>1. \A t \in Packets \cup {None} : t \in 0 .. MaxPacket
      BY DEF Packets, None
    <3> QED BY <1>2, <2>2, <3>1
  <2> QED BY <1>1, <1>2, <1>3, <1>5, <1>7, <2>1, <2>2, <2>3
          DEF IInv, TypeOK, OnLossTimeout
<1> QED BY <1>4, <1>5, <1>7, <1>8, <1>9 DEF IInv, FlightAccounting

\* RTO_MODE leaves nothing in flight.
LEMMA OnRtoTimeoutAbandonsAll ==
  ASSUME IInv, OnRtoTimeout
  PROVE  /\ Abandoned = in_flight
         /\ in_flight' = {}
         /\ packets_in_flight' = 0
<1>1. in_flight = {p \in Packets : state[p] = "OUTSTANDING"}
  BY DEF IInv, FlightAccounting
<1>2. \A p \in in_flight : p \in least_unacked .. largest_sent
  BY ScanStartsBelowFlight DEF IInv, TypeOK, ScanIsBounded
<1>3. \A p \in least_unacked .. largest_sent : p \in Packets
  BY DEF IInv, TypeOK, Packets
<1>4. Abandoned = in_flight
  <2>1. \A p : p \in Abandoned <=> p \in in_flight
    BY <1>1, <1>2, <1>3 DEF Abandoned
  <2> QED BY ONLY <2>1
<1>5. in_flight' = {}
  BY <1>4 DEF OnRtoTimeout
<1>6. packets_in_flight' = packets_in_flight - Cardinality(in_flight)
  <2>1. in_flight \cap Abandoned = in_flight
    BY <1>4
  <2> QED BY <2>1 DEF OnRtoTimeout
<1> QED BY <1>4, <1>5, <1>6 DEF IInv, TypeOK, FlightAccounting

\* OnRetransmissionTimeout in RTO_MODE preserves IInv: nothing stays in flight
\* and the deque is emptied.
LEMMA OnRtoTimeoutPreserves ==
  ASSUME IInv, OnRtoTimeout
  PROVE  IInv'
<1>1. Abandoned = in_flight /\ in_flight' = {} /\ packets_in_flight' = 0
  BY OnRtoTimeoutAbandonsAll
<1>2. /\ loss_timer = None
      /\ RemoveObsoletePackets
      /\ UNCHANGED <<largest_sent, largest_newly_acked, least_in_flight,
                     loss_timer, delivered, declared_lost, spurious,
                     memory_fault>>
  BY DEF OnRtoTimeout, lossVars, historyVars
<1>3. /\ state' \in [Packets -> States]
      /\ \A p \in Packets :
           state'[p] = IF p \in in_flight THEN "NEVER_SENT" ELSE state[p]
  BY <1>1 DEF IInv, TypeOK, States, OnRtoTimeout
<1>4. \A p \in Packets : state'[p] \notin {"OUTSTANDING", "LOST"}
  BY <1>3 DEF IInv, FlightAccounting, ScanIsBounded
<1>5. FlightAccounting'
  BY <1>1, <1>4, FS_EmptySet DEF FlightAccounting, Packets
<1>6. /\ MapStartsInFlight'
      /\ least_unacked' \in least_unacked .. largest_sent + 1
      /\ begin' \in Nat
      /\ data_capacity' = data_capacity
      /\ DequeFits'
  <2>1. \A p \in Packets : IsAckable(state'[p]) => p \in in_flight'
    BY <1>3, <1>4 DEF IsAckable, States
  <2> QED BY <1>1, <1>2, <2>1, FrontFollowsFlight
<1>7. TypeOK'
  <2>1. least_unacked' \in 1 .. largest_sent' + 1
    BY <1>2, <1>6 DEF IInv, TypeOK
  <2>2. consecutive_rto_count' \in 0 .. MaxRtoCount
    BY DEF IInv, TypeOK, OnRtoTimeout
  <2>3. 0 \in 0 .. MaxPacket
    OBVIOUS
  <2> QED BY <1>1, <1>2, <1>3, <1>6, <2>1, <2>2, <2>3 DEF IInv, TypeOK
<1>8. /\ ScanMissesNothing'
      /\ LossTimerIsLive'
      /\ PacketThreshold'
      /\ DeliveredLeavesFlight'
      /\ LossNeedsNewerAck'
  BY <1>1, <1>2 DEF IInv, ScanMissesNothing, LossTimerIsLive, PacketThreshold,
                    DeliveredLeavesFlight, LossNeedsNewerAck
<1>9. ScanIsBounded'
  BY <1>1, <1>2, <1>4 DEF IInv, ScanIsBounded
<1> QED BY <1>5, <1>6, <1>7, <1>8, <1>9 DEF IInv

\* Every step of the client preserves IInv.
LEMMA NextPreserves ==
  IInv /\ [Next]_vars => IInv'
<1> SUFFICES ASSUME IInv, [Next]_vars
             PROVE  IInv'
  OBVIOUS
<1>1. CASE SendPacket
  BY <1>1, SendPacketPreserves
<1>2. CASE ReceiveEcho
  BY <1>2, OnPacketReceivedPreserves, OnPacketReceivedFaultPreserves
     DEF ReceiveEcho
<1>3. CASE OnRetransmissionTimeout
  BY <1>3, OnLossTimeoutPreserves, OnRtoTimeoutPreserves
     DEF OnRetransmissionTimeout
<1>4. CASE Undefined \/ UNCHANGED vars
  <2>1. UNCHANGED vars
    BY <1>4 DEF Undefined
  <2> QED BY <2>1
          DEF vars, mapVars, dequeVars, lossVars, historyVars, IInv, TypeOK,
              FlightAccounting, MapStartsInFlight, DequeFits, Size, Capacity,
              ScanMissesNothing, LossTimerIsLive, ScanIsBounded,
              PacketThreshold, DeliveredLeavesFlight, LossNeedsNewerAck
<1> QED BY <1>1, <1>2, <1>3, <1>4 DEF Next

----------------------------------------------------------------------------
(* The theorems.                                                           *)

\* The conjunction of the manager's invariants holds in every reachable
\* state, for every number of packets, window and reordering threshold.
THEOREM InductiveInvariant == Spec => []IInv
<1>1. Init => IInv
  BY InitEstablishes
<1>2. IInv /\ [Next]_vars => IInv'
  BY NextPreserves
<1> QED BY <1>1, <1>2, PTL DEF Spec

\* Counters stay in the range of their types: packets_in_flight_ never wraps
\* below zero, packet numbers and deque indices stay in theirs.
THEOREM TypeCorrectness == Spec => []TypeOK
<1>1. IInv => TypeOK
  BY DEF IInv
<1> QED BY <1>1, InductiveInvariant, PTL

\* The counter read by the window check is the number of packets in flight,
\* also when late or duplicated echoes reach a record that is not theirs, and
\* no packet whose echo was processed is among them.
THEOREM FlightStaysExact == Spec => []FlightIsExact
<1>1. IInv => FlightIsExact
  BY DEF IInv, FlightIsExact
<1> QED BY <1>1, InductiveInvariant, PTL

\* Between two handlers the map holds no useless record at its front, and its
\* ring grows before it is full, whatever the order of sends and pops.
THEOREM MapStaysConsistent == Spec => []MapIsConsistent
<1>1. IInv => MapIsConsistent
  BY DEF IInv, MapIsConsistent
<1> QED BY <1>1, InductiveInvariant, PTL

\* Scans start below every packet in flight and end at a packet whose echo was
\* processed; the nack count detects every loss it should, however echoes are
\* reordered.
THEOREM ScansStaySound == Spec => []ScansAreSound
<1>1. IInv => ScansAreSound
  BY DEF IInv, ScansAreSound
<1> QED BY <1>1, InductiveInvariant, PTL

\* No packet is declared lost without a newer one acked.
THEOREM LossesNeedAcks == Spec => []LossNeedsNewerAck
<1>1. IInv => LossNeedsNewerAck
  BY DEF IInv
<1> QED BY <1>1, InductiveInvariant, PTL

\* The loss timer belongs to the oldest packet in flight or is not set, and when
\* it fires detection finds a loss: OnRetransmissionTimeout in LOSS_MODE is
\* never idle.
THEOREM LossTimerStaysUseful == Spec => []LossTimerWorks
<1>1. IInv => LossTimeoutMakesProgress
  <2> SUFFICES ASSUME IInv, loss_timer # None,
                      NEW expired \in loss_timer .. MaxPacket
               PROVE  loss_timer \in LostOnTimeout(expired)
    BY DEF LossTimeoutMakesProgress
  <2>1. /\ loss_timer \in in_flight
        /\ loss_timer = least_unacked
        /\ loss_timer = least_in_flight
        /\ loss_timer < largest_newly_acked
        /\ loss_timer \in Nat
        /\ largest_newly_acked \in Nat
        /\ loss_timer <= expired
    BY DEF IInv, LossTimerIsLive, TypeOK
  <2>2. ScanStart = loss_timer
    BY <2>1 DEF ScanStart
  <2>3. loss_timer \in Scanned(in_flight, largest_newly_acked)
    BY <2>1, <2>2 DEF Scanned
  <2>4. IsLost(loss_timer, largest_newly_acked, expired)
    BY <2>1 DEF IsLost
  <2> QED BY <2>3, <2>4 DEF LostOnTimeout, DetectedLost, NothingMissing
<1>2. IInv => LossTimerWorks
  BY <1>1 DEF IInv, LossTimerWorks
<1> QED BY <1>2, InductiveInvariant, PTL

\* A packet is declared lost once, from flight, and never with or after its
\* own ack.
THEOREM LossesAreFinal == Spec => NoLossAfterAck
<1> DEFINE Final == \A p \in declared_lost' \ declared_lost :
                       p \notin delivered' /\ p \in in_flight
<1>1. ASSUME IInv, [Next]_vars
      PROVE  [Final]_vars
  <2>1. CASE UNCHANGED declared_lost
    BY <2>1
  <2>2. ASSUME NEW pn \in Packets, NEW expired \in 0 .. MaxPacket,
               OnPacketReceived(pn, expired)
        PROVE  Final
    <3> DEFINE lost == LostOnAck(pn, expired)
    <3>1. lost \subseteq FlightAfterAck(pn)
      BY DEF LostOnAck, DetectedLost, Scanned
    <3>2. declared_lost' = declared_lost \cup lost
      BY <2>2 DEF OnPacketReceived, InvokeLossDetection, LostOnAck, None,
                  Packets
    <3>3. pn \notin FlightAfterAck(pn) /\ FlightAfterAck(pn) \subseteq in_flight
      BY <1>1, <2>2, HandledRecords DEF OnPacketReceived, EchoMayArrive,
                                  FlightAfterAck
    <3>4. delivered' = delivered \cup {pn}
      BY <2>2 DEF OnPacketReceived
    <3> QED BY <1>1, <3>1, <3>2, <3>3, <3>4 DEF IInv, DeliveredLeavesFlight
  <2>3. ASSUME NEW expired \in 0 .. MaxPacket, OnLossTimeout(expired)
        PROVE  Final
    <3>1. LostOnTimeout(expired) \subseteq in_flight
      BY DEF LostOnTimeout, DetectedLost, Scanned
    <3>2. declared_lost' = declared_lost \cup LostOnTimeout(expired)
      BY <2>3 DEF OnLossTimeout, InvokeLossDetection, LostOnTimeout
    <3>3. delivered' = delivered
      BY <2>3 DEF OnLossTimeout
    <3> QED BY <1>1, <3>1, <3>2, <3>3 DEF IInv, DeliveredLeavesFlight
  <2>4. CASE SendPacket
    BY <2>1, <2>4 DEF SendPacket, historyVars
  <2>5. ASSUME NEW pn \in Packets, OnPacketReceivedFault(pn)
        PROVE  Final
    BY <2>1, <2>5 DEF OnPacketReceivedFault
  <2>6. CASE OnRtoTimeout
    BY <2>1, <2>6 DEF OnRtoTimeout, historyVars
  <2>7. CASE Undefined \/ UNCHANGED vars
    BY <2>1, <2>7 DEF Undefined, vars, historyVars
  <2> QED BY <1>1, <2>2, <2>3, <2>4, <2>5, <2>6, <2>7
          DEF Next, ReceiveEcho, OnRetransmissionTimeout
<1>2. IInv /\ [Next]_vars => [Final]_vars
  BY <1>1
<1> QED BY <1>2, InductiveInvariant, PTL DEF Spec, NoLossAfterAck

----------------------------------------------------------------------------
(* The manager implements the ledger.                                      *)

\* Max of a set of packet numbers is its greatest element: mirrored, it is
\* the least.
LEMMA MaxOfPackets ==
  ASSUME NEW S, \A x \in S : x \in 0 .. MaxPacket, S # {}
  PROVE  /\ Max(S) \in S
         /\ \A y \in S : y <= Max(S)
<1> DEFINE mirrored == {MaxPacket - x : x \in S}
<1>1. \A y \in mirrored : y \in Nat
  OBVIOUS
<1>2. mirrored \in SUBSET Nat
  BY ONLY <1>1
<1>3. mirrored # {}
  OBVIOUS
<1>4. PICK m \in mirrored : \A y \in mirrored : m <= y
  BY <1>2, <1>3, MinOfNaturals
<1>5. PICK x \in S : m = MaxPacket - x
  OBVIOUS
<1>6. \A y \in S : x >= y
  <2> SUFFICES ASSUME NEW y \in S
               PROVE  x >= y
    OBVIOUS
  <2>1. MaxPacket - x <= MaxPacket - y
    BY <1>4, <1>5
  <2> QED BY <2>1
<1>7. Max(S) \in S /\ \A y \in S : Max(S) >= y
  BY <1>6 DEF Max
<1>8. Max(S) \in Nat /\ \A y \in S : y \in Nat
  BY <1>7
<1> QED BY <1>7, <1>8

\* The newest processed echo bounds the others.
LEMMA NewestEcho ==
  ASSUME IInv
  PROVE  /\ Max(delivered \cup {0}) \in delivered \cup {0}
         /\ Max(delivered \cup {0}) \in Nat
         /\ \A q \in delivered : q <= Max(delivered \cup {0})
<1>1. \A q \in delivered \cup {0} : q \in 0 .. MaxPacket
  BY DEF IInv, TypeOK, Packets
<1> QED BY <1>1, MaxOfPackets

\* Processing an echo moves the newest one forward, if it is newer.
LEMMA NewestEchoMoves ==
  ASSUME IInv, NEW pn \in Packets, delivered' = delivered \cup {pn}
  PROVE  Max(delivered' \cup {0}) = IF pn > Max(delivered \cup {0})
                                       THEN pn ELSE Max(delivered \cup {0})
<1> DEFINE old == Max(delivered \cup {0})
           new == Max((delivered \cup {pn}) \cup {0})
<1>1. \A q \in (delivered \cup {pn}) \cup {0} : q \in 0 .. MaxPacket
  BY DEF IInv, TypeOK, Packets
<1>2. /\ new \in (delivered \cup {pn}) \cup {0}
      /\ \A q \in (delivered \cup {pn}) \cup {0} : q <= new
  BY <1>1, MaxOfPackets
<1>3. /\ old \in delivered \cup {0} /\ old \in Nat
      /\ \A q \in delivered : q <= old
  BY NewestEcho
<1> HIDE DEF old, new
<1>4. new \in Nat /\ pn \in Nat
  BY <1>1, <1>2
<1>5. new = IF pn > old THEN pn ELSE old
  BY <1>2, <1>3, <1>4
<1> QED BY <1>5 DEF old, new

\* The ledger counts sets as this module does.
LEMMA LedgerCardinality ==
  ASSUME NEW S
  PROVE  Ledger!Cardinality(S) = Cardinality(S)
BY DEF Ledger!Cardinality, Cardinality

\* An ack settles its packet and loses only older ones: an Echo step.
LEMMA OnPacketReceivedIsEcho ==
  ASSUME IInv, IInv', NEW pn \in Packets, NEW expired \in 0 .. MaxPacket,
         OnPacketReceived(pn, expired)
  PROVE  Ledger!Echo(pn)
<1> DEFINE settled == LeavesFlight(pn)
           lost == LostOnAck(pn, expired)
           newest == Max(delivered \cup {0})
<1>1. /\ pn <= largest_sent
      /\ pn \in 0 .. largest_sent
      /\ pn # None
      /\ largest_sent' = largest_sent
      /\ InvokeLossDetection(FlightAfterAck(pn), pn, expired)
      /\ delivered' = delivered \cup {pn}
  BY DEF IInv, TypeOK, OnPacketReceived, EchoMayArrive, Packets, None
<1>2. /\ pn \in in_flight => settled = {pn}
      /\ pn \notin FlightAfterAck(pn)
      /\ FlightAfterAck(pn) = in_flight \ settled
      /\ FlightAfterAck(pn) \subseteq in_flight
      /\ settled \subseteq in_flight
      /\ \A p, q \in settled : p = q
  BY <1>1, HandledRecords DEF LeavesFlight
<1>3. Newest(pn) = pn /\ lost = Found(FlightAfterAck(pn), pn, expired)
  BY <1>1 DEF LostOnAck, Newest, Found
<1> HIDE DEF settled, lost
<1>4. /\ in_flight' = FlightAfterAck(pn) \ lost
      /\ lost \subseteq FlightAfterAck(pn)
      /\ \A p \in lost : p < pn /\ \A q \in in_flight' : p < q
  <2>1. /\ FlightAfterAck(pn) \subseteq in_flight
        /\ pn \notin FlightAfterAck(pn)
    BY <1>2
  <2>2. /\ in_flight' = FlightAfterAck(pn)
                            \ Found(FlightAfterAck(pn), pn, expired)
        /\ Found(FlightAfterAck(pn), pn, expired) \subseteq FlightAfterAck(pn)
        /\ \A p \in Found(FlightAfterAck(pn), pn, expired) :
             p < Newest(pn) /\ \A q \in in_flight' : p < q
    BY <1>1, <2>1, DetectionIsSound
  <2> QED BY <1>3, <2>2
<1>5. Cardinality(settled) <= 1
  <2>1. CASE settled = {}
    BY <2>1, FS_EmptySet
  <2>2. CASE settled # {}
    <3>1. PICK p : settled = {p}
      BY <1>2, <2>2
    <3> QED BY <3>1, FS_Singleton
  <2> QED BY <2>1, <2>2
<1>6. Max(delivered' \cup {0}) = IF pn > newest THEN pn ELSE newest
  BY <1>1, NewestEchoMoves
<1>7. \A p \in lost : /\ p < Max(delivered' \cup {0})
                      /\ \A q \in in_flight' : p < q
  <2>1. newest \in Nat /\ pn \in Nat
    BY NewestEcho DEF Packets
  <2>2. \A p \in lost : p \in Nat
    <3>1. \A p \in in_flight : p \in Nat
      BY DEF IInv, TypeOK, Packets
    <3> QED BY <1>2, <1>4, <3>1
  <2> HIDE DEF newest
  <2> QED BY <1>4, <1>6, <2>1, <2>2
<1>8. \A p \in in_flight' : Max(delivered' \cup {0}) - p < ReorderingThreshold
  <2> SUFFICES ASSUME NEW p \in in_flight'
               PROVE  Max(delivered' \cup {0}) - p < ReorderingThreshold
    OBVIOUS
  <2>1. Max(delivered' \cup {0}) \in delivered' \cup {0}
    BY <1>1, <1>6, NewestEcho
  <2>2. CASE Max(delivered' \cup {0}) \in delivered'
    BY <2>2 DEF IInv, PacketThreshold
  <2>3. CASE Max(delivered' \cup {0}) = 0
    <3>1. p \in Nat
      BY <1>2, <1>4 DEF IInv, TypeOK, Packets
    <3> QED BY <2>3, <3>1
  <2> QED BY <2>1, <2>2, <2>3
<1>9. /\ lost \cap settled = {}
      /\ in_flight' = in_flight \ (settled \cup lost)
      /\ lost \subseteq in_flight
  BY <1>2, <1>4
<1>10. Ledger!LossesAreJustified(lost, in_flight')
  BY <1>7 DEF Ledger!LossesAreJustified
<1>11. /\ settled \in SUBSET in_flight /\ lost \in SUBSET in_flight
       /\ Ledger!Cardinality(settled) <= 1
  BY <1>2, <1>5, <1>9, LedgerCardinality
<1> HIDE DEF newest
<1>12. /\ pn \in in_flight => settled = {pn}
       /\ lost \cap settled = {}
       /\ in_flight' = in_flight \ (settled \cup lost)
       /\ Max(delivered' \cup {0}) = IF pn > newest THEN pn ELSE newest
       /\ Ledger!LossesAreJustified(lost, in_flight')
       /\ pn \in in_flight =>
            \A p \in in_flight' :
              Max(delivered' \cup {0}) - p < ReorderingThreshold
       /\ UNCHANGED largest_sent
  BY <1>1, <1>2, <1>6, <1>8, <1>9, <1>10
<1> QED BY <1>11, <1>12 DEF Ledger!Echo, newest

\* A lookup outside the deque settles nothing.
LEMMA OnPacketReceivedFaultIsEcho ==
  ASSUME IInv, NEW pn \in Packets, OnPacketReceivedFault(pn)
  PROVE  Ledger!Echo(pn)
<1>1. /\ pn < least_unacked
      /\ delivered' = delivered \cup {pn}
      /\ in_flight' = in_flight /\ largest_sent' = largest_sent
  BY DEF OnPacketReceivedFault, OutsideBlock, mapVars
<1>2. pn \notin in_flight
  <2>1. pn \in in_flight => least_unacked <= pn
    BY ScanStartsBelowFlight
  <2> QED BY <1>1, <2>1 DEF IInv, TypeOK, Packets
<1>3. /\ {} \in SUBSET in_flight
      /\ Ledger!Cardinality({}) <= 1
      /\ {} \cap {} = {}
      /\ in_flight' = in_flight \ ({} \cup {})
      /\ Ledger!LossesAreJustified({}, in_flight')
  BY <1>1, FS_EmptySet, LedgerCardinality DEF Ledger!LossesAreJustified
<1>4. Max(delivered' \cup {0}) = IF pn > Max(delivered \cup {0})
                                    THEN pn ELSE Max(delivered \cup {0})
  BY <1>1, NewestEchoMoves
<1> QED BY <1>1, <1>2, <1>3, <1>4 DEF Ledger!Echo

\* A loss timeout declares some packets lost or changes nothing.
LEMMA OnLossTimeoutDeclaresLost ==
  ASSUME IInv, NEW expired \in 0 .. MaxPacket, OnLossTimeout(expired)
  PROVE  Ledger!DeclareLost \/ UNCHANGED Ledger!ledgerVars
<1> DEFINE lost == LostOnTimeout(expired)
<1>1. /\ InvokeLossDetection(in_flight, None, expired)
      /\ largest_sent' = largest_sent
      /\ None \in 0 .. largest_sent
      /\ delivered' = delivered
      /\ None \notin in_flight
      /\ in_flight \subseteq in_flight
  BY DEF IInv, TypeOK, OnLossTimeout, Packets, None
<1>2. /\ Newest(None) = largest_newly_acked
      /\ lost = Found(in_flight, None, expired)
  BY DEF LostOnTimeout, Newest, Found
<1> HIDE DEF lost
<1>3. /\ in_flight' = in_flight \ lost
      /\ lost \subseteq in_flight
      /\ \A p \in lost : /\ p < largest_newly_acked
                         /\ \A q \in in_flight' : p < q
  BY <1>1, <1>2, DetectionIsSound
<1>4. Ledger!LossesAreJustified(lost, in_flight')
  <2>1. /\ \A p \in lost : p \in Nat
        /\ largest_newly_acked \in Nat
        /\ largest_newly_acked <= Max(delivered \cup {0})
        /\ Max(delivered \cup {0}) \in Nat
    <3>1. \A p \in in_flight : p \in Nat
      BY DEF IInv, TypeOK, Packets
    <3>2. /\ largest_newly_acked \in Nat
          /\ largest_newly_acked \in delivered \cup {0}
      BY DEF IInv, TypeOK, ScanIsBounded, None
    <3> QED BY <1>3, <3>1, <3>2, NewestEcho
  <2>2. \A p \in lost : p < Max(delivered \cup {0})
    BY <1>3, <2>1
  <2> QED BY <1>1, <1>3, <2>2 DEF Ledger!LossesAreJustified
<1>5. CASE lost = {}
  BY <1>1, <1>3, <1>5 DEF Ledger!ledgerVars
<1>6. CASE lost # {}
  <2>1. lost \in (SUBSET in_flight) \ {{}}
    BY <1>3, <1>6
  <2>2. UNCHANGED <<largest_sent, Max(delivered \cup {0})>>
    BY <1>1
  <2> QED BY <1>3, <1>4, <2>1, <2>2 DEF Ledger!DeclareLost
<1> QED BY <1>5, <1>6

\* Every behaviour of the manager, seen through the packets in flight and the
\* newest processed echo, is one of the ledger.
THEOREM ManagerImplementsLedger == Spec => ImplementsLedger
<1>1. Init => Ledger!Init
  <2> SUFFICES ASSUME Init
               PROVE  Ledger!Init
    OBVIOUS
  <2>1. IInv /\ delivered = {} /\ in_flight = {} /\ largest_sent = 0
    BY InitEstablishes DEF Init
  <2>2. Max(delivered \cup {0}) = 0
    BY <2>1, NewestEcho
  <2> QED BY <2>1, <2>2 DEF Ledger!Init
<1>2. ASSUME IInv, IInv', [Next]_vars
      PROVE  [Ledger!Next]_(Ledger!ledgerVars)
  <2>1. CASE SendPacket
    <3>1. Cardinality(in_flight) < Cwnd
      BY <1>2, <2>1 DEF IInv, FlightAccounting, SendPacket
    <3>2. Ledger!Cardinality(in_flight) < Cwnd
      BY <3>1, LedgerCardinality
    <3> QED BY <2>1, <3>2 DEF SendPacket, AddSentPacket, historyVars,
                               Ledger!Send, Ledger!Next
  <2>2. ASSUME NEW pn \in Packets, pn <= largest_sent, Ledger!Echo(pn)
        PROVE  Ledger!Next
    <3>1. pn \in 1 .. largest_sent
      BY <1>2, <2>2 DEF IInv, TypeOK, Packets
    <3> QED BY <2>2, <3>1 DEF Ledger!Next
  <2>3. CASE ReceiveEcho
    <3>1. PICK pn \in Packets :
            \/ \E expired \in 0 .. MaxPacket : OnPacketReceived(pn, expired)
            \/ OnPacketReceivedFault(pn)
      BY <2>3 DEF ReceiveEcho
    <3>2. pn <= largest_sent
      BY <3>1 DEF OnPacketReceived, OnPacketReceivedFault, EchoMayArrive
    <3>3. Ledger!Echo(pn)
      BY <1>2, <3>1, OnPacketReceivedIsEcho, OnPacketReceivedFaultIsEcho
    <3> QED BY <2>2, <3>2, <3>3
  <2>4. CASE \E expired \in 0 .. MaxPacket : OnLossTimeout(expired)
    BY <1>2, <2>4, OnLossTimeoutDeclaresLost DEF Ledger!Next
  <2>5. CASE OnRtoTimeout
    <3>1. in_flight' = {}
      BY <1>2, <2>5, OnRtoTimeoutAbandonsAll
    <3>2. delivered' = delivered /\ largest_sent' = largest_sent
      BY <2>5 DEF OnRtoTimeout, historyVars
    <3> QED BY <3>1, <3>2 DEF Ledger!GiveUp, Ledger!Next
  <2>6. CASE Undefined \/ UNCHANGED vars
    <3>1. UNCHANGED <<largest_sent, in_flight, delivered>>
      BY <2>6 DEF Undefined, vars, mapVars, historyVars
    <3> QED BY <3>1 DEF Ledger!ledgerVars
  <2> QED BY <1>2, <2>1, <2>3, <2>4, <2>5, <2>6 DEF Next, OnRetransmissionTimeout
<1>3. IInv /\ IInv' /\ [Next]_vars => [Ledger!Next]_(Ledger!ledgerVars)
  BY <1>2
<1> QED BY <1>1, <1>3, InductiveInvariant, PTL
        DEF Spec, ImplementsLedger, Ledger!Spec
=============================================================================
