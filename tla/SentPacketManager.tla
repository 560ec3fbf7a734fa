------------------------- MODULE SentPacketManager -------------------------
(***************************************************************************)
(* The sender's bookkeeping of packets: QuicSentPacketManager with the     *)
(* QuicUnackedPacketMap and the GeneralLossAlgorithm it owns, driven by    *)
(* the client's loop (SendPacket; ReceivePacket) over UDP.                 *)
(*                                                                         *)
(* The server echoes every datagram, so an ack frame carries exactly one   *)
(* packet number.  The path of a datagram and of its echo is one lossy,    *)
(* reordering and duplicating channel: an echo of any packet sent so far   *)
(* may arrive at any time; an echo that never arrives is a loss.           *)
(*                                                                         *)
(* Abstractions.  All datagrams have one size, so bytes are counted in     *)
(* packets.  Clocks are replaced by what they decide: `expired' is the     *)
(* newest packet whose time threshold has passed when losses are detected  *)
(* (send times grow with the packet number), and the loss timer is the     *)
(* packet whose deadline it holds.  The congestion controller is a bound   *)
(* on the packets in flight.                                               *)
(***************************************************************************)
EXTENDS Integers, FiniteSets, FiniteSetsExt

CONSTANTS
  MaxPacket,           \* packets the client sends (bounds the model)
  Cwnd,                \* largest congestion window, in packets
  ReorderingThreshold, \* kDefaultPacketReorderingThreshold
  MaxRtoCount,         \* consecutive_rto_count_ saturates here
  DuplicatedAcks       \* whether an echo may arrive more than once

ASSUME MaxPacketAssumption == MaxPacket \in Nat \ {0}
ASSUME CwndAssumption == Cwnd \in Nat \ {0}
ASSUME ThresholdAssumption == ReorderingThreshold \in Nat \ {0}
ASSUME MaxRtoAssumption == MaxRtoCount \in Nat
ASSUME DuplicatedAssumption == DuplicatedAcks \in BOOLEAN

Packets == 1 .. MaxPacket
None == 0   \* QuicTime::Zero() and the uninitialized packet number

VARIABLES
  \* QuicUnackedPacketMap
  state,             \* SentPacketState of each packet's record
  in_flight,         \* packets whose record has in_flight set
  packets_in_flight, \* bytes_in_flight_ and packets_in_flight_
  least_unacked,     \* the packet at index 0 of the deque
  largest_sent,
  \* the QuicheCircularDeque inside it
  begin, data_capacity,
  \* QuicSentPacketManager
  largest_newly_acked, consecutive_rto_count,
  \* GeneralLossAlgorithm
  least_in_flight, loss_timer,
  \* history and undefined behaviour
  delivered,         \* packets some echo of which was processed
  declared_lost,     \* packets some DetectLosses reported
  spurious,          \* packets reported to SpuriousLossDetected
  memory_fault       \* an access outside the deque's memory

mapVars == <<state, in_flight, packets_in_flight, least_unacked, largest_sent>>
dequeVars == <<begin, data_capacity>>
lossVars == <<least_in_flight, loss_timer>>
historyVars == <<delivered, declared_lost, spurious>>
vars == <<mapVars, dequeVars, largest_newly_acked, consecutive_rto_count,
          lossVars, historyVars, memory_fault>>

States == {"NEVER_SENT", "OUTSTANDING", "ACKED", "LOST"}

Init ==
  /\ state = [p \in Packets |-> "NEVER_SENT"]
  /\ in_flight = {}
  /\ packets_in_flight = 0
  /\ least_unacked = 1
  /\ largest_sent = 0
  /\ begin = 0
  /\ data_capacity = 0
  /\ largest_newly_acked = None
  /\ consecutive_rto_count = 0
  /\ least_in_flight = 1
  /\ loss_timer = None
  /\ delivered = {}
  /\ declared_lost = {}
  /\ spurious = {}
  /\ memory_fault = FALSE

----------------------------------------------------------------------------
(* The circular deque.                                                     *)

MinCapacityIncrement == 3

Size == largest_sent + 1 - least_unacked
Capacity == IF data_capacity = 0 THEN 0 ELSE data_capacity - 1

Larger(m, n) == IF m > n THEN m ELSE n

\* Faulty: the spare slot that tells a full deque from an empty one is used.
PushBackWithoutSpare ==
  IF data_capacity >= Size + 1
    THEN UNCHANGED dequeVars
    ELSE /\ data_capacity' = Larger(Size + 1, data_capacity + MinCapacityIncrement)
         /\ begin' = 0

\* push_back: a full deque is relocated to the start of a larger block.
PushBack ==
  IF Capacity >= Size + 1
    THEN UNCHANGED dequeVars
    ELSE /\ data_capacity' =
              1 + Larger(Size + 1,
                         Capacity + Larger(MinCapacityIncrement, Capacity \div 4))
         /\ begin' = 0

\* n calls of pop_front; the block never shrinks.
PopFront(n) ==
  /\ begin' = IF begin + n < data_capacity THEN begin + n
                                           ELSE begin + n - data_capacity
  /\ UNCHANGED data_capacity

\* at(pn - least_unacked_) for pn below least_unacked: the unsigned index
\* wraps around.  It lands in the block only when begin_ is large enough.
OutsideBlock(pn) == pn < least_unacked /\ least_unacked - pn > begin

\* The packet whose record at() returns: the slot of a popped packet holds
\* the live packet one block further on, if that one has been sent.
RecordAt(pn) ==
  IF pn < least_unacked /\ pn + data_capacity <= largest_sent
    THEN pn + data_capacity
    ELSE pn

----------------------------------------------------------------------------
(* The unacked packet map.                                                 *)

IsAckable(s) == s \notin {"NEVER_SENT", "ACKED"}

\* IsUnacked: in range and not useless.
IsUnacked(pn) ==
  /\ pn >= least_unacked
  /\ pn <= largest_sent
  /\ pn \in in_flight \/ IsAckable(state[pn])

\* AddSentPacket: packet numbers are consecutive, so no gap is filled.
AddSentPacket(pn) ==
  /\ largest_sent' = pn
  /\ in_flight' = in_flight \cup {pn}
  /\ state' = [state EXCEPT ![pn] = "OUTSTANDING"]
  /\ packets_in_flight' = packets_in_flight + 1
  /\ PushBack

\* Faulty: the front is popped before the deque is tested for being empty.
RemoveObsoletePacketsBeyondEnd ==
  LET useful == {p \in least_unacked .. largest_sent : p \in in_flight'}
  IN  /\ least_unacked' = Min(useful \cup {largest_sent + 2})
      /\ PopFront(least_unacked' - least_unacked)

\* RemoveObsoletePackets: useless records are popped from the front.
RemoveObsoletePackets ==
  LET useful == {p \in least_unacked .. largest_sent :
                    p \in in_flight' \/ IsAckable(state'[p])}
  IN  /\ least_unacked' = Min(useful \cup {largest_sent + 1})
      /\ PopFront(least_unacked' - least_unacked)

----------------------------------------------------------------------------
(* GeneralLossAlgorithm::DetectLosses, on the packets left in flight once  *)
(* the newly acked ones are handled.                                       *)

\* Faulty: the shortcut is taken for any newer packet.
NothingMissingFromAny(acked) == acked # None /\ acked >= least_in_flight

\* The single acked packet is the one detection would start from.
NothingMissing(acked) == acked # None /\ acked = least_in_flight

ScanStart ==
  IF least_unacked <= least_in_flight /\ least_in_flight <= largest_sent + 1
    THEN least_in_flight
    ELSE least_unacked

\* The packets the scan meets.
Scanned(flight, newest) == {p \in flight : ScanStart <= p /\ p <= newest}

\* Packet threshold, or time threshold.
IsLost(p, newest, expired) ==
  newest - p >= ReorderingThreshold \/ p <= expired

\* Both thresholds are met by a prefix of the scan, which stops at the first
\* packet that meets neither.
DetectedLost(flight, acked, newest, expired) ==
  IF NothingMissing(acked)
    THEN {}
    ELSE {p \in Scanned(flight, newest) : IsLost(p, newest, expired)}

NotYetLost(flight, acked, newest, expired) ==
  IF NothingMissing(acked)
    THEN {}
    ELSE Scanned(flight, newest)
            \ DetectedLost(flight, acked, newest, expired)

\* Faulty: the timer of an earlier scan is not cleared first.
InvokeLossDetectionKeepsTimer(flight, acked, expired) ==
  LET newest == IF acked # None THEN acked ELSE largest_newly_acked
      lost == DetectedLost(flight, acked, newest, expired)
      rest == NotYetLost(flight, acked, newest, expired)
  IN  /\ largest_newly_acked' = newest
      /\ loss_timer' = IF rest = {} THEN loss_timer ELSE Min(rest)
      /\ least_in_flight' = IF rest = {} THEN newest + 1 ELSE Min(rest)
      /\ declared_lost' = declared_lost \cup lost
      /\ in_flight' = flight \ lost

\* InvokeLossDetection: acked is the packet of the frame, or None.
InvokeLossDetection(flight, acked, expired) ==
  LET newest == IF acked # None THEN acked ELSE largest_newly_acked
      lost == DetectedLost(flight, acked, newest, expired)
      rest == NotYetLost(flight, acked, newest, expired)
  IN  /\ largest_newly_acked' = newest
      /\ loss_timer' = IF rest = {} THEN None ELSE Min(rest)
      /\ least_in_flight' = IF rest = {} THEN newest + 1 ELSE Min(rest)
      /\ declared_lost' = declared_lost \cup lost
      /\ in_flight' = flight \ lost

----------------------------------------------------------------------------
(* The client's steps.                                                     *)

\* Client::SendPacket with OnPacketSent.
SendPacket ==
  /\ ~memory_fault
  /\ packets_in_flight < Cwnd
  /\ largest_sent < MaxPacket
  /\ AddSentPacket(largest_sent + 1)
  /\ UNCHANGED <<least_unacked, largest_newly_acked, consecutive_rto_count,
                 lossVars, historyVars, memory_fault>>

EchoMayArrive(pn) ==
  /\ ~memory_fault
  /\ pn <= largest_sent
  /\ DuplicatedAcks \/ pn \notin delivered

\* The record MarkPacketHandled writes; a write outside the block that does
\* no harm touches none of them.
Handled(pn) == IF OutsideBlock(pn) THEN {} ELSE {RecordAt(pn)}

\* Faulty: RemoveFromInFlight does not look at in_flight first.
LeavesFlightUnchecked(pn) == Handled(pn)

\* RemoveFromInFlight counts a record out only once.
LeavesFlight(pn) == in_flight \cap Handled(pn)

\* The packets in flight once the acked one is handled.
FlightAfterAck(pn) == in_flight \ Handled(pn)

\* A packet is reported as spuriously lost if its state is LOST.
SpuriouslyLost(pn) == {p \in Handled(pn) : state[p] = "LOST"}

\* What the ack of pn has the congestion controller told: MaybeUpdateRTT's
\* result and the packets lost.
RttUpdated(pn) == IsUnacked(pn)
LostOnAck(pn, expired) ==
  DetectedLost(FlightAfterAck(pn), pn, pn, expired)

\* Client::OnPacketReceived: OnAckFrameStart, OnAckRange, OnAckFrameEnd.
OnPacketReceived(pn, expired) ==
  /\ EchoMayArrive(pn)
  /\ InvokeLossDetection(FlightAfterAck(pn), pn, expired)
  /\ state' = [p \in Packets |->
                 IF p \in LostOnAck(pn, expired) THEN "NEVER_SENT"
                 ELSE IF p \in Handled(pn) THEN "ACKED"
                 ELSE state[p]]
  /\ packets_in_flight' = packets_in_flight
                            - Cardinality(LeavesFlight(pn))
                            - Cardinality(LostOnAck(pn, expired))
  /\ RemoveObsoletePackets
  /\ consecutive_rto_count' = IF RttUpdated(pn) THEN 0
                                                ELSE consecutive_rto_count
  /\ delivered' = delivered \cup {pn}
  /\ spurious' = spurious \cup SpuriouslyLost(pn)
  /\ UNCHANGED <<largest_sent, memory_fault>>

\* The same ack when the access outside the block does harm: nothing is
\* known of the program after it.
OnPacketReceivedFault(pn) ==
  /\ EchoMayArrive(pn)
  /\ OutsideBlock(pn)
  /\ memory_fault' = TRUE
  /\ delivered' = delivered \cup {pn}
  /\ UNCHANGED <<mapVars, dequeVars, largest_newly_acked,
                 consecutive_rto_count, lossVars, declared_lost, spurious>>

HasInFlightPackets == packets_in_flight > 0

LostOnTimeout(expired) ==
  DetectedLost(in_flight, None, largest_newly_acked, expired)

\* OnRetransmissionTimeout in LOSS_MODE.  The client calls it once the
\* deadline of loss_timer has passed, or at once with nothing in flight.
OnLossTimeout(expired) ==
  /\ ~memory_fault
  /\ loss_timer # None
  /\ HasInFlightPackets => expired >= loss_timer
  /\ InvokeLossDetection(in_flight, None, expired)
  /\ state' = [p \in Packets |-> IF p \in LostOnTimeout(expired)
                                   THEN "NEVER_SENT" ELSE state[p]]
  /\ packets_in_flight' =
        packets_in_flight - Cardinality(LostOnTimeout(expired))
  /\ IF LostOnTimeout(expired) = {}
       THEN UNCHANGED <<least_unacked, dequeVars>>
       ELSE RemoveObsoletePackets
  /\ UNCHANGED <<largest_sent, consecutive_rto_count, delivered, spurious,
                 memory_fault>>

\* Faulty: the newest packet is not visited.
AbandonedButNewest == {p \in least_unacked .. largest_sent - 1 :
                          state[p] = "OUTSTANDING"}

\* Faulty: "mark two packets for retransmission", and no more.
AbandonedTwo == {p \in least_unacked .. largest_sent :
                    state[p] = "OUTSTANDING" /\ p < least_unacked + 2}

Abandoned == {p \in least_unacked .. largest_sent : state[p] = "OUTSTANDING"}

\* OnRetransmissionTimeout in RTO_MODE, RetransmitRtoPackets: every
\* outstanding packet is given up.  Nothing in flight counts as expired.
OnRtoTimeout ==
  /\ ~memory_fault
  /\ loss_timer = None
  /\ largest_sent > 0
  /\ state' = [p \in Packets |-> IF p \in Abandoned THEN "NEVER_SENT"
                                                     ELSE state[p]]
  /\ in_flight' = in_flight \ Abandoned
  /\ packets_in_flight' =
        packets_in_flight - Cardinality(in_flight \cap Abandoned)
  /\ RemoveObsoletePackets
  /\ consecutive_rto_count' = IF consecutive_rto_count < MaxRtoCount
                                THEN consecutive_rto_count + 1
                                ELSE consecutive_rto_count
  /\ UNCHANGED <<largest_sent, largest_newly_acked, lossVars, historyVars,
                 memory_fault>>

\* After an access outside the block nothing is modelled.
Undefined == memory_fault /\ UNCHANGED vars

OnRetransmissionTimeout ==
  \/ \E expired \in 0 .. MaxPacket : OnLossTimeout(expired)
  \/ OnRtoTimeout

ReceiveEcho ==
  \E pn \in Packets :
    \/ \E expired \in 0 .. MaxPacket : OnPacketReceived(pn, expired)
    \/ OnPacketReceivedFault(pn)

Next == SendPacket \/ ReceiveEcho \/ OnRetransmissionTimeout \/ Undefined

Spec == Init /\ [][Next]_vars

\* The client polls its timer in every turn of its loop that finds the
\* socket empty.
FairSpec == Spec /\ WF_vars(OnRetransmissionTimeout)
----------------------------------------------------------------------------
(* Properties.                                                             *)

\* The variables hold values of their C++ types: packet numbers in range,
\* counters that never wrap below zero, records and sets of sent packets.
TypeOK ==
  /\ state \in [Packets -> States]
  /\ in_flight \subseteq Packets
  /\ packets_in_flight \in 0 .. MaxPacket
  /\ largest_sent \in 0 .. MaxPacket
  /\ least_unacked \in 1 .. largest_sent + 1
  /\ begin \in Nat
  /\ data_capacity \in Nat
  /\ largest_newly_acked \in 0 .. MaxPacket
  /\ consecutive_rto_count \in 0 .. MaxRtoCount
  /\ least_in_flight \in 1 .. MaxPacket + 1
  /\ loss_timer \in 0 .. MaxPacket
  /\ delivered \subseteq Packets
  /\ declared_lost \subseteq Packets
  /\ spurious \subseteq Packets
  /\ memory_fault \in BOOLEAN

\* The counter the client's window check reads is the number of records that
\* are in flight, and those are the outstanding ones: no path decrements it
\* twice for one packet, even when a late echo reaches another's record.
FlightAccounting ==
  /\ packets_in_flight = Cardinality(in_flight)
  /\ in_flight = {p \in Packets : state[p] = "OUTSTANDING"}

\* Between the handlers the map starts at the oldest packet in flight or is
\* empty: every path that makes the front useless also pops it.
MapStartsInFlight == least_unacked = Min(in_flight \cup {largest_sent + 1})

\* The live records fit the block, so that no two of them share a slot and
\* begin_ is an index of the block.
DequeFits ==
  /\ Size <= Capacity
  /\ data_capacity > 0 => begin < data_capacity
  /\ largest_sent > 0 => data_capacity > 0

\* "Loss detection should start from this": no packet in flight is below
\* least_in_flight, where no later scan would look for it.
ScanMissesNothing == \A p \in in_flight : p >= least_in_flight

\* The loss timer holds the deadline of the oldest packet in flight, and of
\* one that a later packet has overtaken: it never outlives its packet.
LossTimerIsLive ==
  loss_timer # None =>
    /\ loss_timer \in in_flight
    /\ loss_timer = least_unacked
    /\ loss_timer = least_in_flight
    /\ loss_timer < largest_newly_acked

\* largest_newly_acked_ bounds every scan: it is a packet whose echo was
\* processed, never one that could itself be found lost, and the scan's start
\* is at most one past the packets sent.  A record never rests in LOST.
ScanIsBounded ==
  /\ largest_newly_acked \in delivered \cup {None}
  /\ largest_newly_acked \notin in_flight
  /\ in_flight \cup delivered \subseteq 1 .. largest_sent
  /\ least_in_flight <= largest_sent + 1
  /\ \A p \in Packets : state[p] # "LOST"

\* A packet still in flight has not been overtaken by an echo that is
\* ReorderingThreshold packets newer: the nack count alone detects it, in
\* whatever order the echoes come.
PacketThreshold ==
  \A p \in in_flight, q \in delivered : q - p < ReorderingThreshold

\* A packet whose echo was processed has left flight for good.
DeliveredLeavesFlight == in_flight \cap delivered = {}

\* The window check's counter is exact and holds no packet whose echo came.
FlightIsExact == FlightAccounting /\ DeliveredLeavesFlight

\* The map's records start at the front of the flight and fit its block.
MapIsConsistent == MapStartsInFlight /\ DequeFits

\* A scan begins below every packet in flight, ends below the packets sent, and
\* leaves none in flight that the nack count makes lost.
ScansAreSound == ScanMissesNothing /\ ScanIsBounded /\ PacketThreshold

\* Only a packet older than one whose echo was processed is declared lost.
LossNeedsNewerAck ==
  \A p \in declared_lost : \E q \in delivered : q > p

\* The conjunction that every step preserves.
IInv ==
  /\ TypeOK
  /\ FlightAccounting
  /\ MapStartsInFlight
  /\ DequeFits
  /\ ScanMissesNothing
  /\ LossTimerIsLive
  /\ ScanIsBounded
  /\ PacketThreshold
  /\ DeliveredLeavesFlight
  /\ LossNeedsNewerAck

\* A packet is declared lost at most once, and never after its own echo was
\* processed.
NoLossAfterAck ==
  [][\A p \in declared_lost' \ declared_lost :
        p \notin delivered' /\ p \in in_flight]_vars

\* The loss timeout is never in vain: whenever the timer's deadline has
\* passed, detection finds a loss, so polling cannot spin in LOSS_MODE.
LossTimeoutMakesProgress ==
  loss_timer # None =>
    \A expired \in loss_timer .. MaxPacket : LostOnTimeout(expired) # {}

\* The loss timer neither outlives its packet nor fires in vain.
LossTimerWorks == LossTimerIsLive /\ LossTimeoutMakesProgress

\* Every packet leaves flight in the end, acked, lost or given up, whatever
\* the network does: the window never stays closed.
PacketsLeaveFlight ==
  \A p \in Packets : (p \in in_flight) ~> (p \notin in_flight \/ memory_fault)

\* "QuicTransmissionInfo associated with |packet_number|, which must be
\* unacked": a record is marked acked only by an echo of its own packet.
AckedRecordsWereDelivered ==
  \A p \in Packets : state[p] = "ACKED" => p \in delivered

----------------------------------------------------------------------------
(* The promise this module keeps.                                          *)

Ledger == INSTANCE PacketLedger
            WITH sent <- largest_sent,
                 outstanding <- in_flight,
                 newest_acked <- Max(delivered \cup {0})

\* Every step of the manager, those that reach a wrong record included, is a
\* step of the ledger or changes nothing the ledger sees.
ImplementsLedger == Ledger!Spec
============================================================================
