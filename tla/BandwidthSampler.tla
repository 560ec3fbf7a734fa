-------------------------- MODULE BandwidthSampler --------------------------
(***************************************************************************)
(* BandwidthSampler with its PacketNumberIndexedQueue and its              *)
(* MaxAckHeightTracker, under the calls a BBR sender makes for what the    *)
(* sent packet manager reports.                                            *)
(*                                                                         *)
(* Of the manager only the packets in flight are kept: a packet leaves     *)
(* flight when its echo arrives, when it is declared lost with those sent  *)
(* before it, when the retransmission timeout gives all up, of which the   *)
(* sender is not told, or when the late echo of an older packet takes its  *)
(* record for its own.                                                     *)
(*                                                                         *)
(* Abstractions.  All datagrams have one size and consecutive numbers, so  *)
(* bytes are packets, total_bytes_sent_ is the number of the last packet   *)
(* and the queue has no holes.  Every event with an ack ends in            *)
(* OnAckEventEnd, so the bytes newly acked are those of the event.         *)
(* Overestimate avoidance is never enabled.  The bandwidth filter of the   *)
(* sender is the maximum so far: its window does not end in the model.     *)
(***************************************************************************)
EXTENDS Integers, FiniteSets, FiniteSetsExt, Functions

CONSTANTS
  MaxPacket,    \* packets the client sends (bounds the model)
  MaxAcked,     \* packets counted as acked, echoes of one packet included
  MaxTime,      \* clock ticks (bounds the model)
  Cwnd,         \* largest congestion window, in packets
  WindowLength, \* rounds the ack height filter looks back
  WordSize      \* 2^64, the range of QuicByteCount

ASSUME BoundsAssumption ==
  {MaxPacket, MaxAcked, MaxTime, Cwnd, WindowLength} \subseteq Nat \ {0}
ASSUME WordAssumption == WordSize \in Nat /\ WordSize > MaxAcked

VARIABLES
  now,
  last_sent_packet, \* last_sent_packet_ and total_bytes_sent_
  total_bytes_acked,
  total_bytes_lost,
  \* S_0 and A_0 of the packets to be sent
  total_bytes_sent_at_last_acked_packet,
  last_acked_packet_sent_time,
  last_acked_packet_ack_time,
  is_app_limited,
  end_of_app_limited_phase,
  connection_state_map,
  \* MaxAckHeightTracker
  aggregation_epoch_start_time,
  aggregation_epoch_bytes,
  max_ack_height_filter,
  \* the sender
  max_bandwidth,
  round_trip_count,
  end_of_round_trip,
  in_flight, \* of the unacked packet map
  \* history
  sent_at,       \* when each packet was sent
  sampled_since, \* packets sampled since OnAppLimited was last called
  orderly        \* every packet left flight by a report on it

slopeVars == <<total_bytes_sent_at_last_acked_packet,
               last_acked_packet_sent_time, last_acked_packet_ack_time>>
appLimitedVars == <<is_app_limited, end_of_app_limited_phase, sampled_since>>
heightVars == <<aggregation_epoch_start_time, aggregation_epoch_bytes,
                max_ack_height_filter>>
senderVars == <<max_bandwidth, round_trip_count, end_of_round_trip>>
vars == <<now, last_sent_packet, total_bytes_acked, total_bytes_lost,
          slopeVars, appLimitedVars, connection_state_map, heightVars,
          senderVars, in_flight, sent_at, orderly>>

Zero == 0 \* QuicTime::Zero()
None == 0 \* the uninitialized packet number

Filter == INSTANCE WindowedFilter
            WITH SampleValues <- 0 .. WordSize - 1, MaxTime <- MaxPacket,
                 estimates <- max_ack_height_filter, time <- round_trip_count,
                 last_update <- round_trip_count, recorded <- {}

Init ==
  /\ now = 1
  /\ last_sent_packet = None
  /\ total_bytes_acked = 0
  /\ total_bytes_lost = 0
  /\ total_bytes_sent_at_last_acked_packet = 0
  /\ last_acked_packet_sent_time = Zero
  /\ last_acked_packet_ack_time = Zero
  /\ is_app_limited = TRUE
  /\ end_of_app_limited_phase = None
  /\ connection_state_map = <<>>
  /\ aggregation_epoch_start_time = Zero
  /\ aggregation_epoch_bytes = 0
  /\ max_ack_height_filter = Filter!ResetTo(Filter!Sample(0, 0))
  /\ max_bandwidth = 0
  /\ round_trip_count = 0
  /\ end_of_round_trip = None
  /\ in_flight = {}
  /\ sent_at = <<>>
  /\ sampled_since = {}
  /\ orderly = TRUE

Tracked == DOMAIN connection_state_map
LeastUnacked == Min(in_flight \cup {last_sent_packet + 1})

----------------------------------------------------------------------------
(* Sending.                                                                *)

\* Faulty: the bytes of the packet are added after S_0 is taken.
StartOfTransmissionEarly(pn) ==
  /\ total_bytes_sent_at_last_acked_packet' = pn - 1
  /\ last_acked_packet_sent_time' = now
  /\ last_acked_packet_ack_time' = now

\* "If there are no packets in flight, the time at which the new transmission
\* opens can be treated as the A_0 point."
StartOfTransmission(pn) ==
  /\ total_bytes_sent_at_last_acked_packet' = pn
  /\ last_acked_packet_sent_time' = now
  /\ last_acked_packet_ack_time' = now

\* ConnectionStateOnSentPacket with its SendTimeState.
Snapshot(pn) ==
  [sent_time |-> now,
   total_bytes_sent_at_last_acked_packet |->
     total_bytes_sent_at_last_acked_packet',
   last_acked_packet_sent_time |-> last_acked_packet_sent_time',
   last_acked_packet_ack_time |-> last_acked_packet_ack_time',
   is_app_limited |-> is_app_limited,
   total_bytes_sent |-> pn,
   total_bytes_acked |-> total_bytes_acked,
   total_bytes_lost |-> total_bytes_lost,
   bytes_in_flight |-> Cardinality(in_flight) + 1]

\* Emplace at the end of the queue.
Emplace(pn, entry) ==
  [p \in Tracked \cup {pn} |-> IF p = pn THEN entry
                                         ELSE connection_state_map[p]]

OnPacketSent ==
  LET pn == last_sent_packet + 1
  IN  /\ Cardinality(in_flight) < Cwnd
      /\ pn <= MaxPacket
      /\ IF in_flight = {} THEN StartOfTransmission(pn)
                           ELSE UNCHANGED slopeVars
      /\ connection_state_map' = Emplace(pn, Snapshot(pn))
      /\ last_sent_packet' = pn
      /\ in_flight' = in_flight \cup {pn}
      /\ sent_at' = [p \in 1 .. pn |-> IF p = pn THEN now ELSE sent_at[p]]
      /\ UNCHANGED <<now, total_bytes_acked, total_bytes_lost, appLimitedVars,
                     heightVars, senderVars, orderly>>

----------------------------------------------------------------------------
(* Sampling.  Bandwidth is in packets per Scale ticks.                     *)

Scale == 12
Infinite == Scale * WordSize

Rate(packets, ticks) == (Scale * packets) \div ticks

Smaller(m, n) == IF m < n THEN m ELSE n
Larger(m, n) == IF m > n THEN m ELSE n

SendRate(entry) ==
  IF entry.sent_time > entry.last_acked_packet_sent_time
    THEN Rate(entry.total_bytes_sent
                - entry.total_bytes_sent_at_last_acked_packet,
              entry.sent_time - entry.last_acked_packet_sent_time)
    ELSE Infinite

AckRate(entry) ==
  Rate(total_bytes_acked + 1 - entry.total_bytes_acked,
       now - entry.last_acked_packet_ack_time)

\* The sample of one acked packet: zero if there is none to make.
SampleOf(entry) ==
  IF \/ entry.last_acked_packet_sent_time = Zero
     \/ now <= entry.last_acked_packet_ack_time
    THEN 0
    ELSE Smaller(SendRate(entry), AckRate(entry))

\* Faulty: the mark itself ends the phase.
EndsAppLimitedPhaseAtMark(pn) ==
  end_of_app_limited_phase = None \/ pn >= end_of_app_limited_phase

EndsAppLimitedPhase(pn) ==
  end_of_app_limited_phase = None \/ pn > end_of_app_limited_phase

\* OnPacketAcknowledgedInner, as far as it is not the sample.
OnPacketAcknowledged(pn, entry) ==
  /\ total_bytes_acked' = total_bytes_acked + 1
  /\ total_bytes_sent_at_last_acked_packet' = entry.total_bytes_sent
  /\ last_acked_packet_sent_time' = entry.sent_time
  /\ last_acked_packet_ack_time' = now

\* Faulty: the difference of two unsigned numbers taken for a signed one.
SignedExtraAcked(bandwidth) ==
  aggregation_epoch_bytes
    - (bandwidth * (now - aggregation_epoch_start_time)) \div Scale

\* extra_bytes_acked is unsigned.
ExtraAcked(bandwidth) ==
  (aggregation_epoch_bytes
     - (bandwidth * (now - aggregation_epoch_start_time)) \div Scale)
  % WordSize

\* MaxAckHeightTracker::Update.
UpdateAckHeight(bandwidth, newly_acked) ==
  IF aggregation_epoch_start_time = Zero
    THEN /\ aggregation_epoch_bytes' = newly_acked
         /\ aggregation_epoch_start_time' = now
         /\ UNCHANGED max_ack_height_filter
    ELSE /\ max_ack_height_filter' =
              Filter!Updated(max_ack_height_filter,
                             Filter!Sample(ExtraAcked(bandwidth),
                                           round_trip_count'))
         /\ UNCHANGED <<aggregation_epoch_bytes, aggregation_epoch_start_time>>

\* The sender's round counter, which has counted before it asks the sampler.
CountRound(pn) ==
  IF end_of_round_trip = None \/ pn > end_of_round_trip
    THEN /\ round_trip_count' = round_trip_count + 1
         /\ end_of_round_trip' = last_sent_packet
    ELSE UNCHANGED <<round_trip_count, end_of_round_trip>>

\* An acked packet the queue knows: its sample goes to the sender's filter and,
\* with the filter, to the ack height.
Sampled(pn, entry) ==
  LET bandwidth == Larger(max_bandwidth, SampleOf(entry))
  IN  /\ OnPacketAcknowledged(pn, entry)
      /\ max_bandwidth' = bandwidth
      /\ UpdateAckHeight(bandwidth, 1)

\* RTT probing makes BBRv1 call OnAppLimited at the end of the event.
AppLimited(acked, probing_rtt) ==
  IF probing_rtt
    THEN /\ is_app_limited' = TRUE
         /\ end_of_app_limited_phase' = last_sent_packet
         /\ sampled_since' = {}
    ELSE /\ is_app_limited' = (/\ is_app_limited
                               /\ \A pn \in acked : ~EndsAppLimitedPhase(pn))
         /\ sampled_since' = sampled_since \cup acked
         /\ UNCHANGED end_of_app_limited_phase

\* Faulty: the packet itself is removed as well.
RemoveThrough(pn) == Restrict(connection_state_map, {p \in Tracked : p > pn})

\* RemoveUpTo.
RemoveUpTo(pn) == Restrict(connection_state_map, {p \in Tracked : p >= pn})

----------------------------------------------------------------------------
(* Congestion events.                                                      *)

\* The packets in flight that losses up to `newest' take out.
LostUpTo(newest) == {p \in in_flight : p <= newest}

\* What the echo of pn takes out of flight: the packet; of a packet the map
\* has dropped, nothing or some later packet.
Settled(pn) ==
  IF pn \in in_flight THEN {{pn}}
  ELSE {{}} \cup {{p} : p \in {q \in in_flight : pn < LeastUnacked}}

\* An ack with the losses it uncovers.  The obsolete packets are those below
\* the front of the map, which is trimmed after the event.
OnAck(pn, settled, newest, probing_rtt) ==
  LET lost == LostUpTo(newest) \ settled
  IN  /\ newest < pn
      /\ CountRound(pn)
      /\ total_bytes_lost' = total_bytes_lost + Cardinality(lost)
      /\ IF pn \in Tracked
           THEN /\ total_bytes_acked < MaxAcked
                /\ Sampled(pn, connection_state_map[pn])
           ELSE UNCHANGED <<total_bytes_acked, slopeVars, max_bandwidth,
                            heightVars>>
      /\ AppLimited({pn} \cap Tracked, probing_rtt)
      /\ connection_state_map' = RemoveUpTo(LeastUnacked)
      /\ in_flight' = (in_flight \ settled) \ lost
      /\ orderly' = (orderly /\ pn \in in_flight)
      /\ UNCHANGED <<now, last_sent_packet, sent_at>>

\* Losses found by the timer: no ack, no sample.
OnLosses(newest, probing_rtt) ==
  /\ LostUpTo(newest) # {}
  /\ total_bytes_lost' = total_bytes_lost + Cardinality(LostUpTo(newest))
  /\ AppLimited({}, probing_rtt)
  /\ connection_state_map' = RemoveUpTo(LeastUnacked)
  /\ in_flight' = in_flight \ LostUpTo(newest)
  /\ UNCHANGED <<now, last_sent_packet, total_bytes_acked, slopeVars,
                 heightVars, senderVars, sent_at, orderly>>

\* RetransmitRtoPackets gives the flight up and tells nobody.
OnRetransmissionTimeout ==
  /\ in_flight # {}
  /\ in_flight' = {}
  /\ orderly' = FALSE
  /\ UNCHANGED <<now, last_sent_packet, total_bytes_acked, total_bytes_lost,
                 slopeVars, appLimitedVars, connection_state_map, heightVars,
                 senderVars, sent_at>>

\* The clock stops at MaxTime.
Tick ==
  /\ now' = Smaller(now + 1, MaxTime)
  /\ UNCHANGED <<last_sent_packet, total_bytes_acked, total_bytes_lost,
                 slopeVars, appLimitedVars, connection_state_map, heightVars,
                 senderVars, in_flight, sent_at, orderly>>

Next ==
  \/ OnPacketSent
  \/ \E pn \in 1 .. last_sent_packet :
       \E settled \in Settled(pn), newest \in 0 .. MaxPacket,
          probing_rtt \in BOOLEAN : OnAck(pn, settled, newest, probing_rtt)
  \/ \E newest \in 1 .. MaxPacket, probing_rtt \in BOOLEAN :
       OnLosses(newest, probing_rtt)
  \/ OnRetransmissionTimeout
  \/ Tick

Spec == Init /\ [][Next]_vars
----------------------------------------------------------------------------
(* Properties.                                                             *)

Entries ==
  [sent_time : 1 .. MaxTime,
   total_bytes_sent_at_last_acked_packet : 0 .. MaxPacket,
   last_acked_packet_sent_time : 0 .. MaxTime,
   last_acked_packet_ack_time : 0 .. MaxTime,
   is_app_limited : BOOLEAN,
   total_bytes_sent : 1 .. MaxPacket,
   total_bytes_acked : 0 .. MaxAcked,
   total_bytes_lost : 0 .. MaxPacket,
   bytes_in_flight : 1 .. Cwnd]

\* The variables hold values of their C++ types: unsigned counts within their
\* word, times that have been, a record for each tracked packet.
TypeOK ==
  /\ now \in 1 .. MaxTime
  /\ last_sent_packet \in 0 .. MaxPacket
  /\ total_bytes_acked \in 0 .. MaxAcked
  /\ total_bytes_lost \in 0 .. MaxPacket
  /\ total_bytes_sent_at_last_acked_packet \in 0 .. last_sent_packet
  /\ last_acked_packet_sent_time \in 0 .. now
  /\ last_acked_packet_ack_time \in 0 .. now
  /\ is_app_limited \in BOOLEAN
  /\ end_of_app_limited_phase \in 0 .. last_sent_packet
  /\ Tracked \subseteq 1 .. last_sent_packet
  /\ \A p \in Tracked : connection_state_map[p] \in Entries
  /\ aggregation_epoch_start_time \in 0 .. now
  /\ aggregation_epoch_bytes \in 0 .. MaxAcked
  /\ max_ack_height_filter \in [1 .. 3 -> [sample : 0 .. WordSize - 1,
                                           time : 0 .. round_trip_count]]
  /\ max_bandwidth \in 0 .. Infinite
  /\ round_trip_count \in 0 .. MaxPacket
  /\ end_of_round_trip \in 0 .. last_sent_packet
  /\ in_flight \subseteq 1 .. last_sent_packet
  /\ sent_at \in [1 .. last_sent_packet -> 1 .. now]
  /\ sampled_since \subseteq 1 .. last_sent_packet
  /\ orderly \in BOOLEAN

\* A packet's S_0 is a point of the curve of sent bytes (bandwidth_sampler.h:
\* 212-231): the bytes and the time belong to one packet, sent no later than it,
\* although late echoes move the last acked packet back and forth; the ack rate
\* starts before it was sent.  No subtraction of a slope can underflow.
SlopesStartOnTheCurves ==
  \A p \in Tracked :
    LET entry == connection_state_map[p]
        s0 == entry.total_bytes_sent_at_last_acked_packet
    IN  /\ s0 \in 1 .. p
        /\ entry.last_acked_packet_sent_time = sent_at[s0]
        /\ entry.last_acked_packet_ack_time \in sent_at[s0] .. sent_at[p]
        /\ entry.total_bytes_acked <= total_bytes_acked

\* "Once OnAppLimited() is called, all sent packets will produce app-limited
\* samples up until an ack for a packet that was sent after OnAppLimited() was
\* called" (bandwidth_sampler.h:280-282), the start of the connection included.
AppLimitedPhaseEndsWithItsAck ==
  is_app_limited <=> \A p \in sampled_since : p <= end_of_app_limited_phase

\* A packet in flight has its record, whatever was removed as obsolete and
\* however often: its ack can be sampled.
FlightIsTracked == in_flight \subseteq Tracked

\* "It should be equal to |total_bytes_sent| minus the sum of
\* |total_bytes_acked|, |total_bytes_lost|" (bandwidth_sampler.h:65-66): so it
\* is while every packet leaves flight by its own echo or by a reported loss.
InFlightIdentity ==
  orderly =>
    \A p \in Tracked :
      LET entry == connection_state_map[p]
      IN  entry.bytes_in_flight = entry.total_bytes_sent
                                    - entry.total_bytes_acked
                                    - entry.total_bytes_lost

\* The sampler has a record of every packet in flight, and their bytes in flight
\* add up.
FlightIsSampled == FlightIsTracked /\ InFlightIdentity

\* "Tracks the maximum number of bytes acked faster than the estimated
\* bandwidth" (bandwidth_sampler.h:114-115): it is not above the bytes acked.
AckHeightWasAcked == max_ack_height_filter[1].sample <= total_bytes_acked
=============================================================================
