----------------------- MODULE BandwidthSamplerProofs -----------------------
(***************************************************************************)
(* Proofs about BandwidthSampler, for any number of packets, any window    *)
(* and any width of the byte counts: every sample is the slope between     *)
(* points of the curves the header draws, every packet in flight has the   *)
(* record it needs, and the app-limited phase ends with its ack.           *)
(*                                                                         *)
(* What makes the properties inductive is that a record is of its packet:  *)
(* the point an ack makes S_0 is then a point of the curve again, although *)
(* late echoes move it back and forth.  The identity of the bytes in       *)
(* flight needs the flight itself to add up while no packet has left it    *)
(* unreported, and that needs every packet in flight to have its record.   *)
(***************************************************************************)
EXTENDS BandwidthSampler, FiniteSetTheorems, WellFoundedInduction, TLAPS

----------------------------------------------------------------------------
(* The inductive invariant.                                                *)

\* A record is of its packet, and its slopes start on the curves: `sent' and
\* `acked' stand for sent_at and total_bytes_acked.
IsRecordOf(entry, p, sent, acked) ==
  /\ entry \in Entries
  /\ entry.total_bytes_sent = p
  /\ entry.sent_time = sent[p]
  /\ entry.total_bytes_sent_at_last_acked_packet \in 1 .. p
  /\ entry.last_acked_packet_sent_time
       = sent[entry.total_bytes_sent_at_last_acked_packet]
  /\ entry.last_acked_packet_ack_time >= entry.last_acked_packet_sent_time
  /\ entry.last_acked_packet_ack_time <= entry.sent_time
  /\ entry.total_bytes_acked <= acked

\* So do those of the packet to be sent, once there has been one.
NextSlopeStartsOnTheCurves ==
  /\ total_bytes_sent_at_last_acked_packet \in 0 .. last_sent_packet
  /\ last_acked_packet_sent_time \in 0 .. now
  /\ last_acked_packet_ack_time \in 0 .. now
  /\ last_sent_packet > 0 =>
       /\ total_bytes_sent_at_last_acked_packet > 0
       /\ last_acked_packet_sent_time
            = sent_at[total_bytes_sent_at_last_acked_packet]
       /\ last_acked_packet_ack_time >= last_acked_packet_sent_time

Counted ==
  /\ now \in 1 .. MaxTime
  /\ last_sent_packet \in 0 .. MaxPacket
  /\ total_bytes_acked \in 0 .. MaxAcked
  /\ sent_at \in [1 .. last_sent_packet -> 1 .. now]

Recorded ==
  /\ Tracked \subseteq 1 .. last_sent_packet
  /\ \A p \in Tracked :
       IsRecordOf(connection_state_map[p], p, sent_at, total_bytes_acked)

SendingInv == Counted /\ NextSlopeStartsOnTheCurves /\ Recorded

\* Losses are of packets sent, and what was neither acked nor lost is in
\* flight while every packet leaves it by a report.
FlightAddsUp ==
  /\ total_bytes_lost \in Nat
  /\ total_bytes_lost + Cardinality(in_flight) <= last_sent_packet
  /\ orderly => Cardinality(in_flight)
                  = last_sent_packet - total_bytes_acked - total_bytes_lost

FlightInv ==
  /\ in_flight \subseteq 1 .. last_sent_packet
  /\ orderly \in BOOLEAN
  /\ FlightAddsUp
  /\ FlightIsSampled

AppLimitedInv ==
  /\ is_app_limited \in BOOLEAN
  /\ end_of_app_limited_phase \in 0 .. last_sent_packet
  /\ sampled_since \subseteq 1 .. last_sent_packet
  /\ AppLimitedPhaseEndsWithItsAck

\* A round needs a packet sent in it.
RoundsInv ==
  /\ round_trip_count \in Nat
  /\ round_trip_count <= end_of_round_trip
  /\ end_of_round_trip \in 0 .. last_sent_packet

Heights == [sample : 0 .. WordSize - 1, time : 0 .. round_trip_count]

RatesInv ==
  /\ max_bandwidth \in 0 .. Infinite
  /\ aggregation_epoch_start_time \in 0 .. now
  /\ aggregation_epoch_bytes \in 0 .. MaxAcked
  /\ max_ack_height_filter \in [1 .. 3 -> Heights]

IInv == SendingInv /\ FlightInv /\ AppLimitedInv /\ RoundsInv /\ RatesInv

----------------------------------------------------------------------------
(* Sets of packet numbers.                                                 *)

\* The bounds are positive numbers.
LEMMA BoundsArePositive ==
  /\ MaxPacket \in Nat \ {0} /\ MaxAcked \in Nat \ {0} /\ MaxTime \in Nat \ {0}
  /\ Cwnd \in Nat \ {0} /\ WordSize \in Nat /\ WordSize > MaxAcked
BY BoundsAssumption, WordAssumption

\* Min of a set of numbers is below all of them.
LEMMA MinIsLeast ==
  ASSUME NEW S \in SUBSET Nat, S # {}
  PROVE  Min(S) \in S /\ \A y \in S : Min(S) <= y
<1> DEFINE Below(x) == {k \in S : k <= x}
           Segments == {Below(x) : x \in S}
<1>1. Segments \in SUBSET FiniteSubsetsOf(S)
  <2> SUFFICES ASSUME NEW x \in S PROVE IsFiniteSet(Below(x))
    BY DEF FiniteSubsetsOf
  <2>1. x \in Nat /\ \A k \in Below(x) : k \in 0 .. x
    OBVIOUS
  <2>2. Below(x) \in SUBSET (0 .. x)
    BY ONLY <2>1
  <2>3. IsFiniteSet(0 .. x)
    BY <2>1, FS_Interval
  <2> QED
    BY <2>2, <2>3, FS_Subset
<1>2. Segments # {}
  OBVIOUS
<1>3. PICK U \in Segments :
        \A V \in Segments : <<V, U>> \notin StrictSubsetOrdering(S)
  BY <1>1, <1>2, FS_StrictSubsetOrderingWellFounded, WFMin
<1>4. PICK x \in S : U = Below(x)
  OBVIOUS
<1>5. \A y \in S : x <= y
  <2> SUFFICES ASSUME NEW y \in S, y < x PROVE FALSE
    OBVIOUS
  <2>1. x \in Nat /\ y \in Nat
    OBVIOUS
  <2>2. x \in Below(x) /\ x \notin Below(y) /\ \A k \in Below(y) : k \in Below(x)
    BY <2>1
  <2>3. <<Below(y), Below(x)>> \in StrictSubsetOrdering(S)
    BY <2>2 DEF StrictSubsetOrdering
  <2> QED
    BY <1>3, <1>4, <2>3
<1> QED
  BY <1>5 DEF Min

\* The packets in flight are finitely many, and taking some out counts them.
LEMMA FlightIsFinite ==
  ASSUME NEW n \in Nat, NEW S \in SUBSET (1 .. n)
  PROVE  /\ IsFiniteSet(S) /\ Cardinality(S) \in Nat
         /\ \A T \in SUBSET S :
              /\ Cardinality(T) \in Nat
              /\ Cardinality(S \ T) = Cardinality(S) - Cardinality(T)
<1>1. IsFiniteSet(S)
  <2>1. IsFiniteSet(1 .. n)
    BY FS_Interval
  <2> QED
    BY <2>1, FS_Subset
<1>2. ASSUME NEW T \in SUBSET S
      PROVE  /\ Cardinality(T) \in Nat
             /\ Cardinality(S \ T) = Cardinality(S) - Cardinality(T)
  <2>1. IsFiniteSet(T) /\ S \cap T = T
    BY <1>1, FS_Subset
  <2> QED
    BY <1>1, <2>1, FS_CardinalityType, FS_Difference
<1> QED
  BY <1>1, <1>2, FS_CardinalityType

\* The queue is not trimmed beyond a packet in flight.
LEMMA LeastIsBelowFlight ==
  ASSUME Counted, in_flight \subseteq 1 .. last_sent_packet, NEW p \in in_flight
  PROVE  LeastUnacked <= p
<1> DEFINE S == in_flight \cup {last_sent_packet + 1}
<1>1. last_sent_packet \in Nat
  BY BoundsArePositive DEF Counted
<1>2. S \in SUBSET Nat /\ S # {} /\ p \in S
  BY <1>1
<1> HIDE DEF S
<1>3. Min(S) <= p
  BY <1>2, MinIsLeast
<1> QED
  BY <1>3 DEF S, LeastUnacked

\* Trimming keeps the records of what it leaves.
LEMMA TrimmedRecords ==
  ASSUME NEW n
  PROVE  /\ DOMAIN RemoveUpTo(n) = {p \in Tracked : p >= n}
         /\ \A p \in {q \in Tracked : q >= n} :
              RemoveUpTo(n)[p] = connection_state_map[p]
BY DEF RemoveUpTo, Restrict

----------------------------------------------------------------------------
(* Rates.                                                                  *)

\* A quotient of numbers is a number not above the dividend.
LEMMA QuotientBound ==
  ASSUME NEW a \in Nat, NEW b \in Nat \ {0}
  PROVE  a \div b \in Nat /\ a \div b <= a
OBVIOUS

\* So the rates are, with no subtraction below zero, and the sample fits.
LEMMA SampleIsBounded ==
  ASSUME Counted, NEW p \in 1 .. last_sent_packet, NEW entry,
         IsRecordOf(entry, p, sent_at, total_bytes_acked),
         total_bytes_acked < MaxAcked
  PROVE  SampleOf(entry) \in 0 .. Infinite
<1>1. /\ now \in Nat /\ total_bytes_acked \in Nat /\ total_bytes_acked < MaxAcked
      /\ MaxAcked \in Nat /\ WordSize \in Nat /\ MaxAcked < WordSize
  BY BoundsArePositive DEF Counted
<1>2. /\ entry.sent_time \in Nat
      /\ entry.total_bytes_sent \in Nat
      /\ entry.total_bytes_sent_at_last_acked_packet \in Nat
      /\ entry.total_bytes_sent_at_last_acked_packet <= entry.total_bytes_sent
      /\ entry.last_acked_packet_sent_time \in Nat
      /\ entry.last_acked_packet_ack_time \in Nat
      /\ entry.total_bytes_acked \in Nat
      /\ entry.total_bytes_acked <= total_bytes_acked
  BY BoundsArePositive DEF IsRecordOf, Entries, Counted
<1>3. \A packets \in Nat, ticks \in Nat \ {0} :
        Rate(packets, ticks) \in Nat /\ Rate(packets, ticks) <= 12 * packets
  <2> TAKE packets \in Nat, ticks \in Nat \ {0}
  <2> DEFINE a == 12 * packets
  <2>1. a \in Nat
    OBVIOUS
  <2> HIDE DEF a
  <2>2. a \div ticks \in Nat /\ a \div ticks <= a
    BY <2>1, QuotientBound
  <2> QED
    BY <2>2 DEF a, Rate, Scale
<1>4. Infinite = 12 * WordSize /\ Infinite \in Nat
  BY <1>1 DEF Infinite, Scale
<1>5. SendRate(entry) \in Nat
  <2>1. entry.total_bytes_sent - entry.total_bytes_sent_at_last_acked_packet \in Nat
    BY <1>2
  <2>2. entry.sent_time > entry.last_acked_packet_sent_time =>
          entry.sent_time - entry.last_acked_packet_sent_time \in Nat \ {0}
    BY <1>2
  <2> QED
    BY <1>3, <1>4, <2>1, <2>2 DEF SendRate
<1>6. ASSUME now > entry.last_acked_packet_ack_time
      PROVE  AckRate(entry) \in 0 .. Infinite
  <2>1. /\ total_bytes_acked + 1 - entry.total_bytes_acked \in Nat
        /\ total_bytes_acked + 1 - entry.total_bytes_acked <= MaxAcked
    BY <1>1, <1>2
  <2>2. now - entry.last_acked_packet_ack_time \in Nat \ {0}
    BY <1>1, <1>2, <1>6
  <2> DEFINE packets == total_bytes_acked + 1 - entry.total_bytes_acked
             ticks == now - entry.last_acked_packet_ack_time
  <2>3. AckRate(entry) = Rate(packets, ticks)
    BY DEF AckRate
  <2>4. packets \in Nat /\ ticks \in Nat \ {0} /\ packets <= MaxAcked
    BY <2>1, <2>2
  <2> HIDE DEF packets, ticks
  <2> QED
    BY <1>1, <1>3, <1>4, <2>3, <2>4
<1>7. CASE \/ entry.last_acked_packet_sent_time = Zero
           \/ now <= entry.last_acked_packet_ack_time
  BY <1>4, <1>7 DEF SampleOf
<1>8. CASE ~ (\/ entry.last_acked_packet_sent_time = Zero
              \/ now <= entry.last_acked_packet_ack_time)
  <2>1. now > entry.last_acked_packet_ack_time
    BY <1>1, <1>2, <1>8
  <2>2. SampleOf(entry) = Smaller(SendRate(entry), AckRate(entry))
    BY <1>8 DEF SampleOf
  <2> QED
    BY <1>4, <1>5, <1>6, <2>1, <2>2 DEF Smaller
<1> QED
  BY <1>7, <1>8

\* The ack height is a number of its word, whatever it wraps around.
LEMMA HeightIsBounded ==
  ASSUME Counted, RatesInv, NEW bandwidth \in 0 .. Infinite
  PROVE  ExtraAcked(bandwidth) \in 0 .. WordSize - 1
<1>1. /\ now \in Int /\ aggregation_epoch_start_time \in Int
      /\ aggregation_epoch_bytes \in Int /\ WordSize \in Nat \ {0}
      /\ bandwidth \in Int
  BY BoundsArePositive DEF Counted, RatesInv, Infinite, Scale
<1> DEFINE product == bandwidth * (now - aggregation_epoch_start_time)
<1>2. product \in Int
  BY <1>1
<1> HIDE DEF product
<1>3. aggregation_epoch_bytes - product \div 12 \in Int
  BY <1>1, <1>2
<1>4. (aggregation_epoch_bytes - product \div 12) % WordSize \in 0 .. WordSize - 1
  BY <1>1, <1>3
<1> QED
  BY <1>4 DEF product, ExtraAcked, Scale

\* The filter is filled with its estimates and the new sample.
LEMMA FilterKeepsSamples ==
  ASSUME NEW S, NEW e \in [1 .. 3 -> S], NEW s \in S
  PROVE  Filter!Updated(e, s) \in [1 .. 3 -> S]
<1>1. \A x, y, z \in S : <<x, y, z>> \in [1 .. 3 -> S]
  OBVIOUS
<1>2. e[1] \in S /\ e[2] \in S /\ e[3] \in S
  OBVIOUS
<1>3. Filter!ResetTo(s) \in [1 .. 3 -> S]
  BY <1>1 DEF Filter!ResetTo
<1>4. Filter!Ranked(e, s) \in [1 .. 3 -> S]
  BY <1>1, <1>2 DEF Filter!Ranked
<1> DEFINE f == Filter!Ranked(e, s)
<1> HIDE DEF f
<1>5. f[1] \in S /\ f[2] \in S /\ f[3] \in S /\ f \in [1 .. 3 -> S]
  BY <1>4 DEF f
<1>6. Filter!Spread(f, s) \in [1 .. 3 -> S]
  BY <1>1, <1>5 DEF Filter!Spread
<1>7. Filter!PromotedTwice(f, s) \in [1 .. 3 -> S]
  <2> DEFINE g == Filter!Promoted(f, s)
  <2>1. g \in [1 .. 3 -> S]
    BY <1>1, <1>5 DEF Filter!Promoted
  <2> HIDE DEF g
  <2>2. <<g[2], g[3], g[3]>> \in [1 .. 3 -> S]
    BY <1>1, <2>1
  <2> QED
    BY <2>1, <2>2 DEF g, Filter!PromotedTwice
<1> QED
  BY <1>3, <1>6, <1>7 DEF f, Filter!Updated

----------------------------------------------------------------------------
(* What time and later packets leave alone.                                *)

\* A record stays one of its packet.
LEMMA RecordsStay ==
  ASSUME NEW p \in Nat, NEW entry, NEW sent, NEW sent2,
         \A q \in 1 .. p : sent2[q] = sent[q],
         NEW acked \in Nat, NEW acked2 \in Nat, acked <= acked2,
         p > 0, IsRecordOf(entry, p, sent, acked)
  PROVE  IsRecordOf(entry, p, sent2, acked2)
<1>1. entry.total_bytes_acked \in Nat
  BY BoundsArePositive DEF IsRecordOf, Entries
<1>2. p \in 1 .. p
  OBVIOUS
<1> QED
  BY <1>1, <1>2 DEF IsRecordOf

\* The phase is told by the packets, not by their number.
LEMMA AppLimitedStays ==
  ASSUME AppLimitedInv, UNCHANGED appLimitedVars,
         last_sent_packet \in Nat, last_sent_packet' \in Nat,
         last_sent_packet <= last_sent_packet'
  PROVE  AppLimitedInv'
BY DEF AppLimitedInv, appLimitedVars, AppLimitedPhaseEndsWithItsAck

\* No round is counted.
LEMMA RoundsStay ==
  ASSUME RoundsInv, UNCHANGED <<round_trip_count, end_of_round_trip>>,
         last_sent_packet \in Nat, last_sent_packet' \in Nat,
         last_sent_packet <= last_sent_packet'
  PROVE  RoundsInv'
BY DEF RoundsInv

\* No sample is taken.
LEMMA RatesStay ==
  ASSUME RatesInv, UNCHANGED heightVars, UNCHANGED max_bandwidth,
         UNCHANGED round_trip_count,
         now \in Nat, now' \in Nat, now <= now'
  PROVE  RatesInv'
BY DEF RatesInv, heightVars, Heights

\* The flight and its records are left alone.
LEMMA FlightStays ==
  ASSUME FlightInv,
         UNCHANGED <<last_sent_packet, in_flight, orderly, total_bytes_lost,
                     total_bytes_acked, connection_state_map>>
  PROVE  FlightInv'
BY DEF FlightInv, FlightAddsUp, FlightIsSampled, FlightIsTracked,
       InFlightIdentity, Tracked

----------------------------------------------------------------------------
(* Sending.                                                                *)

\* The slope of the next packet starts at the last acked packet or, with
\* nothing in flight, at this one.
LEMMA SentOpensSlope ==
  ASSUME IInv, OnPacketSent
  PROVE  Counted' /\ NextSlopeStartsOnTheCurves' /\ last_sent_packet' > 0
<1> DEFINE pn == last_sent_packet + 1
<1>1. /\ last_sent_packet \in Nat /\ now \in Nat /\ now >= 1
      /\ sent_at \in [1 .. last_sent_packet -> 1 .. now]
      /\ pn \in Nat /\ pn > 0
  BY BoundsArePositive DEF IInv, SendingInv, Counted
<1>2. /\ last_sent_packet' = pn /\ now' = now /\ pn <= MaxPacket
      /\ total_bytes_acked' = total_bytes_acked
      /\ sent_at' = [p \in 1 .. pn |-> IF p = pn THEN now ELSE sent_at[p]]
      /\ in_flight = {} => StartOfTransmission(pn)
      /\ in_flight # {} => UNCHANGED slopeVars
  BY DEF OnPacketSent
<1>3. /\ sent_at' \in [1 .. pn -> 1 .. now]
      /\ sent_at'[pn] = now
      /\ \A p \in 1 .. last_sent_packet : sent_at'[p] = sent_at[p]
  BY <1>1, <1>2
<1>4. Counted'
  BY <1>1, <1>2, <1>3 DEF IInv, SendingInv, Counted
<1>5. ASSUME in_flight = {} PROVE NextSlopeStartsOnTheCurves'
  BY <1>1, <1>2, <1>3, <1>5 DEF StartOfTransmission, NextSlopeStartsOnTheCurves
<1>6. ASSUME in_flight # {} PROVE NextSlopeStartsOnTheCurves'
  <2>1. last_sent_packet > 0
    <3>1. PICK p \in in_flight : p \in 1 .. last_sent_packet
      BY <1>6 DEF IInv, FlightInv
    <3> QED
      BY <1>1, <3>1
  <2>2. NextSlopeStartsOnTheCurves
    BY DEF IInv, SendingInv
  <2>3. /\ total_bytes_sent_at_last_acked_packet \in 1 .. last_sent_packet
        /\ UNCHANGED slopeVars
    BY <1>1, <1>2, <1>6, <2>1, <2>2 DEF NextSlopeStartsOnTheCurves
  <2> QED
    BY <1>1, <1>2, <1>3, <2>1, <2>2, <2>3
       DEF slopeVars, NextSlopeStartsOnTheCurves
<1> QED
  BY <1>1, <1>2, <1>4, <1>5, <1>6

\* The packet takes the slope, the counts and the flight with it.
LEMMA SnapshotIsRecord ==
  ASSUME IInv, OnPacketSent
  PROVE  IsRecordOf(Snapshot(last_sent_packet + 1), last_sent_packet + 1,
                    sent_at', total_bytes_acked)
<1> DEFINE pn == last_sent_packet + 1
           entry == Snapshot(pn)
<1>1. /\ last_sent_packet' = pn /\ now' = now /\ pn <= MaxPacket
      /\ Cardinality(in_flight) < Cwnd
      /\ sent_at' = [p \in 1 .. pn |-> IF p = pn THEN now ELSE sent_at[p]]
  BY DEF OnPacketSent
<1>2. Counted' /\ NextSlopeStartsOnTheCurves' /\ last_sent_packet' > 0
  BY SentOpensSlope
<1>3. /\ now \in 1 .. MaxTime /\ last_sent_packet \in Nat
      /\ total_bytes_acked \in 0 .. MaxAcked
      /\ is_app_limited \in BOOLEAN
  BY BoundsArePositive DEF IInv, SendingInv, Counted, AppLimitedInv
<1>4. /\ Cardinality(in_flight) \in Nat
      /\ total_bytes_lost \in 0 .. MaxPacket
  <2>1. Cardinality(in_flight) \in Nat
    BY <1>3, FlightIsFinite DEF IInv, FlightInv
  <2>2. /\ total_bytes_lost \in Nat
        /\ total_bytes_lost + Cardinality(in_flight) <= last_sent_packet
    BY DEF IInv, FlightInv, FlightAddsUp
  <2> QED
    BY <1>1, <1>3, <2>1, <2>2, BoundsArePositive
<1>5. /\ total_bytes_sent_at_last_acked_packet' \in 1 .. pn
      /\ last_acked_packet_sent_time' \in 0 .. now
      /\ last_acked_packet_ack_time' \in 0 .. now
      /\ last_acked_packet_sent_time'
           = sent_at'[total_bytes_sent_at_last_acked_packet']
      /\ last_acked_packet_ack_time' >= last_acked_packet_sent_time'
  BY <1>1, <1>2, <1>3 DEF NextSlopeStartsOnTheCurves
<1>6. sent_at'[pn] = now
  BY <1>1, <1>3
<1>7. /\ entry.sent_time = now
      /\ entry.total_bytes_sent_at_last_acked_packet
           = total_bytes_sent_at_last_acked_packet'
      /\ entry.last_acked_packet_sent_time = last_acked_packet_sent_time'
      /\ entry.last_acked_packet_ack_time = last_acked_packet_ack_time'
      /\ entry.total_bytes_sent = pn
      /\ entry.total_bytes_acked = total_bytes_acked
  BY DEF Snapshot
<1>8. /\ now \in 1 .. MaxTime
      /\ total_bytes_sent_at_last_acked_packet' \in 0 .. MaxPacket
      /\ last_acked_packet_sent_time' \in 0 .. MaxTime
      /\ last_acked_packet_ack_time' \in 0 .. MaxTime
      /\ pn \in 1 .. MaxPacket
      /\ Cardinality(in_flight) + 1 \in 1 .. Cwnd
  BY <1>1, <1>3, <1>4, <1>5, BoundsArePositive
<1>9. entry \in Entries
  BY <1>3, <1>4, <1>8 DEF Snapshot, Entries
<1> HIDE DEF entry
<1>10. entry.last_acked_packet_ack_time <= entry.sent_time
  BY <1>3, <1>5, <1>7
<1>11. entry.total_bytes_acked <= total_bytes_acked
  BY <1>3, <1>7
<1> QED
  BY <1>5, <1>6, <1>7, <1>9, <1>10, <1>11 DEF IsRecordOf, entry

\* The records before it stay.
LEMMA SentKeepsRecords ==
  ASSUME IInv, OnPacketSent
  PROVE  SendingInv'
<1> DEFINE pn == last_sent_packet + 1
           entry == Snapshot(pn)
<1>1. /\ last_sent_packet' = pn /\ total_bytes_acked' = total_bytes_acked
      /\ sent_at' = [p \in 1 .. pn |-> IF p = pn THEN now ELSE sent_at[p]]
      /\ connection_state_map' = Emplace(pn, entry)
  BY DEF OnPacketSent
<1>2. IsRecordOf(entry, pn, sent_at', total_bytes_acked)
  BY SnapshotIsRecord
<1> HIDE DEF entry
<1>3. /\ last_sent_packet \in Nat /\ total_bytes_acked \in Nat
      /\ Tracked \subseteq 1 .. last_sent_packet
      /\ \A p \in Tracked :
           IsRecordOf(connection_state_map[p], p, sent_at, total_bytes_acked)
  BY BoundsArePositive DEF IInv, SendingInv, Counted, Recorded
<1>4. /\ Tracked' = Tracked \cup {pn}
      /\ \A p \in Tracked \cup {pn} :
           connection_state_map'[p]
             = IF p = pn THEN entry ELSE connection_state_map[p]
  BY <1>1 DEF Emplace, Tracked
<1>5. ASSUME NEW p \in Tracked
      PROVE  IsRecordOf(connection_state_map[p], p, sent_at', total_bytes_acked)
  <2>1. p \in Nat /\ p > 0 /\ \A q \in 1 .. p : sent_at'[q] = sent_at[q]
    BY <1>1, <1>3
  <2>2. total_bytes_acked <= total_bytes_acked
    BY <1>3
  <2> QED
    BY <1>3, <2>1, <2>2, RecordsStay
<1>6. Recorded'
  <2>1. Tracked' \subseteq 1 .. pn
    <3>1. \A p \in Tracked \cup {pn} : p \in 1 .. pn
      BY <1>3
    <3> QED
      BY <1>4, <3>1
  <2>2. ASSUME NEW p \in Tracked'
        PROVE  IsRecordOf(connection_state_map'[p], p, sent_at', total_bytes_acked)
    BY <1>2, <1>4, <1>5
  <2> QED
    BY <1>1, <2>1, <2>2 DEF Recorded
<1> QED
  BY <1>6, SentOpensSlope DEF SendingInv

\* The flight grows by a packet that has its record.
LEMMA SentKeepsFlight ==
  ASSUME IInv, OnPacketSent
  PROVE  FlightInv'
<1> DEFINE pn == last_sent_packet + 1
           entry == Snapshot(pn)
<1>1. /\ last_sent_packet' = pn /\ total_bytes_acked' = total_bytes_acked
      /\ connection_state_map' = Emplace(pn, entry)
      /\ in_flight' = in_flight \cup {pn}
      /\ orderly' = orderly /\ total_bytes_lost' = total_bytes_lost
  BY DEF OnPacketSent
<1>2. /\ entry.bytes_in_flight = Cardinality(in_flight) + 1
      /\ entry.total_bytes_sent = pn
      /\ entry.total_bytes_acked = total_bytes_acked
      /\ entry.total_bytes_lost = total_bytes_lost
  BY DEF Snapshot
<1> HIDE DEF entry
<1>3. /\ last_sent_packet \in Nat /\ in_flight \subseteq 1 .. last_sent_packet
      /\ total_bytes_acked \in Nat /\ total_bytes_lost \in Nat
      /\ FlightAddsUp /\ FlightIsTracked /\ InFlightIdentity
      /\ orderly \in BOOLEAN
      /\ Tracked \subseteq 1 .. last_sent_packet
  BY BoundsArePositive DEF IInv, SendingInv, Counted, Recorded, FlightInv,
     FlightAddsUp, FlightIsSampled
<1>4. /\ Cardinality(in_flight) \in Nat
      /\ Cardinality(in_flight') = Cardinality(in_flight) + 1
  <2>1. IsFiniteSet(in_flight) /\ Cardinality(in_flight) \in Nat
    BY <1>3, FlightIsFinite
  <2>2. pn \notin in_flight
    BY <1>3
  <2> QED
    BY <1>1, <2>1, <2>2, FS_AddElement
<1>5. /\ Tracked' = Tracked \cup {pn}
      /\ \A p \in Tracked \cup {pn} :
           connection_state_map'[p]
             = IF p = pn THEN entry ELSE connection_state_map[p]
  BY <1>1 DEF Emplace, Tracked
<1>6. FlightAddsUp'
  BY <1>1, <1>3, <1>4 DEF FlightAddsUp
<1>7. FlightIsTracked'
  BY <1>1, <1>3, <1>5 DEF FlightIsTracked
<1>8. InFlightIdentity'
  <2> SUFFICES ASSUME orderly, NEW p \in Tracked'
               PROVE  connection_state_map'[p].bytes_in_flight
                        = connection_state_map'[p].total_bytes_sent
                            - connection_state_map'[p].total_bytes_acked
                            - connection_state_map'[p].total_bytes_lost
    BY <1>1 DEF InFlightIdentity
  <2>1. CASE p = pn
    <3>1. connection_state_map'[p] = entry
      BY <1>5, <2>1
    <3>2. Cardinality(in_flight)
            = last_sent_packet - total_bytes_acked - total_bytes_lost
      BY <1>3 DEF FlightAddsUp
    <3> QED
      BY <1>2, <1>3, <1>4, <3>1, <3>2
  <2>2. CASE p # pn
    <3>1. p \in Tracked /\ connection_state_map'[p] = connection_state_map[p]
      BY <1>5, <2>2
    <3> QED
      BY <1>3, <3>1 DEF InFlightIdentity
  <2> QED
    BY <2>1, <2>2
<1>9. in_flight' \subseteq 1 .. last_sent_packet' /\ orderly' \in BOOLEAN
  BY <1>1, <1>3
<1> QED
  BY <1>6, <1>7, <1>8, <1>9 DEF FlightInv, FlightIsSampled

\* OnPacketSent.
LEMMA OnPacketSentKeeps == ASSUME IInv, OnPacketSent PROVE IInv'
<1>1. /\ last_sent_packet \in Nat /\ last_sent_packet' \in Nat
      /\ last_sent_packet <= last_sent_packet' /\ now \in Nat
      /\ now' = now /\ now <= now
  BY BoundsArePositive DEF OnPacketSent, IInv, SendingInv, Counted
<1>2. /\ UNCHANGED appLimitedVars /\ UNCHANGED heightVars
      /\ UNCHANGED <<round_trip_count, end_of_round_trip>>
      /\ UNCHANGED max_bandwidth /\ UNCHANGED round_trip_count
  BY DEF OnPacketSent, senderVars
<1>3. AppLimitedInv' /\ RoundsInv' /\ RatesInv'
  BY <1>1, <1>2, AppLimitedStays, RoundsStay, RatesStay DEF IInv
<1> QED
  BY <1>3, SentKeepsRecords, SentKeepsFlight DEF IInv

----------------------------------------------------------------------------
(* Congestion events.                                                      *)

\* Records that are not trimmed stay those of their packets.
LEMMA TrimKeepsRecords ==
  ASSUME Counted, Recorded, NEW n, connection_state_map' = RemoveUpTo(n),
         last_sent_packet' = last_sent_packet, sent_at' = sent_at,
         total_bytes_acked' \in Nat, total_bytes_acked <= total_bytes_acked'
  PROVE  Recorded'
<1>1. /\ last_sent_packet \in Nat /\ total_bytes_acked \in Nat
      /\ Tracked \subseteq 1 .. last_sent_packet
      /\ \A p \in Tracked :
           IsRecordOf(connection_state_map[p], p, sent_at, total_bytes_acked)
  BY BoundsArePositive DEF Counted, Recorded
<1>2. /\ Tracked' = {p \in Tracked : p >= n}
      /\ \A p \in Tracked' : connection_state_map'[p] = connection_state_map[p]
  BY TrimmedRecords DEF Tracked
<1>3. ASSUME NEW p \in Tracked'
      PROVE  IsRecordOf(connection_state_map'[p], p, sent_at', total_bytes_acked')
  <2>1. p \in Tracked /\ p \in Nat /\ p > 0
    BY <1>1, <1>2
  <2>2. connection_state_map'[p] = connection_state_map[p]
    BY <1>2
  <2>3. \A q \in 1 .. p : sent_at'[q] = sent_at[q]
    OBVIOUS
  <2>4. IsRecordOf(connection_state_map[p], p, sent_at', total_bytes_acked')
    BY <1>1, <2>1, <2>3, RecordsStay
  <2> QED
    BY <2>2, <2>4
<1>4. Tracked' \subseteq 1 .. last_sent_packet'
  BY <1>1, <1>2
<1> QED
  BY <1>3, <1>4 DEF Recorded

\* Packets that stay in flight stay tracked.
LEMMA TrimKeepsFlight ==
  ASSUME IInv, connection_state_map' = RemoveUpTo(LeastUnacked),
         in_flight' \subseteq in_flight, orderly' => orderly
  PROVE  FlightIsSampled'
<1>1. /\ Counted /\ in_flight \subseteq 1 .. last_sent_packet
      /\ in_flight \subseteq Tracked /\ InFlightIdentity
  BY DEF IInv, SendingInv, FlightInv, FlightIsSampled, FlightIsTracked
<1>2. /\ Tracked' = {p \in Tracked : p >= LeastUnacked}
      /\ \A p \in Tracked' : connection_state_map'[p] = connection_state_map[p]
  BY TrimmedRecords DEF Tracked
<1>3. ASSUME NEW p \in in_flight' PROVE p \in Tracked'
  <2>1. p \in in_flight /\ p \in Tracked /\ p \in 1 .. last_sent_packet
    BY <1>1
  <2>2. LeastUnacked <= p
    BY <1>1, <2>1, LeastIsBelowFlight
  <2> QED
    BY <1>2, <2>1, <2>2
<1>4. InFlightIdentity'
  BY <1>1, <1>2 DEF InFlightIdentity
<1> QED
  BY <1>3, <1>4 DEF FlightIsSampled, FlightIsTracked

\* OnAppLimited, or the ack that ends the phase.
LEMMA AppLimitedKeeps ==
  ASSUME AppLimitedInv, last_sent_packet \in Nat,
         last_sent_packet' = last_sent_packet,
         NEW acked \in SUBSET (1 .. last_sent_packet), NEW probing_rtt \in BOOLEAN,
         AppLimited(acked, probing_rtt)
  PROVE  AppLimitedInv'
<1>1. /\ end_of_app_limited_phase \in Nat
      /\ end_of_app_limited_phase \in 0 .. last_sent_packet
      /\ sampled_since \subseteq 1 .. last_sent_packet
      /\ is_app_limited \in BOOLEAN
      /\ is_app_limited <=> \A p \in sampled_since : p <= end_of_app_limited_phase
  BY DEF AppLimitedInv, AppLimitedPhaseEndsWithItsAck
<1>2. CASE probing_rtt
  BY <1>2 DEF AppLimited, AppLimitedInv, AppLimitedPhaseEndsWithItsAck
<1>3. CASE ~probing_rtt
  <2>1. /\ is_app_limited' = (is_app_limited /\ \A p \in acked : ~EndsAppLimitedPhase(p))
        /\ sampled_since' = sampled_since \cup acked
        /\ end_of_app_limited_phase' = end_of_app_limited_phase
    BY <1>3 DEF AppLimited
  <2>2. \A p \in acked : ~EndsAppLimitedPhase(p) <=> p <= end_of_app_limited_phase
    <3> TAKE p \in acked
    <3>1. p \in Nat /\ p >= 1
      OBVIOUS
    <3> QED
      BY <1>1, <3>1 DEF EndsAppLimitedPhase, None
  <2>3. is_app_limited'
          <=> \A p \in sampled_since' : p <= end_of_app_limited_phase'
    BY <1>1, <2>1, <2>2
  <2>4. is_app_limited' \in BOOLEAN
    BY <2>1
  <2> QED
    BY <1>1, <2>1, <2>3, <2>4 DEF AppLimitedInv, AppLimitedPhaseEndsWithItsAck
<1> QED
  BY <1>2, <1>3

\* A new round ends with the last packet sent.
LEMMA CountRoundKeeps ==
  ASSUME RoundsInv, last_sent_packet \in Nat, last_sent_packet' = last_sent_packet,
         NEW pn \in 1 .. last_sent_packet, CountRound(pn)
  PROVE  RoundsInv' /\ round_trip_count <= round_trip_count'
BY DEF RoundsInv, CountRound, None

\* The sample of an acked packet fits the sender's filter, the ack height its
\* word.
LEMMA SampledKeepsRates ==
  ASSUME IInv, NEW pn \in Tracked, Sampled(pn, connection_state_map[pn]),
         total_bytes_acked < MaxAcked, now' = now,
         round_trip_count' \in Nat, round_trip_count <= round_trip_count'
  PROVE  RatesInv'
<1> DEFINE entry == connection_state_map[pn]
           bandwidth == Larger(max_bandwidth, SampleOf(entry))
           S == [sample : 0 .. WordSize - 1, time : 0 .. round_trip_count']
           s == Filter!Sample(ExtraAcked(bandwidth), round_trip_count')
<1>1. /\ Counted /\ RatesInv /\ pn \in 1 .. last_sent_packet
      /\ IsRecordOf(entry, pn, sent_at, total_bytes_acked)
      /\ round_trip_count \in Nat
  BY DEF IInv, SendingInv, Recorded, RoundsInv
<1>2. max_bandwidth' = bandwidth /\ UpdateAckHeight(bandwidth, 1)
  BY DEF Sampled
<1> HIDE DEF entry
<1>3. SampleOf(entry) \in 0 .. Infinite
  BY <1>1, SampleIsBounded
<1>4. bandwidth \in 0 .. Infinite
  BY <1>1, <1>3 DEF RatesInv, Larger
<1> HIDE DEF bandwidth
<1>5. max_ack_height_filter \in [1 .. 3 -> S]
  <2>1. Heights \subseteq S
    BY <1>1 DEF Heights
  <2> QED
    BY <1>1, <2>1 DEF RatesInv
<1>6. s \in S
  <2>1. ExtraAcked(bandwidth) \in 0 .. WordSize - 1
    BY <1>1, <1>4, HeightIsBounded
  <2>2. round_trip_count' \in 0 .. round_trip_count'
    OBVIOUS
  <2> QED
    BY <2>1, <2>2 DEF Filter!Sample
<1> HIDE DEF S
<1>7. /\ aggregation_epoch_start_time' \in 0 .. now
      /\ aggregation_epoch_bytes' \in 0 .. MaxAcked
      /\ max_ack_height_filter' \in [1 .. 3 -> S]
  <2>1. CASE aggregation_epoch_start_time = Zero
    <3>1. /\ aggregation_epoch_bytes' = 1
          /\ aggregation_epoch_start_time' = now
          /\ max_ack_height_filter' = max_ack_height_filter
      BY <1>2, <2>1 DEF UpdateAckHeight
    <3>2. now \in 0 .. now /\ 1 \in 0 .. MaxAcked
      BY <1>1, BoundsArePositive DEF Counted
    <3> QED
      BY <1>5, <3>1, <3>2
  <2>2. CASE aggregation_epoch_start_time # Zero
    <3>1. /\ aggregation_epoch_bytes' = aggregation_epoch_bytes
          /\ aggregation_epoch_start_time' = aggregation_epoch_start_time
          /\ max_ack_height_filter' = Filter!Updated(max_ack_height_filter, s)
      BY <1>2, <2>2 DEF UpdateAckHeight
    <3> HIDE DEF s
    <3>2. Filter!Updated(max_ack_height_filter, s) \in [1 .. 3 -> S]
      BY <1>5, <1>6, FilterKeepsSamples
    <3> QED
      BY <1>1, <3>1, <3>2 DEF RatesInv
  <2> QED
    BY <2>1, <2>2
<1>8. Heights' = S
  BY DEF Heights, S
<1> QED
  BY <1>2, <1>4, <1>7, <1>8 DEF RatesInv

\* The acked packet is where the slope of the next packet starts.
LEMMA SampledKeepsSlope ==
  ASSUME IInv, NEW pn \in Tracked, Sampled(pn, connection_state_map[pn]),
         total_bytes_acked < MaxAcked,
         UNCHANGED <<now, last_sent_packet, sent_at>>
  PROVE  Counted' /\ NextSlopeStartsOnTheCurves'
<1> DEFINE entry == connection_state_map[pn]
<1>1. /\ Counted /\ pn \in 1 .. last_sent_packet
      /\ IsRecordOf(entry, pn, sent_at, total_bytes_acked)
      /\ last_sent_packet \in Nat /\ now \in Nat
      /\ total_bytes_acked \in Nat /\ MaxAcked \in Nat
      /\ sent_at \in [1 .. last_sent_packet -> 1 .. now]
  BY BoundsArePositive DEF IInv, SendingInv, Recorded, Counted
<1>2. /\ total_bytes_acked' = total_bytes_acked + 1
      /\ total_bytes_sent_at_last_acked_packet' = entry.total_bytes_sent
      /\ last_acked_packet_sent_time' = entry.sent_time
      /\ last_acked_packet_ack_time' = now
  BY DEF Sampled, OnPacketAcknowledged
<1>3. entry.total_bytes_sent = pn /\ entry.sent_time = sent_at[pn]
  BY <1>1 DEF IsRecordOf
<1>4. sent_at[pn] \in 1 .. now
  BY <1>1
<1>5. Counted'
  BY <1>1, <1>2 DEF Counted
<1>6. NextSlopeStartsOnTheCurves'
  BY <1>1, <1>2, <1>3, <1>4 DEF NextSlopeStartsOnTheCurves
<1> QED
  BY <1>5, <1>6

\* What an ack takes out of flight was in it, and what it declares lost is the
\* rest up to the newest.
LEMMA AckTakesFromFlight ==
  ASSUME IInv, NEW pn \in 1 .. last_sent_packet, NEW settled \in Settled(pn),
         NEW newest \in 0 .. MaxPacket, NEW probing_rtt \in BOOLEAN,
         OnAck(pn, settled, newest, probing_rtt)
  PROVE  /\ in_flight' \subseteq in_flight
         /\ FlightAddsUp'
<1> DEFINE lost == LostUpTo(newest) \ settled
           rest == in_flight \ settled
<1>1. /\ last_sent_packet \in Nat /\ in_flight \subseteq 1 .. last_sent_packet
      /\ in_flight \subseteq Tracked /\ FlightAddsUp
      /\ total_bytes_acked \in Nat
  BY BoundsArePositive DEF IInv, SendingInv, Counted, FlightInv,
     FlightIsSampled, FlightIsTracked
<1>2. /\ total_bytes_lost' = total_bytes_lost + Cardinality(lost)
      /\ in_flight' = rest \ lost
      /\ orderly' = (orderly /\ pn \in in_flight)
      /\ last_sent_packet' = last_sent_packet
      /\ pn \in Tracked => total_bytes_acked' = total_bytes_acked + 1
  BY DEF OnAck, Sampled, OnPacketAcknowledged
<1>3. settled \in SUBSET in_flight /\ (pn \in in_flight => settled = {pn})
  BY DEF Settled
<1>4. lost \in SUBSET rest /\ rest \in SUBSET (1 .. last_sent_packet)
  BY <1>1 DEF LostUpTo
<1> HIDE DEF lost, rest
<1>5. /\ Cardinality(rest) = Cardinality(in_flight) - Cardinality(settled)
      /\ Cardinality(settled) \in Nat /\ Cardinality(in_flight) \in Nat
  BY <1>1, <1>3, FlightIsFinite DEF rest
<1>6. /\ Cardinality(in_flight') = Cardinality(rest) - Cardinality(lost)
      /\ Cardinality(lost) \in Nat /\ Cardinality(rest) \in Nat
  BY <1>1, <1>2, <1>4, FlightIsFinite
<1>7. pn \in in_flight => Cardinality(settled) = 1
  BY <1>3, FS_Singleton
<1>8. /\ total_bytes_lost \in Nat
      /\ total_bytes_lost + Cardinality(in_flight) <= last_sent_packet
      /\ orderly => Cardinality(in_flight)
                      = last_sent_packet - total_bytes_acked - total_bytes_lost
  BY <1>1 DEF FlightAddsUp
<1>9. /\ total_bytes_lost' \in Nat
      /\ total_bytes_lost' + Cardinality(in_flight') <= last_sent_packet'
  BY <1>1, <1>2, <1>5, <1>6, <1>8
<1>10. ASSUME orderly'
       PROVE  Cardinality(in_flight')
                = last_sent_packet' - total_bytes_acked' - total_bytes_lost'
  <2>1. orderly /\ pn \in in_flight /\ pn \in Tracked
    BY <1>1, <1>2, <1>10
  <2> QED
    BY <1>1, <1>2, <1>5, <1>6, <1>7, <1>8, <2>1
<1>11. in_flight' \subseteq in_flight
  BY <1>2 DEF rest
<1> QED
  BY <1>9, <1>10, <1>11 DEF FlightAddsUp

\* OnAck.
LEMMA OnAckKeeps ==
  ASSUME IInv, NEW pn \in 1 .. last_sent_packet, NEW settled \in Settled(pn),
         NEW newest \in 0 .. MaxPacket, NEW probing_rtt \in BOOLEAN,
         OnAck(pn, settled, newest, probing_rtt)
  PROVE  IInv'
<1>1. /\ UNCHANGED <<now, last_sent_packet, sent_at>>
      /\ CountRound(pn) /\ AppLimited({pn} \cap Tracked, probing_rtt)
      /\ connection_state_map' = RemoveUpTo(LeastUnacked)
      /\ orderly' = (orderly /\ pn \in in_flight)
      /\ pn \in Tracked => /\ total_bytes_acked < MaxAcked
                           /\ Sampled(pn, connection_state_map[pn])
      /\ pn \notin Tracked => UNCHANGED <<total_bytes_acked, slopeVars,
                                          max_bandwidth, heightVars>>
  BY DEF OnAck
<1>2. /\ last_sent_packet \in Nat /\ now \in Nat /\ total_bytes_acked \in Nat
      /\ Counted /\ Recorded /\ NextSlopeStartsOnTheCurves
      /\ RoundsInv /\ RatesInv /\ AppLimitedInv
      /\ round_trip_count \in Nat
  BY BoundsArePositive DEF IInv, SendingInv, Counted, RoundsInv
<1>3. RoundsInv' /\ round_trip_count <= round_trip_count' /\ round_trip_count' \in Nat
  BY <1>1, <1>2, CountRoundKeeps DEF RoundsInv
<1>4. AppLimitedInv'
  <2>1. {pn} \cap Tracked \in SUBSET (1 .. last_sent_packet)
    OBVIOUS
  <2> QED
    BY <1>1, <1>2, <2>1, AppLimitedKeeps
<1>5. /\ Counted' /\ NextSlopeStartsOnTheCurves' /\ RatesInv'
      /\ total_bytes_acked' \in Nat /\ total_bytes_acked <= total_bytes_acked'
  <2>1. CASE pn \in Tracked
    <3>1. Counted' /\ NextSlopeStartsOnTheCurves'
      BY <1>1, <2>1, SampledKeepsSlope
    <3>2. RatesInv'
      BY <1>1, <1>3, <2>1, SampledKeepsRates
    <3>3. total_bytes_acked' = total_bytes_acked + 1
      BY <1>1, <2>1 DEF Sampled, OnPacketAcknowledged
    <3> QED
      BY <1>2, <3>1, <3>2, <3>3
  <2>2. CASE pn \notin Tracked
    <3>1. UNCHANGED <<total_bytes_acked, slopeVars, max_bandwidth, heightVars>>
      BY <1>1, <2>2
    <3>2. Counted' /\ NextSlopeStartsOnTheCurves'
      BY <1>1, <1>2, <3>1 DEF Counted, NextSlopeStartsOnTheCurves, slopeVars
    <3>3. RatesInv'
      BY <1>1, <1>2, <1>3, <3>1 DEF RatesInv, Heights, heightVars
    <3> QED
      BY <1>2, <3>1, <3>2, <3>3
  <2> QED
    BY <2>1, <2>2
<1>6. Recorded'
  BY <1>1, <1>2, <1>5, TrimKeepsRecords
<1>7. in_flight' \subseteq in_flight /\ FlightAddsUp'
  BY AckTakesFromFlight
<1>8. FlightIsSampled'
  BY <1>1, <1>7, TrimKeepsFlight
<1>9. FlightInv'
  <2>1. in_flight \subseteq 1 .. last_sent_packet /\ orderly \in BOOLEAN
    BY DEF IInv, FlightInv
  <2> QED
    BY <1>1, <1>7, <1>8, <2>1 DEF FlightInv
<1> QED
  BY <1>3, <1>4, <1>5, <1>6, <1>9 DEF IInv, SendingInv

\* OnLosses.
LEMMA OnLossesKeeps ==
  ASSUME IInv, NEW newest \in 1 .. MaxPacket, NEW probing_rtt \in BOOLEAN,
         OnLosses(newest, probing_rtt)
  PROVE  IInv'
<1> DEFINE lost == LostUpTo(newest)
<1>1. /\ UNCHANGED <<now, last_sent_packet, sent_at, total_bytes_acked, orderly>>
      /\ UNCHANGED slopeVars /\ UNCHANGED heightVars /\ UNCHANGED max_bandwidth
      /\ UNCHANGED <<round_trip_count, end_of_round_trip>>
      /\ UNCHANGED round_trip_count
      /\ total_bytes_lost' = total_bytes_lost + Cardinality(lost)
      /\ in_flight' = in_flight \ lost
      /\ AppLimited({}, probing_rtt)
      /\ connection_state_map' = RemoveUpTo(LeastUnacked)
  BY DEF OnLosses, senderVars
<1>2. /\ last_sent_packet \in Nat /\ now \in Nat /\ total_bytes_acked \in Nat
      /\ Counted /\ Recorded /\ NextSlopeStartsOnTheCurves
      /\ RoundsInv /\ RatesInv /\ AppLimitedInv /\ FlightAddsUp
      /\ in_flight \subseteq 1 .. last_sent_packet /\ orderly \in BOOLEAN
      /\ last_sent_packet <= last_sent_packet /\ now <= now
      /\ total_bytes_acked <= total_bytes_acked
  BY BoundsArePositive DEF IInv, SendingInv, Counted, FlightInv
<1>3. AppLimitedInv'
  <2>1. {} \in SUBSET (1 .. last_sent_packet)
    OBVIOUS
  <2> QED
    BY <1>1, <1>2, <2>1, AppLimitedKeeps
<1>4. RoundsInv' /\ RatesInv'
  BY <1>1, <1>2, RoundsStay, RatesStay
<1>5. Counted' /\ NextSlopeStartsOnTheCurves'
  BY <1>1, <1>2 DEF Counted, NextSlopeStartsOnTheCurves, slopeVars
<1>6. Recorded'
  BY <1>1, <1>2, TrimKeepsRecords
<1>7. FlightAddsUp'
  <2>1. lost \in SUBSET in_flight
    BY DEF LostUpTo
  <2> HIDE DEF lost
  <2>2. /\ Cardinality(in_flight') = Cardinality(in_flight) - Cardinality(lost)
        /\ Cardinality(lost) \in Nat /\ Cardinality(in_flight) \in Nat
    BY <1>1, <1>2, <2>1, FlightIsFinite
  <2> QED
    BY <1>1, <1>2, <2>2 DEF FlightAddsUp
<1>8. in_flight' \subseteq in_flight
  BY <1>1
<1>9. FlightIsSampled'
  BY <1>1, <1>8, TrimKeepsFlight
<1>10. FlightInv'
  BY <1>1, <1>2, <1>7, <1>8, <1>9 DEF FlightInv
<1> QED
  BY <1>3, <1>4, <1>5, <1>6, <1>10 DEF IInv, SendingInv

\* The records and slopes of a state in which only time has passed.
LEMMA SendingStays ==
  ASSUME SendingInv, now' \in 1 .. MaxTime, now <= now',
         UNCHANGED <<last_sent_packet, total_bytes_acked, sent_at,
                     connection_state_map>>,
         UNCHANGED slopeVars
  PROVE  SendingInv'
<1>1. /\ now \in Nat /\ now' \in Nat /\ last_sent_packet \in Nat
      /\ sent_at \in [1 .. last_sent_packet -> 1 .. now]
      /\ Counted /\ Recorded /\ NextSlopeStartsOnTheCurves
  BY BoundsArePositive DEF SendingInv, Counted
<1>2. sent_at \in [1 .. last_sent_packet -> 1 .. now']
  <2>1. 1 .. now \subseteq 1 .. now'
    BY <1>1
  <2> QED
    BY <1>1, <2>1
<1>3. Counted'
  BY <1>1, <1>2 DEF Counted
<1>4. NextSlopeStartsOnTheCurves'
  BY <1>1 DEF NextSlopeStartsOnTheCurves, slopeVars
<1>5. Recorded'
  BY <1>1 DEF Recorded, Tracked
<1> QED
  BY <1>3, <1>4, <1>5 DEF SendingInv

\* OnRetransmissionTimeout: the flight is given up, the records stay.
LEMMA OnRetransmissionTimeoutKeeps ==
  ASSUME IInv, OnRetransmissionTimeout
  PROVE  IInv'
<1>1. /\ UNCHANGED <<last_sent_packet, total_bytes_acked, sent_at,
                     connection_state_map>>
      /\ UNCHANGED slopeVars /\ UNCHANGED heightVars /\ UNCHANGED max_bandwidth
      /\ UNCHANGED appLimitedVars
      /\ UNCHANGED <<round_trip_count, end_of_round_trip>>
      /\ UNCHANGED round_trip_count
      /\ now' = now /\ in_flight' = {} /\ orderly' = FALSE
      /\ total_bytes_lost' = total_bytes_lost
  BY DEF OnRetransmissionTimeout, senderVars
<1>2. /\ last_sent_packet \in Nat /\ now \in Nat /\ now \in 1 .. MaxTime
      /\ last_sent_packet <= last_sent_packet /\ now <= now
      /\ in_flight \subseteq 1 .. last_sent_packet
      /\ total_bytes_lost \in Nat
      /\ total_bytes_lost + Cardinality(in_flight) <= last_sent_packet
  BY BoundsArePositive DEF IInv, SendingInv, Counted, FlightInv, FlightAddsUp
<1>3. SendingInv'
  BY <1>1, <1>2, SendingStays DEF IInv
<1>4. AppLimitedInv' /\ RoundsInv' /\ RatesInv'
  BY <1>1, <1>2, AppLimitedStays, RoundsStay, RatesStay DEF IInv
<1>5. FlightInv'
  <2>1. Cardinality(in_flight) \in Nat /\ Cardinality(in_flight') = 0
    BY <1>1, <1>2, FlightIsFinite, FS_EmptySet
  <2>2. FlightAddsUp'
    BY <1>1, <1>2, <2>1 DEF FlightAddsUp
  <2>3. FlightIsSampled'
    BY <1>1 DEF FlightIsSampled, FlightIsTracked, InFlightIdentity
  <2> QED
    BY <1>1, <2>2, <2>3 DEF FlightInv
<1> QED
  BY <1>3, <1>4, <1>5 DEF IInv

\* Tick.
LEMMA TickKeeps == ASSUME IInv, Tick PROVE IInv'
<1>1. /\ UNCHANGED <<last_sent_packet, total_bytes_acked, sent_at,
                     connection_state_map>>
      /\ UNCHANGED <<last_sent_packet, in_flight, orderly, total_bytes_lost,
                     total_bytes_acked, connection_state_map>>
      /\ UNCHANGED slopeVars /\ UNCHANGED heightVars /\ UNCHANGED max_bandwidth
      /\ UNCHANGED appLimitedVars
      /\ UNCHANGED <<round_trip_count, end_of_round_trip>>
      /\ UNCHANGED round_trip_count
      /\ now' = Smaller(now + 1, MaxTime)
  BY DEF Tick, senderVars
<1>2. /\ last_sent_packet \in Nat /\ last_sent_packet <= last_sent_packet
      /\ now \in 1 .. MaxTime /\ MaxTime \in Nat
  BY BoundsArePositive DEF IInv, SendingInv, Counted
<1>3. now' \in 1 .. MaxTime /\ now \in Nat /\ now' \in Nat /\ now <= now'
  BY <1>1, <1>2 DEF Smaller
<1>4. SendingInv' /\ FlightInv'
  BY <1>1, <1>3, SendingStays, FlightStays DEF IInv
<1>5. AppLimitedInv' /\ RoundsInv' /\ RatesInv'
  BY <1>1, <1>2, <1>3, AppLimitedStays, RoundsStay, RatesStay DEF IInv
<1> QED
  BY <1>4, <1>5 DEF IInv

\* A step that leaves the variables.
LEMMA StutterKeeps == ASSUME IInv, UNCHANGED vars PROVE IInv'
<1>1. /\ UNCHANGED <<last_sent_packet, total_bytes_acked, sent_at,
                     connection_state_map>>
      /\ UNCHANGED <<last_sent_packet, in_flight, orderly, total_bytes_lost,
                     total_bytes_acked, connection_state_map>>
      /\ UNCHANGED slopeVars /\ UNCHANGED heightVars /\ UNCHANGED max_bandwidth
      /\ UNCHANGED appLimitedVars
      /\ UNCHANGED <<round_trip_count, end_of_round_trip>>
      /\ UNCHANGED round_trip_count
      /\ now' = now
  BY DEF vars, senderVars
<1>2. /\ last_sent_packet \in Nat /\ last_sent_packet <= last_sent_packet
      /\ now \in 1 .. MaxTime /\ now \in Nat /\ now <= now
  BY BoundsArePositive DEF IInv, SendingInv, Counted
<1>3. SendingInv' /\ FlightInv'
  BY <1>1, <1>2, SendingStays, FlightStays DEF IInv
<1>4. AppLimitedInv' /\ RoundsInv' /\ RatesInv'
  BY <1>1, <1>2, AppLimitedStays, RoundsStay, RatesStay DEF IInv
<1> QED
  BY <1>3, <1>4 DEF IInv

----------------------------------------------------------------------------
(* The theorems.                                                           *)

\* Nothing is sent, sampled or in flight at first.
LEMMA InitEstablishes == ASSUME Init PROVE IInv
<1>1. /\ now = 1 /\ last_sent_packet = 0 /\ total_bytes_acked = 0
      /\ total_bytes_lost = 0 /\ total_bytes_sent_at_last_acked_packet = 0
      /\ last_acked_packet_sent_time = 0 /\ last_acked_packet_ack_time = 0
      /\ is_app_limited = TRUE /\ end_of_app_limited_phase = 0
      /\ connection_state_map = <<>> /\ sent_at = <<>>
      /\ aggregation_epoch_start_time = 0 /\ aggregation_epoch_bytes = 0
      /\ max_bandwidth = 0 /\ round_trip_count = 0 /\ end_of_round_trip = 0
      /\ in_flight = {} /\ sampled_since = {} /\ orderly = TRUE
  BY DEF Init, None, Zero
<1>2. /\ 1 .. 0 = {} /\ DOMAIN <<>> = {}
      /\ 1 \in 1 .. MaxTime /\ 0 \in 0 .. MaxPacket /\ 0 \in 0 .. MaxAcked
  BY BoundsArePositive
<1>3. SendingInv
  <2>1. sent_at \in [1 .. last_sent_packet -> 1 .. now]
    BY <1>1, <1>2
  <2>2. Tracked = {}
    BY <1>1, <1>2 DEF Tracked
  <2> QED
    BY <1>1, <1>2, <2>1, <2>2
       DEF SendingInv, Counted, NextSlopeStartsOnTheCurves, Recorded
<1>4. FlightInv
  <2>1. Cardinality(in_flight) = 0
    BY <1>1, FS_EmptySet
  <2>2. Tracked = {}
    BY <1>1, <1>2 DEF Tracked
  <2> QED
    BY <1>1, <2>1, <2>2 DEF FlightInv, FlightAddsUp, FlightIsSampled,
       FlightIsTracked, InFlightIdentity
<1>5. AppLimitedInv
  BY <1>1 DEF AppLimitedInv, AppLimitedPhaseEndsWithItsAck
<1>6. RoundsInv
  BY <1>1 DEF RoundsInv
<1>7. RatesInv
  <2>1. Filter!Sample(0, 0) \in Heights
    BY <1>1, BoundsArePositive DEF Filter!Sample, Heights
  <2>2. \A s \in Heights : <<s, s, s>> \in [1 .. 3 -> Heights]
    OBVIOUS
  <2>3. max_ack_height_filter \in [1 .. 3 -> Heights]
    BY <2>1, <2>2 DEF Init, Filter!ResetTo
  <2>4. 0 \in 0 .. Infinite
    BY BoundsArePositive DEF Infinite, Scale
  <2> QED
    BY <1>1, <1>2, <2>3, <2>4 DEF RatesInv
<1> QED
  BY <1>3, <1>4, <1>5, <1>6, <1>7 DEF IInv

\* The strengthened invariant holds in every state.
THEOREM SamplerInvariant == Spec => []IInv
<1>1. Init => IInv
  BY InitEstablishes
<1>2. IInv /\ [Next]_vars => IInv'
  <2> SUFFICES ASSUME IInv, [Next]_vars PROVE IInv'
    OBVIOUS
  <2>1. CASE OnPacketSent
    BY <2>1, OnPacketSentKeeps
  <2>2. ASSUME NEW pn \in 1 .. last_sent_packet, NEW settled \in Settled(pn),
               NEW newest \in 0 .. MaxPacket, NEW probing_rtt \in BOOLEAN,
               OnAck(pn, settled, newest, probing_rtt)
        PROVE  IInv'
    BY <2>2, OnAckKeeps
  <2>3. ASSUME NEW newest \in 1 .. MaxPacket, NEW probing_rtt \in BOOLEAN,
               OnLosses(newest, probing_rtt)
        PROVE  IInv'
    BY <2>3, OnLossesKeeps
  <2>4. CASE OnRetransmissionTimeout
    BY <2>4, OnRetransmissionTimeoutKeeps
  <2>5. CASE Tick
    BY <2>5, TickKeeps
  <2>6. CASE UNCHANGED vars
    BY <2>6, StutterKeeps
  <2> QED
    BY <2>1, <2>2, <2>3, <2>4, <2>5, <2>6 DEF Next
<1> QED
  BY <1>1, <1>2, PTL DEF Spec

\* Counts stay within their words, times are past, the records are of packets
\* sent.
THEOREM SamplerTypeCorrect == Spec => []TypeOK
<1>1. IInv => TypeOK
  <2> SUFFICES ASSUME IInv PROVE TypeOK
    OBVIOUS
  <2>1. Counted /\ NextSlopeStartsOnTheCurves /\ Recorded /\ FlightAddsUp
        /\ in_flight \subseteq 1 .. last_sent_packet /\ orderly \in BOOLEAN
        /\ AppLimitedInv /\ RoundsInv /\ RatesInv
    BY DEF IInv, SendingInv, FlightInv
  <2>2. \A p \in Tracked : connection_state_map[p] \in Entries
    BY <2>1 DEF Recorded, IsRecordOf
  <2>3. total_bytes_lost \in 0 .. MaxPacket /\ round_trip_count \in 0 .. MaxPacket
    <3>1. last_sent_packet \in Nat /\ last_sent_packet <= MaxPacket
      BY <2>1, BoundsArePositive DEF Counted
    <3>2. Cardinality(in_flight) \in Nat
      BY <2>1, <3>1, FlightIsFinite
    <3> QED
      BY <2>1, <3>1, <3>2, BoundsArePositive DEF FlightAddsUp, RoundsInv
  <2>4. /\ max_ack_height_filter \in [1 .. 3 -> [sample : 0 .. WordSize - 1,
                                                 time : 0 .. round_trip_count]]
        /\ max_bandwidth \in 0 .. Infinite
        /\ aggregation_epoch_start_time \in 0 .. now
        /\ aggregation_epoch_bytes \in 0 .. MaxAcked
    BY <2>1 DEF RatesInv, Heights
  <2>5. /\ is_app_limited \in BOOLEAN
        /\ end_of_app_limited_phase \in 0 .. last_sent_packet
        /\ sampled_since \subseteq 1 .. last_sent_packet
        /\ end_of_round_trip \in 0 .. last_sent_packet
    BY <2>1 DEF AppLimitedInv, RoundsInv
  <2>6. /\ Tracked \subseteq 1 .. last_sent_packet
        /\ total_bytes_sent_at_last_acked_packet \in 0 .. last_sent_packet
        /\ last_acked_packet_sent_time \in 0 .. now
        /\ last_acked_packet_ack_time \in 0 .. now
    BY <2>1 DEF Recorded, NextSlopeStartsOnTheCurves
  <2> QED
    BY <2>1, <2>2, <2>3, <2>4, <2>5, <2>6 DEF TypeOK, Counted
<1> QED
  BY <1>1, SamplerInvariant, PTL

\* Every sample is a slope between points of the curves of sent and acked
\* bytes, whatever was lost, given up or echoed late: no subtraction of it
\* underflows.
THEOREM SlopesAreOfTheCurves == Spec => []SlopesStartOnTheCurves
<1>1. IInv => SlopesStartOnTheCurves
  <2> SUFFICES ASSUME IInv, NEW p \in Tracked
               PROVE  LET entry == connection_state_map[p]
                          s0 == entry.total_bytes_sent_at_last_acked_packet
                      IN  /\ s0 \in 1 .. p
                          /\ entry.last_acked_packet_sent_time = sent_at[s0]
                          /\ entry.last_acked_packet_ack_time
                               \in sent_at[s0] .. sent_at[p]
                          /\ entry.total_bytes_acked <= total_bytes_acked
    BY DEF SlopesStartOnTheCurves
  <2> DEFINE entry == connection_state_map[p]
             s0 == entry.total_bytes_sent_at_last_acked_packet
  <2>1. /\ IsRecordOf(entry, p, sent_at, total_bytes_acked)
        /\ p \in 1 .. last_sent_packet /\ last_sent_packet \in Nat
        /\ sent_at \in [1 .. last_sent_packet -> 1 .. now] /\ now \in Nat
    BY BoundsArePositive DEF IInv, SendingInv, Recorded, Counted
  <2> HIDE DEF entry
  <2>2. /\ s0 \in 1 .. p
        /\ entry.last_acked_packet_sent_time = sent_at[s0]
        /\ entry.sent_time = sent_at[p]
        /\ entry.last_acked_packet_ack_time >= entry.last_acked_packet_sent_time
        /\ entry.last_acked_packet_ack_time <= entry.sent_time
        /\ entry.total_bytes_acked <= total_bytes_acked
        /\ entry \in Entries
    BY <2>1 DEF IsRecordOf
  <2>3. entry.last_acked_packet_ack_time \in Int
    BY <2>2, BoundsArePositive DEF Entries
  <2>4. sent_at[s0] \in Int /\ sent_at[p] \in Int
    <3>1. s0 \in 1 .. last_sent_packet
      BY <2>1, <2>2
    <3> HIDE DEF s0
    <3> QED
      BY <2>1, <3>1
  <2>5. entry.last_acked_packet_ack_time \in sent_at[s0] .. sent_at[p]
    BY <2>2, <2>3, <2>4
  <2> QED
    BY <2>2, <2>5 DEF entry
<1> QED
  BY <1>1, SamplerInvariant, PTL

\* Samples are app-limited exactly up to the ack of a packet sent after
\* OnAppLimited was called, in whatever order the acks come.
THEOREM AppLimitedPhaseEnds == Spec => []AppLimitedPhaseEndsWithItsAck
<1>1. IInv => AppLimitedPhaseEndsWithItsAck
  BY DEF IInv, AppLimitedInv
<1> QED
  BY <1>1, SamplerInvariant, PTL

\* No packet in flight is without its record, and the bytes in flight add up
\* while packets leave flight by an echo of their own or a reported loss.
THEOREM FlightStaysSampled == Spec => []FlightIsSampled
<1>1. IInv => FlightIsSampled
  BY DEF IInv, FlightInv
<1> QED
  BY <1>1, SamplerInvariant, PTL
=============================================================================
