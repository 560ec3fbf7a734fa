----------------------------- MODULE ClientTimer -----------------------------
(***************************************************************************)
(* The client's loop and its clock: RttStats, the timeouts computed from   *)
(* it, and the pacing of the client.  One thread sends and receives in     *)
(* turn, and a receive that finds no echo polls the retransmission timer.  *)
(*                                                                         *)
(* Abstractions.  Time is in ticks.  A packet is its age, and the packets  *)
(* in flight are a sequence of ages, the oldest first; ages are told apart *)
(* up to MaxAge.  The loss timer is that of the oldest packet which        *)
(* `overtaken` counts: SentPacketManager shows that the scan finds it.     *)
(* The congestion controller is the gate and the pacing delay it answers   *)
(* with, and packet threshold detection may lose any run of the oldest     *)
(* overtaken packets.                                                      *)
(***************************************************************************)
EXTENDS Integers, Sequences

CONSTANTS
  Gates,         \* send_control_.cwnd, in packets
  PacingDelays,  \* between two packets
  Granularity,   \* kAlarmGranularity
  DefaultRto,    \* kDefaultRetransmissionTimeMs
  MinRto,        \* min_rto_timeout_
  MaxRto,        \* kMaxRetransmissionTimeMs
  MaxBackoff,    \* kMaxRetransmissions
  MaxSample,     \* the oldest packet whose echo arrives
  MaxAge         \* ages from here on are not told apart

ASSUME TimerAssumption ==
  /\ Gates \subseteq Nat \ {0} /\ Gates # {}
  /\ PacingDelays \subseteq Nat /\ PacingDelays # {}
  /\ Granularity \in Nat \ {0}
  /\ MinRto \in Nat /\ DefaultRto \in Nat /\ MaxRto \in Nat
  /\ MinRto <= DefaultRto /\ DefaultRto <= MaxRto
  /\ MaxBackoff \in Nat
  /\ MaxSample \in Nat \ {0} /\ Granularity <= MaxSample
  /\ MaxAge \in Nat /\ MaxRto < MaxAge
  /\ MaxSample + 1 + (MaxSample + 1) \div 4 < MaxAge

VARIABLES
  rtt,         \* rtt_stats_
  flight,      \* ages of the packets in flight
  overtaken,   \* how many of them largest_newly_acked_ is newer than
  since_sent,  \* the age of the last packet sent
  count,       \* consecutive_rto_count_
  gate,        \* send_control_.cwnd
  wait,        \* until send_control_.next_send_timestamp has passed
  turn         \* the half of the loop that is next

vars == <<rtt, flight, overtaken, since_sent, count, gate, wait, turn>>

Larger(m, n) == IF m > n THEN m ELSE n
Smaller(m, n) == IF m < n THEN m ELSE n
Distance(m, n) == IF m > n THEN m - n ELSE n - m

Init ==
  /\ rtt = [min |-> 0, smoothed |-> 0, previous |-> 0, latest |-> 0, deviation |-> 0]
  /\ flight = <<>>
  /\ overtaken = 0
  /\ since_sent = MaxAge
  /\ count = 0
  /\ gate \in Gates
  /\ wait = 0
  /\ turn = "send"

----------------------------------------------------------------------------
(* RttStats.                                                               *)

\* Faulty: the product is rounded up.
EighthsRoundedUp(n, duration) == (n * duration + 7) \div 8

\* Faulty: the product is truncated.
EighthsTruncated(n, duration) == (n * duration) \div 8

\* The product of a duration and n / 8, rounded to the nearest.
Eighths(n, duration) == (n * duration + 4) \div 8

\* A sample that is not positive is ignored.
UpdateRtt(sample) ==
  IF sample = 0 THEN rtt
  ELSE [min |-> IF rtt.min = 0 THEN sample ELSE Smaller(rtt.min, sample),
        previous |-> rtt.smoothed,
        latest |-> sample,
        smoothed |-> IF rtt.smoothed = 0 THEN sample
                     ELSE Eighths(7, rtt.smoothed) + Eighths(1, sample),
        deviation |-> IF rtt.smoothed = 0 THEN sample \div 2
                      ELSE (3 * rtt.deviation + Distance(rtt.smoothed, sample)) \div 4]

\* Faulty: the latest sample alone.
GetLatestRtt(r) == Larger(Granularity, r.latest)

GetMaxRtt(r) == Larger(Granularity, Larger(r.previous, r.latest))

LossDelay(r) == GetMaxRtt(r) + GetMaxRtt(r) \div 4

GetRetransmissionDelay ==
  LET delay == IF rtt.smoothed = 0 THEN DefaultRto
               ELSE Larger(MinRto, rtt.smoothed + 4 * rtt.deviation)
  IN  Smaller(MaxRto, delay * 2 ^ count)

----------------------------------------------------------------------------
(* What leaves flight.                                                     *)

\* How many of the first n packets in flight are lost by their age.
Aged(n, r) ==
  CHOOSE k \in 0 .. n : /\ \A i \in 1 .. k : flight[i] >= LossDelay(r)
                        /\ k < n => flight[k + 1] < LossDelay(r)

Dropped(n, sent) == SubSeq(sent, n + 1, Len(sent))

Without(k) == SubSeq(flight, 1, k - 1) \o SubSeq(flight, k + 1, Len(flight))

----------------------------------------------------------------------------
(* The client's loop.                                                      *)

\* SendPacket with IsTimeToSendNextPacket and SetNextSendTime.
MayNextSend == Len(flight) < gate /\ wait = 0

SendPacket ==
  /\ turn = "send"
  /\ turn' = "receive"
  /\ IF MayNextSend
       THEN /\ flight' = Append(flight, 0)
            /\ since_sent' = 0
            /\ \E delay \in PacingDelays : wait' = delay
       ELSE UNCHANGED <<flight, since_sent, wait>>
  /\ UNCHANGED <<rtt, overtaken, count, gate>>

\* Loss detection for an ack newer than n of the packets in `others`, in flight.
DetectLosses(n, others, r) ==
  \E threshold \in 0 .. n :
    LET lost == Larger(threshold, Aged(n, r))
    IN  /\ flight' = Dropped(lost, others)
        /\ overtaken' = n - lost

\* OnPacketReceived, with the RTT statistics and the number of timeouts that
\* MaybeUpdateRTT leaves.
OnPacketReceived(n, others, r, timeouts) ==
  /\ turn = "receive"
  /\ turn' = "send"
  /\ rtt' = r
  /\ DetectLosses(n, others, r)
  /\ count' = timeouts
  /\ gate' \in Gates
  /\ UNCHANGED <<since_sent, wait>>

\* The echo of a packet in flight updates the RTT and answers the timeouts.
ReceiveEcho ==
  \E k \in 1 .. Len(flight) :
    /\ flight[k] <= MaxSample
    /\ OnPacketReceived(k - 1, Without(k), UpdateRtt(flight[k]), 0)

\* What a late echo may leave in flight: the lookup of a packet the map has
\* dropped may reach the record of one sent later.
OthersAfterLate(n) ==
  {flight} \cup (IF n = 0 THEN {Without(k) : k \in 1 .. Len(flight)} ELSE {})

\* The echo of a packet that left flight before: n of those in flight are older.
\* IsUnacked finds it NEVER_SENT or ACKED, or not at all: it has no sample.
ReceiveLateEcho ==
  \E n \in 0 .. Len(flight), age \in since_sent .. MaxSample :
    /\ n > 0 => age <= flight[n]
    /\ n < Len(flight) => age >= flight[n + 1]
    /\ \E others \in OthersAfterLate(n) : OnPacketReceived(n, others, rtt, count)

\* GetRetransmissionTime has passed.  Without packets in flight it is Zero,
\* which every reading of the clock is after.
TimeoutHasPassed ==
  \/ flight = <<>>
  \/ overtaken > 0 /\ flight[1] > LossDelay(rtt)
  \/ flight # <<>> /\ overtaken = 0 /\ since_sent > GetRetransmissionDelay

\* LOSS_MODE: the overtaken packets are scanned again.
OnLossTimeout ==
  LET lost == Aged(overtaken, rtt)
  IN  /\ overtaken > 0
      /\ flight' = Dropped(lost, flight)
      /\ overtaken' = overtaken - lost
      /\ UNCHANGED count

\* Faulty: the last packet sent stays in flight.
RetransmitAllButLast ==
  /\ overtaken = 0
  /\ flight' = Dropped(Larger(0, Len(flight) - 1), flight)
  /\ count' = Smaller(count + 1, MaxBackoff)
  /\ UNCHANGED overtaken

\* RTO_MODE: every packet is given up.
RetransmitRtoPackets ==
  /\ overtaken = 0
  /\ flight' = <<>>
  /\ count' = Smaller(count + 1, MaxBackoff)
  /\ UNCHANGED overtaken

\* ReceivePacket finds no echo.
Poll ==
  /\ turn = "receive"
  /\ turn' = "send"
  /\ IF TimeoutHasPassed THEN OnLossTimeout \/ RetransmitRtoPackets
                         ELSE UNCHANGED <<flight, overtaken, count>>
  /\ UNCHANGED <<rtt, since_sent, gate, wait>>

Older(age) == Smaller(age + 1, MaxAge)

Tick ==
  /\ flight' = [i \in 1 .. Len(flight) |-> Older(flight[i])]
  /\ since_sent' = Older(since_sent)
  /\ wait' = Larger(0, wait - 1)
  /\ UNCHANGED <<rtt, overtaken, count, gate, turn>>

Next == SendPacket \/ ReceiveEcho \/ ReceiveLateEcho \/ Poll \/ Tick

Spec == Init /\ [][Next]_vars

\* The loop turns and time passes.  The socket is found empty again and again:
\* the server answers each packet once, and the loop turns many times for every
\* packet that the pacer lets out.
FairSpec == Spec /\ WF_vars(SendPacket) /\ SF_vars(Poll) /\ WF_vars(Tick)

----------------------------------------------------------------------------
(* Properties.                                                             *)

Ages == 0 .. MaxAge

\* The type invariant.  Packets are in the order they were sent in, and the
\* smoothed RTT is above the largest sample by no more than its rounding.
TypeOK ==
  /\ rtt \in [min : 0 .. MaxSample, smoothed : 0 .. MaxSample + 1,
              previous : 0 .. MaxSample + 1, latest : 0 .. MaxSample,
              deviation : 0 .. MaxSample]
  /\ flight \in Seq(Ages)
  /\ \A i \in 1 .. Len(flight) - 1 : flight[i] >= flight[i + 1]
  /\ overtaken \in 0 .. Len(flight)
  /\ since_sent \in Ages
  /\ count \in 0 .. MaxBackoff
  /\ gate \in Gates
  /\ wait \in Nat
  /\ turn \in {"send", "receive"}

\* The smoothed RTT is an average of samples, none of which is below the min
\* RTT (UpdateRtt): it is not below either, although each of its two parts is
\* rounded by itself.
RttIsBracketed ==
  /\ rtt.min <= rtt.smoothed
  /\ rtt.min <= rtt.latest
  /\ rtt.min = 0 <=> rtt.smoothed = 0

\* A poll gives up no packet that an echo may still come for within the
\* smoothed RTT (GetMaxRtt, GetRetransmissionDelay), whichever of the timeouts
\* it is and whatever samples and timeouts came before; only the cap on the RTO
\* lets it be given up earlier.
PollsAreNotEarly ==
  [][Poll => \A i \in 1 .. Len(flight) - Len(flight') :
               flight[i] >= Smaller(rtt.smoothed, MaxRto)]_vars

\* Whatever is lost, and however late what is not, the client sends again and
\* again: some timeout frees its window, without an echo's help.
ClientKeepsSending == []<>(since_sent = 0)

\* "Count of times the rto timer fired" (QuicConnectionStats::rto_count, which
\* grows with consecutive_rto_count_): a timer that fires is that of a packet.
TimeoutsAreOfPackets == [][count < count' => flight # <<>>]_vars

=============================================================================
