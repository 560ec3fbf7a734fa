----------------------------- MODULE CubicSender -----------------------------
(***************************************************************************)
(* TcpCubicSenderBytes with its parts CubicBytes and HybridSlowStart, and  *)
(* the manager's retransmission timeout, of which it alone takes notice.   *)
(*                                                                         *)
(* Abstractions.  Windows and packets have sizes in small units, truncated  *)
(* where the code truncates. Packet numbers are counted back from the     *)
(* last packet sent, which is 0, down to Oldest.  Time is the age of the   *)
(* epoch, in ticks in which the cubic coefficient is 1.  Largest acked is  *)
(* kept as in_recovery, its only use.  A field keeps one value while no    *)
(* code reads it.  PrrSender is left out: it is asked by CanSend alone,     *)
(* which nothing calls.                                                    *)
(***************************************************************************)
EXTENDS Integers, FiniteSets

CONSTANTS
  Reach,         \* packets that are told apart
  Mss,           \* kDefaultTCPMSS
  PacketSize,    \* DEFAULT_PACKET_SIZE, a little more
  InitialCwnd,   \* in packets, as the next two
  MinCwnd,       \* kDefaultMinimumCongestionWindow
  MaxCwnd,       \* max_congestion_window_
  MaxBurst,      \* kMaxBurstBytes, in packets
  EpochTicks,    \* ages of an epoch that are told apart
  Rtts,          \* samples of the RTT, in ticks
  RttThreshold,  \* the increase of it that ends slow start
  MinSamples,    \* kHybridStartMinSamples
  LowWindow,     \* kHybridStartLowWindow, in packets
  InitialGate    \* INITIAL_CWND_SIZE

ASSUME CubicWindowAssumption ==
  /\ Reach \in Nat \ {0}
  /\ Mss \in Nat \ {0}
  /\ PacketSize \in Nat /\ Mss <= PacketSize /\ PacketSize < 2 * Mss
  /\ MinCwnd \in Nat \ {0, 1}
  /\ InitialCwnd \in Nat /\ MinCwnd <= InitialCwnd
  /\ MaxCwnd \in Nat /\ InitialCwnd <= MaxCwnd
  /\ MaxBurst \in Nat
ASSUME CubicTimeAssumption ==
  /\ EpochTicks \in Nat
  /\ Rtts \subseteq Nat \ {0}
  /\ RttThreshold \in Nat
  /\ MinSamples \in Nat \ {0}
  /\ LowWindow \in Nat
  /\ InitialGate \in Nat \ {0}

VARIABLES
  cubic,      \* the fields of TcpCubicSenderBytes and its parts
  min_rtt,    \* of rtt_stats_, 0 if there is none
  in_flight,  \* packets in flight
  sent,       \* packets sent, at most Reach of them
  newly,      \* largest_newly_acked_ of the manager
  rto,        \* consecutive_rto_count_ > 0
  gate        \* the client's send_control_.cwnd, in packets

vars == <<cubic, min_rtt, in_flight, sent, newly, rto, gate>>

Oldest == -Reach   \* also a packet number that is not set
NoPacket == 1      \* of an event without an ack
None == -1         \* QuicTime::Zero()

Larger(m, n) == IF m > n THEN m ELSE n
Smaller(m, n) == IF m < n THEN m ELSE n

\* Two connections are emulated, with the backoff factors 0.7 and 0.85.
Beta(window) == (85 * window) \div 100
BetaLastMax(window) == (925 * window) \div 1000
\* 3 * n * n * (1 - beta) / (1 + beta), in percent.
Alpha == 97

IdleHystart == [started |-> FALSE, found |-> FALSE, round_end |-> Oldest,
                samples |-> 0, current_min_rtt |-> 0]
NoEpoch == [age |-> None, estimated |-> 0, origin |-> 0, time_to_origin |-> 0]

Init ==
  /\ cubic = [congestion_window |-> InitialCwnd * Mss,
              slowstart_threshold |-> MaxCwnd * Mss,
              last_cutback |-> Oldest, in_recovery |-> FALSE,
              hystart |-> IdleHystart,
              epoch |-> NoEpoch, last_max |-> 0,
              \* history, read by the properties only
              cut_at |-> Oldest, answered |-> TRUE, cut_twice |-> FALSE]
  /\ min_rtt = 0
  /\ in_flight = {}
  /\ sent = 0
  /\ newly = Oldest
  /\ rto = FALSE
  /\ gate = InitialGate

----------------------------------------------------------------------------
(* Queries.                                                                *)

InSlowStart(c) == c.congestion_window < c.slowstart_threshold

IsCwndLimited(c, flight) ==
  \/ flight >= c.congestion_window
  \/ InSlowStart(c) /\ flight > c.congestion_window \div 2
  \/ c.congestion_window - flight <= MaxBurst * Mss

----------------------------------------------------------------------------
(* HybridSlowStart.                                                        *)

StartReceiveRound(h) ==
  [h EXCEPT !.started = TRUE, !.round_end = 0, !.samples = 0,
            !.current_min_rtt = 0]

\* Only the first samples of a round are looked at.
Sampled(h, latest) ==
  IF h.samples = MinSamples THEN h
  ELSE [h EXCEPT !.samples = @ + 1,
                 !.current_min_rtt = IF @ = 0 THEN latest ELSE Smaller(@, latest)]

\* The comparison is made once in a round, with its last sample.
Compared(h, before, least) ==
  IF /\ before < MinSamples /\ h.samples = MinSamples
     /\ h.current_min_rtt > least + RttThreshold
    THEN [h EXCEPT !.found = TRUE] ELSE h

\* The state after ShouldExitSlowStart, and its answer.
ShouldExitSlowStart(h, latest, least, window) ==
  LET round == IF h.started THEN h ELSE StartReceiveRound(h)
      seen == Compared(Sampled(round, latest), round.samples, least)
  IN  IF round.found THEN [hystart |-> round, exit |-> TRUE]
      ELSE [hystart |-> seen, exit |-> seen.found /\ window \div Mss >= LowWindow]

\* What the congestion event begins with.
MaybeExitSlowstart(c, e) ==
  LET answer == ShouldExitSlowStart(c.hystart, e.latest, e.least,
                                    c.congestion_window)
  IN  IF ~e.rtt_updated \/ ~InSlowStart(c) THEN c
      ELSE [c EXCEPT !.hystart = answer.hystart,
                     !.slowstart_threshold = IF answer.exit
                                               THEN c.congestion_window ELSE @]

EndRound(c, acked) ==
  IF InSlowStart(c) /\ c.hystart.round_end <= acked
    THEN [c EXCEPT !.hystart.started = FALSE] ELSE c

----------------------------------------------------------------------------
(* Losses.                                                                 *)

\* Faulty: the epoch and its estimate go on through the loss.
BackOffInEpoch(c) ==
  [c EXCEPT !.last_max = IF c.congestion_window + Mss < @
                           THEN BetaLastMax(c.congestion_window)
                           ELSE c.congestion_window]

\* CubicBytes::CongestionWindowAfterPacketLoss, its state.
BackOff(c) ==
  [c EXCEPT !.last_max = IF c.congestion_window + Mss < @
                           THEN BetaLastMax(c.congestion_window)
                           ELSE c.congestion_window,
            !.epoch = NoEpoch]

\* Faulty: the window may fall below the minimum.
ReducedBelowMinimum(window) == Beta(window)

Reduced(window) == Larger(MinCwnd * Mss, Beta(window))

\* Faulty: the slow start threshold is kept.
CutWindowOnly(c) == [c EXCEPT !.congestion_window = Reduced(@)]

CutWindow(c) ==
  [c EXCEPT !.congestion_window = Reduced(@),
            !.slowstart_threshold = Reduced(c.congestion_window)]

\* History: a cut of which no later packet was acked, and another.
NoteCut(c) == [c EXCEPT !.cut_twice = @ \/ ~c.answered, !.answered = FALSE,
                        !.cut_at = 0]

\* Faulty: the cutback covers the packets up to the one lost.
CutbackAtLostPacket(c, packet) ==
  [NoteCut(CutWindow(BackOff(c))) EXCEPT
     !.last_cutback = packet, !.in_recovery = TRUE]

Cutback(c, packet) ==
  [NoteCut(CutWindow(BackOff(c))) EXCEPT
     !.last_cutback = 0, !.in_recovery = TRUE]

\* Losses of packets sent before the last cutback are one event with it; so
\* are the losses reported together, after the first of them.
OnPacketsLost(c, lost) ==
  LET new == {q \in lost : q > c.last_cutback}
  IN  IF new = {} THEN c
      ELSE Cutback(c, CHOOSE q \in new : \A r \in new : q <= r)

----------------------------------------------------------------------------
(* Acks.                                                                   *)

CubeRoot(n) == CHOOSE k \in 0 .. n : k * k * k <= n /\ n < (k + 1) * (k + 1) * (k + 1)

\* The first ack after a loss event; the curve's origin is the last maximum.
StartEpoch(c) ==
  LET window == c.congestion_window
  IN  [c EXCEPT !.epoch =
         [age |-> 0, estimated |-> window, origin |-> Larger(c.last_max, window),
          time_to_origin |-> IF c.last_max <= window THEN 0
                             ELSE CubeRoot(c.last_max - window)]]

\* Where the curve is one RTT from now.
CubicTarget(epoch, least) ==
  LET distance == epoch.age + least - epoch.time_to_origin
  IN  epoch.origin + distance * distance * distance

\* The window grows by at most half of what was acked, or to the estimate of
\* Reno's if that is more.
CongestionWindowAfterAck(c, least) ==
  LET started == IF c.epoch.age = None THEN StartEpoch(c) ELSE c
      epoch == started.epoch
      estimated == epoch.estimated + (PacketSize * Alpha * Mss) \div (100 * epoch.estimated)
      target == Smaller(CubicTarget(epoch, least), c.congestion_window + PacketSize \div 2)
  IN  [started EXCEPT !.epoch.estimated = estimated,
                      !.congestion_window =
                        Smaller(MaxCwnd * Mss, Larger(target, estimated))]

MaybeIncreaseCwnd(c, e) ==
  IF ~IsCwndLimited(c, e.prior) THEN [c EXCEPT !.epoch = NoEpoch]
  ELSE IF c.congestion_window >= MaxCwnd * Mss THEN c
  ELSE IF InSlowStart(c) THEN [c EXCEPT !.congestion_window = @ + Mss]
  ELSE CongestionWindowAfterAck(c, e.least)

\* Recovery ends with the ack of a packet sent after the cutback; in it, the
\* window stays.
OnPacketAcked(c, e) ==
  LET acked == [c EXCEPT !.in_recovery = @ /\ e.acked <= c.last_cutback]
  IN  IF acked.in_recovery THEN acked
      ELSE EndRound(MaybeIncreaseCwnd(acked, e), e.acked)

\* HybridSlowStart is restarted before it is used in slow start again.
Settled(c) == IF InSlowStart(c) THEN c ELSE [c EXCEPT !.hystart = IdleHystart]

\* History: a packet sent after the cut was acked.
NoteAnswer(c, e) ==
  [c EXCEPT !.answered = @ \/ (e.acked # NoPacket /\ e.acked > c.cut_at)]

OnCongestionEvent(c, e) ==
  LET reduced == OnPacketsLost(MaybeExitSlowstart(NoteAnswer(c, e), e), e.lost)
  IN  Settled(IF e.acked = NoPacket THEN reduced ELSE OnPacketAcked(reduced, e))

\* OnRetransmissionTimeout(true) with HandleRetransmissionTimeout.
OnRetransmissionTimeout(c) ==
  [c EXCEPT !.last_cutback = Oldest, !.in_recovery = FALSE,
            !.hystart = IdleHystart, !.epoch = NoEpoch, !.last_max = 0,
            !.slowstart_threshold = c.congestion_window \div 2,
            !.congestion_window = MinCwnd * Mss,
            !.cut_at = Oldest, !.answered = TRUE]

----------------------------------------------------------------------------
(* What the client, the manager and the time do.                           *)

Position(p) == Larger(Oldest, p - 1)

\* The client's gate is the window of the last echo; CanSend is not asked.
OnPacketSent ==
  /\ Cardinality(in_flight) < gate
  /\ Oldest + 1 \notin in_flight
  /\ in_flight' = {p - 1 : p \in in_flight} \cup {0}
  /\ sent' = Smaller(sent + 1, Reach)
  /\ cubic' = [cubic EXCEPT !.last_cutback = Position(@), !.cut_at = Position(@),
                            !.hystart.round_end = Position(@)]
  /\ newly' = Position(newly)
  /\ UNCHANGED <<min_rtt, rto, gate>>

\* Losses are the oldest packets in flight, older than the last one acked.
LossesBefore(limit) ==
  {{q \in in_flight : q < k} : k \in Oldest + 1 .. limit}

Event(acked, lost, rtt_updated, latest, least) ==
  [acked |-> acked, lost |-> lost, rtt_updated |-> rtt_updated,
   latest |-> latest, least |-> least,
   prior |-> Cardinality(in_flight) * PacketSize]

\* OnAckFrameEnd: after the event, an echo that updates the RTT answers the
\* timeouts before it.  `settled' is what MarkPacketHandled takes out of flight.
Echo(p, settled, lost, rtt_updated, latest) ==
  LET least == IF ~rtt_updated THEN min_rtt
               ELSE IF min_rtt = 0 THEN latest ELSE Smaller(min_rtt, latest)
      acked == OnCongestionEvent(cubic, Event(p, lost, rtt_updated, latest, least))
      after == IF rtt_updated /\ rto THEN OnRetransmissionTimeout(acked) ELSE acked
  IN  /\ cubic' = after
      /\ min_rtt' = least
      /\ rto' = (rto /\ ~rtt_updated)
      /\ gate' = after.congestion_window \div PacketSize
      /\ newly' = p
      /\ in_flight' = in_flight \ (lost \cup settled)
      /\ UNCHANGED sent

\* The echo of a packet in flight.
OnAck(p) ==
  /\ p \in in_flight
  /\ \E lost \in LossesBefore(p), latest \in Rtts : Echo(p, {p}, lost, TRUE, latest)

\* The lookup of a packet older than the map's front may reach a later one.
SettledByLate(p) ==
  {{}} \cup (IF \A q \in in_flight : p < q THEN {{q} : q \in in_flight} ELSE {})

\* The echo of a packet lost, timed out or acked before: IsUnacked finds no
\* sample in what is left of its record.
OnLateAck(p) ==
  /\ p \in (1 - sent .. 0) \ in_flight
  /\ \E lost \in LossesBefore(p), settled \in SettledByLate(p) :
       Echo(p, settled, lost, FALSE, 0)

\* The loss timer's event has no ack; the client does not see its window.
OnLossTimeout ==
  /\ \E lost \in LossesBefore(newly) \ {{}} :
       /\ cubic' = OnCongestionEvent(cubic, Event(NoPacket, lost, FALSE, 0, min_rtt))
       /\ in_flight' = in_flight \ lost
  /\ UNCHANGED <<min_rtt, sent, newly, rto, gate>>

\* RTO_MODE, which an idle client is in as well: the controller is not told.
RetransmitRtoPackets ==
  /\ in_flight' = {}
  /\ rto' = TRUE
  /\ UNCHANGED <<cubic, min_rtt, sent, newly, gate>>

Tick ==
  /\ cubic' = [cubic EXCEPT
       !.epoch.age = IF @ = None THEN None ELSE Smaller(@ + 1, EpochTicks)]
  /\ UNCHANGED <<min_rtt, in_flight, sent, newly, rto, gate>>

Next ==
  \/ OnPacketSent
  \/ \E p \in Oldest + 1 .. 0 : OnAck(p) \/ OnLateAck(p)
  \/ OnLossTimeout
  \/ RetransmitRtoPackets
  \/ Tick

Spec == Init /\ [][Next]_vars

----------------------------------------------------------------------------
(* Properties.                                                             *)

Windows == MinCwnd * Mss .. MaxCwnd * Mss

\* The type invariant.  An epoch has an estimate of a minimum window at least,
\* so that CongestionWindowAfterAck divides by no zero.
TypeOK ==
  /\ cubic.congestion_window \in Windows
  /\ cubic.slowstart_threshold \in (MinCwnd * Mss) \div 2 .. MaxCwnd * Mss
  /\ cubic.last_cutback \in Oldest .. 0
  /\ cubic.in_recovery \in BOOLEAN
  /\ cubic.hystart \in [started : BOOLEAN, found : BOOLEAN,
                        round_end : Oldest .. 0, samples : 0 .. MinSamples,
                        current_min_rtt : Rtts \cup {0}]
  /\ cubic.epoch.age \in None .. EpochTicks
  /\ cubic.epoch.age # None =>
       /\ cubic.epoch.estimated \in MinCwnd * Mss .. MaxCwnd * Mss + PacketSize
       /\ cubic.epoch.origin \in Windows
       /\ cubic.epoch.time_to_origin \in 0 .. MaxCwnd * Mss
  /\ cubic.last_max \in 0 .. MaxCwnd * Mss
  /\ min_rtt \in Rtts \cup {0}
  /\ in_flight \subseteq Oldest + 1 .. 0
  /\ sent \in 0 .. Reach
  /\ newly \in Oldest .. 0
  /\ rto \in BOOLEAN
  /\ gate \in Nat

\* "Once a loss occurs, any losses in packets already sent should be treated as
\* a single loss event" (OnPacketLost): the window is not cut again before a
\* packet sent after the cut is acked, or a timeout answered.
OneCutbackPerRound == ~cubic.cut_twice

\* No step grows the window by more than a packet in slow start and half of
\* the bytes acked after it ("limit the CWND increase to half the acked
\* bytes"), nor at all in recovery; and only a cutback or an answered timeout
\* lets it shrink.  An ack does not, wherever the cubic curve is, unless it
\* brings a shorter min RTT, which moves MaybeIncreaseCwnd back on the curve,
\* down to the estimate of Reno's window.
WindowMovesAreJustified ==
  [][/\ cubic.congestion_window < cubic'.congestion_window =>
          /\ ~cubic'.in_recovery
          /\ cubic'.congestion_window - cubic.congestion_window <=
               IF InSlowStart(cubic) THEN Mss ELSE PacketSize \div 2
     /\ cubic'.congestion_window < cubic.congestion_window =>
          \/ cubic'.in_recovery /\ cubic'.last_cutback = 0
          \/ /\ min_rtt' < min_rtt
             /\ cubic'.congestion_window >= cubic'.epoch.estimated
          \/ rto /\ ~rto']_vars

\* Slow start begins again only after a timeout (HandleRetransmissionTimeout):
\* what else lowers the window lowers the threshold with it.
SlowStartOnlyAfterTimeout ==
  [][~InSlowStart(cubic) /\ InSlowStart(cubic') => rto /\ ~rto']_vars

=============================================================================
