------------------------------ MODULE BbrSender ------------------------------
(***************************************************************************)
(* BbrSender (BBRv1): the four modes with the gain cycle, the recovery     *)
(* states, and the two windows and the pacing rate they lead to.           *)
(*                                                                         *)
(* Abstractions.  Windows, the flight and the bandwidth estimate are       *)
(* counted in packets (the bandwidth per min RTT, so that it is the BDP),  *)
(* gains in percent.  The best of the bandwidth filter is any estimate     *)
(* that the update rule allows.  Packet numbers are counted back from the  *)
(* last packet sent, which is 0, and are told apart down to Oldest.  Time  *)
(* is the age of the min RTT and the time left in PROBE_RTT; whether a min *)
(* RTT has passed in the gain cycle is a choice of the event, and whether  *)
(* the sampler is app-limited, of its only reader.  A field keeps one      *)
(* value while no code reads it.                                           *)
(***************************************************************************)
EXTENDS Integers, FiniteSets

CONSTANTS
  Reach,             \* packets that are told apart
  InitialCwnd,       \* initial_congestion_window_, in packets
  MinCwnd,           \* kDefaultMinimumCongestionWindow
  MaxCwnd,           \* max_congestion_window_
  Bandwidths,        \* estimates the filter may come to
  InitialPacingRate, \* INITIAL_PACING_RATE, in percent of a packet per min RTT
  CycleLength,       \* kGainCycleLength
  StartupRounds,     \* num_startup_rtts_
  StartupLossCount,  \* ..._startup_full_loss_count
  MinRttExpiry,      \* kMinRttExpiry, in ticks
  ProbeRttTime       \* kProbeRttTime, in ticks

ASSUME WindowAssumption ==
  /\ Reach \in Nat \ {0}
  /\ MinCwnd \in Nat \ {0}
  /\ InitialCwnd \in Nat \ {0}
  /\ MaxCwnd \in Nat
  /\ MinCwnd <= InitialCwnd /\ InitialCwnd <= MaxCwnd
ASSUME RateAssumption ==
  /\ Bandwidths \subseteq Nat \ {0}
  /\ InitialPacingRate \in Nat \ {0}
  /\ CycleLength \in Nat \ (0 .. 2)
ASSUME BbrCountAssumption ==
  /\ StartupRounds \in Nat \ {0}
  /\ StartupLossCount \in Nat \ {0}
  /\ MinRttExpiry \in Nat \ {0}
  /\ ProbeRttTime \in Nat

VARIABLES
  bbr,        \* the fields of BbrSender and of its sampler
  in_flight,  \* packets in flight, as the unacked map counts them
  sent        \* packets sent, at most Reach of them

vars == <<bbr, in_flight, sent>>

Oldest == -Reach
None == -1       \* QuicTime::Zero() and QuicTime::Delta::Zero()
NoPacket == 1    \* of an event without an ack

RecoveryWindowBound == MaxCwnd + 1

Larger(m, n) == IF m > n THEN m ELSE n
Smaller(m, n) == IF m < n THEN m ELSE n

Modes == {"STARTUP", "DRAIN", "PROBE_BW", "PROBE_RTT"}
RecoveryStates == {"NOT_IN_RECOVERY", "CONSERVATION", "GROWTH"}

HighGain == 288    \* kDefaultHighGain
DrainGain == 34    \* its inverse
CwndGain == 200    \* kDerivedHighCWNDGain and the gain of PROBE_BW alike
Offsets == 0 .. CycleLength - 1
kPacingGain == [i \in Offsets |-> CASE i = 0 -> 125
                                    [] i = 1 -> 75
                                    [] OTHER -> 100]

\* last_sent_packet_ is 0.  The first echo starts a round: no packet is older
\* than Oldest, the value of a number not yet set.
Init ==
  /\ bbr = [mode |-> "STARTUP", pacing_gain |-> HighGain, cycle_offset |-> 0,
            round_end |-> Oldest, loss_events |-> 0,
            is_at_full_bandwidth |-> FALSE, rounds_without_gain |-> 0,
            bandwidth |-> 0, bandwidth_at_last_round |-> 0,
            min_rtt_age |-> None, probe_rtt_left |-> None,
            probe_rtt_round_passed |-> FALSE,
            exiting_quiescence |-> FALSE,
            recovery |-> "NOT_IN_RECOVERY", end_recovery_at |-> Oldest,
            recovery_window |-> 0,
            congestion_window |-> InitialCwnd, pacing_rate |-> 0,
            rtt_known |-> FALSE, total_acked |-> 0,
            \* history, read by the properties only
            entered_at |-> NoPacket, low_age |-> None,
            since_min_rtt |-> MinRttExpiry + 1]
  /\ in_flight = {}
  /\ sent = 0

----------------------------------------------------------------------------
(* Queries.                                                                *)

InRecovery(c) == c.recovery # "NOT_IN_RECOVERY"

\* Without a bandwidth sample the initial window takes the BDP's place.
GetTargetCongestionWindow(c, gain) ==
  LET window == (gain * c.bandwidth) \div 100
  IN  Larger(MinCwnd, IF window = 0 THEN (gain * InitialCwnd) \div 100
                                    ELSE window)

ProbeRttCongestionWindow == MinCwnd

GetCongestionWindow(c) ==
  IF c.mode = "PROBE_RTT" THEN ProbeRttCongestionWindow
  ELSE IF InRecovery(c) THEN Smaller(c.congestion_window, c.recovery_window)
  ELSE c.congestion_window

----------------------------------------------------------------------------
(* The parts of OnCongestionEvent, in their order.  An event e has the     *)
(* packet acked, if any; what the sampler made of it; the packets lost;    *)
(* the flight before (prior) and after it; and the choices named above.    *)

HasAck(e) == e.acked # NoPacket

\* UpdateRoundTripCounter returns true.
StartsRound(c, e) == HasAck(e) /\ e.acked > c.round_end

UpdateRoundTripCounter(c, starts) ==
  IF starts THEN [c EXCEPT !.round_end = 0] ELSE c

\* Faulty: the round that was under way goes on.
EnterConservationInOldRound(c) ==
  [c EXCEPT !.recovery = "CONSERVATION", !.recovery_window = 0,
            !.entered_at = 0]

\* Enter conservation on the first loss, for a whole round from now on.
EnterConservation(c) ==
  [c EXCEPT !.recovery = "CONSERVATION", !.recovery_window = 0,
            !.round_end = 0, !.entered_at = 0]

LeaveRecovery(c) ==
  [c EXCEPT !.recovery = "NOT_IN_RECOVERY", !.end_recovery_at = Oldest,
            !.recovery_window = 0]

\* "Exit recovery when there are no losses for a round".
ExtendRecovery(c, e) ==
  IF e.lost > 0 THEN [c EXCEPT !.end_recovery_at = 0] ELSE c

\* CONSERVATION falls through to the exit of GROWTH.
AdvanceRecovery(c, e, starts) ==
  LET grown == IF c.recovery = "CONSERVATION" /\ starts
                 THEN [c EXCEPT !.recovery = "GROWTH"] ELSE c
  IN  IF e.lost = 0 /\ e.acked > c.end_recovery_at THEN LeaveRecovery(grown)
                                                    ELSE grown

\* Neither losses before the full bandwidth is reached nor events without an
\* ack touch the recovery state.
UpdateRecoveryState(c, e, starts) ==
  IF ~HasAck(e) \/ ~c.is_at_full_bandwidth THEN c
  ELSE IF InRecovery(c) THEN AdvanceRecovery(ExtendRecovery(c, e), e, starts)
  ELSE IF e.lost > 0 THEN EnterConservation(ExtendRecovery(c, e))
  ELSE c

\* rtt_stats_, the sampler's part, and the update of the maximum filter.
UpdateModel(c, e) ==
  LET timed == [c EXCEPT !.rtt_known = @ \/ e.rtt_updated]
  IN  IF ~e.counted THEN timed
      ELSE [timed EXCEPT !.bandwidth = e.bandwidth,
                         !.total_acked = Smaller(@ + 1, InitialCwnd),
                         !.since_min_rtt = IF e.shorter THEN 0 ELSE @]

MinRttExpires(c, e) == e.sampled /\ c.min_rtt_age > MinRttExpiry

MaybeUpdateMinRtt(c, e) ==
  IF e.sampled /\ (MinRttExpires(c, e) \/ e.shorter \/ c.min_rtt_age = None)
    THEN [c EXCEPT !.min_rtt_age = 0]
    ELSE c

CountLosses(c, e) ==
  IF e.lost > 0 /\ ~c.is_at_full_bandwidth
    THEN [c EXCEPT !.loss_events = Smaller(@ + 1, StartupLossCount)]
    ELSE c

\* Whether the gain cycle moves on, of an event of mode PROBE_BW.
AdvancesGainCycle(c, e) ==
  \/ c.pacing_gain < 100 /\ e.flight <= GetTargetCongestionWindow(c, 100)
  \/ /\ e.min_rtt_passed
     /\ ~(/\ c.pacing_gain > 100
          /\ e.lost = 0
          /\ e.prior < GetTargetCongestionWindow(c, c.pacing_gain))

\* drain_to_target_ is never set.
UpdateGainCyclePhase(c, e) ==
  LET next == (c.cycle_offset + 1) % CycleLength
  IN  IF c.mode = "PROBE_BW" /\ AdvancesGainCycle(c, e)
        THEN [c EXCEPT !.cycle_offset = next, !.pacing_gain = kPacingGain[next]]
        ELSE c

\* The losses of the whole round count, and the event must have a sample of an
\* ack or of a loss to compare them with.
ShouldExitStartupDueToLoss(c, e) ==
  /\ c.loss_events >= StartupLossCount
  /\ e.sampled \/ e.lost > 0
  /\ e.losses_excessive

ReachFullBandwidth(c) ==
  [c EXCEPT !.is_at_full_bandwidth = TRUE, !.rounds_without_gain = 0,
            !.bandwidth_at_last_round = 0, !.loss_events = 0]

\* Growth is at least kStartupGrowthTarget.
CheckIfFullBandwidthReached(c, e) ==
  IF e.app_limited THEN c
  ELSE IF 4 * c.bandwidth >= 5 * c.bandwidth_at_last_round
    THEN [c EXCEPT !.bandwidth_at_last_round = c.bandwidth,
                   !.rounds_without_gain = 0]
  ELSE IF \/ c.rounds_without_gain + 1 >= StartupRounds
          \/ ShouldExitStartupDueToLoss(c, e)
    THEN ReachFullBandwidth(c)
    ELSE [c EXCEPT !.rounds_without_gain = @ + 1]

EnterStartupMode(c) == [c EXCEPT !.mode = "STARTUP", !.pacing_gain = HighGain]

\* The cycle begins at a random offset that is not 1.
EnterProbeBandwidthMode(c, e) ==
  [c EXCEPT !.mode = "PROBE_BW", !.cycle_offset = e.offset,
            !.pacing_gain = kPacingGain[e.offset]]

MaybeExitStartupOrDrain(c, e) ==
  LET drain == IF c.mode = "STARTUP" /\ c.is_at_full_bandwidth
                 THEN [c EXCEPT !.mode = "DRAIN", !.pacing_gain = DrainGain]
                 ELSE c
  IN  IF drain.mode = "DRAIN"
          /\ e.flight <= GetTargetCongestionWindow(drain, 100)
        THEN EnterProbeBandwidthMode(drain, e)
        ELSE drain

EnterProbeRtt(c) ==
  [c EXCEPT !.mode = "PROBE_RTT", !.pacing_gain = 100, !.cycle_offset = 0,
            !.probe_rtt_left = None, !.low_age = None]

\* Faulty: the pipe is taken to be full.
ExitProbeRttToProbeBandwidth(c, e) ==
  EnterProbeBandwidthMode([c EXCEPT !.min_rtt_age = 0, !.since_min_rtt = 0,
                                    !.low_age = None,
                                    !.probe_rtt_round_passed = FALSE], e)

\* Faulty: the min RTT keeps the time of its sample.
ExitProbeRttUnstamped(c, e) ==
  LET measured == [c EXCEPT !.since_min_rtt = 0, !.low_age = None,
                            !.probe_rtt_round_passed = FALSE]
  IN  IF c.is_at_full_bandwidth THEN EnterProbeBandwidthMode(measured, e)
                                ELSE EnterStartupMode(measured)

ExitProbeRtt(c, e) ==
  LET measured == [c EXCEPT !.min_rtt_age = 0, !.since_min_rtt = 0,
                            !.low_age = None,
                            !.probe_rtt_round_passed = FALSE]
  IN  IF c.is_at_full_bandwidth THEN EnterProbeBandwidthMode(measured, e)
                                ELSE EnterStartupMode(measured)

FlightIsLow(e) == e.flight < ProbeRttCongestionWindow + 1

\* In PROBE_RTT the exit time is set once the flight is low, and then waited
\* for together with the start of a round.
StayInProbeRtt(c, e, starts) ==
  LET passed == c.probe_rtt_round_passed \/ starts
  IN  IF c.probe_rtt_left = None
        THEN IF FlightIsLow(e)
               THEN [c EXCEPT !.probe_rtt_left = ProbeRttTime,
                              !.probe_rtt_round_passed = FALSE,
                              !.low_age = 0]
               ELSE c
      ELSE IF c.probe_rtt_left = 0 /\ passed
        THEN ExitProbeRtt([c EXCEPT !.probe_rtt_round_passed = passed], e)
        ELSE [c EXCEPT !.probe_rtt_round_passed = passed]

\* OnAppLimited is the sampler's.
MaybeEnterOrExitProbeRtt(c, e, starts, expired) ==
  LET entered == IF expired /\ ~c.exiting_quiescence /\ c.mode # "PROBE_RTT"
                   THEN EnterProbeRtt(c) ELSE c
      probed == IF entered.mode = "PROBE_RTT"
                  THEN StayInProbeRtt(entered, e, starts) ELSE entered
  IN  [probed EXCEPT !.exiting_quiescence = FALSE]

\* "Do not decrease the pacing rate during startup"; overshooting detection
\* is never switched on.
CalculatePacingRate(c) ==
  LET target == c.pacing_gain * c.bandwidth
  IN  IF c.bandwidth = 0 THEN c
      ELSE [c EXCEPT !.pacing_rate =
              IF c.is_at_full_bandwidth THEN target
              ELSE IF @ = 0 /\ c.rtt_known THEN InitialPacingRate
              ELSE Larger(@, target)]

\* Faulty: the target bounds the window in startup too.
GrownWindowBounded(c, acked) ==
  Smaller(GetTargetCongestionWindow(c, CwndGain), c.congestion_window + acked)

\* The window grows towards its target by the packets acked.
GrownWindow(c, acked) ==
  LET target == GetTargetCongestionWindow(c, CwndGain)
      grown == c.congestion_window + acked
  IN  IF c.is_at_full_bandwidth THEN Smaller(target, grown)
      ELSE IF c.congestion_window < target \/ c.total_acked < InitialCwnd
        THEN grown
        ELSE c.congestion_window

\* Faulty: the window has no upper limit.
CalculateCongestionWindowUnlimited(c, acked) ==
  IF c.mode = "PROBE_RTT" THEN c
  ELSE [c EXCEPT !.congestion_window = Larger(MinCwnd, GrownWindow(c, acked))]

CalculateCongestionWindow(c, acked) ==
  IF c.mode = "PROBE_RTT" THEN c
  ELSE [c EXCEPT !.congestion_window =
                   Smaller(MaxCwnd, Larger(MinCwnd, GrownWindow(c, acked)))]

\* Faulty: no room is made for an answer to the ack.
RecoveryWindowClosed(c, e, acked) ==
  LET left == IF c.recovery_window >= e.lost THEN c.recovery_window - e.lost
                                             ELSE 1
  IN  IF c.recovery_window = 0 THEN e.flight + acked
      ELSE IF c.recovery = "GROWTH" THEN left + acked ELSE left

\* Zero asks for the initial recovery window.  Losses are taken off, acks in
\* GROWTH put on, and the flight with what was acked always fits.
RecoveryWindow(c, e, acked) ==
  LET left == IF c.recovery_window >= e.lost THEN c.recovery_window - e.lost
                                             ELSE 1
      grown == IF c.recovery = "GROWTH" THEN left + acked ELSE left
  IN  IF c.recovery_window = 0 THEN e.flight + acked
                               ELSE Larger(grown, e.flight + acked)

\* Above the bound the window is not followed: the congestion window is less.
CalculateRecoveryWindow(c, e, acked) ==
  IF ~InRecovery(c) THEN c
  ELSE [c EXCEPT !.recovery_window =
          Smaller(RecoveryWindowBound, Larger(MinCwnd, RecoveryWindow(c, e, acked)))]

StartNextRound(c, starts) == IF starts THEN [c EXCEPT !.loss_events = 0] ELSE c

\* History: the echo of a packet sent in CONSERVATION has come.
NoteAnswer(c, e) ==
  IF HasAck(e) /\ e.acked > c.entered_at THEN [c EXCEPT !.entered_at = NoPacket]
                                         ELSE c

OnCongestionEvent(c, e) ==
  LET starts == StartsRound(c, e)
      acked == IF e.counted THEN 1 ELSE 0
      recovering == UpdateRecoveryState(UpdateRoundTripCounter(NoteAnswer(c, e), starts),
                                        e, starts)
      modelled == CountLosses(MaybeUpdateMinRtt(UpdateModel(recovering, e), e), e)
      cycled == UpdateGainCyclePhase(modelled, e)
      filled == IF starts /\ ~cycled.is_at_full_bandwidth
                  THEN CheckIfFullBandwidthReached(cycled, e) ELSE cycled
      moved == MaybeEnterOrExitProbeRtt(MaybeExitStartupOrDrain(filled, e),
                                        e, starts, MinRttExpires(c, e))
      windowed == CalculateCongestionWindow(CalculatePacingRate(moved), acked)
  IN  StartNextRound(CalculateRecoveryWindow(windowed, e, acked), starts)

----------------------------------------------------------------------------
(* What the manager and the time do.                                       *)

\* A choice is made only where it is read.
Only(condition) == IF condition THEN BOOLEAN ELSE {FALSE}

NoSample(c) == [counted |-> FALSE, sampled |-> FALSE, shorter |-> FALSE,
                bandwidth |-> c.bandwidth]

\* An entry of the sampler is counted, and makes a sample unless nothing had
\* been acked when it was sent: this is told apart where the min RTT may be set
\* without a shorter one.  An app-limited sample enters the filter only as its
\* best; any other may also let the best expire.
Samples(c, app_limited) ==
  {s \in [counted : {TRUE},
          sampled : IF c.min_rtt_age \in {None, MinRttExpiry + 1} THEN BOOLEAN
                                                                ELSE {TRUE},
          shorter : Only(c.min_rtt_age # 0 \/ c.since_min_rtt # 0),
          bandwidth : {b \in Bandwidths \cup {c.bandwidth} :
                         app_limited => b >= c.bandwidth}] :
     s.shorter => s.sampled}

\* checks: the event looks for the full bandwidth.
MayEnterProbeBandwidthMode(c, checks) ==
  CASE c.mode = "PROBE_BW" -> FALSE
    [] c.mode = "PROBE_RTT" -> c.probe_rtt_left = 0
    [] c.mode = "STARTUP" -> checks
    [] OTHER -> TRUE

\* OnCongestionEvent after acked was echoed and `lost' was declared lost; samples
\* has a set for either value of app_limited, which includes that of an
\* app-limited sample.  Losses are excessive only in a round that has some.
Notify(acked, lost, samples, rtt_updated) ==
  LET flight == in_flight \ (lost \cup {acked})
      checks == /\ acked # NoPacket /\ acked > bbr.round_end
                /\ ~bbr.is_at_full_bandwidth
  IN  /\ in_flight' = flight
      /\ \E app_limited \in Only(checks),
            excessive \in Only(checks /\ (lost # {} \/ bbr.loss_events > 0)),
            passed \in Only(bbr.mode = "PROBE_BW"),
            offset \in IF MayEnterProbeBandwidthMode(bbr, checks)
                        THEN Offsets \ {1} ELSE {0} :
           \E sample \in samples[app_limited] :
             bbr' = OnCongestionEvent(bbr,
                      [acked |-> acked, lost |-> Cardinality(lost),
                       prior |-> Cardinality(in_flight),
                       flight |-> Cardinality(flight),
                       counted |-> sample.counted, sampled |-> sample.sampled,
                       bandwidth |-> sample.bandwidth, shorter |-> sample.shorter,
                       app_limited |-> app_limited,
                       losses_excessive |-> excessive,
                       min_rtt_passed |-> passed, offset |-> offset,
                       rtt_updated |-> rtt_updated])
      /\ UNCHANGED sent

Position(p) == Larger(Oldest, p - 1)

\* The packet's number becomes 0.  The client's gate is that of an older
\* window: only its bound is kept.
OnPacketSent ==
  /\ Cardinality(in_flight) < MaxCwnd
  /\ Oldest + 1 \notin in_flight
  /\ in_flight' = {p - 1 : p \in in_flight} \cup {0}
  /\ sent' = Smaller(sent + 1, Reach)
  /\ \E is_app_limited \in Only(in_flight = {}) : bbr' = [bbr EXCEPT
       !.round_end = Position(@), !.end_recovery_at = Position(@),
       !.entered_at = IF @ = NoPacket THEN @ ELSE Position(@),
       !.exiting_quiescence = @ \/ is_app_limited]

\* Losses are the oldest packets in flight, older than the largest acked.
LossesBefore(limit) ==
  {{q \in in_flight : q < k} : k \in Oldest + 1 .. limit}

\* The echo of a packet in flight.
OnAck(p) ==
  /\ p \in in_flight
  /\ \E lost \in LossesBefore(p) :
       Notify(p, lost, [app_limited \in BOOLEAN |-> Samples(bbr, app_limited)],
              TRUE)

\* The echo of a packet lost, timed out or acked before: the sampler may have
\* kept its entry, but IsUnacked finds no RTT in what is left of its record.  A
\* later packet that the lookup may reach is not followed here.
OnLateAck(p) ==
  /\ p \in (1 - sent .. 0) \ in_flight
  /\ \E lost \in LossesBefore(p) :
       Notify(p, lost,
              [app_limited \in BOOLEAN |->
                 {NoSample(bbr)} \cup Samples(bbr, app_limited)],
              FALSE)

\* The loss timer's event has no ack.  The last echo is not kept: any packets
\* of the oldest in flight may be lost.
OnLossTimeout ==
  \E lost \in LossesBefore(0) \ {{}} :
    Notify(NoPacket, lost, [app_limited \in BOOLEAN |-> {NoSample(bbr)}],
           FALSE)

\* RTO: the controller is not told that the packets left the flight.
RetransmitRtoPackets ==
  /\ in_flight # {}
  /\ in_flight' = {}
  /\ UNCHANGED <<bbr, sent>>

Aged(age, limit) == IF age = None THEN None ELSE Smaller(age + 1, limit)

Tick ==
  /\ bbr' = [bbr EXCEPT
       !.min_rtt_age = Aged(@, MinRttExpiry + 1),
       !.since_min_rtt = Aged(@, MinRttExpiry + 1),
       !.low_age = Aged(@, ProbeRttTime),
       !.probe_rtt_left = IF @ = None THEN None ELSE Larger(@ - 1, 0)]
  /\ UNCHANGED <<in_flight, sent>>

Next ==
  \/ OnPacketSent
  \/ \E p \in Oldest + 1 .. 0 : OnAck(p) \/ OnLateAck(p)
  \/ OnLossTimeout
  \/ RetransmitRtoPackets
  \/ Tick

Spec == Init /\ [][Next]_vars

----------------------------------------------------------------------------
(* Properties.                                                             *)

Rates == {0, InitialPacingRate} \cup
         {g * b : g \in {HighGain, DrainGain, 125, 100, 75}, b \in Bandwidths}

\* The type invariant: the ranges of the controller's fields.
TypeOK ==
  /\ bbr \in [mode : Modes, pacing_gain : {HighGain, DrainGain, 125, 100, 75},
              cycle_offset : Offsets, round_end : Oldest .. 0,
              loss_events : 0 .. StartupLossCount,
              is_at_full_bandwidth : BOOLEAN,
              rounds_without_gain : 0 .. StartupRounds - 1,
              bandwidth : Bandwidths \cup {0},
              bandwidth_at_last_round : Bandwidths \cup {0},
              min_rtt_age : None .. MinRttExpiry + 1,
              probe_rtt_left : None .. ProbeRttTime,
              probe_rtt_round_passed : BOOLEAN,
              exiting_quiescence : BOOLEAN,
              recovery : RecoveryStates, end_recovery_at : Oldest .. 0,
              recovery_window : 0 .. RecoveryWindowBound,
              congestion_window : MinCwnd .. MaxCwnd, pacing_rate : Rates,
              rtt_known : BOOLEAN, total_acked : 0 .. InitialCwnd,
              entered_at : Oldest .. NoPacket, low_age : None .. ProbeRttTime,
              since_min_rtt : 0 .. MinRttExpiry + 1]
  /\ in_flight \subseteq Oldest + 1 .. 0
  /\ Cardinality(in_flight) <= MaxCwnd
  /\ sent \in 0 .. Reach

\* The three machines of the controller (mode_, is_at_full_bandwidth_ and
\* recovery_state_) never disagree, however PROBE_RTT interrupts STARTUP and
\* the gain cycle: DRAIN, PROBE_BW and recovery are of a full pipe, STARTUP is
\* not, and the pacing gain is that of the mode and of the cycle's offset.
MachinesAgree ==
  /\ bbr.mode \in {"DRAIN", "PROBE_BW"} => bbr.is_at_full_bandwidth
  /\ bbr.mode = "STARTUP" => ~bbr.is_at_full_bandwidth
  /\ InRecovery(bbr) => bbr.is_at_full_bandwidth
  /\ bbr.pacing_gain = CASE bbr.mode = "STARTUP" -> HighGain
                         [] bbr.mode = "DRAIN" -> DrainGain
                         [] bbr.mode = "PROBE_RTT" -> 100
                         [] OTHER -> kPacingGain[bbr.cycle_offset]

\* "The conservation phase is meant to be lasting for a whole round"
\* (UpdateRecoveryState): CONSERVATION ends exactly when the first echo of a
\* packet sent in it comes, whatever losses, late echoes and timeouts do.
ConservationLastsARound ==
  (bbr.recovery = "CONSERVATION") <=> (bbr.entered_at # NoPacket)

\* "Always allow sending at least |bytes_acked| in response"
\* (CalculateRecoveryWindow): no event in recovery leaves a recovery window
\* below the flight, and one with an ack leaves room for a packet more; the
\* zero that asks for the initial window is never seen.
RecoveryAdmitsAnAnswer ==
  [][InRecovery(bbr') =>
       /\ bbr'.recovery_window >= MinCwnd
       /\ in_flight' \subseteq in_flight /\ in_flight' # in_flight =>
            /\ bbr'.recovery_window >= Cardinality(in_flight')
            /\ (\E p \in in_flight \ in_flight', q \in in_flight' : q < p) =>
                 bbr'.recovery_window > Cardinality(in_flight')]_vars

\* MaybeEnterOrExitProbeRtt: PROBE_RTT is entered only if no sample has
\* renewed the min RTT for kMinRttExpiry and none was measured by a PROBE_RTT,
\* and left only if the flight was low kProbeRttTime ago.
ProbeRttIsHonored ==
  [][/\ bbr.mode # "PROBE_RTT" /\ bbr'.mode = "PROBE_RTT" =>
          bbr.since_min_rtt > MinRttExpiry
     /\ bbr.mode = "PROBE_RTT" /\ bbr'.mode # "PROBE_RTT" =>
          bbr.low_age = ProbeRttTime]_vars

\* "Do not decrease the pacing rate during startup", "do not decrease the
\* window": until the pipe is found full, neither goes down, through a
\* PROBE_RTT too, though the bandwidth estimate may.
StartupNeverShrinks ==
  [][~bbr'.is_at_full_bandwidth =>
       /\ bbr'.pacing_rate >= bbr.pacing_rate
       /\ bbr'.congestion_window >= bbr.congestion_window]_vars

=============================================================================
