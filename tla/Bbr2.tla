------------------------------- MODULE Bbr2 --------------------------------
(***************************************************************************)
(* Bbr2Sender with its four modes and its network model: which mode and    *)
(* phase the controller is in, when rounds and clocks move it on, and when *)
(* its bounds hold.                                                        *)
(*                                                                         *)
(* Abstractions.  Rates, windows and byte counts are reduced to what moves *)
(* the mode machine: bytes in flight and the BDP are counted in packets,   *)
(* the bounds are either set or not, and comparisons of other quantities   *)
(* are choices of the event (Events).  Points in time are ages that stop    *)
(* growing once no comparison can tell them from larger ones, and stop     *)
(* while no code reads them.                                               *)
(***************************************************************************)
EXTENDS Integers

CONSTANTS
  MaxFlight,        \* largest congestion window, in packets
  MinCwnd,          \* cwnd_limits().Min(), in packets
  Bdps,             \* values of BDP(), in packets
  AckHeights,       \* values of MaxAckHeight(), in packets
  WordSize,         \* 2^64 in units of packets
  StartupLossCount, \* startup_full_loss_count
  ProbeLossCount,   \* probe_bw_full_loss_count
  FullBwRounds,     \* startup_full_bw_rounds
  MinRtt,           \* the min RTT, in ticks of the clock
  ProbeWait,        \* probe_wait_time, in ticks
  ProbeRttPeriod,   \* probe_rtt_period, in ticks
  ProbeRttDuration, \* probe_rtt_duration, in ticks
  MaxQuiescence     \* the age of a quiescence saturates here

ASSUME PacketAssumption ==
  /\ MaxFlight \in Nat \ {0}
  /\ MinCwnd \in 1 .. MaxFlight
  /\ Bdps \subseteq Nat
  /\ WordSize \in Nat \ {0}
  /\ AckHeights \subseteq 0 .. WordSize - 1
ASSUME CountAssumption ==
  /\ StartupLossCount \in Nat \ {0}
  /\ ProbeLossCount \in Nat \ {0}
  /\ FullBwRounds \in Nat \ {0}
ASSUME ClockAssumption ==
  /\ MinRtt \in Nat
  /\ ProbeWait \in Nat
  /\ ProbeRttPeriod \in Nat \ {0}
  /\ ProbeRttDuration \in Nat
  /\ MaxQuiescence \in Nat \ {0}

VARIABLES
  bbr,        \* the controller
  in_flight,  \* packets in flight, as the unacked map counts them
  late,       \* whether the sampler tracks packets that have left flight
  window      \* a bound on the congestion window

vars == <<bbr, in_flight, late, window>>

None == -1   \* QuicTime::Zero()

Larger(m, n) == IF m > n THEN m ELSE n
Smaller(m, n) == IF m < n THEN m ELSE n

Modes == {"STARTUP", "DRAIN", "PROBE_BW", "PROBE_RTT"}
Phases == {"PROBE_NOT_STARTED", "PROBE_DOWN", "PROBE_CRUISE", "PROBE_REFILL",
           "PROBE_UP"}

\* In thousandths, as Bbr2Params gives them.
StartupGain == 2885
DrainGain == 347
PacingGainForPhase(phase) ==
  CASE phase = "PROBE_UP" -> 1250
    [] phase = "PROBE_DOWN" -> 750
    [] OTHER -> 1000

MaxLossEvents == Larger(StartupLossCount, ProbeLossCount)

Init ==
  /\ bbr = [mode |-> "STARTUP", next |-> "STARTUP",
            phase |-> "PROBE_NOT_STARTED", rounds_in_phase |-> 0,
            cycle_age |-> 0, phase_age |-> 0,
            is_sample_from_probing |-> FALSE, has_advanced_max_bw |-> FALSE,
            probed_too_high |-> FALSE, stopped_risky_probe |-> FALSE,
            exit_time |-> None,
            pacing_gain |-> StartupGain,
            round_started |-> FALSE, sent_in_round |-> FALSE,
            loss_events |-> 0,
            max_bw_older |-> FALSE, max_bw_newer |-> FALSE,
            bandwidth_lo |-> FALSE, inflight_lo |-> FALSE,
            inflight_hi |-> FALSE,
            full_bandwidth_reached |-> FALSE, has_baseline |-> FALSE,
            rounds_without_growth |-> 0,
            min_rtt_age |-> ProbeRttPeriod, quiescence |-> None, resume_age |-> 0,
            \* history, read by the properties only
            advances |-> 0, cuts |-> 0, changes |-> 0, restless |-> FALSE,
            low_age |-> None,
            drained |-> TRUE, since_min_rtt |-> ProbeRttPeriod,
            sent_since_refill |-> FALSE, underfilled |-> FALSE]
  /\ in_flight = 0
  /\ late = FALSE
  /\ window = MaxFlight

----------------------------------------------------------------------------
(* Bbr2NetworkModel.                                                       *)

\* last_packet_send_state: the sampler knows a packet acked or lost.
IsValid(e) == e.sample_min_rtt # "infinite" \/ e.lost > 0
LastSampleIsAppLimited(e) == IsValid(e) /\ e.app_limited

OnNewRound(c) == [c EXCEPT !.loss_events = 0]

\* The current round ends with the last packet sent.
RestartRoundEarly(c) == [OnNewRound(c) EXCEPT !.sent_in_round = FALSE]

\* Faulty: the time of the sample is not stored.
ForceUpdateMinRttUnstamped(c) == c

\* MinRttFilter: the sample is stored with the current time.  A quiescence
\* that began before now will push that time into the future.
ForceUpdateMinRtt(c) ==
  [c EXCEPT !.min_rtt_age = 0,
            !.resume_age = IF c.quiescence = None THEN 0 ELSE -c.quiescence]

\* Faulty: an empty slot is moved like a full one.
AdvanceMaxBandwidthFilterUnchecked(c) ==
  [c EXCEPT !.has_advanced_max_bw = TRUE, !.advances = @ + 1,
            !.max_bw_older = c.max_bw_newer, !.max_bw_newer = FALSE]

\* Bbr2MaxBandwidthFilter, reduced to which of its slots are not zero: Advance
\* moves the newer maximum, but keeps the older one if there is none.  The flag
\* is set, and the history counts the call, either way.
AdvanceMaxBandwidthFilter(c) ==
  [c EXCEPT !.has_advanced_max_bw = TRUE, !.advances = @ + 1,
            !.max_bw_older = @ \/ c.max_bw_newer, !.max_bw_newer = FALSE]

\* A sample with an RTT has a bandwidth too.
UpdateMaxBandwidth(c, e) ==
  [c EXCEPT !.max_bw_newer = @ \/ e.sample_min_rtt # "infinite"]

\* Losses of a round pull the lower bounds down at its end, unless the
\* sender was probing when the event came.
AdaptLowerBounds(c, e) ==
  IF e.end_of_round_trip /\ ~e.is_probing_for_bandwidth /\ c.loss_events > 0
    THEN [c EXCEPT !.bandwidth_lo = TRUE, !.inflight_lo = TRUE]
    ELSE c

\* OnPacketsAcked has found the end of a round.
StartRound(c, e) ==
  IF e.end_of_round_trip
    THEN [c EXCEPT !.round_started = TRUE, !.sent_in_round = FALSE]
    ELSE c

UpdateMinRtt(c, e) ==
  IF e.sample_min_rtt = "smaller"
    THEN [ForceUpdateMinRtt(c) EXCEPT !.since_min_rtt = 0]
    ELSE c

CountLosses(c, e) ==
  IF e.lost = 0 THEN c
  ELSE [c EXCEPT !.loss_events = Smaller(@ + 1, MaxLossEvents)]

OnCongestionEventStart(c, e) ==
  LET sampled == UpdateMaxBandwidth(StartRound(c, e), e)
  IN  AdaptLowerBounds(CountLosses(UpdateMinRtt(sampled, e), e), e)

\* MaybeExpireMinRtt: true only for an event with an RTT sample.
MinRttExpires(c, e) ==
  c.min_rtt_age >= ProbeRttPeriod /\ e.sample_min_rtt # "infinite"

IsInflightTooHigh(c, e, max_loss_events) ==
  /\ IsValid(e)
  /\ c.loss_events >= max_loss_events
  /\ e.loss_above_threshold

----------------------------------------------------------------------------
(* Bbr2ProbeBwMode.                                                        *)

EnterProbeDown(c, probed_too_high, stopped_risky_probe) ==
  [RestartRoundEarly(c) EXCEPT
     !.probed_too_high = probed_too_high,
     !.stopped_risky_probe = stopped_risky_probe,
     !.phase = "PROBE_DOWN",
     !.cycle_age = 0,
     !.phase_age = 0,
     !.rounds_in_phase = 0,
     !.has_advanced_max_bw = FALSE,
     !.advances = 0,
     !.sent_since_refill = FALSE]

ExitProbeDown(c) ==
  IF c.phase = "PROBE_DOWN" /\ ~c.has_advanced_max_bw
    THEN AdvanceMaxBandwidthFilter(c)
    ELSE c

EnterProbeCruise(c) ==
  [ExitProbeDown(c) EXCEPT
     !.phase = "PROBE_CRUISE",
     !.phase_age = 0,
     !.rounds_in_phase = 0,
     !.is_sample_from_probing = FALSE]

EnterProbeRefill(c) ==
  [RestartRoundEarly(ExitProbeDown(c)) EXCEPT
     !.phase = "PROBE_REFILL",
     !.phase_age = 0,
     !.rounds_in_phase = 0,
     !.is_sample_from_probing = FALSE,
     !.stopped_risky_probe = FALSE,
     !.bandwidth_lo = FALSE,
     !.inflight_lo = FALSE,
     !.sent_since_refill = FALSE]

EnterProbeUp(c) ==
  [RestartRoundEarly(c) EXCEPT
     !.phase = "PROBE_UP",
     !.phase_age = 0,
     !.rounds_in_phase = 0,
     !.is_sample_from_probing = TRUE,
     !.cuts = 0]

\* MaybeAdaptUpperBounds returns ADAPTED_PROBED_TOO_HIGH.
ProbedTooHigh(c, e) ==
  c.is_sample_from_probing /\ IsInflightTooHigh(c, e, ProbeLossCount)

\* Faulty: the sample goes on counting as one of the probe.
MaybeAdaptUpperBoundsAgain(c, e) ==
  IF ProbedTooHigh(c, e) /\ ~LastSampleIsAppLimited(e)
    THEN [c EXCEPT !.inflight_hi = TRUE, !.cuts = @ + 1]
    ELSE c

\* MaybeAdaptUpperBounds: inflight_hi is cut by the first event that finds
\* the probe too high; raising it later does not set it anew.
MaybeAdaptUpperBounds(c, e) ==
  IF ~ProbedTooHigh(c, e) THEN c
  ELSE IF LastSampleIsAppLimited(e)
    THEN [c EXCEPT !.is_sample_from_probing = FALSE]
    ELSE [c EXCEPT !.is_sample_from_probing = FALSE, !.inflight_hi = TRUE,
                   !.cuts = @ + 1]

\* Faulty: only the rounds of Reno count, not the time waited.
IsTimeForRenoOnly(c, e) == e.reno_rounds_passed

IsTimeToProbeBandwidth(c, e) ==
  c.cycle_age > ProbeWait \/ e.reno_rounds_passed

HasStayedLongEnoughInProbeDown(c) == c.phase_age > MinRtt

\* The first round of PROBE_DOWN acks the packets of the probe; it is over.
EndSampling(c, e) ==
  LET advanced == IF LastSampleIsAppLimited(e) THEN c
                                               ELSE AdvanceMaxBandwidthFilter(c)
  IN  [advanced EXCEPT !.is_sample_from_probing = FALSE]

LeaveProbeDown(c, e) ==
  IF IsTimeToProbeBandwidth(c, e) THEN EnterProbeRefill(c)
  ELSE IF \/ HasStayedLongEnoughInProbeDown(c)
          \/ ~e.at_inflight_hi /\ e.bytes_in_flight < e.bdp
    THEN EnterProbeCruise(c)
    ELSE c

UpdateProbeDown(c, e) ==
  LET round_passed == c.rounds_in_phase = 1 /\ e.end_of_round_trip
      sampled == IF round_passed THEN EndSampling(c, e) ELSE c
  IN  IF round_passed /\ c.stopped_risky_probe /\ ~c.probed_too_high
        THEN EnterProbeRefill(sampled)
        ELSE LeaveProbeDown(MaybeAdaptUpperBounds(sampled, e), e)

UpdateProbeCruise(c, e) ==
  LET adapted == MaybeAdaptUpperBounds(c, e)
  IN  IF IsTimeToProbeBandwidth(adapted, e) THEN EnterProbeRefill(adapted)
                                            ELSE adapted

UpdateProbeRefill(c, e) ==
  LET adapted == MaybeAdaptUpperBounds(c, e)
  IN  IF adapted.rounds_in_phase > 0 /\ e.end_of_round_trip
        THEN EnterProbeUp(adapted)
        ELSE adapted

\* The threshold is two packets above the largest ack height, and the BDP
\* has no part in it.
QueuingThreshold(e) == (2 + e.max_ack_height) % WordSize

UpdateProbeUp(c, e) ==
  LET adapted == MaybeAdaptUpperBounds(c, e)
      is_risky == c.probed_too_high /\ e.at_inflight_hi
      is_queuing == /\ ~is_risky
                    /\ c.rounds_in_phase > 0
                    /\ e.bytes_in_flight >= QueuingThreshold(e)
  IN  IF ProbedTooHigh(c, e) THEN EnterProbeDown(adapted, TRUE, FALSE)
      ELSE IF is_risky \/ is_queuing
        THEN [EnterProbeDown(adapted, FALSE, is_risky) EXCEPT
                !.underfilled = is_queuing /\ 4 * e.bytes_in_flight < 5 * e.bdp]
        ELSE adapted

UpdateProbeBw(c, e) ==
  CASE c.phase = "PROBE_UP" -> UpdateProbeUp(c, e)
    [] c.phase = "PROBE_DOWN" -> UpdateProbeDown(c, e)
    [] c.phase = "PROBE_CRUISE" -> UpdateProbeCruise(c, e)
    [] c.phase = "PROBE_REFILL" -> UpdateProbeRefill(c, e)

\* Faulty: the round the phase began in counts as one of its own.
CountEveryRound(c, e) ==
  IF e.end_of_round_trip
    THEN [c EXCEPT !.rounds_in_phase =
                     Smaller(@ + 1, IF c.phase = "PROBE_DOWN" THEN 2 ELSE 1)]
    ELSE c

\* A round that ends in the very event that began the phase is not of it.
CountRound(c, e) ==
  IF e.end_of_round_trip /\ c.phase_age # 0
    THEN [c EXCEPT !.rounds_in_phase =
                     Smaller(@ + 1, IF c.phase = "PROBE_DOWN" THEN 2 ELSE 1)]
    ELSE c

\* Faulty: PROBE_DOWN is not asked to have ended.
SwitchInProbeDown(phase, c, e) ==
  IF phase = "PROBE_DOWN" /\ MinRttExpires(c, e)
    THEN [ForceUpdateMinRtt(c) EXCEPT !.next = "PROBE_RTT"]
    ELSE [c EXCEPT !.next = "PROBE_BW",
                   !.pacing_gain = PacingGainForPhase(c.phase)]

\* The event has ended the phase it found: maybe PROBE_RTT comes first.
SwitchOrSetGain(phase, c, e) ==
  IF phase = "PROBE_DOWN" /\ c.phase # "PROBE_DOWN" /\ MinRttExpires(c, e)
    THEN [ForceUpdateMinRtt(c) EXCEPT !.next = "PROBE_RTT"]
    ELSE [c EXCEPT !.next = "PROBE_BW",
                   !.pacing_gain = PacingGainForPhase(c.phase)]

ProbeBwOnCongestionEvent(c, e) ==
  SwitchOrSetGain(c.phase, UpdateProbeBw(CountRound(c, e), e), e)

\* The first cycle begins, or the one PROBE_RTT interrupted goes on.
EnterProbeBw(c) ==
  LET resumed == [c EXCEPT !.cycle_age = 0, !.low_age = None,
                           !.drained = c.low_age > ProbeRttDuration]
  IN  CASE c.phase = "PROBE_NOT_STARTED" -> EnterProbeDown(c, FALSE, FALSE)
        [] c.phase = "PROBE_CRUISE" -> EnterProbeCruise(resumed)
        [] c.phase = "PROBE_REFILL" -> EnterProbeRefill(resumed)
        [] OTHER -> resumed

----------------------------------------------------------------------------
(* The other modes.                                                        *)

\* Faulty: one round more without growth is needed.
CheckBandwidthGrowthLate(c, e) ==
  IF e.bandwidth_grew \/ ~c.has_baseline
    THEN [c EXCEPT !.has_baseline = TRUE, !.rounds_without_growth = 0]
    ELSE [c EXCEPT !.rounds_without_growth = @ + 1,
                   !.full_bandwidth_reached =
                     c.rounds_without_growth + 1 > FullBwRounds]

\* CheckBandwidthGrowth: the first baseline always counts as growth.
CheckBandwidthGrowth(c, e) ==
  IF e.bandwidth_grew \/ ~c.has_baseline
    THEN [c EXCEPT !.has_baseline = TRUE, !.rounds_without_growth = 0]
    ELSE [c EXCEPT !.rounds_without_growth = @ + 1,
                   !.full_bandwidth_reached =
                     c.rounds_without_growth + 1 >= FullBwRounds]

\* Asked only when the bandwidth has not grown.
CheckExcessiveLosses(c, e) ==
  IF /\ c.rounds_without_growth > 0
     /\ ~c.full_bandwidth_reached
     /\ IsInflightTooHigh(c, e, StartupLossCount)
    THEN [c EXCEPT !.inflight_hi = TRUE, !.full_bandwidth_reached = TRUE]
    ELSE c

LeaveStartup(c) ==
  [c EXCEPT !.next = IF c.full_bandwidth_reached THEN "DRAIN" ELSE "STARTUP"]

StartupOnCongestionEvent(c, e) ==
  LeaveStartup(IF e.end_of_round_trip /\ ~LastSampleIsAppLimited(e)
                 THEN CheckExcessiveLosses(CheckBandwidthGrowth(c, e), e)
                 ELSE c)

DrainOnCongestionEvent(c, e) ==
  [c EXCEPT !.pacing_gain = DrainGain,
            !.next = IF e.bytes_in_flight <= Larger(e.bdp, MinCwnd)
                       THEN "PROBE_BW" ELSE "DRAIN"]

InflightTarget(bdp) == bdp \div 2

\* Faulty: an exit time that was never set counts as passed.
ProbeRttUnsetHasPassed(c, e) ==
  [c EXCEPT !.next = IF c.exit_time \in {None, 0} THEN "PROBE_BW"
                                                 ELSE "PROBE_RTT"]

\* Faulty: every event with a low flight sets the exit time anew.
ProbeRttRestartsExit(c, e) ==
  IF e.bytes_in_flight <= Larger(InflightTarget(e.bdp), MinCwnd)
    THEN [c EXCEPT !.next = "PROBE_RTT", !.low_age = 0,
                   !.exit_time = ProbeRttDuration + 1]
    ELSE [c EXCEPT !.next = IF c.exit_time = 0 THEN "PROBE_BW" ELSE "PROBE_RTT"]

\* exit_time is the ticks left until the exit time has passed.
ProbeRttOnCongestionEvent(c, e) ==
  IF c.exit_time = None
    THEN IF e.bytes_in_flight <= Larger(InflightTarget(e.bdp), MinCwnd)
           THEN [c EXCEPT !.next = "PROBE_RTT", !.low_age = 0,
                          !.exit_time = ProbeRttDuration + 1]
           ELSE [c EXCEPT !.next = "PROBE_RTT"]
    ELSE [c EXCEPT !.next = IF c.exit_time = 0 THEN "PROBE_BW" ELSE "PROBE_RTT"]

EnterProbeRtt(c) ==
  [c EXCEPT !.pacing_gain = 1000, !.exit_time = None, !.low_age = None,
            !.since_min_rtt = 0]

----------------------------------------------------------------------------
(* Bbr2Sender.                                                             *)

\* Leave the mode and enter the next one.  Only STARTUP does anything when
\* it is left, and PROBE_BW and PROBE_RTT when they are entered.  The count
\* of rounds without growth has no reader after STARTUP and is dropped.
ChangeMode(c) ==
  LET left == IF c.mode = "STARTUP"
                THEN [c EXCEPT !.bandwidth_lo = FALSE, !.rounds_without_growth = 0]
                ELSE c
      moved == [left EXCEPT !.mode = c.next, !.changes = @ + 1]
  IN  CASE c.next = "PROBE_BW" -> EnterProbeBw(moved)
        [] c.next = "PROBE_RTT" -> EnterProbeRtt(moved)
        [] OTHER -> moved

OnModeEvent(c, e) ==
  CASE c.mode = "STARTUP" -> StartupOnCongestionEvent(c, e)
    [] c.mode = "DRAIN" -> DrainOnCongestionEvent(c, e)
    [] c.mode = "PROBE_BW" -> ProbeBwOnCongestionEvent(c, e)
    [] c.mode = "PROBE_RTT" -> ProbeRttOnCongestionEvent(c, e)

MaxModeChangesPerCongestionEvent == 4

\* After the last change allowed the mode entered is not asked.
Settle(c) ==
  IF c.next = c.mode THEN [c EXCEPT !.changes = 0, !.restless = c.changes > 3]
                     ELSE [ChangeMode(c) EXCEPT !.changes = 0, !.restless = TRUE]

\* The event is handed on to the mode entered.
Turn(c, e) == IF c.next = c.mode THEN c ELSE OnModeEvent(ChangeMode(c), e)

\* The loop over the modes.
ModeLoop(c, e) ==
  LET turn[k \in 0 .. MaxModeChangesPerCongestionEvent] ==
        IF k = 0 THEN OnModeEvent([c EXCEPT !.underfilled = FALSE], e)
                 ELSE Turn(turn[k - 1], e)
  IN  Settle(turn[MaxModeChangesPerCongestionEvent])

IsProbingForBandwidth(c) ==
  \/ c.mode = "STARTUP"
  \/ c.mode = "PROBE_BW" /\ c.phase \in {"PROBE_REFILL", "PROBE_UP"}

OnCongestionEventFinish(c, e) ==
  IF e.end_of_round_trip THEN OnNewRound(c) ELSE c

\* OnEnterQuiescence: the model finds nothing in flight.
MaybeEnterQuiescence(c, e) ==
  IF e.bytes_in_flight = 0
    THEN [c EXCEPT !.quiescence = 0, !.resume_age = c.min_rtt_age]
    ELSE c

\* OnExitQuiescence: PROBE_BW postpones the min RTT's time by the time spent
\* quiescent, PROBE_RTT ends once its exit time, maybe never set, has passed.
ExitQuiescence(c) ==
  LET awake == [c EXCEPT !.quiescence = None, !.resume_age = 0]
  IN  IF c.quiescence = None THEN c
      ELSE IF c.mode = "PROBE_BW"
        THEN [awake EXCEPT !.min_rtt_age = c.resume_age]
      ELSE IF c.mode = "PROBE_RTT" /\ c.exit_time \in {None, 0}
        THEN [ChangeMode([awake EXCEPT !.next = "PROBE_BW"]) EXCEPT
                !.changes = 0, !.drained = TRUE]
        ELSE awake

----------------------------------------------------------------------------
(* Steps.                                                                  *)

\* Packets are sent while the window allows it; the first one after an idle
\* time ends the quiescence.
OnPacketSent ==
  /\ in_flight < window
  /\ LET awake == IF in_flight = 0 THEN ExitQuiescence(bbr) ELSE bbr
     IN  bbr' = [awake EXCEPT !.sent_in_round = TRUE,
                              !.sent_since_refill =
                                @ \/ awake.phase = "PROBE_REFILL"]
  /\ in_flight' = in_flight + 1
  /\ UNCHANGED <<late, window>>

\* A quantity no comparison will read has one value.
If(condition, values, default) == IF condition THEN values ELSE {default}
Only(condition) == If(condition, BOOLEAN, FALSE)

InPhase(phases) == bbr.mode = "PROBE_BW" /\ bbr.phase \in phases

\* The event may reach UpdateProbeDown.
MayReachProbeDown(round) ==
  \/ bbr.mode = "STARTUP" /\ round
  \/ bbr.mode = "DRAIN"
  \/ InPhase({"PROBE_DOWN"})

\* The events of an ack and of losses, or of losses alone.  sampled: the
\* sampler knows the packet echoed; round: its ack ends the round.  The RTT
\* sample is missing, above the minimum, or below it; the first one becomes
\* the minimum.
\* The client never calls OnApplicationLimited, and the sampler drops its
\* first mark with the first ack: only that ack is of an app-limited packet.
Events(sampled, lost, round) ==
  LET down == MayReachProbeDown(round)
      up == InPhase({"PROBE_UP"})
      samples == {"kept"}
                   \cup (IF down THEN {"infinite"} ELSE {})
                   \cup (IF bbr.min_rtt_age = 0 THEN {} ELSE {"smaller"})
      first == ~bbr.round_started
  IN  [lost : {lost},
       bytes_in_flight : {Larger(0, in_flight - lost
                                      - (IF sampled THEN 1 ELSE 0))},
       is_probing_for_bandwidth : {IsProbingForBandwidth(bbr)},
       end_of_round_trip : {round},
       sample_min_rtt : If(sampled, IF first THEN {"smaller"} ELSE samples,
                           "infinite"),
       app_limited : {first},
       loss_above_threshold :
         Only(/\ lost > 0 \/ bbr.loss_events > 0
              /\ (bbr.mode = "STARTUP" /\ round) \/ bbr.is_sample_from_probing),
       bandwidth_grew : Only(bbr.mode = "STARTUP" /\ bbr.has_baseline /\ round),
       reno_rounds_passed :
         Only(down \/ (bbr.phase = "PROBE_CRUISE" /\ bbr.exit_time \in {None, 0})),
       at_inflight_hi :
         Only((up \/ down) /\ (bbr.inflight_hi \/ bbr.mode = "STARTUP")),
       max_ack_height : If(up, AckHeights, 0),
       bdp : If(up \/ down \/ bbr.mode = "PROBE_RTT", Bdps, 0)]

\* OnPacketsAcked: the first ack ends a round, and so may that of a packet
\* sent since the last round ended.
EndsRound == IF bbr.round_started THEN Only(bbr.sent_in_round) ELSE {TRUE}

\* The sampler forgets the packets below the map's front one event late.
LateAfter(settles, lost) ==
  settles \/ lost > 0 \/ (late /\ in_flight > 0)

\* cwnd_limits().
ApplyLimits(cwnd) == Smaller(MaxFlight, Larger(MinCwnd, cwnd))

\* The controller is c once the event is over; the map's count follows.
Conclude(c, e, settles) ==
  /\ bbr' = MaybeEnterQuiescence(c, e)
  /\ in_flight' = in_flight - e.lost - (IF settles THEN 1 ELSE 0)
  /\ late' = LateAfter(settles, e.lost)
  /\ window' = IF c.mode = "PROBE_RTT"
                 THEN ApplyLimits(InflightTarget(e.bdp))
                 ELSE MaxFlight

OnCongestionEvent(e, settles) ==
  Conclude(OnCongestionEventFinish(ModeLoop(OnCongestionEventStart(bbr, e), e), e),
           e, settles)

\* The echo of a packet in flight, with the losses it uncovers.
OnAck ==
  \E lost \in 0 .. in_flight - 1, round \in EndsRound :
    \E e \in Events(TRUE, lost, round) : OnCongestionEvent(e, TRUE)

\* The echo of a packet that has left flight.  If the map has dropped the
\* packet it may settle another one, which the sampler is not told of.
OnLateAck ==
  \E sampled, settles \in BOOLEAN, round \in EndsRound, lost \in 0 .. in_flight :
    /\ sampled => late
    /\ ~sampled => bbr.round_started
    /\ settles => ~sampled /\ lost < in_flight
    /\ \E e \in Events(sampled, lost, round) : OnCongestionEvent(e, settles)

\* The loss timer.
OnLosses ==
  /\ bbr.round_started
  /\ \E lost \in 1 .. in_flight : \E e \in Events(FALSE, lost, FALSE) :
       OnCongestionEvent(e, FALSE)

\* The RTO gives up the whole flight without telling the controller.
OnRetransmissionTimeout ==
  /\ in_flight > 0
  /\ in_flight' = 0
  /\ late' = TRUE
  /\ UNCHANGED <<bbr, window>>

Older(age, bound) == Smaller(age + 1, bound)

\* Time passes.
Tick ==
  /\ bbr' = [bbr EXCEPT
       !.cycle_age = IF InPhase({"PROBE_DOWN", "PROBE_CRUISE"})
                       THEN Older(@, ProbeWait + 1) ELSE @,
       !.phase_age = IF InPhase({"PROBE_DOWN"}) THEN Older(@, MinRtt + 1)
                     ELSE IF bbr.mode = "PROBE_BW" THEN 1 ELSE @,
       !.min_rtt_age = Older(@, ProbeRttPeriod),
       !.exit_time = IF @ > 0 THEN @ - 1 ELSE @,
       !.quiescence = IF @ = None THEN None ELSE Older(@, MaxQuiescence),
       !.low_age = IF @ = None THEN None ELSE Older(@, ProbeRttDuration + 1),
       !.since_min_rtt = Older(@, ProbeRttPeriod)]
  /\ UNCHANGED <<in_flight, late, window>>

Next ==
  \/ OnPacketSent
  \/ OnAck
  \/ OnLateAck
  \/ OnLosses
  \/ OnRetransmissionTimeout
  \/ Tick

Spec == Init /\ [][Next]_vars

\* Every packet leaves flight, and of the packets sent again and again not
\* every one is lost: rounds end.
FlightFalls == in_flight' < in_flight
RoundEnds == bbr.sent_in_round /\ ~bbr'.sent_in_round
FairNetwork ==
  /\ []<>(in_flight > 0) => []<><<FlightFalls>>_vars
  /\ []<>(in_flight > 0 /\ bbr.sent_in_round) => []<><<RoundEnds>>_vars

\* Time passes and an idle sender sends.
FairSpec ==
  /\ Spec
  /\ WF_vars(Tick)
  /\ WF_vars(in_flight = 0 /\ OnPacketSent)
  /\ FairNetwork

----------------------------------------------------------------------------
(* Properties.                                                             *)

\* The controller's fields hold values of their types.
TypeOK ==
  /\ bbr.mode \in Modes
  /\ bbr.next \in Modes
  /\ bbr.phase \in Phases
  /\ bbr.rounds_in_phase \in 0 .. 2
  /\ bbr.cycle_age \in 0 .. ProbeWait + 1
  /\ bbr.phase_age \in 0 .. MinRtt + 1
  /\ bbr.exit_time \in None .. ProbeRttDuration + 1
  /\ bbr.pacing_gain \in {StartupGain, DrainGain, 750, 1000, 1250}
  /\ bbr.loss_events \in 0 .. MaxLossEvents
  /\ bbr.rounds_without_growth \in 0 .. FullBwRounds - 1
  /\ bbr.min_rtt_age \in -MaxQuiescence .. ProbeRttPeriod
  /\ bbr.quiescence \in None .. MaxQuiescence
  /\ bbr.resume_age \in -MaxQuiescence .. ProbeRttPeriod
  /\ in_flight \in 0 .. MaxFlight
  /\ window \in 1 .. MaxFlight
  /\ late \in BOOLEAN

\* STARTUP lasts exactly until the full bandwidth is reached, the probing
\* cycle starts when DRAIN ends, and PROBE_RTT interrupts the cycle only
\* between PROBE_DOWN and PROBE_UP: no path returns to an earlier stage or
\* leaves the mode out of step with its cycle.
ModeFollowsProgress ==
  /\ bbr.mode = "STARTUP" <=> ~bbr.full_bandwidth_reached
  /\ bbr.phase = "PROBE_NOT_STARTED" <=> bbr.mode \in {"STARTUP", "DRAIN"}
  /\ bbr.mode = "PROBE_RTT" => bbr.phase \in {"PROBE_CRUISE", "PROBE_REFILL"}
  /\ bbr.next = bbr.mode

\* Whatever path led to the mode and phase, the pacing rate is multiplied by
\* their gain: also after PROBE_RTT, and when the loop changed modes twice.
GainFollowsPhase ==
  bbr.pacing_gain =
    CASE bbr.mode = "STARTUP" -> StartupGain
      [] bbr.mode = "DRAIN" -> DrainGain
      [] bbr.mode = "PROBE_RTT" -> 1000
      [] OTHER -> PacingGainForPhase(bbr.phase)

\* While the sender probes for bandwidth the lower bounds do not hold it
\* back, although losses go on and rounds end.
ProbingIsUnbounded ==
  IsProbingForBandwidth(bbr) => ~bbr.bandwidth_lo /\ ~bbr.inflight_lo

\* The machine of the modes, that of the phases and what they set agree.
PhasesAgree == ModeFollowsProgress /\ GainFollowsPhase /\ ProbingIsUnbounded

\* "Whether max bandwidth filter window has advanced in this cycle. It is
\* advanced once per cycle": AdvanceMaxBandwidthFilter, which moves the window if
\* it holds a newer maximum, is called at most once in PROBE_DOWN and by its end
\* exactly once, also if PROBE_RTT interrupts the cycle.
FilterAdvancesOncePerCycle ==
  /\ bbr.advances = (IF bbr.has_advanced_max_bw THEN 1 ELSE 0)
  /\ bbr.phase \in {"PROBE_CRUISE", "PROBE_REFILL", "PROBE_UP"} =>
       bbr.advances = 1

\* Losses cut inflight_hi at most once per probe, and only in PROBE_UP or
\* the first round of PROBE_DOWN, whose acks are of packets sent in PROBE_UP.
ProbeCutsOnce ==
  /\ bbr.cuts <= 1
  /\ bbr.is_sample_from_probing =>
       /\ bbr.cuts = 0
       /\ \/ bbr.phase = "PROBE_UP"
          \/ bbr.phase = "PROBE_DOWN" /\ bbr.rounds_in_phase = 0

\* After the first ack the maximum bandwidth is never forgotten (it would leave
\* MaxBandwidth() and the BDP zero), through whole cycles without a sample.
MaxBandwidthIsKept ==
  bbr.round_started => bbr.max_bw_older \/ bbr.max_bw_newer

\* Each cycle calls for one advance of the filter, which keeps its maximum if
\* there is no newer one, and cuts inflight_hi no more than once.
CycleIsCounted ==
  FilterAdvancesOncePerCycle /\ MaxBandwidthIsKept /\ ProbeCutsOnce

\* An event changes the mode at most three times, from STARTUP to PROBE_RTT:
\* the bound of the loop is never what ends it.
ModeLoopSettles == ~bbr.restless

\* REFILL lasts a round: PROBE_UP begins only with the ack of a packet sent
\* since that phase was entered, or entered again after PROBE_RTT.
RefillLastsARound == bbr.phase = "PROBE_UP" => bbr.sent_since_refill

\* PROBE_RTT is left only when the flight was as low as it demands: by an
\* event once that has lasted its duration, by a send only from idleness.
ProbeRttDrains == bbr.drained

\* Neither REFILL nor PROBE_RTT ends before what it waits for has happened.
PhasesLastLongEnough == RefillLastsARound /\ ProbeRttDrains

\* PROBE_RTT interrupts a flow only if its minimum RTT is as old as the
\* filter's period: not after a newer minimum, nor after the last PROBE_RTT,
\* however the time was postponed in between.
ProbeRttIsPeriodic ==
  [][bbr.mode # "PROBE_RTT" /\ bbr'.mode = "PROBE_RTT" =>
       bbr.since_min_rtt >= ProbeRttPeriod]_vars

\* Once in PROBE_BW the sender probes for more bandwidth, again and again
\* until it does: no chain of waits, losses and PROBE_RTTs puts it off forever.
BandwidthIsProbed == bbr.mode = "PROBE_BW" ~> bbr.phase = "PROBE_UP"

\* PROBE_RTT ends.
ProbeRttEnds == bbr.mode = "PROBE_RTT" ~> bbr.mode = "PROBE_BW"

\* "Multiplier to get target inflight (as multiple of BDP) for PROBE_UP
\* phase": a probe that ends for its queue has 1.25 BDP in flight.
ProbeUpFillsThePipe == ~bbr.underfilled
============================================================================
