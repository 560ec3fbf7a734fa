--------------------------- MODULE BbrSenderProofs ---------------------------
(***************************************************************************)
(* Proofs about BbrSender, for windows, gain cycles, rounds and probing    *)
(* times of any length.                                                    *)
(*                                                                         *)
(* An event passes through four stages, in the code's order: the recovery  *)
(* state, the model (bandwidth and min RTT), the modes, and the windows.   *)
(* Each stage has a lemma that says what it establishes and what it leaves *)
(* alone; OnCongestionEventKeeps puts them together.                       *)
(***************************************************************************)
EXTENDS BbrSender, FiniteSetTheorems, TLAPS

----------------------------------------------------------------------------
(* The inductive invariant.                                                *)

Gains == {HighGain, DrainGain, 125, 100, 75}
Estimates == Bandwidths \cup {0}

Controllers ==
  [mode : Modes, pacing_gain : Gains, cycle_offset : Offsets,
   round_end : Oldest .. 0, loss_events : 0 .. StartupLossCount,
   is_at_full_bandwidth : BOOLEAN,
   rounds_without_gain : 0 .. StartupRounds - 1,
   bandwidth : Estimates, bandwidth_at_last_round : Estimates,
   min_rtt_age : None .. MinRttExpiry + 1,
   probe_rtt_left : None .. ProbeRttTime,
   probe_rtt_round_passed : BOOLEAN, exiting_quiescence : BOOLEAN,
   recovery : RecoveryStates, end_recovery_at : Oldest .. 0,
   recovery_window : 0 .. RecoveryWindowBound,
   congestion_window : MinCwnd .. MaxCwnd, pacing_rate : Rates,
   rtt_known : BOOLEAN, total_acked : 0 .. InitialCwnd,
   entered_at : Oldest .. NoPacket, low_age : None .. ProbeRttTime,
   since_min_rtt : 0 .. MinRttExpiry + 1]

GainOf(c) == CASE c.mode = "STARTUP" -> HighGain
               [] c.mode = "DRAIN" -> DrainGain
               [] c.mode = "PROBE_RTT" -> 100
               [] OTHER -> kPacingGain[c.cycle_offset]

\* What MachinesAgree says, but for the half that CheckIfFullBandwidthReached
\* breaks and MaybeExitStartupOrDrain restores within an event.
ModesAgree(c) ==
  /\ c.mode \in {"DRAIN", "PROBE_BW"} => c.is_at_full_bandwidth
  /\ InRecovery(c) => c.is_at_full_bandwidth
  /\ c.pacing_gain = GainOf(c)
StartupIsUnfilled(c) == c.mode = "STARTUP" => ~c.is_at_full_bandwidth

\* In CONSERVATION the round under way is the one it was entered with, and the
\* recovery cannot end before that round does.
ConservationIsOpen(c) ==
  /\ (c.recovery = "CONSERVATION") <=> (c.entered_at # NoPacket)
  /\ c.recovery = "CONSERVATION" => /\ c.entered_at = c.round_end
                                    /\ c.round_end <= c.end_recovery_at

\* What is left of PROBE_RTT and the time since the flight was low make up
\* kProbeRttTime.
ProbeIsTimed(c) ==
  c.mode = "PROBE_RTT" =>
    /\ (c.probe_rtt_left = None) <=> (c.low_age = None)
    /\ c.probe_rtt_left # None => c.low_age + c.probe_rtt_left = ProbeRttTime

\* The min RTT is stamped no earlier than the sample or the PROBE_RTT that
\* renewed it.
MinRttIsYoung(c) == c.min_rtt_age <= c.since_min_rtt

\* The zero that asks for the initial recovery window is gone by the end of
\* the event.
RecoveryWindowIsSet(c) == InRecovery(c) => MinCwnd <= c.recovery_window

Sound(c) ==
  /\ ModesAgree(c)
  /\ StartupIsUnfilled(c)
  /\ ConservationIsOpen(c)
  /\ ProbeIsTimed(c)
  /\ MinRttIsYoung(c)
  /\ RecoveryWindowIsSet(c)

Environment ==
  /\ in_flight \subseteq Oldest + 1 .. 0
  /\ Cardinality(in_flight) <= MaxCwnd
  /\ sent \in 0 .. Reach

IInv == bbr \in Controllers /\ Sound(bbr) /\ Environment

----------------------------------------------------------------------------
(* What an event is, and what a stage may leave alone.                     *)

Events ==
  [acked : Oldest + 1 .. NoPacket, lost : Nat, prior : Nat,
   flight : 0 .. MaxCwnd, counted : BOOLEAN, sampled : BOOLEAN,
   bandwidth : Estimates, shorter : BOOLEAN, app_limited : BOOLEAN,
   losses_excessive : BOOLEAN, min_rtt_passed : BOOLEAN, offset : Offsets,
   rtt_updated : BOOLEAN]

\* A sample is of an entry that is counted, and only a sample shortens the
\* min RTT.
SampleIsCounted(e) == e.sampled => e.counted
ShorterIsSampled(e) == e.shorter => e.sampled

SameModes(c, d) ==
  /\ d.mode = c.mode
  /\ d.pacing_gain = c.pacing_gain
  /\ d.cycle_offset = c.cycle_offset
  /\ d.is_at_full_bandwidth = c.is_at_full_bandwidth
SameRecovery(c, d) ==
  /\ d.recovery = c.recovery
  /\ d.end_recovery_at = c.end_recovery_at
  /\ d.round_end = c.round_end
  /\ d.entered_at = c.entered_at
SameMinRtt(c, d) ==
  /\ d.min_rtt_age = c.min_rtt_age
  /\ d.since_min_rtt = c.since_min_rtt
SameProbe(c, d) ==
  /\ d.probe_rtt_left = c.probe_rtt_left
  /\ d.low_age = c.low_age
SameWindows(c, d) ==
  /\ d.congestion_window = c.congestion_window
  /\ d.pacing_rate = c.pacing_rate

\* The numbers the stages assign are in the ranges of their fields.
LEMMA RecoveryNumbers ==
  /\ Oldest \in Oldest .. 0 /\ 0 \in Oldest .. 0
  /\ 0 \in Oldest .. NoPacket /\ NoPacket \in Oldest .. NoPacket
  /\ 0 \in 0 .. RecoveryWindowBound
BY WindowAssumption DEF Oldest, NoPacket, RecoveryWindowBound

\* So are those of the ages and of PROBE_RTT.
LEMMA TimeNumbers ==
  /\ 0 \in None .. MinRttExpiry + 1 /\ 0 \in 0 .. MinRttExpiry + 1
  /\ None \in None .. ProbeRttTime /\ 0 \in None .. ProbeRttTime
  /\ ProbeRttTime \in None .. ProbeRttTime
BY BbrCountAssumption DEF None

\* So are those of the counters and of the gain cycle.
LEMMA CountNumbers ==
  /\ 0 \in 0 .. StartupLossCount /\ 0 \in 0 .. StartupRounds - 1
  /\ 0 \in Offsets /\ 0 \in Estimates
BY RateAssumption, BbrCountAssumption DEF Offsets, Estimates

----------------------------------------------------------------------------
(* The recovery state.                                                     *)

\* UpdateRecoveryState enters CONSERVATION for a round from now on, and leaves
\* it with the echo that starts the next round, and not before.
LEMMA RecoveryStateKeeps ==
  ASSUME NEW c \in Controllers, NEW e \in Events,
         ConservationIsOpen(c), InRecovery(c) => c.is_at_full_bandwidth
  PROVE  LET starts == StartsRound(c, e)
             d == UpdateRecoveryState(
                    UpdateRoundTripCounter(NoteAnswer(c, e), starts), e, starts)
         IN  /\ d \in Controllers
             /\ ConservationIsOpen(d)
             /\ InRecovery(d) => d.is_at_full_bandwidth
             /\ SameModes(c, d) /\ SameMinRtt(c, d)
             /\ SameProbe(c, d) /\ SameWindows(c, d)
<1> DEFINE starts == StartsRound(c, e)
           noted == NoteAnswer(c, e)
           rounded == UpdateRoundTripCounter(noted, starts)
           d == UpdateRecoveryState(rounded, e, starts)
           Beside(x) == /\ x.is_at_full_bandwidth = c.is_at_full_bandwidth
                        /\ SameModes(c, x) /\ SameMinRtt(c, x)
                        /\ SameProbe(c, x) /\ SameWindows(c, x)
<1>1. /\ rounded \in Controllers
      /\ Beside(rounded)
      /\ rounded.recovery = c.recovery
      /\ rounded.end_recovery_at = c.end_recovery_at
      /\ rounded.recovery_window = c.recovery_window
      /\ rounded.round_end = IF starts THEN 0 ELSE c.round_end
      /\ rounded.entered_at = IF HasAck(e) /\ e.acked > c.entered_at
                                THEN NoPacket ELSE c.entered_at
  BY WindowAssumption DEF Controllers, UpdateRoundTripCounter, NoteAnswer, Oldest, NoPacket,
     SameModes, SameMinRtt, SameProbe, SameWindows
<1> HIDE DEF starts, noted, rounded
<1>2. c.recovery = "CONSERVATION" /\ ~starts => rounded.entered_at = c.entered_at
  BY <1>1, WindowAssumption
  DEF starts, StartsRound, ConservationIsOpen, Controllers, Oldest, NoPacket
<1>3. c.recovery # "CONSERVATION" => rounded.entered_at = NoPacket
  BY <1>1 DEF ConservationIsOpen, Events, Controllers, Oldest, NoPacket
<1>4. c.recovery = "CONSERVATION" /\ starts => rounded.entered_at = NoPacket
  BY <1>1 DEF starts, StartsRound, ConservationIsOpen
<1>5. CASE ~HasAck(e) \/ ~rounded.is_at_full_bandwidth
  <2>1. d = rounded
    BY <1>5 DEF UpdateRecoveryState
  <2>2. c.recovery = "CONSERVATION" => ~starts
    BY <1>5, <1>1 DEF starts, StartsRound, InRecovery, SameModes
  <2> QED
    BY <1>1, <1>2, <1>3, <2>1, <2>2
    DEF ConservationIsOpen, InRecovery, SameModes, starts, rounded, noted
<1>6. CASE HasAck(e) /\ rounded.is_at_full_bandwidth /\ InRecovery(rounded)
  <2> DEFINE extended == ExtendRecovery(rounded, e)
             grown == IF extended.recovery = "CONSERVATION" /\ starts
                        THEN [extended EXCEPT !.recovery = "GROWTH"]
                        ELSE extended
             leaves == e.lost = 0 /\ e.acked > extended.end_recovery_at
  <2>1. /\ extended \in Controllers
        /\ Beside(extended)
        /\ extended.recovery = c.recovery
        /\ extended.round_end = rounded.round_end
        /\ extended.entered_at = rounded.entered_at
        /\ extended.end_recovery_at = IF e.lost > 0 THEN 0
                                                     ELSE c.end_recovery_at
    BY <1>1, WindowAssumption
    DEF ExtendRecovery, Controllers, Oldest, SameModes, SameMinRtt, SameProbe,
        SameWindows
  <2> HIDE DEF extended
  <2>2. /\ grown \in Controllers
        /\ Beside(grown)
        /\ grown.recovery = IF c.recovery = "CONSERVATION" /\ starts
                              THEN "GROWTH" ELSE c.recovery
        /\ grown.round_end = extended.round_end
        /\ grown.entered_at = extended.entered_at
        /\ grown.end_recovery_at = extended.end_recovery_at
    BY <2>1
    DEF Controllers, RecoveryStates, SameModes, SameMinRtt, SameProbe,
        SameWindows
  <2>3. d = IF leaves THEN LeaveRecovery(grown) ELSE grown
    BY <1>6 DEF UpdateRecoveryState, AdvanceRecovery, extended
  <2> HIDE DEF grown
  <2>4. /\ LeaveRecovery(grown) \in Controllers
        /\ Beside(LeaveRecovery(grown))
        /\ LeaveRecovery(grown).recovery = "NOT_IN_RECOVERY"
        /\ LeaveRecovery(grown).entered_at = grown.entered_at
    BY <2>2, RecoveryNumbers
    DEF LeaveRecovery, Controllers, RecoveryStates, SameModes, SameMinRtt,
        SameProbe, SameWindows
  <2>5. leaves /\ c.recovery = "CONSERVATION" => starts
    BY <1>6, <2>1
    DEF starts, StartsRound, ConservationIsOpen, Controllers, Events, Oldest,
        NoPacket
  <2>6. CASE leaves
    BY <2>6, <2>1, <2>2, <2>3, <2>4, <2>5, <1>3, <1>4
    DEF ConservationIsOpen, InRecovery, starts, noted, rounded
  <2>7. CASE ~leaves
    <3>1. c.recovery = "CONSERVATION" /\ ~starts =>
            /\ grown.entered_at = grown.round_end
            /\ grown.round_end <= grown.end_recovery_at
      BY <1>1, <1>2, <2>1, <2>2, WindowAssumption
      DEF ConservationIsOpen, Controllers, Oldest
    <3> QED
      BY <2>7, <1>6, <1>1, <1>2, <1>3, <1>4, <2>1, <2>2, <2>3, <3>1
      DEF ConservationIsOpen, InRecovery, starts, noted, rounded
  <2> QED
    BY <2>6, <2>7
<1>7. CASE /\ HasAck(e)
 /\ rounded.is_at_full_bandwidth
           /\ ~InRecovery(rounded) /\ e.lost > 0
  <2> DEFINE extended == ExtendRecovery(rounded, e)
  <2>1. d = EnterConservation(extended)
    BY <1>7 DEF UpdateRecoveryState
  <2>2. extended = [rounded EXCEPT !.end_recovery_at = 0]
    BY <1>7 DEF ExtendRecovery
  <2>3. extended \in Controllers
    BY <1>1, <2>2, RecoveryNumbers DEF Controllers
  <2>4. Beside(extended)
    BY <1>1, <2>2
    DEF Controllers, SameModes, SameMinRtt, SameProbe, SameWindows
  <2>5. extended.end_recovery_at = 0
    BY <1>1, <2>2 DEF Controllers
  <2> HIDE DEF extended, d
  <2>6. /\ d \in Controllers
        /\ Beside(d)
        /\ d.recovery = "CONSERVATION"
        /\ d.round_end = 0 /\ d.entered_at = 0 /\ d.end_recovery_at = 0
    <3>1. d = [extended EXCEPT !.recovery = "CONSERVATION",
                               !.recovery_window = 0,
                               !.round_end = 0, !.entered_at = 0]
      BY <2>1 DEF EnterConservation
    <3>2. d \in Controllers
      BY <2>3, <3>1, RecoveryNumbers DEF Controllers, RecoveryStates
    <3>3. Beside(d)
      BY <2>3, <2>4, <3>1
      DEF Controllers, SameModes, SameMinRtt, SameProbe, SameWindows
    <3>4. /\ d.recovery = "CONSERVATION"
          /\ d.round_end = 0 /\ d.entered_at = 0 /\ d.end_recovery_at = 0
      BY <2>3, <2>5, <3>1 DEF Controllers
    <3> QED
      BY <3>2, <3>3, <3>4
  <2> QED
    BY <1>7, <2>6, <1>1
    DEF ConservationIsOpen, InRecovery, NoPacket, starts, noted, rounded, d
<1>8. CASE /\ HasAck(e)
 /\ rounded.is_at_full_bandwidth
           /\ ~InRecovery(rounded) /\ e.lost = 0
  <2>1. d = rounded
    BY <1>8 DEF UpdateRecoveryState
  <2> QED
    BY <1>8, <1>1, <1>3, <2>1
    DEF ConservationIsOpen, InRecovery, starts, noted, rounded
<1> QED
  BY <1>5, <1>6, <1>7, <1>8 DEF Events
----------------------------------------------------------------------------
(* The model.                                                              *)

\* UpdateModel and MaybeUpdateMinRtt stamp the min RTT whenever a shorter
\* sample renews it; the losses are only counted.
LEMMA ModelKeeps ==
  ASSUME NEW c \in Controllers, NEW e \in Events,
         SampleIsCounted(e), ShorterIsSampled(e), MinRttIsYoung(c)
  PROVE  LET d == CountLosses(MaybeUpdateMinRtt(UpdateModel(c, e), e), e)
         IN  /\ d \in Controllers
             /\ MinRttIsYoung(d)
             /\ SameRecovery(c, d) /\ SameModes(c, d)
             /\ SameProbe(c, d) /\ SameWindows(c, d)
<1> DEFINE updated == UpdateModel(c, e)
           timed == MaybeUpdateMinRtt(updated, e)
           d == CountLosses(timed, e)
           Beside(x) == /\ SameRecovery(c, x) /\ SameModes(c, x)
                        /\ SameProbe(c, x) /\ SameWindows(c, x)
<1>1. /\ updated \in Controllers
      /\ Beside(updated)
      /\ updated.min_rtt_age = c.min_rtt_age
      /\ updated.since_min_rtt = IF e.counted /\ e.shorter
                                   THEN 0 ELSE c.since_min_rtt
  <2>1. Smaller(c.total_acked + 1, InitialCwnd) \in 0 .. InitialCwnd
    BY WindowAssumption DEF Smaller, Controllers
  <2>2. e.bandwidth \in Estimates /\ e.rtt_updated \in BOOLEAN
        /\ e.counted \in BOOLEAN
    BY DEF Events
  <2>3. CASE ~e.counted
    BY <2>2, <2>3
    DEF UpdateModel, Controllers, SameRecovery, SameModes, SameProbe,
        SameWindows
  <2>4. CASE e.counted
    <3>1. updated = [c EXCEPT
            !.rtt_known = c.rtt_known \/ e.rtt_updated,
            !.bandwidth = e.bandwidth,
            !.total_acked = Smaller(c.total_acked + 1, InitialCwnd),
            !.since_min_rtt = IF e.shorter THEN 0 ELSE c.since_min_rtt]
      BY <2>4 DEF UpdateModel, Controllers
    <3>2. (c.rtt_known \/ e.rtt_updated) \in BOOLEAN
      BY <2>2 DEF Controllers
    <3>3. (IF e.shorter THEN 0 ELSE c.since_min_rtt) \in 0 .. MinRttExpiry + 1
      BY TimeNumbers DEF Controllers
    <3> HIDE DEF updated
    <3> QED
      BY <2>1, <2>2, <2>4, <3>1, <3>2, <3>3
      DEF Controllers, SameRecovery, SameModes, SameProbe, SameWindows
  <2> QED
    BY <2>2, <2>3, <2>4
<1> HIDE DEF updated
<1>2. /\ timed \in Controllers
      /\ Beside(timed)
      /\ timed.min_rtt_age = 0 \/ timed.min_rtt_age = updated.min_rtt_age
      /\ e.shorter => timed.min_rtt_age = 0
      /\ timed.since_min_rtt = updated.since_min_rtt
  BY <1>1, TimeNumbers
  DEF MaybeUpdateMinRtt, ShorterIsSampled, Controllers, SameRecovery, SameModes,
      SameProbe, SameWindows
<1> HIDE DEF timed
<1>3. Smaller(timed.loss_events + 1, StartupLossCount) \in 0 .. StartupLossCount
  BY <1>2, BbrCountAssumption DEF Smaller, Controllers
<1>4. /\ d \in Controllers
      /\ Beside(d)
      /\ d.min_rtt_age = timed.min_rtt_age
      /\ d.since_min_rtt = timed.since_min_rtt
  BY <1>2, <1>3
  DEF CountLosses, Controllers, SameRecovery, SameModes, SameProbe, SameWindows
<1>5. MinRttIsYoung(d)
  BY <1>1, <1>2, <1>4
  DEF MinRttIsYoung, SampleIsCounted, ShorterIsSampled, Controllers, Events
<1> QED
  BY <1>4, <1>5 DEF updated, timed
----------------------------------------------------------------------------
(* The modes.                                                              *)

\* What no part of the mode machine but PROBE_RTT touches.
BesideModes(c, d) ==
  /\ SameRecovery(c, d) /\ SameMinRtt(c, d)
  /\ SameProbe(c, d) /\ SameWindows(c, d)

\* kPacingGain, the table of the gain cycle.
LEMMA GainsOfTheCycle == \A i \in Offsets : kPacingGain[i] \in Gains
BY DEF kPacingGain, Gains

\* UpdateGainCyclePhase keeps the gain that of the offset.
LEMMA GainCycleKeeps ==
  ASSUME NEW c \in Controllers, NEW e \in Events,
         ModesAgree(c), StartupIsUnfilled(c)
  PROVE  LET d == UpdateGainCyclePhase(c, e)
         IN  /\ d \in Controllers
             /\ ModesAgree(d) /\ StartupIsUnfilled(d)
             /\ d.mode = c.mode
             /\ d.is_at_full_bandwidth = c.is_at_full_bandwidth
             /\ BesideModes(c, d)
<1> DEFINE next == (c.cycle_offset + 1) % CycleLength
           d == UpdateGainCyclePhase(c, e)
<1>1. next \in Offsets
  BY RateAssumption DEF Controllers, Offsets
<1>2. kPacingGain[next] \in Gains
  BY <1>1, GainsOfTheCycle
<1> HIDE DEF next
<1>3. CASE c.mode = "PROBE_BW" /\ AdvancesGainCycle(c, e)
  <2>1. d = [c EXCEPT !.cycle_offset = next, !.pacing_gain = kPacingGain[next]]
    BY <1>3 DEF UpdateGainCyclePhase, next
  <2> HIDE DEF d
  <2>2. /\ d \in Controllers
        /\ d.mode = c.mode
        /\ d.is_at_full_bandwidth = c.is_at_full_bandwidth
        /\ d.recovery = c.recovery
        /\ d.cycle_offset = next
        /\ d.pacing_gain = kPacingGain[next]
        /\ BesideModes(c, d)
    BY <1>1, <1>2, <2>1
    DEF Controllers, BesideModes, SameRecovery, SameMinRtt, SameProbe,
        SameWindows
  <2> QED
    BY <1>3, <2>2
    DEF ModesAgree, StartupIsUnfilled, InRecovery, GainOf, d
<1>4. CASE ~(c.mode = "PROBE_BW" /\ AdvancesGainCycle(c, e))
  <2>1. d = c
    BY <1>4 DEF UpdateGainCyclePhase
  <2> QED
    BY <2>1
    DEF BesideModes, SameRecovery, SameMinRtt, SameProbe, SameWindows
<1> QED
  BY <1>3, <1>4

\* CheckIfFullBandwidthReached finds the pipe full, and leaves the mode to
\* MaybeExitStartupOrDrain.
LEMMA FullBandwidthKeeps ==
  ASSUME NEW c \in Controllers, NEW e \in Events, ModesAgree(c)
  PROVE  LET d == CheckIfFullBandwidthReached(c, e)
         IN  /\ d \in Controllers
             /\ ModesAgree(d)
             /\ d.mode = c.mode
             /\ c.is_at_full_bandwidth => d.is_at_full_bandwidth
             /\ BesideModes(c, d)
<1> DEFINE d == CheckIfFullBandwidthReached(c, e)
<1>1. /\ d \in Controllers
      /\ d.mode = c.mode
      /\ d.pacing_gain = c.pacing_gain
      /\ d.cycle_offset = c.cycle_offset
      /\ c.is_at_full_bandwidth => d.is_at_full_bandwidth
      /\ BesideModes(c, d)
  <2>1. CASE e.app_limited
    BY <2>1
    DEF CheckIfFullBandwidthReached, BesideModes, SameRecovery, SameMinRtt,
        SameProbe, SameWindows
  <2>2. CASE ~e.app_limited /\ 4 * c.bandwidth >= 5 * c.bandwidth_at_last_round
    BY <2>2, CountNumbers
    DEF CheckIfFullBandwidthReached, Controllers, BesideModes, SameRecovery,
        SameMinRtt, SameProbe, SameWindows
  <2>3. CASE /\ ~e.app_limited
             /\ ~(4 * c.bandwidth >= 5 * c.bandwidth_at_last_round)
             /\ \/ c.rounds_without_gain + 1 >= StartupRounds
                \/ ShouldExitStartupDueToLoss(c, e)
    <3>1. d = ReachFullBandwidth(c)
      BY <2>3 DEF CheckIfFullBandwidthReached
    <3>2. d = [c EXCEPT !.is_at_full_bandwidth = TRUE,
                        !.rounds_without_gain = 0,
                        !.bandwidth_at_last_round = 0, !.loss_events = 0]
      BY <3>1 DEF ReachFullBandwidth
    <3> HIDE DEF d
    <3>3. d \in Controllers
      BY <3>2, CountNumbers DEF Controllers
    <3> QED
      BY <3>2, <3>3
      DEF Controllers, BesideModes, SameRecovery, SameMinRtt, SameProbe,
          SameWindows
  <2>4. CASE /\ ~e.app_limited
             /\ ~(4 * c.bandwidth >= 5 * c.bandwidth_at_last_round)
             /\ ~(c.rounds_without_gain + 1 >= StartupRounds)
             /\ ~ShouldExitStartupDueToLoss(c, e)
    <3>1. d = [c EXCEPT !.rounds_without_gain = c.rounds_without_gain + 1]
      BY <2>4 DEF CheckIfFullBandwidthReached
    <3>2. c.rounds_without_gain + 1 \in 0 .. StartupRounds - 1
      BY <2>4, BbrCountAssumption DEF Controllers
    <3> QED
      BY <3>1, <3>2
      DEF Controllers, BesideModes, SameRecovery, SameMinRtt, SameProbe,
          SameWindows
  <2> QED
    BY <2>1, <2>2, <2>3, <2>4
<1> QED
  BY <1>1
  DEF ModesAgree, InRecovery, GainOf, BesideModes, SameRecovery

\* EnterProbeBandwidthMode sets the gain to that of the offset drawn.
LEMMA ProbeBandwidthEntered ==
  ASSUME NEW c \in Controllers, NEW e \in Events, c.is_at_full_bandwidth
  PROVE  LET d == EnterProbeBandwidthMode(c, e)
         IN  /\ d \in Controllers
             /\ ModesAgree(d) /\ StartupIsUnfilled(d)
             /\ d.mode = "PROBE_BW"
             /\ d.is_at_full_bandwidth = c.is_at_full_bandwidth
             /\ BesideModes(c, d)
<1> DEFINE d == EnterProbeBandwidthMode(c, e)
<1>1. e.offset \in Offsets /\ kPacingGain[e.offset] \in Gains
  BY GainsOfTheCycle DEF Events
<1>2. /\ d \in Controllers
      /\ d.mode = "PROBE_BW"
      /\ d.cycle_offset = e.offset
      /\ d.pacing_gain = kPacingGain[e.offset]
      /\ d.is_at_full_bandwidth = c.is_at_full_bandwidth
      /\ BesideModes(c, d)
  BY <1>1
  DEF EnterProbeBandwidthMode, Controllers, Modes, BesideModes, SameRecovery,
      SameMinRtt, SameProbe, SameWindows
<1> QED
  BY <1>2 DEF ModesAgree, StartupIsUnfilled, GainOf, InRecovery

\* MaybeExitStartupOrDrain restores what CheckIfFullBandwidthReached broke:
\* STARTUP is of a pipe that is not full.
LEMMA ExitStartupKeeps ==
  ASSUME NEW c \in Controllers, NEW e \in Events, ModesAgree(c)
  PROVE  LET d == MaybeExitStartupOrDrain(c, e)
         IN  /\ d \in Controllers
             /\ ModesAgree(d) /\ StartupIsUnfilled(d)
             /\ (d.mode = "PROBE_RTT") <=> (c.mode = "PROBE_RTT")
             /\ d.is_at_full_bandwidth = c.is_at_full_bandwidth
             /\ BesideModes(c, d)
<1> DEFINE drain == IF c.mode = "STARTUP" /\ c.is_at_full_bandwidth
                      THEN [c EXCEPT !.mode = "DRAIN",
                                     !.pacing_gain = DrainGain]
                      ELSE c
           d == MaybeExitStartupOrDrain(c, e)
<1>1. /\ drain \in Controllers
      /\ ModesAgree(drain) /\ StartupIsUnfilled(drain)
      /\ (drain.mode = "PROBE_RTT") <=> (c.mode = "PROBE_RTT")
      /\ drain.is_at_full_bandwidth = c.is_at_full_bandwidth
      /\ BesideModes(c, drain)
  <2>1. CASE c.mode = "STARTUP" /\ c.is_at_full_bandwidth
    <3>1. drain = [c EXCEPT !.mode = "DRAIN", !.pacing_gain = DrainGain]
      BY <2>1
    <3> HIDE DEF drain
    <3>2. DrainGain \in Gains
      BY DEF Gains
    <3>3. drain \in Controllers
      BY <3>1, <3>2 DEF Controllers, Modes
    <3>4. /\ drain.mode = "DRAIN"
          /\ drain.pacing_gain = DrainGain
          /\ drain.is_at_full_bandwidth = c.is_at_full_bandwidth
          /\ BesideModes(c, drain)
      BY <3>1
      DEF Controllers, BesideModes, SameRecovery, SameMinRtt, SameProbe,
          SameWindows
    <3> QED
      BY <2>1, <3>3, <3>4 DEF ModesAgree, StartupIsUnfilled, GainOf, InRecovery
  <2>2. CASE ~(c.mode = "STARTUP" /\ c.is_at_full_bandwidth)
    BY <2>2
    DEF StartupIsUnfilled, BesideModes, SameRecovery, SameMinRtt, SameProbe,
        SameWindows
  <2> QED
    BY <2>1, <2>2
<1> HIDE DEF drain
<1>2. CASE /\ drain.mode = "DRAIN"
           /\ e.flight <= GetTargetCongestionWindow(drain, 100)
  <2>1. d = EnterProbeBandwidthMode(drain, e)
    BY <1>2 DEF MaybeExitStartupOrDrain, drain
  <2>2. drain.is_at_full_bandwidth
    BY <1>1, <1>2 DEF ModesAgree
  <2> HIDE DEF d
  <2>3. /\ d \in Controllers
        /\ ModesAgree(d) /\ StartupIsUnfilled(d)
        /\ d.mode = "PROBE_BW"
        /\ d.is_at_full_bandwidth = drain.is_at_full_bandwidth
        /\ BesideModes(drain, d)
    BY <1>1, <2>1, <2>2, ProbeBandwidthEntered
  <2>4. BesideModes(c, d)
    BY <1>1, <2>3
    DEF BesideModes, SameRecovery, SameMinRtt, SameProbe, SameWindows
  <2> QED
    BY <1>1, <1>2, <2>3, <2>4 DEF d
<1>3. CASE ~(/\ drain.mode = "DRAIN"
             /\ e.flight <= GetTargetCongestionWindow(drain, 100))
  <2>1. d = drain
    BY <1>3 DEF MaybeExitStartupOrDrain, drain
  <2> QED
    BY <1>1, <2>1
<1> QED
  BY <1>2, <1>3

\* What PROBE_RTT leaves alone.
BesideProbe(c, d) ==
  /\ SameRecovery(c, d) /\ SameWindows(c, d)
  /\ d.is_at_full_bandwidth = c.is_at_full_bandwidth

ProbeIsSound(c) ==
  /\ ModesAgree(c) /\ StartupIsUnfilled(c)
  /\ ProbeIsTimed(c) /\ MinRttIsYoung(c)

\* ExitProbeRtt stamps the min RTT and returns to the mode that fits the pipe.
LEMMA ExitProbeRttKeeps ==
  ASSUME NEW c \in Controllers, NEW e \in Events, ProbeIsSound(c)
  PROVE  LET d == ExitProbeRtt(c, e)
         IN  /\ d \in Controllers
             /\ ProbeIsSound(d)
             /\ d.mode # "PROBE_RTT"
             /\ BesideProbe(c, d)
<1> DEFINE measured == [c EXCEPT !.min_rtt_age = 0, !.since_min_rtt = 0,
                                 !.low_age = None,
                                 !.probe_rtt_round_passed = FALSE]
           d == ExitProbeRtt(c, e)
<1>1. measured \in Controllers
  BY TimeNumbers DEF Controllers
<1>2. /\ measured.min_rtt_age = 0 /\ measured.since_min_rtt = 0
      /\ measured.recovery = c.recovery
      /\ BesideProbe(c, measured)
  BY DEF Controllers, BesideProbe, SameRecovery, SameWindows
<1>3. d = IF c.is_at_full_bandwidth THEN EnterProbeBandwidthMode(measured, e)
                                    ELSE EnterStartupMode(measured)
  BY DEF ExitProbeRtt
<1> HIDE DEF measured, d
<1>4. CASE c.is_at_full_bandwidth
  <2>1. /\ d \in Controllers
        /\ ModesAgree(d) /\ StartupIsUnfilled(d)
        /\ d.mode = "PROBE_BW"
        /\ d.is_at_full_bandwidth = measured.is_at_full_bandwidth
        /\ BesideModes(measured, d)
    BY <1>1, <1>2, <1>3, <1>4, ProbeBandwidthEntered DEF BesideProbe
  <2> QED
    BY <1>2, <2>1
    DEF ProbeIsSound, ProbeIsTimed, MinRttIsYoung, BesideModes, BesideProbe,
        SameRecovery, SameMinRtt, SameWindows, d
<1>5. CASE ~c.is_at_full_bandwidth
  <2>1. d = [measured EXCEPT !.mode = "STARTUP", !.pacing_gain = HighGain]
    BY <1>3, <1>5 DEF EnterStartupMode
  <2>2. HighGain \in Gains
    BY DEF Gains
  <2>3. d \in Controllers
    BY <1>1, <2>1, <2>2 DEF Controllers, Modes
  <2>4. /\ d.mode = "STARTUP"
        /\ d.pacing_gain = HighGain
        /\ d.min_rtt_age = measured.min_rtt_age
        /\ d.since_min_rtt = measured.since_min_rtt
        /\ BesideProbe(measured, d)
    BY <1>1, <2>1 DEF Controllers, BesideProbe, SameRecovery, SameWindows
  <2>5. BesideProbe(c, d) /\ d.recovery = c.recovery
    BY <1>2, <2>4 DEF BesideProbe, SameRecovery, SameWindows
  <2>6. ~InRecovery(d)
    BY <1>5, <2>5 DEF ProbeIsSound, ModesAgree, InRecovery
  <2> QED
    BY <1>2, <1>5, <2>3, <2>4, <2>5, <2>6
    DEF ProbeIsSound, ModesAgree, StartupIsUnfilled, GainOf, ProbeIsTimed,
        MinRttIsYoung, BesideProbe, d
<1> QED
  BY <1>4, <1>5

\* StayInProbeRtt sets the exit time once the flight is low, and leaves when
\* it has passed.
LEMMA StayInProbeRttKeeps ==
  ASSUME NEW c \in Controllers, NEW e \in Events, NEW starts \in BOOLEAN,
         ProbeIsSound(c), c.mode = "PROBE_RTT"
  PROVE  LET d == StayInProbeRtt(c, e, starts)
         IN  /\ d \in Controllers
             /\ ProbeIsSound(d)
             /\ d.mode # "PROBE_RTT" => c.probe_rtt_left = 0
             /\ BesideProbe(c, d)
<1> DEFINE passed == c.probe_rtt_round_passed \/ starts
           noted == [c EXCEPT !.probe_rtt_round_passed = passed]
           d == StayInProbeRtt(c, e, starts)
<1>1. CASE c.probe_rtt_left = None /\ FlightIsLow(e)
  <2>1. d = [c EXCEPT !.probe_rtt_left = ProbeRttTime,
                      !.probe_rtt_round_passed = FALSE, !.low_age = 0]
    BY <1>1 DEF StayInProbeRtt
  <2> HIDE DEF d
  <2>2. d \in Controllers
    BY <2>1, TimeNumbers DEF Controllers
  <2>3. /\ d.probe_rtt_left = ProbeRttTime /\ d.low_age = 0
        /\ SameModes(c, d) /\ SameMinRtt(c, d)
        /\ BesideProbe(c, d)
    BY <2>1
    DEF Controllers, SameModes, SameMinRtt, BesideProbe, SameRecovery,
        SameWindows
  <2>4. 0 + ProbeRttTime = ProbeRttTime /\ ProbeRttTime # None /\ 0 # None
    BY BbrCountAssumption DEF None
  <2>5. ProbeIsTimed(d)
    BY <2>3, <2>4 DEF ProbeIsTimed
  <2>6. ModesAgree(d) /\ StartupIsUnfilled(d) /\ MinRttIsYoung(d)
        /\ d.mode = c.mode
    BY <2>3
    DEF ProbeIsSound, ModesAgree, StartupIsUnfilled, GainOf, InRecovery,
        MinRttIsYoung, SameModes, SameMinRtt, BesideProbe, SameRecovery
  <2> QED
    BY <2>2, <2>3, <2>5, <2>6 DEF ProbeIsSound, d
<1>2. CASE c.probe_rtt_left = None /\ ~FlightIsLow(e)
  <2>1. d = c
    BY <1>2 DEF StayInProbeRtt
  <2> QED
    BY <2>1 DEF BesideProbe, SameRecovery, SameWindows
<1>3. noted \in Controllers
  BY DEF Controllers
<1>4. /\ noted.probe_rtt_left = c.probe_rtt_left
      /\ noted.low_age = c.low_age
      /\ noted.mode = c.mode
      /\ SameModes(c, noted) /\ SameMinRtt(c, noted)
      /\ BesideProbe(c, noted)
  BY DEF Controllers, SameModes, SameMinRtt, BesideProbe, SameRecovery,
         SameWindows
<1> HIDE DEF noted
<1>5. ProbeIsSound(noted)
  BY <1>4
  DEF ProbeIsSound, ModesAgree, StartupIsUnfilled, GainOf, InRecovery,
      ProbeIsTimed, MinRttIsYoung, SameModes, SameMinRtt, BesideProbe,
      SameRecovery
<1>6. CASE c.probe_rtt_left = 0 /\ passed
  <2>1. d = ExitProbeRtt(noted, e)
    BY <1>6 DEF StayInProbeRtt, noted, None
  <2> HIDE DEF d
  <2>2. /\ d \in Controllers
        /\ ProbeIsSound(d)
        /\ BesideProbe(noted, d)
    BY <1>3, <1>5, <2>1, ExitProbeRttKeeps
  <2> QED
    BY <1>4, <1>6, <2>2 DEF BesideProbe, SameRecovery, SameWindows, d
<1>7. CASE c.probe_rtt_left # None /\ ~(c.probe_rtt_left = 0 /\ passed)
  <2>1. d = noted
    BY <1>7 DEF StayInProbeRtt, noted
  <2> QED
    BY <1>3, <1>4, <1>5, <2>1
<1> QED
  BY <1>1, <1>2, <1>6, <1>7

\* MaybeEnterOrExitProbeRtt enters PROBE_RTT only when the min RTT has
\* expired, and leaves it only when its time is over.
LEMMA ProbeRttKeeps ==
  ASSUME NEW c \in Controllers, NEW e \in Events, NEW starts \in BOOLEAN,
         NEW expired \in BOOLEAN, ProbeIsSound(c)
  PROVE  LET d == MaybeEnterOrExitProbeRtt(c, e, starts, expired)
         IN  /\ d \in Controllers
             /\ ProbeIsSound(d)
             /\ c.mode # "PROBE_RTT" /\ d.mode = "PROBE_RTT" => expired
             /\ c.mode = "PROBE_RTT" /\ d.mode # "PROBE_RTT" =>
                  c.probe_rtt_left = 0
             /\ BesideProbe(c, d)
<1> DEFINE enters == expired /\ ~c.exiting_quiescence /\ c.mode # "PROBE_RTT"
           entered == IF enters THEN EnterProbeRtt(c) ELSE c
           probed == IF entered.mode = "PROBE_RTT"
                       THEN StayInProbeRtt(entered, e, starts) ELSE entered
           d == MaybeEnterOrExitProbeRtt(c, e, starts, expired)
<1>1. /\ entered \in Controllers
      /\ ProbeIsSound(entered)
      /\ BesideProbe(c, entered)
      /\ entered.mode = IF enters THEN "PROBE_RTT" ELSE c.mode
      /\ ~enters => entered.probe_rtt_left = c.probe_rtt_left
      /\ enters => entered.probe_rtt_left = None
  <2>1. CASE enters
    <3>1. entered = [c EXCEPT !.mode = "PROBE_RTT", !.pacing_gain = 100,
                              !.cycle_offset = 0, !.probe_rtt_left = None,
                              !.low_age = None]
      BY <2>1 DEF EnterProbeRtt
    <3> HIDE DEF entered
    <3>2. 100 \in Gains
      BY DEF Gains
    <3>3. entered \in Controllers
      BY <3>1, <3>2, TimeNumbers, CountNumbers DEF Controllers, Modes
    <3>4. /\ entered.mode = "PROBE_RTT"
          /\ entered.pacing_gain = 100
          /\ entered.probe_rtt_left = None /\ entered.low_age = None
          /\ SameMinRtt(c, entered)
          /\ BesideProbe(c, entered)
      BY <3>1
      DEF Controllers, SameMinRtt, BesideProbe, SameRecovery, SameWindows
    <3>5. ProbeIsSound(entered)
      BY <3>4
      DEF ProbeIsSound, ModesAgree, StartupIsUnfilled, GainOf, InRecovery,
          ProbeIsTimed, MinRttIsYoung, SameMinRtt, BesideProbe, SameRecovery
    <3> QED
      BY <2>1, <3>3, <3>4, <3>5
  <2>2. CASE ~enters
    BY <2>2 DEF BesideProbe, SameRecovery, SameWindows
  <2> QED
    BY <2>1, <2>2
<1> HIDE DEF entered, enters
<1>2. /\ probed \in Controllers
      /\ ProbeIsSound(probed)
      /\ BesideProbe(entered, probed)
      /\ entered.mode # "PROBE_RTT" => probed.mode # "PROBE_RTT"
      /\ entered.mode = "PROBE_RTT" /\ probed.mode # "PROBE_RTT" =>
           entered.probe_rtt_left = 0
  <2>1. CASE entered.mode = "PROBE_RTT"
    <3>1. probed = StayInProbeRtt(entered, e, starts)
      BY <2>1
    <3> HIDE DEF probed
    <3> QED
      BY <1>1, <2>1, <3>1, StayInProbeRttKeeps
  <2>2. CASE entered.mode # "PROBE_RTT"
    BY <1>1, <2>2 DEF BesideProbe, SameRecovery, SameWindows
  <2> QED
    BY <2>1, <2>2
<1>3. d = [probed EXCEPT !.exiting_quiescence = FALSE]
  BY DEF MaybeEnterOrExitProbeRtt, entered, enters
<1> HIDE DEF probed, d
<1>4. d \in Controllers
  BY <1>2, <1>3 DEF Controllers
<1>5. /\ d.probe_rtt_left = probed.probe_rtt_left
      /\ d.low_age = probed.low_age
      /\ SameModes(probed, d) /\ SameMinRtt(probed, d)
      /\ BesideProbe(probed, d)
  BY <1>2, <1>3
  DEF Controllers, SameModes, SameMinRtt, BesideProbe, SameRecovery, SameWindows
<1>6. ProbeIsSound(d)
  BY <1>2, <1>5
  DEF ProbeIsSound, ModesAgree, StartupIsUnfilled, GainOf, InRecovery,
      ProbeIsTimed, MinRttIsYoung, SameModes, SameMinRtt, BesideProbe,
      SameRecovery
<1>7. BesideProbe(c, d)
  BY <1>1, <1>2, <1>5 DEF BesideProbe, SameRecovery, SameWindows
<1>8. None # 0
  BY DEF None
<1> QED
  BY <1>1, <1>2, <1>4, <1>5, <1>6, <1>7, <1>8 DEF SameModes, enters, d

----------------------------------------------------------------------------
(* The windows.                                                            *)

\* What no calculation of a rate or a window touches.
BesideWindows(c, d) ==
  /\ SameModes(c, d) /\ SameRecovery(c, d)
  /\ SameMinRtt(c, d) /\ SameProbe(c, d)

\* CalculatePacingRate: "Do not decrease the pacing rate during startup".
LEMMA PacingRateKeeps ==
  ASSUME NEW c \in Controllers
  PROVE  LET d == CalculatePacingRate(c)
         IN  /\ d \in Controllers
             /\ ~c.is_at_full_bandwidth => d.pacing_rate >= c.pacing_rate
             /\ d.congestion_window = c.congestion_window
             /\ BesideWindows(c, d)
<1> DEFINE target == c.pacing_gain * c.bandwidth
           rate == IF c.is_at_full_bandwidth THEN target
                   ELSE IF c.pacing_rate = 0 /\ c.rtt_known
                     THEN InitialPacingRate
                   ELSE Larger(c.pacing_rate, target)
           d == CalculatePacingRate(c)
<1>1. CASE c.bandwidth = 0
  <2>1. d = c
    BY <1>1 DEF CalculatePacingRate
  <2>2. c.pacing_rate \in Int
    BY RateAssumption
    DEF Controllers, Rates, HighGain, DrainGain
  <2> QED
    BY <2>1, <2>2
    DEF BesideWindows, SameModes, SameRecovery, SameMinRtt, SameProbe
<1>2. CASE c.bandwidth # 0
  <2>1. d = [c EXCEPT !.pacing_rate = rate]
    BY <1>2 DEF CalculatePacingRate
  <2>2. c.bandwidth \in Bandwidths /\ c.pacing_gain \in Gains
    BY <1>2 DEF Controllers, Estimates
  <2>3. target \in Rates
    BY <2>2 DEF Rates, Gains
  <2>4. \A r \in Rates : r \in Nat
    BY RateAssumption DEF Rates, HighGain, DrainGain
  <2>5. c.pacing_rate \in Rates /\ InitialPacingRate \in Rates
    BY DEF Controllers, Rates
  <2> HIDE DEF target
  <2>6. rate \in Rates
    BY <2>3, <2>5 DEF Larger
  <2>7. ~c.is_at_full_bandwidth => rate >= c.pacing_rate
    BY <2>3, <2>4, <2>5 DEF Larger
  <2> HIDE DEF rate, d
  <2>8. d \in Controllers
    BY <2>1, <2>6 DEF Controllers
  <2>9. d.pacing_rate = rate /\ d.congestion_window = c.congestion_window
        /\ BesideWindows(c, d)
    BY <2>1
    DEF Controllers, BesideWindows, SameModes, SameRecovery, SameMinRtt,
        SameProbe
  <2> QED
    BY <2>7, <2>8, <2>9 DEF d
<1> QED
  BY <1>1, <1>2

\* The target is a window, whatever the gain.
LEMMA TargetIsAWindow ==
  ASSUME NEW c \in Controllers, NEW gain \in Nat
  PROVE  GetTargetCongestionWindow(c, gain) \in Nat
<1>1. c.bandwidth \in Nat
  <2>1. c.bandwidth \in Estimates
    BY DEF Controllers
  <2>2. Bandwidths \subseteq Nat /\ 0 \in Nat
    BY RateAssumption
  <2> QED
    BY <2>1, <2>2, Zenon DEF Estimates
<1>2. gain * c.bandwidth \in Nat /\ gain * InitialCwnd \in Nat
  BY <1>1, WindowAssumption
<1>3. \A n \in Nat : n \div 100 \in Nat
  OBVIOUS
<1> QED
  BY <1>2, <1>3, WindowAssumption DEF GetTargetCongestionWindow, Larger

\* CalculateCongestionWindow: "do not decrease the window" until the pipe is
\* full, and stay between the smallest and the largest window.
LEMMA CongestionWindowKeeps ==
  ASSUME NEW c \in Controllers, NEW acked \in {0, 1}
  PROVE  LET d == CalculateCongestionWindow(c, acked)
         IN  /\ d \in Controllers
             /\ ~c.is_at_full_bandwidth =>
                  d.congestion_window >= c.congestion_window
             /\ d.pacing_rate = c.pacing_rate
             /\ BesideWindows(c, d)
<1> DEFINE grown == GrownWindow(c, acked)
           window == Smaller(MaxCwnd, Larger(MinCwnd, grown))
           d == CalculateCongestionWindow(c, acked)
<1>1. c.congestion_window \in MinCwnd .. MaxCwnd
  BY DEF Controllers
<1>2. CASE c.mode = "PROBE_RTT"
  <2>1. d = c
    BY <1>2 DEF CalculateCongestionWindow
  <2> QED
    BY <1>1, <2>1, WindowAssumption
    DEF BesideWindows, SameModes, SameRecovery, SameMinRtt, SameProbe
<1>3. CASE c.mode # "PROBE_RTT"
  <2>1. d = [c EXCEPT !.congestion_window = window]
    BY <1>3 DEF CalculateCongestionWindow
  <2>2. GetTargetCongestionWindow(c, CwndGain) \in Nat
    BY TargetIsAWindow DEF CwndGain
  <2>3. grown \in Nat
    BY <1>1, <2>2, WindowAssumption DEF GrownWindow, Smaller
  <2>4. ~c.is_at_full_bandwidth => grown >= c.congestion_window
    BY <1>1, <2>2, WindowAssumption DEF GrownWindow
  <2> HIDE DEF grown
  <2>5. window \in MinCwnd .. MaxCwnd
    BY <2>3, WindowAssumption DEF Smaller, Larger
  <2>6. ~c.is_at_full_bandwidth => window >= c.congestion_window
    BY <1>1, <2>3, <2>4, WindowAssumption DEF Smaller, Larger
  <2> HIDE DEF window, d
  <2>7. d \in Controllers
    BY <2>1, <2>5 DEF Controllers
  <2>8. /\ d.congestion_window = window
        /\ d.pacing_rate = c.pacing_rate
        /\ BesideWindows(c, d)
    BY <2>1
    DEF Controllers, BesideWindows, SameModes, SameRecovery, SameMinRtt,
        SameProbe
  <2> QED
    BY <2>6, <2>7, <2>8 DEF d
<1> QED
  BY <1>2, <1>3

\* CalculateRecoveryWindow leaves room for the flight and for an answer to
\* what was acked.
LEMMA RecoveryWindowKeeps ==
  ASSUME NEW c \in Controllers, NEW e \in Events, NEW acked \in {0, 1},
         e.flight + acked <= RecoveryWindowBound
  PROVE  LET d == CalculateRecoveryWindow(c, e, acked)
         IN  /\ d \in Controllers
             /\ InRecovery(d) => /\ d.recovery_window >= MinCwnd
                                 /\ d.recovery_window >= e.flight + acked
             /\ SameWindows(c, d)
             /\ BesideWindows(c, d)
<1> DEFINE asked == RecoveryWindow(c, e, acked)
           window == Smaller(RecoveryWindowBound, Larger(MinCwnd, asked))
           d == CalculateRecoveryWindow(c, e, acked)
<1>1. CASE ~InRecovery(c)
  <2>1. d = c
    BY <1>1 DEF CalculateRecoveryWindow
  <2> QED
    BY <1>1, <2>1
    DEF BesideWindows, SameWindows, SameModes, SameRecovery, SameMinRtt,
        SameProbe
<1>2. CASE InRecovery(c)
  <2>1. d = [c EXCEPT !.recovery_window = window]
    BY <1>2 DEF CalculateRecoveryWindow
  <2>2. /\ c.recovery_window \in Nat /\ e.lost \in Nat /\ e.flight \in Nat
        /\ acked \in Nat
    BY WindowAssumption DEF Controllers, Events, RecoveryWindowBound
  <2>3. asked \in Nat /\ asked >= e.flight + acked
    BY <2>2 DEF RecoveryWindow, Larger
  <2> HIDE DEF asked
  <2>4. /\ window \in 0 .. RecoveryWindowBound
        /\ window >= MinCwnd
        /\ window >= e.flight + acked
    BY <2>2, <2>3, WindowAssumption DEF Smaller, Larger, RecoveryWindowBound
  <2> HIDE DEF window, d
  <2>5. d \in Controllers
    BY <2>1, <2>4 DEF Controllers
  <2>6. /\ d.recovery_window = window
        /\ SameWindows(c, d)
        /\ BesideWindows(c, d)
    BY <2>1
    DEF Controllers, BesideWindows, SameWindows, SameModes, SameRecovery,
        SameMinRtt, SameProbe
  <2> QED
    BY <2>4, <2>5, <2>6 DEF d
<1> QED
  BY <1>1, <1>2

\* StartNextRound counts losses anew.
LEMMA NextRoundKeeps ==
  ASSUME NEW c \in Controllers, NEW starts \in BOOLEAN
  PROVE  LET d == StartNextRound(c, starts)
         IN  /\ d \in Controllers
             /\ d.recovery_window = c.recovery_window
             /\ SameWindows(c, d)
             /\ BesideWindows(c, d)
BY CountNumbers
DEF StartNextRound, Controllers, BesideWindows, SameWindows, SameModes,
    SameRecovery, SameMinRtt, SameProbe

----------------------------------------------------------------------------
(* The event as a whole.                                                   *)

AckedBy(e) == IF e.counted THEN 1 ELSE 0

\* What an event may not do, beside what it keeps: leave recovery without room
\* for an answer, enter or leave PROBE_RTT before its time, and shrink a
\* window or a rate in startup.
EventIsSafe(c, e, d) ==
  /\ InRecovery(d) => /\ d.recovery_window >= MinCwnd
                      /\ d.recovery_window >= e.flight + AckedBy(e)
  /\ c.mode # "PROBE_RTT" /\ d.mode = "PROBE_RTT" => MinRttExpires(c, e)
  /\ c.mode = "PROBE_RTT" /\ d.mode # "PROBE_RTT" => c.probe_rtt_left = 0
  /\ ~d.is_at_full_bandwidth =>
       /\ d.pacing_rate >= c.pacing_rate
       /\ d.congestion_window >= c.congestion_window

\* The mode machine, from the gain cycle to PROBE_RTT.
Moved(c, e, starts, expired) ==
  LET cycled == UpdateGainCyclePhase(c, e)
      filled == IF starts /\ ~cycled.is_at_full_bandwidth
                  THEN CheckIfFullBandwidthReached(cycled, e) ELSE cycled
  IN  MaybeEnterOrExitProbeRtt(MaybeExitStartupOrDrain(filled, e),
                               e, starts, expired)

\* The mode machine agrees with itself after an event, and enters and leaves
\* PROBE_RTT in time.
LEMMA ModesKeep ==
  ASSUME NEW c \in Controllers, NEW e \in Events, NEW starts \in BOOLEAN,
         NEW expired \in BOOLEAN, ProbeIsSound(c)
  PROVE  LET d == Moved(c, e, starts, expired)
         IN  /\ d \in Controllers
             /\ ProbeIsSound(d)
             /\ c.mode # "PROBE_RTT" /\ d.mode = "PROBE_RTT" => expired
             /\ c.mode = "PROBE_RTT" /\ d.mode # "PROBE_RTT" =>
                  c.probe_rtt_left = 0
             /\ c.is_at_full_bandwidth => d.is_at_full_bandwidth
             /\ SameRecovery(c, d) /\ SameWindows(c, d)
<1> DEFINE cycled == UpdateGainCyclePhase(c, e)
           filled == IF starts /\ ~cycled.is_at_full_bandwidth
                       THEN CheckIfFullBandwidthReached(cycled, e) ELSE cycled
           exited == MaybeExitStartupOrDrain(filled, e)
           d == MaybeEnterOrExitProbeRtt(exited, e, starts, expired)
<1>1. /\ cycled \in Controllers
      /\ ModesAgree(cycled)
      /\ cycled.mode = c.mode
      /\ cycled.is_at_full_bandwidth = c.is_at_full_bandwidth
      /\ BesideModes(c, cycled)
  BY GainCycleKeeps DEF ProbeIsSound
<1> HIDE DEF cycled
<1>2. /\ filled \in Controllers
      /\ ModesAgree(filled)
      /\ filled.mode = c.mode
      /\ c.is_at_full_bandwidth => filled.is_at_full_bandwidth
      /\ BesideModes(c, filled)
  <2>1. CASE starts /\ ~cycled.is_at_full_bandwidth
    <3>1. filled = CheckIfFullBandwidthReached(cycled, e)
      BY <2>1
    <3> HIDE DEF filled
    <3>2. /\ filled \in Controllers
          /\ ModesAgree(filled)
          /\ filled.mode = cycled.mode
          /\ cycled.is_at_full_bandwidth => filled.is_at_full_bandwidth
          /\ BesideModes(cycled, filled)
      BY <1>1, <3>1, FullBandwidthKeeps
    <3> QED
      BY <1>1, <3>2
      DEF BesideModes, SameRecovery, SameMinRtt, SameProbe, SameWindows
  <2>2. CASE ~(starts /\ ~cycled.is_at_full_bandwidth)
    <3>1. filled = cycled
      BY <2>2
    <3> QED
      BY <1>1, <3>1
  <2> QED
    BY <2>1, <2>2
<1> HIDE DEF filled
<1>3. /\ exited \in Controllers
      /\ ModesAgree(exited) /\ StartupIsUnfilled(exited)
      /\ (exited.mode = "PROBE_RTT") <=> (filled.mode = "PROBE_RTT")
      /\ exited.is_at_full_bandwidth = filled.is_at_full_bandwidth
      /\ BesideModes(filled, exited)
  BY <1>2, ExitStartupKeeps
<1> HIDE DEF exited
<1>4. ProbeIsSound(exited) /\ BesideModes(c, exited)
  BY <1>2, <1>3
  DEF ProbeIsSound, ProbeIsTimed, MinRttIsYoung, BesideModes, SameRecovery,
      SameMinRtt, SameProbe, SameWindows
<1>5. /\ d \in Controllers
      /\ ProbeIsSound(d)
      /\ exited.mode # "PROBE_RTT" /\ d.mode = "PROBE_RTT" => expired
      /\ exited.mode = "PROBE_RTT" /\ d.mode # "PROBE_RTT" =>
           exited.probe_rtt_left = 0
      /\ BesideProbe(exited, d)
  BY <1>3, <1>4, ProbeRttKeeps
<1>6. d = Moved(c, e, starts, expired)
  BY DEF Moved, exited, filled, cycled
<1> HIDE DEF d
<1> QED
  BY <1>2, <1>3, <1>4, <1>5, <1>6
  DEF BesideModes, BesideProbe, SameRecovery, SameProbe, SameWindows

\* OnCongestionEvent keeps the controller sound, and does nothing unsafe.
LEMMA OnCongestionEventKeeps ==
  ASSUME NEW c \in Controllers, NEW e \in Events, Sound(c),
         SampleIsCounted(e), ShorterIsSampled(e)
  PROVE  LET d == OnCongestionEvent(c, e)
         IN  d \in Controllers /\ Sound(d) /\ EventIsSafe(c, e, d)
<1> DEFINE starts == StartsRound(c, e)
           acked == IF e.counted THEN 1 ELSE 0
           expired == MinRttExpires(c, e)
           recovering ==
             UpdateRecoveryState(
               UpdateRoundTripCounter(NoteAnswer(c, e), starts), e, starts)
           modelled ==
             CountLosses(MaybeUpdateMinRtt(UpdateModel(recovering, e), e), e)
           moved == Moved(modelled, e, starts, expired)
           paced == CalculatePacingRate(moved)
           windowed == CalculateCongestionWindow(paced, acked)
           bounded == CalculateRecoveryWindow(windowed, e, acked)
           d == StartNextRound(bounded, starts)
<1>1. d = OnCongestionEvent(c, e)
  BY DEF OnCongestionEvent, Moved
<1>2. starts \in BOOLEAN /\ expired \in BOOLEAN /\ acked \in {0, 1}
  BY DEF StartsRound, HasAck, MinRttExpires, Events
<1>3. /\ recovering \in Controllers
      /\ ConservationIsOpen(recovering)
      /\ InRecovery(recovering) => recovering.is_at_full_bandwidth
      /\ SameModes(c, recovering) /\ SameMinRtt(c, recovering)
      /\ SameProbe(c, recovering) /\ SameWindows(c, recovering)
  BY RecoveryStateKeeps DEF Sound, ModesAgree
<1> HIDE DEF recovering
<1>4. MinRttIsYoung(recovering)
  BY <1>3 DEF Sound, MinRttIsYoung, SameMinRtt
<1>5. /\ modelled \in Controllers
      /\ MinRttIsYoung(modelled)
      /\ SameRecovery(recovering, modelled) /\ SameModes(recovering, modelled)
      /\ SameProbe(recovering, modelled) /\ SameWindows(recovering, modelled)
  BY <1>3, <1>4, ModelKeeps
<1> HIDE DEF modelled
<1>6. ProbeIsSound(modelled)
  BY <1>3, <1>5
  DEF Sound, ProbeIsSound, ModesAgree, StartupIsUnfilled, GainOf, InRecovery,
      ProbeIsTimed, SameModes, SameRecovery, SameProbe
<1> HIDE DEF starts, expired, acked
<1>7. /\ moved \in Controllers
      /\ ProbeIsSound(moved)
      /\ modelled.mode # "PROBE_RTT" /\ moved.mode = "PROBE_RTT" => expired
      /\ modelled.mode = "PROBE_RTT" /\ moved.mode # "PROBE_RTT" =>
           modelled.probe_rtt_left = 0
      /\ modelled.is_at_full_bandwidth => moved.is_at_full_bandwidth
      /\ SameRecovery(modelled, moved) /\ SameWindows(modelled, moved)
  BY <1>2, <1>5, <1>6, ModesKeep
<1> HIDE DEF moved
<1>8. /\ paced \in Controllers
      /\ ~moved.is_at_full_bandwidth => paced.pacing_rate >= moved.pacing_rate
      /\ paced.congestion_window = moved.congestion_window
      /\ BesideWindows(moved, paced)
  BY <1>7, PacingRateKeeps
<1> HIDE DEF paced
<1>9. /\ windowed \in Controllers
      /\ ~paced.is_at_full_bandwidth =>
           windowed.congestion_window >= paced.congestion_window
      /\ windowed.pacing_rate = paced.pacing_rate
      /\ BesideWindows(paced, windowed)
  BY <1>2, <1>8, CongestionWindowKeeps
<1> HIDE DEF windowed
<1>10. e.flight + acked <= RecoveryWindowBound
  BY <1>2, WindowAssumption DEF Events, RecoveryWindowBound
<1>11. /\ bounded \in Controllers
       /\ InRecovery(bounded) =>
            /\ bounded.recovery_window >= MinCwnd
            /\ bounded.recovery_window >= e.flight + acked
       /\ SameWindows(windowed, bounded)
       /\ BesideWindows(windowed, bounded)
  BY <1>2, <1>9, <1>10, RecoveryWindowKeeps
<1> HIDE DEF bounded
<1>12. /\ d \in Controllers
       /\ d.recovery_window = bounded.recovery_window
       /\ SameWindows(bounded, d)
       /\ BesideWindows(bounded, d)
  BY <1>2, <1>11, NextRoundKeeps
<1> HIDE DEF d
<1>13. /\ BesideWindows(moved, d)
       /\ SameRecovery(recovering, d)
       /\ ~moved.is_at_full_bandwidth =>
            /\ d.pacing_rate >= moved.pacing_rate
            /\ d.congestion_window >= moved.congestion_window
  BY <1>5, <1>7, <1>8, <1>9, <1>11, <1>12
  DEF BesideWindows, SameWindows, SameModes, SameRecovery, SameMinRtt, SameProbe
<1>14. ProbeIsSound(d)
  BY <1>7, <1>13
  DEF ProbeIsSound, ModesAgree, StartupIsUnfilled, GainOf, InRecovery,
      ProbeIsTimed, MinRttIsYoung, BesideWindows, SameModes, SameRecovery,
      SameMinRtt, SameProbe
<1>15. ConservationIsOpen(d)
  BY <1>3, <1>13 DEF ConservationIsOpen, SameRecovery
<1>16. InRecovery(d) => /\ d.recovery_window >= MinCwnd
                        /\ d.recovery_window >= e.flight + acked
  BY <1>11, <1>12 DEF InRecovery, BesideWindows, SameRecovery
<1>17. RecoveryWindowIsSet(d)
  BY <1>12, <1>16, WindowAssumption
  DEF RecoveryWindowIsSet, Controllers, RecoveryWindowBound
<1>18. EventIsSafe(c, e, d)
  <2>1. /\ moved.pacing_rate = c.pacing_rate
        /\ moved.congestion_window = c.congestion_window
    BY <1>3, <1>5, <1>7 DEF SameWindows
  <2>2. /\ modelled.mode = c.mode
        /\ modelled.probe_rtt_left = c.probe_rtt_left
    BY <1>3, <1>5 DEF SameModes, SameProbe
  <2>3. /\ d.mode = moved.mode
        /\ d.is_at_full_bandwidth = moved.is_at_full_bandwidth
    BY <1>13 DEF BesideWindows, SameModes
  <2> QED
    BY <1>7, <1>13, <1>16, <2>1, <2>2, <2>3
    DEF EventIsSafe, AckedBy, acked, expired
<1> QED
  BY <1>1, <1>12, <1>14, <1>15, <1>17, <1>18 DEF Sound, ProbeIsSound

----------------------------------------------------------------------------
(* The steps.                                                              *)

\* What the sampler may make of an ack.
SampleRecords ==
  {s \in [counted : BOOLEAN, sampled : BOOLEAN, shorter : BOOLEAN,
          bandwidth : Estimates] : SampleIsCounted(s) /\ ShorterIsSampled(s)}

\* Every sample an ack is offered is one, with an estimate of the filter.
LEMMA SamplesAreRecords ==
  ASSUME NEW c \in Controllers, NEW app_limited \in BOOLEAN
  PROVE  /\ Samples(c, app_limited) \cup {NoSample(c)} \subseteq SampleRecords
         /\ \A s \in Samples(c, app_limited) : s.counted
<1>1. c.bandwidth \in Estimates
  BY DEF Controllers
<1>2. Bandwidths \cup {c.bandwidth} \subseteq Estimates
  BY <1>1 DEF Estimates
<1>3. NoSample(c) \in SampleRecords
  BY <1>1 DEF NoSample, SampleRecords, SampleIsCounted, ShorterIsSampled
<1>4. ASSUME NEW s \in Samples(c, app_limited)
      PROVE  s \in SampleRecords /\ s.counted
  BY <1>2 DEF Samples, Only, SampleRecords, SampleIsCounted, ShorterIsSampled
<1> QED
  BY <1>3, <1>4

\* The flight is a finite set of packets.
LEMMA FlightIsFinite ==
  ASSUME Environment, NEW S \in SUBSET in_flight
  PROVE  /\ IsFiniteSet(S)
         /\ Cardinality(S) \in Nat
         /\ Cardinality(S) <= Cardinality(in_flight)
<1>1. Oldest + 1 \in Int /\ 0 \in Int
  BY WindowAssumption DEF Oldest
<1>2. IsFiniteSet(Oldest + 1 .. 0)
  BY <1>1, FS_Interval
<1>3. IsFiniteSet(in_flight)
  BY <1>2, FS_Subset DEF Environment
<1> QED
  BY <1>3, FS_Subset, FS_CardinalityType

\* The events that Notify may pass on.
IsEventOf(e, acked, lost) ==
  /\ e \in Events /\ SampleIsCounted(e) /\ ShorterIsSampled(e)
  /\ e.acked = acked
  /\ e.flight = Cardinality(in_flight \ (lost \cup {acked}))

\* Notify passes an event on, with one of the samples it is given.
LEMMA NotifyRaisesAnEvent ==
  ASSUME IInv, NEW acked \in Oldest + 1 .. NoPacket,
         NEW lost \in SUBSET in_flight, NEW samples,
         \A app_limited \in BOOLEAN :
           samples[app_limited] \subseteq SampleRecords,
         NEW rtt_updated \in BOOLEAN,
         Notify(acked, lost, samples, rtt_updated)
  PROVE  /\ \E e \in Events :
              /\ IsEventOf(e, acked, lost)
              /\ \E app_limited \in BOOLEAN :
                   \E sample \in samples[app_limited] :
                     e.counted = sample.counted
              /\ bbr' = OnCongestionEvent(bbr, e)
         /\ in_flight' = in_flight \ (lost \cup {acked})
         /\ sent' = sent
<1> DEFINE flight == in_flight \ (lost \cup {acked})
           checks == /\ acked # NoPacket /\ acked > bbr.round_end
                     /\ ~bbr.is_at_full_bandwidth
           Event(app_limited, excessive, passed, offset, sample) ==
             [acked |-> acked, lost |-> Cardinality(lost),
              prior |-> Cardinality(in_flight),
              flight |-> Cardinality(flight),
              counted |-> sample.counted, sampled |-> sample.sampled,
              bandwidth |-> sample.bandwidth, shorter |-> sample.shorter,
              app_limited |-> app_limited,
              losses_excessive |-> excessive,
              min_rtt_passed |-> passed, offset |-> offset,
              rtt_updated |-> rtt_updated]
<1>1. PICK app_limited \in Only(checks),
           excessive \in Only(checks /\ (lost # {} \/ bbr.loss_events > 0)),
           passed \in Only(bbr.mode = "PROBE_BW"),
           offset \in IF MayEnterProbeBandwidthMode(bbr, checks)
                       THEN Offsets \ {1} ELSE {0} :
         \E sample \in samples[app_limited] :
           bbr' = OnCongestionEvent(bbr,
                    Event(app_limited, excessive, passed, offset, sample))
  BY DEF Notify
<1>2. PICK sample \in samples[app_limited] :
         bbr' = OnCongestionEvent(bbr,
                  Event(app_limited, excessive, passed, offset, sample))
  BY <1>1
<1> DEFINE e == Event(app_limited, excessive, passed, offset, sample)
<1> HIDE DEF checks
<1>3. sample \in SampleRecords /\ app_limited \in BOOLEAN
  BY DEF Only
<1>4. offset \in Offsets
  BY CountNumbers
<1>5. Cardinality(lost) \in Nat /\ Cardinality(in_flight) \in Nat
  BY FlightIsFinite DEF IInv
<1>6. Cardinality(flight) \in 0 .. MaxCwnd
  <2>1. flight \in SUBSET in_flight
    OBVIOUS
  <2>2. /\ Cardinality(flight) \in Nat
        /\ Cardinality(flight) <= Cardinality(in_flight)
    BY <2>1, FlightIsFinite DEF IInv
  <2> QED
    BY <1>5, <2>2, WindowAssumption DEF IInv, Environment
<1>7. e \in Events
  BY <1>3, <1>4, <1>5, <1>6 DEF Events, SampleRecords, Only
<1>8. IsEventOf(e, acked, lost) /\ e.counted = sample.counted
  BY <1>3, <1>7
  DEF IsEventOf, SampleRecords, SampleIsCounted, ShorterIsSampled
<1>9. bbr' = OnCongestionEvent(bbr, e)
  BY <1>2
<1>10. in_flight' = flight /\ sent' = sent
  BY DEF Notify
<1> HIDE DEF e
<1> QED
  BY <1>3, <1>7, <1>8, <1>9, <1>10

\* What every event does, whichever handler raises it.
EventHappens(e, acked, lost) ==
  /\ IsEventOf(e, acked, lost)
  /\ bbr' = OnCongestionEvent(bbr, e)
  /\ in_flight' = in_flight \ (lost \cup {acked})
  /\ sent' = sent

\* The three handlers that raise an event, and what is lost in it.
LEMMA OnAckRaisesAnEvent ==
  ASSUME IInv, NEW p \in Oldest + 1 .. 0, OnAck(p)
  PROVE  \E lost \in LossesBefore(p), e \in Events :
           EventHappens(e, p, lost) /\ e.counted
<1> DEFINE samples == [app_limited \in BOOLEAN |-> Samples(bbr, app_limited)]
<1>1. PICK lost \in LossesBefore(p) : Notify(p, lost, samples, TRUE)
  BY DEF OnAck
<1>2. lost \in SUBSET in_flight
  BY DEF LossesBefore
<1>3. \A app_limited \in BOOLEAN : samples[app_limited] \subseteq SampleRecords
  BY SamplesAreRecords DEF IInv
<1>4. p \in Oldest + 1 .. NoPacket
  BY WindowAssumption DEF Oldest, NoPacket
<1>5. \A app_limited \in BOOLEAN :
        \A sample \in samples[app_limited] : sample.counted
  BY SamplesAreRecords DEF IInv
<1> HIDE DEF samples
<1>6. PICK e \in Events :
        /\ IsEventOf(e, p, lost)
        /\ \E app_limited \in BOOLEAN :
             \E sample \in samples[app_limited] : e.counted = sample.counted
        /\ bbr' = OnCongestionEvent(bbr, e)
  BY <1>1, <1>2, <1>3, <1>4, NotifyRaisesAnEvent
<1>7. in_flight' = in_flight \ (lost \cup {p}) /\ sent' = sent
  BY <1>1, <1>2, <1>3, <1>4, NotifyRaisesAnEvent
<1> QED
  BY <1>5, <1>6, <1>7 DEF EventHappens

\* OnLateAck: the packet echoed is not in flight.
LEMMA OnLateAckRaisesAnEvent ==
  ASSUME IInv, NEW p \in Oldest + 1 .. 0, OnLateAck(p)
  PROVE  /\ p \notin in_flight
         /\ \E lost \in LossesBefore(p), e \in Events : EventHappens(e, p, lost)
<1> DEFINE samples == [app_limited \in BOOLEAN |->
                         {NoSample(bbr)} \cup Samples(bbr, app_limited)]
<1>1. PICK lost \in LossesBefore(p) :
         Notify(p, lost, samples, FALSE)
  BY DEF OnLateAck
<1>2. lost \in SUBSET in_flight
  BY DEF LossesBefore
<1>3. \A app_limited \in BOOLEAN : samples[app_limited] \subseteq SampleRecords
  BY SamplesAreRecords DEF IInv
<1>4. p \in Oldest + 1 .. NoPacket
  BY WindowAssumption DEF Oldest, NoPacket
<1> HIDE DEF samples
<1>5. PICK e \in Events :
        /\ IsEventOf(e, p, lost)
        /\ bbr' = OnCongestionEvent(bbr, e)
  BY <1>1, <1>2, <1>3, <1>4, NotifyRaisesAnEvent
<1>6. in_flight' = in_flight \ (lost \cup {p}) /\ sent' = sent
  BY <1>1, <1>2, <1>3, <1>4, NotifyRaisesAnEvent
<1>7. p \notin in_flight
  BY DEF OnLateAck
<1> QED
  BY <1>5, <1>6, <1>7 DEF EventHappens

\* OnLossTimeout: no packet is echoed.
LEMMA OnLossTimeoutRaisesAnEvent ==
  ASSUME IInv, OnLossTimeout
  PROVE  \E lost \in LossesBefore(0), e \in Events :
           EventHappens(e, NoPacket, lost)
<1> DEFINE samples == [app_limited \in BOOLEAN |-> {NoSample(bbr)}]
<1>1. PICK lost \in LossesBefore(0) : Notify(NoPacket, lost, samples, FALSE)
  BY DEF OnLossTimeout
<1>2. lost \in SUBSET in_flight
  BY DEF LossesBefore
<1>3. \A app_limited \in BOOLEAN : samples[app_limited] \subseteq SampleRecords
  BY SamplesAreRecords DEF IInv
<1>4. NoPacket \in Oldest + 1 .. NoPacket
  BY WindowAssumption DEF Oldest, NoPacket
<1> HIDE DEF samples
<1>5. PICK e \in Events :
        /\ IsEventOf(e, NoPacket, lost)
        /\ bbr' = OnCongestionEvent(bbr, e)
  BY <1>1, <1>2, <1>3, <1>4, NotifyRaisesAnEvent
<1>6. in_flight' = in_flight \ (lost \cup {NoPacket}) /\ sent' = sent
  BY <1>1, <1>2, <1>3, <1>4, NotifyRaisesAnEvent
<1> QED
  BY <1>5, <1>6 DEF EventHappens

\* So an event keeps the invariant, and is safe.
LEMMA EventKeeps ==
  ASSUME IInv, NEW e \in Events, NEW acked, NEW lost,
         EventHappens(e, acked, lost)
  PROVE  IInv' /\ EventIsSafe(bbr, e, bbr')
<1>1. bbr' \in Controllers /\ Sound(bbr') /\ EventIsSafe(bbr, e, bbr')
  BY OnCongestionEventKeeps DEF IInv, EventHappens, IsEventOf
<1>2. in_flight' \in SUBSET in_flight
  BY DEF EventHappens
<1>3. Cardinality(in_flight') <= Cardinality(in_flight)
      /\ Cardinality(in_flight') \in Nat /\ Cardinality(in_flight) \in Nat
  BY <1>2, FlightIsFinite DEF IInv
<1>4. Environment'
  <2>1. in_flight' \subseteq Oldest + 1 .. 0
    BY <1>2 DEF IInv, Environment
  <2>2. Cardinality(in_flight') <= MaxCwnd
    BY <1>3, WindowAssumption DEF IInv, Environment
  <2>3. sent' \in 0 .. Reach
    BY DEF IInv, Environment, EventHappens
  <2> QED
    BY <2>1, <2>2, <2>3 DEF Environment
<1>5. Sound(bbr)' /\ (bbr \in Controllers)'
  BY <1>1
<1> QED
  BY <1>1, <1>4, <1>5 DEF IInv

\* Position moves a packet's number back by the packet sent, in its range.
LEMMA PositionInRange ==
  ASSUME NEW p \in Oldest .. 0
  PROVE  /\ Position(p) \in Oldest .. 0
         /\ Position(p) # NoPacket
         /\ \A q \in Oldest .. 0 : p <= q => Position(p) <= Position(q)
BY WindowAssumption DEF Position, Larger, Oldest, NoPacket

\* OnPacketSent puts one packet more in flight.
LEMMA PacketJoinsTheFlight ==
  ASSUME IInv, OnPacketSent
  PROVE  /\ in_flight' \subseteq Oldest + 1 .. 0
         /\ Cardinality(in_flight') = Cardinality(in_flight) + 1
<1> DEFINE shifted == {p - 1 : p \in in_flight}
           shift == [p \in in_flight |-> p - 1]
<1>1. in_flight' = shifted \cup {0}
  BY DEF OnPacketSent
<1>2. /\ \A p \in in_flight : p \in Int /\ Oldest + 1 < p /\ p <= 0
      /\ Oldest \in Int /\ Oldest + 1 <= 0
  <2>1. /\ \A p \in in_flight : p \in Int /\ Oldest + 1 <= p /\ p <= 0
        /\ Oldest \in Int /\ Oldest + 1 <= 0
    BY WindowAssumption DEF IInv, Environment, Oldest
  <2>2. Oldest + 1 \notin in_flight
    BY DEF OnPacketSent
  <2> QED
    BY <2>1, <2>2
<1>3. IsFiniteSet(in_flight)
  BY FlightIsFinite DEF IInv
<1>4. shift \in Bijection(in_flight, shifted)
  <2>1. shift \in [in_flight -> shifted]
    OBVIOUS
  <2>2. \A p, q \in in_flight : shift[p] = shift[q] => p = q
    BY <1>2
  <2>3. \A s \in shifted : \E p \in in_flight : shift[p] = s
    OBVIOUS
  <2> HIDE DEF shift, shifted
  <2> QED
    BY <2>1, <2>2, <2>3 DEF Bijection, Injection, IsInjective, Surjection
<1>5. IsFiniteSet(shifted) /\ Cardinality(shifted) = Cardinality(in_flight)
  <2>1. ExistsBijection(in_flight, shifted)
    BY <1>4 DEF ExistsBijection
  <2> HIDE DEF shifted
  <2> QED
    BY <1>3, <2>1, FS_Bijection
<1>6. 0 \notin shifted /\ shifted \cup {0} \subseteq Oldest + 1 .. 0
  BY <1>2
<1> HIDE DEF shifted
<1>7. Cardinality(shifted \cup {0}) = Cardinality(shifted) + 1
  BY <1>5, <1>6, FS_AddElement
<1> QED
  BY <1>1, <1>5, <1>6, <1>7

\* OnPacketSent counts every packet number back by one, together.
LEMMA OnPacketSentKeeps ==
  ASSUME IInv, OnPacketSent
  PROVE  /\ IInv'
         /\ SameModes(bbr, bbr') /\ SameWindows(bbr, bbr')
         /\ ~(in_flight' \subseteq in_flight)
<1>1. PICK is_app_limited \in Only(in_flight = {}) :
        bbr' = [bbr EXCEPT
          !.round_end = Position(bbr.round_end),
          !.end_recovery_at = Position(bbr.end_recovery_at),
          !.entered_at = IF bbr.entered_at = NoPacket THEN bbr.entered_at
                                                 ELSE Position(bbr.entered_at),
          !.exiting_quiescence = bbr.exiting_quiescence \/ is_app_limited]
  BY DEF OnPacketSent
<1>2. bbr \in Controllers /\ Sound(bbr)
  BY DEF IInv
<1>3. /\ Position(bbr.round_end) \in Oldest .. 0
      /\ Position(bbr.end_recovery_at) \in Oldest .. 0
      /\ bbr.round_end <= bbr.end_recovery_at =>
           Position(bbr.round_end) <= Position(bbr.end_recovery_at)
  BY <1>2, PositionInRange DEF Controllers
<1>4. /\ bbr.entered_at # NoPacket => /\ Position(bbr.entered_at) \in Oldest .. 0
                                      /\ Position(bbr.entered_at) # NoPacket
      /\ bbr.entered_at \in Oldest .. NoPacket
      /\ \A p \in Oldest .. 0 : p \in Oldest .. NoPacket
  <2>1. bbr.entered_at \in Oldest .. NoPacket
    BY <1>2 DEF Controllers
  <2>2. \A p \in Oldest .. NoPacket : p # NoPacket <=> p \in Oldest .. 0
    BY WindowAssumption DEF Oldest, NoPacket
  <2>3. \A p \in Oldest .. 0 : p \in Oldest .. NoPacket
    BY WindowAssumption DEF Oldest, NoPacket
  <2> QED
    BY <2>1, <2>2, <2>3, PositionInRange
<1> DEFINE entered == IF bbr.entered_at = NoPacket THEN bbr.entered_at
                                              ELSE Position(bbr.entered_at)
           quiet == bbr.exiting_quiescence \/ is_app_limited
<1>5. entered \in Oldest .. NoPacket /\ quiet \in BOOLEAN
  BY <1>2, <1>4 DEF Only, Controllers
<1>6. bbr' = [bbr EXCEPT !.round_end = Position(bbr.round_end),
                         !.end_recovery_at = Position(bbr.end_recovery_at),
                         !.entered_at = entered,
                         !.exiting_quiescence = quiet]
  BY <1>1
<1>7. (entered = NoPacket) <=> (bbr.entered_at = NoPacket)
  BY <1>4
<1>8. bbr.entered_at = bbr.round_end => entered = Position(bbr.round_end)
  BY <1>2, WindowAssumption DEF Controllers, Oldest, NoPacket
<1> HIDE DEF entered, quiet
<1>9. bbr' \in Controllers
  BY <1>2, <1>3, <1>5, <1>6 DEF Controllers
<1>10. /\ bbr'.recovery = bbr.recovery
       /\ bbr'.round_end = Position(bbr.round_end)
       /\ bbr'.end_recovery_at = Position(bbr.end_recovery_at)
       /\ bbr'.entered_at = entered
       /\ bbr'.recovery_window = bbr.recovery_window
       /\ SameModes(bbr, bbr') /\ SameMinRtt(bbr, bbr')
       /\ SameProbe(bbr, bbr') /\ SameWindows(bbr, bbr')
  BY <1>2, <1>6
  DEF Controllers, SameModes, SameMinRtt, SameProbe, SameWindows
<1>11. ConservationIsOpen(bbr')
  BY <1>2, <1>3, <1>7, <1>8, <1>10 DEF Sound, ConservationIsOpen
<1>12. Sound(bbr')
  BY <1>2, <1>10, <1>11
  DEF Sound, ModesAgree, StartupIsUnfilled, GainOf, InRecovery, ProbeIsTimed,
      MinRttIsYoung, RecoveryWindowIsSet, SameModes, SameMinRtt, SameProbe
<1>13. Environment'
  <2>1. Cardinality(in_flight) < MaxCwnd /\ sent' = Smaller(sent + 1, Reach)
    BY DEF OnPacketSent
  <2>2. Cardinality(in_flight) \in Nat
    BY FlightIsFinite DEF IInv
  <2>3. Cardinality(in_flight') <= MaxCwnd
    BY <2>1, <2>2, PacketJoinsTheFlight, WindowAssumption
  <2>4. sent' \in 0 .. Reach
    BY <2>1, WindowAssumption DEF IInv, Environment, Smaller
  <2> QED
    BY <2>3, <2>4, PacketJoinsTheFlight DEF Environment
<1>14. ~(in_flight' \subseteq in_flight)
  <2>1. SUFFICES ASSUME in_flight' \in SUBSET in_flight PROVE FALSE
    OBVIOUS
  <2>2. /\ Cardinality(in_flight') <= Cardinality(in_flight)
        /\ Cardinality(in_flight) \in Nat
    BY <2>1, FlightIsFinite DEF IInv
  <2> QED
    BY <2>2, PacketJoinsTheFlight
<1> QED
  BY <1>9, <1>10, <1>12, <1>13, <1>14 DEF IInv

\* Time passes for the min RTT and for its history alike, and what it takes
\* from PROBE_RTT it adds to the time since the flight was low.
LEMMA TickKeeps ==
  ASSUME IInv, Tick
  PROVE  /\ IInv'
         /\ SameModes(bbr, bbr') /\ SameWindows(bbr, bbr')
<1> DEFINE left == IF bbr.probe_rtt_left = None THEN None
                                            ELSE Larger(bbr.probe_rtt_left - 1, 0)
           aged == Aged(bbr.min_rtt_age, MinRttExpiry + 1)
           since == Aged(bbr.since_min_rtt, MinRttExpiry + 1)
           low == Aged(bbr.low_age, ProbeRttTime)
<1>1. bbr' = [bbr EXCEPT !.min_rtt_age = aged, !.since_min_rtt = since,
                         !.low_age = low, !.probe_rtt_left = left]
  BY DEF Tick
<1>2. bbr \in Controllers /\ Sound(bbr)
  BY DEF IInv
<1>3. /\ aged \in None .. MinRttExpiry + 1
      /\ since \in 0 .. MinRttExpiry + 1
      /\ low \in None .. ProbeRttTime
      /\ left \in None .. ProbeRttTime
  BY <1>2, BbrCountAssumption DEF Controllers, Aged, Smaller, Larger, None
<1>4. aged <= since
  BY <1>2, BbrCountAssumption
  DEF Sound, MinRttIsYoung, Controllers, Aged, Smaller, None
<1>5. bbr.mode = "PROBE_RTT" =>
        /\ (left = None) <=> (low = None)
        /\ left # None => low + left = ProbeRttTime
  <2>1. /\ bbr.low_age \in None .. ProbeRttTime
        /\ bbr.probe_rtt_left \in None .. ProbeRttTime
    BY <1>2 DEF Controllers
  <2>2. bbr.mode = "PROBE_RTT" =>
          /\ (bbr.probe_rtt_left = None) <=> (bbr.low_age = None)
          /\ bbr.probe_rtt_left # None =>
               bbr.low_age + bbr.probe_rtt_left = ProbeRttTime
    BY <1>2 DEF Sound, ProbeIsTimed
  <2> QED
    BY <2>1, <2>2, BbrCountAssumption DEF Aged, Smaller, Larger, None
<1> HIDE DEF left, aged, since, low
<1>6. bbr' \in Controllers
  BY <1>1, <1>2, <1>3 DEF Controllers
<1>7. /\ bbr'.min_rtt_age = aged /\ bbr'.since_min_rtt = since
      /\ bbr'.low_age = low /\ bbr'.probe_rtt_left = left
      /\ bbr'.recovery_window = bbr.recovery_window
      /\ SameModes(bbr, bbr') /\ SameRecovery(bbr, bbr')
      /\ SameWindows(bbr, bbr')
  BY <1>1, <1>2 DEF Controllers, SameModes, SameRecovery, SameWindows
<1>8. Sound(bbr')
  BY <1>2, <1>4, <1>5, <1>7
  DEF Sound, ModesAgree, StartupIsUnfilled, GainOf, InRecovery,
      ConservationIsOpen, ProbeIsTimed, MinRttIsYoung, RecoveryWindowIsSet,
      SameModes, SameRecovery
<1>9. Environment'
  BY DEF IInv, Environment, Tick
<1> QED
  BY <1>6, <1>7, <1>8, <1>9 DEF IInv

----------------------------------------------------------------------------
(* Theorems.                                                               *)

\* The controller starts in STARTUP, with no packet in flight.
LEMMA InitIsSound == Init => IInv
<1> SUFFICES ASSUME Init PROVE IInv
  OBVIOUS
<1>1. bbr \in Controllers
  <2>1. HighGain \in Gains /\ 0 \in Rates
    BY DEF Gains, Rates
  <2>2. /\ None \in None .. MinRttExpiry + 1
        /\ MinRttExpiry + 1 \in 0 .. MinRttExpiry + 1
        /\ InitialCwnd \in MinCwnd .. MaxCwnd
        /\ 0 \in 0 .. InitialCwnd
    BY WindowAssumption, BbrCountAssumption DEF None
  <2> QED
    BY <2>1, <2>2, RecoveryNumbers, TimeNumbers, CountNumbers
    DEF Init, Controllers, Modes, RecoveryStates
<1>2. Sound(bbr)
  <2>1. None <= MinRttExpiry + 1
    BY BbrCountAssumption DEF None
  <2> QED
    BY <2>1
    DEF Init, Sound, ModesAgree, StartupIsUnfilled, GainOf, InRecovery,
        ConservationIsOpen, ProbeIsTimed, MinRttIsYoung, RecoveryWindowIsSet
<1>3. Environment
  <2>1. Cardinality({}) = 0
    BY FS_EmptySet
  <2> QED
    BY <2>1, WindowAssumption DEF Init, Environment
<1> QED
  BY <1>1, <1>2, <1>3 DEF IInv

\* Every step keeps the invariant.
LEMMA StepKeeps == IInv /\ [Next]_vars => IInv'
<1> SUFFICES ASSUME IInv, [Next]_vars PROVE IInv'
  OBVIOUS
<1>1. CASE OnPacketSent
  BY <1>1, OnPacketSentKeeps
<1>2. ASSUME NEW p \in Oldest + 1 .. 0, OnAck(p) PROVE IInv'
  BY <1>2, OnAckRaisesAnEvent, EventKeeps
<1>3. ASSUME NEW p \in Oldest + 1 .. 0, OnLateAck(p) PROVE IInv'
  BY <1>3, OnLateAckRaisesAnEvent, EventKeeps
<1>4. CASE OnLossTimeout
  BY <1>4, OnLossTimeoutRaisesAnEvent, EventKeeps
<1>5. CASE RetransmitRtoPackets
  <2>1. in_flight' = {} /\ bbr' = bbr /\ sent' = sent
    BY <1>5 DEF RetransmitRtoPackets
  <2>2. Cardinality(in_flight') = 0
    BY <2>1, FS_EmptySet
  <2> QED
    BY <2>1, <2>2, WindowAssumption DEF IInv, Environment
<1>6. CASE Tick
  BY <1>6, TickKeeps
<1>7. CASE UNCHANGED vars
  BY <1>7 DEF vars, IInv, Environment
<1> QED
  BY <1>1, <1>2, <1>3, <1>4, <1>5, <1>6, <1>7 DEF Next

\* The inductive invariant of the BBRv1 sender.
THEOREM BbrInvariant == Spec => []IInv
BY InitIsSound, StepKeeps, PTL DEF Spec

\* Every field of the controller stays in its range: the windows between their
\* limits, the pacing rate a gain times an estimate, the positions in reach.
THEOREM BbrTypeCorrect == Spec => []TypeOK
<1>1. IInv => TypeOK
  BY DEF IInv, Environment, TypeOK, Controllers, Gains, Estimates
<1> QED
  BY <1>1, BbrInvariant, PTL

\* mode_, is_at_full_bandwidth_, recovery_state_ and pacing_gain_ never
\* disagree between events.
THEOREM BbrMachinesAgree == Spec => []MachinesAgree
<1>1. IInv => MachinesAgree
  BY DEF IInv, Sound, MachinesAgree, ModesAgree, StartupIsUnfilled, GainOf
<1> QED
  BY <1>1, BbrInvariant, PTL

\* CONSERVATION is left with the first echo of a packet sent in it, and not
\* before.
THEOREM ConservationIsOneRound == Spec => []ConservationLastsARound
<1>1. IInv => ConservationLastsARound
  BY DEF IInv, Sound, ConservationIsOpen, ConservationLastsARound
<1> QED
  BY <1>1, BbrInvariant, PTL

\* The text of ProbeRttIsHonored, StartupNeverShrinks and
\* RecoveryAdmitsAnAnswer, as properties of a step.
HonorsProbeRtt ==
  /\ bbr.mode # "PROBE_RTT" /\ bbr'.mode = "PROBE_RTT" =>
       bbr.since_min_rtt > MinRttExpiry
  /\ bbr.mode = "PROBE_RTT" /\ bbr'.mode # "PROBE_RTT" =>
       bbr.low_age = ProbeRttTime
ShrinksNothingInStartup ==
  ~bbr'.is_at_full_bandwidth =>
    /\ bbr'.pacing_rate >= bbr.pacing_rate
    /\ bbr'.congestion_window >= bbr.congestion_window
AdmitsAnAnswer ==
  InRecovery(bbr') =>
    /\ bbr'.recovery_window >= MinCwnd
    /\ in_flight' \subseteq in_flight /\ in_flight' # in_flight =>
         /\ bbr'.recovery_window >= Cardinality(in_flight')
         /\ (\E p \in in_flight \ in_flight', q \in in_flight' : q < p) =>
              bbr'.recovery_window > Cardinality(in_flight')

\* A step that moves no mode, no rate and no window.
LEMMA QuietStepIsSafe ==
  ASSUME IInv, SameModes(bbr, bbr'), SameWindows(bbr, bbr')
  PROVE  HonorsProbeRtt /\ ShrinksNothingInStartup
<1>1. bbr.congestion_window \in Int
  BY WindowAssumption DEF IInv, Controllers
<1>2. bbr.pacing_rate \in Int
  <2>1. bbr.pacing_rate \in Rates
    BY DEF IInv, Controllers
  <2> QED
    BY <2>1, RateAssumption DEF Rates, HighGain, DrainGain
<1> QED
  BY <1>1, <1>2
  DEF SameModes, SameWindows, HonorsProbeRtt, ShrinksNothingInStartup

\* A safe event.
LEMMA EventHonors ==
  ASSUME IInv, NEW e \in Events, EventIsSafe(bbr, e, bbr')
  PROVE  HonorsProbeRtt /\ ShrinksNothingInStartup
<1>1. bbr \in Controllers /\ ProbeIsTimed(bbr) /\ MinRttIsYoung(bbr)
  BY DEF IInv, Sound
<1>2. MinRttExpires(bbr, e) => bbr.since_min_rtt > MinRttExpiry
  BY <1>1, BbrCountAssumption DEF MinRttExpires, MinRttIsYoung, Controllers, None
<1>3. bbr.mode = "PROBE_RTT" /\ bbr.probe_rtt_left = 0 =>
        bbr.low_age = ProbeRttTime
  BY <1>1, BbrCountAssumption DEF ProbeIsTimed, Controllers, None
<1> QED
  BY <1>2, <1>3 DEF EventIsSafe, HonorsProbeRtt, ShrinksNothingInStartup

\* Every step honors PROBE_RTT and shrinks nothing in startup.
LEMMA StepIsSafe ==
  IInv /\ [Next]_vars => HonorsProbeRtt /\ ShrinksNothingInStartup
<1> SUFFICES ASSUME IInv, [Next]_vars
             PROVE  HonorsProbeRtt /\ ShrinksNothingInStartup
  OBVIOUS
<1>1. CASE OnPacketSent
  BY <1>1, OnPacketSentKeeps, QuietStepIsSafe
<1>2. ASSUME NEW p \in Oldest + 1 .. 0, OnAck(p)
      PROVE  HonorsProbeRtt /\ ShrinksNothingInStartup
  BY <1>2, OnAckRaisesAnEvent, EventKeeps, EventHonors
<1>3. ASSUME NEW p \in Oldest + 1 .. 0, OnLateAck(p)
      PROVE  HonorsProbeRtt /\ ShrinksNothingInStartup
  BY <1>3, OnLateAckRaisesAnEvent, EventKeeps, EventHonors
<1>4. CASE OnLossTimeout
  BY <1>4, OnLossTimeoutRaisesAnEvent, EventKeeps, EventHonors
<1>5. CASE RetransmitRtoPackets \/ UNCHANGED vars
  <2>1. bbr' = bbr
    BY <1>5 DEF RetransmitRtoPackets, vars
  <2> QED
    BY <2>1, QuietStepIsSafe DEF SameModes, SameWindows
<1>6. CASE Tick
  BY <1>6, TickKeeps, QuietStepIsSafe
<1> QED
  BY <1>1, <1>2, <1>3, <1>4, <1>5, <1>6 DEF Next

\* PROBE_RTT is entered only when no sample renewed the min RTT for
\* kMinRttExpiry, and left only once the flight has been low for kProbeRttTime.
THEOREM ProbeRttHonored == Spec => ProbeRttIsHonored
<1>1. IInv /\ [Next]_vars => [HonorsProbeRtt]_vars
  BY StepIsSafe
<1>2. Spec => [][HonorsProbeRtt]_vars
  BY <1>1, BbrInvariant, PTL DEF Spec
<1> QED
  BY <1>2 DEF ProbeRttIsHonored, HonorsProbeRtt

\* Neither the pacing rate nor the window goes down before the pipe is full.
THEOREM StartupOnlyGrows == Spec => StartupNeverShrinks
<1>1. IInv /\ [Next]_vars => [ShrinksNothingInStartup]_vars
  BY StepIsSafe
<1>2. Spec => [][ShrinksNothingInStartup]_vars
  BY <1>1, BbrInvariant, PTL DEF Spec
<1> QED
  BY <1>2 DEF StartupNeverShrinks, ShrinksNothingInStartup

\* The losses of an event are the oldest packets: one that leaves the flight
\* before an older one was acked, and counted.
LEMMA EventAdmitsAnAnswer ==
  ASSUME IInv, NEW e \in Events, NEW acked, NEW limit,
         NEW lost \in LossesBefore(limit), EventHappens(e, acked, lost),
         acked \in in_flight => e.counted
  PROVE  AdmitsAnAnswer
<1> SUFFICES ASSUME InRecovery(bbr') PROVE AdmitsAnAnswer
  BY DEF AdmitsAnAnswer
<1>1. /\ bbr'.recovery_window >= MinCwnd
      /\ bbr'.recovery_window >= e.flight + AckedBy(e)
  BY EventKeeps DEF EventIsSafe
<1>2. bbr' \in Controllers
  BY EventKeeps DEF IInv
<1>3. bbr'.recovery_window \in Nat
  BY <1>2, WindowAssumption DEF Controllers, RecoveryWindowBound
<1>4. e.flight = Cardinality(in_flight') /\ e.flight \in Nat
  BY WindowAssumption DEF EventHappens, IsEventOf, Events
<1>5. bbr'.recovery_window >= Cardinality(in_flight')
  BY <1>1, <1>3, <1>4 DEF AckedBy
<1>6. ASSUME NEW p \in in_flight \ in_flight', NEW q \in in_flight', q < p
      PROVE  bbr'.recovery_window > Cardinality(in_flight')
  <2>1. PICK k \in Oldest + 1 .. limit : lost = {r \in in_flight : r < k}
    BY DEF LossesBefore
  <2>2. in_flight' = in_flight \ (lost \cup {acked})
    BY DEF EventHappens
  <2>3. q \in in_flight /\ q \notin lost /\ p \in in_flight
    BY <2>2
  <2>4. p \in Int /\ q \in Int /\ k \in Int
    BY <2>1, <2>3, WindowAssumption DEF IInv, Environment, Oldest
  <2>5. p \notin lost
    BY <1>6, <2>1, <2>3, <2>4
  <2>6. p = acked
    BY <2>2, <2>5
  <2>7. AckedBy(e) = 1
    BY <2>3, <2>6 DEF AckedBy
  <2> QED
    BY <1>1, <1>3, <1>4, <2>7
<1> QED
  BY <1>1, <1>5, <1>6 DEF AdmitsAnAnswer

\* No event in recovery closes the recovery window on the flight, nor on an
\* answer to a packet acked.
THEOREM RecoveryAdmits == Spec => RecoveryAdmitsAnAnswer
<1>1. IInv /\ [Next]_vars => [AdmitsAnAnswer]_vars
  <2> SUFFICES ASSUME IInv, Next PROVE AdmitsAnAnswer
    OBVIOUS
  <2>1. IInv'
    BY StepKeeps
  <2>2. InRecovery(bbr') => bbr'.recovery_window >= MinCwnd
    <3>1. /\ bbr' \in Controllers
          /\ InRecovery(bbr') => MinCwnd <= bbr'.recovery_window
      BY <2>1 DEF IInv, Sound, RecoveryWindowIsSet
    <3> QED
      BY <3>1, WindowAssumption DEF Controllers, RecoveryWindowBound
  <2>3. CASE OnPacketSent
    BY <2>2, <2>3, OnPacketSentKeeps DEF AdmitsAnAnswer
  <2>4. ASSUME NEW p \in Oldest + 1 .. 0, OnAck(p) PROVE AdmitsAnAnswer
    BY <2>4, OnAckRaisesAnEvent, EventAdmitsAnAnswer
  <2>5. ASSUME NEW p \in Oldest + 1 .. 0, OnLateAck(p) PROVE AdmitsAnAnswer
    BY <2>5, OnLateAckRaisesAnEvent, EventAdmitsAnAnswer
  <2>6. CASE OnLossTimeout
    <3>1. NoPacket \notin in_flight
      BY WindowAssumption DEF IInv, Environment, Oldest, NoPacket
    <3> QED
      BY <2>6, <3>1, OnLossTimeoutRaisesAnEvent, EventAdmitsAnAnswer
  <2>7. CASE RetransmitRtoPackets
    <3>1. in_flight' = {} /\ Cardinality(in_flight') = 0
      BY <2>7, FS_EmptySet DEF RetransmitRtoPackets
    <3>2. bbr'.recovery_window >= 0
      BY <2>1, WindowAssumption DEF IInv, Controllers, RecoveryWindowBound
    <3> QED
      BY <2>2, <3>1, <3>2 DEF AdmitsAnAnswer
  <2>8. CASE Tick
    BY <2>2, <2>8 DEF Tick, AdmitsAnAnswer
  <2> QED
    BY <2>3, <2>4, <2>5, <2>6, <2>7, <2>8 DEF Next
<1>2. Spec => [][AdmitsAnAnswer]_vars
  BY <1>1, BbrInvariant, PTL DEF Spec
<1> QED
  BY <1>2 DEF RecoveryAdmitsAnAnswer, AdmitsAnAnswer

=============================================================================
