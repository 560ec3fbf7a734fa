----------------------------- MODULE Bbr2Proofs -----------------------------
(***************************************************************************)
(* Proofs about Bbr2, for any number of packets in flight, any periods and *)
(* any losses: the mode machine and the cycle of its phases agree with     *)
(* each other, the filter and the bounds are moved once per cycle, and one *)
(* event changes the mode at most three times.                             *)
(*                                                                         *)
(* An event goes through the model's update, the loop over the modes, and  *)
(* its end.  The loop hands it to a mode that is Ready for it, and the     *)
(* mode has then Answered; each handler has a lemma that leads from the    *)
(* one to the other, and each entry of a mode one that leads back.         *)
(***************************************************************************)
EXTENDS Bbr2, TLAPS

----------------------------------------------------------------------------
(* The inductive invariant.                                                *)

PacingGains == {StartupGain, DrainGain, 750, 1000, 1250}

\* The ranges of the counters and of the ages.
Rounds == 0 .. 2
CycleAges == 0 .. ProbeWait + 1
PhaseAges == 0 .. MinRtt + 1
ExitTimes == None .. ProbeRttDuration + 1
LossCounts == 0 .. MaxLossEvents
GrowthCounts == 0 .. FullBwRounds
MinRttAges == -MaxQuiescence .. ProbeRttPeriod
Quiescences == None .. MaxQuiescence
RealAges == 0 .. ProbeRttPeriod
Bits == {0, 1}

Controllers ==
  [mode : Modes, next : Modes, phase : Phases, rounds_in_phase : Rounds,
   cycle_age : CycleAges, phase_age : PhaseAges,
   is_sample_from_probing : BOOLEAN, has_advanced_max_bw : BOOLEAN,
   probed_too_high : BOOLEAN, stopped_risky_probe : BOOLEAN,
   exit_time : ExitTimes, pacing_gain : PacingGains,
   round_started : BOOLEAN, sent_in_round : BOOLEAN,
   loss_events : LossCounts,
   max_bw_older : BOOLEAN, max_bw_newer : BOOLEAN,
   bandwidth_lo : BOOLEAN, inflight_lo : BOOLEAN, inflight_hi : BOOLEAN,
   full_bandwidth_reached : BOOLEAN, has_baseline : BOOLEAN,
   rounds_without_growth : GrowthCounts,
   min_rtt_age : MinRttAges, quiescence : Quiescences, resume_age : MinRttAges,
   advances : Bits, cuts : Bits, changes : Nat,
   restless : BOOLEAN, low_age : ExitTimes,
   drained : BOOLEAN, since_min_rtt : RealAges,
   sent_since_refill : BOOLEAN, underfilled : BOOLEAN]

\* The cycle starts with PROBE_BW, and PROBE_RTT finds it between PROBE_DOWN
\* and PROBE_UP.
ModeFitsPhase(c) ==
  /\ c.phase = "PROBE_NOT_STARTED" <=> c.mode \in {"STARTUP", "DRAIN"}
  /\ c.mode = "PROBE_RTT" => c.phase \in {"PROBE_CRUISE", "PROBE_REFILL"}

\* The advance was called as often as the flag says, and must have been by the end
\* of PROBE_DOWN; there it has not before the first round of the phase ends.
FilterIsCounted(c) ==
  /\ c.advances = (IF c.has_advanced_max_bw THEN 1 ELSE 0)
  /\ c.phase \in {"PROBE_CRUISE", "PROBE_REFILL", "PROBE_UP"} => c.advances = 1
  /\ c.phase = "PROBE_DOWN" /\ c.rounds_in_phase = 0 => c.advances = 0
  /\ c.phase = "PROBE_DOWN" /\ c.rounds_in_phase > 0 => c.phase_age # 0

\* A sample of the probe has cut nothing yet, and there is none after the
\* first round of PROBE_DOWN.
CutsAreCounted(c) ==
  c.is_sample_from_probing =>
    /\ c.cuts = 0
    /\ \/ c.phase = "PROBE_UP"
       \/ c.phase = "PROBE_DOWN" /\ c.rounds_in_phase = 0

\* PROBE_REFILL counts no round before a packet was sent in it.
RefillIsSent(c) ==
  /\ c.phase = "PROBE_REFILL" /\ (c.sent_in_round \/ c.rounds_in_phase > 0) =>
       c.sent_since_refill
  /\ c.phase = "PROBE_UP" => c.sent_since_refill

BoundsAreOff(c) == IsProbingForBandwidth(c) => ~c.bandwidth_lo /\ ~c.inflight_lo

\* The exit time of PROBE_RTT and the time since the flight was low make up
\* its duration.
ProbeRttIsTimed(c) ==
  /\ c.drained
  /\ c.mode = "PROBE_RTT" =>
       /\ (c.exit_time = None) <=> (c.low_age = None)
       /\ c.exit_time # None =>
            c.exit_time + c.low_age = ProbeRttDuration + 1

\* The min RTT is no older by the filter's clock, which quiescence sets back,
\* than it is.
MinRttIsYoung(c) ==
  c.min_rtt_age <= c.since_min_rtt /\ c.resume_age <= c.since_min_rtt

\* What every part of an event keeps.
Steady(c) ==
  /\ ModeFitsPhase(c)
  /\ FilterIsCounted(c)
  /\ CutsAreCounted(c)
  /\ RefillIsSent(c)
  /\ BoundsAreOff(c)
  /\ ProbeRttIsTimed(c)
  /\ MinRttIsYoung(c)
  /\ c.round_started => c.max_bw_older \/ c.max_bw_newer

GainOf(c) ==
  CASE c.mode = "STARTUP" -> StartupGain
    [] c.mode = "DRAIN" -> DrainGain
    [] c.mode = "PROBE_RTT" -> 1000
    [] OTHER -> PacingGainForPhase(c.phase)

\* What holds between events only.
Settled(c) ==
  /\ c.mode = "STARTUP" <=> ~c.full_bandwidth_reached
  /\ c.next = c.mode
  /\ c.pacing_gain = GainOf(c)
  /\ c.rounds_without_growth < FullBwRounds
  /\ ~c.round_started => c.mode = "STARTUP"
  /\ c.changes = 0 /\ ~c.restless

Environment ==
  /\ in_flight \in 0 .. MaxFlight
  /\ window \in 1 .. MaxFlight
  /\ late \in BOOLEAN

IInv == bbr \in Controllers /\ Steady(bbr) /\ Settled(bbr) /\ Environment

----------------------------------------------------------------------------
(* What an event is, and what the parts of it leave alone.                 *)

EventRecords ==
  [lost : Nat, bytes_in_flight : Nat, is_probing_for_bandwidth : BOOLEAN,
   end_of_round_trip : BOOLEAN,
   sample_min_rtt : {"infinite", "kept", "smaller"},
   app_limited : BOOLEAN, loss_above_threshold : BOOLEAN,
   bandwidth_grew : BOOLEAN, reno_rounds_passed : BOOLEAN,
   at_inflight_hi : BOOLEAN, max_ack_height : Nat, bdp : Nat]

\* What is beside the cycle of the phases.
SameBesideCycle(c, d) ==
  /\ d.mode = c.mode /\ d.next = c.next
  /\ d.exit_time = c.exit_time /\ d.low_age = c.low_age
  /\ d.drained = c.drained
  /\ d.full_bandwidth_reached = c.full_bandwidth_reached
  /\ d.rounds_without_growth = c.rounds_without_growth
  /\ d.round_started = c.round_started
  /\ d.min_rtt_age = c.min_rtt_age
  /\ d.resume_age = c.resume_age
  /\ d.since_min_rtt = c.since_min_rtt
  /\ d.changes = c.changes /\ d.restless = c.restless
  /\ d.pacing_gain = c.pacing_gain
  /\ c.max_bw_older \/ c.max_bw_newer => d.max_bw_older \/ d.max_bw_newer

\* What the cycle of the phases moves, but for the cuts of inflight_hi.
SameCycle(c, d) ==
  /\ d.phase = c.phase
  /\ d.rounds_in_phase = c.rounds_in_phase
  /\ d.phase_age = c.phase_age
  /\ d.has_advanced_max_bw = c.has_advanced_max_bw
  /\ d.advances = c.advances
  /\ d.sent_in_round = c.sent_in_round
  /\ d.sent_since_refill = c.sent_since_refill
  /\ d.bandwidth_lo = c.bandwidth_lo /\ d.inflight_lo = c.inflight_lo

\* A round that ends in PROBE_REFILL, and did not begin it, had a packet sent.
RoundIsSent(c, e) ==
  c.phase = "PROBE_REFILL" /\ e.end_of_round_trip /\ c.phase_age # 0 =>
    c.sent_since_refill

\* What the phases must keep.
CycleIsSound(c, e) ==
  /\ FilterIsCounted(c)
  /\ CutsAreCounted(c)
  /\ RefillIsSent(c)
  /\ BoundsAreOff(c)
  /\ RoundIsSent(c, e)

----------------------------------------------------------------------------
(* The phases of PROBE_BW.                                                 *)

\* Every counter and every age may start anew, and every phase may be entered.
LEMMA Zeros ==
  /\ 0 \in Rounds /\ 0 \in CycleAges /\ 0 \in PhaseAges /\ 0 \in LossCounts
  /\ 0 \in Bits /\ 1 \in Bits
  /\ "PROBE_DOWN" \in Phases /\ "PROBE_CRUISE" \in Phases
  /\ "PROBE_REFILL" \in Phases /\ "PROBE_UP" \in Phases
BY ClockAssumption, CountAssumption
DEF Rounds, CycleAges, PhaseAges, LossCounts, Bits, MaxLossEvents, Larger, Phases

\* Fields that MaybeAdaptUpperBounds sets.
LEMMA CutSet ==
  ASSUME NEW c \in Controllers, NEW count \in Bits
  PROVE  [c EXCEPT !.is_sample_from_probing = FALSE, !.inflight_hi = TRUE,
                   !.cuts = count] \in Controllers
BY ZenonT(40) DEF Controllers

\* Fields that AdvanceMaxBandwidthFilter sets.
LEMMA AdvanceSet ==
  ASSUME NEW c \in Controllers, NEW count \in Bits, NEW older \in BOOLEAN
  PROVE  [c EXCEPT !.has_advanced_max_bw = TRUE, !.advances = count,
                   !.max_bw_older = older, !.max_bw_newer = FALSE]
           \in Controllers
BY ZenonT(40) DEF Controllers

\* AdvanceMaxBandwidthFilter: one advance is counted, whichever slots are empty.
LEMMA FilterAdvanced ==
  ASSUME NEW c \in Controllers, c.advances = 0
  PROVE  LET d == AdvanceMaxBandwidthFilter(c)
         IN  /\ d \in Controllers
             /\ d.advances = 1 /\ d.has_advanced_max_bw
             /\ d.phase = c.phase /\ d.phase_age = c.phase_age
             /\ d.rounds_in_phase = c.rounds_in_phase
             /\ d.bandwidth_lo = c.bandwidth_lo /\ d.inflight_lo = c.inflight_lo
             /\ d.sent_in_round = c.sent_in_round
             /\ d.sent_since_refill = c.sent_since_refill
             /\ SameBesideCycle(c, d)
<1> DEFINE older == c.max_bw_older \/ c.max_bw_newer
           count == c.advances + 1
           d == AdvanceMaxBandwidthFilter(c)
<1>1. d = [c EXCEPT !.has_advanced_max_bw = TRUE, !.advances = count,
                    !.max_bw_older = older, !.max_bw_newer = FALSE]
  BY DEF AdvanceMaxBandwidthFilter
<1>2. /\ older \in BOOLEAN /\ count \in Bits /\ count = 1
      /\ c.max_bw_older \/ c.max_bw_newer => older
  BY Zeros
<1> HIDE DEF d, older, count
<1>3. d \in Controllers
  BY <1>1, <1>2, AdvanceSet
<1>4. /\ d.advances = 1 /\ d.has_advanced_max_bw
      /\ d.phase = c.phase /\ d.phase_age = c.phase_age
      /\ d.rounds_in_phase = c.rounds_in_phase
      /\ d.bandwidth_lo = c.bandwidth_lo /\ d.inflight_lo = c.inflight_lo
      /\ d.sent_in_round = c.sent_in_round
      /\ d.sent_since_refill = c.sent_since_refill
      /\ SameBesideCycle(c, d)
  BY <1>1, <1>2 DEF Controllers, SameBesideCycle
<1> QED
  BY <1>3, <1>4 DEF d

\* MaybeAdaptUpperBounds: a cut uses the sample of the probe up.
LEMMA AdaptUpperBoundsKeeps ==
  ASSUME NEW c \in Controllers, NEW e \in EventRecords,
         c.is_sample_from_probing => c.cuts = 0
  PROVE  LET d == MaybeAdaptUpperBounds(c, e)
         IN  /\ d \in Controllers
             /\ d.is_sample_from_probing =>
                  d.cuts = 0 /\ c.is_sample_from_probing
             /\ ProbedTooHigh(c, e) => ~d.is_sample_from_probing
             /\ d.stopped_risky_probe = c.stopped_risky_probe
             /\ SameCycle(c, d) /\ SameBesideCycle(c, d)
<1> DEFINE d == MaybeAdaptUpperBounds(c, e)
<1>1. CASE ~ProbedTooHigh(c, e)
  BY <1>1 DEF MaybeAdaptUpperBounds, SameCycle, SameBesideCycle
<1>2. CASE ProbedTooHigh(c, e) /\ LastSampleIsAppLimited(e)
  <2>1. d = [c EXCEPT !.is_sample_from_probing = FALSE]
    BY <1>2 DEF MaybeAdaptUpperBounds
  <2> HIDE DEF d
  <2>2. d \in Controllers
    BY ZenonT(40), <2>1 DEF Controllers
  <2>3. ~d.is_sample_from_probing /\ SameCycle(c, d) /\ SameBesideCycle(c, d)
        /\ d.stopped_risky_probe = c.stopped_risky_probe
    BY <2>1 DEF Controllers, SameCycle, SameBesideCycle
  <2> QED
    BY <2>2, <2>3 DEF d
<1>3. CASE ProbedTooHigh(c, e) /\ ~LastSampleIsAppLimited(e)
  <2>0. c.cuts + 1 = 1
    BY <1>3 DEF ProbedTooHigh
  <2> DEFINE count == c.cuts + 1
  <2>1. d = [c EXCEPT !.is_sample_from_probing = FALSE, !.inflight_hi = TRUE,
                      !.cuts = count]
    BY <1>3 DEF MaybeAdaptUpperBounds
  <2>5. count \in Bits
    BY <2>0, Zeros
  <2> HIDE DEF d, count
  <2>2. d \in Controllers
    BY <2>1, <2>5, CutSet
  <2>3. ~d.is_sample_from_probing /\ SameCycle(c, d) /\ SameBesideCycle(c, d)
        /\ d.stopped_risky_probe = c.stopped_risky_probe
    BY <2>1 DEF Controllers, SameCycle, SameBesideCycle
  <2> QED
    BY <2>2, <2>3 DEF d
<1> QED
  BY <1>1, <1>2, <1>3

\* RestartRoundEarly: the round ends with the last packet sent, whatever of.
LEMMA RoundRestarted ==
  ASSUME NEW c \in Controllers
  PROVE  LET d == RestartRoundEarly(c)
         IN  /\ d \in Controllers
             /\ d = [c EXCEPT !.loss_events = 0, !.sent_in_round = FALSE]
<1> DEFINE d == RestartRoundEarly(c)
<1>1. d = [c EXCEPT !.loss_events = 0, !.sent_in_round = FALSE]
  BY DEF RestartRoundEarly, OnNewRound
<1> HIDE DEF d
<1>2. d \in Controllers
  BY ZenonT(40), <1>1, Zeros DEF Controllers
<1> QED
  BY <1>1, <1>2 DEF d

\* Fields that are set when a cycle begins.
LEMMA CycleStarted ==
  ASSUME NEW r \in Controllers, NEW p \in BOOLEAN, NEW s \in BOOLEAN
  PROVE  [r EXCEPT !.probed_too_high = p, !.stopped_risky_probe = s,
                   !.phase = "PROBE_DOWN", !.cycle_age = 0, !.phase_age = 0]
           \in Controllers
BY ZenonT(40), Zeros DEF Controllers

\* Fields that are cleared when a cycle begins.
LEMMA CycleCleared ==
  ASSUME NEW r \in Controllers
  PROVE  [r EXCEPT !.rounds_in_phase = 0, !.has_advanced_max_bw = FALSE,
                   !.advances = 0, !.sent_since_refill = FALSE]
           \in Controllers
BY ZenonT(40), Zeros DEF Controllers

\* PROBE_DOWN begins a cycle: the filter has not advanced in it.
LEMMA ProbeDownEntered ==
  ASSUME NEW c \in Controllers, NEW e \in EventRecords,
         NEW probed_too_high \in BOOLEAN, NEW stopped_risky_probe \in BOOLEAN,
         c.is_sample_from_probing => c.cuts = 0,
         c.mode # "STARTUP"
  PROVE  LET d == EnterProbeDown(c, probed_too_high, stopped_risky_probe)
         IN  /\ d \in Controllers
             /\ CycleIsSound(d, e)
             /\ d.phase = "PROBE_DOWN"
             /\ SameBesideCycle(c, d)
<1> DEFINE d == EnterProbeDown(c, probed_too_high, stopped_risky_probe)
           r == RestartRoundEarly(c)
           f == [r EXCEPT !.probed_too_high = probed_too_high,
                    !.stopped_risky_probe = stopped_risky_probe,
                    !.phase = "PROBE_DOWN", !.cycle_age = 0, !.phase_age = 0]
<1>1. r = [c EXCEPT !.loss_events = 0, !.sent_in_round = FALSE]
  BY RoundRestarted
<1>2. d = [f EXCEPT !.rounds_in_phase = 0, !.has_advanced_max_bw = FALSE,
                    !.advances = 0, !.sent_since_refill = FALSE]
  <2> HIDE DEF r
  <2> QED
    BY DEF EnterProbeDown, r
<1>3. r \in Controllers
  BY RoundRestarted
<1> HIDE DEF r
<1>4. f \in Controllers
  BY <1>3, CycleStarted
<1>5. /\ f.is_sample_from_probing = c.is_sample_from_probing
      /\ f.cuts = c.cuts /\ f.phase = "PROBE_DOWN"
      /\ SameBesideCycle(c, f)
  BY <1>1 DEF Controllers, SameBesideCycle
<1> HIDE DEF d, f
<1>6. d \in Controllers
  BY <1>2, <1>4, CycleCleared
<1>7. /\ d.phase = "PROBE_DOWN" /\ d.rounds_in_phase = 0
      /\ d.advances = 0 /\ ~d.has_advanced_max_bw
      /\ d.is_sample_from_probing = f.is_sample_from_probing
      /\ d.cuts = f.cuts
      /\ SameBesideCycle(f, d)
  BY <1>2, <1>4, <1>5 DEF Controllers, SameBesideCycle
<1> QED
  BY <1>5, <1>6, <1>7
  DEF CycleIsSound, FilterIsCounted, CutsAreCounted, RefillIsSent, BoundsAreOff,
      IsProbingForBandwidth, RoundIsSent, SameBesideCycle, d

\* ExitProbeDown: the filter has advanced by the end of PROBE_DOWN.
LEMMA ProbeDownLeft ==
  ASSUME NEW c \in Controllers,
         c.phase \in {"PROBE_DOWN", "PROBE_CRUISE", "PROBE_REFILL"},
         FilterIsCounted(c)
  PROVE  LET d == ExitProbeDown(c)
         IN  /\ d \in Controllers
             /\ d.advances = 1 /\ d.has_advanced_max_bw
             /\ d.sent_in_round = c.sent_in_round
             /\ d.sent_since_refill = c.sent_since_refill
             /\ SameBesideCycle(c, d)
<1> DEFINE d == ExitProbeDown(c)
<1>1. CASE c.phase = "PROBE_DOWN" /\ ~c.has_advanced_max_bw
  <2>1. c.advances = 0
    BY <1>1 DEF FilterIsCounted
  <2>2. d = AdvanceMaxBandwidthFilter(c)
    BY <1>1 DEF ExitProbeDown
  <2> HIDE DEF d
  <2> QED
    BY <2>1, <2>2, FilterAdvanced DEF d
<1>2. CASE ~(c.phase = "PROBE_DOWN" /\ ~c.has_advanced_max_bw)
  <2>1. d = c
    BY <1>2 DEF ExitProbeDown
  <2>2. c.advances = 1 /\ c.has_advanced_max_bw
    BY <1>2 DEF FilterIsCounted, Controllers
  <2> QED
    BY <2>1, <2>2 DEF SameBesideCycle
<1> QED
  BY <1>1, <1>2

\* Fields that EnterProbeCruise sets.
LEMMA CruiseSet ==
  ASSUME NEW r \in Controllers
  PROVE  [r EXCEPT !.phase = "PROBE_CRUISE", !.phase_age = 0,
                   !.rounds_in_phase = 0, !.is_sample_from_probing = FALSE]
           \in Controllers
BY ZenonT(40), Zeros DEF Controllers

\* PROBE_CRUISE is entered with the filter advanced.
LEMMA ProbeCruiseEntered ==
  ASSUME NEW c \in Controllers, NEW e \in EventRecords,
         c.phase \in {"PROBE_DOWN", "PROBE_CRUISE", "PROBE_REFILL"},
         FilterIsCounted(c),
         c.mode # "STARTUP"
  PROVE  LET d == EnterProbeCruise(c)
         IN  /\ d \in Controllers
             /\ CycleIsSound(d, e)
             /\ d.phase = "PROBE_CRUISE"
             /\ SameBesideCycle(c, d)
<1> DEFINE d == EnterProbeCruise(c)
           r == ExitProbeDown(c)
<1>1. d = [r EXCEPT !.phase = "PROBE_CRUISE", !.phase_age = 0,
                    !.rounds_in_phase = 0, !.is_sample_from_probing = FALSE]
  BY DEF EnterProbeCruise
<1>2. r \in Controllers
  BY ProbeDownLeft
<1>3. r.advances = 1 /\ r.has_advanced_max_bw /\ SameBesideCycle(c, r)
  BY ProbeDownLeft
<1> HIDE DEF d, r
<1>4. d \in Controllers
  BY <1>1, <1>2, CruiseSet
<1>5. /\ d.phase = "PROBE_CRUISE" /\ d.rounds_in_phase = 0
      /\ d.advances = 1 /\ d.has_advanced_max_bw
      /\ ~d.is_sample_from_probing
      /\ SameBesideCycle(r, d)
  BY <1>1, <1>2, <1>3 DEF Controllers, SameBesideCycle
<1> QED
  BY <1>3, <1>4, <1>5
  DEF CycleIsSound, FilterIsCounted, CutsAreCounted, RefillIsSent, BoundsAreOff,
      IsProbingForBandwidth, RoundIsSent, SameBesideCycle, d

\* Fields that EnterProbeRefill sets.
LEMMA RefillSet ==
  ASSUME NEW r \in Controllers
  PROVE  [r EXCEPT !.phase = "PROBE_REFILL", !.phase_age = 0,
                   !.rounds_in_phase = 0, !.is_sample_from_probing = FALSE]
           \in Controllers
BY ZenonT(40), Zeros DEF Controllers

\* Fields that EnterProbeRefill clears.
LEMMA RefillCleared ==
  ASSUME NEW r \in Controllers
  PROVE  [r EXCEPT !.stopped_risky_probe = FALSE, !.bandwidth_lo = FALSE,
                   !.inflight_lo = FALSE, !.sent_since_refill = FALSE]
           \in Controllers
BY ZenonT(40) DEF Controllers

\* PROBE_REFILL is entered without bounds and with nothing sent in it.
LEMMA ProbeRefillEntered ==
  ASSUME NEW c \in Controllers, NEW e \in EventRecords,
         c.phase \in {"PROBE_DOWN", "PROBE_CRUISE", "PROBE_REFILL"},
         FilterIsCounted(c)
  PROVE  LET d == EnterProbeRefill(c)
         IN  /\ d \in Controllers
             /\ CycleIsSound(d, e)
             /\ d.phase = "PROBE_REFILL"
             /\ SameBesideCycle(c, d)
<1> DEFINE d == EnterProbeRefill(c)
           x == ExitProbeDown(c)
           r == RestartRoundEarly(x)
           f == [r EXCEPT !.phase = "PROBE_REFILL", !.phase_age = 0,
                    !.rounds_in_phase = 0, !.is_sample_from_probing = FALSE]
<1>1. d = [f EXCEPT !.stopped_risky_probe = FALSE, !.bandwidth_lo = FALSE,
                    !.inflight_lo = FALSE, !.sent_since_refill = FALSE]
  <2> HIDE DEF r
  <2> QED
    BY DEF EnterProbeRefill, r
<1>2. x \in Controllers
  BY ProbeDownLeft
<1>3. x.advances = 1 /\ x.has_advanced_max_bw /\ SameBesideCycle(c, x)
  BY ProbeDownLeft
<1> HIDE DEF x
<1>4. r \in Controllers
  BY <1>2, RoundRestarted
<1>5. r = [x EXCEPT !.loss_events = 0, !.sent_in_round = FALSE]
  BY <1>2, RoundRestarted
<1> HIDE DEF d, r
<1>6. /\ r.advances = 1 /\ r.has_advanced_max_bw /\ ~r.sent_in_round
      /\ SameBesideCycle(x, r)
  BY <1>2, <1>3, <1>5 DEF Controllers, SameBesideCycle
<1>7. f \in Controllers
  BY <1>4, RefillSet
<1>8. /\ f.phase = "PROBE_REFILL" /\ f.rounds_in_phase = 0 /\ f.phase_age = 0
      /\ f.advances = 1 /\ f.has_advanced_max_bw /\ ~f.sent_in_round
      /\ ~f.is_sample_from_probing
      /\ SameBesideCycle(r, f)
  BY <1>4, <1>6 DEF Controllers, SameBesideCycle
<1> HIDE DEF f
<1>9. d \in Controllers
  BY <1>1, <1>7, RefillCleared
<1>10. /\ d.phase = "PROBE_REFILL" /\ d.rounds_in_phase = 0 /\ d.phase_age = 0
       /\ d.advances = 1 /\ d.has_advanced_max_bw /\ ~d.sent_in_round
       /\ ~d.is_sample_from_probing
       /\ ~d.bandwidth_lo /\ ~d.inflight_lo
       /\ SameBesideCycle(f, d)
  BY <1>1, <1>7, <1>8 DEF Controllers, SameBesideCycle
<1>11. SameBesideCycle(c, d)
  BY <1>3, <1>6, <1>8, <1>10 DEF SameBesideCycle
<1> QED
  BY <1>9, <1>10, <1>11
  DEF CycleIsSound, FilterIsCounted, CutsAreCounted, RefillIsSent, BoundsAreOff,
      IsProbingForBandwidth, RoundIsSent, d

\* Fields that EnterProbeUp sets.
LEMMA UpSet ==
  ASSUME NEW r \in Controllers
  PROVE  [r EXCEPT !.phase = "PROBE_UP", !.phase_age = 0, !.rounds_in_phase = 0,
                   !.is_sample_from_probing = TRUE, !.cuts = 0]
           \in Controllers
BY ZenonT(40), Zeros DEF Controllers

\* PROBE_UP is entered after a packet was sent in PROBE_REFILL.
LEMMA ProbeUpEntered ==
  ASSUME NEW c \in Controllers, NEW e \in EventRecords,
         c.phase = "PROBE_REFILL", c.mode = "PROBE_BW",
         FilterIsCounted(c), BoundsAreOff(c),
         c.sent_since_refill
  PROVE  LET d == EnterProbeUp(c)
         IN  /\ d \in Controllers
             /\ CycleIsSound(d, e)
             /\ d.phase = "PROBE_UP"
             /\ SameBesideCycle(c, d)
<1> DEFINE d == EnterProbeUp(c)
           r == RestartRoundEarly(c)
<1>1. d = [r EXCEPT !.phase = "PROBE_UP", !.phase_age = 0,
                    !.rounds_in_phase = 0, !.is_sample_from_probing = TRUE,
                    !.cuts = 0]
  BY DEF EnterProbeUp
<1>2. r \in Controllers
  BY RoundRestarted
<1>3. r = [c EXCEPT !.loss_events = 0, !.sent_in_round = FALSE]
  BY RoundRestarted
<1>4. /\ r.advances = 1 /\ r.has_advanced_max_bw /\ r.sent_since_refill
      /\ ~r.bandwidth_lo /\ ~r.inflight_lo
      /\ SameBesideCycle(c, r)
  <2>1. c.advances = 1 /\ c.has_advanced_max_bw
    BY DEF FilterIsCounted, Controllers
  <2>2. ~c.bandwidth_lo /\ ~c.inflight_lo
    BY DEF BoundsAreOff, IsProbingForBandwidth
  <2> HIDE DEF r
  <2> QED
    BY <1>3, <2>1, <2>2 DEF Controllers, SameBesideCycle
<1> HIDE DEF d, r
<1>5. d \in Controllers
  BY <1>1, <1>2, UpSet
<1>6. /\ d.phase = "PROBE_UP" /\ d.rounds_in_phase = 0 /\ d.cuts = 0
      /\ d.advances = 1 /\ d.has_advanced_max_bw /\ d.sent_since_refill
      /\ ~d.bandwidth_lo /\ ~d.inflight_lo
      /\ SameBesideCycle(r, d)
  BY <1>1, <1>2, <1>4 DEF Controllers, SameBesideCycle
<1> QED
  BY <1>4, <1>5, <1>6
  DEF CycleIsSound, FilterIsCounted, CutsAreCounted, RefillIsSent, BoundsAreOff,
      IsProbingForBandwidth, RoundIsSent, SameBesideCycle, d

\* The phases are sound after the bounds were adapted, too.
LEMMA AdaptUpperBoundsIsSound ==
  ASSUME NEW c \in Controllers, NEW e \in EventRecords, CycleIsSound(c, e)
  PROVE  LET d == MaybeAdaptUpperBounds(c, e)
         IN  /\ d \in Controllers
             /\ CycleIsSound(d, e)
             /\ d.phase = c.phase
             /\ SameBesideCycle(c, d)
<1> DEFINE d == MaybeAdaptUpperBounds(c, e)
<1>1. c.is_sample_from_probing => c.cuts = 0
  BY DEF CycleIsSound, CutsAreCounted
<1>2. d \in Controllers
  BY <1>1, AdaptUpperBoundsKeeps
<1>3. /\ d.is_sample_from_probing => d.cuts = 0 /\ c.is_sample_from_probing
      /\ SameCycle(c, d) /\ SameBesideCycle(c, d)
  BY <1>1, AdaptUpperBoundsKeeps
<1> HIDE DEF d
<1>4. FilterIsCounted(d)
  BY <1>3 DEF CycleIsSound, FilterIsCounted, SameCycle
<1>5. CutsAreCounted(d)
  BY <1>3 DEF CycleIsSound, CutsAreCounted, SameCycle
<1>6. RefillIsSent(d) /\ RoundIsSent(d, e)
  BY <1>3 DEF CycleIsSound, RefillIsSent, RoundIsSent, SameCycle
<1>7. BoundsAreOff(d)
  BY <1>3 DEF CycleIsSound, BoundsAreOff, IsProbingForBandwidth, SameCycle,
              SameBesideCycle
<1> QED
  BY <1>2, <1>3, <1>4, <1>5, <1>6, <1>7 DEF CycleIsSound, SameCycle, d

\* The cycle once the round was counted: in the event that ends the first round
\* of PROBE_DOWN the sampling is yet to end.
IsCounted(c, e) ==
  /\ FilterIsCounted(c)
  /\ RefillIsSent(c)
  /\ BoundsAreOff(c)
  /\ RoundIsSent(c, e)
  /\ c.is_sample_from_probing =>
       /\ c.cuts = 0
       /\ \/ c.phase = "PROBE_UP"
          \/ /\ c.phase = "PROBE_DOWN"
             /\ \/ c.rounds_in_phase = 0
                \/ c.rounds_in_phase = 1 /\ e.end_of_round_trip
  /\ c.phase = "PROBE_DOWN" /\ c.rounds_in_phase = 1 /\ e.end_of_round_trip =>
       c.advances = 0

\* CountRound.
LEMMA RoundCounted ==
  ASSUME NEW c \in Controllers, NEW e \in EventRecords, CycleIsSound(c, e)
  PROVE  LET d == CountRound(c, e)
         IN  /\ d \in Controllers
             /\ IsCounted(d, e)
             /\ d.phase = c.phase
             /\ SameBesideCycle(c, d)
<1> DEFINE d == CountRound(c, e)
           count == Smaller(c.rounds_in_phase + 1,
                            IF c.phase = "PROBE_DOWN" THEN 2 ELSE 1)
<1>0. c.rounds_in_phase \in {0, 1, 2}
  BY DEF Controllers, Rounds
<1>1. CASE e.end_of_round_trip /\ c.phase_age # 0
  <2>1. /\ count \in Rounds /\ count \in {1, 2}
        /\ count = 1 /\ c.phase = "PROBE_DOWN" => c.rounds_in_phase = 0
    BY <1>0 DEF Smaller, Rounds
  <2>2. d = [c EXCEPT !.rounds_in_phase = count]
    BY <1>1 DEF CountRound
  <2> HIDE DEF d, count
  <2>3. d \in Controllers
    BY <2>1, <2>2 DEF Controllers
  <2>4. /\ d.rounds_in_phase = count
        /\ d.phase = c.phase /\ d.phase_age = c.phase_age
        /\ d.has_advanced_max_bw = c.has_advanced_max_bw
        /\ d.advances = c.advances
        /\ d.sent_in_round = c.sent_in_round
        /\ d.sent_since_refill = c.sent_since_refill
    BY <2>2 DEF Controllers
  <2>5. /\ d.bandwidth_lo = c.bandwidth_lo /\ d.inflight_lo = c.inflight_lo
        /\ d.is_sample_from_probing = c.is_sample_from_probing
        /\ d.cuts = c.cuts
        /\ SameBesideCycle(c, d)
    BY <2>2 DEF Controllers, SameBesideCycle
  <2>6. FilterIsCounted(d)
    BY <1>1, <2>1, <2>4 DEF CycleIsSound, FilterIsCounted
  <2>7. RefillIsSent(d) /\ RoundIsSent(d, e)
    BY <1>1, <2>1, <2>4 DEF CycleIsSound, RefillIsSent, RoundIsSent
  <2>8. BoundsAreOff(d)
    BY <2>4, <2>5 DEF CycleIsSound, BoundsAreOff, IsProbingForBandwidth,
                      SameBesideCycle
  <2>9. c.phase = "PROBE_DOWN" /\ count = 1 => c.advances = 0
    BY <2>1 DEF CycleIsSound, FilterIsCounted
  <2>10. c.phase = "PROBE_DOWN" /\ c.rounds_in_phase = 0 => count = 1
    BY DEF Smaller, count
  <2> QED
    BY <1>1, <2>3, <2>4, <2>5, <2>6, <2>7, <2>8, <2>9, <2>10
    DEF IsCounted, CycleIsSound, CutsAreCounted, d
<1>2. CASE ~(e.end_of_round_trip /\ c.phase_age # 0)
  <2>1. d = c
    BY <1>2 DEF CountRound
  <2>2. c.phase = "PROBE_DOWN" /\ c.rounds_in_phase = 1 => c.phase_age # 0
    BY DEF CycleIsSound, FilterIsCounted
  <2>3. SameBesideCycle(c, c)
    BY DEF SameBesideCycle
  <2>4. IsCounted(c, e)
    BY <1>2, <2>2 DEF IsCounted, CycleIsSound, CutsAreCounted
  <2> QED
    BY <2>1, <2>3, <2>4
<1> QED
  BY <1>1, <1>2

\* PROBE_CRUISE goes on or ends in PROBE_REFILL.
LEMMA CruiseUpdated ==
  ASSUME NEW c \in Controllers, NEW e \in EventRecords,
         IsCounted(c, e), c.mode = "PROBE_BW", c.phase = "PROBE_CRUISE"
  PROVE  LET d == UpdateProbeBw(c, e)
         IN  /\ d \in Controllers
             /\ CycleIsSound(d, e)
             /\ d.phase \in {"PROBE_CRUISE", "PROBE_REFILL"}
             /\ SameBesideCycle(c, d)
<1>1. MaybeAdaptUpperBounds(c, e) = c
  BY DEF IsCounted, MaybeAdaptUpperBounds, ProbedTooHigh
<1>2. CycleIsSound(c, e) /\ SameBesideCycle(c, c)
  BY DEF IsCounted, CycleIsSound, CutsAreCounted, SameBesideCycle
<1>3. UpdateProbeBw(c, e) = IF IsTimeToProbeBandwidth(c, e)
                              THEN EnterProbeRefill(c) ELSE c
  BY <1>1 DEF UpdateProbeBw, UpdateProbeCruise
<1>4. FilterIsCounted(c)
  BY DEF IsCounted
<1>5. CASE IsTimeToProbeBandwidth(c, e)
  BY <1>3, <1>4, <1>5, ProbeRefillEntered
<1>6. CASE ~IsTimeToProbeBandwidth(c, e)
  BY <1>2, <1>3, <1>6
<1> QED
  BY <1>5, <1>6

\* PROBE_REFILL goes on or ends in PROBE_UP, with a round of its own.
LEMMA RefillUpdated ==
  ASSUME NEW c \in Controllers, NEW e \in EventRecords,
         IsCounted(c, e), c.mode = "PROBE_BW", c.phase = "PROBE_REFILL"
  PROVE  LET d == UpdateProbeBw(c, e)
         IN  /\ d \in Controllers
             /\ CycleIsSound(d, e)
             /\ d.phase \in {"PROBE_REFILL", "PROBE_UP"}
             /\ SameBesideCycle(c, d)
<1>1. MaybeAdaptUpperBounds(c, e) = c
  BY DEF IsCounted, MaybeAdaptUpperBounds, ProbedTooHigh
<1>2. CycleIsSound(c, e) /\ SameBesideCycle(c, c)
  BY DEF IsCounted, CycleIsSound, CutsAreCounted, SameBesideCycle
<1>3. UpdateProbeBw(c, e) = IF c.rounds_in_phase > 0 /\ e.end_of_round_trip
                              THEN EnterProbeUp(c) ELSE c
  BY <1>1 DEF UpdateProbeBw, UpdateProbeRefill
<1>4. FilterIsCounted(c) /\ BoundsAreOff(c)
  BY DEF IsCounted
<1>5. CASE c.rounds_in_phase > 0 /\ e.end_of_round_trip
  <2>1. c.sent_since_refill
    BY <1>5 DEF IsCounted, RefillIsSent
  <2> QED
    BY <1>3, <1>4, <1>5, <2>1, ProbeUpEntered
<1>6. CASE ~(c.rounds_in_phase > 0 /\ e.end_of_round_trip)
  BY <1>2, <1>3, <1>6
<1> QED
  BY <1>5, <1>6

\* PROBE_UP goes on or ends in PROBE_DOWN.
LEMMA UpUpdated ==
  ASSUME NEW c \in Controllers, NEW e \in EventRecords,
         IsCounted(c, e), c.mode = "PROBE_BW", c.phase = "PROBE_UP"
  PROVE  LET d == UpdateProbeBw(c, e)
         IN  /\ d \in Controllers
             /\ CycleIsSound(d, e)
             /\ d.phase \in {"PROBE_UP", "PROBE_DOWN"}
             /\ SameBesideCycle(c, d)
<1> DEFINE a == MaybeAdaptUpperBounds(c, e)
           d == UpdateProbeBw(c, e)
           is_risky == c.probed_too_high /\ e.at_inflight_hi
           is_queuing == /\ ~is_risky
                         /\ c.rounds_in_phase > 0
                         /\ e.bytes_in_flight >= QueuingThreshold(e)
<1>1. CycleIsSound(c, e)
  BY DEF IsCounted, CycleIsSound, CutsAreCounted
<1>2. a \in Controllers
  BY <1>1, AdaptUpperBoundsIsSound
<1>3. CycleIsSound(a, e) /\ a.phase = "PROBE_UP" /\ SameBesideCycle(c, a)
  BY <1>1, AdaptUpperBoundsIsSound
<1>4. d = IF ProbedTooHigh(c, e) THEN EnterProbeDown(a, TRUE, FALSE)
          ELSE IF is_risky \/ is_queuing
            THEN [EnterProbeDown(a, FALSE, is_risky) EXCEPT
                    !.underfilled = is_queuing /\ 4 * e.bytes_in_flight < 5 * e.bdp]
            ELSE a
  BY DEF UpdateProbeBw, UpdateProbeUp
<1>5. is_risky \in BOOLEAN
  OBVIOUS
<1>6. (a.is_sample_from_probing => a.cuts = 0) /\ a.mode # "STARTUP"
  BY <1>3 DEF CycleIsSound, CutsAreCounted, SameBesideCycle
<1> HIDE DEF a, d, is_risky
<1>7. CASE ProbedTooHigh(c, e)
  <2>1. d = EnterProbeDown(a, TRUE, FALSE)
    BY <1>4, <1>7
  <2>2. d \in Controllers /\ CycleIsSound(d, e) /\ d.phase = "PROBE_DOWN"
        /\ SameBesideCycle(a, d)
    BY <1>2, <1>6, <2>1, ProbeDownEntered
  <2> QED
    BY <1>3, <2>2 DEF SameBesideCycle, d
<1>8. CASE ~ProbedTooHigh(c, e) /\ (is_risky \/ is_queuing)
  <2> DEFINE f == EnterProbeDown(a, FALSE, is_risky)
             low == is_queuing /\ 4 * e.bytes_in_flight < 5 * e.bdp
  <2>1. d = [f EXCEPT !.underfilled = low]
    BY <1>4, <1>8
  <2>2. f \in Controllers /\ CycleIsSound(f, e) /\ f.phase = "PROBE_DOWN"
        /\ SameBesideCycle(a, f)
    BY <1>2, <1>5, <1>6, ProbeDownEntered
  <2>3. low \in BOOLEAN
    OBVIOUS
  <2> HIDE DEF f, low
  <2>4. d \in Controllers
    BY <2>1, <2>2, <2>3 DEF Controllers
  <2>5. SameCycle(f, d) /\ SameBesideCycle(f, d)
        /\ d.is_sample_from_probing = f.is_sample_from_probing
        /\ d.cuts = f.cuts
    BY <2>1, <2>2 DEF Controllers, SameCycle, SameBesideCycle
  <2>6. CycleIsSound(d, e)
    BY <2>2, <2>5
    DEF CycleIsSound, FilterIsCounted, CutsAreCounted, RefillIsSent,
        BoundsAreOff, IsProbingForBandwidth, RoundIsSent, SameCycle,
        SameBesideCycle
  <2> QED
    BY <1>3, <2>2, <2>4, <2>5, <2>6 DEF SameCycle, SameBesideCycle, d
<1>9. CASE ~ProbedTooHigh(c, e) /\ ~(is_risky \/ is_queuing)
  BY <1>2, <1>3, <1>4, <1>9 DEF d
<1> QED
  BY <1>7, <1>8, <1>9

\* The field that EndSampling sets besides.
LEMMA SamplingEndedSet ==
  ASSUME NEW c \in Controllers
  PROVE  [c EXCEPT !.is_sample_from_probing = FALSE] \in Controllers
BY ZenonT(40) DEF Controllers

\* The first round of PROBE_DOWN ends, and with it the sampling.
LEMMA SamplingEnded ==
  ASSUME NEW c \in Controllers, NEW e \in EventRecords,
         IsCounted(c, e), c.phase = "PROBE_DOWN",
         c.rounds_in_phase = 1, e.end_of_round_trip
  PROVE  LET d == EndSampling(c, e)
         IN  /\ d \in Controllers
             /\ CycleIsSound(d, e)
             /\ d.phase = "PROBE_DOWN"
             /\ SameBesideCycle(c, d)
<1> DEFINE d == EndSampling(c, e)
<1>1. c.advances = 0 /\ ~c.has_advanced_max_bw
  BY DEF IsCounted, FilterIsCounted, Controllers
<1>2. c.phase_age # 0
  BY DEF IsCounted, FilterIsCounted
<1>3. CASE LastSampleIsAppLimited(e)
  <2>1. d = [c EXCEPT !.is_sample_from_probing = FALSE]
    BY <1>3 DEF EndSampling
  <2> HIDE DEF d
  <2>2. d \in Controllers
    BY <2>1, SamplingEndedSet
  <2>3. /\ ~d.is_sample_from_probing
        /\ SameCycle(c, d) /\ SameBesideCycle(c, d)
    BY <2>1 DEF Controllers, SameCycle, SameBesideCycle
  <2>4. CycleIsSound(d, e)
    BY <1>1, <1>2, <2>3
    DEF IsCounted, CycleIsSound, FilterIsCounted, CutsAreCounted, RefillIsSent,
        BoundsAreOff, IsProbingForBandwidth, RoundIsSent, SameCycle,
        SameBesideCycle
  <2> QED
    BY <2>2, <2>3, <2>4 DEF SameCycle, d
<1>4. CASE ~LastSampleIsAppLimited(e)
  <2> DEFINE a == AdvanceMaxBandwidthFilter(c)
  <2>1. d = [a EXCEPT !.is_sample_from_probing = FALSE]
    BY <1>4 DEF EndSampling
  <2>2. /\ a \in Controllers
        /\ a.advances = 1 /\ a.has_advanced_max_bw
        /\ a.phase = c.phase /\ a.phase_age = c.phase_age
        /\ a.rounds_in_phase = c.rounds_in_phase
        /\ a.bandwidth_lo = c.bandwidth_lo /\ a.inflight_lo = c.inflight_lo
        /\ SameBesideCycle(c, a)
    BY <1>1, FilterAdvanced
  <2> HIDE DEF d, a
  <2>0. a \in Controllers
    BY <2>2
  <2>5. d \in Controllers
    BY <2>0, <2>1, SamplingEndedSet
  <2>3. /\ ~d.is_sample_from_probing
        /\ d.advances = 1 /\ d.has_advanced_max_bw
        /\ d.phase = c.phase /\ d.phase_age = c.phase_age
        /\ d.rounds_in_phase = 1
        /\ d.bandwidth_lo = c.bandwidth_lo /\ d.inflight_lo = c.inflight_lo
        /\ SameBesideCycle(c, d)
    BY <2>1, <2>2 DEF Controllers, SameBesideCycle
  <2>4. CycleIsSound(d, e)
    BY <1>2, <2>3
    DEF IsCounted, CycleIsSound, FilterIsCounted, CutsAreCounted, RefillIsSent,
        BoundsAreOff, IsProbingForBandwidth, RoundIsSent, SameBesideCycle
  <2> QED
    BY <2>3, <2>4, <2>5 DEF d
<1> QED
  BY <1>3, <1>4

\* PROBE_DOWN goes on or ends in PROBE_REFILL or PROBE_CRUISE.
LEMMA DownUpdated ==
  ASSUME NEW c \in Controllers, NEW e \in EventRecords,
         IsCounted(c, e), c.mode = "PROBE_BW", c.phase = "PROBE_DOWN"
  PROVE  LET d == UpdateProbeBw(c, e)
         IN  /\ d \in Controllers
             /\ CycleIsSound(d, e)
             /\ d.phase \in {"PROBE_DOWN", "PROBE_CRUISE", "PROBE_REFILL"}
             /\ SameBesideCycle(c, d)
<1> DEFINE round_passed == c.rounds_in_phase = 1 /\ e.end_of_round_trip
           s == IF round_passed THEN EndSampling(c, e) ELSE c
           a == MaybeAdaptUpperBounds(s, e)
           d == UpdateProbeBw(c, e)
<1>1. s \in Controllers /\ CycleIsSound(s, e) /\ s.phase = "PROBE_DOWN"
      /\ SameBesideCycle(c, s)
  <2>1. CASE round_passed
    BY <2>1, SamplingEnded
  <2>2. CASE ~round_passed
    <3>1. CycleIsSound(c, e)
      BY <2>2 DEF IsCounted, CycleIsSound, CutsAreCounted
    <3> QED
      BY <2>2, <3>1 DEF SameBesideCycle
  <2> QED
    BY <2>1, <2>2
<1>2. d = IF round_passed /\ c.stopped_risky_probe /\ ~c.probed_too_high
            THEN EnterProbeRefill(s)
            ELSE LeaveProbeDown(a, e)
  BY DEF UpdateProbeBw, UpdateProbeDown
<1> HIDE DEF s, d
<1>3. a \in Controllers /\ CycleIsSound(a, e) /\ a.phase = "PROBE_DOWN"
      /\ SameBesideCycle(s, a)
  BY <1>1, AdaptUpperBoundsIsSound
<1> HIDE DEF a
<1>4. FilterIsCounted(s) /\ FilterIsCounted(a)
  BY <1>1, <1>3 DEF CycleIsSound
<1>5. d = EnterProbeRefill(s) \/ d = EnterProbeRefill(a)
      \/ d = EnterProbeCruise(a) \/ d = a
  BY <1>2 DEF LeaveProbeDown
<1>6. CASE d = EnterProbeRefill(s)
  <2>1. d \in Controllers /\ CycleIsSound(d, e) /\ d.phase = "PROBE_REFILL"
        /\ SameBesideCycle(s, d)
    BY <1>1, <1>4, <1>6, ProbeRefillEntered
  <2> QED
    BY <1>1, <2>1 DEF SameBesideCycle, d
<1>7. CASE d = EnterProbeRefill(a)
  <2>1. d \in Controllers /\ CycleIsSound(d, e) /\ d.phase = "PROBE_REFILL"
        /\ SameBesideCycle(a, d)
    BY <1>3, <1>4, <1>7, ProbeRefillEntered
  <2> QED
    BY <1>1, <1>3, <2>1 DEF SameBesideCycle, d
<1>8. CASE d = EnterProbeCruise(a)
  <2>1. a.mode # "STARTUP"
    BY <1>1, <1>3 DEF SameBesideCycle
  <2>2. d \in Controllers /\ CycleIsSound(d, e) /\ d.phase = "PROBE_CRUISE"
        /\ SameBesideCycle(a, d)
    BY <1>3, <1>4, <1>8, <2>1, ProbeCruiseEntered
  <2> QED
    BY <1>1, <1>3, <2>2 DEF SameBesideCycle, d
<1>9. CASE d = a
  BY <1>1, <1>3, <1>9 DEF SameBesideCycle, d
<1> QED
  BY <1>5, <1>6, <1>7, <1>8, <1>9

\* An event in PROBE_BW keeps the cycle of the phases sound, and ends
\* PROBE_DOWN in one of the phases that PROBE_RTT may interrupt.
LEMMA PhaseUpdated ==
  ASSUME NEW c \in Controllers, NEW e \in EventRecords,
         CycleIsSound(c, e), c.mode = "PROBE_BW", c.phase # "PROBE_NOT_STARTED"
  PROVE  LET d == UpdateProbeBw(CountRound(c, e), e)
         IN  /\ d \in Controllers
             /\ CycleIsSound(d, e)
             /\ d.phase # "PROBE_NOT_STARTED"
             /\ c.phase = "PROBE_DOWN" =>
                  d.phase \in {"PROBE_DOWN", "PROBE_CRUISE", "PROBE_REFILL"}
             /\ SameBesideCycle(c, d)
<1> DEFINE k == CountRound(c, e)
           d == UpdateProbeBw(k, e)
<1>1. k \in Controllers /\ IsCounted(k, e) /\ k.phase = c.phase
      /\ SameBesideCycle(c, k)
  BY RoundCounted
<1>2. k.mode = "PROBE_BW"
  BY <1>1 DEF SameBesideCycle
<1>3. c.phase \in {"PROBE_DOWN", "PROBE_CRUISE", "PROBE_REFILL", "PROBE_UP"}
  BY DEF Controllers, Phases
<1> HIDE DEF k
<1>4. CASE c.phase = "PROBE_DOWN"
  <2>1. d \in Controllers /\ CycleIsSound(d, e) /\ SameBesideCycle(k, d)
        /\ d.phase \in {"PROBE_DOWN", "PROBE_CRUISE", "PROBE_REFILL"}
    BY <1>1, <1>2, <1>4, DownUpdated
  <2> QED
    BY <1>1, <2>1 DEF SameBesideCycle, k
<1>5. CASE c.phase = "PROBE_CRUISE"
  <2>1. d \in Controllers /\ CycleIsSound(d, e) /\ SameBesideCycle(k, d)
        /\ d.phase \in {"PROBE_CRUISE", "PROBE_REFILL"}
    BY <1>1, <1>2, <1>5, CruiseUpdated
  <2> QED
    BY <1>1, <1>5, <2>1 DEF SameBesideCycle, k
<1>6. CASE c.phase = "PROBE_REFILL"
  <2>1. d \in Controllers /\ CycleIsSound(d, e) /\ SameBesideCycle(k, d)
        /\ d.phase \in {"PROBE_REFILL", "PROBE_UP"}
    BY <1>1, <1>2, <1>6, RefillUpdated
  <2> QED
    BY <1>1, <1>6, <2>1 DEF SameBesideCycle, k
<1>7. CASE c.phase = "PROBE_UP"
  <2>1. d \in Controllers /\ CycleIsSound(d, e) /\ SameBesideCycle(k, d)
        /\ d.phase \in {"PROBE_UP", "PROBE_DOWN"}
    BY <1>1, <1>2, <1>7, UpUpdated
  <2> QED
    BY <1>1, <1>7, <2>1 DEF SameBesideCycle, k
<1> QED
  BY <1>3, <1>4, <1>5, <1>6, <1>7

----------------------------------------------------------------------------
(* The loop over the modes: b is the controller before the event.          *)

\* What holds while the event is handed from mode to mode.
InLoop(b, e, c) ==
  /\ ModeFitsPhase(c)
  /\ CycleIsSound(c, e)
  /\ ProbeRttIsTimed(c)
  /\ MinRttIsYoung(c)
  /\ c.round_started
  /\ c.max_bw_older \/ c.max_bw_newer
  /\ c.since_min_rtt <= b.since_min_rtt
  /\ c.mode = "PROBE_RTT" /\ b.mode # "PROBE_RTT" =>
       b.since_min_rtt >= ProbeRttPeriod

\* The changes of mode still possible before the mode has answered.
MaxChanges(c) ==
  CASE c.mode = "STARTUP" -> 3
    [] c.mode = "DRAIN" -> 2
    [] c.mode = "PROBE_BW" -> IF c.phase = "PROBE_DOWN" THEN 1 ELSE 0
    [] c.mode = "PROBE_RTT" -> IF c.exit_time = 0 THEN 1 ELSE 0

\* The changes of mode still possible once it has.
ChangesLeft(c) ==
  CASE c.next = c.mode -> 0
    [] c.next # c.mode /\ c.mode = "STARTUP" -> 3
    [] c.next # c.mode /\ c.mode = "DRAIN" -> 2
    [] OTHER -> 1

\* The mode may be handed the event.
Ready(b, e, c) ==
  /\ InLoop(b, e, c)
  /\ c.mode = "STARTUP" <=> ~c.full_bandwidth_reached
  /\ c.rounds_without_growth < FullBwRounds
  /\ c.mode \in {"STARTUP", "PROBE_RTT"} => c.pacing_gain = GainOf(c)
  /\ c.changes + MaxChanges(c) <= 3

\* The mode has said which one comes next, and only for a reason.
NextIsJustified(b, c) ==
  /\ c.mode = "STARTUP" =>
       /\ c.next \in {"STARTUP", "DRAIN"}
       /\ c.next = "STARTUP" <=> ~c.full_bandwidth_reached
  /\ c.mode = "DRAIN" => c.next \in {"DRAIN", "PROBE_BW"}
  /\ c.mode = "PROBE_BW" => c.next \in {"PROBE_BW", "PROBE_RTT"}
  /\ c.mode = "PROBE_BW" /\ c.next = "PROBE_RTT" =>
       /\ c.phase \in {"PROBE_CRUISE", "PROBE_REFILL"}
       /\ c.min_rtt_age <= 0 /\ c.resume_age <= 0
       /\ b.since_min_rtt >= ProbeRttPeriod
  /\ c.mode = "PROBE_RTT" => c.next \in {"PROBE_RTT", "PROBE_BW"}
  /\ c.mode = "PROBE_RTT" /\ c.next = "PROBE_BW" => c.exit_time = 0

Answered(b, e, c) ==
  /\ InLoop(b, e, c)
  /\ NextIsJustified(b, c)
  /\ c.mode # "STARTUP" => c.full_bandwidth_reached
  /\ c.rounds_without_growth < FullBwRounds \/ c.next # c.mode
  /\ c.mode # "STARTUP" => c.rounds_without_growth < FullBwRounds
  /\ c.next = c.mode => c.pacing_gain = GainOf(c)
  /\ c.changes + ChangesLeft(c) <= 3

\* All that InLoop reads.
SameInLoop(c, d) ==
  /\ SameCycle(c, d)
  /\ d.is_sample_from_probing = c.is_sample_from_probing
  /\ d.cuts = c.cuts
  /\ d.mode = c.mode
  /\ d.exit_time = c.exit_time /\ d.low_age = c.low_age
  /\ d.drained = c.drained
  /\ d.round_started = c.round_started
  /\ d.min_rtt_age = c.min_rtt_age
  /\ d.resume_age = c.resume_age
  /\ d.since_min_rtt = c.since_min_rtt
  /\ c.max_bw_older \/ c.max_bw_newer => d.max_bw_older \/ d.max_bw_newer

\* A handler that moves none of this stays in the loop.
LEMMA InLoopIsKept ==
  ASSUME NEW b, NEW e, NEW c, NEW d, InLoop(b, e, c), SameInLoop(c, d)
  PROVE  InLoop(b, e, d)
<1>1. ModeFitsPhase(d)
  BY DEF InLoop, ModeFitsPhase, SameInLoop, SameCycle
<1>2. FilterIsCounted(d)
  BY DEF InLoop, CycleIsSound, FilterIsCounted, SameInLoop, SameCycle
<1>3. CutsAreCounted(d)
  BY DEF InLoop, CycleIsSound, CutsAreCounted, SameInLoop, SameCycle
<1>4. RefillIsSent(d) /\ RoundIsSent(d, e)
  BY DEF InLoop, CycleIsSound, RefillIsSent, RoundIsSent, SameInLoop, SameCycle
<1>5. BoundsAreOff(d)
  BY DEF InLoop, CycleIsSound, BoundsAreOff, IsProbingForBandwidth, SameInLoop,
         SameCycle
<1>6. ProbeRttIsTimed(d) /\ MinRttIsYoung(d)
  BY DEF InLoop, ProbeRttIsTimed, MinRttIsYoung, SameInLoop
<1> QED
  BY <1>1, <1>2, <1>3, <1>4, <1>5, <1>6
  DEF InLoop, CycleIsSound, SameInLoop

\* The cycle of the phases may move within the loop, in PROBE_BW.
LEMMA InLoopCycles ==
  ASSUME NEW b, NEW e, NEW c, NEW d, InLoop(b, e, c), CycleIsSound(d, e),
         SameBesideCycle(c, d), c.mode = "PROBE_BW",
         d.phase # "PROBE_NOT_STARTED"
  PROVE  InLoop(b, e, d)
BY DEF InLoop, ModeFitsPhase, ProbeRttIsTimed, MinRttIsYoung, SameBesideCycle

----------------------------------------------------------------------------
(* The handlers of the modes.                                              *)

\* A handler may only decide on the next mode.
SameTurn(c, d) ==
  SameInLoop(c, d) /\ d.changes = c.changes /\ d.pacing_gain = c.pacing_gain

\* CheckBandwidthGrowth: the rounds without growth stay below the bound until
\* they have found the full bandwidth.
LEMMA BandwidthGrowthChecked ==
  ASSUME NEW c \in Controllers, NEW e \in EventRecords,
         ~c.full_bandwidth_reached, c.rounds_without_growth < FullBwRounds
  PROVE  LET d == CheckBandwidthGrowth(c, e)
         IN  /\ d \in Controllers
             /\ d.rounds_without_growth < FullBwRounds \/ d.full_bandwidth_reached
             /\ SameTurn(c, d)
<1> DEFINE d == CheckBandwidthGrowth(c, e)
<1>1. CASE e.bandwidth_grew \/ ~c.has_baseline
  <2>1. 0 \in GrowthCounts /\ 0 < FullBwRounds
    BY CountAssumption DEF GrowthCounts
  <2>2. d = [c EXCEPT !.has_baseline = TRUE, !.rounds_without_growth = 0]
    BY <1>1 DEF CheckBandwidthGrowth
  <2> HIDE DEF d
  <2>3. d \in Controllers
    BY ZenonT(40), <2>1, <2>2 DEF Controllers
  <2>4. d.rounds_without_growth = 0 /\ SameTurn(c, d)
    BY <2>2 DEF Controllers, SameTurn, SameInLoop, SameCycle
  <2> QED
    BY <2>1, <2>3, <2>4 DEF d
<1>2. CASE ~(e.bandwidth_grew \/ ~c.has_baseline)
  <2> DEFINE n == c.rounds_without_growth + 1
             full == n >= FullBwRounds
  <2>1. n \in GrowthCounts /\ (n < FullBwRounds \/ full) /\ full \in BOOLEAN
    BY CountAssumption DEF Controllers, GrowthCounts
  <2>2. d = [c EXCEPT !.rounds_without_growth = n,
                      !.full_bandwidth_reached = full]
    BY <1>2 DEF CheckBandwidthGrowth
  <2> HIDE DEF d, n, full
  <2>3. d \in Controllers
    BY ZenonT(40), <2>1, <2>2 DEF Controllers
  <2>4. d.rounds_without_growth = n /\ d.full_bandwidth_reached = full
        /\ SameTurn(c, d)
    BY <2>2 DEF Controllers, SameTurn, SameInLoop, SameCycle
  <2> QED
    BY <2>1, <2>3, <2>4 DEF d
<1> QED
  BY <1>1, <1>2

\* CheckExcessiveLosses only adds a reason to have the full bandwidth.
LEMMA ExcessiveLossesChecked ==
  ASSUME NEW c \in Controllers, NEW e \in EventRecords
  PROVE  LET d == CheckExcessiveLosses(c, e)
         IN  /\ d \in Controllers
             /\ d.rounds_without_growth = c.rounds_without_growth
             /\ c.full_bandwidth_reached => d.full_bandwidth_reached
             /\ SameTurn(c, d)
<1> DEFINE d == CheckExcessiveLosses(c, e)
<1>1. d = c \/ d = [c EXCEPT !.inflight_hi = TRUE,
                             !.full_bandwidth_reached = TRUE]
  BY DEF CheckExcessiveLosses
<1> HIDE DEF d
<1>2. CASE d = c
  BY <1>2 DEF SameTurn, SameInLoop, SameCycle, d
<1>3. CASE d = [c EXCEPT !.inflight_hi = TRUE, !.full_bandwidth_reached = TRUE]
  <2>1. d \in Controllers
    BY ZenonT(40), <1>3 DEF Controllers
  <2>2. /\ d.rounds_without_growth = c.rounds_without_growth
        /\ d.full_bandwidth_reached
        /\ SameTurn(c, d)
    BY <1>3 DEF Controllers, SameTurn, SameInLoop, SameCycle
  <2> QED
    BY <2>1, <2>2 DEF d
<1> QED
  BY <1>1, <1>2, <1>3

\* STARTUP answers with DRAIN exactly when the full bandwidth was reached.
LEMMA StartupAnswers ==
  ASSUME NEW b \in Controllers, NEW c \in Controllers, NEW e \in EventRecords,
         Ready(b, e, c), c.mode = "STARTUP"
  PROVE  LET d == OnModeEvent(c, e)
         IN  d \in Controllers /\ Answered(b, e, d) /\ d.changes = c.changes
<1> DEFINE g == CheckBandwidthGrowth(c, e)
           x == IF e.end_of_round_trip /\ ~LastSampleIsAppLimited(e)
                  THEN CheckExcessiveLosses(g, e) ELSE c
           next == IF x.full_bandwidth_reached THEN "DRAIN" ELSE "STARTUP"
           d == OnModeEvent(c, e)
<1>1. ~c.full_bandwidth_reached /\ c.rounds_without_growth < FullBwRounds
  BY DEF Ready
<1>2. x \in Controllers
      /\ (x.rounds_without_growth < FullBwRounds \/ x.full_bandwidth_reached)
      /\ SameTurn(c, x)
  <2>1. g \in Controllers
        /\ (g.rounds_without_growth < FullBwRounds \/ g.full_bandwidth_reached)
        /\ SameTurn(c, g)
    BY <1>1, BandwidthGrowthChecked
  <2>2. CASE e.end_of_round_trip /\ ~LastSampleIsAppLimited(e)
    <3> HIDE DEF g
    <3>1. x \in Controllers
          /\ x.rounds_without_growth = g.rounds_without_growth
          /\ (g.full_bandwidth_reached => x.full_bandwidth_reached)
          /\ SameTurn(g, x)
      BY <2>1, <2>2, ExcessiveLossesChecked
    <3> QED
      BY <2>1, <3>1 DEF SameTurn, SameInLoop, SameCycle
  <2>3. CASE ~(e.end_of_round_trip /\ ~LastSampleIsAppLimited(e))
    BY <1>1, <2>3 DEF SameTurn, SameInLoop, SameCycle
  <2> QED
    BY <2>2, <2>3
<1>3. d = [x EXCEPT !.next = next]
  BY DEF OnModeEvent, StartupOnCongestionEvent, LeaveStartup
<1> HIDE DEF d, x
<1>4. next \in Modes /\ next \in {"STARTUP", "DRAIN"}
      /\ (next = "STARTUP" <=> ~x.full_bandwidth_reached)
  BY DEF Modes
<1> HIDE DEF next
<1>5. d \in Controllers
  BY <1>2, <1>3, <1>4 DEF Controllers
<1>6. /\ d.next = next
      /\ d.full_bandwidth_reached = x.full_bandwidth_reached
      /\ d.rounds_without_growth = x.rounds_without_growth
      /\ SameTurn(c, d)
  BY <1>2, <1>3 DEF Controllers, SameTurn, SameInLoop, SameCycle
<1>7. InLoop(b, e, d)
  BY <1>6, InLoopIsKept DEF Ready, SameTurn
<1>8. c.pacing_gain = StartupGain /\ c.changes + 3 <= 3
  BY DEF Ready, GainOf, MaxChanges
<1>9. d.mode = "STARTUP" /\ d.pacing_gain = StartupGain /\ d.changes = c.changes
  BY <1>6, <1>8 DEF SameTurn, SameInLoop
<1>10. d.changes + ChangesLeft(d) <= 3
  BY <1>4, <1>6, <1>8, <1>9 DEF ChangesLeft, Controllers
<1>11. Answered(b, e, d)
  BY <1>2, <1>4, <1>6, <1>7, <1>9, <1>10 DEF Answered, NextIsJustified, GainOf
<1> QED
  BY <1>5, <1>9, <1>11 DEF d

\* DRAIN answers with PROBE_BW when the queue is gone.
LEMMA DrainAnswers ==
  ASSUME NEW b \in Controllers, NEW c \in Controllers, NEW e \in EventRecords,
         Ready(b, e, c), c.mode = "DRAIN"
  PROVE  LET d == OnModeEvent(c, e)
         IN  d \in Controllers /\ Answered(b, e, d) /\ d.changes = c.changes
<1> DEFINE next == IF e.bytes_in_flight <= Larger(e.bdp, MinCwnd)
                     THEN "PROBE_BW" ELSE "DRAIN"
           d == OnModeEvent(c, e)
<1>1. d = [c EXCEPT !.pacing_gain = DrainGain, !.next = next]
  BY DEF OnModeEvent, DrainOnCongestionEvent
<1>2. next \in Modes /\ next \in {"PROBE_BW", "DRAIN"} /\ DrainGain \in PacingGains
  BY DEF Modes, PacingGains
<1> HIDE DEF d, next
<1>3. d \in Controllers
  BY ZenonT(40), <1>1, <1>2 DEF Controllers
<1>4. /\ d.next = next /\ d.pacing_gain = DrainGain /\ d.changes = c.changes
      /\ d.full_bandwidth_reached = c.full_bandwidth_reached
      /\ d.rounds_without_growth = c.rounds_without_growth
      /\ SameInLoop(c, d)
  BY <1>1 DEF Controllers, SameInLoop, SameCycle
<1>5. InLoop(b, e, d)
  BY <1>4, InLoopIsKept DEF Ready
<1>6. d.mode = "DRAIN"
  BY <1>4 DEF SameInLoop
<1>7. c.full_bandwidth_reached /\ c.rounds_without_growth < FullBwRounds
  BY DEF Ready, Controllers
<1>8. d.changes + ChangesLeft(d) <= 3
  <2>1. c.changes + 2 <= 3
    BY DEF Ready, MaxChanges
  <2> QED
    BY <1>2, <1>4, <1>6, <2>1 DEF ChangesLeft, Controllers
<1>9. Answered(b, e, d)
  BY <1>2, <1>4, <1>5, <1>6, <1>7, <1>8 DEF Answered, NextIsJustified, GainOf
<1> QED
  BY <1>3, <1>4, <1>9 DEF d

\* PROBE_RTT answers with PROBE_BW when its exit time has passed; the flight
\* is low from the event that sets this time.
LEMMA ProbeRttAnswers ==
  ASSUME NEW b \in Controllers, NEW c \in Controllers, NEW e \in EventRecords,
         Ready(b, e, c), c.mode = "PROBE_RTT"
  PROVE  LET d == OnModeEvent(c, e)
         IN  d \in Controllers /\ Answered(b, e, d) /\ d.changes = c.changes
<1> DEFINE d == OnModeEvent(c, e)
           next == IF c.exit_time = 0 THEN "PROBE_BW" ELSE "PROBE_RTT"
           kept == [c EXCEPT !.next = next]
           set == [c EXCEPT !.next = "PROBE_RTT", !.low_age = 0,
                            !.exit_time = ProbeRttDuration + 1]
<1>1. d = kept \/ (d = set /\ c.exit_time = None)
  BY DEF OnModeEvent, ProbeRttOnCongestionEvent, None
<1>2. InLoop(b, e, c) /\ c.full_bandwidth_reached
      /\ c.rounds_without_growth < FullBwRounds /\ c.pacing_gain = 1000
  BY DEF Ready, GainOf, Controllers
<1> HIDE DEF d, kept, set, next
<1>3. CASE d = kept
  <2>1. next \in Modes /\ next \in {"PROBE_BW", "PROBE_RTT"}
        /\ (next = "PROBE_BW" <=> c.exit_time = 0)
    BY DEF Modes, next
  <2>2. d \in Controllers
    BY <1>3, <2>1 DEF Controllers, kept
  <2>3. /\ d.next = next /\ d.pacing_gain = c.pacing_gain
        /\ d.changes = c.changes
        /\ d.full_bandwidth_reached = c.full_bandwidth_reached
        /\ d.rounds_without_growth = c.rounds_without_growth
        /\ SameInLoop(c, d)
    BY <1>3 DEF Controllers, SameInLoop, SameCycle, kept
  <2>4. InLoop(b, e, d)
    BY <1>2, <2>3, InLoopIsKept
  <2>5. d.mode = "PROBE_RTT" /\ d.exit_time = c.exit_time
    BY <2>3 DEF SameInLoop
  <2>6. d.changes + ChangesLeft(d) <= 3
    BY <2>1, <2>3, <2>5 DEF Ready, MaxChanges, ChangesLeft, Controllers
  <2>7. Answered(b, e, d)
    BY <1>2, <2>1, <2>3, <2>4, <2>5, <2>6 DEF Answered, NextIsJustified, GainOf
  <2> QED
    BY <2>2, <2>3, <2>7 DEF d
<1>4. CASE d = set /\ c.exit_time = None
  <2>1. 0 \in ExitTimes /\ ProbeRttDuration + 1 \in ExitTimes
        /\ "PROBE_RTT" \in Modes
    BY ClockAssumption DEF ExitTimes, None, Modes
  <2>2. d \in Controllers
    BY ZenonT(40), <1>4, <2>1 DEF Controllers, set
  <2>3. /\ d.next = "PROBE_RTT" /\ d.pacing_gain = c.pacing_gain
        /\ d.changes = c.changes
        /\ d.full_bandwidth_reached = c.full_bandwidth_reached
        /\ d.rounds_without_growth = c.rounds_without_growth
        /\ d.mode = c.mode
        /\ d.exit_time = ProbeRttDuration + 1 /\ d.low_age = 0
        /\ d.drained = c.drained
    BY <1>4 DEF Controllers, set
  <2>4. /\ SameCycle(c, d)
        /\ d.is_sample_from_probing = c.is_sample_from_probing
        /\ d.cuts = c.cuts
        /\ d.round_started = c.round_started
        /\ d.min_rtt_age = c.min_rtt_age
        /\ d.resume_age = c.resume_age
        /\ d.since_min_rtt = c.since_min_rtt
        /\ d.max_bw_older = c.max_bw_older /\ d.max_bw_newer = c.max_bw_newer
    BY <1>4 DEF Controllers, SameCycle, set
  <2>5. ProbeRttIsTimed(d)
    BY <1>2, <2>3, ClockAssumption DEF InLoop, ProbeRttIsTimed, None
  <2>6. ModeFitsPhase(d) /\ MinRttIsYoung(d)
    BY <1>2, <2>3, <2>4 DEF InLoop, ModeFitsPhase, MinRttIsYoung, SameCycle
  <2>7. FilterIsCounted(d) /\ CutsAreCounted(d)
    BY <1>2, <2>4
    DEF InLoop, CycleIsSound, FilterIsCounted, CutsAreCounted, SameCycle
  <2>8. RefillIsSent(d) /\ RoundIsSent(d, e) /\ BoundsAreOff(d)
    BY <1>2, <2>3, <2>4
    DEF InLoop, CycleIsSound, RefillIsSent, RoundIsSent, BoundsAreOff,
        IsProbingForBandwidth, SameCycle
  <2>9. InLoop(b, e, d)
    BY <1>2, <2>3, <2>4, <2>5, <2>6, <2>7, <2>8 DEF InLoop, CycleIsSound
  <2>10. d.changes + ChangesLeft(d) <= 3
    BY <1>4, <2>3 DEF Ready, MaxChanges, ChangesLeft, Controllers, None
  <2>11. Answered(b, e, d)
    BY <1>2, <2>3, <2>9, <2>10 DEF Answered, NextIsJustified, GainOf
  <2> QED
    BY <2>2, <2>3, <2>11 DEF d
<1> QED
  BY <1>1, <1>3, <1>4

\* ForceUpdateMinRtt: the time of the sample is not in the past.
LEMMA MinRttForced ==
  ASSUME NEW c \in Controllers
  PROVE  \E r \in MinRttAges :
           /\ r <= 0
           /\ 0 \in MinRttAges
           /\ ForceUpdateMinRtt(c) = [c EXCEPT !.min_rtt_age = 0, !.resume_age = r]
<1> DEFINE r == IF c.quiescence = None THEN 0 ELSE -c.quiescence
<1>1. c.quiescence \in Quiescences
  BY DEF Controllers
<1>2. r \in MinRttAges /\ r <= 0 /\ 0 \in MinRttAges
  BY <1>1, ClockAssumption DEF Quiescences, MinRttAges, None
<1>3. ForceUpdateMinRtt(c) = [c EXCEPT !.min_rtt_age = 0, !.resume_age = r]
  BY DEF ForceUpdateMinRtt
<1> QED
  BY <1>2, <1>3

\* Fields that are set when PROBE_RTT is to interrupt the cycle.
LEMMA ProbeRttChosen ==
  ASSUME NEW c \in Controllers, NEW r \in MinRttAges, 0 \in MinRttAges
  PROVE  [[c EXCEPT !.min_rtt_age = 0, !.resume_age = r]
            EXCEPT !.next = "PROBE_RTT"] \in Controllers
<1>1. "PROBE_RTT" \in Modes
  BY DEF Modes
<1> QED
  BY ZenonT(40), <1>1 DEF Controllers

\* Every phase has one of the gains.
LEMMA PhaseGain == \A phase \in Phases : PacingGainForPhase(phase) \in PacingGains
BY DEF PacingGainForPhase, PacingGains, Phases

\* PROBE_BW answers with PROBE_RTT only when PROBE_DOWN has just ended, with
\* a minimum RTT as old as the period.
LEMMA ProbeBwAnswers ==
  ASSUME NEW b \in Controllers, NEW c \in Controllers, NEW e \in EventRecords,
         Ready(b, e, c), c.mode = "PROBE_BW"
  PROVE  LET d == OnModeEvent(c, e)
         IN  d \in Controllers /\ Answered(b, e, d) /\ d.changes = c.changes
<1> DEFINE u == UpdateProbeBw(CountRound(c, e), e)
           d == OnModeEvent(c, e)
           expires == /\ c.phase = "PROBE_DOWN"
                      /\ u.phase # "PROBE_DOWN"
                      /\ MinRttExpires(u, e)
<1>1. c.phase # "PROBE_NOT_STARTED" /\ CycleIsSound(c, e)
  BY DEF Ready, InLoop, ModeFitsPhase
<1>2. u \in Controllers
  BY <1>1, PhaseUpdated
<1>3. /\ CycleIsSound(u, e)
      /\ u.phase # "PROBE_NOT_STARTED"
      /\ c.phase = "PROBE_DOWN" =>
           u.phase \in {"PROBE_DOWN", "PROBE_CRUISE", "PROBE_REFILL"}
      /\ SameBesideCycle(c, u)
  BY <1>1, PhaseUpdated
<1>4. d = IF expires
            THEN [ForceUpdateMinRtt(u) EXCEPT !.next = "PROBE_RTT"]
            ELSE [u EXCEPT !.next = "PROBE_BW",
                           !.pacing_gain = PacingGainForPhase(u.phase)]
  BY DEF OnModeEvent, ProbeBwOnCongestionEvent, SwitchOrSetGain
<1> HIDE DEF u, d
<1>5. InLoop(b, e, u)
  BY <1>3, InLoopCycles DEF Ready
<1>6. c.full_bandwidth_reached /\ c.rounds_without_growth < FullBwRounds
  BY DEF Ready, Controllers
<1>7. /\ u.mode = "PROBE_BW" /\ u.changes = c.changes
      /\ u.full_bandwidth_reached
      /\ u.rounds_without_growth < FullBwRounds
  BY <1>3, <1>6 DEF SameBesideCycle
<1>8. CASE expires
  <2>1. PICK r \in MinRttAges :
          /\ r <= 0
          /\ 0 \in MinRttAges
          /\ ForceUpdateMinRtt(u) = [u EXCEPT !.min_rtt_age = 0, !.resume_age = r]
    BY <1>2, MinRttForced
  <2>2. d = [[u EXCEPT !.min_rtt_age = 0, !.resume_age = r]
               EXCEPT !.next = "PROBE_RTT"]
    BY <1>4, <1>8, <2>1
  <2>3. d \in Controllers
    BY <1>2, <2>1, <2>2, ProbeRttChosen
  <2>4. /\ d.next = "PROBE_RTT" /\ d.min_rtt_age = 0 /\ d.resume_age = r
        /\ d.mode = u.mode /\ d.changes = u.changes
        /\ d.full_bandwidth_reached = u.full_bandwidth_reached
        /\ d.rounds_without_growth = u.rounds_without_growth
        /\ d.round_started = u.round_started
        /\ d.since_min_rtt = u.since_min_rtt
        /\ d.max_bw_older = u.max_bw_older /\ d.max_bw_newer = u.max_bw_newer
    BY <1>2, <2>2 DEF Controllers
  <2>5. /\ SameCycle(u, d)
        /\ d.is_sample_from_probing = u.is_sample_from_probing
        /\ d.cuts = u.cuts
        /\ d.exit_time = u.exit_time /\ d.low_age = u.low_age
        /\ d.drained = u.drained
    BY <1>2, <2>2 DEF Controllers, SameCycle
  <2>6. u.since_min_rtt \in Nat
    BY <1>2, ClockAssumption DEF Controllers, RealAges
  <2>7. MinRttIsYoung(d) /\ ModeFitsPhase(d) /\ ProbeRttIsTimed(d)
    <3>1. MinRttIsYoung(d)
      BY <2>1, <2>4, <2>6 DEF MinRttIsYoung, MinRttAges
    <3>2. ModeFitsPhase(d) /\ ProbeRttIsTimed(d)
      BY <1>5, <2>4, <2>5 DEF InLoop, ModeFitsPhase, ProbeRttIsTimed, SameCycle
    <3> QED
      BY <3>1, <3>2
  <2>8. CycleIsSound(d, e)
    <3>1. FilterIsCounted(d) /\ CutsAreCounted(d)
      BY <1>3, <2>5 DEF CycleIsSound, FilterIsCounted, CutsAreCounted, SameCycle
    <3>2. RefillIsSent(d) /\ RoundIsSent(d, e) /\ BoundsAreOff(d)
      BY <1>3, <2>4, <2>5
      DEF CycleIsSound, RefillIsSent, RoundIsSent, BoundsAreOff,
          IsProbingForBandwidth, SameCycle
    <3> QED
      BY <3>1, <3>2 DEF CycleIsSound
  <2>9. InLoop(b, e, d)
    BY <1>5, <1>7, <2>4, <2>7, <2>8 DEF InLoop
  <2>10. b.since_min_rtt >= ProbeRttPeriod
    <3>1. u.min_rtt_age >= ProbeRttPeriod
      BY <1>8 DEF MinRttExpires
    <3>2. u.min_rtt_age <= u.since_min_rtt /\ u.since_min_rtt <= b.since_min_rtt
      BY <1>5 DEF InLoop, MinRttIsYoung
    <3>3. /\ b.since_min_rtt \in Int /\ u.since_min_rtt \in Int
          /\ u.min_rtt_age \in Int /\ ProbeRttPeriod \in Int
      BY <1>2, ClockAssumption DEF Controllers, RealAges, MinRttAges
    <3> QED
      BY <3>1, <3>2, <3>3
  <2>11. d.phase \in {"PROBE_CRUISE", "PROBE_REFILL"}
    BY <1>3, <1>8, <2>5 DEF SameCycle
  <2>12. NextIsJustified(b, d)
    BY <1>7, <2>1, <2>4, <2>10, <2>11 DEF NextIsJustified, MinRttAges
  <2>13. d.changes + ChangesLeft(d) <= 3
    BY <1>7, <1>8, <2>4 DEF Ready, MaxChanges, ChangesLeft, Controllers
  <2>14. Answered(b, e, d)
    BY <1>7, <2>4, <2>9, <2>12, <2>13 DEF Answered
  <2> QED
    BY <1>7, <2>3, <2>4, <2>14 DEF d
<1>9. CASE ~expires
  <2> DEFINE gain == PacingGainForPhase(u.phase)
  <2>1. d = [u EXCEPT !.next = "PROBE_BW", !.pacing_gain = gain]
    BY <1>4, <1>9
  <2>2. gain \in PacingGains /\ "PROBE_BW" \in Modes
    BY <1>2, PhaseGain DEF Controllers, Modes
  <2> HIDE DEF gain
  <2>3. d \in Controllers
    BY ZenonT(40), <1>2, <2>1, <2>2 DEF Controllers
  <2>4. /\ d.next = "PROBE_BW" /\ d.pacing_gain = gain
        /\ d.changes = u.changes
        /\ d.full_bandwidth_reached = u.full_bandwidth_reached
        /\ d.rounds_without_growth = u.rounds_without_growth
        /\ SameInLoop(u, d)
    BY <1>2, <2>1 DEF Controllers, SameInLoop, SameCycle
  <2>5. InLoop(b, e, d)
    BY <1>5, <2>4, InLoopIsKept
  <2>6. d.mode = "PROBE_BW" /\ d.phase = u.phase
    BY <1>7, <2>4 DEF SameInLoop, SameCycle
  <2>7. c.changes + 0 <= 3
    BY DEF Ready, MaxChanges, Controllers
  <2>8. d.changes + ChangesLeft(d) <= 3
    BY <1>7, <2>4, <2>6, <2>7 DEF ChangesLeft
  <2>9. d.pacing_gain = GainOf(d)
    BY <2>4, <2>6 DEF GainOf, gain
  <2>10. NextIsJustified(b, d)
    BY <2>4, <2>6 DEF NextIsJustified
  <2>11. Answered(b, e, d)
    BY <1>7, <2>4, <2>5, <2>6, <2>8, <2>9, <2>10 DEF Answered
  <2> QED
    BY <1>7, <2>3, <2>4, <2>11 DEF d
<1> QED
  BY <1>8, <1>9

\* Every mode answers the event it is handed.
LEMMA ModeAnswers ==
  ASSUME NEW b \in Controllers, NEW c \in Controllers, NEW e \in EventRecords,
         Ready(b, e, c)
  PROVE  LET d == OnModeEvent(c, e)
         IN  d \in Controllers /\ Answered(b, e, d) /\ d.changes = c.changes
<1>1. c.mode \in {"STARTUP", "DRAIN", "PROBE_BW", "PROBE_RTT"}
  BY DEF Controllers, Modes
<1> QED
  BY <1>1, StartupAnswers, DrainAnswers, ProbeBwAnswers, ProbeRttAnswers

----------------------------------------------------------------------------
(* The changes of mode.                                                    *)

\* What a change of mode leaves alone: the clocks of the min RTT but the one
\* PROBE_RTT restarts, and what is known of the bandwidth.
SameBesideMode(c, d) ==
  /\ d.next = c.next
  /\ d.full_bandwidth_reached = c.full_bandwidth_reached
  /\ d.rounds_without_growth = c.rounds_without_growth
  /\ d.round_started = c.round_started
  /\ d.min_rtt_age = c.min_rtt_age
  /\ d.resume_age = c.resume_age
  /\ d.restless = c.restless
  /\ c.max_bw_older \/ c.max_bw_newer => d.max_bw_older \/ d.max_bw_newer

\* The mode is the one announced, and the change is counted.
Moved(c) == [c EXCEPT !.mode = c.next, !.changes = @ + 1]

\* A change of mode is the one announced.
LEMMA MovedIsTyped ==
  ASSUME NEW c \in Controllers
  PROVE  /\ Moved(c) \in Controllers
         /\ Moved(c).mode = c.next /\ Moved(c).changes = c.changes + 1
<1>1. c.next \in Modes /\ c.changes + 1 \in Nat
  BY DEF Controllers
<1>2. Moved(c) \in Controllers
  BY ZenonT(40), <1>1 DEF Controllers, Moved
<1>3. Moved(c).mode = c.next /\ Moved(c).changes = c.changes + 1
  BY DEF Controllers, Moved
<1> QED
  BY <1>2, <1>3

\* A change of mode by itself moves nothing else.
LEMMA MovedIsSame ==
  ASSUME NEW c \in Controllers
  PROVE  /\ SameBesideMode(c, Moved(c)) /\ SameCycle(c, Moved(c))
         /\ Moved(c).is_sample_from_probing = c.is_sample_from_probing
         /\ Moved(c).cuts = c.cuts
         /\ Moved(c).exit_time = c.exit_time /\ Moved(c).low_age = c.low_age
         /\ Moved(c).drained = c.drained
         /\ Moved(c).pacing_gain = c.pacing_gain
         /\ Moved(c).since_min_rtt = c.since_min_rtt
BY DEF Controllers, Moved, SameBesideMode, SameCycle

\* Fields that EnterProbeBw sets when PROBE_RTT gives the cycle back.
LEMMA CycleResumed ==
  ASSUME NEW c \in Controllers, NEW drained \in BOOLEAN
  PROVE  [c EXCEPT !.cycle_age = 0, !.low_age = None, !.drained = drained]
           \in Controllers
<1>1. None \in ExitTimes
  BY ClockAssumption DEF ExitTimes, None
<1> QED
  BY ZenonT(40), <1>1, Zeros DEF Controllers

\* EnterProbeBw after PROBE_RTT: the phase interrupted begins again.
LEMMA ProbeBwResumed ==
  ASSUME NEW c \in Controllers, NEW e \in EventRecords,
         c.mode = "PROBE_BW", c.phase \in {"PROBE_CRUISE", "PROBE_REFILL"},
         FilterIsCounted(c)
  PROVE  LET d == EnterProbeBw(c)
         IN  /\ d \in Controllers
             /\ CycleIsSound(d, e)
             /\ d.phase = c.phase /\ d.mode = "PROBE_BW"
             /\ d.changes = c.changes
             /\ d.pacing_gain = c.pacing_gain
             /\ d.since_min_rtt = c.since_min_rtt
             /\ d.drained = (c.low_age > ProbeRttDuration)
             /\ SameBesideMode(c, d)
<1> DEFINE drained == c.low_age > ProbeRttDuration
           r == [c EXCEPT !.cycle_age = 0, !.low_age = None, !.drained = drained]
           d == EnterProbeBw(c)
<1>1. /\ c.phase = "PROBE_CRUISE" => d = EnterProbeCruise(r)
      /\ c.phase = "PROBE_REFILL" => d = EnterProbeRefill(r)
  BY DEF EnterProbeBw
<1>2. drained \in BOOLEAN
  OBVIOUS
<1> HIDE DEF d, drained
<1>3. r \in Controllers
  BY <1>2, CycleResumed
<1>4. /\ SameBesideMode(c, r) /\ SameCycle(c, r)
      /\ r.mode = "PROBE_BW" /\ r.changes = c.changes
      /\ r.pacing_gain = c.pacing_gain
      /\ r.since_min_rtt = c.since_min_rtt
      /\ r.drained = drained
  BY DEF Controllers, SameBesideMode, SameCycle
<1> HIDE DEF r
<1>5. FilterIsCounted(r)
  BY <1>4 DEF FilterIsCounted, SameCycle
<1>6. r.phase = c.phase
  BY <1>4 DEF SameCycle
<1>7. d \in Controllers /\ CycleIsSound(d, e) /\ d.phase = c.phase
      /\ SameBesideCycle(r, d)
  <2>1. CASE c.phase = "PROBE_CRUISE"
    BY <1>1, <1>3, <1>4, <1>5, <1>6, <2>1, ProbeCruiseEntered
  <2>2. CASE c.phase = "PROBE_REFILL"
    BY <1>1, <1>3, <1>5, <1>6, <2>2, ProbeRefillEntered
  <2> QED
    BY <2>1, <2>2
<1> QED
  BY <1>4, <1>7 DEF SameBesideCycle, SameBesideMode, d, drained

\* STARTUP is left for DRAIN.
LEMMA StartupIsLeft ==
  ASSUME NEW b \in Controllers, NEW c \in Controllers, NEW e \in EventRecords,
         Answered(b, e, c), c.next # c.mode, c.mode = "STARTUP"
  PROVE  LET d == ChangeMode(c)
         IN  d \in Controllers /\ Ready(b, e, d) /\ d.changes = c.changes + 1
<1> DEFINE l == [c EXCEPT !.bandwidth_lo = FALSE, !.rounds_without_growth = 0]
           d == ChangeMode(c)
<1>1. c.next = "DRAIN" /\ c.full_bandwidth_reached
  BY DEF Answered, NextIsJustified
<1>2. 0 \in GrowthCounts /\ 0 < FullBwRounds
  BY CountAssumption DEF GrowthCounts
<1>3. l \in Controllers
  BY ZenonT(40), <1>2 DEF Controllers
<1>4. /\ l.next = c.next /\ l.mode = c.mode /\ l.changes = c.changes
      /\ l.full_bandwidth_reached /\ l.rounds_without_growth = 0
      /\ l.round_started = c.round_started
      /\ l.min_rtt_age = c.min_rtt_age /\ l.resume_age = c.resume_age
      /\ l.since_min_rtt = c.since_min_rtt
      /\ l.drained = c.drained
      /\ l.max_bw_older = c.max_bw_older /\ l.max_bw_newer = c.max_bw_newer
  BY <1>1 DEF Controllers
<1>5. /\ l.phase = c.phase
      /\ l.is_sample_from_probing = c.is_sample_from_probing
      /\ l.rounds_in_phase = c.rounds_in_phase
      /\ l.advances = c.advances /\ l.has_advanced_max_bw = c.has_advanced_max_bw
  BY DEF Controllers
<1>6. d = Moved(l)
  <2>1. d = [l EXCEPT !.mode = c.next, !.changes = @ + 1]
    BY <1>1 DEF ChangeMode
  <2> HIDE DEF l
  <2> QED
    BY <1>4, <2>1 DEF Moved
<1> HIDE DEF d, l
<1>7. d \in Controllers /\ d.mode = "DRAIN" /\ d.changes = c.changes + 1
  BY <1>1, <1>3, <1>4, <1>6, MovedIsTyped
<1>8. /\ SameBesideMode(l, d) /\ SameCycle(l, d)
      /\ d.is_sample_from_probing = l.is_sample_from_probing
      /\ d.drained = l.drained
      /\ d.since_min_rtt = l.since_min_rtt
  BY <1>3, <1>6, MovedIsSame
<1>9. InLoop(b, e, c) /\ c.phase = "PROBE_NOT_STARTED"
  BY DEF Answered, InLoop, ModeFitsPhase
<1>10. CycleIsSound(d, e)
  <2>1. FilterIsCounted(c) /\ CutsAreCounted(c)
    BY <1>9 DEF InLoop, CycleIsSound
  <2>2. d.phase = "PROBE_NOT_STARTED"
    BY <1>5, <1>8, <1>9 DEF SameCycle
  <2>3. FilterIsCounted(d)
    BY <1>5, <1>8, <2>1, <2>2 DEF FilterIsCounted, SameCycle
  <2>4. CutsAreCounted(d)
    BY <1>5, <1>8, <1>9, <2>1, <2>2 DEF CutsAreCounted
  <2> QED
    BY <1>7, <2>2, <2>3, <2>4
    DEF CycleIsSound, RefillIsSent, RoundIsSent, BoundsAreOff,
        IsProbingForBandwidth
<1>11. InLoop(b, e, d)
  BY <1>4, <1>5, <1>7, <1>8, <1>9, <1>10
  DEF InLoop, ModeFitsPhase, ProbeRttIsTimed, MinRttIsYoung, SameBesideMode,
      SameCycle
<1>12. c.changes + 3 <= 3
  BY DEF Answered, ChangesLeft
<1>13. d.changes + MaxChanges(d) <= 3
  BY <1>7, <1>12 DEF MaxChanges, Controllers
<1>14. Ready(b, e, d)
  BY <1>2, <1>4, <1>7, <1>8, <1>11, <1>13 DEF Ready, SameBesideMode
<1> QED
  BY <1>7, <1>14 DEF d

\* DRAIN is left for PROBE_BW, which begins with PROBE_DOWN.
LEMMA DrainIsLeft ==
  ASSUME NEW b \in Controllers, NEW c \in Controllers, NEW e \in EventRecords,
         Answered(b, e, c), c.next # c.mode, c.mode = "DRAIN"
  PROVE  LET d == ChangeMode(c)
         IN  d \in Controllers /\ Ready(b, e, d) /\ d.changes = c.changes + 1
<1> DEFINE m == Moved(c)
           d == ChangeMode(c)
<1>1. c.next = "PROBE_BW" /\ c.full_bandwidth_reached
      /\ c.rounds_without_growth < FullBwRounds
  BY DEF Answered, NextIsJustified
<1>2. InLoop(b, e, c) /\ c.phase = "PROBE_NOT_STARTED"
  BY DEF Answered, InLoop, ModeFitsPhase
<1>3. m \in Controllers /\ m.mode = "PROBE_BW" /\ m.changes = c.changes + 1
  BY <1>1, MovedIsTyped
<1>4. /\ SameBesideMode(c, m) /\ SameCycle(c, m)
      /\ m.is_sample_from_probing = c.is_sample_from_probing
      /\ m.cuts = c.cuts /\ m.drained = c.drained
      /\ m.since_min_rtt = c.since_min_rtt
  BY MovedIsSame
<1>5. d = EnterProbeDown(m, FALSE, FALSE)
  <2>1. d = EnterProbeBw(m)
    BY <1>1 DEF ChangeMode, Moved
  <2>2. m.phase = "PROBE_NOT_STARTED"
    BY <1>2, <1>4 DEF SameCycle
  <2> HIDE DEF m, d
  <2> QED
    BY <2>1, <2>2 DEF EnterProbeBw
<1> HIDE DEF m, d
<1>6. m.is_sample_from_probing => m.cuts = 0
  BY <1>2, <1>4 DEF InLoop, CycleIsSound, CutsAreCounted
<1>7. d \in Controllers /\ CycleIsSound(d, e) /\ d.phase = "PROBE_DOWN"
      /\ SameBesideCycle(m, d)
  BY <1>3, <1>5, <1>6, ProbeDownEntered
<1>8. InLoop(b, e, d)
  BY <1>2, <1>3, <1>4, <1>7
  DEF InLoop, ModeFitsPhase, ProbeRttIsTimed, MinRttIsYoung, SameBesideMode,
      SameBesideCycle
<1>9. d.mode = "PROBE_BW" /\ d.changes = c.changes + 1
  BY <1>3, <1>7 DEF SameBesideCycle
<1>10. c.changes + 2 <= 3
  BY <1>1 DEF Answered, ChangesLeft
<1>11. d.changes + MaxChanges(d) <= 3
  BY <1>7, <1>9, <1>10 DEF MaxChanges, Controllers
<1>12. Ready(b, e, d)
  BY <1>1, <1>4, <1>7, <1>8, <1>9, <1>11
  DEF Ready, SameBesideMode, SameBesideCycle
<1> QED
  BY <1>7, <1>9, <1>12 DEF d

\* Fields that EnterProbeRtt sets.
LEMMA ProbeRttSet ==
  ASSUME NEW c \in Controllers, NEW gain \in PacingGains,
         NEW age \in ExitTimes, NEW since \in RealAges
  PROVE  [c EXCEPT !.pacing_gain = gain, !.exit_time = age, !.low_age = age,
                   !.since_min_rtt = since] \in Controllers
BY ZenonT(40) DEF Controllers

\* PROBE_BW is left for PROBE_RTT, which waits for a low flight first.
LEMMA ProbeBwIsLeft ==
  ASSUME NEW b \in Controllers, NEW c \in Controllers, NEW e \in EventRecords,
         Answered(b, e, c), c.next # c.mode, c.mode = "PROBE_BW"
  PROVE  LET d == ChangeMode(c)
         IN  d \in Controllers /\ Ready(b, e, d) /\ d.changes = c.changes + 1
<1> DEFINE m == Moved(c)
           d == ChangeMode(c)
<1>1. c.next = "PROBE_RTT" /\ c.full_bandwidth_reached
      /\ c.rounds_without_growth < FullBwRounds
  BY DEF Answered, NextIsJustified
<1>2. /\ c.phase \in {"PROBE_CRUISE", "PROBE_REFILL"}
      /\ c.min_rtt_age <= 0 /\ c.resume_age <= 0
      /\ b.since_min_rtt >= ProbeRttPeriod
  BY <1>1 DEF Answered, NextIsJustified
<1>3. InLoop(b, e, c)
  BY DEF Answered
<1>4. m \in Controllers /\ m.mode = "PROBE_RTT" /\ m.changes = c.changes + 1
  BY <1>1, MovedIsTyped
<1>5. /\ SameBesideMode(c, m) /\ SameCycle(c, m)
      /\ m.is_sample_from_probing = c.is_sample_from_probing
      /\ m.cuts = c.cuts /\ m.drained = c.drained
      /\ m.since_min_rtt = c.since_min_rtt
  BY MovedIsSame
<1>6. d = [m EXCEPT !.pacing_gain = 1000, !.exit_time = None, !.low_age = None,
                    !.since_min_rtt = 0]
  BY <1>1 DEF ChangeMode, Moved, EnterProbeRtt
<1> HIDE DEF m, d
<1>7. d \in Controllers
  <2>1. None \in ExitTimes /\ 0 \in RealAges /\ 1000 \in PacingGains
    BY ClockAssumption DEF ExitTimes, None, RealAges, PacingGains
  <2> DEFINE gain == 1000
             zero == 0
  <2>2. gain \in PacingGains /\ zero \in RealAges
    BY <2>1
  <2>3. d = [m EXCEPT !.pacing_gain = gain, !.exit_time = None, !.low_age = None,
                      !.since_min_rtt = zero]
    BY <1>6
  <2> HIDE DEF gain, zero
  <2> QED
    BY <1>4, <2>1, <2>2, <2>3, ProbeRttSet
<1>8. /\ d.pacing_gain = 1000 /\ d.exit_time = None /\ d.low_age = None
      /\ d.since_min_rtt = 0
      /\ d.mode = m.mode /\ d.changes = m.changes
      /\ d.drained = m.drained
      /\ SameBesideMode(m, d)
  BY <1>4, <1>6 DEF Controllers, SameBesideMode
<1>9. /\ d.is_sample_from_probing = m.is_sample_from_probing
      /\ d.cuts = m.cuts
      /\ SameCycle(m, d)
  BY <1>4, <1>6 DEF Controllers, SameCycle
<1>10. d.phase = c.phase
  BY <1>5, <1>9 DEF SameCycle
<1>11. FilterIsCounted(d) /\ CutsAreCounted(d)
  BY <1>3, <1>5, <1>9
  DEF InLoop, CycleIsSound, FilterIsCounted, CutsAreCounted, SameCycle
<1>12. RefillIsSent(d) /\ RoundIsSent(d, e) /\ BoundsAreOff(d)
  BY <1>3, <1>4, <1>5, <1>8, <1>9
  DEF InLoop, CycleIsSound, RefillIsSent, RoundIsSent, BoundsAreOff,
      IsProbingForBandwidth, SameCycle
<1>13. ProbeRttIsTimed(d)
  BY <1>3, <1>5, <1>8 DEF InLoop, ProbeRttIsTimed
<1>14. MinRttIsYoung(d)
  BY <1>2, <1>5, <1>8 DEF MinRttIsYoung, SameBesideMode
<1>15. ModeFitsPhase(d)
  BY <1>2, <1>4, <1>8, <1>10 DEF ModeFitsPhase
<1>16. 0 <= b.since_min_rtt
  BY DEF Controllers, RealAges
<1>17. InLoop(b, e, d)
  BY <1>2, <1>3, <1>5, <1>8, <1>11, <1>12, <1>13, <1>14, <1>15, <1>16
  DEF InLoop, CycleIsSound, SameBesideMode
<1>18. c.changes + 1 <= 3
  BY <1>1 DEF Answered, ChangesLeft
<1>19. d.changes + MaxChanges(d) <= 3
  BY <1>4, <1>8, <1>18 DEF MaxChanges, None, Controllers
<1>20. Ready(b, e, d)
  BY <1>1, <1>4, <1>5, <1>8, <1>17, <1>19 DEF Ready, GainOf, SameBesideMode
<1> QED
  BY <1>4, <1>7, <1>8, <1>20 DEF d

\* PROBE_RTT is left for the phase it interrupted, with a low flight since
\* its duration.
LEMMA ProbeRttIsLeft ==
  ASSUME NEW b \in Controllers, NEW c \in Controllers, NEW e \in EventRecords,
         Answered(b, e, c), c.next # c.mode, c.mode = "PROBE_RTT"
  PROVE  LET d == ChangeMode(c)
         IN  d \in Controllers /\ Ready(b, e, d) /\ d.changes = c.changes + 1
<1> DEFINE m == Moved(c)
           d == ChangeMode(c)
<1>1. c.next = "PROBE_BW" /\ c.full_bandwidth_reached
      /\ c.rounds_without_growth < FullBwRounds /\ c.exit_time = 0
  BY DEF Answered, NextIsJustified
<1>2. InLoop(b, e, c) /\ c.phase \in {"PROBE_CRUISE", "PROBE_REFILL"}
  BY DEF Answered, InLoop, ModeFitsPhase
<1>3. m \in Controllers /\ m.mode = "PROBE_BW" /\ m.changes = c.changes + 1
  BY <1>1, MovedIsTyped
<1>4. /\ SameBesideMode(c, m) /\ SameCycle(c, m)
      /\ m.low_age = c.low_age
      /\ m.since_min_rtt = c.since_min_rtt
  BY MovedIsSame
<1>5. d = EnterProbeBw(m)
  BY <1>1 DEF ChangeMode, Moved
<1> HIDE DEF m, d
<1>6. m.phase = c.phase /\ FilterIsCounted(m)
  BY <1>2, <1>4 DEF InLoop, CycleIsSound, FilterIsCounted, SameCycle
<1>7. /\ d \in Controllers
      /\ CycleIsSound(d, e)
      /\ d.phase = m.phase /\ d.mode = "PROBE_BW"
      /\ d.changes = m.changes
      /\ d.since_min_rtt = m.since_min_rtt
      /\ d.drained = (m.low_age > ProbeRttDuration)
      /\ SameBesideMode(m, d)
  BY <1>2, <1>3, <1>5, <1>6, ProbeBwResumed
<1>8. d.drained
  <2>1. c.low_age = ProbeRttDuration + 1
    BY <1>1, <1>2, ClockAssumption
    DEF InLoop, ProbeRttIsTimed, None, Controllers, ExitTimes
  <2>2. m.low_age > ProbeRttDuration
    BY <1>4, <2>1, ClockAssumption
  <2> QED
    BY <1>7, <2>2
<1>9. InLoop(b, e, d)
  BY <1>2, <1>4, <1>6, <1>7, <1>8
  DEF InLoop, ModeFitsPhase, ProbeRttIsTimed, MinRttIsYoung, SameBesideMode
<1>10. c.changes + 1 <= 3
  BY <1>1 DEF Answered, ChangesLeft
<1>11. d.changes + MaxChanges(d) <= 3
  BY <1>2, <1>3, <1>6, <1>7, <1>10 DEF MaxChanges, Controllers
<1>12. Ready(b, e, d)
  BY <1>1, <1>4, <1>7, <1>9, <1>11 DEF Ready, SameBesideMode
<1> QED
  BY <1>3, <1>7, <1>12 DEF d

\* Every change of mode leads to a mode that may be handed the event.
LEMMA ModeChanges ==
  ASSUME NEW b \in Controllers, NEW c \in Controllers, NEW e \in EventRecords,
         Answered(b, e, c), c.next # c.mode
  PROVE  LET d == ChangeMode(c)
         IN  d \in Controllers /\ Ready(b, e, d) /\ d.changes = c.changes + 1
<1>1. c.mode \in {"STARTUP", "DRAIN", "PROBE_BW", "PROBE_RTT"}
  BY DEF Controllers, Modes
<1> QED
  BY <1>1, StartupIsLeft, DrainIsLeft, ProbeBwIsLeft, ProbeRttIsLeft

\* A turn of the loop: the mode has answered, or one more change was made.
LEMMA TurnAnswers ==
  ASSUME NEW b \in Controllers, NEW c \in Controllers, NEW e \in EventRecords,
         Answered(b, e, c)
  PROVE  LET d == Turn(c, e)
         IN  /\ d \in Controllers /\ Answered(b, e, d)
             /\ c.next = c.mode => d = c
             /\ c.next # c.mode => d.changes = c.changes + 1
<1> DEFINE m == ChangeMode(c)
           d == Turn(c, e)
<1>1. CASE c.next = c.mode
  BY <1>1 DEF Turn
<1>2. CASE c.next # c.mode
  <2>1. m \in Controllers /\ Ready(b, e, m) /\ m.changes = c.changes + 1
    BY <1>2, ModeChanges
  <2>2. d = OnModeEvent(m, e)
    BY <1>2 DEF Turn
  <2> HIDE DEF m, d
  <2>3. d \in Controllers /\ Answered(b, e, d) /\ d.changes = m.changes
    BY <2>1, <2>2, ModeAnswers
  <2> QED
    BY <1>2, <2>1, <2>3 DEF d
<1> QED
  BY <1>1, <1>2

----------------------------------------------------------------------------
(* The whole event.                                                        *)

\* The loop hands the event on four times.
LEMMA FourTurns ==
  ASSUME NEW c, NEW e
  PROVE  ModeLoop(c, e) =
           Settle(Turn(Turn(Turn(Turn(
             OnModeEvent([c EXCEPT !.underfilled = FALSE], e), e), e), e), e))
<1> DEFINE t0 == OnModeEvent([c EXCEPT !.underfilled = FALSE], e)
           Body(g) == [k \in 0 .. MaxModeChangesPerCongestionEvent |->
                         IF k = 0 THEN t0 ELSE Turn(g[k - 1], e)]
           turn == CHOOSE g : g = Body(g)
           t1 == Turn(t0, e)
           t2 == Turn(t1, e)
           t3 == Turn(t2, e)
           t4 == Turn(t3, e)
           f == [k \in 0 .. MaxModeChangesPerCongestionEvent |->
                   CASE k = 0 -> t0 [] k = 1 -> t1 [] k = 2 -> t2
                     [] k = 3 -> t3 [] OTHER -> t4]
<1>1. ModeLoop(c, e) = Settle(turn[MaxModeChangesPerCongestionEvent])
  BY DEF ModeLoop
<1> HIDE DEF t0
<1>2. f = Body(f)
  <2>1. \A k \in 0 .. MaxModeChangesPerCongestionEvent : f[k] = Body(f)[k]
    BY DEF MaxModeChangesPerCongestionEvent
  <2> QED
    BY <2>1
<1>3. turn = Body(turn)
  <2> HIDE DEF f, Body
  <2> QED
    BY <1>2
<1> HIDE DEF turn
<1>4. turn[0] = t0 /\ turn[1] = Turn(turn[0], e) /\ turn[2] = Turn(turn[1], e)
      /\ turn[3] = Turn(turn[2], e) /\ turn[4] = Turn(turn[3], e)
  BY <1>3 DEF MaxModeChangesPerCongestionEvent
<1> QED
  BY <1>1, <1>4 DEF MaxModeChangesPerCongestionEvent, t0

\* Settle starts the count of changes anew.
LEMMA ChangesReset ==
  ASSUME NEW c \in Controllers
  PROVE  [c EXCEPT !.changes = 0, !.restless = FALSE] \in Controllers
<1>1. 0 \in Nat
  OBVIOUS
<1> QED
  BY ZenonT(40), <1>1 DEF Controllers

\* What the loop leaves: a mode that has answered with itself, after three
\* changes at most.
LEMMA LoopSettles ==
  ASSUME NEW b \in Controllers, NEW c \in Controllers, NEW e \in EventRecords,
         Ready(b, e, c), c.changes = 0
  PROVE  LET d == ModeLoop(c, e)
         IN  /\ d \in Controllers
             /\ Answered(b, e, d)
             /\ d.next = d.mode /\ d.changes = 0 /\ ~d.restless
<1> DEFINE c0 == [c EXCEPT !.underfilled = FALSE]
           t0 == OnModeEvent(c0, e)
           t1 == Turn(t0, e)
           t2 == Turn(t1, e)
           t3 == Turn(t2, e)
           t4 == Turn(t3, e)
           d == ModeLoop(c, e)
<1>1. d = Settle(t4)
  BY FourTurns
<1> HIDE DEF d
<1>2. c0 \in Controllers
  BY ZenonT(40) DEF Controllers
<1>3. Ready(b, e, c0) /\ c0.changes = 0
  <2>1. /\ SameInLoop(c, c0) /\ c0.changes = c.changes
        /\ c0.pacing_gain = c.pacing_gain
        /\ c0.full_bandwidth_reached = c.full_bandwidth_reached
        /\ c0.rounds_without_growth = c.rounds_without_growth
    BY DEF Controllers, SameInLoop, SameCycle
  <2> HIDE DEF c0
  <2>2. InLoop(b, e, c0)
    BY <2>1, InLoopIsKept DEF Ready
  <2>3. GainOf(c0) = GainOf(c) /\ MaxChanges(c0) = MaxChanges(c)
    BY <2>1 DEF GainOf, MaxChanges, SameInLoop, SameCycle
  <2> QED
    BY <2>1, <2>2, <2>3 DEF Ready, SameInLoop
<1> HIDE DEF c0
<1>4. t0 \in Controllers /\ Answered(b, e, t0) /\ t0.changes = 0
  BY <1>2, <1>3, ModeAnswers
<1> HIDE DEF t0
<1>5. /\ t1 \in Controllers /\ Answered(b, e, t1)
      /\ t0.next = t0.mode => t1 = t0
      /\ t0.next # t0.mode => t1.changes = t0.changes + 1
  BY <1>4, TurnAnswers
<1> HIDE DEF t1
<1>6. /\ t2 \in Controllers /\ Answered(b, e, t2)
      /\ t1.next = t1.mode => t2 = t1
      /\ t1.next # t1.mode => t2.changes = t1.changes + 1
  BY <1>5, TurnAnswers
<1> HIDE DEF t2
<1>7. /\ t3 \in Controllers /\ Answered(b, e, t3)
      /\ t2.next = t2.mode => t3 = t2
      /\ t2.next # t2.mode => t3.changes = t2.changes + 1
  BY <1>6, TurnAnswers
<1> HIDE DEF t3
<1>8. /\ t4 \in Controllers /\ Answered(b, e, t4)
      /\ t3.next = t3.mode => t4 = t3
      /\ t3.next # t3.mode => t4.changes = t3.changes + 1
  BY <1>7, TurnAnswers
<1> HIDE DEF t4
<1>9. t4.next = t4.mode
  <2>1. t4.next # t4.mode => t4.changes = 4
    BY <1>4, <1>5, <1>6, <1>7, <1>8
  <2>2. t4.next # t4.mode => t4.changes + 1 <= 3
    BY <1>8 DEF Answered, ChangesLeft, Controllers
  <2> QED
    BY <2>1, <2>2
<1>10. t4.changes <= 3 /\ t4.changes \in Nat
  BY <1>8, <1>9 DEF Answered, ChangesLeft, Controllers
<1>11. (t4.changes > 3) = FALSE
  BY <1>10
<1>12. d = [t4 EXCEPT !.changes = 0, !.restless = FALSE]
  BY <1>1, <1>9, <1>11 DEF Settle
<1>13. d \in Controllers
  BY <1>8, <1>12, ChangesReset
<1>14. /\ SameInLoop(t4, d)
       /\ d.pacing_gain = t4.pacing_gain /\ d.next = t4.next
       /\ d.full_bandwidth_reached = t4.full_bandwidth_reached
       /\ d.rounds_without_growth = t4.rounds_without_growth
       /\ d.changes = 0 /\ ~d.restless
  BY <1>8, <1>12 DEF Controllers, SameInLoop, SameCycle
<1>15. InLoop(b, e, d)
  BY <1>8, <1>14, InLoopIsKept DEF Answered
<1>16. d.next = d.mode
  BY <1>9, <1>14 DEF SameInLoop
<1>17. Answered(b, e, d)
  <2>1. NextIsJustified(b, d)
    BY <1>8, <1>14 DEF Answered, NextIsJustified, SameInLoop, SameCycle
  <2>2. d.pacing_gain = GainOf(d)
    BY <1>8, <1>9, <1>14 DEF Answered, GainOf, SameInLoop, SameCycle
  <2>3. d.changes + ChangesLeft(d) <= 3
    BY <1>14, <1>16 DEF ChangesLeft
  <2> QED
    BY <1>8, <1>9, <1>14, <1>15, <2>1, <2>2, <2>3 DEF Answered, SameInLoop
<1> QED
  BY <1>13, <1>14, <1>16, <1>17 DEF d

\* An event that may follow the state b: a round ends only with a packet sent
\* since the last one did, and the first ack ends one and has an RTT sample.
EventFits(b, e) ==
  /\ e.is_probing_for_bandwidth = IsProbingForBandwidth(b)
  /\ e.end_of_round_trip => b.sent_in_round \/ ~b.round_started
  /\ b.round_started \/ e.end_of_round_trip
  /\ b.round_started \/ e.sample_min_rtt # "infinite"

\* What the model's update leaves alone.
SameMode(b, c) ==
  /\ c.mode = b.mode /\ c.phase = b.phase /\ c.exit_time = b.exit_time
  /\ c.full_bandwidth_reached = b.full_bandwidth_reached
  /\ c.rounds_without_growth = b.rounds_without_growth
  /\ c.changes = b.changes /\ c.pacing_gain = b.pacing_gain
  /\ b.max_bw_older \/ b.max_bw_newer => c.max_bw_older \/ c.max_bw_newer

\* Fields that StartRound and UpdateMaxBandwidth set.
LEMMA RoundSet ==
  ASSUME NEW c \in Controllers, NEW newer \in BOOLEAN
  PROVE  /\ [c EXCEPT !.max_bw_newer = newer] \in Controllers
         /\ [c EXCEPT !.round_started = TRUE, !.sent_in_round = FALSE,
                      !.max_bw_newer = newer] \in Controllers
<1>1. [c EXCEPT !.max_bw_newer = newer] \in Controllers
  BY DEF Controllers
<1>2. [c EXCEPT !.round_started = TRUE, !.sent_in_round = FALSE,
                !.max_bw_newer = newer] \in Controllers
  BY ZenonT(40) DEF Controllers
<1> QED
  BY <1>1, <1>2

\* StartRound and UpdateMaxBandwidth: a round of PROBE_REFILL that ends had a
\* packet sent in it, and the first round has a bandwidth.
LEMMA RoundStarted ==
  ASSUME NEW b \in Controllers, NEW e \in EventRecords,
         Steady(b), Settled(b), EventFits(b, e)
  PROVE  LET d == UpdateMaxBandwidth(StartRound(b, e), e)
         IN  d \in Controllers /\ InLoop(b, e, d) /\ SameMode(b, d)
<1> DEFINE newer == b.max_bw_newer \/ e.sample_min_rtt # "infinite"
           d == UpdateMaxBandwidth(StartRound(b, e), e)
<1>0. b.since_min_rtt <= b.since_min_rtt
  BY DEF Controllers, RealAges
<1>3. newer \in BOOLEAN
  OBVIOUS
<1>4. newer \/ b.max_bw_older
  BY DEF Steady, EventFits
<1>1. CASE e.end_of_round_trip
  <2> DEFINE s == [b EXCEPT !.round_started = TRUE, !.sent_in_round = FALSE]
  <2>0. d = [s EXCEPT !.max_bw_newer = @ \/ e.sample_min_rtt # "infinite"]
    BY <1>1 DEF StartRound, UpdateMaxBandwidth
  <2>1. d = [b EXCEPT !.round_started = TRUE, !.sent_in_round = FALSE,
                      !.max_bw_newer = newer]
    BY <2>0 DEF Controllers
  <2> HIDE DEF d, newer
  <2>2. d \in Controllers
    BY <1>3, <2>1, RoundSet
  <2>3. /\ d.round_started /\ ~d.sent_in_round
        /\ d.rounds_in_phase = b.rounds_in_phase
        /\ d.phase_age = b.phase_age
        /\ d.has_advanced_max_bw = b.has_advanced_max_bw
        /\ d.advances = b.advances
        /\ d.sent_since_refill = b.sent_since_refill
        /\ d.bandwidth_lo = b.bandwidth_lo /\ d.inflight_lo = b.inflight_lo
        /\ d.is_sample_from_probing = b.is_sample_from_probing
        /\ d.cuts = b.cuts
    BY <2>1 DEF Controllers
  <2>4. /\ SameMode(b, d)
        /\ d.max_bw_older \/ d.max_bw_newer
        /\ d.low_age = b.low_age /\ d.drained = b.drained
        /\ d.min_rtt_age = b.min_rtt_age
        /\ d.resume_age = b.resume_age
        /\ d.since_min_rtt = b.since_min_rtt
    BY <1>4, <2>1 DEF Controllers, SameMode
  <2>5. FilterIsCounted(d) /\ CutsAreCounted(d) /\ RefillIsSent(d)
    BY <2>3, <2>4
    DEF Steady, FilterIsCounted, CutsAreCounted, RefillIsSent, SameMode
  <2>6. RoundIsSent(d, e)
    <3>1. b.phase = "PROBE_REFILL" => b.sent_in_round
      BY <1>1 DEF Steady, ModeFitsPhase, Settled, EventFits
    <3> QED
      BY <2>3, <2>4, <3>1 DEF Steady, RefillIsSent, RoundIsSent, SameMode
  <2>7. BoundsAreOff(d)
    BY <2>3, <2>4 DEF Steady, BoundsAreOff, IsProbingForBandwidth, SameMode
  <2>8. ModeFitsPhase(d) /\ ProbeRttIsTimed(d) /\ MinRttIsYoung(d)
    BY <2>4 DEF Steady, ModeFitsPhase, ProbeRttIsTimed, MinRttIsYoung, SameMode
  <2>9. InLoop(b, e, d)
    BY <1>0, <2>3, <2>4, <2>5, <2>6, <2>7, <2>8
    DEF InLoop, CycleIsSound, SameMode
  <2> QED
    BY <2>2, <2>4, <2>9 DEF d
<1>2. CASE ~e.end_of_round_trip
  <2>1. d = [b EXCEPT !.max_bw_newer = newer]
    BY <1>2 DEF StartRound, UpdateMaxBandwidth
  <2>2. InLoop(b, e, b)
    BY <1>0, <1>2 DEF InLoop, CycleIsSound, RoundIsSent, Steady, EventFits
  <2> HIDE DEF d
  <2>3. SameInLoop(b, d) /\ SameMode(b, d)
    BY <2>1 DEF Controllers, SameInLoop, SameCycle, SameMode
  <2> HIDE DEF newer
  <2>4. d \in Controllers
    BY <1>3, <2>1, RoundSet
  <2>5. InLoop(b, e, d)
    BY <2>2, <2>3, InLoopIsKept
  <2> QED
    BY <2>3, <2>4, <2>5 DEF d
<1> QED
  BY <1>1, <1>2

\* Fields that UpdateMinRtt sets.
LEMMA MinRttSet ==
  ASSUME NEW c \in Controllers, NEW age \in MinRttAges, NEW r \in MinRttAges,
         NEW since \in RealAges
  PROVE  [[c EXCEPT !.min_rtt_age = age, !.resume_age = r]
            EXCEPT !.since_min_rtt = since] \in Controllers
BY ZenonT(40) DEF Controllers

\* UpdateMinRtt: a smaller sample makes the minimum new by every clock.
LEMMA MinRttUpdated ==
  ASSUME NEW b \in Controllers, NEW c \in Controllers, NEW e \in EventRecords,
         InLoop(b, e, c), SameMode(b, c)
  PROVE  LET d == UpdateMinRtt(c, e)
         IN  d \in Controllers /\ InLoop(b, e, d) /\ SameMode(b, d)
<1> DEFINE d == UpdateMinRtt(c, e)
<1>1. CASE e.sample_min_rtt = "smaller"
  <2>1. PICK r \in MinRttAges :
          /\ r <= 0
          /\ 0 \in MinRttAges
          /\ ForceUpdateMinRtt(c) = [c EXCEPT !.min_rtt_age = 0, !.resume_age = r]
    BY MinRttForced
  <2> DEFINE zero == 0
  <2>2. d = [[c EXCEPT !.min_rtt_age = zero, !.resume_age = r]
               EXCEPT !.since_min_rtt = zero]
    BY <1>1, <2>1 DEF UpdateMinRtt
  <2>3. zero \in MinRttAges /\ zero \in RealAges
    BY <2>1, ClockAssumption DEF RealAges
  <2>4. zero <= b.since_min_rtt /\ zero <= zero /\ r <= zero
    BY <2>1 DEF Controllers, RealAges
  <2> HIDE DEF d, zero
  <2>5. d \in Controllers
    BY <2>2, <2>3, MinRttSet
  <2>6. /\ d.min_rtt_age = zero /\ d.resume_age = r /\ d.since_min_rtt = zero
        /\ d.round_started = c.round_started
        /\ d.low_age = c.low_age /\ d.drained = c.drained
        /\ SameMode(c, d)
    BY <2>2 DEF Controllers, SameMode
  <2>7. /\ SameCycle(c, d)
        /\ d.is_sample_from_probing = c.is_sample_from_probing
        /\ d.cuts = c.cuts
    BY <2>2 DEF Controllers, SameCycle
  <2>8. FilterIsCounted(d) /\ CutsAreCounted(d)
    BY <2>7
    DEF InLoop, CycleIsSound, FilterIsCounted, CutsAreCounted, SameCycle
  <2>9. RefillIsSent(d) /\ RoundIsSent(d, e) /\ BoundsAreOff(d)
    BY <2>6, <2>7
    DEF InLoop, CycleIsSound, RefillIsSent, RoundIsSent, BoundsAreOff,
        IsProbingForBandwidth, SameCycle, SameMode
  <2>10. ModeFitsPhase(d) /\ ProbeRttIsTimed(d)
    BY <2>6 DEF InLoop, ModeFitsPhase, ProbeRttIsTimed, SameMode
  <2>11. MinRttIsYoung(d)
    BY <2>4, <2>6 DEF MinRttIsYoung
  <2>12. InLoop(b, e, d)
    BY <2>4, <2>6, <2>8, <2>9, <2>10, <2>11 DEF InLoop, CycleIsSound, SameMode
  <2> QED
    BY <2>5, <2>6, <2>12 DEF SameMode, d
<1>2. CASE e.sample_min_rtt # "smaller"
  BY <1>2 DEF UpdateMinRtt
<1> QED
  BY <1>1, <1>2

\* CountLosses.
LEMMA LossesCounted ==
  ASSUME NEW b \in Controllers, NEW c \in Controllers, NEW e \in EventRecords,
         InLoop(b, e, c), SameMode(b, c)
  PROVE  LET d == CountLosses(c, e)
         IN  d \in Controllers /\ InLoop(b, e, d) /\ SameMode(b, d)
<1> DEFINE n == Smaller(c.loss_events + 1, MaxLossEvents)
           d == CountLosses(c, e)
<1>1. CASE e.lost = 0
  BY <1>1 DEF CountLosses
<1>2. CASE e.lost # 0
  <2>1. d = [c EXCEPT !.loss_events = n]
    BY <1>2 DEF CountLosses
  <2>2. n \in LossCounts
    BY CountAssumption DEF Controllers, LossCounts, Smaller, MaxLossEvents, Larger
  <2> HIDE DEF d, n
  <2>3. d \in Controllers
    BY <2>1, <2>2 DEF Controllers
  <2>4. SameInLoop(c, d) /\ SameMode(c, d)
    BY <2>1 DEF Controllers, SameInLoop, SameCycle, SameMode
  <2>5. InLoop(b, e, d)
    BY <2>4, InLoopIsKept
  <2> QED
    BY <2>3, <2>4, <2>5 DEF SameMode, d
<1> QED
  BY <1>1, <1>2

\* AdaptLowerBounds: only outside the phases that probe.
LEMMA LowerBoundsAdapted ==
  ASSUME NEW b \in Controllers, NEW c \in Controllers, NEW e \in EventRecords,
         InLoop(b, e, c), SameMode(b, c), EventFits(b, e)
  PROVE  LET d == AdaptLowerBounds(c, e)
         IN  d \in Controllers /\ InLoop(b, e, d) /\ SameMode(b, d)
<1> DEFINE lowers == /\ e.end_of_round_trip
                     /\ ~e.is_probing_for_bandwidth
                     /\ c.loss_events > 0
           d == AdaptLowerBounds(c, e)
<1>1. CASE ~lowers
  BY <1>1 DEF AdaptLowerBounds
<1>2. CASE lowers
  <2>1. d = [c EXCEPT !.bandwidth_lo = TRUE, !.inflight_lo = TRUE]
    BY <1>2 DEF AdaptLowerBounds
  <2> HIDE DEF d
  <2>2. d \in Controllers
    BY ZenonT(40), <2>1 DEF Controllers
  <2>3. /\ d.rounds_in_phase = c.rounds_in_phase
        /\ d.phase_age = c.phase_age
        /\ d.has_advanced_max_bw = c.has_advanced_max_bw
        /\ d.advances = c.advances
        /\ d.sent_since_refill = c.sent_since_refill
        /\ d.sent_in_round = c.sent_in_round
        /\ d.is_sample_from_probing = c.is_sample_from_probing
        /\ d.cuts = c.cuts
    BY <2>1 DEF Controllers
  <2>4. /\ SameMode(c, d)
        /\ d.low_age = c.low_age /\ d.drained = c.drained
        /\ d.min_rtt_age = c.min_rtt_age
        /\ d.resume_age = c.resume_age
        /\ d.since_min_rtt = c.since_min_rtt
        /\ d.round_started = c.round_started
    BY <2>1 DEF Controllers, SameMode
  <2>5. FilterIsCounted(d) /\ CutsAreCounted(d)
    BY <2>3, <2>4
    DEF InLoop, CycleIsSound, FilterIsCounted, CutsAreCounted, SameMode
  <2>6. RefillIsSent(d) /\ RoundIsSent(d, e)
    BY <2>3, <2>4
    DEF InLoop, CycleIsSound, RefillIsSent, RoundIsSent, SameMode
  <2>7. BoundsAreOff(d)
    <3>1. ~IsProbingForBandwidth(b)
      BY <1>2 DEF EventFits
    <3> QED
      BY <2>4, <3>1 DEF BoundsAreOff, IsProbingForBandwidth, SameMode
  <2>8. ModeFitsPhase(d) /\ ProbeRttIsTimed(d) /\ MinRttIsYoung(d)
    BY <2>4 DEF InLoop, ModeFitsPhase, ProbeRttIsTimed, MinRttIsYoung, SameMode
  <2>9. InLoop(b, e, d)
    BY <2>4, <2>5, <2>6, <2>7, <2>8 DEF InLoop, CycleIsSound, SameMode
  <2> QED
    BY <2>2, <2>4, <2>9 DEF SameMode, d
<1> QED
  BY <1>1, <1>2

\* Once the model is updated, the mode may be handed the event.
LEMMA StartIsReady ==
  ASSUME NEW b \in Controllers, NEW e \in EventRecords,
         Steady(b), Settled(b), EventFits(b, e)
  PROVE  LET d == OnCongestionEventStart(b, e)
         IN  d \in Controllers /\ Ready(b, e, d) /\ d.changes = 0
<1> DEFINE w == UpdateMaxBandwidth(StartRound(b, e), e)
           m == UpdateMinRtt(w, e)
           l == CountLosses(m, e)
           d == AdaptLowerBounds(l, e)
<1>1. w \in Controllers /\ InLoop(b, e, w) /\ SameMode(b, w)
  BY RoundStarted
<1> HIDE DEF w
<1>2. m \in Controllers /\ InLoop(b, e, m) /\ SameMode(b, m)
  BY <1>1, MinRttUpdated
<1> HIDE DEF m
<1>3. l \in Controllers /\ InLoop(b, e, l) /\ SameMode(b, l)
  BY <1>2, LossesCounted
<1> HIDE DEF l
<1>4. d \in Controllers /\ InLoop(b, e, d) /\ SameMode(b, d)
  BY <1>3, LowerBoundsAdapted
<1> HIDE DEF d
<1>5. b.changes = 0 /\ d.changes = 0
  BY <1>4 DEF Settled, SameMode
<1>6. b.pacing_gain = GainOf(b) /\ GainOf(d) = GainOf(b)
      /\ d.pacing_gain = b.pacing_gain
  BY <1>4 DEF Settled, SameMode, GainOf
<1>7. d.mode \in Modes
  BY <1>4 DEF Controllers
<1>8. d.changes + MaxChanges(d) <= 3
  BY <1>5, <1>7 DEF MaxChanges, Modes
<1>9. Ready(b, e, d)
  BY <1>4, <1>6, <1>8 DEF Ready, Settled, SameMode
<1> QED
  BY <1>4, <1>5, <1>9 DEF OnCongestionEventStart, d, l, m, w

\* What every step keeps of the controller.
Kept(c) == c \in Controllers /\ Steady(c) /\ Settled(c)

\* A controller that has settled in the loop is one between two events.
LEMMA LoopLeaves ==
  ASSUME NEW b \in Controllers, NEW e, NEW c \in Controllers,
         Answered(b, e, c), c.next = c.mode, c.changes = 0, ~c.restless
  PROVE  Kept(c)
<1>1. Steady(c) /\ c.round_started
  BY DEF Answered, InLoop, CycleIsSound, Steady
<1>2. c.mode = "STARTUP" <=> ~c.full_bandwidth_reached
  BY DEF Answered, NextIsJustified, Controllers
<1>3. Settled(c)
  BY <1>1, <1>2 DEF Answered, Settled
<1> QED
  BY <1>1, <1>3 DEF Kept

\* The losses of the round and the clock of the quiescence are beside all that.
SameSettled(c, d) ==
  /\ SameMode(c, d)
  /\ SameCycle(c, d)
  /\ d.is_sample_from_probing = c.is_sample_from_probing
  /\ d.cuts = c.cuts
  /\ d.next = c.next /\ d.low_age = c.low_age /\ d.drained = c.drained
  /\ d.round_started = c.round_started
  /\ d.restless = c.restless

\* A step beside the machines keeps the invariant of the controller.
LEMMA SettledIsKept ==
  ASSUME NEW c \in Controllers, NEW d \in Controllers,
         Kept(c), SameSettled(c, d), MinRttIsYoung(d)
  PROVE  Kept(d)
<1>1. ModeFitsPhase(d) /\ ProbeRttIsTimed(d)
  BY DEF Kept, Steady, ModeFitsPhase, ProbeRttIsTimed, SameSettled, SameMode
<1>2. FilterIsCounted(d) /\ CutsAreCounted(d)
  BY DEF Kept, Steady, FilterIsCounted, CutsAreCounted, SameSettled, SameCycle
<1>3. RefillIsSent(d)
  BY DEF Kept, Steady, RefillIsSent, SameSettled, SameCycle
<1>4. BoundsAreOff(d)
  BY DEF Kept, Steady, BoundsAreOff, IsProbingForBandwidth, SameSettled,
         SameMode, SameCycle
<1>5. GainOf(d) = GainOf(c)
  BY DEF GainOf, SameSettled, SameMode
<1>6. Settled(d)
  BY <1>5 DEF Kept, Settled, SameSettled, SameMode
<1>7. d.round_started => d.max_bw_older \/ d.max_bw_newer
  BY DEF Kept, Steady, SameSettled, SameMode
<1> QED
  BY <1>1, <1>2, <1>3, <1>4, <1>6, <1>7 DEF Kept, Steady

\* OnCongestionEventFinish.
LEMMA EventFinishes ==
  ASSUME NEW c \in Controllers, NEW e \in EventRecords, Kept(c)
  PROVE  LET d == OnCongestionEventFinish(c, e)
         IN  Kept(d) /\ d.mode = c.mode
<1> DEFINE d == OnCongestionEventFinish(c, e)
<1>1. CASE ~e.end_of_round_trip
  BY <1>1 DEF OnCongestionEventFinish
<1>2. CASE e.end_of_round_trip
  <2>1. d = [c EXCEPT !.loss_events = 0]
    BY <1>2 DEF OnCongestionEventFinish, OnNewRound
  <2> HIDE DEF d
  <2>2. d \in Controllers
    BY <2>1, Zeros DEF Controllers
  <2>3. /\ SameSettled(c, d)
        /\ d.min_rtt_age = c.min_rtt_age
        /\ d.resume_age = c.resume_age
        /\ d.since_min_rtt = c.since_min_rtt
    BY <2>1 DEF Controllers, SameSettled, SameMode, SameCycle
  <2>4. MinRttIsYoung(d)
    BY <2>3 DEF Kept, Steady, MinRttIsYoung
  <2> QED
    BY <2>2, <2>3, <2>4, SettledIsKept DEF SameSettled, SameMode, d
<1> QED
  BY <1>1, <1>2

\* MaybeEnterQuiescence: the clock of the min RTT will go on from its age.
LEMMA QuiescenceEntered ==
  ASSUME NEW c \in Controllers, NEW e \in EventRecords, Kept(c)
  PROVE  LET d == MaybeEnterQuiescence(c, e)
         IN  Kept(d) /\ d.mode = c.mode
<1> DEFINE d == MaybeEnterQuiescence(c, e)
<1>1. CASE e.bytes_in_flight # 0
  BY <1>1 DEF MaybeEnterQuiescence
<1>2. CASE e.bytes_in_flight = 0
  <2>1. d = [c EXCEPT !.quiescence = 0, !.resume_age = c.min_rtt_age]
    BY <1>2 DEF MaybeEnterQuiescence
  <2>2. 0 \in Quiescences
    BY ClockAssumption DEF Quiescences, None
  <2> HIDE DEF d
  <2>3. d \in Controllers
    BY ZenonT(40), <2>1, <2>2 DEF Controllers
  <2>4. /\ SameSettled(c, d)
        /\ d.min_rtt_age = c.min_rtt_age
        /\ d.resume_age = c.min_rtt_age
        /\ d.since_min_rtt = c.since_min_rtt
    BY <2>1 DEF Controllers, SameSettled, SameMode, SameCycle
  <2>5. MinRttIsYoung(d)
    BY <2>4 DEF Kept, Steady, MinRttIsYoung
  <2> QED
    BY <2>3, <2>4, <2>5, SettledIsKept DEF SameSettled, SameMode, d
<1> QED
  BY <1>1, <1>2

\* PROBE_RTT begins only when the period is over.
ProbeRttIsDue(b, c) ==
  b.mode # "PROBE_RTT" /\ c.mode = "PROBE_RTT" =>
    b.since_min_rtt >= ProbeRttPeriod

\* An event keeps the invariant of the controller.
LEMMA EventIsKept ==
  ASSUME NEW b \in Controllers, NEW e \in EventRecords,
         Kept(b), EventFits(b, e)
  PROVE  LET d == MaybeEnterQuiescence(
                    OnCongestionEventFinish(
                      ModeLoop(OnCongestionEventStart(b, e), e), e), e)
         IN  Kept(d) /\ ProbeRttIsDue(b, d)
<1> DEFINE s == OnCongestionEventStart(b, e)
           l == ModeLoop(s, e)
           f == OnCongestionEventFinish(l, e)
           d == MaybeEnterQuiescence(f, e)
<1>1. s \in Controllers /\ Ready(b, e, s) /\ s.changes = 0
  BY StartIsReady DEF Kept
<1> HIDE DEF s
<1>2. /\ l \in Controllers
      /\ Answered(b, e, l)
      /\ l.next = l.mode /\ l.changes = 0 /\ ~l.restless
  BY <1>1, LoopSettles
<1> HIDE DEF l
<1>3. Kept(l)
  BY <1>2, LoopLeaves
<1>4. Kept(f) /\ f.mode = l.mode
  BY <1>2, <1>3, EventFinishes
<1> HIDE DEF f
<1>5. Kept(d) /\ d.mode = f.mode
  BY <1>4, QuiescenceEntered DEF Kept
<1>6. ProbeRttIsDue(b, d)
  BY <1>2, <1>4, <1>5 DEF Answered, InLoop, ProbeRttIsDue
<1> QED
  BY <1>5, <1>6 DEF d, f, l, s

----------------------------------------------------------------------------
(* The steps.                                                              *)

\* The choices of an event are of its type.
LEMMA EventsAreTyped ==
  ASSUME in_flight \in Nat, NEW sampled \in BOOLEAN,
         NEW lost \in 0 .. in_flight, NEW round \in BOOLEAN,
         NEW e \in Events(sampled, lost, round)
  PROVE  /\ e \in EventRecords
         /\ e.lost = lost /\ e.end_of_round_trip = round
         /\ e.is_probing_for_bandwidth = IsProbingForBandwidth(bbr)
         /\ sampled /\ ~bbr.round_started => e.sample_min_rtt # "infinite"
<1>1. Larger(0, in_flight - lost - (IF sampled THEN 1 ELSE 0)) \in Nat
  BY DEF Larger
<1>2. IsProbingForBandwidth(bbr) \in BOOLEAN
  BY DEF IsProbingForBandwidth
<1>3. \A h \in AckHeights : h \in Nat
  BY PacketAssumption
<1>4. \A h \in Bdps : h \in Nat
  BY PacketAssumption
<1>5. /\ e.lost = lost /\ e.end_of_round_trip = round
      /\ e.is_probing_for_bandwidth = IsProbingForBandwidth(bbr)
      /\ e.bytes_in_flight \in Nat
  BY <1>1 DEF Events
<1>6. /\ e.sample_min_rtt \in {"infinite", "kept", "smaller"}
      /\ sampled /\ ~bbr.round_started => e.sample_min_rtt # "infinite"
  BY DEF Events, If
<1>7. e.app_limited \in BOOLEAN /\ e.loss_above_threshold \in BOOLEAN
      /\ e.bandwidth_grew \in BOOLEAN
  BY DEF Events, If, Only
<1>8. e.reno_rounds_passed \in BOOLEAN /\ e.at_inflight_hi \in BOOLEAN
  BY DEF Events, If, Only
<1>9. e.max_ack_height \in Nat /\ e.bdp \in Nat
  BY <1>3, <1>4 DEF Events, If
<1> QED
  BY <1>2, <1>5, <1>6, <1>7, <1>8, <1>9 DEF Events, EventRecords

\* The invariant is that of the controller and of its environment.
LEMMA InvariantIsKept == IInv <=> Kept(bbr) /\ Environment
BY DEF IInv, Kept

\* An event that fits the state keeps the invariant.
LEMMA EventStep ==
  ASSUME IInv, NEW settles \in BOOLEAN,
         NEW lost \in 0 .. in_flight, lost + (IF settles THEN 1 ELSE 0) <= in_flight,
         NEW e \in EventRecords, e.lost = lost, EventFits(bbr, e),
         OnCongestionEvent(e, settles)
  PROVE  IInv' /\ ProbeRttIsDue(bbr, bbr')
<1> DEFINE f == OnCongestionEventFinish(
                  ModeLoop(OnCongestionEventStart(bbr, e), e), e)
<1>1. bbr' = MaybeEnterQuiescence(f, e)
  BY DEF OnCongestionEvent, Conclude
<1>2. Kept(bbr') /\ ProbeRttIsDue(bbr, bbr')
  BY <1>1, EventIsKept DEF IInv, Kept
<1>3. in_flight' \in 0 .. MaxFlight
  BY PacketAssumption DEF OnCongestionEvent, Conclude, IInv, Environment
<1>4. window' \in 1 .. MaxFlight
  <2>1. window' = ApplyLimits(InflightTarget(e.bdp)) \/ window' = MaxFlight
    BY DEF OnCongestionEvent, Conclude
  <2>2. e.bdp \in Nat
    BY DEF EventRecords
  <2>3. e.bdp \div 2 \in Nat
    BY <2>2
  <2>4. ApplyLimits(InflightTarget(e.bdp)) \in 1 .. MaxFlight
    BY <2>3, PacketAssumption DEF ApplyLimits, InflightTarget, Smaller, Larger
  <2> QED
    BY <2>1, <2>4, PacketAssumption
<1>5. late' \in BOOLEAN
  BY DEF OnCongestionEvent, Conclude, LateAfter, IInv, Environment
<1> QED
  BY <1>2, <1>3, <1>4, <1>5, InvariantIsKept DEF IInv, Kept, Environment

\* A round ends with a packet sent in it, and the first ack ends one.
LEMMA RoundEndsFit ==
  ASSUME IInv, NEW round \in EndsRound, NEW e \in EventRecords,
         e.end_of_round_trip = round,
         e.is_probing_for_bandwidth = IsProbingForBandwidth(bbr),
         ~bbr.round_started => e.sample_min_rtt # "infinite"
  PROVE  round \in BOOLEAN /\ EventFits(bbr, e)
<1>1. bbr.round_started \in BOOLEAN /\ bbr.sent_in_round \in BOOLEAN
  BY DEF IInv, Controllers
<1> QED
  BY <1>1 DEF EndsRound, Only, If, EventFits

\* Whether a round ends is a truth value.
LEMMA RoundsAreBoolean ==
  ASSUME IInv
  PROVE  EndsRound \subseteq BOOLEAN
BY DEF EndsRound, Only, If

\* The echo of a packet in flight.
LEMMA AckStep ==
  ASSUME IInv, OnAck
  PROVE  IInv' /\ ProbeRttIsDue(bbr, bbr')
<1>1. PICK lost \in 0 .. in_flight - 1, round \in EndsRound :
        \E e \in Events(TRUE, lost, round) : OnCongestionEvent(e, TRUE)
  BY DEF OnAck
<1>2. PICK e \in Events(TRUE, lost, round) : OnCongestionEvent(e, TRUE)
  BY <1>1
<1>3. in_flight \in Nat /\ lost \in 0 .. in_flight /\ lost + 1 <= in_flight
  BY PacketAssumption DEF IInv, Environment
<1>4. round \in BOOLEAN
  BY RoundsAreBoolean
<1>5. /\ e \in EventRecords
      /\ e.lost = lost /\ e.end_of_round_trip = round
      /\ e.is_probing_for_bandwidth = IsProbingForBandwidth(bbr)
      /\ ~bbr.round_started => e.sample_min_rtt # "infinite"
  BY <1>3, <1>4, EventsAreTyped
<1>6. EventFits(bbr, e)
  BY <1>5, RoundEndsFit
<1> QED
  BY <1>2, <1>3, <1>5, <1>6, EventStep

\* The echo of a packet that has left flight.
LEMMA LateAckStep ==
  ASSUME IInv, OnLateAck
  PROVE  IInv' /\ ProbeRttIsDue(bbr, bbr')
<1>1. PICK sampled \in BOOLEAN, settles \in BOOLEAN, round \in EndsRound,
           lost \in 0 .. in_flight :
        /\ ~sampled => bbr.round_started
        /\ settles => ~sampled /\ lost < in_flight
        /\ \E e \in Events(sampled, lost, round) : OnCongestionEvent(e, settles)
  BY DEF OnLateAck
<1>2. PICK e \in Events(sampled, lost, round) : OnCongestionEvent(e, settles)
  BY <1>1
<1>3. in_flight \in Nat /\ lost + (IF settles THEN 1 ELSE 0) <= in_flight
  BY <1>1, PacketAssumption DEF IInv, Environment
<1>4. round \in BOOLEAN
  BY RoundsAreBoolean
<1>5. /\ e \in EventRecords
      /\ e.lost = lost /\ e.end_of_round_trip = round
      /\ e.is_probing_for_bandwidth = IsProbingForBandwidth(bbr)
      /\ ~bbr.round_started => e.sample_min_rtt # "infinite"
  BY <1>1, <1>3, <1>4, EventsAreTyped
<1>6. EventFits(bbr, e)
  BY <1>5, RoundEndsFit
<1> QED
  BY <1>2, <1>3, <1>5, <1>6, EventStep

\* The loss timer.
LEMMA LossesStep ==
  ASSUME IInv, OnLosses
  PROVE  IInv' /\ ProbeRttIsDue(bbr, bbr')
<1>1. PICK lost \in 1 .. in_flight :
        \E e \in Events(FALSE, lost, FALSE) : OnCongestionEvent(e, FALSE)
  BY DEF OnLosses
<1>2. PICK e \in Events(FALSE, lost, FALSE) : OnCongestionEvent(e, FALSE)
  BY <1>1
<1>3. in_flight \in Nat /\ lost \in 0 .. in_flight /\ lost + 0 <= in_flight
  BY PacketAssumption DEF IInv, Environment
<1>4. /\ e \in EventRecords
      /\ e.lost = lost /\ e.end_of_round_trip = FALSE
      /\ e.is_probing_for_bandwidth = IsProbingForBandwidth(bbr)
  BY <1>3, EventsAreTyped
<1>5. EventFits(bbr, e)
  BY <1>4 DEF EventFits, OnLosses
<1> QED
  BY <1>2, <1>3, <1>4, <1>5, EventStep

\* The RTO tells the controller nothing.
LEMMA TimeoutStep ==
  ASSUME IInv, OnRetransmissionTimeout
  PROVE  IInv' /\ ProbeRttIsDue(bbr, bbr')
<1>1. bbr' = bbr /\ window' = window /\ in_flight' = 0 /\ late' = TRUE
  BY DEF OnRetransmissionTimeout
<1>2. Environment'
  BY <1>1, PacketAssumption DEF IInv, Environment
<1>3. Kept(bbr')
  BY <1>1 DEF IInv, Kept
<1> QED
  BY <1>1, <1>2, <1>3 DEF IInv, Kept, ProbeRttIsDue

\* An age grows to its bound.
LEMMA AgesGrow ==
  ASSUME NEW age \in Int, NEW bound \in Int, age <= bound
  PROVE  /\ Older(age, bound) \in Int
         /\ age <= Older(age, bound) /\ Older(age, bound) <= bound
         /\ age < bound => Older(age, bound) = age + 1
         /\ age = bound => Older(age, bound) = bound
BY DEF Older, Smaller

\* Fields that Tick sets.
LEMMA TickSet ==
  ASSUME NEW c \in Controllers,
         NEW cycle \in CycleAges, NEW phase \in PhaseAges,
         NEW rtt \in MinRttAges, NEW exit \in ExitTimes,
         NEW quiet \in Quiescences, NEW low \in ExitTimes, NEW since \in RealAges
  PROVE  [c EXCEPT !.cycle_age = cycle, !.phase_age = phase, !.min_rtt_age = rtt,
                   !.exit_time = exit, !.quiescence = quiet, !.low_age = low,
                   !.since_min_rtt = since] \in Controllers
<1> DEFINE d == [c EXCEPT !.cycle_age = cycle, !.phase_age = phase,
                          !.min_rtt_age = rtt]
<1>1. d \in Controllers
  BY ZenonT(40) DEF Controllers
<1> HIDE DEF d
<1>2. [d EXCEPT !.exit_time = exit, !.quiescence = quiet, !.low_age = low,
                !.since_min_rtt = since] \in Controllers
  BY ZenonT(40), <1>1 DEF Controllers
<1> QED
  BY <1>2 DEF d

\* Time passes.
LEMMA TickStep ==
  ASSUME IInv, Tick
  PROVE  IInv' /\ ProbeRttIsDue(bbr, bbr')
<1> DEFINE cycle == IF InPhase({"PROBE_DOWN", "PROBE_CRUISE"})
                      THEN Older(bbr.cycle_age, ProbeWait + 1)
                      ELSE bbr.cycle_age
           phase == IF InPhase({"PROBE_DOWN"})
                      THEN Older(bbr.phase_age, MinRtt + 1)
                    ELSE IF bbr.mode = "PROBE_BW" THEN 1 ELSE bbr.phase_age
           rtt == Older(bbr.min_rtt_age, ProbeRttPeriod)
           exit == IF bbr.exit_time > 0 THEN bbr.exit_time - 1
                                        ELSE bbr.exit_time
           quiet == IF bbr.quiescence = None
                      THEN None ELSE Older(bbr.quiescence, MaxQuiescence)
           low == IF bbr.low_age = None
                    THEN None ELSE Older(bbr.low_age, ProbeRttDuration + 1)
           since == Older(bbr.since_min_rtt, ProbeRttPeriod)
<1>0. bbr \in Controllers /\ Steady(bbr) /\ Settled(bbr) /\ Kept(bbr)
  BY DEF IInv, Kept
<1>1. bbr' = [bbr EXCEPT
         !.cycle_age = cycle, !.phase_age = phase, !.min_rtt_age = rtt,
         !.exit_time = exit, !.quiescence = quiet, !.low_age = low,
         !.since_min_rtt = since]
  BY DEF Tick
<1>2. cycle \in CycleAges
  <2>1. bbr.cycle_age \in CycleAges
    BY <1>0 DEF Controllers
  <2> QED
    BY <2>1, ClockAssumption DEF CycleAges, Older, Smaller
<1>3. phase \in PhaseAges /\ (bbr.mode = "PROBE_BW" => phase # 0)
      /\ (bbr.mode # "PROBE_BW" => phase = bbr.phase_age)
  <2>1. bbr.phase_age \in PhaseAges
    BY <1>0 DEF Controllers
  <2>2. Older(bbr.phase_age, MinRtt + 1) \in PhaseAges
        /\ Older(bbr.phase_age, MinRtt + 1) # 0
    BY <2>1, ClockAssumption DEF PhaseAges, Older, Smaller
  <2>3. 1 \in PhaseAges
    BY ClockAssumption DEF PhaseAges
  <2> QED
    BY <2>1, <2>2, <2>3 DEF InPhase
<1>4. exit \in ExitTimes
      /\ (bbr.exit_time = None <=> exit = None)
      /\ (bbr.exit_time = 0 => exit = 0)
      /\ (bbr.exit_time \notin {None, 0} => exit = bbr.exit_time - 1)
  <2>1. bbr.exit_time \in ExitTimes
    BY <1>0 DEF Controllers
  <2> QED
    BY <2>1, ClockAssumption DEF ExitTimes, None
<1>5. quiet \in Quiescences
  <2>1. bbr.quiescence \in Quiescences
    BY <1>0 DEF Controllers
  <2> QED
    BY <2>1, ClockAssumption DEF Quiescences, None, Older, Smaller
<1>6. low \in ExitTimes /\ (bbr.low_age = None <=> low = None)
      /\ (bbr.low_age # None =>
            low = Smaller(bbr.low_age + 1, ProbeRttDuration + 1))
  <2>1. bbr.low_age \in ExitTimes
    BY <1>0 DEF Controllers
  <2> QED
    BY <2>1, ClockAssumption DEF ExitTimes, None, Older, Smaller
<1>7. rtt \in MinRttAges /\ since \in RealAges
      /\ rtt <= since /\ bbr.resume_age <= since
  <2>1. bbr.min_rtt_age \in MinRttAges /\ bbr.since_min_rtt \in RealAges
        /\ bbr.resume_age \in MinRttAges
    BY <1>0 DEF Controllers
  <2>2. bbr.min_rtt_age <= bbr.since_min_rtt
        /\ bbr.resume_age <= bbr.since_min_rtt
    BY <1>0 DEF Steady, MinRttIsYoung
  <2> QED
    BY <2>1, <2>2, ClockAssumption DEF MinRttAges, RealAges, Older, Smaller
<1> HIDE DEF cycle, phase, rtt, exit, quiet, low, since
<1>8. bbr' \in Controllers
  <2>1. /\ bbr \in Controllers
        /\ cycle \in CycleAges /\ phase \in PhaseAges /\ rtt \in MinRttAges
        /\ exit \in ExitTimes /\ quiet \in Quiescences /\ low \in ExitTimes
        /\ since \in RealAges
    BY <1>0, <1>2, <1>3, <1>4, <1>5, <1>6, <1>7
  <2> QED
    BY <1>1, <2>1, TickSet
<1>9. /\ bbr'.phase_age = phase /\ bbr'.min_rtt_age = rtt
      /\ bbr'.exit_time = exit /\ bbr'.low_age = low
      /\ bbr'.since_min_rtt = since
      /\ bbr'.resume_age = bbr.resume_age
      /\ bbr'.drained = bbr.drained
      /\ bbr'.mode = bbr.mode /\ bbr'.phase = bbr.phase
      /\ bbr'.rounds_in_phase = bbr.rounds_in_phase
  BY <1>0, <1>1 DEF Controllers
<1>10. /\ bbr'.has_advanced_max_bw = bbr.has_advanced_max_bw
       /\ bbr'.advances = bbr.advances /\ bbr'.cuts = bbr.cuts
       /\ bbr'.is_sample_from_probing = bbr.is_sample_from_probing
       /\ bbr'.sent_in_round = bbr.sent_in_round
       /\ bbr'.sent_since_refill = bbr.sent_since_refill
       /\ bbr'.bandwidth_lo = bbr.bandwidth_lo
       /\ bbr'.inflight_lo = bbr.inflight_lo
  BY <1>0, <1>1 DEF Controllers
<1>11. /\ bbr'.next = bbr.next /\ bbr'.pacing_gain = bbr.pacing_gain
       /\ bbr'.full_bandwidth_reached = bbr.full_bandwidth_reached
       /\ bbr'.rounds_without_growth = bbr.rounds_without_growth
       /\ bbr'.round_started = bbr.round_started
       /\ bbr'.changes = bbr.changes /\ bbr'.restless = bbr.restless
       /\ bbr'.max_bw_older = bbr.max_bw_older
       /\ bbr'.max_bw_newer = bbr.max_bw_newer
  BY <1>0, <1>1 DEF Controllers
<1>12. ModeFitsPhase(bbr')
  BY <1>0, <1>9 DEF Steady, ModeFitsPhase
<1>13. FilterIsCounted(bbr')
  <2>1. bbr.phase = "PROBE_DOWN" => bbr.mode = "PROBE_BW"
    BY <1>0 DEF Steady, ModeFitsPhase, Controllers, Modes
  <2> QED
    BY <1>0, <1>3, <1>9, <1>10, <2>1 DEF Steady, FilterIsCounted
<1>14. CutsAreCounted(bbr') /\ RefillIsSent(bbr')
  BY <1>0, <1>9, <1>10 DEF Steady, CutsAreCounted, RefillIsSent
<1>15. BoundsAreOff(bbr')
  BY <1>0, <1>9, <1>10 DEF Steady, BoundsAreOff, IsProbingForBandwidth
<1>16. ProbeRttIsTimed(bbr')
  <2>1. bbr.drained
        /\ (bbr.mode = "PROBE_RTT" =>
              /\ (bbr.exit_time = None) <=> (bbr.low_age = None)
              /\ bbr.exit_time # None =>
                   bbr.exit_time + bbr.low_age = ProbeRttDuration + 1)
    BY <1>0 DEF Steady, ProbeRttIsTimed
  <2>2. bbr.exit_time \in ExitTimes /\ bbr.low_age \in ExitTimes
    BY <1>0 DEF Controllers
  <2>3. bbr.mode = "PROBE_RTT" /\ exit # None => exit + low = ProbeRttDuration + 1
    BY <1>4, <1>6, <2>1, <2>2, ClockAssumption DEF ExitTimes, None, Smaller
  <2>4. bbr.mode = "PROBE_RTT" => ((exit = None) <=> (low = None))
    BY <1>4, <1>6, <2>1
  <2> QED
    BY <1>9, <2>1, <2>3, <2>4 DEF ProbeRttIsTimed
<1>17. MinRttIsYoung(bbr')
  BY <1>7, <1>9 DEF MinRttIsYoung
<1>18. Settled(bbr')
  BY <1>0, <1>9, <1>11 DEF Settled, GainOf
<1>19. Environment'
  BY DEF IInv, Environment, Tick
<1>20. ProbeRttIsDue(bbr, bbr')
  BY <1>9 DEF ProbeRttIsDue
<1>21. Steady(bbr')
  BY <1>0, <1>11, <1>12, <1>13, <1>14, <1>15, <1>16, <1>17 DEF Steady
<1> QED
  BY <1>8, <1>18, <1>19, <1>20, <1>21 DEF IInv

\* Fields that ExitQuiescence sets.
LEMMA AwakeIsTyped ==
  ASSUME NEW c \in Controllers
  PROVE  [c EXCEPT !.quiescence = None, !.resume_age = 0] \in Controllers
<1>1. None \in Quiescences /\ 0 \in MinRttAges
  BY ClockAssumption DEF Quiescences, None, MinRttAges
<1> QED
  BY ZenonT(40), <1>1 DEF Controllers

\* Fields that leaving PROBE_RTT for idleness sets.
LEMMA IdlenessIsTyped ==
  ASSUME NEW c \in Controllers
  PROVE  /\ [c EXCEPT !.next = "PROBE_BW"] \in Controllers
         /\ [c EXCEPT !.changes = 0, !.drained = TRUE] \in Controllers
<1>1. "PROBE_BW" \in Modes /\ 0 \in Nat
  BY DEF Modes
<1>2. [c EXCEPT !.next = "PROBE_BW"] \in Controllers
  BY <1>1 DEF Controllers
<1>3. [c EXCEPT !.changes = 0, !.drained = TRUE] \in Controllers
  BY ZenonT(40), <1>1 DEF Controllers
<1> QED
  BY <1>2, <1>3

\* PROBE_RTT is left by a send from idleness: the flight was as low as can be.
LEMMA IdleProbeRttEnds ==
  ASSUME NEW c \in Controllers, Kept(c), c.mode = "PROBE_RTT",
         NEW a \in Controllers,
         a = [c EXCEPT !.quiescence = None, !.resume_age = 0]
  PROVE  LET d == [ChangeMode([a EXCEPT !.next = "PROBE_BW"])
                     EXCEPT !.changes = 0, !.drained = TRUE]
         IN  Kept(d) /\ d.mode = "PROBE_BW"
<1> DEFINE w == [a EXCEPT !.next = "PROBE_BW"]
           m == Moved(w)
           p == EnterProbeBw(m)
           d == [ChangeMode(w) EXCEPT !.changes = 0, !.drained = TRUE]
<1>1. w \in Controllers
  BY IdlenessIsTyped
<1>2. /\ w.next = "PROBE_BW" /\ w.mode = "PROBE_RTT"
      /\ w.resume_age = 0 /\ w.min_rtt_age = c.min_rtt_age
      /\ w.since_min_rtt = c.since_min_rtt
      /\ w.full_bandwidth_reached = c.full_bandwidth_reached
      /\ w.rounds_without_growth = c.rounds_without_growth
      /\ w.round_started = c.round_started
      /\ w.pacing_gain = c.pacing_gain /\ w.restless = c.restless
      /\ w.max_bw_older = c.max_bw_older /\ w.max_bw_newer = c.max_bw_newer
  BY DEF Controllers
<1>3. SameCycle(c, w)
  BY DEF Controllers, SameCycle
<1>4. ChangeMode(w) = p
  <2> HIDE DEF w
  <2> QED
    BY <1>2 DEF ChangeMode, Moved
<1> HIDE DEF w
<1>5. m \in Controllers /\ m.mode = "PROBE_BW"
  BY <1>1, <1>2, MovedIsTyped
<1>6. /\ SameBesideMode(w, m) /\ SameCycle(w, m)
      /\ m.pacing_gain = w.pacing_gain
      /\ m.since_min_rtt = w.since_min_rtt
  BY <1>1, MovedIsSame
<1> HIDE DEF m
<1>7. m.phase \in {"PROBE_CRUISE", "PROBE_REFILL"} /\ FilterIsCounted(m)
  <2>1. c.phase \in {"PROBE_CRUISE", "PROBE_REFILL"} /\ FilterIsCounted(c)
    BY DEF Kept, Steady, ModeFitsPhase
  <2> QED
    BY <1>3, <1>6, <2>1 DEF SameCycle, FilterIsCounted
<1>8. \E e \in EventRecords : TRUE
  <2>1. [lost |-> 0, bytes_in_flight |-> 0, is_probing_for_bandwidth |-> FALSE,
         end_of_round_trip |-> FALSE, sample_min_rtt |-> "kept",
         app_limited |-> FALSE, loss_above_threshold |-> FALSE,
         bandwidth_grew |-> FALSE, reno_rounds_passed |-> FALSE,
         at_inflight_hi |-> FALSE, max_ack_height |-> 0, bdp |-> 0]
          \in EventRecords
    BY DEF EventRecords
  <2> QED
    BY <2>1
<1>9. PICK e \in EventRecords : TRUE
  BY <1>8
<1>10. /\ p \in Controllers
       /\ CycleIsSound(p, e)
       /\ p.phase = m.phase /\ p.mode = "PROBE_BW"
       /\ p.pacing_gain = m.pacing_gain
       /\ p.since_min_rtt = m.since_min_rtt
       /\ SameBesideMode(m, p)
  BY <1>5, <1>7, ProbeBwResumed
<1> HIDE DEF p
<1>11. d = [p EXCEPT !.changes = 0, !.drained = TRUE]
  BY <1>4
<1> HIDE DEF d
<1>12. d \in Controllers
  BY <1>10, <1>11, IdlenessIsTyped
<1>13. /\ SameBesideMode(p, d) /\ SameCycle(p, d)
       /\ d.is_sample_from_probing = p.is_sample_from_probing
       /\ d.cuts = p.cuts
       /\ d.mode = p.mode /\ d.pacing_gain = p.pacing_gain
       /\ d.since_min_rtt = p.since_min_rtt
       /\ d.changes = 0 /\ d.drained
  BY <1>10, <1>11 DEF Controllers, SameBesideMode, SameCycle
<1>14. d.mode = "PROBE_BW" /\ d.phase \in {"PROBE_CRUISE", "PROBE_REFILL"}
  BY <1>7, <1>10, <1>13 DEF SameCycle
<1>15. FilterIsCounted(d) /\ CutsAreCounted(d)
  BY <1>10, <1>13 DEF CycleIsSound, FilterIsCounted, CutsAreCounted, SameCycle
<1>16. RefillIsSent(d) /\ BoundsAreOff(d)
  BY <1>10, <1>13
  DEF CycleIsSound, RefillIsSent, BoundsAreOff, IsProbingForBandwidth, SameCycle
<1>17. ModeFitsPhase(d) /\ ProbeRttIsTimed(d)
  BY <1>13, <1>14 DEF ModeFitsPhase, ProbeRttIsTimed
<1>18. MinRttIsYoung(d)
  <2>1. c.min_rtt_age <= c.since_min_rtt /\ 0 <= c.since_min_rtt
    BY ClockAssumption DEF Kept, Steady, MinRttIsYoung, Controllers, RealAges
  <2>2. d.min_rtt_age = c.min_rtt_age /\ d.resume_age = 0
        /\ d.since_min_rtt = c.since_min_rtt
    BY <1>2, <1>6, <1>10, <1>13 DEF SameBesideMode
  <2> QED
    BY <2>1, <2>2 DEF MinRttIsYoung
<1>19. Settled(d)
  <2>1. /\ c.full_bandwidth_reached /\ c.rounds_without_growth < FullBwRounds
        /\ c.round_started /\ ~c.restless /\ c.pacing_gain = 1000
    BY DEF Kept, Settled, GainOf, Controllers
  <2>2. /\ d.full_bandwidth_reached = c.full_bandwidth_reached
        /\ d.rounds_without_growth = c.rounds_without_growth
        /\ d.round_started = c.round_started /\ d.restless = c.restless
        /\ d.pacing_gain = c.pacing_gain
        /\ d.next = "PROBE_BW"
    BY <1>2, <1>6, <1>10, <1>13 DEF SameBesideMode
  <2>3. GainOf(d) = 1000
    BY <1>14 DEF GainOf, PacingGainForPhase
  <2> QED
    BY <1>13, <1>14, <2>1, <2>2, <2>3 DEF Settled
<1>20. d.max_bw_older \/ d.max_bw_newer
  <2>1. c.max_bw_older \/ c.max_bw_newer
    BY DEF Kept, Steady, Settled
  <2> QED
    BY <1>2, <1>6, <1>10, <1>13, <2>1 DEF SameBesideMode
<1> QED
  BY <1>12, <1>14, <1>15, <1>16, <1>17, <1>18, <1>19, <1>20
  DEF Kept, Steady, d, w

\* OnExitQuiescence.
LEMMA QuiescenceExited ==
  ASSUME NEW c \in Controllers, Kept(c)
  PROVE  LET d == ExitQuiescence(c)
         IN  Kept(d) /\ (d.mode = c.mode \/ d.mode = "PROBE_BW")
<1> DEFINE a == [c EXCEPT !.quiescence = None, !.resume_age = 0]
           d == ExitQuiescence(c)
<1>1. a \in Controllers
  BY AwakeIsTyped
<1>2. /\ SameSettled(c, a) /\ a.min_rtt_age = c.min_rtt_age
      /\ a.resume_age = 0 /\ a.since_min_rtt = c.since_min_rtt
  BY DEF Controllers, SameSettled, SameMode, SameCycle
<1>3. /\ c.min_rtt_age <= c.since_min_rtt /\ c.resume_age <= c.since_min_rtt
      /\ 0 <= c.since_min_rtt
  BY ClockAssumption DEF Kept, Steady, MinRttIsYoung, Controllers, RealAges
<1>4. \/ d = c
      \/ d = [a EXCEPT !.min_rtt_age = c.resume_age]
      \/ d = a
      \/ /\ c.mode = "PROBE_RTT"
         /\ d = [ChangeMode([a EXCEPT !.next = "PROBE_BW"]) EXCEPT
                   !.changes = 0, !.drained = TRUE]
  BY DEF ExitQuiescence
<1>5. CASE d = c
  BY <1>5
<1>6. CASE d = [a EXCEPT !.min_rtt_age = c.resume_age]
  <2>1. c.resume_age \in MinRttAges
    BY DEF Controllers
  <2> HIDE DEF a, d
  <2>2. d \in Controllers
    BY <1>1, <1>6, <2>1 DEF Controllers
  <2>3. /\ SameSettled(a, d) /\ d.min_rtt_age = c.resume_age
        /\ d.resume_age = a.resume_age /\ d.since_min_rtt = a.since_min_rtt
    BY <1>1, <1>6 DEF Controllers, SameSettled, SameMode, SameCycle
  <2>4. SameSettled(c, d)
    BY <1>2, <2>3 DEF SameSettled, SameMode, SameCycle
  <2>5. MinRttIsYoung(d)
    BY <1>2, <1>3, <2>3 DEF MinRttIsYoung
  <2> QED
    BY <2>2, <2>4, <2>5, SettledIsKept DEF SameSettled, SameMode, d
<1>7. CASE d = a
  <2> HIDE DEF a, d
  <2>1. MinRttIsYoung(a)
    BY <1>2, <1>3 DEF MinRttIsYoung
  <2> QED
    BY <1>1, <1>2, <1>7, <2>1, SettledIsKept DEF SameSettled, SameMode, d
<1>8. CASE /\ c.mode = "PROBE_RTT"
           /\ d = [ChangeMode([a EXCEPT !.next = "PROBE_BW"]) EXCEPT
                     !.changes = 0, !.drained = TRUE]
  BY <1>1, <1>8, IdleProbeRttEnds
<1> QED
  BY <1>4, <1>5, <1>6, <1>7, <1>8

\* A packet is sent.
LEMMA SendStep ==
  ASSUME IInv, OnPacketSent
  PROVE  IInv' /\ ProbeRttIsDue(bbr, bbr')
<1> DEFINE c == IF in_flight = 0 THEN ExitQuiescence(bbr) ELSE bbr
           sent == c.sent_since_refill \/ c.phase = "PROBE_REFILL"
<1>1. Kept(c) /\ (c.mode = bbr.mode \/ c.mode = "PROBE_BW")
  BY QuiescenceExited DEF IInv, Kept
<1>2. bbr' = [c EXCEPT !.sent_in_round = TRUE, !.sent_since_refill = sent]
  BY DEF OnPacketSent
<1>3. c \in Controllers
  BY <1>1 DEF Kept
<1>4. sent \in BOOLEAN
  OBVIOUS
<1> HIDE DEF c
<1>5. bbr' \in Controllers
  <2> HIDE DEF sent
  <2> QED
    BY ZenonT(40), <1>2, <1>3, <1>4 DEF Controllers
<1>6. /\ SameMode(c, bbr') /\ bbr'.next = c.next
      /\ bbr'.low_age = c.low_age /\ bbr'.drained = c.drained
      /\ bbr'.min_rtt_age = c.min_rtt_age
      /\ bbr'.resume_age = c.resume_age
      /\ bbr'.since_min_rtt = c.since_min_rtt
      /\ bbr'.round_started = c.round_started /\ bbr'.restless = c.restless
  BY <1>2, <1>3 DEF Controllers, SameMode
<1>7. /\ bbr'.rounds_in_phase = c.rounds_in_phase
      /\ bbr'.phase_age = c.phase_age
      /\ bbr'.has_advanced_max_bw = c.has_advanced_max_bw
      /\ bbr'.advances = c.advances /\ bbr'.cuts = c.cuts
      /\ bbr'.is_sample_from_probing = c.is_sample_from_probing
      /\ bbr'.sent_since_refill = sent
      /\ bbr'.bandwidth_lo = c.bandwidth_lo /\ bbr'.inflight_lo = c.inflight_lo
  BY <1>2, <1>3 DEF Controllers
<1>8. Steady(c) /\ Settled(c)
  BY <1>1 DEF Kept
<1>9. FilterIsCounted(bbr') /\ CutsAreCounted(bbr')
  BY <1>6, <1>7, <1>8 DEF Steady, FilterIsCounted, CutsAreCounted, SameMode
<1>10. RefillIsSent(bbr')
  BY <1>6, <1>7, <1>8 DEF Steady, RefillIsSent, SameMode
<1>11. BoundsAreOff(bbr')
  BY <1>6, <1>7, <1>8 DEF Steady, BoundsAreOff, IsProbingForBandwidth, SameMode
<1>12. ModeFitsPhase(bbr') /\ ProbeRttIsTimed(bbr') /\ MinRttIsYoung(bbr')
  BY <1>6, <1>8
  DEF Steady, ModeFitsPhase, ProbeRttIsTimed, MinRttIsYoung, SameMode
<1>13. Settled(bbr')
  <2>1. GainOf(bbr') = GainOf(c)
    BY <1>6 DEF GainOf, SameMode
  <2> QED
    BY <1>6, <1>8, <2>1 DEF Settled, SameMode
<1>14. Environment'
  BY PacketAssumption DEF IInv, Environment, OnPacketSent
<1>15. ProbeRttIsDue(bbr, bbr')
  BY <1>1, <1>6 DEF ProbeRttIsDue, SameMode
<1>16. Steady(bbr')
  <2>1. bbr'.round_started => bbr'.max_bw_older \/ bbr'.max_bw_newer
    BY <1>6, <1>8 DEF Steady, SameMode
  <2> QED
    BY <1>9, <1>10, <1>11, <1>12, <2>1 DEF Steady
<1> QED
  BY <1>5, <1>13, <1>14, <1>15, <1>16 DEF IInv

----------------------------------------------------------------------------
(* The theorems.                                                           *)

\* The invariant holds at the start.
LEMMA InitKeepsInvariant == Init => IInv
<1> SUFFICES ASSUME Init PROVE IInv
  OBVIOUS
<1>1. /\ "STARTUP" \in Modes /\ "PROBE_NOT_STARTED" \in Phases
      /\ StartupGain \in PacingGains
  BY DEF Modes, Phases, PacingGains
<1>2. None \in ExitTimes /\ None \in Quiescences
  BY ClockAssumption DEF ExitTimes, Quiescences, None
<1>3. 0 \in MinRttAges /\ ProbeRttPeriod \in MinRttAges
  BY ClockAssumption DEF MinRttAges
<1>4. 0 \in GrowthCounts /\ 0 < FullBwRounds /\ 0 \in Nat
  BY CountAssumption DEF GrowthCounts
<1>5. ProbeRttPeriod \in RealAges /\ 0 <= ProbeRttPeriod
      /\ ProbeRttPeriod <= ProbeRttPeriod
  BY ClockAssumption DEF RealAges
<1>6. bbr \in Controllers
  BY <1>1, <1>2, <1>3, <1>4, <1>5, Zeros DEF Init, Controllers
<1>7. /\ bbr.mode = "STARTUP" /\ bbr.next = "STARTUP"
      /\ bbr.phase = "PROBE_NOT_STARTED"
      /\ bbr.advances = 0 /\ ~bbr.has_advanced_max_bw
      /\ ~bbr.is_sample_from_probing
      /\ ~bbr.bandwidth_lo /\ ~bbr.inflight_lo
      /\ bbr.drained
      /\ bbr.min_rtt_age = ProbeRttPeriod /\ bbr.resume_age = 0
      /\ bbr.since_min_rtt = ProbeRttPeriod
      /\ ~bbr.full_bandwidth_reached /\ bbr.rounds_without_growth = 0
      /\ bbr.pacing_gain = StartupGain
      /\ bbr.changes = 0 /\ ~bbr.restless
      /\ ~bbr.round_started
  BY DEF Init
<1>8. Steady(bbr)
  BY <1>5, <1>7
  DEF Steady, ModeFitsPhase, FilterIsCounted, CutsAreCounted, RefillIsSent,
      BoundsAreOff, ProbeRttIsTimed, MinRttIsYoung
<1>9. Settled(bbr)
  BY <1>4, <1>7 DEF Settled, GainOf
<1>10. Environment
  <2>1. in_flight = 0 /\ late = FALSE /\ window = MaxFlight
    BY DEF Init
  <2>2. 0 \in 0 .. MaxFlight /\ MaxFlight \in 1 .. MaxFlight
    BY PacketAssumption
  <2> QED
    BY <2>1, <2>2 DEF Environment
<1> QED
  BY <1>6, <1>8, <1>9, <1>10 DEF IInv

\* Every step keeps the invariant, and enters PROBE_RTT only when it is due.
LEMMA StepKeepsInvariant ==
  IInv /\ [Next]_vars => IInv' /\ [ProbeRttIsDue(bbr, bbr')]_vars
<1> SUFFICES ASSUME IInv, [Next]_vars
             PROVE  IInv' /\ [ProbeRttIsDue(bbr, bbr')]_vars
  OBVIOUS
<1>1. CASE OnPacketSent
  BY <1>1, SendStep
<1>2. CASE OnAck
  BY <1>2, AckStep
<1>3. CASE OnLateAck
  BY <1>3, LateAckStep
<1>4. CASE OnLosses
  BY <1>4, LossesStep
<1>5. CASE OnRetransmissionTimeout
  BY <1>5, TimeoutStep
<1>6. CASE Tick
  BY <1>6, TickStep
<1>7. CASE UNCHANGED vars
  BY <1>7 DEF vars, IInv, Environment
<1> QED
  BY <1>1, <1>2, <1>3, <1>4, <1>5, <1>6, <1>7 DEF Next

\* The conjunction of the controller's invariants is inductive, for every
\* window, every period and every threshold.
THEOREM Bbr2Invariant == Spec => []IInv
<1>1. IInv /\ [Next]_vars => IInv'
  BY StepKeepsInvariant
<1> QED
  BY InitKeepsInvariant, <1>1, PTL DEF Spec

\* The ages, the counts and the gain of the controller stay in their ranges,
\* the min RTT's time, which a quiescence moves ahead of now, included.
THEOREM Bbr2TypeCorrect == Spec => []TypeOK
<1>1. IInv => TypeOK
  <2> SUFFICES ASSUME IInv PROVE TypeOK
    OBVIOUS
  <2>1. bbr.rounds_without_growth \in 0 .. FullBwRounds - 1
    BY CountAssumption DEF IInv, Settled, Controllers, GrowthCounts
  <2>2. /\ bbr.mode \in Modes /\ bbr.next \in Modes /\ bbr.phase \in Phases
        /\ bbr.rounds_in_phase \in Rounds
        /\ bbr.cycle_age \in CycleAges /\ bbr.phase_age \in PhaseAges
        /\ bbr.exit_time \in ExitTimes /\ bbr.pacing_gain \in PacingGains
        /\ bbr.loss_events \in LossCounts
        /\ bbr.min_rtt_age \in MinRttAges /\ bbr.quiescence \in Quiescences
        /\ bbr.resume_age \in MinRttAges
    BY DEF IInv, Controllers
  <2>3. Environment
    BY DEF IInv
  <2> QED
    BY <2>1, <2>2, <2>3
    DEF TypeOK, Environment, Rounds, CycleAges, PhaseAges, ExitTimes,
        PacingGains, LossCounts, MinRttAges, Quiescences
<1> QED
  BY Bbr2Invariant, <1>1, PTL

\* The machine of the modes and that of the phases never come apart: the mode
\* follows the progress made, the gain is that of the phase, and no lower bound
\* holds back a sender that probes.
THEOREM Bbr2MachinesAgree == Spec => []PhasesAgree
<1>1. IInv => PhasesAgree
  <2> SUFFICES ASSUME IInv PROVE PhasesAgree
    OBVIOUS
  <2>1. ModeFollowsProgress
    BY DEF IInv, Steady, ModeFitsPhase, Settled, ModeFollowsProgress
  <2>2. GainFollowsPhase
    BY DEF IInv, Settled, GainOf, GainFollowsPhase
  <2>3. ProbingIsUnbounded
    BY DEF IInv, Steady, BoundsAreOff, ProbingIsUnbounded
  <2> QED
    BY <2>1, <2>2, <2>3 DEF PhasesAgree
<1> QED
  BY Bbr2Invariant, <1>1, PTL

\* In every cycle one call advances the filter of the maximum bandwidth, which
\* is never empty after the first ack, and the losses of a probe cut inflight_hi
\* at most once.
THEOREM CyclesAreCounted == Spec => []CycleIsCounted
<1>1. IInv => CycleIsCounted
  <2> SUFFICES ASSUME IInv PROVE CycleIsCounted
    OBVIOUS
  <2>1. bbr.cuts \in Bits
    BY DEF IInv, Controllers
  <2>2. bbr.cuts <= 1
    BY <2>1 DEF Bits
  <2>3. FilterAdvancesOncePerCycle
    BY DEF IInv, Steady, FilterIsCounted, FilterAdvancesOncePerCycle
  <2>4. ProbeCutsOnce
    BY <2>2 DEF IInv, Steady, CutsAreCounted, ProbeCutsOnce
  <2>5. MaxBandwidthIsKept
    BY DEF IInv, Steady, MaxBandwidthIsKept
  <2> QED
    BY <2>3, <2>4, <2>5 DEF CycleIsCounted
<1> QED
  BY Bbr2Invariant, <1>1, PTL

\* No event exhausts the loop over the modes: its bound of four changes is
\* never what ends it.
THEOREM LoopAlwaysSettles == Spec => []ModeLoopSettles
<1>1. IInv => ModeLoopSettles
  BY DEF IInv, Settled, ModeLoopSettles
<1> QED
  BY Bbr2Invariant, <1>1, PTL

\* PROBE_UP is preceded by a packet sent in PROBE_REFILL, and PROBE_RTT ends
\* with a flight that was low for its duration.
THEOREM PhasesLast == Spec => []PhasesLastLongEnough
<1>1. IInv => PhasesLastLongEnough
  BY DEF IInv, Steady, RefillIsSent, ProbeRttIsTimed, PhasesLastLongEnough,
         RefillLastsARound, ProbeRttDrains
<1> QED
  BY Bbr2Invariant, <1>1, PTL

\* PROBE_RTT interrupts a flow only when no smaller RTT was seen and no
\* PROBE_RTT began for a whole period.
THEOREM ProbeRttWaitsItsPeriod == Spec => ProbeRttIsPeriodic
<1>1. IInv /\ [Next]_vars => [ProbeRttIsDue(bbr, bbr')]_vars
  BY StepKeepsInvariant
<1>2. Spec => [][ProbeRttIsDue(bbr, bbr')]_vars
  BY <1>1, Bbr2Invariant, PTL DEF Spec
<1> QED
  BY <1>2 DEF ProbeRttIsPeriodic, ProbeRttIsDue
=============================================================================
