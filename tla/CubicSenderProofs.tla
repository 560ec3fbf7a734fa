-------------------------- MODULE CubicSenderProofs --------------------------
(***************************************************************************)
(* What TcpCubicSenderBytes keeps to, for all sizes of packets and         *)
(* windows, all RTTs and any loss, reordering and timeout: the ranges of   *)
(* its fields, one cutback for the losses of one flight, and why the       *)
(* window moves.                                                           *)
(*                                                                         *)
(* Each part of the congestion event has a lemma of its own: what it keeps *)
(* of Sound, the state between events, and how it may move the window.     *)
(***************************************************************************)
EXTENDS CubicSender, WellFoundedInduction, TLAPS

MinWindow == MinCwnd * Mss
MaxWindow == MaxCwnd * Mss

Hystarts ==
  [started : BOOLEAN, found : BOOLEAN, round_end : Oldest .. 0,
   samples : 0 .. MinSamples, current_min_rtt : Rtts \cup {0}]

Epochs ==
  [age : None .. EpochTicks, estimated : Int, origin : Int, time_to_origin : Int]

Controllers ==
  [congestion_window : Windows,
   slowstart_threshold : MinWindow \div 2 .. MaxWindow,
   last_cutback : Oldest .. 0, in_recovery : BOOLEAN,
   hystart : Hystarts, epoch : Epochs, last_max : 0 .. MaxWindow,
   cut_at : Oldest .. 0, answered : BOOLEAN, cut_twice : BOOLEAN]

\* In slow start the window is a number of whole segments: one more segment
\* does not take it past the largest window.
SlowStartInSegments(c) ==
  InSlowStart(c) => \E k \in MinCwnd .. MaxCwnd : c.congestion_window = k * Mss

\* An epoch is of congestion avoidance.  Until the window is the largest one it
\* is not below the estimate of Reno's, and above it only on the curve.
EpochIsSound(c, least) ==
  c.epoch.age # None =>
    /\ c.epoch.estimated \in MinWindow .. MaxWindow + PacketSize
    /\ c.epoch.origin \in Windows
    /\ c.epoch.time_to_origin \in 0 .. MaxWindow
    /\ ~c.in_recovery
    /\ c.slowstart_threshold <= c.epoch.estimated
    /\ c.slowstart_threshold <= c.congestion_window
    /\ c.congestion_window # MaxWindow =>
         /\ c.epoch.estimated <= c.congestion_window
         /\ \/ c.congestion_window = c.epoch.estimated
            \/ c.congestion_window <= CubicTarget(c.epoch, least)

\* Until a later packet is acked the last cutback is the last cut, and no
\* packet after it has been echoed, so that none after it is found lost.
CutIsCovered(c, newest) ==
  /\ ~c.cut_twice
  /\ ~c.answered => c.last_cutback = c.cut_at /\ newest <= c.cut_at

Sound(c, least, newest) ==
  /\ c \in Controllers
  /\ SlowStartInSegments(c)
  /\ EpochIsSound(c, least)
  /\ CutIsCovered(c, newest)

Environment ==
  /\ min_rtt \in Rtts \cup {0}
  /\ in_flight \subseteq Oldest + 1 .. 0
  /\ sent \in 0 .. Reach
  /\ newly \in Oldest .. 0
  /\ rto \in BOOLEAN
  /\ gate \in Nat

IInv == Sound(cubic, min_rtt, newly) /\ Environment

----------------------------------------------------------------------------
(* Arithmetic.                                                             *)

\* The constants are numbers; a minimum window is two segments at least.
LEMMA Constants ==
  /\ Mss \in Nat \ {0}
  /\ PacketSize \in Nat \ {0}
  /\ Mss <= PacketSize /\ PacketSize \div 2 <= Mss
  /\ MinWindow \in Nat /\ MaxWindow \in Nat
  /\ InitialCwnd * Mss \in MinWindow .. MaxWindow
  /\ 2 * Mss <= MinWindow /\ MinWindow <= MaxWindow
  /\ Oldest \in Int /\ Oldest < 0
  /\ MinCwnd \in Nat /\ MaxCwnd \in Nat /\ InitialCwnd \in MinCwnd .. MaxCwnd
  /\ MinCwnd <= MaxCwnd
  /\ Rtts \subseteq Nat \ {0}
  /\ MinSamples \in Nat \ {0}
  /\ EpochTicks \in Nat
  /\ None = -1
<1>1. /\ Mss \in Nat \ {0} /\ PacketSize \in Nat /\ Mss <= PacketSize
      /\ PacketSize < 2 * Mss
      /\ MinCwnd \in Nat /\ 2 <= MinCwnd
      /\ InitialCwnd \in Nat /\ MinCwnd <= InitialCwnd
      /\ MaxCwnd \in Nat /\ InitialCwnd <= MaxCwnd
      /\ Reach \in Nat \ {0}
  BY CubicWindowAssumption
<1>2. \A a, b, s \in Nat : a <= b => a * s <= b * s
  OBVIOUS
<1>3. \A a, s \in Nat : a * s \in Nat
  OBVIOUS
<1>4. 2 * Mss <= MinWindow /\ MinWindow <= InitialCwnd * Mss /\ InitialCwnd * Mss <= MaxWindow
  BY <1>1, <1>2 DEF MinWindow, MaxWindow
<1>5. MinWindow \in Nat /\ MaxWindow \in Nat /\ InitialCwnd * Mss \in Nat
  BY <1>1, <1>3 DEF MinWindow, MaxWindow
<1>6. PacketSize \div 2 <= Mss
  BY <1>1
<1>7. Oldest \in Int /\ Oldest < 0 /\ None = -1
  BY <1>1 DEF Oldest, None
<1>8. /\ Rtts \subseteq Nat \ {0} /\ MinSamples \in Nat \ {0} /\ EpochTicks \in Nat
  BY CubicTimeAssumption
<1>9. PacketSize \in Nat \ {0}
  BY <1>1
<1> QED BY <1>1, <1>4, <1>5, <1>6, <1>7, <1>8, <1>9

\* The windows are numbers, and thresholds as well.
LEMMA WindowsAreNumbers ==
  ASSUME NEW w \in Windows
  PROVE  /\ w \in Nat /\ MinWindow <= w /\ w <= MaxWindow
         /\ w \in MinWindow \div 2 .. MaxWindow
<1>1. w \in MinWindow .. MaxWindow
  BY DEF Windows, MinWindow, MaxWindow
<1> QED BY <1>1, Constants

\* Cubes are in the order of their roots.
LEMMA CubeIsMonotone ==
  ASSUME NEW a \in Int, NEW b \in Int, a <= b
  PROVE  a * a * a <= b * b * b
<1>1. CASE 0 <= a
  <2>1. a * a <= b * b /\ 0 <= a * a
    BY <1>1
  <2> QED BY <2>1, <1>1
<1>2. CASE a < 0 /\ 0 <= b
  <2>1. a * a * a <= 0 
    BY <1>2
  <2>2. 0 <= b * b * b
    BY <1>2
  <2> QED BY <2>1, <2>2
<1>3. CASE b < 0
  <2>1. b * b <= a * a /\ 0 <= b * b
    BY <1>3
  <2>2. (-b) * (b * b) <= (-a) * (a * a)
    BY <1>3, <2>1
  <2> QED BY <2>2
<1> QED BY <1>1, <1>2, <1>3

\* A set of natural numbers has a least element.
LEMMA LeastOf ==
  ASSUME NEW S \in SUBSET Nat, S # {}
  PROVE  \E k \in S : \A j \in S : k <= j
<1>1. PICK k \in S : \A j \in S : <<j, k>> \notin OpToRel(<, Nat)
  BY NatLessThanWellFounded, WFMin
<1>2. ASSUME NEW j \in S, j < k PROVE FALSE
  BY <1>1, <1>2 DEF OpToRel
<1> QED BY <1>2

\* There is a cubic root, rounded down, for CubeRoot to choose.
LEMMA CubeRootExists ==
  ASSUME NEW n \in Nat
  PROVE  CubeRoot(n) \in 0 .. n
<1> DEFINE S == {k \in Nat : n < (k + 1) * (k + 1) * (k + 1)}
<1>1. n < (n + 1) * (n + 1) * (n + 1)
  <2>1. 1 <= (n + 1) * (n + 1)
    OBVIOUS
  <2>2. (n + 1) * 1 <= (n + 1) * ((n + 1) * (n + 1))
    BY <2>1
  <2> QED BY <2>2
<1>2. PICK k \in S : \A j \in S : k <= j
  <2>1. n \in S
    BY <1>1
  <2> QED BY <2>1, LeastOf
<1>3. k * k * k <= n
  <2>1. CASE k = 0
    BY <2>1
  <2>2. CASE k # 0
    <3>1. k - 1 \in Nat /\ k - 1 \notin S
      BY <1>2, <2>2
    <3>2. ~ n < ((k - 1) + 1) * ((k - 1) + 1) * ((k - 1) + 1)
      BY <3>1
    <3>3. (k - 1) + 1 = k
      OBVIOUS
    <3>4. k * k * k \in Nat
      OBVIOUS
    <3> QED BY <3>2, <3>3, <3>4
  <2> QED BY <2>1, <2>2
<1>4. k \in 0 .. n
  BY <1>1, <1>2
<1>5. k * k * k <= n /\ n < (k + 1) * (k + 1) * (k + 1)
  BY <1>2, <1>3
<1> QED BY <1>4, <1>5 DEF CubeRoot

\* The estimate of Reno's grows by less than half a packet for an ack.
LEMMA RenoGrowsByHalf ==
  ASSUME NEW estimated \in Nat, MinWindow <= estimated
  PROVE  (PacketSize * Alpha * Mss) \div (100 * estimated) \in 0 .. PacketSize \div 2
<1> DEFINE n == PacketSize * Alpha * Mss
           d == 100 * estimated
           q == n \div d
<1>1. n \in Nat /\ d \in Nat \ {0} /\ 200 * Mss <= d
  BY Constants DEF Alpha
<1>2. q \in Nat /\ q * d <= n
  <2> HIDE DEF n, d
  <2> QED BY <1>1 DEF q
<1>3. q * (200 * Mss) <= q * d
  <2> HIDE DEF n, q, d
  <2> QED BY <1>1, <1>2, Constants
<1>4. (200 * q) * Mss <= (97 * PacketSize) * Mss
  <2>1. n = (97 * PacketSize) * Mss
    BY Constants DEF Alpha
  <2> HIDE DEF n, q, d
  <2> QED BY <1>1, <1>2, <1>3, <2>1, Constants
<1>5. 200 * q <= 97 * PacketSize
  <2> HIDE DEF q
  <2>1. \A a, b, m \in Nat : m > 0 /\ a * m <= b * m => a <= b
    OBVIOUS
  <2> QED BY <1>2, <1>4, <2>1, Constants
<1>6. q \in 0 .. PacketSize \div 2
  <2> HIDE DEF q
  <2> QED BY <1>2, <1>5, Constants
<1> QED BY <1>6

----------------------------------------------------------------------------
(* The hybrid slow start.                                                  *)

\* Its state stays one.
LEMMA ShouldExitSlowStartKeeps ==
  ASSUME NEW h \in Hystarts, NEW latest \in Rtts, NEW least \in Rtts \cup {0},
         NEW window \in Nat
  PROVE  ShouldExitSlowStart(h, latest, least, window).hystart \in Hystarts
<1> DEFINE round == IF h.started THEN h ELSE StartReceiveRound(h)
           sampled == Sampled(round, latest)
           seen == Compared(sampled, round.samples, least)
<1>1. round \in Hystarts
  <2>1. 0 \in Oldest .. 0 /\ 0 \in 0 .. MinSamples /\ 0 \in Rtts \cup {0}
    BY Constants
  <2>2. StartReceiveRound(h) \in Hystarts
    BY <2>1 DEF Hystarts, StartReceiveRound
  <2> QED BY <2>2
<1>2. ASSUME NEW g \in Hystarts PROVE Sampled(g, latest) \in Hystarts
  <2>1. Smaller(g.current_min_rtt, latest) \in Rtts \cup {0}
    BY DEF Hystarts, Smaller
  <2>2. g.samples # MinSamples => g.samples + 1 \in 0 .. MinSamples
    BY Constants DEF Hystarts
  <2> QED BY <2>1, <2>2 DEF Sampled, Hystarts
<1>3. ASSUME NEW g \in Hystarts, NEW before PROVE Compared(g, before, least) \in Hystarts
  BY DEF Compared, Hystarts
<1>4. seen \in Hystarts
  <2> HIDE DEF round
  <2> QED BY <1>1, <1>2, <1>3
<1> HIDE DEF round, seen
<1>5. ShouldExitSlowStart(h, latest, least, window).hystart \in {round, seen}
  BY DEF ShouldExitSlowStart, round, seen, sampled
<1> QED BY <1>1, <1>4, <1>5

\* An event as the manager makes them.
IsEvent(e, least, newest) ==
  /\ e.acked \in (Oldest + 1 .. 0) \cup {NoPacket}
  /\ e.lost \subseteq Oldest + 1 .. 0
  /\ e.rtt_updated \in BOOLEAN
  /\ e.rtt_updated => e.latest \in Rtts
  /\ e.least \in Rtts \cup {0}
  \* losses are found by the newest echo
  /\ \A q \in e.lost : q < IF e.acked = NoPacket THEN newest ELSE e.acked
  /\ e.acked = NoPacket => e.least = least

\* Slow start may end here with the threshold at the window: an epoch is
\* not touched, for there is none in slow start.
LEMMA MaybeExitSlowstartKeeps ==
  ASSUME NEW c, NEW e, NEW least, NEW newest, NEW limit,
         Sound(c, least, limit), IsEvent(e, least, newest)
  PROVE  LET d == MaybeExitSlowstart(c, e)
         IN  /\ Sound(d, least, limit)
             /\ d = [c EXCEPT !.hystart = d.hystart,
                              !.slowstart_threshold = d.slowstart_threshold]
             /\ InSlowStart(d) => InSlowStart(c)
<1> DEFINE answer == ShouldExitSlowStart(c.hystart, e.latest, e.least, c.congestion_window)
           d == MaybeExitSlowstart(c, e)
<1>1. CASE ~e.rtt_updated \/ ~InSlowStart(c)
  <2>1. d = c
    BY <1>1 DEF MaybeExitSlowstart
  <2> QED BY <2>1 DEF Sound, Controllers
<1>2. CASE e.rtt_updated /\ InSlowStart(c)
  <2>1. c \in Controllers
    BY DEF Sound
  <2>2. answer.hystart \in Hystarts
    <3>1. c.hystart \in Hystarts /\ c.congestion_window \in Nat
      BY <2>1, Constants DEF Controllers, Windows, MinWindow, MaxWindow
    <3>2. e.latest \in Rtts /\ e.least \in Rtts \cup {0}
      BY <1>2 DEF IsEvent
    <3> QED BY <3>1, <3>2, ShouldExitSlowStartKeeps
  <2>3. d = [c EXCEPT !.hystart = answer.hystart,
                      !.slowstart_threshold = IF answer.exit THEN c.congestion_window ELSE @]
    BY <1>2 DEF MaybeExitSlowstart
  <2> HIDE DEF answer, d
  <2>4. c.epoch.age = None
    BY <1>2, <2>1, Constants DEF Sound, EpochIsSound, InSlowStart, Controllers, Windows,
          MinWindow, MaxWindow
  <2>5. d \in Controllers
    <3>1. c.congestion_window \in MinWindow \div 2 .. MaxWindow
      BY <2>1, WindowsAreNumbers DEF Controllers
    <3> QED BY <2>1, <2>2, <2>3, <3>1 DEF Controllers
  <2>6. /\ d.congestion_window = c.congestion_window /\ d.epoch = c.epoch
        /\ d.answered = c.answered /\ d.cut_twice = c.cut_twice
        /\ d.cut_at = c.cut_at /\ d.last_cutback = c.last_cutback
    BY <2>1, <2>3 DEF Controllers
  <2>7. Sound(d, least, limit)
    BY <1>2, <2>4, <2>5, <2>6 DEF Sound, SlowStartInSegments, EpochIsSound, CutIsCovered
  <2>8. d = [c EXCEPT !.hystart = d.hystart, !.slowstart_threshold = d.slowstart_threshold]
    BY <2>1, <2>3 DEF Controllers
  <2> QED BY <1>2, <2>7, <2>8 DEF d
<1>3. e.rtt_updated \in BOOLEAN
  BY DEF IsEvent
<1> QED BY <1>1, <1>2, <1>3

----------------------------------------------------------------------------
(* Losses.                                                                 *)

\* The controllers c and d differ in their slow start at most.
SameBesideHystart(c, d) ==
  /\ d.congestion_window = c.congestion_window
  /\ d.slowstart_threshold = c.slowstart_threshold
  /\ d.last_cutback = c.last_cutback /\ d.in_recovery = c.in_recovery
  /\ d.epoch = c.epoch
  /\ d.cut_at = c.cut_at /\ d.answered = c.answered /\ d.cut_twice = c.cut_twice

\* No part of Sound reads the state of HyStart.
LEMMA HystartIsApart ==
  ASSUME NEW c, NEW least, NEW limit, Sound(c, least, limit), NEW h \in Hystarts
  PROVE  LET d == [c EXCEPT !.hystart = h]
         IN  Sound(d, least, limit) /\ SameBesideHystart(c, d)
<1> DEFINE d == [c EXCEPT !.hystart = h]
<1>1. c \in Controllers
  BY DEF Sound
<1>2. d \in Controllers
  BY <1>1 DEF Controllers
<1>3. SameBesideHystart(c, d)
  BY <1>1 DEF Controllers, SameBesideHystart
<1> HIDE DEF d
<1>4. Sound(d, least, limit)
  BY <1>2, <1>3 DEF Sound, SameBesideHystart, SlowStartInSegments, InSlowStart,
     EpochIsSound, CutIsCovered
<1> QED BY <1>3, <1>4 DEF d

\* The newest echo after the event.
NewestAfter(e, newest) == IF e.acked = NoPacket THEN newest ELSE e.acked

\* The history of the last cut is kept as it stands: the echo of a packet after
\* it makes room for the next cut.
LEMMA NoteAnswerKeeps ==
  ASSUME NEW c, NEW e, NEW least, NEW newest \in Oldest .. 0,
         Sound(c, least, newest), IsEvent(e, least, newest)
  PROVE  LET d == NoteAnswer(c, e)
         IN  Sound(d, least, NewestAfter(e, newest)) /\ d = [c EXCEPT !.answered = d.answered]
<1> DEFINE d == NoteAnswer(c, e)
<1>1. c \in Controllers
  BY DEF Sound
<1>2. c.answered \in BOOLEAN /\ c.cut_at \in Int
  BY <1>1, Constants DEF Controllers
<1>3. d = [c EXCEPT !.answered = c.answered \/ (e.acked # NoPacket /\ e.acked > c.cut_at)]
  BY DEF NoteAnswer
<1> HIDE DEF d
<1>4. d \in Controllers
  BY <1>1, <1>2, <1>3 DEF Controllers
<1>5. /\ d.congestion_window = c.congestion_window
      /\ d.slowstart_threshold = c.slowstart_threshold
      /\ d.last_cutback = c.last_cutback /\ d.in_recovery = c.in_recovery
      /\ d.epoch = c.epoch
      /\ d.cut_at = c.cut_at /\ d.cut_twice = c.cut_twice
      /\ d.answered = (c.answered \/ (e.acked # NoPacket /\ e.acked > c.cut_at))
  BY <1>1, <1>3 DEF Controllers
<1>6. CutIsCovered(d, NewestAfter(e, newest))
  <2>1. e.acked \in Int
    BY Constants DEF IsEvent, NoPacket
  <2>2. ASSUME ~d.answered PROVE ~c.answered /\ (e.acked = NoPacket \/ e.acked <= c.cut_at)
    <3>1. ~c.answered /\ ~(e.acked # NoPacket /\ e.acked > c.cut_at)
      BY <1>5, <2>2
    <3> QED BY <1>2, <2>1, <3>1
  <2> QED BY <1>5, <2>2 DEF Sound, CutIsCovered, NewestAfter
<1>7. SlowStartInSegments(d) /\ EpochIsSound(d, least)
  BY <1>5 DEF Sound, SlowStartInSegments, InSlowStart, EpochIsSound
<1>8. d = [c EXCEPT !.answered = d.answered]
  BY <1>3, <1>5
<1> QED BY <1>4, <1>6, <1>7, <1>8 DEF Sound, d

\* A reduced window is one, and not larger.
LEMMA ReducedIsAWindow ==
  ASSUME NEW w \in Windows
  PROVE  Reduced(w) \in Windows /\ Reduced(w) <= w
<1>1. w \in Nat /\ MinWindow <= w /\ w <= MaxWindow
  BY WindowsAreNumbers
<1>2. Reduced(w) = Larger(MinWindow, (85 * w) \div 100)
  BY DEF Reduced, Beta, MinWindow
<1>3. Reduced(w) \in MinWindow .. MaxWindow /\ Reduced(w) <= w
  BY <1>1, <1>2, Constants DEF Larger
<1> QED BY <1>3 DEF Windows, MinWindow, MaxWindow

\* The window is cut only if a later packet than the last cut's was acked: the
\* losses of one flight are one event.
LEMMA OnPacketsLostKeeps ==
  ASSUME NEW c, NEW lost, NEW least, NEW limit \in Oldest .. 0,
         Sound(c, least, limit),
         \A q \in lost : q \in Int /\ q < limit
  PROVE  LET d == OnPacketsLost(c, lost)
         IN  /\ Sound(d, least, limit)
             /\ \/ d = c
                \/ /\ d.in_recovery /\ d.last_cutback = 0
                   /\ ~InSlowStart(d)
                   /\ d.congestion_window <= c.congestion_window
<1> DEFINE new == {q \in lost : q > c.last_cutback}
           packet == CHOOSE q \in new : \A r \in new : q <= r
           d == OnPacketsLost(c, lost)
<1>1. c \in Controllers
  BY DEF Sound
<1>2. CASE new = {}
  BY <1>2 DEF OnPacketsLost
<1>3. CASE new # {}
  <2>1. c.answered /\ ~c.cut_twice
    <3>1. c.cut_at \in Int /\ c.last_cutback \in Int /\ limit \in Int
      BY <1>1, Constants DEF Controllers
    <3> QED BY <1>3, <3>1 DEF Sound, CutIsCovered
  <2>2. d = Cutback(c, packet)
    BY <1>3 DEF OnPacketsLost
  <2> DEFINE w == Reduced(c.congestion_window)
             max == IF c.congestion_window + Mss < c.last_max
                      THEN BetaLastMax(c.congestion_window) ELSE c.congestion_window
  <2>3. w \in Windows /\ w <= c.congestion_window
    BY <1>1, ReducedIsAWindow DEF Controllers
  <2>4. max \in 0 .. MaxWindow
    <3>1. /\ c.congestion_window \in Nat /\ c.congestion_window <= MaxWindow
      BY <1>1, WindowsAreNumbers DEF Controllers
    <3> QED BY <3>1, Constants DEF BetaLastMax
  <2> DEFINE backed == BackOff(c)
             cut == CutWindow(backed)
             noted == NoteCut(cut)
  <2>5. NoEpoch \in Epochs /\ NoEpoch.age = None
    BY Constants DEF NoEpoch, Epochs
  <2>6. backed = [c EXCEPT !.last_max = max, !.epoch = NoEpoch]
    BY <1>1 DEF BackOff, Controllers
  <2>7. /\ backed \in Controllers
        /\ backed.congestion_window = c.congestion_window
        /\ backed.epoch = NoEpoch
        /\ backed.cut_twice = c.cut_twice /\ backed.answered = c.answered
    <3> HIDE DEF max, backed
    <3> QED BY <1>1, <2>4, <2>5, <2>6 DEF Controllers
  <2>8. /\ cut \in Controllers
        /\ cut.congestion_window = w /\ cut.slowstart_threshold = w
        /\ cut.epoch = NoEpoch
        /\ cut.cut_twice = c.cut_twice /\ cut.answered = c.answered
    <3>1. cut = [backed EXCEPT !.congestion_window = Reduced(@),
                               !.slowstart_threshold = Reduced(backed.congestion_window)]
      BY DEF CutWindow
    <3>2. w \in MinWindow \div 2 .. MaxWindow
      BY <2>3, WindowsAreNumbers
    <3> HIDE DEF cut, backed
    <3> QED BY <2>3, <2>7, <3>1, <3>2 DEF Controllers
  <2>9. /\ noted \in Controllers
        /\ noted.congestion_window = w /\ noted.slowstart_threshold = w
        /\ noted.epoch = NoEpoch
        /\ ~noted.cut_twice /\ noted.cut_at = 0
    <3>1. noted = [cut EXCEPT !.cut_twice = @ \/ ~cut.answered, !.answered = FALSE, !.cut_at = 0]
      BY DEF NoteCut
    <3>2. 0 \in Oldest .. 0
      BY Constants
    <3> HIDE DEF cut, noted
    <3> QED BY <2>1, <2>8, <3>1, <3>2 DEF Controllers
  <2>10. /\ d \in Controllers
         /\ d.congestion_window = w /\ d.slowstart_threshold = w
         /\ d.epoch = NoEpoch
         /\ ~d.cut_twice /\ d.cut_at = 0 /\ d.last_cutback = 0 /\ d.in_recovery
    <3>1. d = [noted EXCEPT !.last_cutback = 0, !.in_recovery = TRUE]
      BY <2>2 DEF Cutback
    <3>2. 0 \in Oldest .. 0
      BY Constants
    <3> HIDE DEF noted, d
    <3> QED BY <2>9, <3>1, <3>2 DEF Controllers
  <2> HIDE DEF d, w
  <2>11. ~InSlowStart(d)
    <3>1. w \in Nat
      BY <2>3, WindowsAreNumbers
    <3> QED BY <2>10, <3>1 DEF InSlowStart
  <2>12. Sound(d, least, limit)
    BY <2>5, <2>10, <2>11, Constants
       DEF Sound, SlowStartInSegments, EpochIsSound, CutIsCovered
  <2> QED BY <2>3, <2>10, <2>11, <2>12 DEF d
<1> QED BY <1>2, <1>3

----------------------------------------------------------------------------
(* Acks.                                                                   *)

\* An epoch begins with its estimate at the window.
LEMMA StartEpochKeeps ==
  ASSUME NEW c, NEW least, NEW limit, Sound(c, least, limit),
         c.epoch.age = None, ~InSlowStart(c), ~c.in_recovery
  PROVE  LET d == StartEpoch(c)
         IN  /\ Sound(d, least, limit)
             /\ d = [c EXCEPT !.epoch = d.epoch]
             /\ d.epoch.age # None
<1> DEFINE w == c.congestion_window
           root == IF c.last_max <= w THEN 0 ELSE CubeRoot(c.last_max - w)
           epoch == [age |-> 0, estimated |-> w, origin |-> Larger(c.last_max, w),
                     time_to_origin |-> root]
           d == StartEpoch(c)
<1>1. /\ c \in Controllers
      /\ w \in Nat /\ MinWindow <= w /\ w <= MaxWindow
      /\ c.last_max \in Nat /\ c.last_max <= MaxWindow
  <2>1. c \in Controllers
    BY DEF Sound
  <2>2. c.last_max \in 0 .. MaxWindow
    BY <2>1 DEF Controllers
  <2> QED BY <2>1, <2>2, WindowsAreNumbers, Constants DEF Controllers
<1>2. root \in 0 .. MaxWindow
  <2>1. CASE c.last_max <= w
    BY <1>1, <2>1, Constants
  <2>2. CASE ~(c.last_max <= w)
    <3>1. c.last_max - w \in Nat /\ c.last_max - w <= MaxWindow
      BY <1>1, <2>2, Constants
    <3>2. CubeRoot(c.last_max - w) \in 0 .. c.last_max - w
      BY <3>1, CubeRootExists
    <3> QED BY <2>2, <3>1, <3>2, Constants
  <2> QED BY <2>1, <2>2
<1>3. Larger(c.last_max, w) \in MinWindow .. MaxWindow
  BY <1>1, Constants DEF Larger
<1>4. d = [c EXCEPT !.epoch = epoch]
  BY DEF StartEpoch
<1>5. /\ epoch \in Epochs /\ epoch.age # None
      /\ epoch.estimated = w
      /\ epoch.origin \in Windows
      /\ epoch.time_to_origin \in 0 .. MaxWindow
  <2> HIDE DEF root
  <2> QED BY <1>1, <1>2, <1>3, Constants DEF Epochs, Windows, MinWindow, MaxWindow
<1> HIDE DEF epoch, d
<1>6. /\ d \in Controllers
      /\ d.congestion_window = w
      /\ d.slowstart_threshold = c.slowstart_threshold
      /\ d.last_cutback = c.last_cutback /\ d.in_recovery = c.in_recovery
      /\ d.cut_at = c.cut_at /\ d.answered = c.answered /\ d.cut_twice = c.cut_twice
      /\ d.epoch = epoch
  BY <1>1, <1>4, <1>5 DEF Controllers
<1>7. EpochIsSound(d, least)
  <2>1. d.slowstart_threshold <= w
    <3>1. c.slowstart_threshold \in Int
      BY <1>1, Constants DEF Controllers
    <3> QED BY <1>1, <1>6, <3>1 DEF InSlowStart
  <2>2. d.epoch.estimated \in MinWindow .. MaxWindow + PacketSize
    BY <1>1, <1>5, <1>6, Constants
  <2> QED BY <1>1, <1>5, <1>6, <2>1, <2>2 DEF EpochIsSound
<1>8. SlowStartInSegments(d) /\ CutIsCovered(d, limit)
  BY <1>6 DEF Sound, SlowStartInSegments, InSlowStart, CutIsCovered
<1> QED BY <1>4, <1>5, <1>6, <1>7, <1>8 DEF Sound, d

\* How far a window may move in an event that cuts nothing.
MayMove(c, d, before, least) ==
  /\ c.congestion_window < d.congestion_window =>
       /\ ~d.in_recovery
       /\ d.congestion_window - c.congestion_window <=
            IF InSlowStart(c) THEN Mss ELSE PacketSize \div 2
  /\ d.congestion_window < c.congestion_window =>
       /\ least < before
       /\ d.congestion_window >= d.epoch.estimated
  /\ InSlowStart(d) => InSlowStart(c)

\* The curve is where it was or higher as time passes, unless the min RTT goes
\* down.
LEMMA CurveRises ==
  ASSUME NEW epoch \in Epochs, NEW later \in Epochs,
         later.origin = epoch.origin, later.time_to_origin = epoch.time_to_origin,
         NEW before \in Nat, NEW least \in Nat,
         epoch.age + before <= later.age + least
  PROVE  /\ CubicTarget(epoch, before) \in Int /\ CubicTarget(later, least) \in Int
         /\ CubicTarget(epoch, before) <= CubicTarget(later, least)
<1> DEFINE m == epoch.age + before - epoch.time_to_origin
           n == later.age + least - later.time_to_origin
<1>1. /\ epoch.age \in Int /\ epoch.time_to_origin \in Int /\ epoch.origin \in Int
      /\ later.age \in Int
  BY Constants DEF Epochs
<1>2. m \in Int /\ n \in Int /\ m <= n
  BY <1>1
<1>3. CubicTarget(epoch, before) = epoch.origin + m * m * m
  BY DEF CubicTarget
<1>4. CubicTarget(later, least) = epoch.origin + n * n * n
  BY DEF CubicTarget
<1> HIDE DEF m, n
<1>5. m * m * m <= n * n * n
  BY <1>2, CubeIsMonotone
<1>6. m * m * m \in Int /\ n * n * n \in Int
  BY <1>2
<1> QED BY <1>1, <1>3, <1>4, <1>5, <1>6

\* CongestionWindowAfterAck in an epoch that has begun.
FollowCurve(c, least) ==
  LET estimated == c.epoch.estimated
                     + (PacketSize * Alpha * Mss) \div (100 * c.epoch.estimated)
      target == Smaller(CubicTarget(c.epoch, least),
                        c.congestion_window + PacketSize \div 2)
  IN  [c EXCEPT !.epoch.estimated = estimated,
                !.congestion_window = Smaller(MaxCwnd * Mss, Larger(target, estimated))]

\* In an epoch the window follows the curve by half of a packet at most, and
\* does not fall below the estimate of Reno's.
LEMMA FollowCurveKeeps ==
  ASSUME NEW c, NEW before \in Nat, NEW least \in Nat, NEW limit,
         Sound(c, before, limit), c.epoch.age # None,
         c.congestion_window < MaxWindow
  PROVE  LET d == FollowCurve(c, least)
         IN  /\ Sound(d, least, limit)
             /\ MayMove(c, d, before, least)
             /\ ~InSlowStart(d)
<1> DEFINE w == c.congestion_window
           curve == CubicTarget(c.epoch, least)
           growth == (PacketSize * Alpha * Mss) \div (100 * c.epoch.estimated)
           estimated == c.epoch.estimated + growth
           target == Smaller(curve, w + PacketSize \div 2)
           d == FollowCurve(c, least)
           epoch == [c.epoch EXCEPT !.estimated = estimated]
           window == Smaller(MaxWindow, Larger(target, estimated))
<1>1. /\ c \in Controllers
      /\ w \in Nat /\ MinWindow <= w /\ w < MaxWindow
      /\ c.epoch \in Epochs
      /\ c.slowstart_threshold \in Int
  <2>1. c \in Controllers
    BY DEF Sound
  <2> QED BY <2>1, WindowsAreNumbers, Constants DEF Controllers
<1>2. /\ c.epoch.estimated \in MinWindow .. MaxWindow + PacketSize
      /\ c.epoch.origin \in Windows
      /\ c.epoch.time_to_origin \in 0 .. MaxWindow
      /\ ~c.in_recovery
      /\ c.slowstart_threshold <= c.epoch.estimated
      /\ c.slowstart_threshold <= w
      /\ c.epoch.estimated <= w
      /\ w = c.epoch.estimated \/ w <= CubicTarget(c.epoch, before)
  BY <1>1 DEF Sound, EpochIsSound
<1>3. curve \in Int /\ CubicTarget(c.epoch, before) \in Int
  <2>1. c.epoch.age \in Int /\ c.epoch.time_to_origin \in Int /\ c.epoch.origin \in Int
    BY <1>1, Constants DEF Epochs
  <2> QED BY <2>1 DEF CubicTarget
<1>4. growth \in 0 .. PacketSize \div 2
  <2>1. c.epoch.estimated \in Nat /\ MinWindow <= c.epoch.estimated
    BY <1>2, Constants
  <2> QED BY <2>1, RenoGrowsByHalf
<1>5. c.epoch.estimated \in Nat /\ MinWindow <= c.epoch.estimated /\ c.epoch.estimated <= w
  BY <1>2, Constants
<1>6. d = [c EXCEPT !.epoch = epoch, !.congestion_window = window]
  BY <1>1 DEF Controllers, MaxWindow, FollowCurve
<1>7. estimated = c.epoch.estimated + growth
  OBVIOUS
<1>8. target = IF curve < w + PacketSize \div 2 THEN curve ELSE w + PacketSize \div 2
  BY DEF Smaller
<1> HIDE DEF growth, curve, estimated, target, d
<1>9. /\ estimated \in Nat /\ c.epoch.estimated <= estimated
      /\ estimated <= w + PacketSize \div 2
      /\ target \in Int /\ target <= curve /\ target <= w + PacketSize \div 2
  BY <1>1, <1>3, <1>4, <1>5, <1>7, <1>8, Constants
<1>10. /\ window \in Nat /\ MinWindow <= window /\ window <= MaxWindow
       /\ c.slowstart_threshold <= window
       /\ window <= w + PacketSize \div 2
       /\ window # MaxWindow => /\ estimated <= window
                                /\ window = estimated \/ window <= curve
  BY <1>1, <1>2, <1>5, <1>9, Constants DEF Smaller, Larger
<1>11. epoch \in Epochs
  BY <1>1, <1>9 DEF Epochs
<1>12. /\ epoch.age = c.epoch.age /\ epoch.origin = c.epoch.origin
       /\ epoch.time_to_origin = c.epoch.time_to_origin
       /\ epoch.estimated = estimated
  BY <1>1 DEF Epochs
<1>13. CubicTarget(epoch, least) = curve
  BY <1>12 DEF CubicTarget, curve
<1> HIDE DEF epoch, window
<1>14. /\ d \in Controllers
       /\ d.congestion_window = window
       /\ d.slowstart_threshold = c.slowstart_threshold
       /\ d.last_cutback = c.last_cutback /\ d.in_recovery = c.in_recovery
       /\ d.cut_at = c.cut_at /\ d.answered = c.answered /\ d.cut_twice = c.cut_twice
       /\ d.epoch = epoch
  <2>1. window \in Windows
    BY <1>10, Constants DEF Windows, MinWindow, MaxWindow
  <2> QED BY <1>1, <1>6, <1>11, <2>1 DEF Controllers
<1>15. EpochIsSound(d, least)
  <2>1. estimated \in MinWindow .. MaxWindow + PacketSize
    BY <1>1, <1>5, <1>9, Constants
  <2>2. c.slowstart_threshold <= estimated
    BY <1>1, <1>2, <1>5, <1>9
  <2> QED BY <1>2, <1>10, <1>12, <1>13, <1>14, <2>1, <2>2 DEF EpochIsSound
<1>16. ~InSlowStart(d) /\ ~InSlowStart(c)
  BY <1>1, <1>2, <1>10, <1>14 DEF InSlowStart
<1>17. Sound(d, least, limit)
  BY <1>14, <1>15, <1>16 DEF Sound, SlowStartInSegments, CutIsCovered
<1>18. ASSUME window < w PROVE least < before /\ window >= estimated
  <2>1. window # MaxWindow /\ estimated <= window
    BY <1>1, <1>10, <1>18
  <2>2. w <= CubicTarget(c.epoch, before)
    BY <1>1, <1>2, <1>5, <1>9, <1>10, <1>18, <2>1
  <2>3. curve < w
    <3>1. target <= window
      BY <1>1, <1>9, <2>1, Constants DEF window, Smaller, Larger
    <3>2. target < w
      BY <1>1, <1>9, <1>10, <1>18, <3>1
    <3> QED BY <1>1, <1>3, <1>8, <3>2, Constants
  <2>4. ~(before <= least)
    <3>1. before <= least => c.epoch.age + before <= c.epoch.age + least
      BY <1>1, Constants DEF Epochs
    <3> QED BY <1>1, <1>3, <2>2, <2>3, <3>1, CurveRises DEF curve
  <2> QED BY <1>9, <1>10, <2>1, <2>4
<1>19. MayMove(c, d, before, least)
  <2>1. window - w <= PacketSize \div 2
    BY <1>1, <1>10, Constants
  <2> QED BY <1>2, <1>12, <1>14, <1>16, <1>18, <2>1 DEF MayMove
<1> QED BY <1>16, <1>17, <1>19 DEF d

\* What an ack outside of recovery does to the window.
LEMMA MaybeIncreaseCwndKeeps ==
  ASSUME NEW c, NEW e, NEW before \in Nat, NEW limit,
         Sound(c, before, limit), ~c.in_recovery, e.least \in Nat
  PROVE  LET d == MaybeIncreaseCwnd(c, e)
         IN  Sound(d, e.least, limit) /\ MayMove(c, d, before, e.least)
<1> DEFINE w == c.congestion_window
           d == MaybeIncreaseCwnd(c, e)
<1>1. /\ c \in Controllers
      /\ w \in Nat /\ MinWindow <= w /\ w <= MaxWindow
      /\ c.slowstart_threshold \in Int /\ c.slowstart_threshold <= MaxWindow
  <2>1. c \in Controllers
    BY DEF Sound
  <2> QED BY <2>1, WindowsAreNumbers, Constants DEF Controllers
<1>2. CASE ~IsCwndLimited(c, e.prior)
  <2>1. d = [c EXCEPT !.epoch = NoEpoch]
    BY <1>2 DEF MaybeIncreaseCwnd
  <2>2. NoEpoch \in Epochs /\ NoEpoch.age = None
    BY Constants DEF NoEpoch, Epochs
  <2> HIDE DEF d
  <2>3. /\ d \in Controllers
        /\ d.congestion_window = w
        /\ d.slowstart_threshold = c.slowstart_threshold
        /\ d.last_cutback = c.last_cutback /\ d.in_recovery = c.in_recovery
        /\ d.cut_at = c.cut_at /\ d.answered = c.answered /\ d.cut_twice = c.cut_twice
        /\ d.epoch.age = None
    BY <1>1, <2>1, <2>2 DEF Controllers
  <2>4. Sound(d, e.least, limit)
    BY <2>3 DEF Sound, SlowStartInSegments, InSlowStart, EpochIsSound, CutIsCovered
  <2>5. MayMove(c, d, before, e.least)
    BY <1>1, <2>3 DEF MayMove, InSlowStart
  <2> QED BY <2>4, <2>5 DEF d
<1>3. CASE IsCwndLimited(c, e.prior) /\ w >= MaxWindow
  <2>1. d = c
    BY <1>3 DEF MaybeIncreaseCwnd, MaxWindow
  <2>2. Sound(c, e.least, limit)
    BY <1>1, <1>3, Constants DEF Sound, EpochIsSound
  <2>3. MayMove(c, c, before, e.least)
    BY <1>1 DEF MayMove
  <2> QED BY <2>1, <2>2, <2>3
<1>4. CASE IsCwndLimited(c, e.prior) /\ w < MaxWindow /\ InSlowStart(c)
  <2>1. d = [c EXCEPT !.congestion_window = @ + Mss]
    BY <1>1, <1>4, Constants DEF MaybeIncreaseCwnd, MaxWindow
  <2>2. PICK k \in MinCwnd .. MaxCwnd : w = k * Mss
    BY <1>4 DEF Sound, SlowStartInSegments
  <2>3. k + 1 \in MinCwnd .. MaxCwnd
    <3>1. k # MaxCwnd
      BY <1>1, <1>4, <2>2 DEF MaxWindow
    <3> QED BY <3>1, Constants
  <2>4. w + Mss = (k + 1) * Mss
    BY <2>2, Constants
  <2>5. w + Mss \in Windows
    <3>1. (k + 1) * Mss <= MaxCwnd * Mss
      <4>1. \A a, b, m \in Nat : a <= b => a * m <= b * m
        OBVIOUS
      <4> QED BY <2>3, <4>1, Constants
    <3>2. w + Mss \in Nat /\ MinWindow <= w + Mss /\ w + Mss <= MaxWindow
      BY <1>1, <2>4, <3>1, Constants DEF MaxWindow
    <3> QED BY <3>2, Constants DEF Windows, MinWindow, MaxWindow
  <2> HIDE DEF d
  <2>6. /\ d \in Controllers
        /\ d.congestion_window = w + Mss
        /\ d.slowstart_threshold = c.slowstart_threshold
        /\ d.last_cutback = c.last_cutback /\ d.in_recovery = c.in_recovery
        /\ d.cut_at = c.cut_at /\ d.answered = c.answered /\ d.cut_twice = c.cut_twice
        /\ d.epoch = c.epoch
    BY <1>1, <2>1, <2>5 DEF Controllers
  <2>7. c.epoch.age = None
    BY <1>1, <1>4 DEF Sound, EpochIsSound, InSlowStart
  <2>8. Sound(d, e.least, limit)
    BY <2>3, <2>4, <2>6, <2>7 DEF Sound, SlowStartInSegments, EpochIsSound, CutIsCovered
  <2>9. MayMove(c, d, before, e.least)
    BY <1>1, <1>4, <2>6, Constants DEF MayMove
  <2> QED BY <2>8, <2>9 DEF d
<1>5. CASE IsCwndLimited(c, e.prior) /\ w < MaxWindow /\ ~InSlowStart(c)
  <2> DEFINE started == IF c.epoch.age = None THEN StartEpoch(c) ELSE c
  <2>1. /\ Sound(started, before, limit)
        /\ started.epoch.age # None
        /\ started.congestion_window = w
        /\ started.slowstart_threshold = c.slowstart_threshold
    <3>1. CASE c.epoch.age = None
      <4>1. /\ Sound(started, before, limit)
            /\ started.epoch.age # None
            /\ started = [c EXCEPT !.epoch = started.epoch]
        BY <1>5, <3>1, StartEpochKeeps
      <4> HIDE DEF started
      <4> QED BY <1>1, <4>1 DEF Controllers
    <3>2. CASE c.epoch.age # None
      BY <3>2
    <3>3. 0 \in Nat
      OBVIOUS
    <3> QED BY <3>1, <3>2, <3>3, Zenon
  <2>2. d = FollowCurve(started, e.least)
    <3>1. d = CongestionWindowAfterAck(c, e.least)
      BY <1>1, <1>5, Constants DEF MaybeIncreaseCwnd, MaxWindow
    <3> HIDE DEF d
    <3> QED BY <2>1, <3>1 DEF CongestionWindowAfterAck, FollowCurve
  <2> HIDE DEF started, d
  <2>5. Sound(d, e.least, limit) /\ MayMove(started, d, before, e.least) /\ ~InSlowStart(d)
    BY <1>5, <2>1, <2>2, FollowCurveKeeps
  <2>6. MayMove(c, d, before, e.least)
    BY <2>1, <2>5 DEF MayMove, InSlowStart
  <2> QED BY <2>5, <2>6 DEF d
<1> QED BY <1>1, <1>2, <1>3, <1>4, <1>5, Constants

\* In recovery an ack moves nothing; it is over with the ack of a packet sent
\* after the cutback.
LEMMA OnPacketAckedKeeps ==
  ASSUME NEW c, NEW e, NEW before \in Nat, NEW limit,
         Sound(c, before, limit), e.least \in Nat, e.acked \in Oldest + 1 .. 0
  PROVE  LET d == OnPacketAcked(c, e)
         IN  /\ Sound(d, e.least, limit)
             /\ MayMove(c, d, before, e.least)
             /\ c.in_recovery /\ c.last_cutback = 0 =>
                  /\ d.in_recovery /\ d.last_cutback = 0
                  /\ d.congestion_window = c.congestion_window
                  /\ d.slowstart_threshold = c.slowstart_threshold
<1> DEFINE acked == [c EXCEPT !.in_recovery = @ /\ e.acked <= c.last_cutback]
           grown == MaybeIncreaseCwnd(acked, e)
           d == OnPacketAcked(c, e)
<1>1. /\ c \in Controllers
      /\ c.in_recovery \in BOOLEAN
      /\ c.congestion_window \in Nat
      /\ c.slowstart_threshold \in Int
  <2>1. c \in Controllers
    BY DEF Sound
  <2> QED BY <2>1, WindowsAreNumbers, Constants DEF Controllers
<1>2. /\ acked \in Controllers
      /\ acked.congestion_window = c.congestion_window
      /\ acked.slowstart_threshold = c.slowstart_threshold
      /\ acked.last_cutback = c.last_cutback
      /\ acked.cut_at = c.cut_at /\ acked.answered = c.answered
      /\ acked.cut_twice = c.cut_twice
      /\ acked.epoch = c.epoch
      /\ acked.in_recovery = (c.in_recovery /\ e.acked <= c.last_cutback)
  <2>1. (c.in_recovery /\ e.acked <= c.last_cutback) \in BOOLEAN
    OBVIOUS
  <2> QED BY <1>1, <2>1 DEF Controllers
<1> HIDE DEF acked
<1>3. Sound(acked, before, limit)
  BY <1>2 DEF Sound, SlowStartInSegments, InSlowStart, EpochIsSound, CutIsCovered
<1>4. c.in_recovery /\ c.last_cutback = 0 => acked.in_recovery
  <2>1. e.acked <= 0
    BY Constants
  <2> QED BY <1>2, <2>1
<1>5. CASE acked.in_recovery
  <2>1. d = acked
    BY <1>5 DEF OnPacketAcked, acked
  <2>2. acked.epoch.age = None
    BY <1>3, <1>5 DEF Sound, EpochIsSound
  <2>3. Sound(acked, e.least, limit)
    BY <1>3, <2>2 DEF Sound, EpochIsSound
  <2>4. MayMove(c, acked, before, e.least)
    BY <1>1, <1>2 DEF MayMove, InSlowStart
  <2> QED BY <1>2, <1>5, <2>1, <2>3, <2>4
<1>6. CASE ~acked.in_recovery
  <2>1. Sound(grown, e.least, limit) /\ MayMove(acked, grown, before, e.least)
    BY <1>3, <1>6, MaybeIncreaseCwndKeeps
  <2>2. d = EndRound(grown, e.acked)
    BY <1>6 DEF OnPacketAcked, acked
  <2> HIDE DEF grown, d
  <2> DEFINE h == [grown.hystart EXCEPT !.started = FALSE]
  <2>3. d = grown \/ d = [grown EXCEPT !.hystart = h]
    BY <2>2 DEF EndRound
  <2>4. h \in Hystarts
    <3>1. grown.hystart \in Hystarts
      BY <2>1 DEF Sound, Controllers
    <3> QED BY <3>1 DEF Hystarts
  <2> HIDE DEF h
  <2>5. Sound(d, e.least, limit) /\ SameBesideHystart(grown, d)
    <3>1. SameBesideHystart(grown, grown)
      BY DEF SameBesideHystart
    <3> QED BY <2>1, <2>3, <2>4, <3>1, HystartIsApart
  <2>6. MayMove(c, d, before, e.least)
    BY <1>2, <2>1, <2>5 DEF MayMove, SameBesideHystart, InSlowStart
  <2> QED BY <1>4, <1>6, <2>5, <2>6 DEF d
<1> QED BY <1>5, <1>6

\* The window moves in an event as the manager makes them.
Moves(c, d, before, least) ==
  \/ MayMove(c, d, before, least)
  \/ /\ d.congestion_window <= c.congestion_window
     /\ d.in_recovery /\ d.last_cutback = 0
     /\ ~InSlowStart(d)

\* A congestion event: losses first, then the ack.
LEMMA OnCongestionEventKeeps ==
  ASSUME NEW c, NEW e, NEW least \in Rtts \cup {0}, NEW newest \in Oldest .. 0,
         Sound(c, least, newest), IsEvent(e, least, newest)
  PROVE  LET d == OnCongestionEvent(c, e)
         IN  Sound(d, e.least, NewestAfter(e, newest)) /\ Moves(c, d, least, e.least)
<1> DEFINE limit == NewestAfter(e, newest)
           noted == NoteAnswer(c, e)
           exited == MaybeExitSlowstart(noted, e)
           reduced == OnPacketsLost(exited, e.lost)
           moved == IF e.acked = NoPacket THEN reduced ELSE OnPacketAcked(reduced, e)
           d == OnCongestionEvent(c, e)
<1>1. /\ least \in Nat /\ e.least \in Nat
      /\ limit \in Oldest .. 0
      /\ e.acked # NoPacket => e.acked \in Oldest + 1 .. 0
      /\ \A q \in e.lost : q \in Int /\ q < limit
  <2>1. least \in Nat /\ e.least \in Nat
    <3>1. Rtts \subseteq Nat
      BY Constants
    <3>2. e.least \in Rtts \cup {0}
      BY DEF IsEvent
    <3>3. 0 \in Nat
      OBVIOUS
    <3> QED BY <3>1, <3>2, <3>3, Zenon
  <2>2. e.acked # NoPacket => e.acked \in Oldest + 1 .. 0
    BY DEF IsEvent
  <2>3. limit \in Oldest .. 0
    BY <2>2, Constants DEF NewestAfter
  <2>4. \A q \in e.lost : q \in Int /\ q < limit
    BY Constants DEF IsEvent, NewestAfter
  <2> QED BY <2>1, <2>2, <2>3, <2>4
<1>2. /\ c \in Controllers
      /\ c.congestion_window \in Nat
      /\ c.slowstart_threshold \in Int
  <2>1. c \in Controllers
    BY DEF Sound
  <2> QED BY <2>1, WindowsAreNumbers, Constants DEF Controllers
<1>3. /\ Sound(noted, least, limit)
      /\ noted.congestion_window = c.congestion_window
      /\ noted.slowstart_threshold = c.slowstart_threshold
  <2>1. Sound(noted, least, limit) /\ noted = [c EXCEPT !.answered = noted.answered]
    BY NoteAnswerKeeps
  <2> HIDE DEF noted
  <2> QED BY <1>2, <2>1 DEF Controllers
<1>4. /\ Sound(exited, least, limit)
      /\ exited.congestion_window = c.congestion_window
      /\ InSlowStart(exited) => InSlowStart(c)
  <2>1. /\ Sound(exited, least, limit)
        /\ exited = [noted EXCEPT !.hystart = exited.hystart,
                                  !.slowstart_threshold = exited.slowstart_threshold]
        /\ InSlowStart(exited) => InSlowStart(noted)
    BY <1>3, MaybeExitSlowstartKeeps
  <2>2. noted \in Controllers
    BY <1>3 DEF Sound
  <2> HIDE DEF noted, exited
  <2>3. exited.congestion_window = noted.congestion_window
    BY <2>1, <2>2 DEF Controllers
  <2> QED BY <1>3, <2>1, <2>3 DEF InSlowStart
<1>5. /\ Sound(reduced, least, limit)
      /\ \/ reduced = exited
         \/ /\ reduced.in_recovery /\ reduced.last_cutback = 0
            /\ ~InSlowStart(reduced)
            /\ reduced.congestion_window <= exited.congestion_window
  <2> HIDE DEF limit, exited
  <2> QED BY <1>1, <1>4, OnPacketsLostKeeps
<1> HIDE DEF limit, noted, exited, reduced
<1>6. /\ reduced.congestion_window \in Nat
      /\ reduced.slowstart_threshold \in Int
      /\ exited.congestion_window \in Nat
      /\ exited.slowstart_threshold \in Int
  <2>1. reduced \in Controllers /\ exited \in Controllers
    BY <1>4, <1>5 DEF Sound
  <2> QED BY <2>1, WindowsAreNumbers, Constants DEF Controllers
<1>7. Sound(moved, e.least, limit) /\ Moves(c, moved, least, e.least)
  <2>1. CASE e.acked = NoPacket
    <3>1. moved = reduced /\ e.least = least
      BY <2>1 DEF IsEvent
    <3>2. CASE reduced = exited
      <4>1. MayMove(c, reduced, least, least)
        BY <1>2, <1>4, <1>6, <3>2 DEF MayMove
      <4> QED BY <1>5, <3>1, <4>1 DEF Moves
    <3>3. CASE reduced # exited
      BY <1>4, <1>5, <3>1, <3>3 DEF Moves
    <3> QED BY <3>2, <3>3
  <2>2. CASE e.acked # NoPacket
    <3>1. moved = OnPacketAcked(reduced, e)
      BY <2>2
    <3>2. /\ Sound(moved, e.least, limit)
          /\ MayMove(reduced, moved, least, e.least)
          /\ reduced.in_recovery /\ reduced.last_cutback = 0 =>
               /\ moved.in_recovery /\ moved.last_cutback = 0
               /\ moved.congestion_window = reduced.congestion_window
               /\ moved.slowstart_threshold = reduced.slowstart_threshold
      BY <1>1, <1>5, <2>2, <3>1, OnPacketAckedKeeps
    <3>3. CASE reduced = exited
      <4>1. moved.congestion_window \in Nat
        BY <3>2, WindowsAreNumbers DEF Sound, Controllers
      <4>2. PacketSize \div 2 <= Mss /\ Mss \in Nat /\ PacketSize \div 2 \in Int
        BY Constants
      <4> HIDE DEF moved
      <4>3. MayMove(c, moved, least, e.least)
        BY <1>2, <1>4, <3>2, <3>3, <4>1, <4>2 DEF MayMove
      <4> QED BY <3>2, <4>3 DEF Moves
    <3>4. CASE reduced # exited
      <4> HIDE DEF moved
      <4> QED BY <1>4, <1>5, <3>2, <3>4 DEF Moves, InSlowStart
    <3> QED BY <3>3, <3>4
  <2> QED BY <2>1, <2>2
<1>8. d = Settled(moved)
  BY DEF OnCongestionEvent, moved, reduced, exited, noted
<1> HIDE DEF d, moved
<1>9. Sound(d, e.least, limit) /\ SameBesideHystart(moved, d)
  <2>1. IdleHystart \in Hystarts
    BY Constants DEF IdleHystart, Hystarts
  <2>2. d = moved \/ d = [moved EXCEPT !.hystart = IdleHystart]
    BY <1>8 DEF Settled
  <2>3. d = moved => SameBesideHystart(moved, d)
    BY DEF SameBesideHystart
  <2> QED BY <1>7, <2>1, <2>2, <2>3, HystartIsApart
<1>10. Moves(c, d, least, e.least)
  BY <1>7, <1>9 DEF Moves, MayMove, SameBesideHystart, InSlowStart
<1> QED BY <1>9, <1>10 DEF d, limit

\* An answered timeout: slow start begins with the least window.
LEMMA OnRetransmissionTimeoutKeeps ==
  ASSUME NEW c, NEW least, NEW newest, Sound(c, least, newest), NEW limit
  PROVE  LET d == OnRetransmissionTimeout(c)
         IN  Sound(d, least, limit) /\ d.congestion_window <= c.congestion_window
<1> DEFINE w == c.congestion_window
           d == OnRetransmissionTimeout(c)
<1>1. /\ c \in Controllers
      /\ w \in Nat /\ MinWindow <= w /\ w <= MaxWindow
  <2>1. c \in Controllers
    BY DEF Sound
  <2> QED BY <2>1, WindowsAreNumbers DEF Controllers
<1>2. /\ IdleHystart \in Hystarts /\ NoEpoch \in Epochs /\ NoEpoch.age = None
      /\ Oldest \in Oldest .. 0 /\ 0 \in 0 .. MaxWindow
  BY Constants DEF IdleHystart, Hystarts, NoEpoch, Epochs
<1>3. /\ MinWindow \in Windows /\ MinWindow <= w
      /\ w \div 2 \in MinWindow \div 2 .. MaxWindow
  BY <1>1, Constants DEF Windows, MinWindow, MaxWindow
<1>4. d = [c EXCEPT !.last_cutback = Oldest, !.in_recovery = FALSE,
                    !.hystart = IdleHystart, !.epoch = NoEpoch, !.last_max = 0,
                    !.slowstart_threshold = w \div 2,
                    !.congestion_window = MinWindow,
                    !.cut_at = Oldest, !.answered = TRUE]
  BY DEF OnRetransmissionTimeout, MinWindow
<1> HIDE DEF d
<1>5. /\ d \in Controllers
      /\ d.congestion_window = MinWindow
      /\ d.epoch = NoEpoch /\ d.answered /\ d.cut_twice = c.cut_twice
  BY <1>1, <1>2, <1>3, <1>4 DEF Controllers
<1>6. SlowStartInSegments(d)
  BY <1>5, Constants DEF SlowStartInSegments, MinWindow
<1>7. EpochIsSound(d, least)
  BY <1>2, <1>5 DEF EpochIsSound
<1>8. CutIsCovered(d, limit)
  BY <1>5 DEF Sound, CutIsCovered
<1> QED BY <1>3, <1>5, <1>6, <1>7, <1>8 DEF Sound, d

----------------------------------------------------------------------------
(* The steps.                                                              *)

\* What WindowMovesAreJustified and SlowStartOnlyAfterTimeout ask of a step.
WindowMove ==
  /\ cubic.congestion_window < cubic'.congestion_window =>
       /\ ~cubic'.in_recovery
       /\ cubic'.congestion_window - cubic.congestion_window <=
            IF InSlowStart(cubic) THEN Mss ELSE PacketSize \div 2
  /\ cubic'.congestion_window < cubic.congestion_window =>
       \/ cubic'.in_recovery /\ cubic'.last_cutback = 0
       \/ /\ min_rtt' < min_rtt
          /\ cubic'.congestion_window >= cubic'.epoch.estimated
       \/ rto /\ ~rto'

SlowStartBegins == ~InSlowStart(cubic) /\ InSlowStart(cubic') => rto /\ ~rto'

\* Windows and thresholds are numbers.
LEMMA FieldsAreNumbers ==
  ASSUME IInv
  PROVE  /\ cubic.congestion_window \in Nat
         /\ MinWindow <= cubic.congestion_window
         /\ cubic.slowstart_threshold \in Int
         /\ cubic \in Controllers
<1>1. cubic \in Controllers
  BY DEF IInv, Sound
<1> QED BY <1>1, WindowsAreNumbers, Constants DEF Controllers

\* Neither window nor threshold moves.
LEMMA NoMove ==
  ASSUME IInv,
         cubic'.congestion_window = cubic.congestion_window,
         cubic'.slowstart_threshold = cubic.slowstart_threshold
  PROVE  WindowMove /\ SlowStartBegins
BY FieldsAreNumbers DEF WindowMove, SlowStartBegins, InSlowStart

\* A move of a congestion event is one.
LEMMA EventMoves ==
  ASSUME IInv, Moves(cubic, cubic', min_rtt, min_rtt'), cubic'.congestion_window \in Nat
  PROVE  WindowMove /\ SlowStartBegins
<1>1. CASE MayMove(cubic, cubic', min_rtt, min_rtt')
  BY <1>1 DEF MayMove, WindowMove, SlowStartBegins
<1>2. CASE ~MayMove(cubic, cubic', min_rtt, min_rtt')
  BY <1>2, FieldsAreNumbers DEF Moves, WindowMove, SlowStartBegins
<1> QED BY <1>1, <1>2

\* Packets found lost are numbers below the limit.
LEMMA LossesAreBelow ==
  ASSUME NEW limit \in Oldest .. 0, NEW lost \in LossesBefore(limit),
         in_flight \subseteq Oldest + 1 .. 0
  PROVE  /\ lost \subseteq in_flight
         /\ lost \subseteq Oldest + 1 .. 0
         /\ \A q \in lost : q < limit
<1>1. PICK k \in Oldest + 1 .. limit : lost = {q \in in_flight : q < k}
  BY DEF LossesBefore
<1>2. lost \subseteq in_flight
  BY <1>1
<1>3. \A q \in lost : q < k /\ q \in Int
  BY <1>1, Constants
<1>4. k \in Int /\ k <= limit
  BY Constants
<1>5. limit \in Int
  BY Constants
<1> QED BY <1>2, <1>3, <1>4, <1>5

\* The echo of a packet, in flight or not: OnCongestionEvent with the min RTT
\* and the largest acked packet the echo leaves behind.
LEMMA EchoKeeps ==
  ASSUME IInv, NEW p \in Oldest + 1 .. 0, NEW settled, NEW lost \in LossesBefore(p),
         NEW rtt_updated \in BOOLEAN, NEW latest,
         rtt_updated => latest \in Rtts,
         Echo(p, settled, lost, rtt_updated, latest)
  PROVE  IInv' /\ WindowMove /\ SlowStartBegins
<1> DEFINE least == IF ~rtt_updated THEN min_rtt
                    ELSE IF min_rtt = 0 THEN latest ELSE Smaller(min_rtt, latest)
           e == Event(p, lost, rtt_updated, latest, least)
           acked == OnCongestionEvent(cubic, e)
<1>1. /\ min_rtt \in Rtts \cup {0}
      /\ in_flight \subseteq Oldest + 1 .. 0
      /\ newly \in Oldest .. 0
      /\ rto \in BOOLEAN
      /\ Sound(cubic, min_rtt, newly)
  BY DEF IInv, Environment
<1>2. least \in Rtts \cup {0}
  BY <1>1 DEF Smaller
<1>3. p \in Oldest .. 0 /\ p # NoPacket
  BY Constants DEF NoPacket
<1>4. lost \subseteq Oldest + 1 .. 0 /\ \A q \in lost : q < p
  BY <1>1, <1>3, LossesAreBelow
<1>5. /\ e.acked = p /\ e.lost = lost /\ e.rtt_updated = rtt_updated
      /\ e.latest = latest /\ e.least = least
  BY DEF Event
<1>6. /\ cubic' = IF rtt_updated /\ rto THEN OnRetransmissionTimeout(acked) ELSE acked
      /\ min_rtt' = least
      /\ rto' = (rto /\ ~rtt_updated)
      /\ gate' = cubic'.congestion_window \div PacketSize
      /\ newly' = p
      /\ in_flight' = in_flight \ (lost \cup settled)
      /\ sent' = sent
  BY DEF Echo
<1> HIDE DEF e, least
<1>7. IsEvent(e, min_rtt, newly)
  BY <1>2, <1>3, <1>4, <1>5 DEF IsEvent
<1>8. NewestAfter(e, newly) = p
  BY <1>3, <1>5 DEF NewestAfter
<1>9. Sound(acked, least, p) /\ Moves(cubic, acked, min_rtt, least)
  BY <1>1, <1>5, <1>7, <1>8, OnCongestionEventKeeps
<1> HIDE DEF acked
<1>10. acked.congestion_window \in Nat
  BY <1>9, WindowsAreNumbers DEF Sound, Controllers
<1>11. Sound(cubic', least, p) /\ WindowMove /\ SlowStartBegins
  <2>1. CASE rtt_updated /\ rto
    <3>1. cubic' = OnRetransmissionTimeout(acked)
      BY <1>6, <2>1
    <3>2. Sound(cubic', least, p)
      BY <1>9, <3>1, OnRetransmissionTimeoutKeeps
    <3>3. rto /\ ~rto'
      BY <1>6, <2>1
    <3>4. cubic'.congestion_window = MinWindow
      BY <1>9, <3>1 DEF Sound, Controllers, OnRetransmissionTimeout, MinWindow
    <3>5. ~(cubic.congestion_window < cubic'.congestion_window)
      BY <3>4, FieldsAreNumbers, Constants
    <3> QED BY <3>2, <3>3, <3>5 DEF WindowMove, SlowStartBegins
  <2>2. CASE ~(rtt_updated /\ rto)
    <3>1. cubic' = acked
      BY <1>6, <2>2
    <3> QED BY <1>6, <1>9, <1>10, <3>1, EventMoves
  <2> QED BY <2>1, <2>2
<1>12. gate' \in Nat
  <2>1. cubic'.congestion_window \in Nat
    BY <1>11, WindowsAreNumbers DEF Sound, Controllers
  <2> QED BY <1>6, <2>1, Constants
<1>13. Environment'
  <2>1. in_flight' \subseteq Oldest + 1 .. 0 /\ sent' \in 0 .. Reach
    BY <1>6 DEF IInv, Environment
  <2> QED BY <1>1, <1>2, <1>3, <1>6, <1>12, <2>1 DEF Environment
<1>14. Sound(cubic', min_rtt', newly')
  BY <1>6, <1>11
<1> QED BY <1>11, <1>13, <1>14 DEF IInv

\* The echo of a packet in flight, or of one that has left it.
LEMMA AckKeeps ==
  ASSUME IInv, NEW p \in Oldest + 1 .. 0, OnAck(p) \/ OnLateAck(p)
  PROVE  IInv' /\ WindowMove /\ SlowStartBegins
<1>1. CASE OnAck(p)
  <2>1. PICK lost \in LossesBefore(p), latest \in Rtts : Echo(p, {p}, lost, TRUE, latest)
    BY <1>1 DEF OnAck
  <2> QED BY <2>1, EchoKeeps
<1>2. CASE OnLateAck(p)
  <2>1. PICK lost \in LossesBefore(p), settled \in SettledByLate(p) :
          Echo(p, settled, lost, FALSE, 0)
    BY <1>2 DEF OnLateAck
  <2> QED BY <2>1, EchoKeeps
<1> QED BY <1>1, <1>2

\* The loss timer reports losses that no echo uncovered.
LEMMA OnLossTimeoutKeeps ==
  ASSUME IInv, OnLossTimeout PROVE IInv' /\ WindowMove /\ SlowStartBegins
<1>1. /\ min_rtt \in Rtts \cup {0}
      /\ in_flight \subseteq Oldest + 1 .. 0
      /\ newly \in Oldest .. 0
      /\ Sound(cubic, min_rtt, newly)
  BY DEF IInv, Environment
<1>2. PICK lost \in LossesBefore(newly) :
        /\ cubic' = OnCongestionEvent(cubic, Event(NoPacket, lost, FALSE, 0, min_rtt))
        /\ in_flight' = in_flight \ lost
  BY DEF OnLossTimeout
<1>3. UNCHANGED <<min_rtt, sent, newly, rto, gate>>
  BY DEF OnLossTimeout
<1> DEFINE e == Event(NoPacket, lost, FALSE, 0, min_rtt)
<1>4. lost \subseteq Oldest + 1 .. 0 /\ \A q \in lost : q < newly
  BY <1>1, LossesAreBelow
<1>5. /\ e.acked = NoPacket /\ e.lost = lost /\ e.rtt_updated = FALSE
      /\ e.least = min_rtt
  BY DEF Event
<1> HIDE DEF e
<1>6. IsEvent(e, min_rtt, newly)
  BY <1>1, <1>4, <1>5 DEF IsEvent
<1>7. NewestAfter(e, newly) = newly
  BY <1>5 DEF NewestAfter
<1>8. Sound(cubic', min_rtt, newly) /\ Moves(cubic, cubic', min_rtt, min_rtt)
  BY <1>1, <1>2, <1>5, <1>6, <1>7, OnCongestionEventKeeps DEF e
<1>9. cubic'.congestion_window \in Nat
  BY <1>8, WindowsAreNumbers DEF Sound, Controllers
<1>10. WindowMove /\ SlowStartBegins
  BY <1>3, <1>8, <1>9, EventMoves
<1>11. Environment'
  BY <1>1, <1>2, <1>3 DEF IInv, Environment
<1> QED BY <1>3, <1>8, <1>10, <1>11 DEF IInv

\* Positions only fall behind, and in the order they have.
LEMMA PositionsFall ==
  /\ \A p \in Oldest .. 0 : Position(p) \in Oldest .. 0
  /\ \A p, q \in Oldest .. 0 : p <= q => Position(p) <= Position(q)
BY Constants DEF Position, Larger

\* OnPacketSent counts every packet number back by one.
LEMMA OnPacketSentKeeps ==
  ASSUME IInv, OnPacketSent PROVE IInv' /\ WindowMove /\ SlowStartBegins
<1> DEFINE hystart == [cubic.hystart EXCEPT !.round_end = Position(@)]
<1>1. /\ cubic \in Controllers
      /\ cubic.hystart \in Hystarts
      /\ cubic.last_cutback \in Oldest .. 0 /\ cubic.cut_at \in Oldest .. 0
      /\ newly \in Oldest .. 0
      /\ in_flight \subseteq Oldest + 1 .. 0
      /\ Oldest + 1 \notin in_flight
      /\ sent \in 0 .. Reach
  BY DEF IInv, Sound, Controllers, Environment, OnPacketSent
<1>2. /\ cubic' = [cubic EXCEPT !.last_cutback = Position(cubic.last_cutback),
                                !.cut_at = Position(cubic.cut_at), !.hystart = hystart]
      /\ newly' = Position(newly)
      /\ in_flight' = {p - 1 : p \in in_flight} \cup {0}
      /\ sent' = Smaller(sent + 1, Reach)
      /\ UNCHANGED <<min_rtt, rto, gate>>
  BY <1>1 DEF OnPacketSent, Controllers
<1>3. hystart \in Hystarts
  <2>1. cubic.hystart.round_end \in Oldest .. 0
    BY <1>1 DEF Hystarts
  <2>2. Position(cubic.hystart.round_end) \in Oldest .. 0
    BY <2>1, PositionsFall
  <2> QED BY <1>1, <2>2 DEF Hystarts
<1> HIDE DEF hystart
<1>4. /\ Position(cubic.last_cutback) \in Oldest .. 0
      /\ Position(cubic.cut_at) \in Oldest .. 0
      /\ newly' \in Oldest .. 0
  BY <1>1, <1>2, PositionsFall
<1>5. /\ cubic' \in Controllers
      /\ cubic'.congestion_window = cubic.congestion_window
      /\ cubic'.slowstart_threshold = cubic.slowstart_threshold
      /\ cubic'.in_recovery = cubic.in_recovery
      /\ cubic'.epoch = cubic.epoch
      /\ cubic'.answered = cubic.answered /\ cubic'.cut_twice = cubic.cut_twice
      /\ cubic'.last_cutback = Position(cubic.last_cutback)
      /\ cubic'.cut_at = Position(cubic.cut_at)
  BY <1>1, <1>2, <1>3, <1>4 DEF Controllers
<1>6. CutIsCovered(cubic', newly')
  <2>1. newly <= cubic.cut_at => newly' <= cubic'.cut_at
    BY <1>1, <1>2, <1>5, PositionsFall
  <2> QED BY <1>5, <2>1 DEF IInv, Sound, CutIsCovered
<1>7. SlowStartInSegments(cubic') /\ EpochIsSound(cubic', min_rtt')
  BY <1>2, <1>5 DEF IInv, Sound, SlowStartInSegments, InSlowStart, EpochIsSound
<1>8. Environment'
  <2>1. in_flight' \subseteq Oldest + 1 .. 0
    <3>1. \A p \in in_flight : p \in Int /\ Oldest + 1 <= p /\ p <= 0 /\ p # Oldest + 1
      BY <1>1, Constants
    <3>2. \A p \in in_flight : p - 1 \in Oldest + 1 .. 0
      BY <3>1, Constants
    <3>3. 0 \in Oldest + 1 .. 0
      BY Constants
    <3> QED BY <1>2, <3>2, <3>3
  <2>2. sent' \in 0 .. Reach
    <3>1. Reach \in Nat
      BY CubicWindowAssumption
    <3> QED BY <1>1, <1>2, <3>1 DEF Smaller
  <2> QED BY <1>2, <1>4, <2>1, <2>2 DEF IInv, Environment
<1>9. WindowMove /\ SlowStartBegins
  BY <1>5, NoMove
<1> QED BY <1>5, <1>6, <1>7, <1>8, <1>9 DEF IInv, Sound

\* The controller is not told of the timeout.
LEMMA RetransmitRtoPacketsKeeps ==
  ASSUME IInv, RetransmitRtoPackets PROVE IInv' /\ WindowMove /\ SlowStartBegins
<1>1. UNCHANGED <<cubic, min_rtt, sent, newly, gate>> /\ in_flight' = {} /\ rto' = TRUE
  BY DEF RetransmitRtoPackets
<1>2. WindowMove /\ SlowStartBegins
  BY <1>1, NoMove
<1> QED BY <1>1, <1>2 DEF IInv, Environment

\* Time moves the epoch on, and the curve up.
LEMMA TickKeeps ==
  ASSUME IInv, Tick PROVE IInv' /\ WindowMove /\ SlowStartBegins
<1> DEFINE age == IF cubic.epoch.age = None THEN None
                  ELSE Smaller(cubic.epoch.age + 1, EpochTicks)
           epoch == [cubic.epoch EXCEPT !.age = age]
<1>1. /\ cubic \in Controllers /\ cubic.epoch \in Epochs
      /\ cubic.epoch.age \in None .. EpochTicks
      /\ cubic.congestion_window \in Nat
      /\ min_rtt \in Nat
  <2>1. cubic \in Controllers
    BY DEF IInv, Sound
  <2>2. min_rtt \in Nat
    <3>1. Rtts \subseteq Nat /\ 0 \in Nat
      BY Constants
    <3> QED BY <3>1 DEF IInv, Environment
  <2> QED BY <2>1, <2>2, WindowsAreNumbers DEF Controllers, Epochs
<1>2. /\ cubic' = [cubic EXCEPT !.epoch = epoch]
      /\ UNCHANGED <<min_rtt, in_flight, sent, newly, rto, gate>>
  BY <1>1 DEF Tick, Controllers
<1>3. /\ age \in None .. EpochTicks
      /\ age = None <=> cubic.epoch.age = None
      /\ cubic.epoch.age <= age
  BY <1>1, Constants DEF Smaller
<1> HIDE DEF age
<1>4. /\ epoch \in Epochs
      /\ epoch.age = age
      /\ epoch.estimated = cubic.epoch.estimated
      /\ epoch.origin = cubic.epoch.origin
      /\ epoch.time_to_origin = cubic.epoch.time_to_origin
  BY <1>1, <1>3 DEF Epochs
<1> HIDE DEF epoch
<1>5. /\ cubic' \in Controllers
      /\ cubic'.congestion_window = cubic.congestion_window
      /\ cubic'.slowstart_threshold = cubic.slowstart_threshold
      /\ cubic'.in_recovery = cubic.in_recovery
      /\ cubic'.last_cutback = cubic.last_cutback /\ cubic'.cut_at = cubic.cut_at
      /\ cubic'.answered = cubic.answered /\ cubic'.cut_twice = cubic.cut_twice
      /\ cubic'.epoch = epoch
  BY <1>1, <1>2, <1>4 DEF Controllers
<1>6. /\ CubicTarget(cubic.epoch, min_rtt) <= CubicTarget(epoch, min_rtt)
      /\ CubicTarget(cubic.epoch, min_rtt) \in Int /\ CubicTarget(epoch, min_rtt) \in Int
  <2>1. cubic.epoch.age + min_rtt <= epoch.age + min_rtt
    BY <1>1, <1>3, <1>4, Constants
  <2> QED BY <1>1, <1>4, <2>1, CurveRises
<1>7. EpochIsSound(cubic', min_rtt')
  <2>1. cubic.congestion_window <= CubicTarget(cubic.epoch, min_rtt) =>
          cubic.congestion_window <= CubicTarget(epoch, min_rtt)
    BY <1>1, <1>6
  <2> QED BY <1>2, <1>3, <1>4, <1>5, <2>1 DEF IInv, Sound, EpochIsSound
<1>8. SlowStartInSegments(cubic') /\ CutIsCovered(cubic', newly')
  BY <1>2, <1>5 DEF IInv, Sound, SlowStartInSegments, InSlowStart, CutIsCovered
<1>9. Environment'
  BY <1>2 DEF IInv, Environment
<1>10. WindowMove /\ SlowStartBegins
  BY <1>5, NoMove
<1> QED BY <1>5, <1>7, <1>8, <1>9, <1>10 DEF IInv, Sound

----------------------------------------------------------------------------

\* A connection starts in slow start.
LEMMA InitEstablishes == Init => IInv
<1> SUFFICES ASSUME Init PROVE IInv
  OBVIOUS
<1>1. /\ IdleHystart \in Hystarts /\ NoEpoch \in Epochs /\ NoEpoch.age = None
      /\ Oldest \in Oldest .. 0 /\ 0 \in 0 .. MaxWindow
      /\ MaxWindow \in MinWindow \div 2 .. MaxWindow
  BY Constants DEF IdleHystart, Hystarts, NoEpoch, Epochs
<1>2. InitialCwnd * Mss \in Windows
  BY Constants DEF Windows, MinWindow, MaxWindow
<1>3. cubic \in Controllers
  BY <1>1, <1>2 DEF Init, Controllers, MaxWindow
<1>4. SlowStartInSegments(cubic)
  BY Constants DEF Init, SlowStartInSegments
<1>5. EpochIsSound(cubic, min_rtt) /\ CutIsCovered(cubic, newly)
  BY <1>1 DEF Init, EpochIsSound, CutIsCovered
<1>6. Environment
  <2>1. Reach \in Nat /\ InitialGate \in Nat
    BY CubicWindowAssumption, CubicTimeAssumption
  <2>2. Oldest \in Oldest .. 0 /\ 0 \in 0 .. Reach
    BY <2>1, Constants
  <2>3. /\ min_rtt = 0 /\ in_flight = {} /\ sent = 0 /\ newly = Oldest
        /\ rto = FALSE /\ gate = InitialGate
    BY DEF Init
  <2> QED BY <2>1, <2>2, <2>3 DEF Environment
<1> QED BY <1>3, <1>4, <1>5, <1>6 DEF IInv, Sound

\* Every step keeps the invariant, and moves the window for a reason.
LEMMA NextPreserves == IInv /\ [Next]_vars => IInv' /\ WindowMove /\ SlowStartBegins
<1> SUFFICES ASSUME IInv, [Next]_vars PROVE IInv' /\ WindowMove /\ SlowStartBegins
  OBVIOUS
<1>1. CASE OnPacketSent
  BY <1>1, OnPacketSentKeeps
<1>2. CASE \E p \in Oldest + 1 .. 0 : OnAck(p) \/ OnLateAck(p)
  BY <1>2, AckKeeps
<1>3. CASE OnLossTimeout
  BY <1>3, OnLossTimeoutKeeps
<1>4. CASE RetransmitRtoPackets
  BY <1>4, RetransmitRtoPacketsKeeps
<1>5. CASE Tick
  BY <1>5, TickKeeps
<1>6. CASE UNCHANGED vars
  <2>1. UNCHANGED <<cubic, min_rtt, in_flight, sent, newly, rto, gate>>
    BY <1>6 DEF vars
  <2>2. WindowMove /\ SlowStartBegins
    BY <2>1, NoMove
  <2> QED BY <2>1, <2>2 DEF IInv, Environment
<1> QED BY <1>1, <1>2, <1>3, <1>4, <1>5, <1>6 DEF Next

\* The strengthened invariant of the controller and what it is called with.
THEOREM CubicInvariant == Spec => []IInv
<1>1. IInv /\ [Next]_vars => IInv'
  BY NextPreserves
<1> QED BY <1>1, InitEstablishes, PTL DEF Spec

\* The window stays between its limits, and an epoch's estimate is never the
\* zero that CongestionWindowAfterAck would divide by.
THEOREM CubicTypeCorrect == Spec => []TypeOK
<1>1. IInv => TypeOK
  BY DEF IInv, Sound, Environment, TypeOK, Controllers, Hystarts, Epochs, EpochIsSound,
         MinWindow, MaxWindow
<1> QED BY <1>1, CubicInvariant, PTL

\* The losses of one flight cut the window once (OnPacketLost), however they are
\* spread over events, timers and late echoes.
THEOREM CutsAreOnePerRound == Spec => []OneCutbackPerRound
<1>1. IInv => OneCutbackPerRound
  BY DEF IInv, Sound, CutIsCovered, OneCutbackPerRound
<1> QED BY <1>1, CubicInvariant, PTL

\* The window grows by half of what was acked at most after slow start, and
\* falls only for a cutback, a timeout or a shorter min RTT.
THEOREM WindowMovesForAReason == Spec => WindowMovesAreJustified
<1>1. IInv /\ [Next]_vars => [WindowMove]_vars
  BY NextPreserves
<1>2. Spec => [][WindowMove]_vars
  BY <1>1, CubicInvariant, PTL DEF Spec
<1> QED BY <1>2 DEF WindowMovesAreJustified, WindowMove

\* Slow start comes back only when a timeout is answered.
THEOREM SlowStartNeedsTimeout == Spec => SlowStartOnlyAfterTimeout
<1>1. IInv /\ [Next]_vars => [SlowStartBegins]_vars
  BY NextPreserves
<1>2. Spec => [][SlowStartBegins]_vars
  BY <1>1, CubicInvariant, PTL DEF Spec
<1> QED BY <1>2 DEF SlowStartOnlyAfterTimeout, SlowStartBegins

=============================================================================
