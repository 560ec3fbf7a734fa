------------------------ MODULE WindowedFilterProofs ------------------------
(***************************************************************************)
(* The windowed filter keeps ranked estimates, each a bound of the samples *)
(* reported after it, the best of them fresh, for every window length and  *)
(* every set of samples.                                                   *)
(*                                                                         *)
(* The invariants are inductive together: that the second best may replace *)
(* an expired best needs it to bound what came after it, and that it keeps *)
(* the ranks needs the new sample to have been ranked before.              *)
(***************************************************************************)
EXTENDS WindowedFilter, TLAPS

\* Every estimate was taken by the time of the last update.
EstimatesArePast == \A i \in 1 .. 3 : estimates[i].time <= last_update

RecordedIsPast == \A r \in recorded : r.time <= last_update

IInv == /\ TypeOK
        /\ EstimatesArePast
        /\ RecordedIsPast
        /\ EstimatesAreRanked
        /\ EstimatesBoundLaterSamples
        /\ BestIsFresh

Triples == [1 .. 3 -> Samples]

RankedTriple(e) ==
  /\ e[1].sample >= e[2].sample
  /\ e[2].sample >= e[3].sample
  /\ e[1].time <= e[2].time
  /\ e[2].time <= e[3].time

BoundsLater(e, known) ==
  \A i \in 1 .. 3 : \A r \in known :
    r.time > e[i].time => r.sample <= e[i].sample

----------------------------------------------------------------------------

\* A sample is a record of its value and its round.
LEMMA SampleType ==
  ASSUME NEW value \in SampleValues, NEW when \in 0 .. MaxTime
  PROVE  /\ Sample(value, when) \in Samples
         /\ Sample(value, when).sample = value
         /\ Sample(value, when).time = when
  BY DEF Sample, Samples

\* The fields of samples are integers.
LEMMA SampleFields == \A s \in Samples : s.sample \in Int /\ s.time \in Int
<1> TAKE s \in Samples
<1>1. s.sample \in SampleValues /\ s.time \in 0 .. MaxTime
  BY DEF Samples
<1>2. s.sample \in Nat
  BY <1>1, ValuesAssumption
<1>3. s.time \in Nat
  BY <1>1, TimeAssumption
<1> QED BY <1>2, <1>3

\* The ranks of a triple, pair by pair.
LEMMA RankedPairs ==
  ASSUME NEW e \in Triples,
         RankedTriple(e)
  PROVE  \A i, j \in 1 .. 3 :
           i < j => e[i].sample >= e[j].sample /\ e[i].time <= e[j].time
<1>1. \A i \in 1 .. 3 : e[i].sample \in Int /\ e[i].time \in Int
  BY SampleFields DEF Triples
<1>2. TAKE i, j \in 1 .. 3
<1>3. HAVE i < j
<1>4. \/ i = 1 /\ j = 2
      \/ i = 1 /\ j = 3
      \/ i = 2 /\ j = 3
  BY <1>3
<1> QED BY <1>1, <1>4 DEF RankedTriple

\* Ranking a sample below the best keeps the ranks, the bounds, the best and
\* the freshness of the third; afterwards the sample is not above the third.
LEMMA RankedKeeps ==
  ASSUME NEW e \in Triples, NEW s \in Samples, NEW known \in SUBSET Samples,
         RankedTriple(e), BoundsLater(e, known),
         \A i \in 1 .. 3 : e[i].time <= s.time,
         \A r \in known : r.time <= s.time,
         ~StartsAfresh(e, s)
  PROVE  LET f == Ranked(e, s)
         IN  /\ f \in Triples
             /\ f[1] = e[1]
             /\ RankedTriple(f)
             /\ BoundsLater(f, known \cup {s})
             /\ \A i \in 1 .. 3 : f[i].time <= s.time
             /\ f[3].sample >= s.sample
             /\ ~Expired(f[3], s.time)
<1> DEFINE f == Ranked(e, s)
<1>1. /\ \A i \in 1 .. 3 : e[i] \in Samples /\ e[i].sample \in Int /\ e[i].time \in Int
      /\ s.sample \in Int /\ s.time \in Int /\ WindowLength \in Nat
  BY SampleFields, WindowAssumption DEF Triples
<1>2. \A r \in known : r.sample \in Int /\ r.time \in Int
  BY SampleFields
<1>3. s.sample < e[1].sample /\ ~Expired(e[3], s.time)
  BY <1>1 DEF StartsAfresh
<1>4. ~Expired(s, s.time)
  BY <1>1 DEF Expired
<1>5. CASE s.sample >= e[2].sample
  <2>1. f = <<e[1], s, s>>
    BY <1>5 DEF Ranked
  <2>2. /\ f \in Triples /\ f[1] = e[1] /\ f[2] = s /\ f[3] = s
    BY <1>1, <2>1 DEF Triples
  <2>3. RankedTriple(f)
    BY <1>1, <1>3, <2>2 DEF RankedTriple
  <2>4. BoundsLater(f, known \cup {s})
    BY <1>1, <1>2, <1>3, <2>2 DEF BoundsLater
  <2> QED BY <1>1, <1>4, <2>2, <2>3, <2>4
<1>6. CASE s.sample < e[2].sample /\ s.sample >= e[3].sample
  <2>1. f = <<e[1], e[2], s>>
    BY <1>1, <1>6 DEF Ranked
  <2>2. /\ f \in Triples /\ f[1] = e[1] /\ f[2] = e[2] /\ f[3] = s
    BY <1>1, <2>1 DEF Triples
  <2>3. RankedTriple(f)
    BY <1>1, <1>6, <2>2 DEF RankedTriple
  <2>4. BoundsLater(f, known \cup {s})
    BY <1>1, <1>2, <1>3, <1>6, <2>2 DEF BoundsLater
  <2> QED BY <1>1, <1>4, <2>2, <2>3, <2>4
<1>7. CASE s.sample < e[2].sample /\ s.sample < e[3].sample
  <2>1. f = e
    BY <1>1, <1>7 DEF Ranked
  <2>2. BoundsLater(f, known \cup {s})
    BY <1>1, <1>2, <1>3, <1>7, <2>1 DEF BoundsLater
  <2> QED BY <1>1, <1>3, <1>7, <2>1, <2>2
<1> QED BY <1>1, <1>5, <1>6, <1>7

\* One update keeps the ranks and the bounds and leaves a fresh best.
LEMMA UpdatedKeeps ==
  ASSUME NEW e \in Triples, NEW s \in Samples, NEW known \in SUBSET Samples,
         RankedTriple(e), BoundsLater(e, known),
         \A i \in 1 .. 3 : e[i].time <= s.time,
         \A r \in known : r.time <= s.time
  PROVE  LET g == Updated(e, s)
         IN  /\ g \in Triples
             /\ RankedTriple(g)
             /\ BoundsLater(g, known \cup {s})
             /\ \A i \in 1 .. 3 : g[i].time <= s.time
             /\ ~Expired(g[1], s.time)
<1> DEFINE f == Ranked(e, s)
           g == Updated(e, s)
<1>1. s.sample \in Int /\ s.time \in Int /\ WindowLength \in Nat
  BY SampleFields, WindowAssumption
<1>2. \A r \in known : r.sample \in Int /\ r.time \in Int
  BY SampleFields
<1>3. ~Expired(s, s.time)
  BY <1>1 DEF Expired
<1>4. CASE StartsAfresh(e, s)
  <2>1. g = <<s, s, s>>
    BY <1>4 DEF Updated, ResetTo
  <2>2. g \in Triples /\ g[1] = s /\ g[2] = s /\ g[3] = s
    BY <2>1 DEF Triples
  <2>3. BoundsLater(g, known \cup {s})
    BY <1>1, <1>2, <2>2 DEF BoundsLater
  <2> QED BY <1>1, <1>3, <2>2, <2>3 DEF RankedTriple
<1>5. CASE ~StartsAfresh(e, s)
  <2>1. /\ f \in Triples /\ f[1] = e[1] /\ RankedTriple(f)
        /\ BoundsLater(f, known \cup {s})
        /\ \A i \in 1 .. 3 : f[i].time <= s.time
        /\ f[3].sample >= s.sample
        /\ ~Expired(f[3], s.time)
    BY <1>5, RankedKeeps
  <2>2. \A i \in 1 .. 3 : f[i] \in Samples /\ f[i].sample \in Int /\ f[i].time \in Int
    BY <2>1, SampleFields DEF Triples
  <2> HIDE DEF f
  <2>3. CASE Expired(e[1], s.time)
    <3> DEFINE p == Promoted(f, s)
    <3>1. p = <<f[2], f[3], s>> /\ p[1] = f[2] /\ p[2] = f[3] /\ p[3] = s
      BY DEF Promoted
    <3>2. g = IF Expired(f[2], s.time) THEN <<f[3], s, s>> ELSE p
      BY <1>5, <2>3, <3>1 DEF Updated, PromotedTwice, f
    <3>3. CASE Expired(f[2], s.time)
      <4>1. g \in Triples /\ g[1] = f[3] /\ g[2] = s /\ g[3] = s
        BY <2>2, <3>2, <3>3 DEF Triples
      <4>2. BoundsLater(g, known \cup {s})
        BY <1>1, <1>2, <2>1, <2>2, <4>1 DEF BoundsLater
      <4>3. RankedTriple(g)
        BY <1>1, <2>1, <2>2, <4>1 DEF RankedTriple
      <4>4. (\A i \in 1 .. 3 : g[i].time <= s.time) /\ ~Expired(g[1], s.time)
        <5> HIDE DEF g
        <5> QED BY <1>1, <2>1, <4>1
      <4> QED BY <4>1, <4>2, <4>3, <4>4
    <3>4. CASE ~Expired(f[2], s.time)
      <4>1. g \in Triples /\ g[1] = f[2] /\ g[2] = f[3] /\ g[3] = s
        BY <2>2, <3>1, <3>2, <3>4 DEF Triples
      <4>2. BoundsLater(g, known \cup {s})
        BY <1>1, <1>2, <2>1, <2>2, <4>1 DEF BoundsLater
      <4>3. RankedTriple(g)
        BY <1>1, <2>1, <2>2, <4>1 DEF RankedTriple
      <4>4. (\A i \in 1 .. 3 : g[i].time <= s.time) /\ ~Expired(g[1], s.time)
        <5> HIDE DEF g
        <5> QED BY <1>1, <2>1, <3>4, <4>1
      <4> QED BY <4>1, <4>2, <4>3, <4>4
    <3> QED BY <3>3, <3>4
  <2>4. CASE ~Expired(e[1], s.time)
    <3>1. g = Spread(f, s)
      BY <1>5, <2>4 DEF Updated, f
    <3>2. \/ g = <<f[1], s, s>>
          \/ g = <<f[1], f[2], s>>
          \/ g = f
      BY <3>1 DEF Spread
    <3>3. /\ g \in Triples /\ g[1] = f[1]
          /\ g[2] = f[2] \/ g[2] = s
          /\ g[3] = s \/ (g[2] = f[2] /\ g[3] = f[3])
      BY <2>1, <2>2, <3>2 DEF Triples
    <3>4. BoundsLater(g, known \cup {s})
      BY <1>1, <1>2, <2>1, <2>2, <3>3 DEF BoundsLater
    <3>5. RankedTriple(g)
      <4> HIDE DEF g
      <4> QED BY <1>1, <2>1, <2>2, <3>3 DEF RankedTriple
    <3>6. (\A i \in 1 .. 3 : g[i].time <= s.time) /\ ~Expired(g[1], s.time)
      <4> HIDE DEF g
      <4> QED BY <1>1, <2>1, <2>2, <2>4, <3>3
    <3> QED BY <3>3, <3>4, <3>5, <3>6
  <2> QED BY <2>3, <2>4
<1> QED BY <1>4, <1>5

----------------------------------------------------------------------------

\* The invariants as statements about the triple of estimates.
LEMMA RanksAsTriple ==
  ASSUME IInv
  PROVE  /\ estimates \in Triples
         /\ RankedTriple(estimates)
         /\ BoundsLater(estimates, recorded)
  BY DEF IInv, TypeOK, Triples, RankedTriple, BoundsLater,
         EstimatesAreRanked, EstimatesBoundLaterSamples

LEMMA InitEstablishes == Init => IInv
<1> SUFFICES ASSUME Init PROVE IInv
  OBVIOUS
<1>1. 0 \in 0 .. MaxTime
  BY TimeAssumption
<1>2. /\ Sample(ZeroValue, 0) \in Samples
      /\ Sample(ZeroValue, 0).sample = 0
      /\ Sample(ZeroValue, 0).time = 0
  BY <1>1, ValuesAssumption, SampleType DEF ZeroValue
<1>3. /\ estimates \in Triples
      /\ \A i \in 1 .. 3 : estimates[i] = Sample(ZeroValue, 0)
  BY <1>2 DEF Init, ResetTo, Triples
<1> QED BY <1>1, <1>2, <1>3, WindowAssumption
        DEF Init, IInv, TypeOK, EstimatesArePast, RecordedIsPast, Triples,
            EstimatesAreRanked, EstimatesBoundLaterSamples, BestIsFresh

\* A new sample: UpdatedKeeps, from the last update to this one.
LEMMA UpdatePreserves ==
  ASSUME IInv, NEW value \in SampleValues, Update(value)
  PROVE  IInv'
<1> DEFINE s == Sample(value, time)
<1>1. time \in 0 .. MaxTime /\ last_update \in 0 .. time /\ recorded \in SUBSET Samples
  BY DEF IInv, TypeOK
<1>2. s \in Samples /\ s.time = time
  BY <1>1, SampleType
<1>3. estimates \in Triples /\ RankedTriple(estimates) /\ BoundsLater(estimates, recorded)
  BY RanksAsTriple
<1>4. /\ \A i \in 1 .. 3 : estimates[i].time <= s.time
      /\ \A r \in recorded : r.time <= s.time
  BY <1>1, <1>2, <1>3, TimeAssumption
     DEF IInv, EstimatesArePast, RecordedIsPast, Triples, Samples
<1> DEFINE g == Updated(estimates, s)
<1>5. /\ g \in Triples
      /\ RankedTriple(g)
      /\ BoundsLater(g, recorded \cup {s})
      /\ \A i \in 1 .. 3 : g[i].time <= s.time
      /\ ~Expired(g[1], s.time)
  <2> HIDE DEF s
  <2> QED BY <1>1, <1>2, <1>3, <1>4, UpdatedKeeps
<1>6. /\ estimates' = g /\ time' = time /\ last_update' = time
      /\ recorded' = recorded \cup {s}
  BY DEF Update
<1> HIDE DEF s, g
<1>7. TypeOK'
  BY <1>1, <1>2, <1>5, <1>6, TimeAssumption DEF TypeOK, Triples
<1>8. EstimatesArePast' /\ RecordedIsPast'
  BY <1>1, <1>2, <1>4, <1>5, <1>6 DEF EstimatesArePast, RecordedIsPast
<1>9. EstimatesAreRanked'
  BY <1>5, <1>6, RankedPairs DEF EstimatesAreRanked
<1>10. EstimatesBoundLaterSamples'
  BY <1>5, <1>6 DEF EstimatesBoundLaterSamples, BoundsLater
<1>11. BestIsFresh'
  BY <1>1, <1>2, <1>5, <1>6, WindowAssumption, TimeAssumption
     DEF BestIsFresh, Expired, Triples, Samples
<1> QED BY <1>7, <1>8, <1>9, <1>10, <1>11 DEF IInv

\* A reset: one sample is everything the filter and the history hold.
LEMMA ResetPreserves ==
  ASSUME IInv, NEW value \in SampleValues, Reset(value)
  PROVE  IInv'
<1> DEFINE s == Sample(value, time)
<1>1. time \in 0 .. MaxTime
  BY DEF IInv, TypeOK
<1>2. s \in Samples /\ s.time = time
  BY <1>1, SampleType
<1>3. /\ estimates' = <<s, s, s>> /\ time' = time /\ last_update' = time
      /\ recorded' = {s}
  BY DEF Reset, ResetTo
<1> HIDE DEF s
<1>4. /\ estimates' \in Triples
      /\ \A i \in 1 .. 3 : estimates'[i] = s
  BY <1>2, <1>3 DEF Triples
<1>5. s.sample \in Int /\ s.time \in Int
  BY <1>2, SampleFields
<1> QED BY <1>1, <1>2, <1>3, <1>4, <1>5, WindowAssumption, TimeAssumption
        DEF IInv, TypeOK, EstimatesArePast, RecordedIsPast, Triples,
            EstimatesAreRanked, EstimatesBoundLaterSamples, BestIsFresh

\* Time passes: the history gets smaller.
LEMMA NewRoundTripPreserves ==
  ASSUME IInv, NewRoundTrip
  PROVE  IInv'
<1>1. /\ time < MaxTime /\ time' = time + 1 /\ recorded' \subseteq recorded
      /\ estimates' = estimates /\ last_update' = last_update
  BY DEF NewRoundTrip
<1>2. TypeOK'
  BY <1>1, TimeAssumption DEF IInv, TypeOK
<1>3. EstimatesArePast' /\ RecordedIsPast'
  BY <1>1 DEF IInv, EstimatesArePast, RecordedIsPast
<1>4. EstimatesAreRanked' /\ EstimatesBoundLaterSamples' /\ BestIsFresh'
  BY <1>1 DEF IInv, EstimatesAreRanked, EstimatesBoundLaterSamples, BestIsFresh
<1> QED BY <1>2, <1>3, <1>4 DEF IInv

LEMMA NextPreserves == IInv /\ [Next]_vars => IInv'
<1> SUFFICES ASSUME IInv, [Next]_vars PROVE IInv'
  OBVIOUS
<1>1. ASSUME NEW value \in SampleValues, Update(value) PROVE IInv'
  BY <1>1, UpdatePreserves
<1>2. ASSUME NEW value \in SampleValues, Reset(value) PROVE IInv'
  BY <1>2, ResetPreserves
<1>3. CASE NewRoundTrip
  BY <1>3, NewRoundTripPreserves
<1>4. CASE UNCHANGED vars
  BY <1>4 DEF vars, IInv, TypeOK, EstimatesArePast, RecordedIsPast,
              EstimatesAreRanked, EstimatesBoundLaterSamples, BestIsFresh
<1> QED BY <1>1, <1>2, <1>3, <1>4 DEF Next

\* The strengthened invariant of the filter.
THEOREM FilterInvariant == Spec => []IInv
<1> QED BY InitEstablishes, NextPreserves, PTL DEF Spec

\* Three samples are kept, each reported in a round that has been.
THEOREM FilterTypeCorrect == Spec => []TypeOK
<1>1. IInv => TypeOK
  BY DEF IInv
<1> QED BY <1>1, FilterInvariant, PTL

\* From the best to the third best the estimates get smaller and newer.
THEOREM FilterRanks == Spec => []EstimatesAreRanked
<1>1. IInv => EstimatesAreRanked
  BY DEF IInv
<1> QED BY <1>1, FilterInvariant, PTL

\* No sample of a later round than an estimate's exceeds it.
THEOREM FilterBounds == Spec => []EstimatesBoundLaterSamples
<1>1. IInv => EstimatesBoundLaterSamples
  BY DEF IInv
<1> QED BY <1>1, FilterInvariant, PTL

\* After an update the best estimate is of the last window.
THEOREM FilterIsFresh == Spec => []BestIsFresh
<1>1. IInv => BestIsFresh
  BY DEF IInv
<1> QED BY <1>1, FilterInvariant, PTL
=============================================================================
