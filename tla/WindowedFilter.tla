--------------------------- MODULE WindowedFilter ---------------------------
(***************************************************************************)
(* The windowed maximum filter of Kathleen Nichols that BBRv1 keeps its    *)
(* bandwidth in and the MaxAckHeightTracker its ack height: the best three *)
(* samples, each of them from a later part of the window.  Time is counted *)
(* in round trips.                                                         *)
(*                                                                         *)
(* The filter forgets all other samples.  `recorded' is history: those it  *)
(* was given since it was last reset by its owner, as far as they are      *)
(* still in the window.                                                    *)
(***************************************************************************)
EXTENDS Integers

CONSTANTS
  WindowLength, \* window_length_
  SampleValues, \* the samples the owner may report
  MaxTime       \* bounds the model

ASSUME WindowAssumption == WindowLength \in Nat
ASSUME ValuesAssumption == 0 \in SampleValues /\ SampleValues \subseteq Nat
ASSUME TimeAssumption == MaxTime \in Nat

VARIABLES
  estimates,   \* estimates_, from the best to the third best
  time,        \* the round-trip count of the owner
  last_update, \* when the filter was last given a sample
  recorded

vars == <<estimates, time, last_update, recorded>>

Sample(value, when) == [sample |-> value, time |-> when]
ZeroValue == 0

\* All three estimates are one sample.
ResetTo(s) == <<s, s, s>>

Init ==
  /\ estimates = ResetTo(Sample(ZeroValue, 0))
  /\ time = 0
  /\ last_update = 0
  /\ recorded = {}

----------------------------------------------------------------------------
(* Update, in the order of the code.                                       *)

Expired(estimate, now) == now - estimate.time > WindowLength

\* Not initialized, a new best, or everything too old.
StartsAfresh(e, s) ==
  \/ e[1].sample = ZeroValue
  \/ s.sample >= e[1].sample
  \/ Expired(e[3], s.time)

\* Faulty: a new second best leaves the third best alone.
RankedAlone(e, s) ==
  IF s.sample >= e[2].sample THEN <<e[1], s, e[3]>>
  ELSE IF s.sample >= e[3].sample THEN <<e[1], e[2], s>>
  ELSE e

\* The sample takes the place of the estimates it reaches.
Ranked(e, s) ==
  IF s.sample >= e[2].sample THEN <<e[1], s, s>>
  ELSE IF s.sample >= e[3].sample THEN <<e[1], e[2], s>>
  ELSE e

\* Faulty: nothing takes the third place.
PromotedWithoutSample(e, s) == <<e[2], e[3]>>

\* The best estimate has not been renewed for a window: the others move up.
Promoted(e, s) == <<e[2], e[3], s>>

\* Faulty: the estimate that has moved up is not looked at.
PromotedOnce(e, s) == Promoted(e, s)

\* The one that has moved up may have expired too.
PromotedTwice(e, s) ==
  IF Expired(Promoted(e, s)[1], s.time)
    THEN <<Promoted(e, s)[2], Promoted(e, s)[3], Promoted(e, s)[3]>>
    ELSE Promoted(e, s)

\* The second and third best are taken from later parts of the window.
Spread(e, s) ==
  IF e[2].sample = e[1].sample /\ s.time - e[2].time > 0
    THEN <<e[1], s, s>>
  ELSE IF e[3].sample = e[2].sample /\ s.time - e[3].time > 1
    THEN <<e[1], e[2], s>>
  ELSE e

Updated(e, s) ==
  IF StartsAfresh(e, s) THEN ResetTo(s)
  ELSE IF Expired(e[1], s.time) THEN PromotedTwice(Ranked(e, s), s)
  ELSE Spread(Ranked(e, s), s)

----------------------------------------------------------------------------

Update(value) ==
  /\ estimates' = Updated(estimates, Sample(value, time))
  /\ last_update' = time
  /\ recorded' = recorded \cup {Sample(value, time)}
  /\ UNCHANGED time

\* Reset by the owner: what was known is given up.
Reset(value) ==
  /\ estimates' = ResetTo(Sample(value, time))
  /\ last_update' = time
  /\ recorded' = {Sample(value, time)}
  /\ UNCHANGED time

NewRoundTrip ==
  /\ time < MaxTime
  /\ time' = time + 1
  /\ recorded' = {r \in recorded : time' - r.time <= WindowLength}
  /\ UNCHANGED <<estimates, last_update>>

Next == \/ \E value \in SampleValues : Update(value) \/ Reset(value)
        \/ NewRoundTrip

Spec == Init /\ [][Next]_vars
----------------------------------------------------------------------------
(* Properties.                                                             *)

Samples == [sample : SampleValues, time : 0 .. MaxTime]

\* The variables hold values of their C++ types; three estimates are kept.
TypeOK ==
  /\ estimates \in [1 .. 3 -> Samples]
  /\ time \in 0 .. MaxTime
  /\ last_update \in 0 .. time
  /\ recorded \subseteq Samples

\* "Best estimate is element 0" (chrome_windowed_filter.h:138): from the
\* first to the third the estimates get smaller and newer, through every
\* expiry and promotion.
EstimatesAreRanked ==
  \A i, j \in 1 .. 3 :
    i < j => /\ estimates[i].sample >= estimates[j].sample
             /\ estimates[i].time <= estimates[j].time

\* The filter forgets a sample only for a better or a newer one: no sample
\* reported in a later round than an estimate exceeds it.  Promoting the second
\* best (lines 72-82) gives a maximum of the rest of the window because of it.
\* A sample of the estimate's own round may exceed it: the estimates of a later
\* part of the window are replaced by whatever comes, twice in one round.
EstimatesBoundLaterSamples ==
  \A i \in 1 .. 3 : \A r \in recorded :
    r.time > estimates[i].time => r.sample <= estimates[i].sample

\* "|window_length| is the period after which a best estimate expires"
\* (line 34): after an update the best estimate is of the last window.
BestIsFresh == last_update - estimates[1].time <= WindowLength
=============================================================================
