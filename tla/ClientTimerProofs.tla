-------------------------- MODULE ClientTimerProofs --------------------------
(***************************************************************************)
(* The client's estimates of the RTT stay between the samples they were    *)
(* made of, and its flight stays in order, for every choice of timeouts,   *)
(* windows and pacing delays.                                              *)
(*                                                                         *)
(* Both hold together: a sample is the age of a packet, so its range needs *)
(* that of the ages, and what leaves the flight is found by the loss delay *)
(* computed from the samples.                                              *)
(***************************************************************************)
EXTENDS ClientTimer, SequenceTheorems, WellFoundedInduction, TLAPS

Rtts == [min : 0 .. MaxSample, smoothed : 0 .. MaxSample + 1,
         previous : 0 .. MaxSample + 1, latest : 0 .. MaxSample,
         deviation : 0 .. MaxSample]

Bracketed(r) ==
  /\ r.min <= r.smoothed
  /\ r.min <= r.latest
  /\ r.min = 0 <=> r.smoothed = 0

\* Packets in the order they were sent in.
IsFlight(s) ==
  /\ s \in Seq(Ages)
  /\ \A i \in 1 .. Len(s) - 1 : s[i] >= s[i + 1]

IInv == TypeOK /\ RttIsBracketed

----------------------------------------------------------------------------

\* The constants are numbers.
LEMMA Constants ==
  /\ MaxAge \in Nat
  /\ MaxSample \in Nat \ {0}
  /\ Granularity \in Nat \ {0}
  /\ Granularity <= MaxSample
  /\ MaxBackoff \in Nat
  /\ MaxSample < MaxAge
  /\ Gates \subseteq Nat \ {0}
  /\ PacingDelays \subseteq Nat
<1>1. MaxSample + 1 + (MaxSample + 1) \div 4 < MaxAge
  BY TimerAssumption
<1>2. MaxSample \in Nat \ {0} /\ MaxAge \in Nat
  BY TimerAssumption
<1>3. MaxSample < MaxAge
  BY <1>1, <1>2
<1> QED BY <1>3, TimerAssumption

\* One update of the RTT keeps the range and the bracket: each product is
\* rounded by less than one half, so the sum of the two by less than one.
LEMMA UpdateRttKeeps ==
  ASSUME rtt \in Rtts, Bracketed(rtt), NEW sample \in 0 .. MaxSample
  PROVE  UpdateRtt(sample) \in Rtts /\ Bracketed(UpdateRtt(sample))
<1> DEFINE s == rtt.smoothed
           m == rtt.min
           d == rtt.deviation
           least == IF m = 0 THEN sample ELSE Smaller(m, sample)
           average == IF s = 0 THEN sample ELSE Eighths(7, s) + Eighths(1, sample)
           spread == IF s = 0 THEN sample \div 2
                     ELSE (3 * d + Distance(s, sample)) \div 4
<1>1. CASE sample = 0
  BY <1>1 DEF UpdateRtt
<1>2. CASE sample # 0
  <2>1. /\ s \in 0 .. MaxSample + 1
        /\ m \in 0 .. MaxSample
        /\ d \in 0 .. MaxSample
        /\ m <= s
        /\ m = 0 <=> s = 0
    BY DEF Rtts, Bracketed
  <2>2. UpdateRtt(sample) = [min |-> least, previous |-> s, latest |-> sample,
                             smoothed |-> average, deviation |-> spread]
    BY <1>2 DEF UpdateRtt
  <2>3. sample \in 1 .. MaxSample
    BY <1>2, Constants
  <2>4. least \in 1 .. MaxSample /\ least <= sample /\ (m # 0 => least <= m)
    BY <2>1, <2>3, Constants DEF Smaller
  <2>5. average \in 0 .. MaxSample + 1 /\ least <= average
    <3>1. CASE s = 0
      BY <3>1, <2>3, <2>4, Constants
    <3>2. CASE s # 0
      <4>1. average = (7 * s + 4) \div 8 + (sample + 4) \div 8
        BY <3>2, <2>1, <2>3, Constants DEF Eighths
      <4>2. least <= s /\ least <= sample
        BY <3>2, <2>1, <2>3, <2>4, Constants
      <4> HIDE DEF s, m, d, least, average
      <4> QED BY <4>1, <4>2, <2>1, <2>3, <2>4, Constants
    <3> QED BY <3>1, <3>2
  <2>6. spread \in 0 .. MaxSample
    <3>1. CASE s = 0
      <4>1. spread = sample \div 2
        BY <3>1
      <4> HIDE DEF spread
      <4> QED BY <4>1, <2>3, Constants
    <3>2. CASE s # 0
      <4>1. Distance(s, sample) \in 0 .. MaxSample
        BY <2>1, <2>3, Constants DEF Distance
      <4>2. spread = (3 * d + Distance(s, sample)) \div 4
        BY <3>2
      <4> HIDE DEF spread, s, d
      <4> QED BY <4>1, <4>2, <2>1, Constants
    <3> QED BY <3>1, <3>2
  <2> HIDE DEF s, m, d, least, average, spread
  <2>7. UpdateRtt(sample) \in Rtts
    BY <2>1, <2>2, <2>3, <2>4, <2>5, <2>6, Constants DEF Rtts
  <2>8. Bracketed(UpdateRtt(sample))
    BY <2>2, <2>3, <2>4, <2>5, Constants DEF Bracketed
  <2> QED BY <2>7, <2>8
<1> QED BY <1>1, <1>2

\* The loss delay is a number.
LEMMA LossDelayIsInt == ASSUME NEW r \in Rtts PROVE LossDelay(r) \in Int
<1>1. r.previous \in Int /\ r.latest \in Int
  BY Constants DEF Rtts
<1>2. GetMaxRtt(r) \in Int
  BY <1>1, Constants DEF GetMaxRtt, Larger
<1> QED BY <1>2 DEF LossDelay

\* A non-empty set of naturals has a least element.
LEMMA LeastOf ==
  ASSUME NEW S \in SUBSET Nat, S # {}
  PROVE  \E m \in S : \A k \in S : m <= k
<1>1. PICK m \in S : \A k \in S : <<k, m>> \notin OpToRel(<, Nat)
  BY NatLessThanWellFounded, WFMin
<1>2. ASSUME NEW k \in S, k < m PROVE FALSE
  BY <1>1, <1>2 DEF OpToRel
<1> QED BY <1>2

\* Loss detection by age finds a run of the packets it looks at.
LEMMA AgedIsARun ==
  ASSUME IsFlight(flight), NEW n \in 0 .. Len(flight), NEW r \in Rtts
  PROVE  Aged(n, r) \in 0 .. n
<1> DEFINE D == LossDelay(r)
           S == {k \in Nat : k = n \/ (k < n /\ flight[k + 1] < D)}
<1>1. n \in Nat /\ Len(flight) \in Nat
  BY LenProperties DEF IsFlight
<1>2. D \in Int
  BY LossDelayIsInt
<1>3. \A i \in 1 .. n : flight[i] \in Int
  BY <1>1, ElementOfSeq, Constants DEF IsFlight, Ages
<1> HIDE DEF D
<1>4. PICK k \in S : \A j \in S : k <= j
  <2>1. n \in S
    BY <1>1
  <2> QED BY <2>1, LeastOf
<1>5. k \in 0 .. n
  BY <1>1, <1>4
<1>6. \A i \in 1 .. k : flight[i] >= D
  <2> TAKE i \in 1 .. k
  <2>1. i - 1 \in Nat /\ i - 1 < n /\ i - 1 < k
    BY <1>1, <1>5
  <2>2. i - 1 \notin S
    BY <1>4, <1>5, <2>1
  <2>3. ~ (flight[i] < D)
    BY <2>1, <2>2
  <2> QED BY <2>3, <1>1, <1>2, <1>3, <1>5
<1>7. k < n => flight[k + 1] < D
  BY <1>1, <1>4
<1>8. \E j \in 0 .. n : /\ \A i \in 1 .. j : flight[i] >= D
                        /\ j < n => flight[j + 1] < D
  BY <1>5, <1>6, <1>7
<1> QED BY <1>8 DEF Aged, D

\* What is left when the oldest packets are dropped.
LEMMA DroppedIsFlight ==
  ASSUME NEW s, IsFlight(s), NEW n \in 0 .. Len(s)
  PROVE  IsFlight(Dropped(n, s)) /\ Len(Dropped(n, s)) = Len(s) - n
<1> DEFINE left == Dropped(n, s)
<1>1. Len(s) \in Nat /\ n \in Nat /\ n <= Len(s)
  BY LenProperties DEF IsFlight
<1>2. \A i \in 1 .. Len(s) : s[i] \in Ages
  BY ElementOfSeq DEF IsFlight
<1>3. /\ left \in Seq(Ages)
      /\ Len(left) = IF n + 1 <= Len(s) THEN Len(s) - (n + 1) + 1 ELSE 0
      /\ \A i \in 1 .. Len(s) - (n + 1) + 1 : left[i] = s[n + 1 + i - 1]
  <2>1. \A i \in n + 1 .. Len(s) : s[i] \in Ages
    BY <1>1, <1>2
  <2> QED BY <1>1, <2>1, SubSeqProperties DEF Dropped
<1> HIDE DEF left
<1>4. Len(left) = Len(s) - n
  BY <1>1, <1>3
<1>5. \A i \in 1 .. Len(left) : left[i] = s[n + i]
  <2> TAKE i \in 1 .. Len(left)
  <2>1. n + 1 + i - 1 = n + i /\ i \in 1 .. Len(s) - (n + 1) + 1
    BY <1>1, <1>4
  <2> QED BY <2>1, <1>3
<1>6. ASSUME NEW i \in 1 .. Len(left) - 1 PROVE left[i] >= left[i + 1]
  <2>1. left[i] = s[n + i] /\ left[i + 1] = s[n + i + 1]
    <3>1. i \in 1 .. Len(left) /\ i + 1 \in 1 .. Len(left) /\ n + (i + 1) = n + i + 1
      BY <1>1, <1>4, <1>6
    <3> QED BY <3>1, <1>5
  <2>2. n + i \in 1 .. Len(s) - 1
    BY <1>1, <1>4, <1>6
  <2> QED BY <2>1, <2>2 DEF IsFlight
<1> QED BY <1>3, <1>4, <1>6 DEF IsFlight, left

\* What is left when one packet is taken out.
LEMMA WithoutIsFlight ==
  ASSUME IsFlight(flight), NEW k \in 1 .. Len(flight)
  PROVE  IsFlight(Without(k)) /\ Len(Without(k)) = Len(flight) - 1
<1> DEFINE before == SubSeq(flight, 1, k - 1)
           after == SubSeq(flight, k + 1, Len(flight))
           left == Without(k)
<1>1. Len(flight) \in Nat /\ k \in Nat /\ 1 <= k /\ k <= Len(flight)
  BY LenProperties DEF IsFlight
<1>2. \A i \in 1 .. Len(flight) : flight[i] \in Ages
  BY ElementOfSeq DEF IsFlight
<1>3. /\ before \in Seq(Ages)
      /\ Len(before) = k - 1
      /\ \A i \in 1 .. k - 1 : before[i] = flight[i]
  <2>1. \A i \in 1 .. k - 1 : flight[i] \in Ages
    BY <1>1, <1>2
  <2>2. /\ before \in Seq(Ages)
        /\ Len(before) = IF 1 <= k - 1 THEN k - 1 - 1 + 1 ELSE 0
        /\ \A i \in 1 .. k - 1 - 1 + 1 : before[i] = flight[1 + i - 1]
    BY <1>1, <2>1, SubSeqProperties
  <2> HIDE DEF before
  <2> QED BY <1>1, <2>2
<1>4. /\ after \in Seq(Ages)
      /\ Len(after) = Len(flight) - k
      /\ \A i \in 1 .. Len(flight) - k : after[i] = flight[k + i]
  <2>1. \A i \in k + 1 .. Len(flight) : flight[i] \in Ages
    BY <1>1, <1>2
  <2>2. /\ after \in Seq(Ages)
        /\ Len(after) = IF k + 1 <= Len(flight) THEN Len(flight) - (k + 1) + 1 ELSE 0
        /\ \A i \in 1 .. Len(flight) - (k + 1) + 1 : after[i] = flight[k + 1 + i - 1]
    BY <1>1, <2>1, SubSeqProperties
  <2> HIDE DEF after
  <2>3. \A i \in 1 .. Len(flight) - k : k + 1 + i - 1 = k + i
    BY <1>1
  <2>4. Len(flight) - (k + 1) + 1 = Len(flight) - k
    BY <1>1
  <2>5. Len(after) = Len(flight) - k
    <3>1. CASE k + 1 <= Len(flight)
      BY <3>1, <2>2, <2>4
    <3>2. CASE ~ (k + 1 <= Len(flight))
      <4>1. Len(flight) = k
        BY <1>1, <3>2
      <4>2. Len(after) = 0
        BY <3>2, <2>2
      <4> QED BY <1>1, <4>1, <4>2
    <3> QED BY <3>1, <3>2
  <2>6. \A i \in 1 .. Len(flight) - k : after[i] = flight[k + 1 + i - 1]
    BY <2>2, <2>4
  <2>7. \A i \in 1 .. Len(flight) - k : after[i] = flight[k + i]
    BY <2>3, <2>6
  <2> QED BY <2>2, <2>5, <2>7
<1>5. left = before \o after
  BY DEF Without
<1> HIDE DEF before, after, left
<1>6. /\ left \in Seq(Ages)
      /\ Len(left) = Len(flight) - 1
      /\ \A i \in 1 .. Len(flight) - 1 :
           left[i] = IF i < k THEN flight[i] ELSE flight[i + 1]
  <2>1. /\ left \in Seq(Ages)
        /\ Len(left) = Len(before) + Len(after)
        /\ \A i \in 1 .. Len(before) + Len(after) :
             left[i] = IF i <= Len(before) THEN before[i] ELSE after[i - Len(before)]
    BY <1>3, <1>4, <1>5, ConcatProperties
  <2>2. Len(before) + Len(after) = Len(flight) - 1
    BY <1>1, <1>3, <1>4
  <2>3. ASSUME NEW i \in 1 .. Len(flight) - 1
        PROVE  left[i] = IF i < k THEN flight[i] ELSE flight[i + 1]
    <3>1. CASE i < k
      <4>1. i \in 1 .. k - 1 /\ i <= Len(before) /\ i \in 1 .. Len(before) + Len(after)
        BY <1>1, <1>3, <2>2, <2>3, <3>1
      <4> QED BY <4>1, <3>1, <2>1, <1>3
    <3>2. CASE ~ (i < k)
      <4>1. /\ i - Len(before) \in 1 .. Len(flight) - k
            /\ ~ (i <= Len(before))
            /\ i \in 1 .. Len(before) + Len(after)
            /\ k + (i - Len(before)) = i + 1
        BY <1>1, <1>3, <2>2, <2>3, <3>2
      <4>2. left[i] = after[i - Len(before)]
        BY <4>1, <2>1
      <4>3. after[i - Len(before)] = flight[i + 1]
        BY <4>1, <1>4
      <4> QED BY <3>2, <4>2, <4>3
    <3> QED BY <3>1, <3>2
  <2> QED BY <2>1, <2>2, <2>3
<1>7. ASSUME NEW i \in 1 .. Len(left) - 1 PROVE left[i] >= left[i + 1]
  <2>1. /\ i \in 1 .. Len(flight) - 1
        /\ i + 1 \in 1 .. Len(flight) - 1
        /\ \A j \in 1 .. Len(flight) : flight[j] \in Int
        /\ i + 2 = i + 1 + 1
    BY <1>1, <1>2, <1>6, <1>7, Constants DEF Ages
  <2>2. flight[i] >= flight[i + 1] /\ flight[i + 1] >= flight[i + 2]
    BY <2>1 DEF IsFlight
  <2>3. /\ left[i] = IF i < k THEN flight[i] ELSE flight[i + 1]
        /\ left[i + 1] = IF i + 1 < k THEN flight[i + 1] ELSE flight[i + 2]
    BY <2>1, <1>6
  <2>4. flight[i] \in Int /\ flight[i + 1] \in Int /\ flight[i + 2] \in Int
    BY <1>1, <2>1
  <2> QED BY <1>1, <2>1, <2>2, <2>3, <2>4
<1> QED BY <1>6, <1>7 DEF IsFlight, left

----------------------------------------------------------------------------

\* An ack newer than n packets in flight leaves a flight in order, of which no
\* more are overtaken than there are.
LEMMA DetectionKeeps ==
  ASSUME IsFlight(flight), NEW others, IsFlight(others), NEW r \in Rtts,
         NEW n \in 0 .. Len(flight), n <= Len(others),
         DetectLosses(n, others, r)
  PROVE  IsFlight(flight') /\ overtaken' \in 0 .. Len(flight')
<1>1. PICK threshold \in 0 .. n :
        LET lost == Larger(threshold, Aged(n, r))
        IN  flight' = Dropped(lost, others) /\ overtaken' = n - lost
  BY DEF DetectLosses
<1> DEFINE lost == Larger(threshold, Aged(n, r))
<1>2. Aged(n, r) \in 0 .. n
  BY AgedIsARun
<1>3. n \in Nat /\ Len(others) \in Nat
  BY LenProperties DEF IsFlight
<1>4. lost \in 0 .. n
  BY <1>2, <1>3 DEF Larger
<1> HIDE DEF lost
<1>5. lost \in 0 .. Len(others)
  BY <1>3, <1>4
<1>6. IsFlight(Dropped(lost, others)) /\ Len(Dropped(lost, others)) = Len(others) - lost
  BY <1>5, DroppedIsFlight
<1>7. flight' = Dropped(lost, others) /\ overtaken' = n - lost
  BY <1>1 DEF lost
<1>8. n - lost \in 0 .. Len(others) - lost
  BY <1>3, <1>4
<1> QED BY <1>6, <1>7, <1>8

\* The type invariant with its two parts named.
LEMMA TypeParts ==
  TypeOK <=> /\ rtt \in Rtts
             /\ IsFlight(flight)
             /\ overtaken \in 0 .. Len(flight)
             /\ since_sent \in Ages
             /\ count \in 0 .. MaxBackoff
             /\ gate \in Gates
             /\ wait \in Nat
             /\ turn \in {"send", "receive"}
  BY DEF TypeOK, Rtts, IsFlight

\* An echo, of a packet in flight or not, keeps the invariant.
LEMMA OnPacketReceivedKeeps ==
  ASSUME IInv, NEW others, IsFlight(others),
         NEW n \in 0 .. Len(flight), n <= Len(others),
         NEW r \in Rtts, Bracketed(r), NEW timeouts \in 0 .. MaxBackoff,
         OnPacketReceived(n, others, r, timeouts)
  PROVE  IInv'
<1>1. /\ IsFlight(flight)
      /\ since_sent \in Ages
      /\ wait \in Nat
  BY TypeParts DEF IInv
<1>2. /\ rtt' = r
      /\ DetectLosses(n, others, r)
      /\ count' = timeouts
      /\ gate' \in Gates
      /\ since_sent' = since_sent
      /\ wait' = wait
      /\ turn' = "send"
  BY DEF OnPacketReceived
<1>3. IsFlight(flight') /\ overtaken' \in 0 .. Len(flight')
  BY <1>1, <1>2, DetectionKeeps
<1>4. TypeOK'
  BY <1>1, <1>2, <1>3 DEF TypeOK, Rtts, IsFlight
<1>5. RttIsBracketed'
  BY <1>2 DEF RttIsBracketed, Bracketed
<1> QED BY <1>4, <1>5 DEF IInv

\* The echo of a packet in flight.
LEMMA ReceiveEchoKeeps == ASSUME IInv, ReceiveEcho PROVE IInv'
<1>1. IsFlight(flight) /\ rtt \in Rtts
  BY TypeParts DEF IInv
<1>2. PICK k \in 1 .. Len(flight) :
        /\ flight[k] <= MaxSample
        /\ OnPacketReceived(k - 1, Without(k), UpdateRtt(flight[k]), 0)
  BY DEF ReceiveEcho
<1>3. Len(flight) \in Nat /\ flight[k] \in Ages
  BY <1>1, LenProperties, ElementOfSeq DEF IsFlight
<1>4. flight[k] \in 0 .. MaxSample /\ 0 \in 0 .. MaxBackoff
  BY <1>2, <1>3, Constants DEF Ages
<1>5. IsFlight(Without(k)) /\ Len(Without(k)) = Len(flight) - 1
  BY <1>1, WithoutIsFlight
<1>6. k - 1 \in 0 .. Len(flight) /\ k - 1 <= Len(Without(k))
  BY <1>3, <1>5
<1>7. UpdateRtt(flight[k]) \in Rtts /\ Bracketed(UpdateRtt(flight[k]))
  <2>1. Bracketed(rtt)
    BY DEF IInv, RttIsBracketed, Bracketed
  <2> QED BY <1>1, <1>4, <2>1, UpdateRttKeeps
<1> QED BY <1>2, <1>4, <1>5, <1>6, <1>7, OnPacketReceivedKeeps

\* The echo of a packet that left flight before.
LEMMA ReceiveLateEchoKeeps == ASSUME IInv, ReceiveLateEcho PROVE IInv'
<1>1. IsFlight(flight) /\ rtt \in Rtts /\ count \in 0 .. MaxBackoff
  BY TypeParts DEF IInv
<1>2. PICK n \in 0 .. Len(flight) :
        \E others \in OthersAfterLate(n) : OnPacketReceived(n, others, rtt, count)
  BY DEF ReceiveLateEcho
<1>3. PICK others \in OthersAfterLate(n) : OnPacketReceived(n, others, rtt, count)
  BY <1>2
<1>4. Len(flight) \in Nat
  BY <1>1, LenProperties DEF IsFlight
<1>5. IsFlight(others) /\ n <= Len(others)
  <2>1. CASE others = flight
    BY <1>1, <1>4, <2>1
  <2>2. CASE others # flight
    <3>1. PICK k \in 1 .. Len(flight) : others = Without(k)
      BY <2>2 DEF OthersAfterLate
    <3>2. n = 0
      BY <2>2 DEF OthersAfterLate
    <3> QED BY <1>1, <1>4, <3>1, <3>2, WithoutIsFlight
  <2> QED BY <2>1, <2>2
<1>6. Bracketed(rtt)
  BY DEF IInv, RttIsBracketed, Bracketed
<1> QED BY <1>1, <1>3, <1>5, <1>6, OnPacketReceivedKeeps

\* Sending appends the youngest packet.
LEMMA SendPacketKeeps == ASSUME IInv, SendPacket PROVE IInv'
<1>1. /\ IsFlight(flight)
      /\ overtaken \in 0 .. Len(flight)
      /\ since_sent \in Ages
      /\ wait \in Nat
  BY TypeParts DEF IInv
<1>2. Len(flight) \in Nat
  BY <1>1, LenProperties DEF IsFlight
<1>3. /\ IsFlight(flight')
      /\ Len(flight) <= Len(flight')
      /\ since_sent' \in Ages
      /\ wait' \in Nat
  <2>1. CASE MayNextSend
    <3>1. flight' = Append(flight, 0) /\ since_sent' = 0 /\ wait' \in PacingDelays
      BY <2>1 DEF SendPacket
    <3>2. 0 \in Ages
      BY Constants DEF Ages
    <3>3. /\ flight' \in Seq(Ages)
          /\ Len(flight') = Len(flight) + 1
          /\ \A i \in 1 .. Len(flight) : flight'[i] = flight[i]
          /\ flight'[Len(flight) + 1] = 0
      BY <1>1, <3>1, <3>2, AppendProperties DEF IsFlight
    <3>4. \A i \in 1 .. Len(flight) : flight[i] \in Nat
      BY <1>1, ElementOfSeq, Constants DEF IsFlight, Ages
    <3>5. ASSUME NEW i \in 1 .. Len(flight') - 1 PROVE flight'[i] >= flight'[i + 1]
      <4>1. CASE i = Len(flight)
        BY <4>1, <1>2, <3>3, <3>4, <3>5
      <4>2. CASE i # Len(flight)
        <5>1. i \in 1 .. Len(flight) - 1 /\ i \in 1 .. Len(flight) /\ i + 1 \in 1 .. Len(flight)
          BY <4>2, <1>2, <3>3, <3>5
        <5> QED BY <5>1, <1>1, <3>3 DEF IsFlight
      <4> QED BY <4>1, <4>2
    <3>6. Len(flight) <= Len(flight')
      BY <1>2, <3>3
    <3> QED BY <3>1, <3>2, <3>3, <3>5, <3>6, Constants DEF IsFlight
  <2>2. CASE ~ MayNextSend
    BY <2>2, <1>1, <1>2 DEF SendPacket
  <2> QED BY <2>1, <2>2
<1>4. UNCHANGED <<rtt, overtaken, count, gate>> /\ turn' = "receive"
  BY DEF SendPacket
<1>5. Len(flight') \in Nat
  BY <1>3, LenProperties DEF IsFlight
<1>6. overtaken' \in 0 .. Len(flight')
  BY <1>1, <1>2, <1>3, <1>4, <1>5
<1>7. TypeOK'
  BY <1>3, <1>4, <1>6 DEF TypeOK, IInv, IsFlight
<1> QED BY <1>4, <1>7 DEF IInv, RttIsBracketed

\* A poll drops the oldest packets, all of them in RTO_MODE.
LEMMA PollKeeps == ASSUME IInv, Poll PROVE IInv'
<1>1. /\ rtt \in Rtts
      /\ IsFlight(flight)
      /\ overtaken \in 0 .. Len(flight)
      /\ count \in 0 .. MaxBackoff
  BY TypeParts DEF IInv
<1>2. Len(flight) \in Nat
  BY <1>1, LenProperties DEF IsFlight
<1>3. /\ IsFlight(flight')
      /\ overtaken' \in 0 .. Len(flight')
      /\ count' \in 0 .. MaxBackoff
  <2>1. CASE TimeoutHasPassed /\ OnLossTimeout
    <3> DEFINE lost == Aged(overtaken, rtt)
    <3>1. lost \in 0 .. overtaken
      BY <1>1, AgedIsARun
    <3>2. flight' = Dropped(lost, flight) /\ overtaken' = overtaken - lost /\ count' = count
      BY <2>1 DEF OnLossTimeout
    <3> HIDE DEF lost
    <3>3. lost \in 0 .. Len(flight)
      BY <1>1, <1>2, <3>1
    <3>4. IsFlight(flight') /\ Len(flight') = Len(flight) - lost
      BY <1>1, <3>2, <3>3, DroppedIsFlight
    <3>5. overtaken' \in 0 .. Len(flight')
      BY <1>1, <1>2, <3>1, <3>2, <3>4
    <3> QED BY <1>1, <3>2, <3>4, <3>5
  <2>2. CASE TimeoutHasPassed /\ RetransmitRtoPackets
    <3>1. flight' = <<>> /\ overtaken' = 0 /\ count' = Smaller(count + 1, MaxBackoff)
      BY <2>2, <1>1 DEF RetransmitRtoPackets
    <3>2. flight' \in Seq(Ages) /\ Len(flight') = 0
      BY <3>1, EmptySeq
    <3>3. count' \in 0 .. MaxBackoff
      BY <3>1, <1>1, Constants DEF Smaller
    <3> QED BY <3>1, <3>2, <3>3 DEF IsFlight
  <2>3. CASE ~ TimeoutHasPassed
    BY <2>3, <1>1 DEF Poll
  <2> QED BY <2>1, <2>2, <2>3 DEF Poll
<1>4. UNCHANGED <<rtt, since_sent, gate, wait>> /\ turn' = "send"
  BY DEF Poll
<1>5. TypeOK'
  BY <1>3, <1>4 DEF TypeOK, IInv, IsFlight
<1> QED BY <1>4, <1>5 DEF IInv, RttIsBracketed

\* Time makes every packet older, up to the last age told apart.
LEMMA TickKeeps == ASSUME IInv, Tick PROVE IInv'
<1>1. /\ IsFlight(flight)
      /\ overtaken \in 0 .. Len(flight)
      /\ since_sent \in Ages
      /\ wait \in Nat
  BY TypeParts DEF IInv
<1>2. /\ flight' = [i \in 1 .. Len(flight) |-> Older(flight[i])]
      /\ since_sent' = Older(since_sent)
      /\ wait' = Larger(0, wait - 1)
      /\ UNCHANGED <<rtt, overtaken, count, gate, turn>>
  BY DEF Tick
<1>3. Len(flight) \in Nat /\ \A i \in 1 .. Len(flight) : flight[i] \in Ages
  BY <1>1, LenProperties, ElementOfSeq DEF IsFlight
<1>4. \A a \in Ages : Older(a) \in Ages
  BY Constants DEF Older, Ages, Smaller
<1>5. \A a, b \in Ages : a >= b => Older(a) >= Older(b)
  BY Constants DEF Older, Ages, Smaller
<1>6. flight' \in [1 .. Len(flight) -> Ages]
  BY <1>2, <1>3, <1>4
<1>7. flight' \in Seq(Ages) /\ Len(flight') = Len(flight)
  <2>1. flight' \in Seq(Ages)
    BY <1>3, <1>6, SeqDef
  <2>2. DOMAIN flight' = 1 .. Len(flight)
    BY <1>2
  <2>3. DOMAIN flight' = 1 .. Len(flight') /\ Len(flight') \in Nat
    BY <2>1, LenProperties
  <2> QED BY <1>3, <2>1, <2>2, <2>3
<1>8. ASSUME NEW i \in 1 .. Len(flight) - 1 PROVE flight'[i] >= flight'[i + 1]
  <2>1. i \in 1 .. Len(flight) /\ i + 1 \in 1 .. Len(flight)
    BY <1>3, <1>8
  <2>2. flight[i] >= flight[i + 1]
    BY <1>1, <1>8 DEF IsFlight
  <2>3. flight'[i] = Older(flight[i]) /\ flight'[i + 1] = Older(flight[i + 1])
    BY <1>2, <2>1
  <2> QED BY <2>1, <2>2, <2>3, <1>3, <1>5
<1>9. IsFlight(flight')
  BY <1>7, <1>8 DEF IsFlight
<1>10. wait' \in Nat
  BY <1>1, <1>2 DEF Larger
<1>11. since_sent' \in Ages
  BY <1>1, <1>2, <1>4
<1>12. TypeOK'
  BY <1>1, <1>2, <1>7, <1>9, <1>10, <1>11 DEF TypeOK, IInv, IsFlight
<1> QED BY <1>2, <1>12 DEF IInv, RttIsBracketed

\* At the start nothing was sent and nothing sampled.
LEMMA InitEstablishes == Init => IInv
<1> SUFFICES ASSUME Init PROVE IInv
  OBVIOUS
<1>1. flight \in Seq(Ages) /\ Len(flight) = 0
  BY EmptySeq DEF Init
<1>2. TypeOK
  BY <1>1, Constants DEF Init, TypeOK, Ages
<1>3. RttIsBracketed
  BY DEF Init, RttIsBracketed
<1> QED BY <1>2, <1>3 DEF IInv

\* Every step keeps the invariant.
LEMMA NextPreserves == IInv /\ [Next]_vars => IInv'
<1> SUFFICES ASSUME IInv, [Next]_vars PROVE IInv'
  OBVIOUS
<1>1. CASE SendPacket
  BY <1>1, SendPacketKeeps
<1>2. CASE ReceiveEcho
  BY <1>2, ReceiveEchoKeeps
<1>3. CASE ReceiveLateEcho
  BY <1>3, ReceiveLateEchoKeeps
<1>4. CASE Poll
  BY <1>4, PollKeeps
<1>5. CASE Tick
  BY <1>5, TickKeeps
<1>6. CASE UNCHANGED vars
  BY <1>6 DEF vars, IInv, TypeOK, RttIsBracketed
<1> QED BY <1>1, <1>2, <1>3, <1>4, <1>5, <1>6 DEF Next

\* The strengthened invariant of the client's timers.
THEOREM TimerInvariant == Spec => []IInv
<1> QED BY InitEstablishes, NextPreserves, PTL DEF Spec

\* The estimates stay in the range of the samples, and the flight in the order
\* of sending, whatever echoes, losses and timeouts take out of it.
THEOREM TimerTypeCorrect == Spec => []TypeOK
<1>1. IInv => TypeOK
  BY DEF IInv
<1> QED BY <1>1, TimerInvariant, PTL

\* The smoothed RTT never falls below the min RTT (RttStats::UpdateRtt), through
\* any number of rounded updates.
THEOREM RttStaysBracketed == Spec => []RttIsBracketed
<1>1. IInv => RttIsBracketed
  BY DEF IInv
<1> QED BY <1>1, TimerInvariant, PTL
=============================================================================
