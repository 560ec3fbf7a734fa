# A verification development for BBR-chrome

BBR-chrome is a client and a server that run Chromium's QUIC congestion
controllers (BBRv2, with BBRv1 and Cubic beside it) over plain UDP: the client
sends numbered datagrams as fast as the controller allows, the server echoes
every one, and the echo is the acknowledgement.  This directory holds TLA+
models of it, the TLC runs that check them and TLAPS proofs about them.  Paths
below are relative to `src/bbr_chrome/src/`.

## 1. The system

```
   client.cc  loop: SendPacket ; ReceivePacket
      |  window, pacing gate, polled timer
      v
   QuicSentPacketManager --owns--> QuicUnackedPacketMap --> QuicheCircularDeque
      |        \------- owns ----> GeneralLossAlgorithm
      |        \------- owns ----> RttStats
      v  OnPacketSent / OnCongestionEvent(acked, lost)
   SendAlgorithmInterface:  Bbr2Sender | BbrSender | TcpCubicSenderBytes
      |                        |
      |                        +-- Bbr2NetworkModel (rounds, min-RTT filter,
      |                        |     bandwidth filter, lower/upper bounds)
      |                        +-- BandwidthSampler --> PacketNumberIndexedQueue
      |                              --> MaxAckHeightTracker --> WindowedFilter
   server.cc  recvfrom ; sendto the same bytes
```

One thread runs everything: there are no locks and no callbacks that outlive a
call.  What is concurrent is the network.  A datagram or its echo may be lost,
delayed, reordered or duplicated, and the timers are not interrupts: the client
looks at them only in a turn of its loop whose `recvfrom` finds the socket empty
(`client.cc:90-111`).

| component | state it keeps | operations | what makes it hard | what makes it correct |
|---|---|---|---|---|
| Client (`client.cc`) | next packet number, next send time, socket | `SendPacket`, `SetNextSendTime`, `IsTimeToSend`, `ReceivePacket`, `OnPacketReceived` | polls timers; any echo may arrive at any time; no duplicate suppression | never more in flight than the window; always sends again in the end |
| Sent packet manager (`quic/quic_sent_packet_manager.cc`) | newest acked packet, RTO count, the acked and lost lists of one frame | `OnPacketSent`, `OnAckFrameStart/Range/End`, `PostProcessNewlyAckedPackets`, `InvokeLossDetection`, `OnRetransmissionTimeout`, `RetransmitRtoPackets`, `GetRetransmissionTime` | ack, loss and timeout race for the same packet | each packet leaves flight once; counters exact; losses justified |
| Unacked packet map (`quic/quic_unacked_packet_map.cc`) | a deque of records from `least_unacked_` on, bytes and packets in flight | `AddSentPacket`, `RemoveFromInFlight`, `RemoveObsoletePackets`, `IsUnacked`, lookups by number | an index is `packet number - least_unacked_`, unsigned | lookups hit the packet's own record; map is trimmed |
| Circular deque (`common/quiche_circular_deque.h`) | block, `begin_`, `end_` | push, emplace, pop, `pop_front_n`, resize, reserve, iterators | wrap-around, relocation while wrapped, full against empty | it is a sequence |
| Loss detection (`congestion_control/general_loss_algorithm.cc`) | `least_in_flight_`, loss timer, thresholds | `DetectLosses`, `SpuriousLossDetected`, `OnPacketAcked` | scans start where the last ended; frames arrive reordered | nothing in flight is missed; a set timer is never in vain |
| RTT statistics (`congestion_control/rtt_stats.cc`) | latest, smoothed, deviation, minimum | `UpdateRtt` | integer microseconds, negative and zero samples | the smoothed value stays between the samples; timeouts are not early |
| BBRv2 (`bbr2_*.cc`) | mode and phase, round counter, min-RTT and bandwidth filters, `bandwidth_lo`, `inflight_lo`, `inflight_hi`, window, pacing rate | `OnPacketSent`, `OnCongestionEvent`, quiescence; one handler per mode | up to three mode changes inside one event; clocks, rounds and losses interleave; state kept across PROBE_RTT | mode machine, gains, when bounds hold, periodic probing of bandwidth and RTT |
| Bandwidth sampler (`bandwidth_sampler.cc`) | totals sent, acked, lost; last acked packet; app-limited mark; A0 candidates; a record for each packet | `OnPacketSent`, `OnCongestionEvent`, `RemoveObsoletePackets`, ... | late echoes of packets already written off; overflow | slopes start at points of their curves; flight is tracked; byte identities |
| Packet number indexed queue (`quic/packet_number_indexed_queue.h`) | deque of optional entries, first number, count present | `Emplace`, `Remove`, `RemoveUpTo`, `GetEntry` | gaps and removal from the middle | it is a partial map |
| Windowed filter (`chrome_windowed_filter.h`) | best three samples | `Update`, `Reset`, `GetBest` | three estimates age at different times | a promoted estimate bounds the rest of the window; the best is fresh |
| BBRv1 (`chrome_bbr_sender.cc`) | mode, gain cycle, recovery state, two windows, pacing rate | same interface | recovery state and mode advance independently | the machines agree; conservation lasts a round; room for an answer to each ack |
| Cubic (`tcp_cubic_sender_bytes.cc`, `cubic_bytes.cc`, `hybrid_slow_start.cc`, `prr_sender.cc`) | window, threshold, cutback marks, epoch of the curve, round of the hybrid slow start | same interface, and the answered timeout | losses of one flight must cut once; the curve follows a clock and a minimum that moves | one cutback per round; moves of the window; when slow start comes back |
| Server (`server.cc`) | none | echo | - | - |

Components with their sources are listed in `PROJECT.json`, with those that are
not modelled; so are the hazards, each at its line.

## 2. Modules

| module | models | refines / uses |
|---|---|---|
| `SentPacketManager` | client loop, sent packet manager, unacked map (with the ring arithmetic of its deque), loss detection, the echo channel | implements `PacketLedger` |
| `PacketLedger` | what the manager promises: order, window, packets leave once, justified losses | abstract |
| `CircularDeque` | the deque, slot by slot | implements `DoubleEndedQueue` |
| `DoubleEndedQueue` | a sequence open at both ends | abstract |
| `CircularDequeProofs` | theorems about `CircularDeque` | TLAPS |
| `SentPacketManagerProofs` | theorems about `SentPacketManager` | TLAPS |
| `Bbr2` | BBRv2: the sender, its four modes and its network model, under every event the manager can hand it | - |
| `Bbr2Proofs` | theorems about `Bbr2` | TLAPS |
| `WindowedFilter` | the windowed maximum filter | - |
| `WindowedFilterProofs` | theorems about `WindowedFilter` | TLAPS |
| `ClientTimerProofs` | theorems about `ClientTimer` | TLAPS |
| `BandwidthSampler` | the bandwidth sampler, its queue of records and its ack height tracker | instantiates `WindowedFilter` |
| `BandwidthSamplerProofs` | theorems about `BandwidthSampler` | TLAPS |
| `BbrSender` | BBRv1: modes, gain cycle, recovery, windows and pacing rate, under every event | - |
| `BbrSenderProofs` | theorems about `BbrSender` | TLAPS |
| `CubicSender` | Cubic, its curve and its hybrid slow start, with the manager's answered timeout | - |
| `CubicSenderProofs` | theorems about `CubicSender` | TLAPS |
| `ClientTimer` | the client's loop against the clock: RTT statistics, loss delay, retransmission delay, pacing | - |

### SentPacketManager

`state`, `in_flight`, `packets_in_flight`, `least_unacked`, `largest_sent` are the
map's fields (the records' `state` and `in_flight`, the counters, the front of
the deque, the last number); `begin` and `data_capacity` are the ring inside the
map, kept because a lookup below the front lands in it; `least_in_flight` and
`loss_timer` belong to the loss algorithm; `largest_newly_acked` and
`consecutive_rto_count` to the manager.  `delivered`, `declared_lost` and
`spurious` are history, `memory_fault` says that the deque's block was left.

| action | code |
|---|---|
| `SendPacket` | the client's `SendPacket` with `OnPacketSent` and `AddSentPacket`: the window check, the record, the deque's growth |
| `OnPacketReceived(pn, expired)` | one echo: `OnAckFrameStart`, `OnAckRange` and `OnAckFrameEnd`, with the RTT update, `MarkPacketHandled`, `InvokeLossDetection`, the record updates of acked and lost packets, and the final `RemoveObsoletePackets` |
| `OnPacketReceivedFault(pn)` | the same call when the lookup leaves the block and that does harm |
| `OnLossTimeout(expired)` | `OnRetransmissionTimeout` in LOSS_MODE |
| `OnRtoTimeout` | `OnRetransmissionTimeout` in RTO_MODE with `RetransmitRtoPackets` |
| `Undefined` | anything after a memory fault: nothing more is modelled |

*The lookup of dropped packets.*  `OnAckFrameEnd` asks `least_unacked_` of nothing
before it calls `GetMutableTransmissionInfo`, so the echo of a packet the map no
longer holds computes an unsigned index below zero.  `SlotAt` of `CircularDeque`
shows what `at()` makes of it; `OutsideBlock` and `RecordAt` are that result seen
from packet numbers, and the invariant `StaleIndexAliases` of `CircularDeque`
states the agreement.  An access outside the block is undefined: the model lets it
pass without effect on any record or end in `memory_fault`.

*Abstractions.*  All datagrams have one size, so bytes are packets.  A clock is
replaced by what it decides: `expired` is the newest packet whose time threshold
has passed, and may be any number, whatever the RTT estimate makes it; the loss
timer is the packet whose deadline it holds.  The congestion controller is the
bound `Cwnd`, the largest window it gives.  The RTO may fire whenever the loss
timer is not set, which covers every value of the retransmission delay; with
nothing in flight the code does fire it in every idle turn, because
`GetRetransmissionTime` then returns zero.

### CircularDeque

The block, its capacity and the two ends; one action per public operation that
changes the deque; `Relocate` copies a wrapped range in two parts, as the code
does.  Arithmetic on positions is modulo `WordSize`.

### Bbr2

`bbr` holds the controller's fields under the names of the code: `mode`, the
fields of `cycle_` (`phase`, `rounds_in_phase`, `is_sample_from_probing`,
`has_advanced_max_bw`, ages for its two start times), `probed_too_high` and
`stopped_risky_probe` of the last cycle, `exit_time`, `pacing_gain`, the round
counter and the losses of the round, whether each bound is set, and the ages of the
minimum RTT and of a quiescence.  `next` is the mode a handler returns.
`in_flight` is the unacked map's count, `late` says that the sampler still knows
packets the map has given up, `window` bounds the window by mode.

| action | code |
|---|---|
| `OnPacketSent` | `Bbr2Sender::OnPacketSent` with `OnExitQuiescence` of the mode |
| `OnAck` | the echo of a packet in flight with the losses it uncovers: the whole of `Bbr2Sender::OnCongestionEvent` |
| `OnLateAck` | the same for an echo of a packet that has left flight, known to the sampler or not, settling another record or not |
| `OnLosses` | the same for the losses of the loss timer |
| `OnRetransmissionTimeout` | the RTO, which the controller is not told of |
| `Tick` | time passes |

Inside an event `OnCongestionEventStart` updates the model, `ModeLoop` runs the
loop over the modes with one operator per handler and per `Enter...` of the code,
`OnCongestionEventFinish` and `MaybeEnterQuiescence` end it.

*Abstractions.*  The flight and the BDP are counted in packets.  A bound is set
or not set; `bandwidth_lo`, `inflight_lo` and `inflight_hi` are never compared by
value, and a comparison with them is a choice of the event, as is whether the
bandwidth grew, the share of losses, and the rounds of Reno coexistence.  Of the
maximum bandwidth filter it is known which of its two slots are not zero
(`max_bw_older`, `max_bw_newer`); `Advance` shifts nothing when the newer one is
(`bbr2_misc.h:254`).  The choices
are offered where the code reads them and have one value elsewhere.  A point in
time is an age that saturates one past the longest wait it is compared with and
stops where nothing reads it; the exit time of PROBE_RTT is the time left.  A
random wait is not longer than `ProbeWait`.  The gain of the window and the pacing
rate are not modelled; only PROBE_RTT's bound on the window is.

`advances`, `cuts`, `changes`, `restless`, `low_age`, `drained`, `since_min_rtt`,
`sent_since_refill` and `underfilled` are history: no handler reads them.

### WindowedFilter

`estimates` is the code's array of three; `Updated` is `Update` in the order of the
code, one operator for each of its stages.  `recorded` is history: the samples of
the window that the filter no longer knows.  Time is the owner's round-trip count,
as for both owners in the code (the bandwidth of BBRv1 and the ack height), so a
round may bring several samples or none.

### BandwidthSampler

The variables have the names of the fields; `connection_state_map` is a function
from the tracked packet numbers to their records, `Filter!Updated` the filter
inside the ack height tracker.  `max_bandwidth`, `round_trip_count`,
`end_of_round_trip` and `in_flight` belong to the sender and the unacked map.

| action | code |
|---|---|
| `OnPacketSent` | `BandwidthSampler::OnPacketSent` with the snapshot and `Emplace` |
| `OnAck` | the round counter of the sender, `OnCongestionEvent` with losses and one ack, the sender's maximum filter, BBRv1's `OnAppLimited` while it probes the RTT, and `RemoveObsoletePackets` with the front the map had before the event |
| `OnLosses` | the same for the losses of the loss timer |
| `OnRetransmissionTimeout` | the RTO, which the sampler is not told of |
| `Tick` | time passes |

An echo may arrive any number of times and as late as it likes, as in
`SentPacketManager`; its packet may have been dropped by the map, and then the
record of a later one is taken.  *Abstractions*: bytes are packets; bandwidths are
whole numbers of packets in twelve ticks; the bandwidth the tracker is given is the
maximum of all samples, which is BBRv1's filter within its window and its infinite
upper bound (BBRv2's `bandwidth_lo` is not modelled); the word is small.

### BbrSender

`bbr` holds the controller's fields under the names of the code; `pacing_gain` and
the other gains are percent.  Packet numbers are counted back from the last packet
sent: sending moves every mark one further back, and those `Reach` packets back are
not told apart.  `bandwidth` is the best of the maximum filter per min RTT, so it
is the BDP in packets; an app-limited sample never lowers it, any other may.

| action | code |
|---|---|
| `OnPacketSent` | `BbrSender::OnPacketSent`; an idle sender may be leaving quiescence |
| `OnAck(p)` | the echo of a packet in flight with the losses it uncovers: the whole of `BbrSender::OnCongestionEvent`, one operator for each of its parts, in their order |
| `OnLateAck(p)` | the same for the echo of a packet lost, given up or acked before, which the sampler may or may not know |
| `OnLossTimeout` | the same for the losses of the loss timer, without an ack |
| `RetransmitRtoPackets` | the RTO, which the controller is not told of |
| `Tick` | time passes |

*Abstractions.*  Whether a min RTT has passed in the gain cycle, whether the sampler
is app-limited and whether the losses are many are choices of the event, offered only
where the code reads them; the losses are those of the whole round, so an ack that
starts a round may leave STARTUP for losses before it.  A late echo has no RTT sample,
because its record is in state NEVER_SENT or ACKED or no longer there.  The later packet
it may settle (`spm_stale_ack`) is not followed here, as it is in `SentPacketManager`,
`CubicSender` and `ClientTimer`.  The ack height's share of the window and the flags that
nothing in the repository sets are left out.  The client keeps the window of an older
echo, so sending is bounded by the largest window only.  `entered_at`, `low_age` and
`since_min_rtt` are history.

### CubicSender

`cubic` holds the fields of `TcpCubicSenderBytes`, of `CubicBytes` (`epoch`,
`last_max`) and of `HybridSlowStart` (`hystart`).  Windows are in small units with a
packet a little larger than the segment, as 1472 is to 1460 in the code, and are
truncated where the code truncates.  `in_recovery` is what `largest_acked` is kept
for.  The actions are those of `BbrSender`, with three differences: `gate` is the
window of the last echo, as the client keeps it; the loss timer's losses lie below
the last echo; and an echo that updates the RTT after an RTO calls
`OnRetransmissionTimeout`, as `OnAckFrameEnd` does after the congestion event.  An RTO
may come with nothing in flight, because the idle client's does.  A late echo updates
no RTT, hence answers no timeout; if it is older than all packets in flight, it may
settle one of them (`SettledByLate`).

*Abstractions.*  A tick is the time in which the cubic coefficient is 1;
`CubicTarget` is the curve in those units.  `cut_at`, `answered` and `cut_twice` are
history.

### ClientTimer

Time is in ticks and a packet in flight is its age.  `turn` is the half of the
client's loop that is next: `SendPacket` with its gate and its pacing, then either an
echo or a `Poll` of the timer.  `rtt` is `RttStats`, with the products of `UpdateRtt`
rounded to the nearest as `QuicTime::Delta` rounds them and the deviation truncated.
`overtaken` counts the packets that the last echo is newer than: the others have no
loss timer.

| action | code |
|---|---|
| `SendPacket` | `Client::SendPacket` with `IsTimeToSendNextPacket` and `SetNextSendTime` |
| `ReceiveEcho` | `Client::OnPacketReceived` for a packet in flight: the RTT, the loss delay, the losses by age and by number |
| `ReceiveLateEcho` | the same for a packet that has left flight: its record is NEVER_SENT or ACKED, or gone, so neither the RTT nor the RTO count is updated; the lookup may settle a later packet (`OthersAfterLate`) |
| `Poll` | `ReceivePacket` without an echo: `GetRetransmissionTime`, and the loss timeout or the RTO |
| `Tick` | the clock |

*Abstractions.*  What the controller answers is a choice of `gate` and of the delay
to the next packet.  Losses by the packet threshold may be any run of the oldest
overtaken packets.  An echo is at most `MaxSample` old.

## 3. Runs

| run | question | bounds |
|---|---|---|
| `spm_safety` | Does the bookkeeping stay exact and does loss detection look where it must, under loss, reordering and duplication? Does every packet leave flight in the end? Does the manager keep the ledger's promise? | 6 packets, window 4, threshold 3 |
| `deque` | Is the ring a sequence? What does an index below the front reach? | 6 elements, 2 values, word of 64 |
| `spm_stale_ack` | finding: a late echo acks another packet's record | 6 packets |
| `bbr2` | Do stages, gains, bounds and filters stay in step through every order of events? Does every cycle probe? Does PROBE_RTT end? | window 2, BDP 1 or 4, each wait 0 or 1 ticks, one loss is excessive, 2 rounds without growth |
| `bbr2_probe_up` | finding: PROBE_UP ends below its target | as `bbr2`, RTT period of 2 ticks, no ack height |
| `filter` | What do three samples say of a window? | window of 3 rounds, 7 rounds, samples 0 to 3 |
| `sampler` | Are records, slopes, marks and totals right in whatever order echoes come? | 3 packets, 4 echoes counted, 3 ticks, word of 16 |
| `sampler_ack_height` | finding: the ack height wraps around | 4 packets, 4 ticks |
| `bbr1` | Do modes, gain cycle and recovery agree? Do recovery, PROBE_RTT and the windows keep what their comments say? | 3 packets told apart, windows 1 to 3, bandwidths 1 and 2, a gain cycle of 3, 2 rounds without growth, each other count and wait 1 |
| `cubic` | How often, why and how far does the window move? | 4 packets told apart, windows of 2 to 4 segments of 4 units, packets of 5, RTTs 1 and 3, epochs of 3 ticks |
| `timer` | Are samples averaged and timeouts computed so that no poll is early? Does the client keep sending? | gates 1 and 2, pacing delays 0 and 2, RTO from 2 to 5 ticks, 2 doublings, echoes up to 4 ticks old |
| `timer_idle` | finding: an idle client counts timeouts | as `timer` |

*Why the bounds are enough.*  The packet threshold is the code's own 3, and a
window of 4 lets one echo overtake three packets and leave one in flight; six
packets let the window be used, lost, and used again, with the late echoes of the
first use arriving during the second, and make the deque relocate twice and its
front pass the point where a late lookup lands in a live slot.  Six elements are
two relocations of the deque and all positions of the ring in each block size.
In `Bbr2` two packets in flight are enough to have one acked and one lost in an
event, to be above or below each target, and to be idle; a BDP of 4 is one the
flight cannot reach and a BDP of 1 one it can pass.  Waits differ only by order: an
age is below, at or past each of them.  An ack height of 15 in a word of 16 is the
wrapped one of the sampler.  Loss thresholds of one reach what the code's 20 and 30
reach, sooner; two rounds without growth instead of three keep the count visible.

A window of 3 rounds has room for an estimate of each age and lets the second
estimate expire with the first.  Three packets are one to be acked, one to be acked
after it and one to be sent with what the two left behind; the fourth echo repeats
one; three ticks put two sends and an ack at different times or at the same.

In `BbrSender` three packets told apart are one acked, an older one lost and a newer
one sent in between; windows of 1 to 3 hold the minimum, the target of each bandwidth
and the limit; with two rounds without growth the exit for losses, in an event with them or
in a later one of the round, is not the one for growth; a gain cycle of 3 has a raised, a lowered and a plain phase.  In
`CubicSender` segments of 4 units and packets of 5 keep the two sizes apart, and the
least windows let 0.85 and the halving truncate; RTTs of 1 and 3 differ by more than the
threshold of the hybrid slow start, and an epoch of 3 ticks passes its origin.  In
`ClientTimer` an echo may be older than the shortest RTO and younger than the longest,
two doublings reach the cap, and a delay of 2 ticks leaves the client idle while it
waits for the pacer.

*Deadlock* is checked in all passing runs: the RTO is always enabled once a packet
was sent, the fault state stutters; in `Bbr2`, `BbrSender`, `CubicSender` and `ClientTimer` time passes, in
`BandwidthSampler` it may stand still, and a filter takes samples for ever.

*Fairness.*  `SentPacketManager`'s `FairSpec` has weak fairness on `OnRetransmissionTimeout` and nothing
else.  The client's loop looks at the timer in every turn that reads nothing from
the socket, finite traffic leaves such turns, and deadlines pass by themselves.
Nothing is assumed of the network, nor of the application.

`Bbr2`'s `FairSpec` assumes that time passes; that a client with nothing in flight
sends, as its loop does whenever the window is open; and `FairNetwork`: a flight
goes down in the end, which is `PacketsLeaveFlight` of `SentPacketManager`, and a
sender whose packets keep being in flight does not lose them all, so that rounds
end.  The last part is about the network: without it every packet might be lost
and no acknowledgement ever reach the controller, and then neither property holds.

`ClientTimer`'s `FairSpec` has weak fairness on `SendPacket` and on `Tick`, since the
one thread runs its loop and the clock goes on, and strong fairness on `Poll`: a
socket that is read without blocking is found empty again and again, because the
server sends one echo for a packet and the loop turns many times for each packet the
pacer lets out.  Weak fairness would not do, because an echo may be there whenever
the loop comes around.  Nothing is assumed of the echoes.

## 4. What the runs show

*Holds.*  The counter that the window check reads is exact in every reachable
state, late echoes that reach another record included (`FlightIsExact`).  The map
begins at the oldest packet in flight and its deque grows in time
(`MapIsConsistent`).  No packet in flight is below the point where scans begin,
although that point moves by a shortcut and the "largest newly acked" packet goes
back when echoes are reordered; and the nack threshold detects on its own whatever
the order of echoes (`ScansAreSound`).  The loss timer belongs to the oldest packet in
flight, and its timeout always finds a loss, so polling cannot spin in LOSS_MODE
(`LossTimerWorks`).  Every packet leaves flight (`PacketsLeaveFlight`).

The BBRv2 sender leaves STARTUP exactly when it has found the full bandwidth and
never returns; PROBE_RTT begins only between PROBE_DOWN and PROBE_UP
(`PhasesAgree`).  The gain is that of the mode and phase after every path
(`PhasesAgree`).  No lower bound holds it back while it probes, although losses
during a PROBE_RTT that interrupted REFILL set both (`PhasesAgree`).  Each
cycle calls `AdvanceMaxBandwidthFilter` once and each probe cuts `inflight_hi` at most
once; a cycle without a sample keeps the older maximum, so that the filter is never
empty after the first ack (`CycleIsCounted`).  A single event may lead from
STARTUP through DRAIN and PROBE_DOWN into PROBE_RTT, and no further
(`ModeLoopSettles`); the round it may have ended does not count for the phases it
begins (`PhasesLastLongEnough`).  PROBE_RTT lasts until the flight was low for its
duration (`PhasesLastLongEnough`) and, late echoes and quiescence included, does not
come sooner than its period after the last minimum (`ProbeRttIsPeriodic`).  Every
cycle probes, and PROBE_RTT ends (`BandwidthIsProbed`, `ProbeRttEnds`).

The three estimates stay ranked, and a sample of a later round never exceeds one, so
that a promoted estimate is the maximum of the rest of the window
(`EstimatesBoundLaterSamples`); within one round it may be
exceeded, because with the changed spacing rule (`chrome_windowed_filter.h:85-98`,
more than 0 and more than 1 round where the comment speaks of a quarter and a half
of the window) a second update of a round may replace the first by less.  The best
is never older than the window when it is used (`BestIsFresh`).

The sampler's slopes start at points that belong together and lie in the past, so
that none of its unsigned differences underflows (`SlopesStartOnTheCurves`), except
the ack height's.  A packet in flight always has its record (`FlightIsSampled`); the
app-limited phase ends with the first sampled ack of a packet sent after its mark
(`AppLimitedPhaseEndsWithItsAck`).  The identity that the header states for the
bytes in flight holds as long as each packet leaves flight by its own echo or by a
reported loss (the same property), and not after an RTO, a repeated or a late echo.

BBRv1's three machines agree: DRAIN, PROBE_BW and recovery are of a full pipe, and
PROBE_RTT gives back to STARTUP what it took from STARTUP (`MachinesAgree`).
CONSERVATION ends exactly with the first echo of a packet sent in it
(`ConservationLastsARound`), although it falls through to the exit of GROWTH
(`chrome_bbr_sender.cc:570-575`): the round begins anew with it, so the exit cannot
come sooner.  Every event in recovery leaves a recovery window that covers the flight,
and room for a packet more after an ack (`RecoveryAdmitsAnAnswer`); that includes
losses without an ack, which by lines 225-230 neither enter nor extend recovery.
PROBE_RTT waits for its period and for its time at a low flight (`ProbeRttIsHonored`).
The round that PROBE_RTT also waits for may consist of packets sent before it: the
model shows no more than the code promises.  Until the pipe is full neither window nor
pacing rate goes down (`StartupNeverShrinks`).

Cubic's window is cut once for all losses of a flight (`OneCutbackPerRound`).  In a
step it grows by a packet in slow start and by half a packet otherwise, and only a cut
or an answered timeout lowers it, with one exception that the property names: an ack
that brings a shorter min RTT looks at the curve at an earlier time, and the window
follows it down to the estimate of Reno's (`WindowMovesAreJustified`).  Slow start
returns only after a timeout (`SlowStartOnlyAfterTimeout`); the timeout is answered by
the next echo that updates the RTT, even if the client was only idle.

The smoothed RTT does not leave the range of the samples below, and above only by one
unit of rounding (`RttIsBracketed`, `TypeOK`).  No poll gives up a packet younger than
the smoothed RTT unless the cap on the RTO does (`PollsAreNotEarly`).  Whatever is lost,
the client sends again and again (`ClientKeepsSending`).

*Does not hold.*
1. `AckedRecordsWereDelivered`: a late echo of a dropped packet may take a packet
   sent later out of flight and mark its record acked (`spm_stale_ack`).
2. `ProbeUpFillsThePipe`: the queuing threshold of PROBE_UP lost its BDP to a stray
   semicolon, so the probe ends for a queue that is not there (`bbr2_probe_up`).
3. `AckHeightWasAcked`: the aggregation epoch is never restarted, and the ack
   height becomes a wrapped difference (`sampler_ack_height`).
4. `TimeoutsAreOfPackets`: with nothing in flight the retransmission time is zero and
   the client's comparison with the clock always true, so an idle client counts a
   timeout in every turn and backs off the RTO of its next packet (`timer_idle`).

*Seen in the source, without a run.*  Lost records are set to NEVER_SENT
(`quic_sent_packet_manager.cc:113`), so the branch that reports spurious losses and the
adaptive thresholds behind it are dead: `ScansAreSound` includes that no record rests
in LOST.  An echo older than the newest one clears the loss timer of the packets
between them; their loss by time waits for another echo or for the RTO, which
`PacketsLeaveFlight` and `ClientKeepsSending` allow.  The RTO is counted from the last
packet sent, where the comment at `quic_sent_packet_manager.cc:293` speaks of the first
outstanding one.  The loss delay has no upper limit, so the sample of a very late echo
can put it past the longest RTO.  `bbr2_misc.h:158` sets the loss threshold to 30 where
its comment speaks of a rate; the model lets the comparison go either way.

## 5. Proofs

`SentPacketManagerProofs` proves, for all `MaxPacket`, `Cwnd`,
`ReorderingThreshold` and `MaxRtoCount` allowed by the named assumptions of the
module, that `IInv` is inductive and with it each invariant of `spm_safety`, that losses need a
newer echo (`LossNeedsNewerAck`), the action property `NoLossAfterAck`, and that the
manager implements `PacketLedger`.

`IInv` is the conjunction of the invariants' parts.  They need each other: that an ack
subtracts once (`FlightAccounting`) needs records of packets in flight to be
exactly the outstanding ones; that the map is trimmed (`MapStartsInFlight`) needs
the same, since only an outstanding record is both useful and in flight; that
scans miss nothing needs the front of the map (a scan that cannot start at
`least_in_flight_` starts there) and `DeliveredLeavesFlight` (the shortcut moves
the start past a packet that must not be in flight); the loss timer needs both;
and `PacketThreshold` needs the scan to be complete.  The argument per action is
in the lemmas `...Preserves`; `DetectionIsSound` and `DetectionPreservesScan`
carry what one call of `DetectLosses` does; `FrontFollowsFlight` what one call of
`RemoveObsoletePackets` does; `PushBackFits` the deque's growth.

The refinement proof maps `Send`, `Echo`, `DeclareLost` and `GiveUp` of the ledger
to the manager's actions.  `OnRtoTimeoutAbandonsAll` is the fact that the RTO
leaves nothing in flight.

`WindowedFilterProofs` proves the invariants of the `filter` run for every window
length and every set of samples.  They are inductive together, with the fact that
estimates and samples are not of the future: `RankedKeeps` is what ranking a new
sample preserves, and that afterwards it does not exceed the third estimate, which is
why it may follow the promoted ones; `UpdatedKeeps` is one whole update.

`ClientTimerProofs` proves `TypeOK` and `RttIsBracketed` of the `timer` run for all
constants that `TimerAssumption` allows.  The two are inductive together: a sample is
the age of a packet, and what leaves the flight is found with the loss delay, which
is computed from the samples.  `UpdateRttKeeps` is the arithmetic: each of the two
products is rounded by less than a half, so their sum keeps the bracket.  `AgedIsARun`
shows that the packets found lost by time are the oldest ones, so that the `CHOOSE` of
the detection has a value; `WithoutIsFlight` and `DroppedIsFlight` that what leaves the
flight leaves the rest in order; `DetectionKeeps` is one call of the detection.

`CircularDequeProofs` proves for any elements, any `MinCapacityIncrement` and any
`MaxSize` that the deque implements `DoubleEndedQueue`, that each operation has the
effect of its namesake (`PromisesAreKept`), and that iterators and indexes stay exact.
The elements are counted from the front: element i rests in `Slot(begin, i,
data_capacity)`, a comparison instead of a remainder, since a quotient by a variable
defeats the provers.  `IncrementIsSlot`, `DecrementIsSlot`, `SlotAtIsSlot` and
`RemainderIsSlot` show once that the code's remainders find that slot.  `IInv` says
that `begin` and `end` are slots of a block small enough for `size_type`, and that
what lies between them is alive; without the second part a moved or returned element
could be garbage.  `RingWillHold` reduces an operation to "afterwards the slots hold
the elements of this sequence", and each operation has a lemma `...Keeps` on it.
`WordSizeAssumption` (a block is far smaller than 2^64) is what keeps the wrap of
`size_type` exact; it is an assumption about memory.

`BandwidthSamplerProofs` proves the invariants of the `sampler` run for every number
of packets, window and width of the counts.  What is inductive is that a record is of
its packet (`IsRecordOf`): S_0 of its slope is a packet sent no later, with that
packet's time, so that the point an ack makes the next S_0 is on the curve again
although late echoes move it back.  `FlightIsSampled` speaks of bytes in flight at
sending; it needs `FlightAddsUp`, that the flight is what was sent but neither acked nor
lost while no packet has left unreported (`orderly`), and that needs every packet in
flight to have its record, which trimming up to the least unacked packet leaves
(`LeastIsBelowFlight`).  A round needs a packet sent in it (`RoundsInv`).
`SampleIsBounded` is what the slopes give: no subtraction of a sample goes below zero.
The ack height's does (`sampler_ack_height`), so of it only the word is shown.

`CubicSenderProofs` proves `OneCutbackPerRound`, the limits of the window and both
action properties of the `cubic` run for all sizes, RTTs and limits.  That the losses of
a flight cut once needs `CutIsCovered`: until a later packet is acked, no packet above
the last cut has been echoed, hence none above it can be found lost.  The limits of the
window need `SlowStartInSegments` (one more segment never overshoots the largest
window) and `EpochIsSound`, where the window is above the estimate of Reno's only on
the curve; that in turn rests on the curve rising with its argument (`CubeIsMonotone`,
`CurveRises`).  The minimum RTT is added to the clock there, so a shorter one takes the
curve back: the case `WindowMovesAreJustified` makes for it.

`BbrSenderProofs` proves the three invariants and the three action properties of the
`bbr1` run.  An event passes through the recovery state, the model, the modes and
the windows, in the code's order, and each stage has a lemma of what it establishes and
leaves alone; `OnCongestionEventKeeps` composes them.  `IInv` adds to the machines'
agreement that CONSERVATION ends with a packet not yet echoed (`ConservationIsOpen`),
that the exit time of PROBE_RTT and the time of low flight make up its duration
(`ProbeIsTimed`), that the filter's min RTT is no older than the last sample that could
have renewed it (`MinRttIsYoung`), and that the recovery window is set in recovery.
The order MinCwnd <= InitialCwnd <= MaxCwnd of `WindowAssumption` is that of the
code's constants: `kDefaultMinimumCongestionWindow` is four packets, and the manager
starts with `kInitialCongestionWindow`, 32.

`Bbr2Proofs` proves all of the `bbr2` run's safety: its invariants, and
that PROBE_RTT waits its period.  Between events `IInv` is `Steady` and `Settled`.
`Steady` also holds inside an event: the mode fits the phase, the filter is counted and
not empty once a round has started,
a sample of the probe has cut nothing yet, PROBE_REFILL counts no round before a
packet was sent in it, no lower bound is set while probing, PROBE_RTT is timed, and the
min RTT's age, which a quiescence sets back, is no more than the real one.  `Settled` is
what a handler may break until the event ends: gain, mode chosen next, growth rounds.
That an event changes the mode at most three times (`LoopAlwaysSettles`) is not an
invariant but a ranking: `MaxChanges` gives each mode the number of changes that may
still follow, `Ready` bounds the sum of it and `changes` by three, and each `...Answers` and `...IsLeft` lemma
leads from `Ready` to `Answered` and back with one change more.  The loop is a recursive
function; `FourTurns` unfolds it four times, after which nothing is left to do.

### What is only model-checked

- The liveness properties `PacketsLeaveFlight`, `ClientKeepsSending`,
  `BandwidthIsProbed` and `ProbeRttEnds`: liveness under fairness needs ENABLED,
  outside what the proof system handles.
- `PollsAreNotEarly` of `timer`: the backoff of the retransmission delay is a power of
  two, and that `2 ^ n` is even a number for every n takes an induction.
- The violation runs: a counterexample needs no proof.

## 6. Plan

Every invariant the runs check is a theorem.  In the order of importance remain:

1. Action properties of the sampler and of the deque: what one echo may do to the
   records of other packets, and which slots an operation may write.
2. `Bbr2` over `SentPacketManager` instead of over any flight: the controller's own
   count of the flight against the map's.
3. `PollsAreNotEarly`, if the backoff is written as a table of MaxRtoCount + 1 values
   whose doubling an invariant carries.

## 7. Not modelled

Serialisation of packets (`packet/`), logging, the value types for time,
bandwidth and packet numbers, vendored helpers in `common/`: formatting or
arithmetic far from its limits, without state of their own.  Where a value type's
rounding matters, in the products of `RttStats`, the model has it.

The per-number-space counters of the unacked map and the pending-timer flag are
maintained but never used by the manager of this repository.  Copying and swapping of
deques is never called.  `PrrSender` is asked by `TcpCubicSenderBytes::CanSend` alone,
which nothing calls, and is not told of sent packets (its call is commented out,
`tcp_cubic_sender_bytes.cc:107-110`).  Options that nothing sets are left out: BBRv1's
drain to target, overshooting detection and ack aggregation in startup, the sampler's
overestimate avoidance, Cubic's Reno mode and its large reduction in slow start, the
standard deviation of `RttStats`.

`Bbr2` does not follow the values of bandwidths and windows, nor the slope of PROBE_UP:
its modes depend on comparisons with them, which are choices of the event.
`BbrSender` leaves out the ack height's share of the window, which
`sampler_ack_height` shows to be unusable.
