-------------------------------- MODULE Pacer --------------------------------
(***************************************************************************)
(* The degradation pacer of shadowpipe-core/src/pacing.rs: a token bucket  *)
(* that gates the uplink, a rate recomputed from path samples, and the     *)
(* application-level probe that makes those samples on a TCP carrier from  *)
(* PING replies, the peer's data and the absence of replies.               *)
(*                                                                         *)
(* Time passes in ticks.  The code's floating-point quantities are natural *)
(* numbers in units the instance chooses, rounded down.                    *)
(***************************************************************************)
EXTENDS Naturals, FiniteSetsExt

CONSTANTS
    min_rate, max_rate, reference_rate,   \* units per tick
    ewma,                 \* ewma_alpha is 1 / ewma
    k_frac,               \* the covert share is 1 / k_frac
    JitterPercent,        \* the random-walk multipliers, in percent
    BurstMin, BurstMax, SliceMin, SliceMax,   \* clamps, in units
    DeliveredFloor,       \* PROBE_DELIVERED_ACTIVE_FLOOR
    RttHealthFloor,       \* PROBE_RTT_HEALTH_FLOOR, in percent
    StallLo, StallHi,     \* two and five ping intervals, in ticks
    Packets,              \* wire sizes the uplink asks for
    PeerBytes,            \* what the peer may deliver in a tick
    Rtts,                 \* round trips a reply may report, in ticks
    FreezeSamples         \* samples in which a freeze must reach the rate

ASSUME PacerAssumption ==
    /\ {min_rate, max_rate, reference_rate, ewma, k_frac, SliceMin, SliceMax, BurstMin,
        BurstMax, StallLo} \subseteq Nat \ {0}
    /\ min_rate <= max_rate /\ SliceMin <= BurstMin /\ SliceMax <= BurstMax
    /\ StallLo < StallHi

VARIABLES
    tokens,      \* the bucket
    idle,        \* ticks since last_refill, up to a full bucket
    rate,        \* rate_bps
    goodput,     \* goodput_ewma
    due,         \* time has passed since last_recompute
    remaining,   \* what the gate has still to grant, 0 when nobody waits
    sleep,       \* ticks until the gate looks again
    rtt,         \* rtt_ewma_s, 0 before the first reply (has_rtt)
    rttMin,
    delivered,   \* delivered_ewma
    inbox,       \* bytes_since_mark
    gap,         \* ticks since last_reply, up to StallHi
    slept,       \* ticks the waiting packet has slept, a history
    frozen       \* samples since replies stopped for StallHi, a history

bucket == <<tokens, idle>>
gate == <<remaining, sleep>>
control == <<rate, goodput, due>>
probe == <<rtt, rttMin, delivered, inbox, gap>>
pacerVars == <<bucket, gate, control, probe, slept, frozen>>

Clamp(x, lo, hi) == Max({lo, Min({x, hi})})

Ewma(x, old) == (x + (ewma - 1) * old) \div ewma

Sqrt(x) == Max({n \in 0..x : n * n <= x})

\* Linear below the reference rate, growing with the square root above it.
target_rate_bps(g) ==
    Clamp((IF g < reference_rate THEN g ELSE Sqrt(g * reference_rate)) \div k_frac,
          min_rate, max_rate)

\* Two milliseconds of credit in the code, one tick here.
burst(r) == Clamp(r, BurstMin, BurstMax)
max_gate_slice(r) == Clamp(r, SliceMin, SliceMax)

PacerInit ==
    /\ tokens = 0 /\ idle = 0
    /\ rate = target_rate_bps(reference_rate)
    /\ goodput = reference_rate
    /\ due = FALSE
    /\ remaining = 0 /\ sleep = 0
    /\ rtt = 0 /\ rttMin = 0 /\ delivered = 0 /\ inbox = 0 /\ gap = 0
    /\ slept = 0 /\ frozen = 0

-----------------------------------------------------------------------------
(* DegradationPacer::gate                                                   *)

\* The uplink has a packet and asks for its wire size.
Ask(n) ==
    /\ remaining = 0
    /\ remaining' = n /\ slept' = 0
    /\ UNCHANGED <<bucket, sleep, control, probe, frozen>>

Refilled == Min({tokens + idle * rate, burst(rate)})

\* Takes `take` of the packet for `need` tokens, or sleeps for the deficit.
TakeOrSleep(take, need) ==
    /\ remaining > 0 /\ sleep = 0
    /\ IF Refilled >= need
       THEN /\ tokens' = Refilled - need
            /\ remaining' = remaining - take
            /\ UNCHANGED sleep
       ELSE /\ tokens' = Refilled
            /\ sleep' = (need - Refilled + rate - 1) \div rate
            /\ UNCHANGED remaining
    /\ idle' = 0
    /\ UNCHANGED <<control, probe, slept, frozen>>

\* Mutant: the packet is asked for whole, whatever the bucket can hold.
TurnWhole == TakeOrSleep(remaining, remaining)

\* One turn of the loop: refill_and_take of one slice.
Turn ==
    LET take == Min({remaining, max_gate_slice(rate)})
    IN TakeOrSleep(take, Min({take, burst(rate)}))

-----------------------------------------------------------------------------
(* TcpAppRttProbe                                                           *)

\* on_reply: an echoed timestamp is a sample of the round trip and ends a stall.
OnReply(sample) ==
    /\ gap' = 0
    /\ IF rtt = 0
       THEN rtt' = sample /\ rttMin' = sample
       ELSE /\ rtt' = Ewma(sample, rtt)
            /\ rttMin' = Max({1, Min({rttMin, rtt'})})
    /\ frozen' = 0
    /\ UNCHANGED <<bucket, gate, control, delivered, inbox, slept>>

\* on_peer_data: the peer's data counts for the next sample.
OnPeerData(n) ==
    /\ inbox = 0
    /\ inbox' = n
    /\ UNCHANGED <<bucket, gate, control, rtt, rttMin, delivered, gap, slept, frozen>>

PathCapacity(d) == IF d > DeliveredFloor THEN d ELSE reference_rate

RttHealth == IF rtt = 0 THEN 100 ELSE Clamp((100 * rttMin) \div rtt, RttHealthFloor, 100)

\* Mutant: a path that answers nothing is as good as ever.
NeverStalled == 100

StallHealth ==
    CASE rtt = 0 \/ gap <= StallLo -> 100
      [] rtt # 0 /\ gap >= StallHi -> 0
      [] OTHER -> 100 - (100 * (gap - StallLo)) \div (StallHi - StallLo)

\* cwnd is g * rtt, at least one, and the pacer divides by rtt again.
SampledRate(d) == Max({1, (PathCapacity(d) * RttHealth * StallHealth) \div 10000})

\* The sampler: sample() drains the inbox, observe_path recomputes the rate.
Observe(jitter) ==
    /\ due
    /\ due' = FALSE
    /\ delivered' = Ewma(inbox, delivered)
    /\ inbox' = 0
    /\ goodput' = Ewma(SampledRate(delivered'), goodput)
    /\ LET target == Clamp((target_rate_bps(goodput') * jitter) \div 100, min_rate, max_rate)
       IN rate' = Clamp(Ewma(target, rate), min_rate, max_rate)
    /\ frozen' = IF rtt # 0 /\ gap = StallHi THEN Min({frozen + 1, FreezeSamples}) ELSE 0
    /\ UNCHANGED <<bucket, gate, rtt, rttMin, gap, slept>>

\* Time: the bucket gains credit when it is looked at, sleeps run down.
Tick ==
    /\ idle' = Min({idle + 1, BurstMax})
    /\ sleep' = IF sleep = 0 THEN 0 ELSE sleep - 1
    /\ slept' = IF sleep = 0 THEN slept ELSE slept + 1
    /\ due' = TRUE
    /\ gap' = Min({gap + 1, StallHi})
    /\ UNCHANGED <<tokens, rate, goodput, remaining, rtt, rttMin, delivered, inbox, frozen>>

Sample == \E j \in JitterPercent : Observe(j)

PacerNext ==
    \/ \E n \in Packets : Ask(n)
    \/ Turn
    \/ \E r \in Rtts : OnReply(r)
    \/ \E n \in PeerBytes : OnPeerData(n)
    \/ Sample
    \/ Tick

PacerSpec == PacerInit /\ [][PacerNext]_pacerVars

-----------------------------------------------------------------------------
\* The bucket, the slice and the rate move independently: the sampler may lower
\* the rate while the gate sleeps for a slice computed from the old one.  A packet
\* never sleeps longer than it takes to earn its size at the lowest rate.
GateReleases == remaining > 0 => slept * min_rate <= Max(Packets)

\* Once replies have stopped for good, FreezeSamples samples bring the rate to its
\* floor and it stays there, however much data the peer goes on delivering.
FreezeFloorsRate == frozen = FreezeSamples => rate = min_rate
=============================================================================
