--------------------------- MODULE ElasticFifoProofs ---------------------------
(****************************************************************************)
(* The safety properties of ElasticFifo, for every number of strips, every  *)
(* set of ranges and every value of the tuning constants that meets the     *)
(* assumptions.  The inductive invariant is one predicate on a single FIFO, *)
(* FifoOK; each operator on FIFOs has a lemma that says it keeps FifoOK.    *)
(* Lockstep is about two FIFOs: each operator takes two that agree on what  *)
(* Drift keeps to two that do.                                              *)
(****************************************************************************)
EXTENDS ElasticFifo, TLAPS

\* The ranges of the counters that the code never looks at again once it has
\* written them: what bounds the queue and the EWMA.
Bounds(f) ==
  /\ f \in FifoState
  /\ f.q <= MAX_QUEUE_FRAMES
  /\ f.window_min \in Frames \cup {USIZE_MAX}
  /\ f.ewma \in QuarterFrames \cup {-1}
  /\ f.anchor # None => f.anchor \in QuarterFrames
  /\ f.health_gain <= FADE_FULL

\* Only an armed FIFO is gated.
Gate(f) == ~f.elastic => ~f.degraded /\ f.health_gain = FADE_FULL

\* A clean window has been counted only by a block that then sampled a depth, so
\* the rollover that completes a recovery folds a real minimum into the EWMA.
CleanSampled(f) ==
  f.degraded /\ f.clean_windows >= 1 => f.window_min # USIZE_MAX

FifoOK(f) == Bounds(f) /\ Gate(f) /\ CleanSampled(f)

IInv ==
  /\ phase \in 0..(DRIFT_WINDOW_BLOCKS - 1)
  /\ pid_map \in [Key -> Ranges \cup {None}] /\ streams \subseteq Key
  /\ fifo \in [Chan -> FifoState]
  /\ \A c \in Chan : FifoOK(fifo[c])

--------------------------------------------------------------------------------
(* The operators *)

LEMMA NewFifoOK == NewFifo \in FifoState /\ FifoOK(NewFifo)
BY EnvAssumption, SlipAssumption, HealthAssumption
   DEF NewFifo, FifoOK, Bounds, Gate, CleanSampled, FifoState, Frames,
       QuarterFrames

\* A FIFO whose gate has just been reset satisfies the gate's invariants.
LEMMA ResetHealthOK ==
  ASSUME NEW f, Bounds(f)
  PROVE  FifoOK(ResetHealth(f))
<1>1. ResetHealth(f) \in FifoState
  BY HealthAssumption DEF ResetHealth, Bounds, FifoState
<1>2. Bounds(ResetHealth(f))
  BY <1>1, HealthAssumption DEF ResetHealth, Bounds, FifoState
<1>3. Gate(ResetHealth(f)) /\ CleanSampled(ResetHealth(f))
  BY DEF ResetHealth, Bounds, FifoState, Gate, CleanSampled
<1> QED
  BY <1>2, <1>3 DEF FifoOK

LEMMA ResetStreamOK ==
  ASSUME NEW f, FifoOK(f)
  PROVE  FifoOK(ResetStream(f))
<1> DEFINE unseeded == -1
           g == [f EXCEPT !.anchor = None, !.ewma = unseeded, !.fed_windows = 0,
                          !.window_min = USIZE_MAX, !.window_starved = FALSE]
<1>1. f \in FifoState /\ unseeded \in QuarterFrames \cup {-1} /\ unseeded \in Int
  BY DEF FifoOK, Bounds
<1> HIDE DEF unseeded
<1>2. g \in FifoState
  BY <1>1, SlipAssumption DEF FifoState
<1>3. Bounds(g)
  BY <1>1, <1>2, SlipAssumption DEF FifoOK, Bounds, FifoState
<1> QED
  BY <1>3, ResetHealthOK DEF ResetStream, unseeded

LEMMA DisarmOK ==
  ASSUME NEW f, FifoOK(f)
  PROVE  FifoOK(Disarm(f))
<1>1. Bounds([f EXCEPT !.elastic = FALSE])
  BY DEF FifoOK, Bounds, FifoState
<1> QED
  BY <1>1, ResetHealthOK DEF Disarm

\* Tripping the gate of an armed FIFO is always sound: it restarts the count of
\* clean windows.
LEMMA TripOK ==
  ASSUME NEW f, Bounds(f), f.elastic
  PROVE  FifoOK(Trip(f)) /\ Trip(f).elastic
<1>1. Trip(f) \in FifoState /\ Trip(f).elastic
  BY DEF Trip, Bounds, FifoState
<1>2. Bounds(Trip(f))
  BY <1>1 DEF Trip, Bounds, FifoState
<1>3. CleanSampled(Trip(f))
  BY DEF Trip, Bounds, FifoState, CleanSampled
<1> QED
  BY <1>1, <1>2, <1>3 DEF FifoOK, Gate

LEMMA PushOK ==
  ASSUME NEW f, FifoOK(f), NEW n \in FeedSizes
  PROVE  FifoOK(Push(f, n))
<1> DEFINE over == Greatest(f.q + n - MAX_QUEUE_FRAMES, 0)
           dropped == f.window_overflow_frames + over
           g == [f EXCEPT !.elastic = TRUE, !.age = 0, !.q = @ + n - over,
                          !.window_overflow_frames =
                             Least(dropped, HEALTH_FAST_OVERFLOW_FRAMES)]
<1>1. n \in Nat /\ f \in FifoState /\ f.q \in Nat
  BY EnvAssumption DEF FifoOK, Bounds, FifoState
<1>2. /\ over \in Nat /\ f.q + n - over \in Nat
      /\ f.q + n - over <= MAX_QUEUE_FRAMES
  BY <1>1, SlipAssumption DEF Greatest
<1>3. Least(dropped, HEALTH_FAST_OVERFLOW_FRAMES) \in Nat
  BY <1>1, <1>2, HealthAssumption DEF Least, FifoState
<1> HIDE DEF over
<1>4. FifoOK(g) /\ g.elastic
  BY <1>1, <1>2, <1>3 DEF FifoOK, Bounds, Gate, CleanSampled, FifoState
<1>5. FifoOK(Trip(g))
  BY <1>4, TripOK DEF FifoOK
<1> QED
  BY <1>4, <1>5 DEF Push, over

LEMMA RampOK ==
  ASSUME NEW gain \in 0..FADE_FULL, NEW degraded \in BOOLEAN, NEW n \in Nat
  PROVE  /\ Ramp(gain, degraded, n) \in 0..FADE_FULL
         /\ ~degraded /\ gain = FADE_FULL => Ramp(gain, degraded, n) = FADE_FULL
<1>1. n * FADE_OUT \in Nat /\ n * FADE_IN \in Nat
  BY HealthAssumption
<1> QED
  BY <1>1, HealthAssumption DEF Ramp, Least, Greatest

LEMMA PopOK ==
  ASSUME NEW f, FifoOK(f)
  PROVE  FifoOK(Pop(f)) /\ Pop(f).elastic = f.elastic
<1> DEFINE n == Least(BlockSize, Greatest(f.q, f.direct_q))
           gain == Ramp(f.health_gain, f.degraded, n)
           rest == f.q - Least(f.q, BlockSize)
           direct == f.direct_q - Least(f.direct_q, BlockSize)
<1>1. /\ f \in FifoState /\ n \in Nat
      /\ rest \in Nat /\ rest <= f.q /\ direct \in Nat
  BY EnvAssumption DEF FifoOK, Bounds, FifoState, Least, Greatest
<1>2. f.health_gain \in 0..FADE_FULL /\ f.degraded \in BOOLEAN
  BY HealthAssumption DEF FifoOK, Bounds, FifoState
<1> HIDE DEF n
<1>3. /\ gain \in 0..FADE_FULL
      /\ ~f.degraded /\ f.health_gain = FADE_FULL => gain = FADE_FULL
  BY <1>1, <1>2, RampOK
<1>4. Pop(f) = [f EXCEPT !.q = rest, !.direct_q = direct, !.health_gain = gain]
  BY <1>1 DEF Pop, n, FifoState
<1> HIDE DEF gain, rest, direct
<1>9. gain \in Nat
  BY <1>3, HealthAssumption
<1>5. Pop(f) \in FifoState
  BY <1>1, <1>4, <1>9 DEF FifoState
<1>6. Bounds(Pop(f))
  BY <1>1, <1>3, <1>4, <1>5, SlipAssumption, HealthAssumption
     DEF FifoOK, Bounds, FifoState
<1>7. /\ Pop(f).elastic = f.elastic /\ Pop(f).degraded = f.degraded
      /\ CleanSampled(Pop(f))
  BY <1>1, <1>4 DEF FifoOK, CleanSampled, FifoState
<1>8. Gate(Pop(f))
  BY <1>1, <1>3, <1>4, <1>7 DEF FifoOK, Gate, FifoState
<1> QED
  BY <1>6, <1>7, <1>8 DEF FifoOK

LEMMA CountStarveOK ==
  ASSUME NEW f, FifoOK(f), f.elastic
  PROVE  FifoOK(CountStarve(f)) /\ CountStarve(f).elastic
<1> DEFINE n == f.window_starved_blocks + 1
           g == [f EXCEPT !.window_starved = TRUE, !.window_starved_blocks = n]
<1>1. f \in FifoState /\ n \in Nat
  BY DEF FifoOK, Bounds, FifoState
<1>2. CountStarve(f) = IF g.window_starved_blocks >= HEALTH_FAST_STARVE_BLOCKS
                       THEN Trip(g) ELSE g
  BY <1>1 DEF CountStarve
<1> HIDE DEF n
<1>3. g \in FifoState /\ g.elastic
  BY <1>1 DEF FifoState
<1>4. Bounds(g)
  BY <1>1, <1>3 DEF FifoOK, Bounds, FifoState
<1>5. CleanSampled(g)
  BY <1>1 DEF FifoOK, Bounds, FifoState, CleanSampled
<1>6. FifoOK(Trip(g)) /\ Trip(g).elastic
  BY <1>3, <1>4, TripOK
<1> QED
  BY <1>2, <1>3, <1>4, <1>5, <1>6 DEF FifoOK, Gate

--------------------------------------------------------------------------------
(* The statistics window *)

\* Smoothing stays between the old EWMA and the new minimum, and never falls
\* back to the unseeded value once a depth has been sampled.
LEMMA FoldOK ==
  ASSUME NEW e \in QuarterFrames \cup {-1}, NEW m \in Frames \cup {USIZE_MAX}
  PROVE  /\ Fold(e, m) \in QuarterFrames \cup {-1}
         /\ m # USIZE_MAX => Fold(e, m) \in QuarterFrames
<1>1. CASE m = USIZE_MAX
  BY <1>1 DEF Fold
<1>2. CASE m # USIZE_MAX /\ e < 0
  BY <1>2, SlipAssumption DEF Fold, Frames, QuarterFrames
<1>3. CASE m # USIZE_MAX /\ ~(e < 0)
  <2>1. /\ e \in Int /\ 0 <= e /\ e <= 4 * MAX_QUEUE_FRAMES
        /\ m \in Int /\ 0 <= m /\ m <= MAX_QUEUE_FRAMES
    BY <1>3, SlipAssumption DEF Frames, QuarterFrames
  <2>2. /\ e + ((4 * m - e) \div 4) \in Int
        /\ 0 <= e + ((4 * m - e) \div 4)
        /\ e + ((4 * m - e) \div 4) <= 4 * MAX_QUEUE_FRAMES
    BY <2>1, SlipAssumption
  <2>3. Fold(e, m) = e + ((4 * m - e) \div 4)
    BY <1>3 DEF Fold
  <2> QED
    BY <2>2, <2>3, SlipAssumption DEF QuarterFrames
<1> QED
  BY <1>1, <1>2, <1>3, SlipAssumption DEF QuarterFrames

LEMMA ClearedOK ==
  ASSUME NEW f \in FifoState
  PROVE  [f EXCEPT !.window_inserts = 0, !.window_slips = 0,
                   !.window_overflow_frames = 0] \in FifoState
BY DEF FifoState

\* Closing a window keeps the bounds; the anchor a recovery re-bases is a
\* sampled depth because the window before it was sampled too.
LEMMA FinalizeWindowOK ==
  ASSUME NEW f, FifoOK(f), f.elastic
  PROVE  /\ Bounds(FinalizeWindow(f)) /\ FinalizeWindow(f).elastic
<1> DEFINE e == Fold(f.ewma, f.window_min)
           folded == [f EXCEPT !.ewma = e]
           n == folded.clean_windows + 1
           judged == Judge(folded)
<1>1. /\ f \in FifoState
      /\ e \in QuarterFrames \cup {-1}
      /\ f.window_min # USIZE_MAX => e \in QuarterFrames
  BY FoldOK DEF FifoOK, Bounds
<1>2. e \in Int
  BY <1>1, SlipAssumption DEF QuarterFrames
<1> HIDE DEF e
<1>3. folded \in FifoState /\ folded.elastic
  BY <1>1, <1>2 DEF FifoState
<1>4. Bounds(folded)
  BY <1>1, <1>2, <1>3 DEF FifoOK, Bounds, FifoState
<1>5. /\ n \in Nat /\ folded.ewma = e
      /\ folded.degraded /\ folded.clean_windows >= 1 => e \in QuarterFrames
  BY <1>1, <1>3 DEF FifoOK, CleanSampled, FifoState
<1>6. Bounds(judged) /\ judged.elastic
  <2>1. CASE WindowUnhealthy(folded)
    <3>1. judged = Trip(folded)
      BY <2>1 DEF Judge
    <3> QED
      BY <3>1, <1>3, <1>4, TripOK DEF FifoOK
  <2>2. CASE ~WindowUnhealthy(folded) /\ ~folded.degraded
    <3>1. judged = folded
      BY <2>2 DEF Judge
    <3> QED
      BY <3>1, <1>3, <1>4
  <2>3. CASE ~WindowUnhealthy(folded) /\ folded.degraded
    <3>1. judged = IF n >= HEALTH_RECOVERY_WINDOWS
                   THEN [folded EXCEPT !.clean_windows = n, !.degraded = FALSE,
                                       !.anchor = e]
                   ELSE [folded EXCEPT !.clean_windows = n]
      BY <2>3, <1>5 DEF Judge
    <3> HIDE DEF folded, judged
    <3>2. CASE n >= HEALTH_RECOVERY_WINDOWS
      <4>1. folded.clean_windows >= 1 /\ e \in QuarterFrames
        BY <3>2, <2>3, <1>3, <1>5, HealthAssumption DEF FifoState
      <4> HIDE DEF n
      <4>2. judged = [folded EXCEPT !.clean_windows = n, !.degraded = FALSE,
                                    !.anchor = e]
        BY <3>1, <3>2
      <4>3. judged \in FifoState /\ judged.elastic
        BY <4>2, <1>2, <1>3, <1>5 DEF FifoState
      <4> QED
        BY <4>1, <4>2, <4>3, <1>3, <1>4 DEF Bounds, FifoState
    <3>3. CASE ~(n >= HEALTH_RECOVERY_WINDOWS)
      <4> HIDE DEF n
      <4>1. judged = [folded EXCEPT !.clean_windows = n]
        BY <3>1, <3>3
      <4>2. judged \in FifoState /\ judged.elastic
        BY <4>1, <1>3, <1>5 DEF FifoState
      <4> QED
        BY <4>1, <4>2, <1>3, <1>4 DEF Bounds, FifoState
    <3> QED
      BY <3>2, <3>3
  <2> QED
    BY <2>1, <2>2, <2>3
<1>7. FinalizeWindow(f) =
        [judged EXCEPT !.window_min = USIZE_MAX, !.window_starved = FALSE,
                       !.window_starved_blocks = 0, !.window_inserts = 0,
                       !.window_slips = 0, !.window_overflow_frames = 0]
  BY DEF FinalizeWindow, e
<1> HIDE DEF judged
<1>8. judged \in FifoState
  BY <1>6 DEF Bounds
<1>9. FinalizeWindow(f) \in FifoState
  <2> DEFINE h == [judged EXCEPT !.window_min = USIZE_MAX,
                                 !.window_starved = FALSE,
                                 !.window_starved_blocks = 0]
  <2>1. h \in FifoState
    BY <1>8, SlipAssumption DEF FifoState
  <2>2. FinalizeWindow(f) = [h EXCEPT !.window_inserts = 0, !.window_slips = 0,
                                      !.window_overflow_frames = 0]
    BY <1>7, <1>8 DEF FifoState
  <2> HIDE DEF h
  <2> QED
    BY <2>1, <2>2, ClearedOK
<1>10. FinalizeWindow(f).elastic
  BY <1>6, <1>7, <1>8 DEF FifoState
<1> QED
  BY <1>10, <1>6, <1>7, <1>8, <1>9, SlipAssumption, HealthAssumption
     DEF Bounds, FifoState

LEMMA RolloverOK ==
  ASSUME NEW f, FifoOK(f), f.elastic
  PROVE  Bounds(Rollover(f)) /\ Rollover(f).elastic
<1> DEFINE closed == FinalizeWindow(f)
           fed == IF FedRecently(f)
                  THEN Least(f.fed_windows + 1, ANCHOR_INIT_WINDOWS) ELSE 0
           anchors == closed.anchor = None /\ fed >= ANCHOR_INIT_WINDOWS
                      /\ closed.ewma >= 0
           anchor == IF anchors THEN closed.ewma ELSE closed.anchor
<1>1. Bounds(closed) /\ closed.elastic /\ closed \in FifoState
  BY FinalizeWindowOK DEF Bounds
<1>2. fed \in Nat
  BY WindowAssumption DEF FifoOK, Bounds, FifoState, Least
<1> HIDE DEF closed, fed
<1>3. /\ anchor \in Int \cup {None}
      /\ anchor # None => anchor \in QuarterFrames
  BY <1>1 DEF Bounds, FifoState, QuarterFrames
<1>4. Rollover(f) = [closed EXCEPT !.stale = FALSE, !.fed_windows = fed,
                                   !.anchor = anchor]
  BY <1>1 DEF Rollover, closed, fed, FifoState
<1> HIDE DEF anchor
<1>5. Rollover(f) \in FifoState /\ Rollover(f).elastic
  BY <1>1, <1>2, <1>3, <1>4 DEF FifoState
<1> QED
  BY <1>1, <1>3, <1>4, <1>5 DEF Bounds, FifoState

LEMMA SampleOK ==
  ASSUME NEW f, Bounds(f), f.elastic
  PROVE  /\ Bounds(Sample(f)) /\ Sample(f).elastic
         /\ Sample(f).window_min # USIZE_MAX
<1> DEFINE m == Least(f.q, f.window_min)
<1>1. f \in FifoState /\ m \in Frames /\ m \in Nat /\ m # USIZE_MAX
  BY SlipAssumption DEF Bounds, FifoState, Frames, Least
<1>2. Sample(f) = [f EXCEPT !.window_min = m]
  BY <1>1 DEF Sample, FifoState
<1> HIDE DEF m
<1>3. Sample(f) \in FifoState /\ Sample(f).elastic
  BY <1>1, <1>2 DEF FifoState
<1> QED
  BY <1>1, <1>2, <1>3 DEF Bounds, FifoState

LEMMA AgeOK ==
  ASSUME NEW f, FifoOK(f)
  PROVE  FifoOK(Age(f))
<1> DEFINE a == Least(f.age + 1, FEED_RECENCY_WINDOWS + 1)
<1>1. f \in FifoState /\ a \in Nat
  BY WindowAssumption DEF FifoOK, Bounds, FifoState, Least
<1>2. Age(f) = [f EXCEPT !.stale = TRUE, !.age = a]
  BY <1>1 DEF Age, FifoState
<1> HIDE DEF a
<1>3. Age(f) \in FifoState /\ Age(f).elastic = f.elastic
  BY <1>1, <1>2 DEF FifoState
<1>4. Bounds(Age(f))
  BY <1>1, <1>2, <1>3 DEF FifoOK, Bounds, FifoState
<1>5. Gate(Age(f)) /\ CleanSampled(Age(f))
  BY <1>1, <1>2 DEF FifoOK, Gate, CleanSampled, FifoState
<1> QED
  BY <1>4, <1>5 DEF FifoOK

--------------------------------------------------------------------------------
(* Reconciliation *)

LEMMA TrimOK ==
  ASSUME NEW f, FifoOK(f), f.elastic, TrimArmed(f)
  PROVE  FifoOK(Trim(f)) /\ Trim(f).elastic
<1> DEFINE rest == f.q - SLIP_FRAMES
           n == f.window_slips + 1
           g == [f EXCEPT !.q = rest, !.window_slips = n,
                          !.cooldown = SLIP_COOLDOWN_BLOCKS]
<1>1. /\ f \in FifoState /\ n \in Nat /\ rest \in Nat /\ rest <= f.q
      /\ SLIP_COOLDOWN_BLOCKS \in Nat
  BY SlipAssumption DEF FifoOK, Bounds, FifoState, TrimArmed
<1>2. Trim(f) = IF n >= HEALTH_FAST_SLIPS THEN Trip(g) ELSE g
  BY <1>1 DEF Trim, FifoState
<1> HIDE DEF rest, n
<1>3. g \in FifoState /\ g.elastic
  BY <1>1 DEF FifoState
<1>4. Bounds(g)
  BY <1>1, <1>3, SlipAssumption DEF FifoOK, Bounds, FifoState
<1>5. CleanSampled(g)
  BY <1>1 DEF FifoOK, CleanSampled, FifoState
<1>6. FifoOK(Trip(g)) /\ Trip(g).elastic
  BY <1>3, <1>4, TripOK
<1> QED
  BY <1>2, <1>3, <1>4, <1>5, <1>6 DEF FifoOK, Gate

\* The only growth of the queue that looks at no cap: the refill ceiling is what
\* bounds it.
LEMMA InsertOK ==
  ASSUME NEW f, FifoOK(f), f.elastic, InsertArmed(f)
  PROVE  FifoOK(Insert(f)) /\ Insert(f).elastic
<1> DEFINE longer == f.q + SLIP_FRAMES
           n == f.window_inserts + 1
<1>1. /\ f \in FifoState
      /\ longer \in Nat /\ longer <= MAX_QUEUE_FRAMES
      /\ n \in Nat
      /\ SLIP_COOLDOWN_BLOCKS \in Nat
  BY SlipAssumption, HealthAssumption
     DEF FifoOK, Bounds, FifoState, InsertArmed
<1>2. Insert(f) = [f EXCEPT !.q = longer, !.window_inserts = n,
                            !.cooldown = SLIP_COOLDOWN_BLOCKS]
  BY <1>1 DEF Insert, FifoState
<1> HIDE DEF longer, n
<1>3. Insert(f) \in FifoState /\ Insert(f).elastic
  BY <1>1, <1>2 DEF FifoState
<1>4. Bounds(Insert(f))
  BY <1>1, <1>2, <1>3 DEF FifoOK, Bounds, FifoState
<1>5. CleanSampled(Insert(f))
  BY <1>1, <1>2 DEF FifoOK, CleanSampled, FifoState
<1> QED
  BY <1>3, <1>4, <1>5 DEF FifoOK, Gate

LEMMA CorrectOK ==
  ASSUME NEW f, FifoOK(f), f.elastic
  PROVE  FifoOK(Correct(f)) /\ Correct(f).elastic
<1>1. f \in FifoState /\ f.cooldown \in Nat
  BY DEF FifoOK, Bounds, FifoState
<1>2. CASE f.cooldown > 0
  <2> DEFINE n == f.cooldown - 1
  <2>1. n \in Nat
    BY <1>1, <1>2
  <2>2. Correct(f) = [f EXCEPT !.cooldown = n]
    BY <1>1, <1>2 DEF Correct
  <2> HIDE DEF n
  <2>3. Correct(f) \in FifoState /\ Correct(f).elastic
    BY <1>1, <2>1, <2>2 DEF FifoState
  <2>4. Bounds(Correct(f))
    BY <1>1, <2>1, <2>2, <2>3 DEF FifoOK, Bounds, FifoState
  <2>5. CleanSampled(Correct(f))
    BY <1>1, <2>2 DEF FifoOK, CleanSampled, FifoState
  <2> QED
    BY <2>3, <2>4, <2>5 DEF FifoOK, Gate
<1>3. CASE f.cooldown = 0 /\ f.anchor = None
  BY <1>3 DEF Correct
<1>4. CASE f.cooldown = 0 /\ f.anchor # None
  <2>1. Correct(f) = IF TrimArmed(f) THEN Trim(f)
                     ELSE IF InsertArmed(f) THEN Insert(f) ELSE f
    BY <1>4 DEF Correct
  <2> QED
    BY <2>1, TrimOK, InsertOK
<1> QED
  BY <1>1, <1>2, <1>3, <1>4

LEMMA DrainFifoOK ==
  ASSUME NEW f, FifoOK(f)
  PROVE  FifoOK(DrainFifo(f))
<1> DEFINE starved == f.q < BlockSize
           p == Pop(f)
           counted == IF starved THEN CountStarve(p) ELSE p
           rolled == IF counted.stale THEN Rollover(counted) ELSE counted
           sampled == Sample(rolled)
<1>1. FifoOK(p) /\ p.elastic = f.elastic
  BY PopOK
<1>2. CASE f.elastic
  <2>1. FifoOK(counted) /\ counted.elastic
    BY <1>1, <1>2, CountStarveOK
  <2> HIDE DEF counted
  <2>2. Bounds(rolled) /\ rolled.elastic
    BY <2>1, RolloverOK DEF FifoOK
  <2> HIDE DEF rolled
  <2>3. /\ Bounds(sampled) /\ sampled.elastic
        /\ sampled.window_min # USIZE_MAX
    BY <2>2, SampleOK
  <2> HIDE DEF sampled
  <2>4. FifoOK(sampled)
    BY <2>3 DEF FifoOK, Gate, CleanSampled
  <2>5. FifoOK(Correct(sampled))
    BY <2>3, <2>4, CorrectOK
  <2> QED
    BY <1>2, <2>5 DEF DrainFifo, Reconcile, counted, rolled, sampled
<1>3. CASE ~f.elastic
  BY <1>1, <1>3 DEF DrainFifo
<1> QED
  BY <1>2, <1>3

--------------------------------------------------------------------------------
(* The specification *)

LEMMA InitIInv == Init => IInv
BY NewFifoOK, WindowAssumption DEF Init, IInv

\* A step that leaves every FIFO sound leaves the array of them well typed.
LEMMA FifosOK ==
  ASSUME NEW g, DOMAIN g = Chan, g = [c \in Chan |-> g[c]],
         \A c \in Chan : FifoOK(g[c])
  PROVE  g \in [Chan -> FifoState]
BY DEF FifoOK, Bounds

LEMMA NextIInv == IInv /\ [Next]_vars => IInv'
<1> SUFFICES ASSUME IInv, [Next]_vars PROVE IInv'
  OBVIOUS
<1>1. /\ phase \in 0..(DRIFT_WINDOW_BLOCKS - 1)
      /\ fifo \in [Chan -> FifoState]
      /\ pid_map \in [Key -> Ranges \cup {None}] /\ streams \subseteq Key
      /\ \A c \in Chan : FifoOK(fifo[c])
  BY DEF IInv
<1>2. ASSUME NEW k \in Key, NEW r \in Ranges, MapPid(k, r) PROVE IInv'
  <2>1. fifo' = [c \in Chan |-> IF c \in r THEN ResetStream(fifo[c]) ELSE fifo[c]]
    BY <1>2 DEF MapPid
  <2>2. \A c \in Chan : FifoOK(fifo'[c])
    BY <1>1, <2>1, ResetStreamOK
  <2>3. /\ phase' = phase /\ pid_map' \in [Key -> Ranges \cup {None}]
        /\ streams' \subseteq Key
    BY <1>1, <1>2 DEF MapPid
  <2> QED
    BY <1>1, <2>1, <2>2, <2>3, FifosOK DEF IInv
<1>3. ASSUME NEW k \in Key, UnmapPid(k) PROVE IInv'
  <2>1. fifo' = [c \in Chan |->
                   IF c \in Mapped(k) THEN Disarm(fifo[c]) ELSE fifo[c]]
    BY <1>3 DEF UnmapPid
  <2>2. \A c \in Chan : FifoOK(fifo'[c])
    BY <1>1, <2>1, DisarmOK
  <2>3. /\ phase' = phase /\ pid_map' \in [Key -> Ranges \cup {None}]
        /\ streams' \subseteq Key
    BY <1>1, <1>3 DEF UnmapPid
  <2> QED
    BY <1>1, <2>1, <2>2, <2>3, FifosOK DEF IInv
<1>4. ASSUME NEW k \in Key, NEW n \in FeedSizes, FeedPcm(k, n) PROVE IInv'
  <2>1. fifo' = [c \in Chan |->
                   IF c \in Mapped(k) THEN Push(fifo[c], n) ELSE fifo[c]]
    BY <1>4 DEF FeedPcm
  <2>2. \A c \in Chan : FifoOK(fifo'[c])
    BY <1>1, <2>1, PushOK
  <2> QED
    BY <1>1, <1>4, <2>1, <2>2, FifosOK DEF IInv, FeedPcm
<1>5. ASSUME NEW c \in ToneChan, SetChannelInput(c) PROVE IInv'
  <2> DEFINE n == Least(fifo[c].direct_q + BlockSize, MAX_QUEUE_FRAMES)
  <2>1. c \in Chan /\ fifo[c] \in FifoState
    BY <1>1, EnvAssumption
  <2>2. n \in Nat
    BY <2>1, EnvAssumption, SlipAssumption DEF FifoState, Least
  <2>3. fifo' = [fifo EXCEPT ![c] = [fifo[c] EXCEPT !.direct_q = n]]
    BY <1>1, <1>5, <2>1 DEF SetChannelInput
  <2> HIDE DEF n
  <2> DEFINE g == [fifo[c] EXCEPT !.direct_q = n]
  <2>4. g \in FifoState
    BY <2>1, <2>2 DEF FifoState
  <2>5. FifoOK(g)
    <3>1. Bounds(g)
      BY <1>1, <2>1, <2>4 DEF FifoOK, Bounds, FifoState
    <3>2. Gate(g) /\ CleanSampled(g)
      BY <1>1, <2>1 DEF FifoOK, Gate, CleanSampled, FifoState
    <3> QED
      BY <3>1, <3>2 DEF FifoOK
  <2> HIDE DEF g
  <2>6. fifo' \in [Chan -> FifoState] /\ \A d \in Chan : FifoOK(fifo'[d])
    BY <1>1, <2>1, <2>3, <2>4, <2>5 DEF g
  <2> QED
    BY <1>1, <1>5, <2>6 DEF IInv, SetChannelInput
<1>6. CASE ProcessBlock
  <2>1. fifo' = [c \in Chan |->
                   DrainFifo(IF phase' = 0 THEN Age(fifo[c]) ELSE fifo[c])]
    BY <1>6 DEF ProcessBlock
  <2>2. ASSUME NEW c \in Chan PROVE FifoOK(fifo'[c])
    <3>1. FifoOK(IF phase' = 0 THEN Age(fifo[c]) ELSE fifo[c])
      BY <1>1, AgeOK
    <3> QED
      BY <2>1, <3>1, DrainFifoOK
  <2>3. phase' \in 0..(DRIFT_WINDOW_BLOCKS - 1)
    BY <1>1, <1>6, WindowAssumption DEF ProcessBlock
  <2> QED
    BY <1>1, <1>6, <2>1, <2>2, <2>3, FifosOK DEF IInv, ProcessBlock
<1>7. ASSUME NEW k \in Key, ForgetStream(k) PROVE IInv'
  BY <1>1, <1>7 DEF IInv, ForgetStream
<1>8. CASE UNCHANGED vars
  BY <1>1, <1>8 DEF IInv, vars
<1> QED
  BY <1>2, <1>3, <1>4, <1>5, <1>6, <1>7, <1>8 DEF Next

LEMMA Invariance == Spec => []IInv
BY InitIInv, NextIInv, PTL DEF Spec

\* The state of every FIFO, the window phase and the PID map keep their types.
THEOREM TypeCorrect == Spec => []TypeOK
<1>1. IInv => TypeOK
  BY DEF IInv, TypeOK
<1> QED
  BY <1>1, Invariance, PTL

\* No sequence of feeds, blocks and remaps makes a queue outgrow the memory cap,
\* whatever the cap, the slip size and the refill ceiling are, as long as one
\* slip above the ceiling still fits.
THEOREM DepthStaysBounded == Spec => []DepthBounded
<1>1. IInv => DepthBounded
  BY DEF IInv, FifoOK, Bounds, DepthBounded
<1> QED
  BY <1>1, Invariance, PTL

\* Every anchor is a depth the queue really had.
THEOREM AnchorsAreSampled == Spec => []AnchorSampled
<1>1. IInv => AnchorSampled
  BY DEF IInv, FifoOK, Bounds, AnchorSampled
<1> QED
  BY <1>1, Invariance, PTL

--------------------------------------------------------------------------------
(* What is armed is mapped *)

\* An unmap disarms the strips it takes the mapping from, and nothing arms a strip
\* but a feed through a mapping.  What the worklet forgets stays mapped here.
ArmedMapped == \A c \in Chan : fifo[c].elastic => \E k \in Key : c \in Mapped(k)

LEMMA DrainArmsNot ==
  ASSUME NEW f, FifoOK(f), ~f.elastic
  PROVE  ~DrainFifo(f).elastic /\ ~DrainFifo(Age(f)).elastic
<1>1. FifoOK(Age(f)) /\ ~Age(f).elastic
  BY AgeOK DEF Age, FifoOK, Bounds, FifoState
<1> QED
  BY <1>1, PopOK DEF DrainFifo

LEMMA NextArmedMapped ==
  ASSUME IInv, ArmedMapped, [Next]_vars PROVE ArmedMapped'
<1>1. /\ pid_map \in [Key -> Ranges \cup {None}]
      /\ \A c \in Chan : fifo[c] \in FifoState /\ FifoOK(fifo[c])
  BY DEF IInv
\* Enough: a strip armed after the step was armed before it, and keeps a mapping.
<1> SUFFICES ASSUME NEW c \in Chan, fifo'[c].elastic
             PROVE  \E k \in Key : c \in Mapped(k)'
  BY DEF ArmedMapped
<1>2. fifo[c].elastic => \E k \in Key : c \in Mapped(k)
  BY DEF ArmedMapped
<1>3. ASSUME NEW k \in Key, NEW r \in Ranges, MapPid(k, r)
      PROVE  \E j \in Key : c \in Mapped(j)'
  <2>1. ResetStream(fifo[c]).elastic = fifo[c].elastic
    BY <1>1 DEF ResetStream, ResetHealth, FifoState
  <2>2. fifo[c].elastic
    BY <1>3, <2>1 DEF MapPid
  <2>3. \A j \in Key : Mapped(j) \subseteq Mapped(j)'
    BY <1>1, <1>3 DEF MapPid, Mapped
  <2> QED
    BY <1>2, <2>2, <2>3
<1>4. ASSUME NEW k \in Key, UnmapPid(k) PROVE \E j \in Key : c \in Mapped(j)'
  <2>1. ~Disarm(fifo[c]).elastic
    BY <1>1 DEF Disarm, ResetHealth, FifoState
  <2>2. c \notin Mapped(k) /\ fifo[c].elastic
    BY <1>4, <2>1 DEF UnmapPid
  <2>3. \A j \in Key : j # k => Mapped(j)' = Mapped(j)
    BY <1>1, <1>4 DEF UnmapPid, Mapped
  <2> QED
    BY <1>2, <2>2, <2>3
<1>5. ASSUME NEW k \in Key, NEW n \in FeedSizes, FeedPcm(k, n)
      PROVE  \E j \in Key : c \in Mapped(j)'
  <2>1. c \in Mapped(k) \/ fifo[c].elastic
    BY <1>5 DEF FeedPcm
  <2>2. \A j \in Key : Mapped(j)' = Mapped(j)
    BY <1>5 DEF FeedPcm, Mapped
  <2> QED
    BY <1>2, <2>1, <2>2
<1>6. ASSUME NEW t \in ToneChan, SetChannelInput(t)
      PROVE  \E j \in Key : c \in Mapped(j)'
  <2>1. fifo[c].elastic
    <3>1. fifo \in [Chan -> FifoState]
      BY DEF IInv
    <3> QED
      BY <1>6, <3>1 DEF SetChannelInput, FifoState
  <2>2. \A j \in Key : Mapped(j)' = Mapped(j)
    BY <1>6 DEF SetChannelInput, Mapped
  <2> QED
    BY <1>2, <2>1, <2>2
<1>7. CASE ProcessBlock
  <2>1. fifo'[c] \in {DrainFifo(fifo[c]), DrainFifo(Age(fifo[c]))}
    BY <1>7 DEF ProcessBlock
  <2>2. fifo[c].elastic
    BY <1>1, <2>1, DrainArmsNot
  <2>3. \A j \in Key : Mapped(j)' = Mapped(j)
    BY <1>7 DEF ProcessBlock, Mapped
  <2> QED
    BY <1>2, <2>2, <2>3
<1>8. CASE UNCHANGED <<fifo, pid_map>>
  BY <1>2, <1>8 DEF Mapped
<1> QED
  BY <1>3, <1>4, <1>5, <1>6, <1>7, <1>8 DEF Next, ForgetStream, vars

\* A strip is gated or faded only while the core has a stream mapped onto it: an
\* unmap, in whatever state of the gate it comes, leaves the strips it frees
\* audible, and blocks and tones that follow keep them so.
THEOREM GateNeedsMapping == Spec => []OnlyMappedStripsGated
<1>1. Init => ArmedMapped
  BY DEF Init, NewFifo, ArmedMapped
<1>2. IInv /\ ArmedMapped /\ [Next]_vars => ArmedMapped'
  BY NextArmedMapped
<1>3. IInv /\ ArmedMapped => OnlyMappedStripsGated
  <2> SUFFICES ASSUME IInv, ArmedMapped, NEW c \in Chan, fifo[c].degraded \/ fifo[c].health_gain # FADE_FULL
               PROVE  \E k \in Key : c \in Mapped(k)
    BY DEF OnlyMappedStripsGated
  <2>1. fifo[c].elastic
    BY DEF IInv, FifoOK, Gate
  <2> QED
    BY <2>1 DEF ArmedMapped
<1> QED
  BY <1>1, <1>2, <1>3, Invariance, PTL DEF Spec
--------------------------------------------------------------------------------
(* Lockstep *)

\* What Drift keeps of a FIFO, field by field.
Alike(f, g) ==
  /\ f.q = g.q /\ f.elastic = g.elastic /\ f.stale = g.stale /\ f.age = g.age
  /\ f.window_min = g.window_min /\ f.window_starved = g.window_starved
  /\ f.window_starved_blocks = g.window_starved_blocks
  /\ f.window_inserts = g.window_inserts /\ f.window_slips = g.window_slips
  /\ f.window_overflow_frames = g.window_overflow_frames
  /\ f.ewma = g.ewma /\ f.fed_windows = g.fed_windows /\ f.anchor = g.anchor
  /\ f.cooldown = g.cooldown /\ f.degraded = g.degraded
  /\ f.clean_windows = g.clean_windows

LEMMA DriftAlike ==
  ASSUME NEW f \in FifoState, NEW g \in FifoState
  PROVE  Drift(f) = Drift(g) <=> Alike(f, g)
<1>1. /\ Drift(f) \in FifoState /\ Alike(Drift(f), f)
      /\ Drift(f).direct_q = 0 /\ Drift(f).health_gain = 0
  BY DEF Drift, FifoState, Alike
<1>2. /\ Drift(g) \in FifoState /\ Alike(Drift(g), g)
      /\ Drift(g).direct_q = 0 /\ Drift(g).health_gain = 0
  BY DEF Drift, FifoState, Alike
<1>3. Drift(f) = Drift(g) => Alike(f, g)
  BY <1>1, <1>2 DEF Alike
<1>4. ASSUME Alike(f, g) PROVE Drift(f) = Drift(g)
  BY <1>4, <1>1, <1>2 DEF Alike, FifoState
<1> QED
  BY <1>3, <1>4

LEMMA PushAlike ==
  ASSUME NEW f \in FifoState, NEW g \in FifoState, Alike(f, g), NEW n \in Nat
  PROVE  Alike(Push(f, n), Push(g, n))
BY DEF Push, Trip, FifoState, Alike

LEMMA PopAlike ==
  ASSUME NEW f \in FifoState, NEW g \in FifoState, Alike(f, g)
  PROVE  Alike(Pop(f), Pop(g))
BY DEF Pop, FifoState, Alike

LEMMA CountStarveAlike ==
  ASSUME NEW f \in FifoState, NEW g \in FifoState, Alike(f, g)
  PROVE  Alike(CountStarve(f), CountStarve(g))
BY DEF CountStarve, Trip, FifoState, Alike

LEMMA JudgeAlike ==
  ASSUME NEW f \in FifoState, NEW g \in FifoState, Alike(f, g)
  PROVE  Alike(Judge(f), Judge(g))
<1>1. /\ WindowUnhealthy(f) <=> WindowUnhealthy(g)
      /\ f.degraded = g.degraded /\ f.clean_windows = g.clean_windows
  BY DEF WindowUnhealthy, Alike
<1>2. Alike(Trip(f), Trip(g))
  BY DEF Trip, FifoState, Alike
<1>3. CASE WindowUnhealthy(f)
  BY <1>1, <1>2, <1>3 DEF Judge
<1>4. CASE ~WindowUnhealthy(f) /\ ~f.degraded
  BY <1>1, <1>4 DEF Judge
<1>5. CASE ~WindowUnhealthy(f) /\ f.degraded
  BY <1>1, <1>5 DEF Judge, FifoState, Alike
<1> QED
  BY <1>3, <1>4, <1>5

LEMMA SampleAlike ==
  ASSUME NEW f \in FifoState, NEW g \in FifoState, Alike(f, g)
  PROVE  Alike(Sample(f), Sample(g))
BY DEF Sample, FifoState, Alike

LEMMA AgeAlike ==
  ASSUME NEW f \in FifoState, NEW g \in FifoState, Alike(f, g)
  PROVE  Alike(Age(f), Age(g))
BY DEF Age, FifoState, Alike

LEMMA CorrectAlike ==
  ASSUME NEW f \in FifoState, NEW g \in FifoState, Alike(f, g)
  PROVE  Alike(Correct(f), Correct(g))
<1>1. TrimArmed(f) = TrimArmed(g) /\ InsertArmed(f) = InsertArmed(g)
  BY DEF TrimArmed, InsertArmed, FedRecently, Alike
<1>2. Alike(Trim(f), Trim(g)) /\ Alike(Insert(f), Insert(g))
  BY DEF Trim, Trip, Insert, FifoState, Alike
<1> QED
  BY <1>1, <1>2 DEF Correct, FifoState, Alike

LEMMA FinalizeWindowAlike ==
  ASSUME NEW f, NEW g, FifoOK(f), FifoOK(g), f.elastic, g.elastic, Alike(f, g)
  PROVE  Alike(FinalizeWindow(f), FinalizeWindow(g))
<1> DEFINE F == [f EXCEPT !.ewma = Fold(f.ewma, f.window_min)]
           G == [g EXCEPT !.ewma = Fold(g.ewma, g.window_min)]
<1>1. Fold(f.ewma, f.window_min) \in Int /\ Fold(g.ewma, g.window_min) \in Int
  BY FoldOK, SlipAssumption DEF FifoOK, Bounds, QuarterFrames
<1>2. F \in FifoState /\ G \in FifoState /\ Alike(F, G)
  BY <1>1 DEF FifoOK, Bounds, FifoState, Alike
<1>3. /\ FinalizeWindow(f) \in FifoState /\ FinalizeWindow(g) \in FifoState
      /\ FinalizeWindow(f) = [Judge(F) EXCEPT
           !.window_min = USIZE_MAX, !.window_starved = FALSE,
           !.window_starved_blocks = 0, !.window_inserts = 0,
           !.window_slips = 0, !.window_overflow_frames = 0]
      /\ FinalizeWindow(g) = [Judge(G) EXCEPT
           !.window_min = USIZE_MAX, !.window_starved = FALSE,
           !.window_starved_blocks = 0, !.window_inserts = 0,
           !.window_slips = 0, !.window_overflow_frames = 0]
  BY FinalizeWindowOK DEF FinalizeWindow, Bounds
<1> HIDE DEF F, G
<1>4. /\ Alike(Judge(F), Judge(G))
      /\ Judge(F) \in FifoState /\ Judge(G) \in FifoState
  <2>1. ASSUME NEW h \in FifoState PROVE Judge(h) \in FifoState
    <3>1. h.clean_windows + 1 \in Nat /\ Trip(h) \in FifoState
      <4>1. h.clean_windows \in Nat
        BY <2>1 DEF FifoState
      <4>2. Trip(h) \in FifoState
        BY <2>1 DEF Trip, FifoState
      <4> QED
        BY <4>1, <4>2
    <3>2. CASE WindowUnhealthy(h)
      BY <3>1, <3>2 DEF Judge
    <3>3. CASE ~WindowUnhealthy(h) /\ ~h.degraded
      BY <3>3 DEF Judge
    <3>4. CASE ~WindowUnhealthy(h) /\ h.degraded
      <4> DEFINE n == h.clean_windows + 1
      <4>1. Judge(h) = IF n >= HEALTH_RECOVERY_WINDOWS
                       THEN [h EXCEPT !.clean_windows = n, !.degraded = FALSE,
                                      !.anchor = h.ewma]
                       ELSE [h EXCEPT !.clean_windows = n]
        BY <3>4 DEF Judge
      <4>2. n \in Nat
        BY <3>1
      <4> HIDE DEF n
      <4>3. [h EXCEPT !.clean_windows = n] \in FifoState
        BY <2>1, <4>2 DEF FifoState
      <4>4. [h EXCEPT !.clean_windows = n, !.degraded = FALSE, !.anchor = h.ewma]
              \in FifoState
        BY <2>1, <4>2 DEF FifoState
      <4> QED
        BY <4>1, <4>3, <4>4
    <3> QED
      BY <3>2, <3>3, <3>4
  <2> QED
    BY <1>2, <2>1, JudgeAlike
<1> QED
  BY <1>3, <1>4 DEF Alike, FifoState

LEMMA RolloverAlike ==
  ASSUME NEW f, NEW g, FifoOK(f), FifoOK(g), f.elastic, g.elastic, Alike(f, g)
  PROVE  Alike(Rollover(f), Rollover(g))
<1>1. /\ FinalizeWindow(f) \in FifoState /\ FinalizeWindow(g) \in FifoState
      /\ Alike(FinalizeWindow(f), FinalizeWindow(g))
  BY FinalizeWindowOK, FinalizeWindowAlike DEF Bounds
<1> QED
  BY <1>1 DEF Rollover, FedRecently, Alike, FifoState

\* Neither what plays over the stream nor its gain reaches reconciliation.
LEMMA DrainFifoAlike ==
  ASSUME NEW f, NEW g, FifoOK(f), FifoOK(g), Alike(f, g)
  PROVE  Alike(DrainFifo(f), DrainFifo(g))
<1> DEFINE pf == Pop(f)
           pg == Pop(g)
           starved == f.q < BlockSize
           cf == IF starved THEN CountStarve(pf) ELSE pf
           cg == IF starved THEN CountStarve(pg) ELSE pg
           rf == IF cf.stale THEN Rollover(cf) ELSE cf
           rg == IF cg.stale THEN Rollover(cg) ELSE cg
<1>1. /\ FifoOK(pf) /\ pf.elastic = f.elastic /\ f.elastic = g.elastic
      /\ FifoOK(pg) /\ pg.elastic = g.elastic /\ f.q = g.q
      /\ Alike(pf, pg)
  BY PopOK, PopAlike DEF Alike, FifoOK, Bounds
<1>2. CASE f.elastic
  <2> HIDE DEF pf, pg
  <2>1. /\ FifoOK(cf) /\ cf.elastic /\ FifoOK(cg) /\ cg.elastic
        /\ Alike(cf, cg)
    BY <1>1, <1>2, CountStarveOK, CountStarveAlike DEF FifoOK, Bounds
  <2> HIDE DEF cf, cg
  <2>2. /\ Bounds(rf) /\ rf.elastic /\ Bounds(rg) /\ rg.elastic
        /\ Alike(rf, rg)
    <3>1. cf.stale = cg.stale
      BY <2>1 DEF Alike
    <3> QED
      BY <2>1, <3>1, RolloverOK, RolloverAlike DEF FifoOK
  <2> HIDE DEF rf, rg
  <2>3. /\ Sample(rf) \in FifoState /\ Sample(rg) \in FifoState
        /\ Alike(Sample(rf), Sample(rg))
    BY <2>2, SampleOK, SampleAlike DEF Bounds
  <2>4. Alike(Correct(Sample(rf)), Correct(Sample(rg)))
    BY <2>3, CorrectAlike
  <2>5. /\ DrainFifo(f) = Correct(Sample(rf))
        /\ DrainFifo(g) = Correct(Sample(rg))
    BY <1>1, <1>2 DEF DrainFifo, Reconcile, rf, rg, cf, cg, pf, pg
  <2> QED
    BY <2>4, <2>5
<1>3. CASE ~f.elastic
  BY <1>1, <1>3 DEF DrainFifo
<1> QED
  BY <1>2, <1>3

\* No strip belongs to two streams the worklet feeds.  Without it a remap of one
\* key could reset half of another one's pair.  Forgotten mappings may lie across
\* theirs, but are never fed, remapped or unmapped again.
StripsDisjoint ==
  \A j, k \in streams : j # k => Mapped(j) \cap Mapped(k) = {}

LEMMA NextStripsDisjoint ==
  ASSUME IInv, StripsDisjoint, [Next]_vars PROVE StripsDisjoint'
<1> USE DEF StripsDisjoint
<1>1. pid_map \in [Key -> Ranges \cup {None}] /\ streams \subseteq Key
  BY DEF IInv
<1>2. ASSUME NEW k \in Key, NEW r \in Ranges, MapPid(k, r) PROVE StripsDisjoint'
  <2>1. /\ streams' = streams \cup {k} /\ k \notin streams
        /\ \A j \in streams : Mapped(j)' = Mapped(j) /\ Mapped(j) \cap r = {}
    BY <1>1, <1>2 DEF MapPid, Mapped
  <2>2. Mapped(k)' \subseteq r
    BY <1>1, <1>2 DEF MapPid, Mapped
  <2> QED
    BY <2>1, <2>2
<1>3. ASSUME NEW k \in Key, UnmapPid(k) PROVE StripsDisjoint'
  <2>1. \A j \in streams' : j \in streams /\ Mapped(j)' = Mapped(j)
    BY <1>1, <1>3 DEF UnmapPid, Mapped
  <2> QED
    BY <2>1
<1>4. CASE pid_map' = pid_map /\ streams' \subseteq streams
  BY <1>4 DEF Mapped
<1> QED
  BY <1>2, <1>3, <1>4 DEF Next, ForgetStream, FeedPcm, SetChannelInput, ProcessBlock, vars

\* What LockstepKept asks of one step.
LockstepStep ==
  \A k \in streams \cap streams' : \A c, d \in Mapped(k) \cap Mapped(k)' :
     Drift(fifo[c]) = Drift(fifo[d]) => Drift(fifo[c])' = Drift(fifo[d])'

LEMMA NextLockstep ==
  ASSUME IInv, IInv', StripsDisjoint, Next PROVE LockstepStep
<1> SUFFICES ASSUME NEW j \in streams \cap streams', NEW c \in Mapped(j) \cap Mapped(j)',
                    NEW d \in Mapped(j) \cap Mapped(j)',
                    Drift(fifo[c]) = Drift(fifo[d])
             PROVE  Drift(fifo'[c]) = Drift(fifo'[d])
  BY DEF LockstepStep, Drift
<1>1. /\ c \in Chan /\ d \in Chan
      /\ fifo[c] \in FifoState /\ fifo[d] \in FifoState
      /\ fifo'[c] \in FifoState /\ fifo'[d] \in FifoState
      /\ FifoOK(fifo[c]) /\ FifoOK(fifo[d])
  BY EnvAssumption DEF IInv, Mapped
<1>2. Alike(fifo[c], fifo[d])
  BY <1>1, DriftAlike
<1> SUFFICES Alike(fifo'[c], fifo'[d])
  BY <1>1, DriftAlike
<1>3. ASSUME NEW k \in Key, NEW r \in Ranges, MapPid(k, r)
      PROVE  Alike(fifo'[c], fifo'[d])
  <2>1. c \notin r /\ d \notin r
    BY <1>3 DEF MapPid
  <2> QED
    BY <1>1, <1>2, <1>3, <2>1 DEF MapPid
<1>4. ASSUME NEW k \in Key, UnmapPid(k) PROVE Alike(fifo'[c], fifo'[d])
  <2>1. k \in streams /\ k # j
    BY <1>4 DEF UnmapPid
  <2>2. c \notin Mapped(k) /\ d \notin Mapped(k)
    BY <2>1 DEF StripsDisjoint
  <2> QED
    BY <1>1, <1>2, <1>4, <2>2 DEF UnmapPid
<1>5. ASSUME NEW k \in Key, NEW n \in FeedSizes, FeedPcm(k, n)
      PROVE  Alike(fifo'[c], fifo'[d])
  <2>1. c \in Mapped(k) <=> d \in Mapped(k)
    BY <1>5 DEF StripsDisjoint, FeedPcm
  <2>2. n \in Nat
    BY EnvAssumption
  <2>3. Alike(Push(fifo[c], n), Push(fifo[d], n))
    BY <1>1, <1>2, <2>2, PushAlike
  <2> QED
    BY <1>1, <1>2, <1>5, <2>1, <2>3 DEF FeedPcm
<1>6. ASSUME NEW t \in ToneChan, SetChannelInput(t)
      PROVE  Alike(fifo'[c], fifo'[d])
  <2> DEFINE n == Least(fifo[t].direct_q + BlockSize, MAX_QUEUE_FRAMES)
  <2>1. t \in Chan /\ fifo \in [Chan -> FifoState]
    BY EnvAssumption DEF IInv
  <2>2. fifo' = [fifo EXCEPT ![t] = [fifo[t] EXCEPT !.direct_q = n]]
    BY <1>6, <2>1 DEF SetChannelInput
  <2> HIDE DEF n
  <2>3. \A e \in Chan : Alike(fifo'[e], fifo[e])
    BY <2>1, <2>2 DEF Alike, FifoState
  <2> QED
    BY <1>1, <1>2, <2>3 DEF Alike
<1>7. CASE ProcessBlock
  <2> DEFINE aged(x) == IF phase' = 0 THEN Age(fifo[x]) ELSE fifo[x]
  <2>1. /\ FifoOK(aged(c)) /\ FifoOK(aged(d)) /\ Alike(aged(c), aged(d))
    BY <1>1, <1>2, AgeOK, AgeAlike
  <2>2. fifo'[c] = DrainFifo(aged(c)) /\ fifo'[d] = DrainFifo(aged(d))
    BY <1>1, <1>7 DEF ProcessBlock
  <2> HIDE DEF aged
  <2> QED
    BY <2>1, <2>2, DrainFifoAlike
<1>8. ASSUME NEW k \in Key, ForgetStream(k) PROVE Alike(fifo'[c], fifo'[d])
  BY <1>2, <1>8 DEF ForgetStream
<1> QED
  BY <1>3, <1>4, <1>5, <1>6, <1>7, <1>8 DEF Next

\* The left and the right strip of a stream that agree never drift apart,
\* whatever tones play on either and however feeds, blocks, the mapping of other
\* streams and mappings left behind by null ports interleave: every reconciliation
\* decision of the two is the same.
THEOREM PairsStayInLockstep == Spec => LockstepKept
<1>1. Init => StripsDisjoint
  BY DEF Init, StripsDisjoint, Mapped
<1>2. IInv /\ StripsDisjoint /\ [Next]_vars => StripsDisjoint'
  BY NextStripsDisjoint
<1>3. IInv /\ IInv' /\ StripsDisjoint /\ [Next]_vars => [LockstepStep]_vars
  BY NextLockstep
<1>4. Spec => [][LockstepStep]_vars
  BY <1>1, <1>2, <1>3, Invariance, PTL DEF Spec
<1> QED
  BY <1>4 DEF LockstepStep, LockstepKept
================================================================================
