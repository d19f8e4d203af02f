------------------------------ MODULE ElasticFifo ------------------------------
(****************************************************************************)
(* The elastic input FIFOs of the mixer core (crates/mixer-wasm): queueing, *)
(* drift reconciliation and the stream-health gate of fifo.rs, driven by    *)
(* the feed, map/unmap and process_block paths of lib.rs.                   *)
(*                                                                          *)
(* Samples are not modelled, only how many of them each queue holds.        *)
(* Depths are frames; ewma and anchor are quarter frames (the code's f32    *)
(* with EWMA_ALPHA = 1/4, rounded down to a quarter frame).  The code's     *)
(* absolute block and window counters only ever meet in differences, so     *)
(* they are kept relative: phase is block_counter % DRIFT_WINDOW_BLOCKS,    *)
(* stale is window_id # window, and age is window - last_fed_window cut     *)
(* off just past FEED_RECENCY_WINDOWS.  fed_windows and                     *)
(* window_overflow_frames are cut off at the threshold the code compares    *)
(* them with.  Nothing else is bounded: the state space is finite as it is. *)
(*                                                                          *)
(* Of the worklet in front of the core only its _pidMap is here: the keys   *)
(* it feeds.  How it gets to map and forget them is the module PidSessions. *)
(****************************************************************************)
EXTENDS Integers

CONSTANTS
  Chan,       \* input strips
  ToneChan,   \* the strips test tones play on (mixer inputs 0..3)
  Key,        \* PID map keys, (session << 16) | pid
  Ranges,      \* the channel ranges a PID can be mapped onto (sets of strips)
  BlockSize,  \* frames per process() call
  FeedSizes,  \* frames one PCM message may carry
  None,       \* Option::None

  MAX_QUEUE_FRAMES, USIZE_MAX, DRIFT_WINDOW_BLOCKS,
  PLAYOUT_BAND_FRAMES, SLIP_FRAMES, SLIP_XFADE, SLIP_COOLDOWN_BLOCKS,
  RECONCILE_CEIL_FRAMES, FEED_RECENCY_WINDOWS, ANCHOR_INIT_WINDOWS,
  HEALTH_STARVE_MAX, HEALTH_INSERT_MAX, HEALTH_SLIP_MAX,
  HEALTH_OVERFLOW_MAX_FRAMES,
  HEALTH_FAST_STARVE_BLOCKS, HEALTH_FAST_SLIPS, HEALTH_FAST_OVERFLOW_FRAMES,
  HEALTH_RECOVERY_WINDOWS,
  FADE_FULL, FADE_OUT, FADE_IN   \* health_gain 1.0 and its per-sample steps

ASSUME EnvAssumption ==
  /\ Ranges \subseteq SUBSET Chan /\ ToneChan \subseteq Chan
  /\ BlockSize \in Nat \ {0}
  /\ FeedSizes \subseteq Nat
  /\ None \notin Int

ASSUME WindowAssumption ==
  /\ DRIFT_WINDOW_BLOCKS \in Nat \ {0, 1}
  /\ FEED_RECENCY_WINDOWS \in Nat
  /\ ANCHOR_INIT_WINDOWS \in Nat

ASSUME SlipAssumption ==
  /\ MAX_QUEUE_FRAMES \in Nat /\ USIZE_MAX \in Nat
  /\ USIZE_MAX > MAX_QUEUE_FRAMES
  /\ SLIP_FRAMES \in Nat /\ SLIP_XFADE \in Nat
  /\ SLIP_COOLDOWN_BLOCKS \in Nat /\ PLAYOUT_BAND_FRAMES \in Nat
  /\ RECONCILE_CEIL_FRAMES \in Nat
  /\ RECONCILE_CEIL_FRAMES + SLIP_FRAMES <= MAX_QUEUE_FRAMES

ASSUME HealthAssumption ==
  /\ HEALTH_STARVE_MAX \in Nat /\ HEALTH_INSERT_MAX \in Nat
  /\ HEALTH_SLIP_MAX \in Nat /\ HEALTH_OVERFLOW_MAX_FRAMES \in Nat
  /\ HEALTH_FAST_STARVE_BLOCKS \in Nat /\ HEALTH_FAST_SLIPS \in Nat
  /\ HEALTH_FAST_OVERFLOW_FRAMES \in Nat
  /\ HEALTH_OVERFLOW_MAX_FRAMES < HEALTH_FAST_OVERFLOW_FRAMES
  /\ HEALTH_RECOVERY_WINDOWS \in Nat \ {0, 1}
  /\ FADE_FULL \in Nat /\ FADE_OUT \in Nat /\ FADE_IN \in Nat

VARIABLES
  phase,     \* block_counter within the current drift window
  fifo,      \* channel_inputs: a FIFO per strip (a strip not yet fed: NewFifo)
  pid_map,   \* key -> the strips it is mapped onto, or None
  streams    \* the keys in the worklet's _pidMap

vars == <<phase, fifo, pid_map, streams>>

Least(a, b) == IF a < b THEN a ELSE b
Greatest(a, b) == IF a < b THEN b ELSE a
--------------------------------------------------------------------------------
(* One FIFO *)

NewFifo ==
  [ q |-> 0, direct_q |-> 0, elastic |-> FALSE,
    stale |-> FALSE, age |-> 0,
    window_min |-> USIZE_MAX, window_starved |-> FALSE,
    window_starved_blocks |-> 0, window_inserts |-> 0, window_slips |-> 0,
    window_overflow_frames |-> 0,
    ewma |-> -1, fed_windows |-> 0, anchor |-> None, cooldown |-> 0,
    degraded |-> FALSE, clean_windows |-> 0, health_gain |-> FADE_FULL ]

\* The stream-health gate starts over: a remap is a new stream.
ResetHealth(f) ==
  [f EXCEPT !.degraded = FALSE, !.clean_windows = 0, !.health_gain = FADE_FULL,
            !.window_starved_blocks = 0, !.window_inserts = 0,
            !.window_slips = 0, !.window_overflow_frames = 0]

\* What map_pid does to a FIFO that exists.  The queue, the cooldown and the
\* window id stay.
ResetStream(f) ==
  ResetHealth([f EXCEPT !.anchor = None, !.ewma = -1, !.fed_windows = 0,
                        !.window_min = USIZE_MAX, !.window_starved = FALSE])

\* Mutant of Disarm: the elastic flag goes, the gate stays.
DisarmKeepsGate(f) == [f EXCEPT !.elastic = FALSE]

Disarm(f) == ResetHealth([f EXCEPT !.elastic = FALSE])

\* A gate threshold was hit in the middle of a window.
Trip(f) == [f EXCEPT !.degraded = TRUE, !.clean_windows = 0]

\* Mutant of Push: the cap is only checked before the append.
PushUncapped(f, n) ==
  IF f.q >= MAX_QUEUE_FRAMES THEN f
  ELSE [f EXCEPT !.elastic = TRUE, !.age = 0, !.q = @ + n]

\* Append n frames: drop the oldest beyond the cap, gate a stream that drops
\* too many.
Push(f, n) ==
  LET over == Greatest(f.q + n - MAX_QUEUE_FRAMES, 0)
      dropped == f.window_overflow_frames + over
      g == [f EXCEPT !.elastic = TRUE, !.age = 0, !.q = @ + n - over,
                     !.window_overflow_frames =
                        Least(dropped, HEALTH_FAST_OVERFLOW_FRAMES)]
  IN  IF over > 0 /\ dropped >= HEALTH_FAST_OVERFLOW_FRAMES THEN Trip(g) ELSE g

\* health_gain ramps once per audible sample, out faster than in.
Ramp(gain, degraded, samples) ==
  IF degraded THEN Greatest(gain - samples * FADE_OUT, 0)
              ELSE Least(gain + samples * FADE_IN, FADE_FULL)

\* Mutants of Pop: a whole block is taken whatever is there; a partial block is
\* never taken.
PopUnderflows(f) ==
  [f EXCEPT !.q = @ - BlockSize, !.direct_q = @ - Least(@, BlockSize)]
PopWholeBlocks(f) ==
  [f EXCEPT !.q = IF @ < BlockSize THEN @ ELSE @ - BlockSize,
            !.direct_q = @ - Least(@, BlockSize)]

\* A block's worth of pops: the loop runs until both sources are dry.
Pop(f) ==
  LET audible == Least(BlockSize, Greatest(f.q, f.direct_q))
  IN  [f EXCEPT !.q = @ - Least(@, BlockSize),
                !.direct_q = @ - Least(@, BlockSize),
                !.health_gain = Ramp(@, f.degraded, audible)]

CountStarve(f) ==
  LET g == [f EXCEPT !.window_starved = TRUE, !.window_starved_blocks = @ + 1]
  IN  IF g.window_starved_blocks >= HEALTH_FAST_STARVE_BLOCKS THEN Trip(g) ELSE g
--------------------------------------------------------------------------------
(* The statistics window *)

\* Mutant of Fold: the sentinel of an unsampled window is folded.
FoldSentinel(ewma, min) ==
  IF ewma < 0 THEN 4 * min ELSE ewma + ((4 * min - ewma) \div 4)

\* The first sampled minimum seeds the EWMA; an unsampled window is not folded.
Fold(ewma, min) ==
  IF min = USIZE_MAX THEN ewma
  ELSE IF ewma < 0 THEN 4 * min
  ELSE ewma + ((4 * min - ewma) \div 4)

WindowUnhealthy(f) ==
  \/ f.window_starved_blocks > HEALTH_STARVE_MAX
  \/ f.window_inserts > HEALTH_INSERT_MAX
  \/ f.window_slips > HEALTH_SLIP_MAX
  \/ f.window_overflow_frames > HEALTH_OVERFLOW_MAX_FRAMES

\* Mutant of Judge: the clean windows of a gated stream are not counted.
JudgeUncounted(f) ==
  IF WindowUnhealthy(f) THEN Trip(f)
  ELSE IF f.degraded /\ f.clean_windows >= HEALTH_RECOVERY_WINDOWS
  THEN [f EXCEPT !.degraded = FALSE, !.anchor = f.ewma]
  ELSE f

Judge(f) ==
  LET clean == f.clean_windows + 1
  IN  CASE WindowUnhealthy(f) -> Trip(f)
        [] ~WindowUnhealthy(f) /\ ~f.degraded -> f
        [] ~WindowUnhealthy(f) /\ f.degraded ->
             IF clean >= HEALTH_RECOVERY_WINDOWS
             THEN [f EXCEPT !.clean_windows = clean, !.degraded = FALSE,
                            !.anchor = f.ewma]
             ELSE [f EXCEPT !.clean_windows = clean]

FinalizeWindow(f) ==
  LET folded == [f EXCEPT !.ewma = Fold(f.ewma, f.window_min)]
  IN  [Judge(folded) EXCEPT
         !.window_min = USIZE_MAX, !.window_starved = FALSE,
         !.window_starved_blocks = 0, !.window_inserts = 0,
         !.window_slips = 0, !.window_overflow_frames = 0]

FedRecently(f) == f.age <= FEED_RECENCY_WINDOWS

Rollover(f) ==
  LET closed == FinalizeWindow(f)
      fed == IF FedRecently(f)
             THEN Least(f.fed_windows + 1, ANCHOR_INIT_WINDOWS) ELSE 0
      anchors == closed.anchor = None /\ fed >= ANCHOR_INIT_WINDOWS
                 /\ closed.ewma >= 0
  IN  [closed EXCEPT !.stale = FALSE, !.fed_windows = fed,
                     !.anchor = IF anchors THEN closed.ewma ELSE @]

Sample(f) == [f EXCEPT !.window_min = Least(f.q, @)]

\* The first block of a new window: every window_id is now behind.
Age(f) ==
  [f EXCEPT !.stale = TRUE, !.age = Least(@ + 1, FEED_RECENCY_WINDOWS + 1)]
--------------------------------------------------------------------------------
(* Drift reconciliation *)

TrimArmed(f) ==
  /\ f.ewma > f.anchor + 4 * PLAYOUT_BAND_FRAMES
  /\ 4 * f.q > f.anchor + 2 * PLAYOUT_BAND_FRAMES
  /\ f.q > SLIP_FRAMES + SLIP_XFADE

Trim(f) ==
  LET g == [f EXCEPT !.q = @ - SLIP_FRAMES, !.window_slips = @ + 1,
                     !.cooldown = SLIP_COOLDOWN_BLOCKS]
  IN  IF g.window_slips >= HEALTH_FAST_SLIPS THEN Trip(g) ELSE g

InsertArmed(f) ==
  /\ FedRecently(f)
  /\ ~f.degraded
  /\ f.q >= SLIP_FRAMES + SLIP_XFADE
  /\ f.window_inserts < HEALTH_INSERT_MAX
  /\ f.window_starved \/ 2 * f.ewma < f.anchor
  /\ 8 * f.q < f.anchor + 16 * SLIP_FRAMES
  /\ f.q < RECONCILE_CEIL_FRAMES

Insert(f) ==
  [f EXCEPT !.q = @ + SLIP_FRAMES, !.window_inserts = @ + 1,
            !.cooldown = SLIP_COOLDOWN_BLOCKS]

Correct(f) ==
  CASE f.cooldown > 0 -> [f EXCEPT !.cooldown = @ - 1]
    [] f.cooldown = 0 /\ f.anchor = None -> f
    [] f.cooldown = 0 /\ f.anchor # None ->
         IF TrimArmed(f) THEN Trim(f)
         ELSE IF InsertArmed(f) THEN Insert(f)
         ELSE f

\* The statistics and the correction of one block; f has been popped.
Reconcile(f, starved) ==
  LET counted == IF starved THEN CountStarve(f) ELSE f
      rolled == IF counted.stale THEN Rollover(counted) ELSE counted
  IN  Correct(Sample(rolled))

\* Mutant of DrainFifo: a tone on the strip hides a starved stream.
DrainFifoTonesFeed(f) ==
  IF f.elastic THEN Reconcile(Pop(f), Greatest(f.q, f.direct_q) < BlockSize)
  ELSE Pop(f)

DrainFifo(f) ==
  IF f.elastic THEN Reconcile(Pop(f), f.q < BlockSize) ELSE Pop(f)
--------------------------------------------------------------------------------
(* The operations of the mixer core on its FIFOs *)

Init ==
  /\ phase = 0
  /\ fifo = [c \in Chan |-> NewFifo]
  /\ pid_map = [k \in Key |-> None]
  /\ streams = {}

\* The strips a key is mapped onto.
Mapped(k) == IF pid_map[k] = None THEN {} ELSE pid_map[k]

\* map_pid_keyed, on the first PCM of a key.  The core takes any range.  The
\* worklet's allocator hands out strips no other key it still feeds plays on
\* (PidSessions!StreamsDontMix), but they may be those of a mapping it forgot.
MapPid(k, r) ==
  /\ k \notin streams /\ pid_map[k] = None
  /\ \A other \in streams : Mapped(other) \cap r = {}
  /\ pid_map' = [pid_map EXCEPT ![k] = r]
  /\ streams' = streams \cup {k}
  /\ fifo' = [c \in Chan |-> IF c \in r THEN ResetStream(fifo[c]) ELSE fifo[c]]
  /\ UNCHANGED phase

\* unmap-pid: the key goes from the core's map and from the worklet's.  The
\* store posts it ahead of the session's null port.
UnmapPid(k) ==
  /\ k \in streams
  /\ pid_map' = [pid_map EXCEPT ![k] = None]
  /\ streams' = streams \ {k}
  /\ fifo' = [c \in Chan |->
                IF c \in Mapped(k) THEN Disarm(fifo[c]) ELSE fifo[c]]
  /\ UNCHANGED phase

\* A null port for the session of a key that is (still or again) mapped: the
\* worklet forgets the key, the core is not told.  Session ids are used once,
\* so the key does not come back and its entry stays in pid_map.
ForgetStream(k) ==
  /\ k \in streams
  /\ streams' = streams \ {k}
  /\ UNCHANGED <<phase, fifo, pid_map>>

\* feed_pcm_keyed: the worklet feeds the keys it has mapped.
FeedPcm(k, n) ==
  /\ k \in streams
  /\ fifo' = [c \in Chan |->
                IF c \in Mapped(k) THEN Push(fifo[c], n) ELSE fifo[c]]
  /\ UNCHANGED <<phase, pid_map, streams>>

\* set_channel_input: a test tone, generated one block per quantum.
SetChannelInput(c) ==
  /\ fifo[c].direct_q = 0
  /\ fifo' = [fifo EXCEPT ![c].direct_q = Least(@ + BlockSize, MAX_QUEUE_FRAMES)]
  /\ UNCHANGED <<phase, pid_map, streams>>

ProcessBlock ==
  /\ phase' = (phase + 1) % DRIFT_WINDOW_BLOCKS
  /\ fifo' = [c \in Chan |->
                DrainFifo(IF phase' = 0 THEN Age(fifo[c]) ELSE fifo[c])]
  /\ UNCHANGED <<pid_map, streams>>

Next ==
  \/ \E k \in Key, r \in Ranges : MapPid(k, r)
  \/ \E k \in Key : UnmapPid(k) \/ ForgetStream(k)
  \/ \E k \in Key, n \in FeedSizes : FeedPcm(k, n)
  \/ \E c \in ToneChan : SetChannelInput(c)
  \/ ProcessBlock

\* The audio thread calls process() every quantum while the context runs.
\* ProcessBlock is always enabled and alone changes phase, so this is
\* WF_vars(ProcessBlock) in a form TLC evaluates without ENABLED.
Fairness == []<><<phase' # phase>>_phase

Spec == Init /\ [][Next]_vars /\ Fairness
--------------------------------------------------------------------------------
(* Properties *)

Frames == 0..MAX_QUEUE_FRAMES
QuarterFrames == 0..(4 * MAX_QUEUE_FRAMES)

FifoState ==
  [ q : Nat, direct_q : Nat, elastic : BOOLEAN, stale : BOOLEAN, age : Nat,
    window_min : Nat, window_starved : BOOLEAN, window_starved_blocks : Nat,
    window_inserts : Nat, window_slips : Nat, window_overflow_frames : Nat,
    ewma : Int, fed_windows : Nat, anchor : Int \cup {None}, cooldown : Nat,
    degraded : BOOLEAN, clean_windows : Nat, health_gain : Nat ]

TypeOK ==
  /\ phase \in 0..(DRIFT_WINDOW_BLOCKS - 1)
  /\ fifo \in [Chan -> FifoState]
  /\ pid_map \in [Key -> Ranges \cup {None}]
  /\ streams \subseteq Key

\* The standing depth never exceeds the memory cap, although inserts grow the
\* queue without looking at it: the refill ceiling keeps them below the cap.
DepthBounded == \A c \in Chan : fifo[c].q <= MAX_QUEUE_FRAMES

\* An anchor is a depth the queue really had: neither the usize::MAX sentinel of
\* a window that sampled nothing nor the -1 of an unseeded EWMA gets into it,
\* through the start-up path or through the re-basing of a recovered gate.
AnchorSampled ==
  \A c \in Chan : fifo[c].anchor # None => fifo[c].anchor \in QuarterFrames

\* A strip is gated or faded only on account of a stream the core has mapped onto
\* it: once every key that was mapped there is unmapped, none of what the streams
\* left behind (a starved window, a half-done fade, clean windows still to come)
\* silences it, neither for the tones it plays nor for the next stream.  A key
\* the worklet only forgot is still mapped here, so its strips can be gated.
OnlyMappedStripsGated ==
  \A c \in Chan :
    fifo[c].degraded \/ fifo[c].health_gain # FADE_FULL
      => \E k \in Key : c \in Mapped(k)

\* The state drift reconciliation depends on: all but the tone overlay and the
\* gain, which ramps on audible samples of either source.
Drift(f) == [f EXCEPT !.direct_q = 0, !.health_gain = 0]

\* Strips of one stream that agree keep agreeing: they are fed and drained in
\* lockstep and correct on the same block boundary, whatever tones play on them,
\* and whatever mappings that the worklet forgot lie across them.
LockstepKept ==
  [][\A k \in streams \cap streams' : \A c, d \in Mapped(k) \cap Mapped(k)' :
        Drift(fifo[c]) = Drift(fifo[d]) => Drift(fifo[c])' = Drift(fifo[d])']_vars

\* A stream that arrives on time for good does not stay gated: two clean windows
\* bring it back.
CleanStreamRecovers ==
  \A c \in Chan :
    <>[](/\ fifo[c].elastic
         /\ fifo[c].q >= BlockSize
         /\ fifo[c].window_slips < HEALTH_FAST_SLIPS
         /\ fifo[c].window_overflow_frames <= HEALTH_OVERFLOW_MAX_FRAMES)
    => <>[](~fifo[c].degraded)

NotFed == ~(\E k \in Key, n \in FeedSizes : FeedPcm(k, n))

\* A source that stops is played out: inserts never outlast the drain, and a
\* disarmed queue drains as well.
StoppedSourceDrains ==
  \A c \in Chan : <>[][NotFed]_vars => <>[](fifo[c].q = 0)
================================================================================
