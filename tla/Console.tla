--------------------------------- MODULE Console ---------------------------------
(****************************************************************************)
(* The console state of the mixer core (lib.rs): strips that come into      *)
(* being lazily, user mute and solo with the engine mute derived from them, *)
(* bus routing, scenes, and timed cross-fades driven by process_block.      *)
(*                                                                          *)
(* Strips are the inputs and, after them, the slots of the buses.  Of a     *)
(* strip's parameters gain stands for those a fade interpolates, main_assign*)
(* for those it snaps, next to mute and solo.  A fade's length is in blocks.*)
(* The FX chains a recall snaps are in FxScenes.  subscribe_pid and         *)
(* unsubscribe_pid, which write the engine mute directly, are left out: no  *)
(* worklet message calls them.                                              *)
(*                                                                          *)
(* Bounds: MaxScene scenes are saved, MaxOps user operations done in a run. *)
(****************************************************************************)
EXTENDS Integers

CONSTANTS
  NumInputs, NumBuses, BUS_SLOTS,
  Gains,          \* fader positions
  InitialGain,    \* a new strip's
  Durations,      \* lengths of timed recalls, in blocks
  MaxScene, MaxOps,
  None

ASSUME ConsoleAssumption ==
  /\ NumInputs \in Nat /\ NumBuses \in Nat /\ BUS_SLOTS \in Nat
  /\ MaxScene \in Nat /\ MaxOps \in Nat
  /\ Gains \subseteq Nat /\ InitialGain \in Gains
  /\ Durations \subseteq Nat \ {0}

Input == 0..(NumInputs - 1)
Bus == 0..(NumBuses - 1)
Slot == 0..(BUS_SLOTS - 1)
SlotStrip(b, s) == NumInputs + b * BUS_SLOTS + s
Strip == Input \cup {SlotStrip(b, s) : b \in Bus, s \in Slot}
Scene == 1..MaxScene

VARIABLES
  console,        \* strips, buses and master, see InitConsole
  scenes,         \* id -> console snapshot, or None
  next_scene_id,
  fade,           \* [from, to, pos, dur], or None
  ops             \* user operations so far

vars == <<console, scenes, next_scene_id, fade, ops>>

\* user_muted and soloed_channels are the user's intent; engine is the mute the
\* mix applies.
InitConsole ==
  [exists |-> {}, gain |-> [c \in Strip |-> InitialGain],
   user_muted |-> {}, soloed |-> {}, engine |-> {}, main_assign |-> Input,
   bus |-> [b \in Bus |-> [sources |-> [s \in Slot |-> None], gain |-> InitialGain,
                           muted |-> FALSE, feeds_main |-> TRUE]],
   master_gain |-> InitialGain]

Init ==
  /\ console = InitConsole
  /\ scenes = [id \in Scene |-> None]
  /\ next_scene_id = 1
  /\ fade = None
  /\ ops = 0
--------------------------------------------------------------------------------
(* The setters, on a console k *)

Put(set, x, in) == IF in THEN set \cup {x} ELSE set \ {x}

\* ensure_channel: a new strip starts unmuted in its engine.
EnsureChannel(k, c) == [k EXCEPT !.exists = @ \cup {c}]

SetGain(k, c, g) == [EnsureChannel(k, c) EXCEPT !.gain[c] = g]

SoloGated(k, c) == k.soloed # {} /\ c \notin k.soloed

\* The mute setter derives the engine mute of its own strip.
SetMute(k, c, muted) ==
  [EnsureChannel(k, c) EXCEPT !.user_muted = Put(@, c, muted),
                              !.engine = Put(@, c, muted \/ SoloGated(k, c))]

\* Mutant of DeriveMutes: the gate outlives the last solo.
DeriveMutesLatched(k) ==
  [k EXCEPT !.engine = {i \in k.exists : \/ i \in k.user_muted \/ SoloGated(k, i)
                                         \/ k.soloed = {} /\ i \in k.engine}]

\* The engine mutes of all strips, from the user's intent.
DeriveMutes(k) ==
  [k EXCEPT !.engine = {i \in k.exists : i \in k.user_muted \/ SoloGated(k, i)}]

\* The solo setter derives the engine mute of every strip that exists.
SetSolo(k, c, soloed) ==
  DeriveMutes([EnsureChannel(k, c) EXCEPT !.soloed = Put(@, c, soloed)])

SetMainAssign(k, c, on) == [k EXCEPT !.main_assign = Put(@, c, on)]

\* Mutant of SetSource: the slot's strip is left to its first parameter.
SetSourceUnensured(k, b, s, src) == [k EXCEPT !.bus[b].sources[s] = src]

\* set_bus_source creates the slot's strip, clear_bus_source leaves it.
SetSource(k, b, s, src) ==
  [k EXCEPT !.bus[b].sources[s] = src,
            !.exists = IF src = None THEN @ ELSE @ \cup {SlotStrip(b, s)}]
--------------------------------------------------------------------------------
(* Scenes and fades *)

\* What a scene holds of strip c.
StripScene(k, c) ==
  [gain |-> k.gain[c], main_assign |-> c \in k.main_assign,
   mute |-> c \in k.user_muted, solo |-> c \in k.soloed]

ConsoleSnapshot(k) ==
  [covers |-> k.exists, strip |-> [c \in Strip |-> StripScene(k, c)],
   bus |-> k.bus, master_gain |-> k.master_gain]

\* Position pos of dur: gains interpolate, booleans and sources snap half-way.
Lerp(a, b, pos, dur) == a + ((b - a) * pos) \div dur
Snap(a, b, pos, dur) == IF 2 * pos >= dur THEN b ELSE a

\* Mid-fade, what is equal in both scenes is skipped.
Skipped(f, t, pos, dur) == pos < dur /\ f = t

ApplyStrips(k, from, to, pos, dur) ==
  LET written == {c \in to.covers : ~Skipped(from.strip[c], to.strip[c], pos, dur)}
  IN  [k EXCEPT
         !.exists = @ \cup written,
         !.gain = [c \in Strip |->
           IF c \in written THEN Lerp(from.strip[c].gain, to.strip[c].gain, pos, dur)
           ELSE k.gain[c]],
         !.main_assign = {c \in Input :
           IF c \in written
           THEN Snap(from.strip[c].main_assign, to.strip[c].main_assign, pos, dur)
           ELSE c \in k.main_assign}]

\* Mutant of DropForeignSolos: they stay.
KeepForeignSolos(k, to) == k

\* A live solo on a strip the scene does not cover is dropped.
DropForeignSolos(k, to) ==
  IF k.soloed \subseteq to.covers THEN k
  ELSE DeriveMutes([k EXCEPT !.soloed = @ \cap to.covers])

\* Writes that would not change the user's intent are skipped; each mute write
\* derives the engine mute of its strip.
ApplyMutes(k, from, to, pos, dur) ==
  LET written == {c \in to.covers : (c \in k.user_muted) # to.strip[c].mute}
      muted == {c \in written : Snap(from.strip[c].mute, to.strip[c].mute, pos, dur)}
  IN  [k EXCEPT
         !.exists = @ \cup written,
         !.user_muted = (@ \ written) \cup muted,
         !.engine = (@ \ written) \cup {c \in written : c \in muted \/ SoloGated(k, c)}]

\* Each solo write derives those of all strips, so only the last one counts.
ApplySolos(k, from, to, pos, dur) ==
  LET written == {c \in to.covers : (c \in k.soloed) # to.strip[c].solo}
      soloed == {c \in written : Snap(from.strip[c].solo, to.strip[c].solo, pos, dur)}
  IN  IF written = {} THEN k
      ELSE DeriveMutes([k EXCEPT !.exists = @ \cup written,
                                 !.soloed = (@ \ written) \cup soloed])

BusAt(f, t, pos, dur) ==
  [sources |-> Snap(f.sources, t.sources, pos, dur),
   gain |-> Lerp(f.gain, t.gain, pos, dur),
   muted |-> Snap(f.muted, t.muted, pos, dur),
   feeds_main |-> Snap(f.feeds_main, t.feeds_main, pos, dur)]

\* The scene owns every slot: one assigned after the save is cleared.
ApplyBuses(k, from, to, pos, dur) ==
  LET written == {b \in Bus : ~Skipped(from.bus[b], to.bus[b], pos, dur)}
      bus == [b \in Bus |-> IF b \in written THEN BusAt(from.bus[b], to.bus[b], pos, dur)
                            ELSE k.bus[b]]
  IN  [k EXCEPT
         !.exists = @ \cup {c \in Strip : \E b \in written, s \in Slot :
                              c = SlotStrip(b, s) /\ bus[b].sources[s] # None},
         !.bus = bus,
         !.master_gain = Lerp(from.master_gain, to.master_gain, pos, dur)]

\* Mutes, then solos, and the buses last.
ApplySceneInterp(k, from, to, pos, dur) ==
  LET strips == ApplyStrips(k, from, to, pos, dur)
      mutes == ApplyMutes(DropForeignSolos(strips, to), from, to, pos, dur)
      solos == ApplySolos(mutes, from, to, pos, dur)
  IN  ApplyBuses(solos, from, to, pos, dur)
--------------------------------------------------------------------------------
(* The operations *)

Budget == ops < MaxOps /\ ops' = ops + 1

\* Stream operations (map_pid, feeds, tones) create input strips; they cancel no
\* fade.
StreamArrives(c) ==
  /\ console' = EnsureChannel(console, c)
  /\ UNCHANGED <<scenes, next_scene_id, fade, ops>>

\* Mutant of UserSets: a running fade goes on.
UserSetsKeepsFade(k) ==
  /\ Budget
  /\ console' = k
  /\ UNCHANGED <<scenes, next_scene_id, fade>>

\* Cancel-on-set: the user takes over from a running fade.
UserSets(k) ==
  /\ Budget
  /\ console' = k
  /\ fade' = None
  /\ UNCHANGED <<scenes, next_scene_id>>

SetChannelGain(c, g) == UserSets(SetGain(console, c, g))
SetChannelMute(c, muted) == UserSets(SetMute(console, c, muted))
SetChannelSolo(c, soloed) == UserSets(SetSolo(console, c, soloed))
SetChannelMainAssign(c, on) == UserSets(SetMainAssign(console, c, on))
SetBusSource(b, s, c) == UserSets(SetSource(console, b, s, c))
ClearBusSource(b, s) == UserSets(SetSource(console, b, s, None))
SetBusGain(b, g) == UserSets([console EXCEPT !.bus[b].gain = g])
SetBusMute(b, muted) == UserSets([console EXCEPT !.bus[b].muted = muted])
SetBusFeedsMain(b, on) == UserSets([console EXCEPT !.bus[b].feeds_main = on])
SetMasterGain(g) == UserSets([console EXCEPT !.master_gain = g])

SaveScene ==
  /\ Budget
  /\ next_scene_id \in Scene
  /\ scenes' = [scenes EXCEPT ![next_scene_id] = ConsoleSnapshot(console)]
  /\ next_scene_id' = next_scene_id + 1
  /\ UNCHANGED <<console, fade>>

RecallScene(id) ==
  /\ Budget
  /\ scenes[id] # None
  /\ fade' = None
  /\ console' = ApplySceneInterp(console, scenes[id], scenes[id], 1, 1)
  /\ UNCHANGED <<scenes, next_scene_id>>

RecallSceneFade(id, dur) ==
  /\ Budget
  /\ scenes[id] # None
  /\ fade' = [from |-> ConsoleSnapshot(console), to |-> scenes[id],
              pos |-> 0, dur |-> dur]
  /\ UNCHANGED <<console, scenes, next_scene_id>>

DeleteScene(id) ==
  /\ Budget
  /\ scenes' = [scenes EXCEPT ![id] = None]
  /\ UNCHANGED <<console, next_scene_id, fade>>

\* process_block advances a fade; the last block applies the target exactly.
FadeEnds ==
  /\ fade # None /\ fade.pos + 1 >= fade.dur
  /\ console' = ApplySceneInterp(console, fade.to, fade.to, 1, 1)
  /\ fade' = None
  /\ UNCHANGED <<scenes, next_scene_id, ops>>

FadeGoesOn ==
  /\ fade # None /\ fade.pos + 1 < fade.dur
  /\ console' = ApplySceneInterp(console, fade.from, fade.to, fade.pos + 1, fade.dur)
  /\ fade' = [fade EXCEPT !.pos = @ + 1]
  /\ UNCHANGED <<scenes, next_scene_id, ops>>

FadeBlock == FadeEnds \/ FadeGoesOn

UserSetsStrip(c) ==
  \/ \E g \in Gains : SetChannelGain(c, g)
  \/ \E on \in BOOLEAN : SetChannelMute(c, on) \/ SetChannelSolo(c, on)

UserSetsBus(b) ==
  \/ \E s \in Slot : ClearBusSource(b, s) \/ \E c \in Strip : SetBusSource(b, s, c)
  \/ \E g \in Gains : SetBusGain(b, g)
  \/ \E on \in BOOLEAN : SetBusMute(b, on) \/ SetBusFeedsMain(b, on)

UserOperates ==
  \/ \E c \in Strip : UserSetsStrip(c)
  \/ \E c \in Input, on \in BOOLEAN : SetChannelMainAssign(c, on)
  \/ \E b \in Bus : UserSetsBus(b)
  \/ \E g \in Gains : SetMasterGain(g)
  \/ SaveScene
  \/ \E id \in Scene : \/ RecallScene(id) \/ DeleteScene(id)
                       \/ \E dur \in Durations : RecallSceneFade(id, dur)

Next ==
  \/ UserOperates
  \/ \E c \in Input : StreamArrives(c)
  \/ FadeBlock

Spec == Init /\ [][Next]_vars
--------------------------------------------------------------------------------
(* Properties *)

Level == Nat     \* also between fader positions, during a fade
StripScenes == [gain : Level, main_assign : BOOLEAN, mute : BOOLEAN, solo : BOOLEAN]
BusScenes ==
  [sources : [Slot -> Strip \cup {None}], gain : Level, muted : BOOLEAN,
   feeds_main : BOOLEAN]
Snapshot ==
  [covers : SUBSET Strip, strip : [Strip -> StripScenes], bus : [Bus -> BusScenes],
   master_gain : Level]

TypeOK ==
  /\ console \in [exists : SUBSET Strip, gain : [Strip -> Level],
                  user_muted : SUBSET Strip, soloed : SUBSET Strip,
                  engine : SUBSET Strip, main_assign : SUBSET Input,
                  bus : [Bus -> BusScenes], master_gain : Level]
  /\ console.user_muted \cup console.soloed \cup console.engine \subseteq console.exists
  /\ scenes \in [Scene -> Snapshot \cup {None}]
  /\ next_scene_id \in 1..(MaxScene + 1)
  /\ fade \in [from : Snapshot, to : Snapshot, pos : Nat, dur : Durations]
              \cup {None}
  /\ ops \in 0..MaxOps

\* The engine mute never strays from the user's intent: a muted strip is silent,
\* and a silent strip is muted or gated by a solo - after any mix of setters,
\* recalls, fades and cancelled fades.
MuteDerived ==
  /\ console.user_muted \subseteq console.engine
  /\ \A c \in console.engine : c \in console.user_muted \/ SoloGated(console, c)

\* The console shows what scene s holds, and no other strip is soloed.
Matches(k, s) ==
  /\ \A c \in s.covers : StripScene(k, c) = s.strip[c]
  /\ k.soloed \subseteq s.covers
  /\ k.bus = s.bus
  /\ k.master_gain = s.master_gain

\* A recall, and a fade that runs to its end, lands exactly on the scene,
\* although writes are skipped on the way.
RecallLands ==
  [][/\ \A id \in Scene : RecallScene(id) => Matches(console', scenes[id])
     /\ FadeEnds => Matches(console', fade.to)]_vars

\* "Strips are never destroyed, so the setters below never lazily create
\* anything" (apply_scene_interp): no recall, and no block of a fade, which runs
\* on the audio thread, brings a strip into being.
RecallCreatesNothing ==
  [][FadeBlock \/ (\E id \in Scene : RecallScene(id))
       => console'.exists = console.exists]_vars

\* What makes the skipping of unchanged strips and buses right: as long as a fade
\* runs, one on which its two scenes agree still is what they say.
FadeSkipsSoundly ==
  fade # None =>
    /\ \A c \in fade.to.covers :
         fade.from.strip[c] = fade.to.strip[c] => StripScene(console, c) = fade.to.strip[c]
    /\ \A b \in Bus :
         fade.from.bus[b] = fade.to.bus[b] => console.bus[b] = fade.to.bus[b]

\* "When any channel is soloed, non-soloed channels are silent".
SoloSilencesOthers ==
  console.soloed # {} => console.exists \ console.soloed \subseteq console.engine
================================================================================
