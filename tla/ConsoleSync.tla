------------------------------- MODULE ConsoleSync -------------------------------
(****************************************************************************)
(* The UI's console store (stores/mixer.ts) against the mixer core behind   *)
(* the worklet: optimistic writes posted as messages, fx-error roll-backs,  *)
(* and the re-read of the whole console after a recall.  The core is        *)
(* modules Console and FxScenes, joined here into one scene.                *)
(*                                                                          *)
(* Gain stands for the parameters that are the same on both strips, comp,   *)
(* with one parameter, for the dynamics modules.  The run starts when the   *)
(* wasm is ready and the catalog has arrived.  A stereo channel t is strips *)
(* 2t and 2t+1 and owns FX pair t.  Left out: balance (two pans), bus       *)
(* slots, and scene deletion, which is in Console and FxScenes.             *)
(*                                                                          *)
(* Bounds: MaxOps user operations, MaxScene scenes, MaxQueue messages each  *)
(* way.                                                                     *)
(****************************************************************************)
EXTENDS Integers, Sequences, FiniteSets

CONSTANTS
  CHAIN_PAIRS, CHAIN_SLOTS, Effect, MemoryFx, LooperFx, StereoFx, AvailableFx,
  Values, MEMORY_CLASS_CAP, LOOPER_CAP,           \* see FxRack
  NumStrips, Gains, InitialGain, Durations,       \* see Console
  MaxScene, MaxOps, MaxQueue, None

VARIABLES
  \* the store
  stereo,        \* t -> what the channel's controls show
  channels,      \* c -> the mono mirror of the strip
  fxChains,      \* p -> s -> what the FX rack shows
  fxPending,     \* p -> s -> rows to roll back to, by slot, or None
  chips,         \* scenes the UI offers
  \* the core
  console, rack, \* see Console and FxRack
  comp,          \* c -> the compressor's parameter, or None
  scenes, fade,
  \* the worklet's port
  ctl, events,
  \* history
  ops,           \* user operations so far
  parted         \* the user wrote where store and core are let part

store == <<stereo, channels, fxChains, fxPending, chips>>
core == <<console, rack, comp, scenes, fade>>
vars == <<store, core, ctl, events, ops, parted>>

owned == {p \in 0..(CHAIN_PAIRS - 1) : 2 * p \in console.exists}
next_scene_id == Cardinality({id \in 1..MaxScene : scenes[id] # None}) + 1

K == INSTANCE Console WITH NumInputs <- NumStrips, NumBuses <- 0, BUS_SLOTS <- 0
F == INSTANCE FxScenes

ASSUME SyncAssumption ==
  /\ F!RackAssumption /\ F!SceneAssumption /\ K!ConsoleAssumption
  /\ NumStrips = 2 * CHAIN_PAIRS
  /\ AvailableFx = Effect                         \* the UI offers no other
  /\ MaxQueue \in Nat

Strip == 0..(NumStrips - 1)
Pair == 0..(CHAIN_PAIRS - 1)
Slot == 0..(CHAIN_SLOTS - 1)
Default == 1                 \* comp_enable_defaults, the store's initial value

StripView == [gain |-> InitialGain, comp_on |-> FALSE, comp |-> Default]
NoFx == [fx |-> None, enabled |-> FALSE, params |-> F!Zeroed]

Init ==
  /\ stereo = [t \in Pair |-> StripView]
  /\ channels = [c \in Strip |-> StripView]
  /\ fxChains = [p \in Pair |-> [s \in Slot |-> NoFx]]
  /\ fxPending = [p \in Pair |-> [s \in Slot |-> None]]
  /\ chips = {}
  /\ K!Init /\ F!Init
  /\ comp = [c \in Strip |-> None]
  /\ ctl = <<>> /\ events = <<>>
  /\ ops = 0 /\ parted = FALSE
--------------------------------------------------------------------------------
(* The store's setters *)

OfType(queue, types) == {i \in DOMAIN queue : queue[i].type \in types}

\* A console document that may have been computed before the write is on its way,
\* or a running fade, whose target is on screen, is about to be cancelled.
Untimely ==
  OfType(ctl, {"get-params"}) \cup OfType(events, {"console-params"}) # {} \/ fade # None

Post(msgs, late) ==
  /\ ops < MaxOps
  /\ ops' = ops + 1
  /\ Len(ctl) + Len(msgs) <= MaxQueue
  /\ ctl' = ctl \o msgs
  /\ parted' = (parted \/ late)
  /\ UNCHANGED <<events, core>>

SetGain(c, g) == [type |-> "set-gain", ch |-> c, gain |-> g]
SetCompParam(c, v) == [type |-> "set-comp-param", ch |-> c, value |-> v]
SwitchComp(c, on) ==
  [type |-> IF on THEN "enable-compressor" ELSE "disable-compressor", ch |-> c]

\* Write one field of a stereo channel and of its two mono mirrors.
WriteBoth(t, Write(_)) ==
  /\ stereo' = [stereo EXCEPT ![t] = Write(@)]
  /\ channels' = [c \in Strip |-> IF c \div 2 = t THEN Write(channels[c]) ELSE channels[c]]
  /\ UNCHANGED <<fxChains, fxPending, chips>>

SetStereoGain(t, g) ==
  /\ WriteBoth(t, LAMBDA view : [view EXCEPT !.gain = g])
  /\ Post(<<SetGain(2 * t, g), SetGain(2 * t + 1, g)>>, Untimely)

SetStereoCompParam(t, v) ==
  /\ WriteBoth(t, LAMBDA view : [view EXCEPT !.comp = v])
  /\ Post(<<SetCompParam(2 * t, v), SetCompParam(2 * t + 1, v)>>, Untimely)

\* Mutant of PushStereoCompParams: only the left strip is told.
PushLeftCompParams(t) == <<SetCompParam(2 * t, stereo[t].comp)>>

PushStereoCompParams(t) ==
  <<SetCompParam(2 * t, stereo[t].comp), SetCompParam(2 * t + 1, stereo[t].comp)>>

\* Mutant of SetStereoCompEnabled: the shown parameters are not sent again.
SetStereoCompEnabledBare(t, on) ==
  /\ WriteBoth(t, LAMBDA view : [view EXCEPT !.comp_on = on])
  /\ Post(<<SwitchComp(2 * t, on), SwitchComp(2 * t + 1, on)>>, Untimely)

\* Enabling makes the core create the effect with its own defaults, so the
\* parameters on screen are sent after it.
SetStereoCompEnabled(t, on) ==
  /\ WriteBoth(t, LAMBDA view : [view EXCEPT !.comp_on = on])
  /\ Post(<<SwitchComp(2 * t, on), SwitchComp(2 * t + 1, on)>>
            \o (IF on THEN PushStereoCompParams(t) ELSE <<>>), Untimely)
--------------------------------------------------------------------------------
(* FX setters *)

\* Whether a set-fx-slot on one of the slots may still be refused.
Unanswered(p, slots) ==
  \/ \E i \in OfType(ctl, {"set-fx-slot"}) : ctl[i].pair = p /\ ctl[i].slot \in slots
  \/ \E i \in OfType(events, {"fx-error"}) : events[i].pair = p /\ events[i].slot \in slots

\* Optimistic write of a row under a snapshot of the slots it touches, kept under
\* the slot a refusal would name.
WriteRow(p, key, slots, row, msg) ==
  /\ fxPending' = [fxPending EXCEPT ![p][key] = [s \in slots |-> fxChains[p][s]]]
  /\ fxChains' = [fxChains EXCEPT ![p] = row]
  /\ UNCHANGED <<stereo, channels, chips>>
  /\ Post(<<msg>>, Untimely \/ Unanswered(p, slots))

SetFxSlot(p, s, fx) ==
  WriteRow(p, s, {s},
    [fxChains[p] EXCEPT ![s] =
       IF fx = None THEN NoFx
       ELSE [fx |-> fx, enabled |-> FALSE, params |-> F!Default]],
    [type |-> "set-fx-slot", pair |-> p, slot |-> s, fx |-> fx])

SetFxEnabled(p, s, on) ==
  /\ fxChains[p][s].fx # None
  /\ WriteRow(p, s, {s}, [fxChains[p] EXCEPT ![s].enabled = on],
              [type |-> "set-fx-enabled", pair |-> p, slot |-> s, on |-> on])

SetFxParam(p, s, v) ==
  /\ fxChains[p][s].fx # None
  /\ WriteRow(p, s, {s}, [fxChains[p] EXCEPT ![s].params = v],
              [type |-> "set-fx-param", pair |-> p, slot |-> s, value |-> v,
               fx |-> fxChains[p][s].fx])

MoveFxSlot(p, from, to) ==
  WriteRow(p, from, Slot,
           [i \in Slot |-> fxChains[p][F!MovedFrom(from, to, i)]],
           [type |-> "move-fx-slot", pair |-> p, from |-> from, to |-> to])
--------------------------------------------------------------------------------
(* Scene bank *)

SendSceneSave ==
  /\ Post(<<[type |-> "scene-save"]>>, FALSE)
  /\ UNCHANGED store

SendSceneRecall(id, dur) ==
  /\ id \in chips
  /\ Post(<<[type |-> "scene-recall", id |-> id, dur |-> dur]>>, FALSE)
  /\ UNCHANGED store

User ==
  \/ \E t \in Pair :
       \/ \E g \in Gains : SetStereoGain(t, g)
       \/ \E v \in Values : SetStereoCompParam(t, v)
       \/ \E on \in BOOLEAN : SetStereoCompEnabled(t, on)
  \/ \E p \in Pair, s \in Slot :
       \/ \E fx \in Effect \cup {None} : SetFxSlot(p, s, fx)
       \/ \E on \in BOOLEAN : SetFxEnabled(p, s, on)
       \/ \E v \in Values : SetFxParam(p, s, v)
       \/ \E to \in Slot : MoveFxSlot(p, s, to)
  \/ SendSceneSave
  \/ \E id \in chips, dur \in Durations \cup {0} : SendSceneRecall(id, dur)
--------------------------------------------------------------------------------
(* The worklet's message handler and the core *)

Emit(msgs) == events' = events \o msgs

\* Every setter of the console cancels a running fade.
SetStrip ==
  LET m == Head(ctl)
  IN  /\ m.type \in {"set-gain", "enable-compressor", "disable-compressor",
                     "set-comp-param"}
      /\ console' = CASE m.type = "set-gain" -> K!SetGain(console, m.ch, m.gain)
                      [] m.type = "enable-compressor" -> K!EnsureChannel(console, m.ch)
                      [] OTHER -> console
      /\ comp' = [comp EXCEPT ![m.ch] =
                    CASE m.type = "enable-compressor" -> Default
                      [] m.type = "disable-compressor" -> None
                      [] m.type = "set-comp-param" /\ @ # None -> m.value
                      [] OTHER -> @]
      /\ fade' = None
      /\ UNCHANGED <<rack, scenes, events, parted>>

\* A set over budget is refused, and so is a parameter of a slot that is empty by
\* now.  A parameter is named by its ordinal: a slot that holds another effect than
\* the one it was turned on takes it or, having fewer parameters, refuses it.
MustRefuse(m) ==
  \/ m.type = "set-fx-slot" /\ ~F!FitsBudget(rack, m.pair, m.slot, m.fx)
  \/ m.type = "set-fx-param" /\ rack.slot[m.pair][m.slot].fx = None
MayRefuse(m) ==
  \/ MustRefuse(m)
  \/ m.type = "set-fx-param" /\ rack.slot[m.pair][m.slot].fx # m.fx

SetFx ==
  LET m == Head(ctl)
  IN  /\ m.type \in {"set-fx-slot", "set-fx-enabled", "set-fx-param", "move-fx-slot"}
      /\ \/ /\ ~MustRefuse(m)
            /\ rack' =
                 CASE m.type = "set-fx-slot" -> F!SetSlot(rack, m.pair, m.slot, m.fx)
                   [] m.type = "set-fx-enabled" -> F!SetEnabled(rack, m.pair, m.slot, m.on)
                   [] m.type = "set-fx-param" -> F!SetParam(rack, m.pair, m.slot, m.value)
                   [] m.type = "move-fx-slot" -> F!MoveSlot(rack, m.pair, m.from, m.to)
            /\ UNCHANGED events
         \/ /\ MayRefuse(m)
            /\ Emit(<<[type |-> "fx-error", pair |-> m.pair, slot |-> m.slot]>>)
            /\ UNCHANGED rack
      /\ fade' = None
      /\ UNCHANGED <<console, comp, scenes, parted>>

ConsoleScene ==
  [strips |-> K!ConsoleSnapshot(console), comp |-> comp, chains |-> F!ConsoleSnapshot]

SceneSave ==
  /\ Head(ctl).type = "scene-save"
  /\ next_scene_id \in 1..MaxScene
  /\ scenes' = [scenes EXCEPT ![next_scene_id] = ConsoleScene]
  /\ Emit(<<[type |-> "scene-saved", id |-> next_scene_id]>>)
  /\ UNCHANGED <<console, rack, comp, fade, parted>>

\* A compressor that is on in one scene only has that scene's parameters while the
\* scene is the nearer one.
CompAt(from, to, pos, dur) ==
  IF ~K!Snap(from # None, to # None, pos, dur) THEN None
  ELSE IF from = None THEN to
  ELSE IF to = None THEN from
  ELSE K!Lerp(from, to, pos, dur)

ApplySceneInterp(from, to, pos, dur) ==
  /\ console' = K!ApplySceneInterp(console, from.strips, to.strips, pos, dur)
  /\ comp' = [c \in Strip |-> IF c \in to.strips.covers
                              THEN CompAt(from.comp[c], to.comp[c], pos, dur)
                              ELSE comp[c]]

\* A timed recall after one whose fade still runs, or that is still to be answered,
\* answers for both with its own scene, which leaves out some strip.
AnswersForAnother(scene) ==
  /\ fade # None \/ OfType(ctl, {"get-params"}) \cup OfType(events, {"scene-recalled"}) # {}
  /\ ~(console.exists \subseteq scene.strips.covers)

\* The chains snap at once; a timed recall leaves the strips to process_block.
SceneRecall ==
  LET m == Head(ctl)
      scene == scenes[m.id]
  IN  /\ m.type = "scene-recall"
      /\ rack' = F!ApplySceneFx(rack, scene.chains)
      /\ \/ /\ m.dur = 0
            /\ ApplySceneInterp(scene, scene, 1, 1)
            /\ fade' = None
            /\ UNCHANGED parted
         \/ /\ m.dur > 0
            /\ fade' = [from |-> ConsoleScene, to |-> scene, pos |-> 0, dur |-> m.dur]
            /\ parted' = (parted \/ AnswersForAnother(scene))
            /\ UNCHANGED <<console, comp>>
      /\ Emit(<<[type |-> "scene-recalled"]>>)
      /\ UNCHANGED scenes

ConsoleParams(scene) ==
  [type |-> "console-params",
   strip |-> [c \in scene.strips.covers |->
                [gain |-> scene.strips.strip[c].gain,
                 comp_on |-> scene.comp[c] # None,
                 comp |-> IF scene.comp[c] = None THEN Default ELSE scene.comp[c]]],
   chain |-> [p \in {p \in scene.chains.covers :
                       \E s \in Slot : scene.chains.chain[p][s].fx # None} |->
                scene.chains.chain[p]]]

\* The document leaves out the chains of pairs whose even strip does not exist or
\* was not in the scene a fade runs to, and tells of slots a recall was refused.
TellsOfOtherChains(scene) ==
  \/ \E p \in Pair \ scene.chains.covers, s \in Slot : rack.slot[p][s].fx # None
  \/ ~F!Restored(rack, scene.chains)

\* While a fade runs its target is reported.
GetParams ==
  LET scene == IF fade = None THEN ConsoleScene ELSE fade.to
      behind == OfType(Tail(ctl), {"scene-save", "scene-recall", "get-params"})
  IN  /\ Head(ctl).type = "get-params"
      /\ Emit(<<ConsoleParams(scene)>>)
      /\ parted' = \/ DOMAIN Tail(ctl) \ behind # {}
                   \/ TellsOfOtherChains(scene)
                   \/ parted /\ ~(console.exists \subseteq scene.strips.covers)
      /\ UNCHANGED core

Worklet ==
  /\ ctl # <<>>
  /\ Len(events) < MaxQueue
  /\ SetStrip \/ SetFx \/ SceneSave \/ SceneRecall \/ GetParams
  /\ ctl' = Tail(ctl)
  /\ UNCHANGED <<store, ops>>
--------------------------------------------------------------------------------
(* The audio thread and the streams *)

FadeBlock ==
  /\ fade # None
  /\ IF fade.pos + 1 >= fade.dur
     THEN ApplySceneInterp(fade.to, fade.to, 1, 1) /\ fade' = None
     ELSE /\ ApplySceneInterp(fade.from, fade.to, fade.pos + 1, fade.dur)
          /\ fade' = [fade EXCEPT !.pos = @ + 1]
  /\ UNCHANGED <<rack, scenes, store, ctl, events, ops, parted>>

StreamArrives(c) ==
  /\ c \notin console.exists
  /\ console' = K!EnsureChannel(console, c)
  /\ UNCHANGED <<rack, comp, scenes, fade, store, ctl, events, ops, parted>>
--------------------------------------------------------------------------------
(* The worklet's replies in the UI *)

SceneSaved ==
  /\ Head(events).type = "scene-saved"
  /\ chips' = chips \cup {Head(events).id}
  /\ UNCHANGED <<stereo, channels, fxChains, fxPending, ctl>>

SceneRecalled ==
  /\ Head(events).type = "scene-recalled"
  /\ Len(ctl) < MaxQueue
  /\ ctl' = Append(ctl, [type |-> "get-params"])
  /\ UNCHANGED store

\* What new tells, on top of old.
Over(new, old) == [x \in DOMAIN old |-> IF x \in DOMAIN new THEN new[x] ELSE old[x]]

\* Mutant of RolledBack: written back although the snapshot is gone.
RolledBackBlindly(row, snapshot, s) ==
  IF snapshot = None THEN [row EXCEPT ![s] = None] ELSE Over(snapshot, row)

\* The row with the snapshot's slots put back, if there still is one.
RolledBack(row, snapshot, s) == IF snapshot = None THEN row ELSE Over(snapshot, row)

ApplyFxError ==
  LET m == Head(events)
      snapshot == fxPending[m.pair][m.slot]
  IN  /\ m.type = "fx-error"
      /\ fxChains' = [fxChains EXCEPT ![m.pair] = RolledBack(@, snapshot, m.slot)]
      /\ fxPending' = [fxPending EXCEPT ![m.pair][m.slot] = None]
      /\ UNCHANGED <<stereo, channels, chips, ctl>>

\* The stores are written directly, nothing is sent; a stereo channel shows its
\* left strip, and a pair that is not in the document is empty.
ApplyConsoleParams ==
  LET m == Head(events)
  IN  /\ m.type = "console-params"
      /\ channels' = Over(m.strip, channels)
      /\ stereo' = [t \in Pair |-> channels'[2 * t]]
      /\ fxChains' = [p \in Pair |-> [s \in Slot |->
           IF p \in DOMAIN m.chain /\ m.chain[p][s].fx # None THEN m.chain[p][s]
           ELSE NoFx]]
      /\ UNCHANGED <<fxPending, chips, ctl>>

Reply ==
  /\ events # <<>>
  /\ SceneSaved \/ SceneRecalled \/ ApplyFxError \/ ApplyConsoleParams
  /\ events' = Tail(events)
  /\ UNCHANGED <<core, ops, parted>>

Next == User \/ Worklet \/ FadeBlock \/ (\E c \in Strip : StreamArrives(c)) \/ Reply

Spec == Init /\ [][Next]_vars
--------------------------------------------------------------------------------
(* Properties *)

Level == Nat
Params == Values \cup {F!Zeroed, F!Default}
View == [gain : Level, comp_on : BOOLEAN, comp : Level]
FxView == [fx : Effect \cup {None}, enabled : BOOLEAN, params : Params]
Rows == UNION {[slots -> FxView] : slots \in SUBSET Slot}
Comps == [Strip -> Level \cup {None}]
Scenes == [strips : K!Snapshot, comp : Comps,
           chains : [covers : SUBSET Pair, chain : [Pair -> [Slot -> FxView]]]]
Fades == [from : Scenes, to : Scenes, pos : Nat, dur : Durations]

ASSUME AbsenceAssumption == None \notin Scenes \cup Fades \cup Rows

TypeOK ==
  /\ stereo \in [Pair -> View] /\ channels \in [Strip -> View]
  /\ fxChains \in [Pair -> [Slot -> FxView]]
  /\ fxPending \in [Pair -> [Slot -> Rows \cup {None}]]
  /\ chips \subseteq 1..MaxScene
  /\ F!TypeOK /\ comp \in Comps
  /\ scenes \in [K!Scene -> Scenes \cup {None}] /\ fade \in Fades \cup {None}
  /\ Len(ctl) <= MaxQueue /\ Len(events) <= MaxQueue

\* What the store says of strip c is true of the core.
StripShown(view, c) ==
  /\ view.comp_on = (comp[c] # None)
  /\ c \in console.exists => view.gain = console.gain[c]

\* "So store and engine never disagree" (mixer.ts): once every message is answered
\* and no fade runs, the controls show what the core holds - after refused slots,
\* moves, compressors switched on, instant and timed recalls in any order -
\* unless the user wrote in one of the windows Post, Untimely, Unanswered and
\* TellsOfOtherChains name, and no recall has brought them together again.
StoreMirrorsEngine ==
  ctl = <<>> /\ events = <<>> /\ fade = None /\ ~parted =>
    /\ \A c \in Strip : StripShown(channels[c], c)
    /\ \A t \in Pair : /\ StripShown(stereo[t], 2 * t)
                       /\ comp[2 * t] \in {stereo[t].comp, None}
    /\ \A p \in Pair, s \in Slot : fxChains[p][s] = F!Captured(rack.slot[p][s])

\* "The fan-out setters wrote both sides identically": with no message under way
\* the two strips of a stereo channel are set alike, in a fade, when one is
\* cancelled and when strips come into being one by one, as long as no scene was
\* saved that holds one of them only.
SidesStayLinked ==
  ctl = <<>> /\ (\A id \in 1..MaxScene : scenes[id] # None =>
                   \A t \in Pair : 2 * t \in scenes[id].strips.covers
                                   <=> 2 * t + 1 \in scenes[id].strips.covers)
  => \A t \in Pair : /\ console.gain[2 * t] = console.gain[2 * t + 1]
                     /\ comp[2 * t] = comp[2 * t + 1]
================================================================================
