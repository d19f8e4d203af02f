-------------------------------- MODULE FxScenes --------------------------------
(****************************************************************************)
(* Scenes and the FX rack: what save_scene captures of the chains and how a *)
(* recall, instant or faded, snaps them back (lib.rs, apply_scene_fx).      *)
(* Everything else a scene holds is in module Console.                      *)
(*                                                                          *)
(* Bound: MaxScene scenes are saved in a run.                               *)
(****************************************************************************)
EXTENDS FxRack

CONSTANT MaxScene

ASSUME SceneAssumption == MaxScene \in Nat

VARIABLES
  owned,         \* pairs whose owner, the even strip, exists
  scenes,        \* id -> what the scene holds of the chains, or None
  next_scene_id

svars == <<rack, owned, scenes, next_scene_id>>

Scene == 1..MaxScene

SInit ==
  /\ Init
  /\ owned = {}
  /\ scenes = [id \in Scene |-> None]
  /\ next_scene_id = 1

\* chain_snapshot of every pair, and the pairs the scene covers.
Captured(slot) == [fx |-> slot.fx, enabled |-> slot.enabled, params |-> slot.params]

ConsoleSnapshot ==
  [covers |-> owned,
   chain |-> [p \in Pair |-> [s \in Slot |-> Captured(rack.slot[p][s])]]]

\* Mutant of ApplySlot: the flag is only written when the effect is loaded.
ApplySlotKeepsFlag(r, scene, p, s) ==
  LET saved == scene.chain[p][s]
      loaded == SetEnabled(SetSlot(r, p, s, saved.fx), p, s, saved.enabled)
      base == IF r.slot[p][s].fx = saved.fx THEN r ELSE loaded
  IN  IF p \notin scene.covers \/ saved.fx = None THEN r
      ELSE SetParam(base, p, s, saved.params)

\* Recall one slot through the setters, whose errors are ignored: a slot that
\* holds the scene's effect keeps its DSP, and whatever the slot holds after
\* the set is given the scene's parameters and flag.
ApplySlot(r, scene, p, s) ==
  LET saved == scene.chain[p][s]
      loaded == IF r.slot[p][s].fx = saved.fx THEN r ELSE SetSlot(r, p, s, saved.fx)
  IN  IF p \notin scene.covers THEN r
      ELSE IF saved.fx = None THEN loaded
      ELSE SetEnabled(SetParam(loaded, p, s, saved.params), p, s, saved.enabled)

\* Slot by slot down the chain of a pair, and pair by pair.
ApplyChain(r, scene, p) ==
  LET after[n \in 0..CHAIN_SLOTS] ==
        IF n = 0 THEN r ELSE ApplySlot(after[n - 1], scene, p, n - 1)
  IN  after[CHAIN_SLOTS]

ApplySceneFx(r, scene) ==
  LET after[n \in 0..CHAIN_PAIRS] ==
        IF n = 0 THEN r ELSE ApplyChain(after[n - 1], scene, n - 1)
  IN  after[CHAIN_PAIRS]
--------------------------------------------------------------------------------
RackStep ==
  /\ FxSetSlot \/ FxSetEnabled \/ FxSetParam \/ FxMoveSlot \/ Process
  /\ UNCHANGED <<owned, scenes, next_scene_id>>

\* ensure_channel of the pair's even strip; strips are never destroyed.
EnsureOwner(p) ==
  /\ owned' = owned \cup {p}
  /\ UNCHANGED <<rack, scenes, next_scene_id>>

SaveScene ==
  /\ next_scene_id \in Scene
  /\ scenes' = [scenes EXCEPT ![next_scene_id] = ConsoleSnapshot]
  /\ next_scene_id' = next_scene_id + 1
  /\ UNCHANGED <<rack, owned>>

RecallScene(id) ==
  /\ scenes[id] # None
  /\ rack' = ApplySceneFx(rack, scenes[id])
  /\ UNCHANGED <<owned, scenes, next_scene_id>>

DeleteScene(id) ==
  /\ scenes' = [scenes EXCEPT ![id] = None]
  /\ UNCHANGED <<rack, owned, next_scene_id>>

SNext ==
  \/ \E id \in Scene : RecallScene(id) \/ DeleteScene(id)
  \/ SaveScene
  \/ RackStep
  \/ \E p \in Pair : EnsureOwner(p)

SSpec == SInit /\ [][SNext]_svars
--------------------------------------------------------------------------------
(* Properties *)

\* The slots a scene covers hold what it captured.
Restored(r, scene) ==
  \A p \in scene.covers, s \in Slot :
    LET saved == scene.chain[p][s]
        slot == r.slot[p][s]
    IN  IF saved.fx = None THEN slot.fx = None ELSE Captured(slot) = saved

\* "Instantly recall scene id: every captured parameter is reapplied": recalling a
\* scene that covers the whole rack, so that nothing else needs budget, brings
\* the rack back to what it was when the scene was saved.
RecallRestores ==
  [][\A id \in Scene :
       RecallScene(id) /\ scenes[id].covers = Pair
       => Restored(rack', scenes[id])]_svars

SceneFx(scene, place) == scene.chain[place[1]][place[2]].fx
SceneHandles(scene) ==
  {h \in scene.covers \X Slot \X (1..2) :
     SceneFx(scene, h) \in MemoryFx /\ h[3] <= Handles(SceneFx(scene, h))}
SceneLoopers(scene) == {s \in scene.covers \X Slot : SceneFx(scene, s) \in LooperFx}

\* The budgets have room for the scene on top of what runs.
Headroom(scene) ==
  /\ rack.mem + Cardinality(SceneHandles(scene)) <= MEMORY_CLASS_CAP
  /\ rack.loopers + Cardinality(SceneLoopers(scene)) <= LOOPER_CAP

\* With that headroom the recall is exact, whatever the slots held before.
RecallRestoresWithHeadroom ==
  [][\A id \in Scene :
       RecallScene(id) /\ Headroom(scenes[id]) => Restored(rack', scenes[id])]_svars
================================================================================
