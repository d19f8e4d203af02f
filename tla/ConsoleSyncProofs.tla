--------------------------- MODULE ConsoleSyncProofs ---------------------------
(****************************************************************************)
(* Theorems about ConsoleSync, for every number of stereo channels, catalog,*)
(* number of scenes and length of the queues: its types (Shapes); that the  *)
(* two strips of a stereo channel stay alike (SidesInv); and that the UI's  *)
(* store mirrors the mixer at rest (Grounds, StripsMirror for the strips,   *)
(* ChainsMirror for the FX chains).                                         *)
(****************************************************************************)
EXTENDS ConsoleSync, FiniteSetTheorems, SequenceTheorems, TLAPS

FP == INSTANCE FxRackProofs
KP == INSTANCE ConsoleProofs WITH NumInputs <- NumStrips, NumBuses <- 0, BUS_SLOTS <- 0

--------------------------------------------------------------------------------
(* The constants *)

LEMMA Constants ==
  /\ CHAIN_PAIRS \in Nat /\ NumStrips \in Nat /\ NumStrips = 2 * CHAIN_PAIRS
  /\ CHAIN_SLOTS \in Nat /\ MaxScene \in Nat /\ MaxQueue \in Nat
  /\ Gains \subseteq Nat /\ InitialGain \in Nat /\ Durations \subseteq Nat \ {0}
  /\ Values \subseteq Nat /\ None \notin Nat /\ None \notin Effect
BY SyncAssumption DEF F!RackAssumption, F!SceneAssumption, K!ConsoleAssumption

LEMMA SameSets ==
  /\ F!Pair = Pair /\ F!Slot = Slot /\ FP!Pair = Pair /\ FP!Slot = Slot
  /\ F!Zeroed = 0 /\ F!Default = 1 /\ FP!Zeroed = 0 /\ FP!Default = 1
  /\ FP!Saved = FxView
  /\ FP!Snapshots = [covers : SUBSET Pair, chain : [Pair -> [Slot -> FxView]]]
BY SyncAssumption DEF F!Pair, F!Slot, FP!Pair, FP!Slot, Pair, Slot, F!Zeroed, F!Default,
   FP!Zeroed, FP!Default, FP!Saved, FP!Snapshots, FxView, Params

\* The assumptions of the modules the rack's lemmas come from.
LEMMA Rack == FP!RackAssumption /\ FP!SceneAssumption
BY SyncAssumption DEF F!RackAssumption, FP!RackAssumption, F!SceneAssumption,
   FP!SceneAssumption

LEMMA SameStrips ==
  /\ K!Input = Strip /\ K!Strip = Strip /\ K!Bus = {}
  /\ K!Scene = 1..MaxScene
<1>1. K!Input = Strip /\ K!Bus = {} /\ K!Scene = 1..MaxScene
  BY DEF K!Input, K!Bus, K!Scene, Strip
<1> QED
  BY <1>1 DEF K!Strip

Lefts == {2 * t : t \in Pair}
Rights == {2 * t + 1 : t \in Pair}

LEMMA TwoSides ==
  /\ Strip = Lefts \cup Rights /\ Lefts \cap Rights = {}
  /\ \A t \in Pair : 2 * t \in Lefts /\ 2 * t + 1 \in Rights
<1>1. \A c \in Strip : \E t \in Pair : c = 2 * t \/ c = 2 * t + 1
  <2> SUFFICES ASSUME NEW c \in Strip PROVE \E t \in Pair : c = 2 * t \/ c = 2 * t + 1
    OBVIOUS
  <2>1. c \div 2 \in Pair /\ (c = 2 * (c \div 2) \/ c = 2 * (c \div 2) + 1)
    BY Constants DEF Strip, Pair
  <2> QED
    BY <2>1
<1>2. \A t \in Pair : 2 * t \in Strip /\ 2 * t + 1 \in Strip
  BY Constants DEF Strip, Pair
<1>3. \A t, u \in Pair : 2 * t # 2 * u + 1
  BY Constants DEF Pair
<1> QED
  BY <1>1, <1>2, <1>3 DEF Lefts, Rights

--------------------------------------------------------------------------------
(* The console: nobody mutes or solos here, so only gains move *)

NoBus == [b \in {} |-> 0]

Consoles ==
  [exists : SUBSET Strip, gain : [Strip -> Level], user_muted : {{}}, soloed : {{}},
   engine : {{}}, main_assign : {Strip}, bus : {NoBus}, master_gain : Level]

PlainStrip == [gain : Level, main_assign : {TRUE}, mute : {FALSE}, solo : {FALSE}]

Strips ==
  [covers : SUBSET Strip, strip : [Strip -> PlainStrip], bus : {NoBus},
   master_gain : Level]

PlainScenes ==
  [strips : Strips, comp : Comps,
   chains : [covers : SUBSET Pair, chain : [Pair -> [Slot -> FxView]]]]

LEMMA InitConsolePlain == K!InitConsole \in Consoles
<1>1. InitialGain \in Level
  BY Constants DEF Level
<1>2. \A f : f = [b \in {} |-> f[b]] => f = NoBus
  BY DEF NoBus
<1> QED
  BY <1>1, SameStrips, Zenon DEF K!InitConsole, Consoles, NoBus

LEMMA EnsurePlain ==
  ASSUME NEW k \in Consoles, NEW c \in Strip
  PROVE  /\ K!EnsureChannel(k, c) \in Consoles
         /\ K!EnsureChannel(k, c).gain = k.gain
         /\ K!EnsureChannel(k, c).exists = k.exists \cup {c}
BY DEF K!EnsureChannel, Consoles

LEMMA SetGainPlain ==
  ASSUME NEW k \in Consoles, NEW c \in Strip, NEW g \in Level
  PROVE  /\ K!SetGain(k, c, g) \in Consoles
         /\ K!SetGain(k, c, g).gain = [k.gain EXCEPT ![c] = g]
         /\ K!SetGain(k, c, g).exists = k.exists \cup {c}
BY EnsurePlain DEF K!SetGain, Consoles

LEMMA Membership ==
  ASSUME NEW S, NEW c
  PROVE  /\ c \in S => (c \in S) = TRUE
         /\ c \notin S => (c \in S) = FALSE
<1>1. ASSUME c \in S PROVE (c \in S) = TRUE
  BY <1>1
<1>2. ASSUME c \notin S PROVE (c \in S) = FALSE
  BY <1>2
<1> QED
  BY <1>1, <1>2

LEMMA SnapshotPlain ==
  ASSUME NEW k \in Consoles
  PROVE  /\ K!ConsoleSnapshot(k) \in Strips
         /\ K!ConsoleSnapshot(k).covers = k.exists
         /\ \A c \in Strip : K!ConsoleSnapshot(k).strip[c].gain = k.gain[c]
<1>1. ASSUME NEW c \in Strip PROVE K!StripScene(k, c) \in PlainStrip
  <2>0. c \in k.main_assign /\ c \notin k.user_muted /\ c \notin k.soloed
    BY DEF Consoles
  <2>1. (c \in k.main_assign) = TRUE /\ (c \in k.user_muted) = FALSE
        /\ (c \in k.soloed) = FALSE
    BY <2>0, Membership
  <2>2. k.gain[c] \in Level
    BY DEF Consoles
  <2>3. K!StripScene(k, c)
          = [gain |-> k.gain[c], main_assign |-> TRUE, mute |-> FALSE, solo |-> FALSE]
    BY <2>1, Zenon DEF K!StripScene
  <2> QED
    BY <2>2, <2>3 DEF PlainStrip
<1>2. [c \in Strip |-> K!StripScene(k, c)] \in [Strip -> PlainStrip]
  BY <1>1
<1>3. \A c \in Strip : K!StripScene(k, c).gain = k.gain[c]
  BY DEF K!StripScene
<1> QED
  BY <1>2, <1>3, SameStrips DEF K!ConsoleSnapshot, Strips, Consoles

\* Position pos of dur blocks.
At(pos, dur) == pos \in Nat /\ dur \in Nat \ {0} /\ pos <= dur

Written(from, to, pos, dur) ==
  {c \in to.covers : ~K!Skipped(from.strip[c], to.strip[c], pos, dur)}

LEMMA LerpLevel ==
  ASSUME NEW a \in Level, NEW b \in Level, NEW pos, NEW dur, At(pos, dur)
  PROVE  K!Lerp(a, b, pos, dur) \in Level
BY KP!LerpType DEF At, Level, K!Lerp, KP!Lerp
\* A step of a recall writes the gains of the strips in the scene, but for those that
\* are the same in both scenes of a fade.
LEMMA ScenePlain ==
  ASSUME NEW k \in Consoles, NEW from \in Strips, NEW to \in Strips,
         NEW pos, NEW dur, At(pos, dur)
  PROVE  LET q == K!ApplySceneInterp(k, from, to, pos, dur)
             W == Written(from, to, pos, dur)
         IN  /\ q \in Consoles
             /\ q.exists = k.exists \cup W
             /\ q.gain = [c \in Strip |->
                  IF c \in W
                  THEN K!Lerp(from.strip[c].gain, to.strip[c].gain, pos, dur)
                  ELSE k.gain[c]]
<1> DEFINE W == Written(from, to, pos, dur)
           g == [c \in Strip |->
                  IF c \in W
                  THEN K!Lerp(from.strip[c].gain, to.strip[c].gain, pos, dur)
                  ELSE k.gain[c]]
           strips == K!ApplyStrips(k, from, to, pos, dur)
           mutes == K!ApplyMutes(strips, from, to, pos, dur)
           q == K!ApplySceneInterp(k, from, to, pos, dur)
<1>1. W \subseteq Strip
  BY DEF Written, Strips
<1>2. g \in [Strip -> Level]
  <2>1. \A c \in Strip : K!Lerp(from.strip[c].gain, to.strip[c].gain, pos, dur) \in Level
    BY LerpLevel DEF Strips, PlainStrip
  <2> HIDE DEF W
  <2> QED
    BY <2>1 DEF Consoles
<1>3. \A c \in Strip : K!Snap(from.strip[c].main_assign, to.strip[c].main_assign, pos, dur)
  BY DEF K!Snap, Strips, PlainStrip
<1>4. strips \in Consoles /\ strips.exists = k.exists \cup W /\ strips.gain = g
  <2>1. strips = [k EXCEPT !.exists = @ \cup W, !.gain = g, !.main_assign =
          {c \in Strip : IF c \in W
                         THEN K!Snap(from.strip[c].main_assign, to.strip[c].main_assign,
                                     pos, dur)
                         ELSE c \in k.main_assign}]
    BY SameStrips DEF K!ApplyStrips, Written
  <2>2. {c \in Strip : IF c \in W
                       THEN K!Snap(from.strip[c].main_assign, to.strip[c].main_assign,
                                   pos, dur)
                       ELSE c \in k.main_assign} = Strip
    BY <1>3 DEF Consoles
  <2>3. strips = [k EXCEPT !.exists = @ \cup W, !.gain = g, !.main_assign = Strip]
    BY <2>1, <2>2
  <2> HIDE DEF W, g, strips
  <2> QED
    BY <1>1, <1>2, <2>3 DEF Consoles
<1>5. K!DropForeignSolos(strips, to) = strips
  <2> HIDE DEF strips
  <2> QED
    BY <1>4 DEF K!DropForeignSolos, Consoles
<1>6. \A c \in to.covers : to.strip[c].mute = FALSE /\ to.strip[c].solo = FALSE
  BY DEF Strips, PlainStrip
<1>7. mutes \in Consoles /\ mutes.exists = strips.exists /\ mutes.gain = strips.gain
  <2>1. {c \in to.covers : (c \in strips.user_muted) # to.strip[c].mute} = {}
    <3>1. strips.user_muted = {}
      BY <1>4 DEF Consoles
    <3>2. \A c : (c \in strips.user_muted) = FALSE
      BY <3>1, Membership
    <3>3. \A c \in to.covers : (c \in strips.user_muted) = to.strip[c].mute
      BY <1>6, <3>2, Zenon
    <3> QED
      BY <3>3, Zenon
  <2> HIDE DEF strips
  <2>2. mutes = [strips EXCEPT
                   !.exists = @ \cup {}, !.user_muted = (@ \ {}) \cup {},
                   !.engine = (@ \ {}) \cup {}]
    BY <2>1 DEF K!ApplyMutes
  <2> HIDE DEF mutes
  <2> QED
    BY <1>4, <2>2 DEF Consoles
<1>8. K!ApplySolos(mutes, from, to, pos, dur) = mutes
  <2>1. {c \in to.covers : (c \in mutes.soloed) # to.strip[c].solo} = {}
    <3>1. mutes.soloed = {}
      BY <1>7 DEF Consoles
    <3>2. \A c : (c \in mutes.soloed) = FALSE
      BY <3>1, Membership
    <3>3. \A c \in to.covers : (c \in mutes.soloed) = to.strip[c].solo
      BY <1>6, <3>2, Zenon
    <3> QED
      BY <3>3, Zenon
  <2> HIDE DEF mutes
  <2> QED
    BY <2>1 DEF K!ApplySolos
<1>9. q = K!ApplyBuses(mutes, from, to, pos, dur)
  BY <1>5, <1>8, Zenon DEF K!ApplySceneInterp
<1> HIDE DEF mutes, q, strips
<1>10. q \in Consoles /\ q.exists = mutes.exists /\ q.gain = mutes.gain
  <2> DEFINE m == K!Lerp(from.master_gain, to.master_gain, pos, dur)
  <2>1. m \in Level
    BY LerpLevel DEF Strips
  <2> HIDE DEF m
  <2>2. \E e, f : /\ e = {}
                  /\ f = [b \in {} |-> f[b]]
                  /\ q = [mutes EXCEPT !.exists = @ \cup e, !.bus = f, !.master_gain = m]
    BY <1>9, SameStrips DEF K!ApplyBuses, m
  <2>3. PICK e, f : /\ e = {}
                    /\ f = [b \in {} |-> f[b]]
                    /\ q = [mutes EXCEPT !.exists = @ \cup e, !.bus = f, !.master_gain = m]
    BY <2>2
  <2>4. f = NoBus
    BY <2>3 DEF NoBus
  <2> QED
    BY <1>7, <2>1, <2>3, <2>4 DEF Consoles
<1> QED
  BY <1>4, <1>7, <1>10 DEF q
\* A recall, or a block of a fade, as it changes gains and compressors.
LEMMA InterpPlain ==
  ASSUME console \in Consoles, comp \in Comps, NEW from \in PlainScenes,
         NEW to \in PlainScenes, NEW pos, NEW dur, At(pos, dur),
         ApplySceneInterp(from, to, pos, dur)
  PROVE  LET W == Written(from.strips, to.strips, pos, dur)
         IN  /\ console' \in Consoles
             /\ console'.exists = console.exists \cup W
             /\ \A c \in Strip : console'.gain[c] =
                  IF c \in W
                  THEN K!Lerp(from.strips.strip[c].gain, to.strips.strip[c].gain, pos, dur)
                  ELSE console.gain[c]
             /\ comp' \in Comps
             /\ \A c \in Strip : comp'[c] =
                  IF c \in to.strips.covers THEN CompAt(from.comp[c], to.comp[c], pos, dur)
                  ELSE comp[c]
<1>1. from.strips \in Strips /\ to.strips \in Strips /\ from.comp \in Comps /\ to.comp \in Comps
  BY DEF PlainScenes
<1>2. console' = K!ApplySceneInterp(console, from.strips, to.strips, pos, dur)
  BY DEF ApplySceneInterp
<1>3. ASSUME NEW a \in Level \cup {None}, NEW b \in Level \cup {None}
      PROVE  CompAt(a, b, pos, dur) \in Level \cup {None}
  <2>1. a # None /\ b # None => K!Lerp(a, b, pos, dur) \in Level
    BY LerpLevel
  <2> QED
    BY <2>1 DEF CompAt
<1>4. \A c \in Strip : CompAt(from.comp[c], to.comp[c], pos, dur) \in Level \cup {None}
  BY <1>1, <1>3 DEF Comps
<1>5. /\ comp' \in Comps
      /\ \A c \in Strip : comp'[c] =
           IF c \in to.strips.covers THEN CompAt(from.comp[c], to.comp[c], pos, dur)
           ELSE comp[c]
  BY <1>4 DEF ApplySceneInterp, Comps
<1> DEFINE W == Written(from.strips, to.strips, pos, dur)
<1>6. /\ console' \in Consoles /\ console'.exists = console.exists \cup W
      /\ console'.gain = [c \in Strip |->
           IF c \in W
           THEN K!Lerp(from.strips.strip[c].gain, to.strips.strip[c].gain, pos, dur)
           ELSE console.gain[c]]
  <2> HIDE DEF At
  <2> QED
    BY <1>1, <1>2, ScenePlain
<1> HIDE DEF W
<1>7. \A c \in Strip : console'.gain[c] =
        IF c \in W
        THEN K!Lerp(from.strips.strip[c].gain, to.strips.strip[c].gain, pos, dur)
        ELSE console.gain[c]
  BY <1>6
<1> QED
  BY <1>5, <1>6, <1>7 DEF W

--------------------------------------------------------------------------------
(* The inductive invariant: types *)

StripTypes == {"set-gain", "set-comp-param", "enable-compressor", "disable-compressor"}
FxTypes == {"set-fx-slot", "set-fx-enabled", "set-fx-param", "move-fx-slot"}

Message ==
  [type : {"set-gain"}, ch : Strip, gain : Level]
  \cup [type : {"set-comp-param"}, ch : Strip, value : Level]
  \cup [type : {"enable-compressor", "disable-compressor"}, ch : Strip]
  \cup [type : {"set-fx-slot"}, pair : Pair, slot : Slot, fx : Effect \cup {None}]
  \cup [type : {"set-fx-enabled"}, pair : Pair, slot : Slot, on : BOOLEAN]
  \cup [type : {"set-fx-param"}, pair : Pair, slot : Slot, value : Params, fx : Effect]
  \cup [type : {"move-fx-slot"}, pair : Pair, from : Slot, to : Slot]
  \cup [type : {"scene-save", "get-params"}]
  \cup [type : {"scene-recall"}, id : 1..MaxScene, dur : Durations \cup {0}]

Document ==
  [type : {"console-params"}, strip : UNION {[S -> View] : S \in SUBSET Strip},
   chain : UNION {[P -> [Slot -> FxView]] : P \in SUBSET Pair}]

Report ==
  [type : {"fx-error"}, pair : Pair, slot : Slot]
  \cup [type : {"scene-saved"}, id : 1..MaxScene]
  \cup [type : {"scene-recalled"}]
  \cup Document

Saved == {id \in 1..MaxScene : scenes[id] # None}

\* Only scenes that were saved are recalled and offered.
Ask == {m \in Message : m.type = "scene-recall" => m.id \in Saved}
Answer == {m \in Report : m.type = "scene-saved" => m.id \in Saved}

PlainFades ==
  {f \in [from : PlainScenes, to : PlainScenes, pos : Nat, dur : Durations] :
     f.pos < f.dur}

StoreOK ==
  /\ stereo \in [Pair -> View] /\ channels \in [Strip -> View]
  /\ fxChains \in [Pair -> [Slot -> FxView]]
  /\ fxPending \in [Pair -> [Slot -> Rows \cup {None}]]
  /\ chips \subseteq Saved

PortOK ==
  /\ ctl \in Seq(Ask) /\ Len(ctl) <= MaxQueue
  /\ events \in Seq(Answer) /\ Len(events) <= MaxQueue

CoreOK ==
  /\ console \in Consoles /\ comp \in Comps /\ FP!RackOK(rack)
  /\ scenes \in [1..MaxScene -> PlainScenes \cup {None}]
  /\ fade \in PlainFades \cup {None}

Shapes == StoreOK /\ PortOK /\ CoreOK

LEMMA PlainIsScene == PlainScenes \subseteq Scenes /\ None \notin PlainScenes
<1>1. PlainStrip \subseteq K!StripScenes
  BY DEF PlainStrip, K!StripScenes, K!Level, Level
<1>2. NoBus \in [K!Bus -> K!BusScenes]
  BY SameStrips DEF NoBus
<1>3. Strips \subseteq K!Snapshot
  <2> SUFFICES ASSUME NEW s \in Strips PROVE s \in K!Snapshot
    OBVIOUS
  <2>1. s.strip \in [Strip -> K!StripScenes]
    BY <1>1 DEF Strips
  <2> HIDE DEF PlainStrip, NoBus
  <2> QED
    BY <1>2, <2>1, SameStrips DEF Strips, K!Snapshot, K!Level, Level
<1>4. PlainScenes \subseteq Scenes
  BY <1>3 DEF PlainScenes, Scenes
<1> QED
  BY <1>4, AbsenceAssumption

LEMMA PlainIsFade == PlainFades \subseteq Fades /\ None \notin PlainFades
<1>1. PlainFades \subseteq Fades
  BY PlainIsScene DEF PlainFades, Fades
<1> QED
  BY <1>1, AbsenceAssumption

LEMMA ShapesType == Shapes => TypeOK
<1> SUFFICES ASSUME Shapes PROVE TypeOK
  OBVIOUS
<1>1. chips \subseteq 1..MaxScene
  BY DEF Shapes, StoreOK, Saved
<1>2. FP!TypeOK
  BY DEF Shapes, CoreOK, FP!RackOK, FP!Racks, FP!Slots, FP!TypeOK
<1>3. F!SlotState = FP!SlotState
  BY SameSets DEF F!SlotState, FP!SlotState
<1>4. F!TypeOK
  BY <1>2, <1>3, SameSets DEF FP!TypeOK, F!TypeOK
<1> QED
  BY <1>1, <1>4, PlainIsScene, PlainIsFade, SameStrips
  DEF Shapes, StoreOK, PortOK, CoreOK, TypeOK
--------------------------------------------------------------------------------
(* The messages of a stereo channel come in pairs, left and right *)

OfStrip(m) == m.type \in StripTypes
IsLeft(m) == OfStrip(m) /\ m.ch \in Lefts
IsRight(m) == OfStrip(m) /\ m.ch \in Rights
Mate(m) == [m EXCEPT !.ch = @ + 1]

InPairs(q) ==
  \A i \in 1..Len(q) :
    /\ IsLeft(q[i]) => i < Len(q) /\ q[i + 1] = Mate(q[i])
    /\ IsRight(q[i]) /\ i > 1 => IsLeft(q[i - 1])

Paired(q) == q # <<>> /\ InPairs(q) /\ ~IsRight(q[1])

LEMMA OneSide == \A m : ~(IsLeft(m) /\ IsRight(m))
BY TwoSides DEF IsLeft, IsRight

LEMMA ConcatPairs ==
  ASSUME NEW S, NEW p \in Seq(S), NEW q \in Seq(S), InPairs(p), Paired(q)
  PROVE  InPairs(p \o q) /\ (p = <<>> \/ ~IsRight(p[1]) => Paired(p \o q))
<1> DEFINE r == p \o q
<1>1. /\ r \in Seq(S) /\ Len(r) = Len(p) + Len(q)
      /\ \A i \in 1..(Len(p) + Len(q)) : r[i] = IF i <= Len(p) THEN p[i] ELSE q[i - Len(p)]
      /\ Len(p) \in Nat /\ Len(q) \in Nat /\ Len(q) > 0
  <2>1. Len(q) \in Nat \ {0}
    BY EmptySeq DEF Paired
  <2> QED
    BY <2>1, ConcatProperties
<1> HIDE DEF r
<1>2. ASSUME NEW i \in 1..Len(r)
      PROVE  /\ IsLeft(r[i]) => i < Len(r) /\ r[i + 1] = Mate(r[i])
             /\ IsRight(r[i]) /\ i > 1 => IsLeft(r[i - 1])
  <2>1. CASE i <= Len(p)
    <3>1. i \in 1..Len(p) /\ r[i] = p[i]
      BY <1>1, <2>1
    <3>2. i < Len(p) => r[i + 1] = p[i + 1]
      BY <1>1, <2>1
    <3>3. i > 1 => r[i - 1] = p[i - 1]
      BY <1>1, <2>1
    <3> QED
      BY <1>1, <3>1, <3>2, <3>3 DEF InPairs
  <2>2. CASE i = Len(p) + 1
    <3>1. r[i] = q[1] /\ 1 \in 1..Len(q)
      BY <1>1, <2>2
    <3>2. 1 < Len(q) => r[i + 1] = q[2]
      BY <1>1, <2>2
    <3> QED
      BY <1>1, <2>2, <3>1, <3>2 DEF InPairs, Paired
  <2>3. CASE i > Len(p) + 1
    <3> DEFINE j == i - Len(p)
    <3>0. j \in 1..Len(q) /\ j > 1 /\ i - 1 - Len(p) = j - 1 /\ ~(i <= Len(p))
          /\ i - 1 \in 1..(Len(p) + Len(q)) /\ ~(i - 1 <= Len(p))
      BY <1>1, <2>3
    <3>1. j \in 1..Len(q) /\ j > 1 /\ r[i] = q[j] /\ r[i - 1] = q[j - 1]
      BY <1>1, <3>0
    <3>2. j < Len(q) => i < Len(r) /\ r[i + 1] = q[j + 1]
      BY <1>1, <2>3
    <3> HIDE DEF j
    <3>3. /\ IsLeft(q[j]) => j < Len(q) /\ q[j + 1] = Mate(q[j])
          /\ IsRight(q[j]) => IsLeft(q[j - 1])
      BY <3>1 DEF InPairs, Paired
    <3> QED
      BY <3>1, <3>2, <3>3
  <2>4. i <= Len(p) \/ i = Len(p) + 1 \/ i > Len(p) + 1
    BY <1>1
  <2> QED
    BY <2>1, <2>2, <2>3, <2>4
<1>3. InPairs(r)
  BY <1>2 DEF InPairs
<1>4. p = <<>> => r[1] = q[1]
  BY <1>1
<1>5. p # <<>> => r[1] = p[1] /\ r # <<>>
  <2>1. p # <<>> => Len(p) > 0
    BY EmptySeq, <1>1
  <2>2. Len(r) # 0
    BY <1>1
  <2> QED
    BY <1>1, <2>1, <2>2
<1>6. r # <<>>
  BY <1>1
<1> QED
  BY <1>3, <1>4, <1>5, <1>6 DEF Paired, r

LEMMA OnePair ==
  ASSUME NEW l, IsLeft(l), IsRight(Mate(l))
  PROVE  Paired(<<l, Mate(l)>>)
<1> DEFINE q == <<l, Mate(l)>>
<1>1. Len(q) = 2 /\ q[1] = l /\ q[2] = Mate(l) /\ q # <<>>
  OBVIOUS
<1> HIDE DEF q
<1>2. ASSUME NEW i \in 1..Len(q)
      PROVE  /\ IsLeft(q[i]) => i < Len(q) /\ q[i + 1] = Mate(q[i])
             /\ IsRight(q[i]) /\ i > 1 => IsLeft(q[i - 1])
  <2>1. i = 1 \/ i = 2
    BY <1>1
  <2> QED
    BY <1>1, <2>1, OneSide
<1> QED
  BY <1>1, <1>2, OneSide DEF InPairs, Paired, q

LEMMA NoPair ==
  ASSUME NEW m, ~OfStrip(m)
  PROVE  Paired(<<m>>)
<1>1. Len(<<m>>) = 1 /\ <<m>>[1] = m /\ <<m>> # <<>>
  OBVIOUS
<1> QED
  BY <1>1 DEF Paired, InPairs, IsLeft, IsRight
--------------------------------------------------------------------------------
(* The user's setters *)

\* What a setter posts.
Posted(msgs) ==
  /\ msgs \in Seq(Ask) /\ Paired(msgs)
  /\ ctl' = ctl \o msgs /\ Len(ctl') <= MaxQueue
  /\ UNCHANGED <<events, core>>

LEMMA PostPosts ==
  ASSUME PortOK, NEW msgs \in Seq(Ask), Paired(msgs), NEW late, Post(msgs, late)
  PROVE  Posted(msgs)
<1>1. Len(ctl \o msgs) = Len(ctl) + Len(msgs)
  BY ConcatProperties DEF PortOK
<1> QED
  BY <1>1 DEF Posted, Post

LEMMA Pairing ==
  ASSUME NEW t \in Pair
  PROVE  /\ 2 * t \in Strip /\ 2 * t + 1 \in Strip
         /\ \A g \in Level :
              LET l == SetGain(2 * t, g)
              IN  l \in Ask /\ IsLeft(l) /\ Mate(l) = SetGain(2 * t + 1, g)
         /\ \A v \in Level :
              LET l == SetCompParam(2 * t, v)
              IN  l \in Ask /\ IsLeft(l) /\ Mate(l) = SetCompParam(2 * t + 1, v)
         /\ \A on \in BOOLEAN :
              LET l == SwitchComp(2 * t, on)
              IN  l \in Ask /\ IsLeft(l) /\ Mate(l) = SwitchComp(2 * t + 1, on)
         /\ \A g \in Level : SetGain(2 * t + 1, g) \in Ask /\ IsRight(SetGain(2 * t + 1, g))
         /\ \A v \in Level : /\ SetCompParam(2 * t + 1, v) \in Ask
                             /\ IsRight(SetCompParam(2 * t + 1, v))
         /\ \A on \in BOOLEAN : /\ SwitchComp(2 * t + 1, on) \in Ask
                                /\ IsRight(SwitchComp(2 * t + 1, on))
<1>1. /\ 2 * t \in Strip /\ 2 * t + 1 \in Strip
      /\ 2 * t \in Lefts /\ 2 * t + 1 \in Rights
  BY TwoSides
<1>2. ASSUME NEW c \in Strip, NEW g \in Level
      PROVE  SetGain(c, g) \in Ask /\ SetCompParam(c, g) \in Ask
  BY DEF Ask, Message, SetGain, SetCompParam
<1>3. ASSUME NEW c \in Strip, NEW on \in BOOLEAN PROVE SwitchComp(c, on) \in Ask
  BY DEF Ask, Message, SwitchComp
<1>4. \A g : /\ OfStrip(SetGain(2 * t, g)) /\ OfStrip(SetGain(2 * t + 1, g))
             /\ SetGain(2 * t, g).ch = 2 * t /\ SetGain(2 * t + 1, g).ch = 2 * t + 1
             /\ Mate(SetGain(2 * t, g)) = SetGain(2 * t + 1, g)
  BY DEF OfStrip, StripTypes, SetGain, Mate
<1>5. \A v : /\ OfStrip(SetCompParam(2 * t, v)) /\ OfStrip(SetCompParam(2 * t + 1, v))
             /\ SetCompParam(2 * t, v).ch = 2 * t /\ SetCompParam(2 * t + 1, v).ch = 2 * t + 1
             /\ Mate(SetCompParam(2 * t, v)) = SetCompParam(2 * t + 1, v)
  BY DEF OfStrip, StripTypes, SetCompParam, Mate
<1>6. \A on : /\ OfStrip(SwitchComp(2 * t, on)) /\ OfStrip(SwitchComp(2 * t + 1, on))
              /\ SwitchComp(2 * t, on).ch = 2 * t /\ SwitchComp(2 * t + 1, on).ch = 2 * t + 1
              /\ Mate(SwitchComp(2 * t, on)) = SwitchComp(2 * t + 1, on)
  BY DEF OfStrip, StripTypes, SwitchComp, Mate
<1> QED
  BY <1>1, <1>2, <1>3, <1>4, <1>5, <1>6 DEF IsLeft, IsRight

LEMMA PairPosted ==
  ASSUME NEW l \in Ask, NEW r \in Ask, IsLeft(l), IsRight(r), r = Mate(l)
  PROVE  <<l, r>> \in Seq(Ask) /\ Paired(<<l, r>>)
BY OnePair

LEMMA SetStereoGainOK ==
  ASSUME Shapes, NEW t \in Pair, NEW g \in Gains, SetStereoGain(t, g)
  PROVE  StoreOK' /\ \E msgs : Posted(msgs)
<1> DEFINE msgs == <<SetGain(2 * t, g), SetGain(2 * t + 1, g)>>
<1>1. g \in Level
  BY Constants DEF Level
<1>2. msgs \in Seq(Ask) /\ Paired(msgs)
  BY <1>1, Pairing, PairPosted
<1>3. Posted(msgs)
  <2> HIDE DEF msgs
  <2> QED
    BY <1>2, PostPosts DEF SetStereoGain, msgs, Shapes
<1>4. \A v \in View : [v EXCEPT !.gain = g] \in View
  BY <1>1 DEF View
<1>5. /\ stereo' \in [Pair -> View] /\ channels' \in [Strip -> View]
      /\ UNCHANGED <<fxChains, fxPending, chips>>
  BY <1>4 DEF SetStereoGain, WriteBoth, Shapes, StoreOK
<1>6. StoreOK'
  BY <1>3, <1>5 DEF Posted, core, StoreOK, Saved, Shapes
<1> QED
  BY <1>3, <1>6
LEMMA SetStereoCompParamOK ==
  ASSUME Shapes, NEW t \in Pair, NEW v \in Values, SetStereoCompParam(t, v)
  PROVE  StoreOK' /\ \E msgs : Posted(msgs)
<1> DEFINE msgs == <<SetCompParam(2 * t, v), SetCompParam(2 * t + 1, v)>>
<1>1. v \in Level
  BY Constants DEF Level
<1>2. msgs \in Seq(Ask) /\ Paired(msgs)
  BY <1>1, Pairing, PairPosted
<1>3. Posted(msgs)
  <2> HIDE DEF msgs
  <2> QED
    BY <1>2, PostPosts DEF SetStereoCompParam, msgs, Shapes
<1>4. \A w \in View : [w EXCEPT !.comp = v] \in View
  BY <1>1 DEF View
<1>5. /\ stereo' \in [Pair -> View] /\ channels' \in [Strip -> View]
      /\ UNCHANGED <<fxChains, fxPending, chips>>
  BY <1>4 DEF SetStereoCompParam, WriteBoth, Shapes, StoreOK
<1>6. StoreOK'
  BY <1>3, <1>5 DEF Posted, core, StoreOK, Saved, Shapes
<1> QED
  BY <1>3, <1>6

LEMMA SetStereoCompEnabledOK ==
  ASSUME Shapes, NEW t \in Pair, NEW on \in BOOLEAN, SetStereoCompEnabled(t, on)
  PROVE  StoreOK' /\ \E msgs : Posted(msgs)
<1> DEFINE switches == <<SwitchComp(2 * t, on), SwitchComp(2 * t + 1, on)>>
           params == PushStereoCompParams(t)
           msgs == switches \o (IF on THEN params ELSE <<>>)
<1>1. stereo[t].comp \in Level
  BY DEF Shapes, StoreOK, View
<1>2. switches \in Seq(Ask) /\ Paired(switches)
  BY Pairing, PairPosted
<1>3. params \in Seq(Ask) /\ Paired(params)
  BY <1>1, Pairing, PairPosted DEF PushStereoCompParams
<1> HIDE DEF switches, params
<1>4. msgs \in Seq(Ask) /\ Paired(msgs)
  <2>1. CASE on
    <3>1. msgs = switches \o params
      BY <2>1
    <3>2. switches \o params \in Seq(Ask)
      BY <1>2, <1>3, ConcatProperties
    <3>3. Paired(switches \o params)
      BY <1>2, <1>3, ConcatPairs DEF Paired
    <3> QED
      BY <3>1, <3>2, <3>3
  <2>2. CASE ~on
    BY <1>2, <2>2, ConcatEmptySeq
  <2> QED
    BY <2>1, <2>2
<1>5. Posted(msgs)
  <2>1. Post(msgs, Untimely)
    BY Zenon DEF SetStereoCompEnabled, switches, params
  <2> HIDE DEF msgs
  <2> QED
    BY <1>4, <2>1, PostPosts DEF Shapes
<1>6. \A w \in View : [w EXCEPT !.comp_on = on] \in View
  BY DEF View
<1>7. /\ stereo' \in [Pair -> View] /\ channels' \in [Strip -> View]
      /\ UNCHANGED <<fxChains, fxPending, chips>>
  BY <1>6 DEF SetStereoCompEnabled, WriteBoth, Shapes, StoreOK
<1>8. StoreOK'
  BY <1>5, <1>7 DEF Posted, core, StoreOK, Saved, Shapes
<1> QED
  BY <1>5, <1>8

LEMMA WriteRowOK ==
  ASSUME Shapes, NEW p \in Pair, NEW key \in Slot, NEW slots \in SUBSET Slot,
         NEW row \in [Slot -> FxView], NEW msg \in Ask, ~OfStrip(msg),
         WriteRow(p, key, slots, row, msg)
  PROVE  StoreOK' /\ \E msgs : Posted(msgs)
<1>1. <<msg>> \in Seq(Ask) /\ Paired(<<msg>>)
  BY NoPair
<1>2. Posted(<<msg>>)
  BY <1>1, PostPosts DEF WriteRow, Shapes
<1>3. [s \in slots |-> fxChains[p][s]] \in Rows
  BY DEF Rows, Shapes, StoreOK
<1>4. fxChains' \in [Pair -> [Slot -> FxView]]
  BY DEF WriteRow, Shapes, StoreOK
<1>5. fxPending' \in [Pair -> [Slot -> Rows \cup {None}]]
  <2> DEFINE x == [s \in slots |-> fxChains[p][s]]
  <2>1. fxPending' = [fxPending EXCEPT ![p][key] = x]
    BY DEF WriteRow
  <2> HIDE DEF x
  <2> QED
    BY <1>3, <2>1 DEF Shapes, StoreOK, x
<1>6. UNCHANGED <<stereo, channels, chips>>
  BY DEF WriteRow
<1>7. StoreOK'
  BY <1>2, <1>4, <1>5, <1>6 DEF Posted, core, StoreOK, Saved, Shapes
<1> QED
  BY <1>2, <1>7

LEMMA MoveStays ==
  ASSUME NEW from \in Slot, NEW to \in Slot, NEW i \in Slot
  PROVE  F!MovedFrom(from, to, i) \in Slot
<1>1. F!MovedFrom(from, to, i) = FP!MovedFrom(from, to, i)
  BY DEF F!MovedFrom, FP!MovedFrom
<1>2. CASE from # to
  <2>1. from \in FP!Slot /\ to \in FP!Slot /\ i \in FP!Slot
    BY SameSets
  <2>2. FP!MovedFrom(from, to, i) \in FP!Slot
    BY <1>2, <2>1, FP!MoveInverts, Rack
  <2> QED
    BY <1>1, <2>2, SameSets
<1>3. CASE from = to
  BY <1>3, Constants DEF F!MovedFrom, Slot
<1> QED
  BY <1>2, <1>3

LEMMA TurnedEffect ==
  ASSUME Shapes, NEW p \in Pair, NEW s \in Slot, NEW v, SetFxParam(p, s, v)
  PROVE  fxChains[p][s].fx \in Effect
<1>1. fxChains[p][s] \in FxView
  BY DEF Shapes, StoreOK
<1>2. fxChains[p][s].fx \in Effect \cup {None}
  BY <1>1 DEF FxView
<1> QED
  BY <1>2 DEF SetFxParam

LEMMA FxSettersOK ==
  ASSUME Shapes, NEW p \in Pair, NEW s \in Slot,
         \/ \E fx \in Effect \cup {None} : SetFxSlot(p, s, fx)
         \/ \E on \in BOOLEAN : SetFxEnabled(p, s, on)
         \/ \E v \in Values : SetFxParam(p, s, v)
         \/ \E to \in Slot : MoveFxSlot(p, s, to)
  PROVE  StoreOK' /\ \E msgs : Posted(msgs)
<1> DEFINE row == fxChains[p]
<1>1. row \in [Slot -> FxView]
  BY DEF Shapes, StoreOK
<1>2. NoFx \in FxView
  BY SameSets DEF NoFx, FxView, Params
<1>3. ASSUME NEW fx \in Effect \cup {None}, SetFxSlot(p, s, fx)
      PROVE  StoreOK' /\ \E msgs : Posted(msgs)
  <2> DEFINE x == IF fx = None THEN NoFx
                  ELSE [fx |-> fx, enabled |-> FALSE, params |-> F!Default]
             m == [type |-> "set-fx-slot", pair |-> p, slot |-> s, fx |-> fx]
  <2>1. x \in FxView
    BY <1>2, SameSets DEF FxView, Params
  <2>2. m \in Ask /\ ~OfStrip(m)
    BY DEF Ask, Message, OfStrip, StripTypes
  <2>3. WriteRow(p, s, {s}, [row EXCEPT ![s] = x], m)
    BY <1>3, Zenon DEF SetFxSlot
  <2>4. [row EXCEPT ![s] = x] \in [Slot -> FxView]
    BY <1>1, <2>1
  <2> HIDE DEF m, x, row
  <2> QED
    BY <2>2, <2>3, <2>4, WriteRowOK
<1>4. ASSUME NEW on \in BOOLEAN, SetFxEnabled(p, s, on)
      PROVE  StoreOK' /\ \E msgs : Posted(msgs)
  <2> DEFINE new == [row EXCEPT ![s].enabled = on]
             m == [type |-> "set-fx-enabled", pair |-> p, slot |-> s, on |-> on]
  <2>1. new \in [Slot -> FxView]
    BY <1>1 DEF FxView
  <2>2. m \in Ask /\ ~OfStrip(m)
    BY DEF Ask, Message, OfStrip, StripTypes
  <2>3. WriteRow(p, s, {s}, new, m)
    BY <1>4, Zenon DEF SetFxEnabled
  <2> HIDE DEF m, new
  <2> QED
    BY <2>1, <2>2, <2>3, WriteRowOK
<1>5. ASSUME NEW v \in Values, SetFxParam(p, s, v)
      PROVE  StoreOK' /\ \E msgs : Posted(msgs)
  <2> DEFINE new == [row EXCEPT ![s].params = v]
             m == [type |-> "set-fx-param", pair |-> p, slot |-> s, value |-> v,
                   fx |-> row[s].fx]
  <2>1. new \in [Slot -> FxView]
    BY <1>1 DEF FxView, Params
  <2>2. m \in Ask /\ ~OfStrip(m)
    BY <1>5, TurnedEffect DEF Ask, Message, Params, OfStrip, StripTypes
  <2>3. WriteRow(p, s, {s}, new, m)
    BY <1>5, Zenon DEF SetFxParam
  <2> HIDE DEF m, new
  <2> QED
    BY <2>1, <2>2, <2>3, WriteRowOK
<1>6. ASSUME NEW to \in Slot, MoveFxSlot(p, s, to)
      PROVE  StoreOK' /\ \E msgs : Posted(msgs)
  <2> DEFINE new == [i \in Slot |-> row[F!MovedFrom(s, to, i)]]
             m == [type |-> "move-fx-slot", pair |-> p, from |-> s, to |-> to]
  <2>1. new \in [Slot -> FxView]
    BY <1>1, MoveStays
  <2>2. m \in Ask /\ ~OfStrip(m)
    BY DEF Ask, Message, OfStrip, StripTypes
  <2>3. WriteRow(p, s, Slot, new, m)
    BY <1>6, Zenon DEF MoveFxSlot
  <2> HIDE DEF m, new
  <2> QED
    BY <2>1, <2>2, <2>3, WriteRowOK
<1> QED
  BY <1>3, <1>4, <1>5, <1>6

LEMMA UserOK ==
  ASSUME Shapes, User
  PROVE  StoreOK' /\ \E msgs : Posted(msgs)
<1>1. ASSUME NEW m \in Ask, ~OfStrip(m), Post(<<m>>, FALSE), UNCHANGED store
      PROVE  StoreOK' /\ \E msgs : Posted(msgs)
  <2>1. <<m>> \in Seq(Ask) /\ Paired(<<m>>)
    BY <1>1, NoPair
  <2>2. Posted(<<m>>)
    BY <1>1, <2>1, PostPosts DEF Shapes
  <2> QED
    BY <1>1, <2>2 DEF Posted, core, store, StoreOK, Saved, Shapes
<1>2. CASE SendSceneSave
  <2>1. [type |-> "scene-save"] \in Ask /\ ~OfStrip([type |-> "scene-save"])
    BY DEF Ask, Message, OfStrip, StripTypes
  <2> QED
    BY <1>1, <1>2, <2>1 DEF SendSceneSave
<1>3. ASSUME NEW id \in chips, NEW dur \in Durations \cup {0}, SendSceneRecall(id, dur)
      PROVE  StoreOK' /\ \E msgs : Posted(msgs)
  <2> DEFINE m == [type |-> "scene-recall", id |-> id, dur |-> dur]
  <2>1. id \in Saved /\ id \in 1..MaxScene
    BY DEF Shapes, StoreOK, Saved
  <2>2. m \in Ask /\ ~OfStrip(m)
    BY <2>1 DEF Ask, Message, OfStrip, StripTypes
  <2>3. Post(<<m>>, FALSE) /\ UNCHANGED store
    BY <1>3 DEF SendSceneRecall
  <2> HIDE DEF m
  <2> QED
    BY <1>1, <2>2, <2>3
<1>4. CASE \E t \in Pair : \/ \E g \in Gains : SetStereoGain(t, g)
                           \/ \E v \in Values : SetStereoCompParam(t, v)
                           \/ \E on \in BOOLEAN : SetStereoCompEnabled(t, on)
  BY <1>4, SetStereoGainOK, SetStereoCompParamOK, SetStereoCompEnabledOK
<1> QED
  BY <1>2, <1>3, <1>4, FxSettersOK DEF User
--------------------------------------------------------------------------------
(* The worklet *)

LEMMA AskTypes ==
  ASSUME NEW m \in Ask
  PROVE  /\ OfStrip(m) => m.ch \in Strip
         /\ m.type = "set-gain" => m.gain \in Level
         /\ m.type = "set-comp-param" => m.value \in Level
         /\ m.type \in {"set-fx-slot", "set-fx-enabled", "set-fx-param"}
              => m.pair \in Pair /\ m.slot \in Slot
         /\ m.type = "set-fx-slot" => m.fx \in Effect \cup {None}
         /\ m.type = "set-fx-enabled" => m.on \in BOOLEAN
         /\ m.type = "set-fx-param" => m.value \in Params /\ m.fx \in Effect
         /\ m.type = "move-fx-slot" => m.pair \in Pair /\ m.from \in Slot /\ m.to \in Slot
         /\ m.type = "scene-recall" => m.id \in Saved /\ m.dur \in Durations \cup {0}
BY DEF Ask, Message, OfStrip, StripTypes

LEMMA CtlHead ==
  ASSUME PortOK, ctl # <<>>
  PROVE  /\ Head(ctl) \in Ask /\ Tail(ctl) \in Seq(Ask)
         /\ Len(Tail(ctl)) <= MaxQueue
<1>1. Head(ctl) \in Ask /\ Tail(ctl) \in Seq(Ask) /\ Len(Tail(ctl)) = Len(ctl) - 1
  BY HeadTailProperties DEF PortOK
<1>2. Len(ctl) \in Nat /\ MaxQueue \in Nat
  BY LenProperties, Constants DEF PortOK
<1> QED
  BY <1>1, <1>2 DEF PortOK

\* What a message to a strip makes of its compressor.
CompWritten(m, v) ==
  CASE m.type = "enable-compressor" -> Default
    [] m.type = "disable-compressor" -> None
    [] m.type = "set-comp-param" /\ v # None -> m.value
    [] OTHER -> v

LEMMA CompWrittenIs ==
  ASSUME NEW m, NEW v
  PROVE  /\ m.type = "enable-compressor" => CompWritten(m, v) = Default
         /\ m.type = "disable-compressor" => CompWritten(m, v) = None
         /\ m.type = "set-comp-param" =>
              CompWritten(m, v) = IF v = None THEN v ELSE m.value
         /\ m.type = "set-gain" => CompWritten(m, v) = v
BY DEF CompWritten

LEMMA CompWrittenType ==
  ASSUME NEW m \in Ask, OfStrip(m), NEW v \in Level \cup {None}
  PROVE  CompWritten(m, v) \in Level \cup {None}
BY AskTypes, CompWrittenIs DEF OfStrip, StripTypes, Default, Level

\* What a message to a strip does.
LEMMA SetStripDoes ==
  ASSUME Shapes, ctl # <<>>, SetStrip
  PROVE  LET m == Head(ctl)
         IN  /\ OfStrip(m) /\ m \in Ask /\ m.ch \in Strip
             /\ console' \in Consoles
             /\ console'.gain = IF m.type = "set-gain"
                                THEN [console.gain EXCEPT ![m.ch] = m.gain]
                                ELSE console.gain
             /\ console'.exists = IF m.type \in {"set-gain", "enable-compressor"}
                                  THEN console.exists \cup {m.ch} ELSE console.exists
             /\ comp' \in Comps /\ comp' = [comp EXCEPT ![m.ch] = CompWritten(m, comp[m.ch])]
             /\ fade' = None /\ UNCHANGED <<rack, scenes, events, parted>>
<1> DEFINE m == Head(ctl)
<1>1. m \in Ask /\ OfStrip(m) /\ m.ch \in Strip
  BY CtlHead, AskTypes DEF SetStrip, OfStrip, StripTypes, Shapes
<1>2. fade' = None /\ UNCHANGED <<rack, scenes, events, parted>>
  BY DEF SetStrip
<1>3. comp' = [comp EXCEPT ![m.ch] = CompWritten(m, comp[m.ch])]
  BY DEF SetStrip, CompWritten
<1>4. /\ m.type = "set-gain" => console' = K!SetGain(console, m.ch, m.gain)
      /\ m.type = "enable-compressor" => console' = K!EnsureChannel(console, m.ch)
      /\ m.type \in {"disable-compressor", "set-comp-param"} => console' = console
  BY DEF SetStrip
<1>5. console \in Consoles /\ comp \in Comps
  BY DEF Shapes, CoreOK
<1> HIDE DEF m
<1>6. comp' \in Comps
  <2>1. CompWritten(m, comp[m.ch]) \in Level \cup {None}
    BY <1>1, <1>5, CompWrittenType DEF Comps
  <2> QED
    BY <1>1, <1>3, <1>5, <2>1 DEF Comps
<1>7. CASE m.type = "set-gain"
  <2>1. m.gain \in Level
    BY <1>1, <1>7, AskTypes
  <2>2. /\ console' \in Consoles /\ console'.exists = console.exists \cup {m.ch}
        /\ console'.gain = [console.gain EXCEPT ![m.ch] = m.gain]
    BY <1>1, <1>4, <1>5, <1>7, <2>1, SetGainPlain
  <2> QED
    BY <1>1, <1>2, <1>3, <1>6, <1>7, <2>2 DEF m
<1>8. CASE m.type = "enable-compressor"
  <2>1. /\ console' \in Consoles /\ console'.exists = console.exists \cup {m.ch}
        /\ console'.gain = console.gain
    BY <1>1, <1>4, <1>5, <1>8, EnsurePlain
  <2> QED
    BY <1>1, <1>2, <1>3, <1>6, <1>8, <2>1 DEF m
<1>9. CASE m.type \in {"disable-compressor", "set-comp-param"}
  BY <1>1, <1>2, <1>3, <1>4, <1>5, <1>6, <1>9 DEF m
<1> QED
  BY <1>1, <1>7, <1>8, <1>9 DEF OfStrip, StripTypes
\* The rack of this module is the one its lemmas are about.
LEMMA SameRack ==
  ASSUME NEW r, NEW p, NEW s
  PROVE  /\ \A fx : F!SetSlot(r, p, s, fx) = FP!SetSlot(r, p, s, fx)
         /\ \A fx : F!FitsBudget(r, p, s, fx) <=> FP!FitsBudget(r, p, s, fx)
         /\ \A on : F!SetEnabled(r, p, s, on) = FP!SetEnabled(r, p, s, on)
         /\ \A v : F!SetParam(r, p, s, v) = FP!SetParam(r, p, s, v)
<1>1. \A fx : F!SetSlot(r, p, s, fx) = FP!SetSlot(r, p, s, fx)
  BY DEF F!SetSlot, FP!SetSlot, F!SlotTeardown, FP!SlotTeardown, F!Put, FP!Put,
     F!HeldMem, FP!HeldMem, F!FitsBudget, FP!FitsBudget, F!NewMem, FP!NewMem,
     F!Handles, FP!Handles, F!Loopers, FP!Loopers, F!Create, FP!Create,
     F!ConnectSlotParams, FP!ConnectSlotParams, F!EmptySlot, FP!EmptySlot,
     F!Default, FP!Default, F!Zeroed, FP!Zeroed
<1>2. \A fx : F!FitsBudget(r, p, s, fx) <=> FP!FitsBudget(r, p, s, fx)
  BY DEF F!FitsBudget, FP!FitsBudget, F!HeldMem, FP!HeldMem, F!NewMem, FP!NewMem,
     F!Handles, FP!Handles, F!Loopers, FP!Loopers
<1>3. \A on : F!SetEnabled(r, p, s, on) = FP!SetEnabled(r, p, s, on)
  BY DEF F!SetEnabled, FP!SetEnabled
<1>4. \A v : F!SetParam(r, p, s, v) = FP!SetParam(r, p, s, v)
  BY DEF F!SetParam, FP!SetParam
<1> QED
  BY <1>1, <1>2, <1>3, <1>4

LEMMA SameMove ==
  ASSUME NEW r, NEW p, NEW from, NEW to
  PROVE  F!MoveSlot(r, p, from, to) = FP!MoveSlot(r, p, from, to)
BY DEF F!MoveSlot, FP!MoveSlot, F!MovedFrom, FP!MovedFrom, F!ConnectSlotParams,
   FP!ConnectSlotParams, F!Slot, FP!Slot

LEMMA SameSlot ==
  ASSUME NEW scene
  PROVE  \A r, p, s : F!ApplySlot(r, scene, p, s) = FP!ApplySlot(r, scene, p, s)
BY SameRack DEF F!ApplySlot, FP!ApplySlot

LEMMA SameChain ==
  ASSUME NEW r, NEW scene, NEW p
  PROVE  F!ApplyChain(r, scene, p) = FP!ApplyChain(r, scene, p)
BY SameSlot DEF F!ApplyChain, FP!ApplyChain

LEMMA SameRecall ==
  ASSUME NEW r, NEW scene
  PROVE  F!ApplySceneFx(r, scene) = FP!ApplySceneFx(r, scene)
BY SameChain DEF F!ApplySceneFx, FP!ApplySceneFx

\* One report more.
LEMMA Emitted ==
  ASSUME PortOK, Len(events) < MaxQueue, NEW r \in Answer, events' = events \o <<r>>
  PROVE  events' \in Seq(Answer) /\ Len(events') <= MaxQueue
<1>1. <<r>> \in Seq(Answer) /\ Len(<<r>>) = 1
  OBVIOUS
<1>2. Len(events) \in Nat /\ MaxQueue \in Nat
  BY LenProperties, Constants DEF PortOK
<1> QED
  BY <1>1, <1>2, ConcatProperties DEF PortOK

LEMMA SetFxDoes ==
  ASSUME Shapes, ctl # <<>>, Len(events) < MaxQueue, SetFx
  PROVE  /\ FP!RackOK(rack') /\ ~OfStrip(Head(ctl))
         /\ events' \in Seq(Answer) /\ Len(events') <= MaxQueue
         /\ fade' = None /\ UNCHANGED <<console, comp, scenes, parted>>
<1> DEFINE m == Head(ctl)
<1>1. m \in Ask /\ m.type \in FxTypes
  BY CtlHead DEF SetFx, FxTypes, Shapes
<1>2. fade' = None /\ UNCHANGED <<console, comp, scenes, parted>>
  BY DEF SetFx
<1>3. \/ rack' = rack
      \/ /\ m.type = "set-fx-slot" => rack' = FP!SetSlot(rack, m.pair, m.slot, m.fx)
         /\ m.type = "set-fx-enabled" => rack' = FP!SetEnabled(rack, m.pair, m.slot, m.on)
         /\ m.type = "set-fx-param" => rack' = FP!SetParam(rack, m.pair, m.slot, m.value)
         /\ m.type = "move-fx-slot" => rack' = FP!MoveSlot(rack, m.pair, m.from, m.to)
  BY SameRack, SameMove DEF SetFx
<1>4. \/ UNCHANGED events
      \/ /\ m.type \in {"set-fx-slot", "set-fx-param"}
         /\ events' = events \o <<[type |-> "fx-error", pair |-> m.pair, slot |-> m.slot]>>
  BY DEF SetFx, Emit, MayRefuse, MustRefuse
<1>5. FP!RackOK(rack)
  BY DEF Shapes, CoreOK
<1> HIDE DEF m
<1>6. FP!RackOK(rack')
  <2>1. CASE m.type = "set-fx-slot"
    <3>1. m.pair \in FP!Pair /\ m.slot \in FP!Slot /\ m.fx \in Effect \cup {None}
      BY <1>1, <2>1, AskTypes, SameSets
    <3> QED
      BY <1>3, <1>5, <2>1, <3>1, Rack, FP!SetSlotOK
  <2>2. CASE m.type = "set-fx-enabled"
    <3>1. m.pair \in FP!Pair /\ m.slot \in FP!Slot /\ m.on \in BOOLEAN
      BY <1>1, <2>2, AskTypes, SameSets
    <3> QED
      BY <1>3, <1>5, <2>2, <3>1, Rack, FP!SetEnabledOK
  <2>3. CASE m.type = "set-fx-param"
    <3>1. /\ m.pair \in FP!Pair /\ m.slot \in FP!Slot
          /\ m.value \in Values \cup {FP!Zeroed, FP!Default}
      BY <1>1, <2>3, AskTypes, SameSets DEF Params
    <3>2. FP!RackOK(FP!SetParam(rack, m.pair, m.slot, m.value))
      BY <1>5, <3>1, Rack, FP!SetParamOK
    <3> QED
      BY <1>3, <1>5, <2>3, <3>2
  <2>4. CASE m.type = "move-fx-slot"
    <3>1. m.pair \in FP!Pair /\ m.from \in FP!Slot /\ m.to \in FP!Slot
      BY <1>1, <2>4, AskTypes, SameSets
    <3> QED
      BY <1>3, <1>5, <2>4, <3>1, Rack, FP!MoveSlotOK
  <2> QED
    BY <1>1, <2>1, <2>2, <2>3, <2>4 DEF FxTypes
<1>7. events' \in Seq(Answer) /\ Len(events') <= MaxQueue
  <2>1. CASE UNCHANGED events
    BY <2>1 DEF Shapes, PortOK
  <2>2. CASE ~UNCHANGED events
    <3> DEFINE r == [type |-> "fx-error", pair |-> m.pair, slot |-> m.slot]
    <3>1. m.pair \in Pair /\ m.slot \in Slot /\ events' = events \o <<r>>
      BY <1>1, <1>4, <2>2, AskTypes
    <3>2. r \in Answer
      BY <3>1 DEF Answer, Report
    <3> HIDE DEF r
    <3> QED
      BY <3>1, <3>2, Emitted DEF Shapes
  <2> QED
    BY <2>1, <2>2
<1>8. ~OfStrip(m)
  BY <1>1 DEF FxTypes, OfStrip, StripTypes
<1> QED
  BY <1>2, <1>6, <1>7, <1>8 DEF m

\* The scene the core would save now.
LEMMA ConsoleSceneOK ==
  ASSUME CoreOK
  PROVE  /\ ConsoleScene \in PlainScenes
         /\ ConsoleScene.strips.covers = console.exists
         /\ \A c \in Strip : ConsoleScene.strips.strip[c].gain = console.gain[c]
         /\ ConsoleScene.comp = comp
<1>1. /\ K!ConsoleSnapshot(console) \in Strips
      /\ K!ConsoleSnapshot(console).covers = console.exists
      /\ \A c \in Strip : K!ConsoleSnapshot(console).strip[c].gain = console.gain[c]
  BY SnapshotPlain DEF CoreOK
<1>2. ASSUME NEW p \in Pair, NEW s \in Slot PROVE F!Captured(rack.slot[p][s]) \in FxView
  <2>1. FP!SlotOK(rack.slot[p][s], s)
    BY SameSets DEF CoreOK, FP!RackOK, FP!SlotsOK
  <2>2. FP!Captured(rack.slot[p][s]) \in FP!Saved
    <3>1. AvailableFx = Effect
      BY SyncAssumption
    <3> QED
      BY <2>1, <3>1 DEF FP!SlotOK, FP!SlotState, FP!Captured, FP!Saved
  <2>3. F!Captured(rack.slot[p][s]) = FP!Captured(rack.slot[p][s])
    BY DEF F!Captured, FP!Captured
  <2> QED
    BY <2>2, <2>3, SameSets
<1>3. owned \subseteq Pair
  BY SameSets DEF owned, Pair
<1>4. F!ConsoleSnapshot \in [covers : SUBSET Pair, chain : [Pair -> [Slot -> FxView]]]
  BY <1>2, <1>3, SameSets DEF F!ConsoleSnapshot
<1> QED
  BY <1>1, <1>4 DEF ConsoleScene, PlainScenes, CoreOK

\* What may be asked and answered stays so when more scenes are saved.
LEMMA MoreSaved ==
  ASSUME Saved \subseteq Saved'
  PROVE  /\ \A q \in Seq(Ask) : q \in Seq(Ask')
         /\ \A q \in Seq(Answer) : q \in Seq(Answer')
<1>1. Ask \subseteq Ask' /\ Answer \subseteq Answer'
  BY DEF Ask, Answer
<1> QED
  BY <1>1, SeqMonotonic

LEMMA SceneSaveDoes ==
  ASSUME Shapes, ctl # <<>>, Len(events) < MaxQueue, SceneSave
  PROVE  /\ ~OfStrip(Head(ctl)) /\ next_scene_id \in 1..MaxScene
         /\ scenes' \in [1..MaxScene -> PlainScenes \cup {None}]
         /\ scenes' = [scenes EXCEPT ![next_scene_id] = ConsoleScene]
         /\ Saved' = Saved \cup {next_scene_id}
         /\ events' \in Seq(Answer') /\ Len(events') <= MaxQueue
         /\ UNCHANGED <<console, rack, comp, fade, parted>>
<1> DEFINE n == next_scene_id
           r == [type |-> "scene-saved", id |-> n]
<1>1. Head(ctl).type = "scene-save"
  BY DEF SceneSave
<1>2. /\ n \in 1..MaxScene /\ events' = events \o <<r>>
      /\ scenes' = [scenes EXCEPT ![n] = ConsoleScene]
      /\ UNCHANGED <<console, rack, comp, fade, parted>>
  BY DEF SceneSave, Emit
<1>3. /\ ConsoleScene \in PlainScenes /\ ConsoleScene # None
      /\ scenes \in [1..MaxScene -> PlainScenes \cup {None}]
  BY ConsoleSceneOK, PlainIsScene DEF Shapes, CoreOK
<1> HIDE DEF n
<1>4. /\ scenes' \in [1..MaxScene -> PlainScenes \cup {None}]
      /\ Saved' = Saved \cup {n}
  <2> DEFINE x == ConsoleScene
  <2>1. x \in PlainScenes /\ x # None /\ scenes' = [scenes EXCEPT ![n] = x]
    BY <1>2, <1>3
  <2> HIDE DEF x
  <2> QED
    BY <1>2, <1>3, <2>1 DEF Saved
<1>5. r \in Answer'
  BY <1>2, <1>4 DEF Answer, Report
<1>6. events \in Seq(Answer')
  BY <1>4, MoreSaved DEF Shapes, PortOK
<1>7. events' \in Seq(Answer') /\ Len(events') <= MaxQueue
  <2>1. <<r>> \in Seq(Answer') /\ Len(<<r>>) = 1
    BY <1>5
  <2>2. Len(events) \in Nat /\ MaxQueue \in Nat
    BY LenProperties, Constants DEF Shapes, PortOK
  <2> HIDE DEF r
  <2> QED
    BY <1>2, <1>6, <2>1, <2>2, ConcatProperties
<1>8. ~OfStrip(Head(ctl))
  BY <1>1 DEF OfStrip, StripTypes
<1> QED
  BY <1>2, <1>4, <1>7, <1>8 DEF n

\* A recall at once, or the start of a fade.
Recalls(scene) ==
  \/ ApplySceneInterp(scene, scene, 1, 1) /\ fade' = None
  \/ \E dur \in Durations :
       /\ fade' = [from |-> ConsoleScene, to |-> scene, pos |-> 0, dur |-> dur]
       /\ UNCHANGED <<console, comp>>

LEMMA RecallsOK ==
  ASSUME CoreOK, NEW scene \in PlainScenes, Recalls(scene)
  PROVE  console' \in Consoles /\ comp' \in Comps /\ fade' \in PlainFades \cup {None}
<1>1. CASE ApplySceneInterp(scene, scene, 1, 1) /\ fade' = None
  <2>1. At(1, 1)
    BY DEF At
  <2> QED
    BY <1>1, <2>1, InterpPlain DEF CoreOK
<1>2. ASSUME NEW dur \in Durations, UNCHANGED <<console, comp>>,
             fade' = [from |-> ConsoleScene, to |-> scene, pos |-> 0, dur |-> dur]
      PROVE  console' \in Consoles /\ comp' \in Comps /\ fade' \in PlainFades \cup {None}
  <2>1. ConsoleScene \in PlainScenes
    BY ConsoleSceneOK
  <2>2. dur \in Nat /\ 0 < dur
    BY Constants
  <2> DEFINE x == ConsoleScene
  <2>3. [from |-> x, to |-> scene, pos |-> 0, dur |-> dur] \in PlainFades
    <3> HIDE DEF x
    <3>1. x \in PlainScenes
      BY <2>1 DEF x
    <3> QED
      BY <2>2, <3>1 DEF PlainFades
  <2> QED
    BY <1>2, <2>3 DEF CoreOK
<1> QED
  BY <1>1, <1>2 DEF Recalls

LEMMA SceneRecallDoes ==
  ASSUME Shapes, ctl # <<>>, Len(events) < MaxQueue, SceneRecall
  PROVE  /\ ~OfStrip(Head(ctl)) /\ FP!RackOK(rack')
         /\ \E id \in Saved : scenes[id] \in PlainScenes /\ Recalls(scenes[id])
         /\ events' \in Seq(Answer) /\ Len(events') <= MaxQueue
         /\ UNCHANGED scenes
<1> DEFINE m == Head(ctl)
           scene == scenes[m.id]
           r == [type |-> "scene-recalled"]
<1>1. /\ m \in Ask /\ m.type = "scene-recall"
      /\ m.id \in Saved /\ m.dur \in Durations \cup {0}
  BY CtlHead, AskTypes DEF SceneRecall, Shapes
<1>2. scene \in PlainScenes
  BY <1>1 DEF Shapes, CoreOK, Saved
<1>3. /\ rack' = F!ApplySceneFx(rack, scene.chains)
      /\ events' = events \o <<r>> /\ UNCHANGED scenes
      /\ \/ m.dur = 0 /\ ApplySceneInterp(scene, scene, 1, 1) /\ fade' = None
         \/ /\ m.dur > 0
            /\ fade' = [from |-> ConsoleScene, to |-> scene, pos |-> 0, dur |-> m.dur]
            /\ UNCHANGED <<console, comp>>
  BY DEF SceneRecall, Emit
<1> HIDE DEF m, scene
<1>4. FP!RackOK(rack')
  <2>1. scene.chains \in FP!Snapshots
    BY <1>2, SameSets DEF PlainScenes
  <2>2. FP!RackOK(FP!ApplySceneFx(rack, scene.chains))
    BY <2>1, Rack, FP!ApplySceneFxOK DEF Shapes, CoreOK
  <2> QED
    BY <1>3, <2>2, SameRecall
<1>5. Recalls(scene)
  <2>1. m.dur = 0 \/ m.dur \in Durations
    BY <1>1
  <2>2. ~(0 > 0)
    OBVIOUS
  <2>3. m.dur > 0 => m.dur \in Durations
    BY <2>1, <2>2
  <2> QED
    BY <1>3, <2>3, Zenon DEF Recalls
<1>6. r \in Answer
  BY DEF Answer, Report
<1>7. events' \in Seq(Answer) /\ Len(events') <= MaxQueue
  <2> HIDE DEF r
  <2> QED
    BY <1>3, <1>6, Emitted DEF Shapes
<1>8. ~OfStrip(m)
  BY <1>1 DEF OfStrip, StripTypes
<1> QED
  BY <1>1, <1>2, <1>3, <1>4, <1>5, <1>7, <1>8 DEF m, scene

LEMMA DocumentOK ==
  ASSUME NEW scene \in PlainScenes
  PROVE  ConsoleParams(scene) \in Answer
<1> DEFINE S == scene.strips.covers
           P == {p \in scene.chains.covers : \E s \in Slot : scene.chains.chain[p][s].fx # None}
           view(c) == [gain |-> scene.strips.strip[c].gain,
                       comp_on |-> scene.comp[c] # None,
                       comp |-> IF scene.comp[c] = None THEN Default ELSE scene.comp[c]]
           strip == [c \in S |-> view(c)]
           chain == [p \in P |-> scene.chains.chain[p]]
<1>1. S \subseteq Strip /\ P \subseteq Pair
  BY DEF PlainScenes, Strips
<1>2. ASSUME NEW c \in S PROVE view(c) \in View
  <2>1. c \in Strip
    BY <1>1
  <2>2. scene.strips.strip[c].gain \in Level
    BY <2>1 DEF PlainScenes, Strips, PlainStrip
  <2>3. scene.comp[c] \in Level \cup {None} /\ Default \in Level
    BY <2>1 DEF PlainScenes, Comps, Default, Level
  <2> QED
    BY <2>2, <2>3 DEF View
<1>3. \A p \in P : scene.chains.chain[p] \in [Slot -> FxView]
  BY <1>1 DEF PlainScenes
<1> HIDE DEF S, P, view
<1>4. strip \in UNION {[T -> View] : T \in SUBSET Strip}
  <2>1. strip \in [S -> View]
    BY <1>2
  <2> QED
    BY <1>1, <2>1
<1>5. chain \in UNION {[T -> [Slot -> FxView]] : T \in SUBSET Pair}
  <2>1. chain \in [P -> [Slot -> FxView]]
    BY <1>3
  <2> QED
    BY <1>1, <2>1
<1>6. ConsoleParams(scene) = [type |-> "console-params", strip |-> strip, chain |-> chain]
  BY DEF ConsoleParams, S, P, view
<1> HIDE DEF strip, chain
<1> QED
  BY <1>4, <1>5, <1>6 DEF Answer, Report, Document

LEMMA GetParamsDoes ==
  ASSUME Shapes, ctl # <<>>, Len(events) < MaxQueue, GetParams
  PROVE  /\ ~OfStrip(Head(ctl))
         /\ events' \in Seq(Answer) /\ Len(events') <= MaxQueue
         /\ UNCHANGED core
<1> DEFINE scene == IF fade = None THEN ConsoleScene ELSE fade.to
           r == ConsoleParams(scene)
<1>1. scene \in PlainScenes
  BY ConsoleSceneOK DEF Shapes, CoreOK, PlainFades
<1>2. r \in Answer
  <2> HIDE DEF scene
  <2> QED
    BY <1>1, DocumentOK
<1>3. /\ events' = events \o <<r>> /\ UNCHANGED core
      /\ Head(ctl).type = "get-params"
  BY DEF GetParams, Emit
<1> HIDE DEF r
<1> QED
  BY <1>2, <1>3, Emitted DEF Shapes, OfStrip, StripTypes
--------------------------------------------------------------------------------
(* Fades, streams and replies *)

\* A block of a fade, or its last.
FadeStep(from, to) ==
  \/ ApplySceneInterp(to, to, 1, 1) /\ fade' = None
  \/ /\ \E pos, dur : At(pos, dur) /\ ApplySceneInterp(from, to, pos, dur)
     /\ fade' \in PlainFades /\ fade'.from = from /\ fade'.to = to

LEMMA FadeBlockDoes ==
  ASSUME Shapes, FadeBlock
  PROVE  /\ fade # None /\ fade.from \in PlainScenes /\ fade.to \in PlainScenes
         /\ FadeStep(fade.from, fade.to)
         /\ console' \in Consoles /\ comp' \in Comps /\ fade' \in PlainFades \cup {None}
         /\ UNCHANGED <<rack, scenes, store, ctl, events>>
<1>1. /\ fade \in PlainFades /\ fade # None
      /\ fade.from \in PlainScenes /\ fade.to \in PlainScenes
      /\ fade.pos \in Nat /\ fade.dur \in Nat
      /\ UNCHANGED <<rack, scenes, store, ctl, events>>
  BY Constants DEF Shapes, CoreOK, FadeBlock, PlainFades
<1>2. CASE fade.pos + 1 >= fade.dur
  <2>1. ApplySceneInterp(fade.to, fade.to, 1, 1) /\ fade' = None
    BY <1>2 DEF FadeBlock
  <2>2. At(1, 1)
    BY DEF At
  <2>3. console' \in Consoles /\ comp' \in Comps
    BY <1>1, <2>1, <2>2, InterpPlain DEF Shapes, CoreOK
  <2> QED
    BY <1>1, <2>1, <2>3 DEF FadeStep
<1>3. CASE ~(fade.pos + 1 >= fade.dur)
  <2>1. /\ ApplySceneInterp(fade.from, fade.to, fade.pos + 1, fade.dur)
        /\ fade' = [fade EXCEPT !.pos = @ + 1]
    BY <1>3 DEF FadeBlock
  <2>2. At(fade.pos + 1, fade.dur)
    BY <1>1, <1>3 DEF At
  <2>3. console' \in Consoles /\ comp' \in Comps
    BY <1>1, <2>1, <2>2, InterpPlain DEF Shapes, CoreOK
  <2>4. fade' \in PlainFades /\ fade'.from = fade.from /\ fade'.to = fade.to
    BY <1>1, <1>3, <2>1 DEF PlainFades
  <2>5. \E pos, dur : At(pos, dur) /\ ApplySceneInterp(fade.from, fade.to, pos, dur)
    BY <2>1, <2>2, Zenon
  <2> QED
    BY <1>1, <2>3, <2>4, <2>5 DEF FadeStep
<1> QED
  BY <1>2, <1>3

LEMMA StreamArrivesDoes ==
  ASSUME Shapes, NEW c \in Strip, StreamArrives(c)
  PROVE  /\ console' \in Consoles /\ console'.gain = console.gain
         /\ UNCHANGED <<rack, comp, scenes, fade, store, ctl, events>>
BY EnsurePlain DEF Shapes, CoreOK, StreamArrives

LEMMA AnswerTypes ==
  ASSUME NEW m \in Answer
  PROVE  /\ m.type = "fx-error" => m.pair \in Pair /\ m.slot \in Slot
         /\ m.type = "scene-saved" => m.id \in Saved
         /\ m.type = "console-params" =>
              /\ \E S \in SUBSET Strip : m.strip \in [S -> View]
              /\ \E P \in SUBSET Pair : m.chain \in [P -> [Slot -> FxView]]
<1>1. ASSUME m.type = "fx-error" PROVE m.pair \in Pair /\ m.slot \in Slot
  BY <1>1 DEF Answer, Report, Document
<1>2. ASSUME m.type = "scene-saved" PROVE m.id \in Saved
  BY <1>2 DEF Answer
<1>3. ASSUME m.type = "console-params"
      PROVE  /\ \E S \in SUBSET Strip : m.strip \in [S -> View]
             /\ \E P \in SUBSET Pair : m.chain \in [P -> [Slot -> FxView]]
  <2>1. m \in Document
    BY <1>3 DEF Answer, Report
  <2> DEFINE V == UNION {[S -> View] : S \in SUBSET Strip}
             C == UNION {[P -> [Slot -> FxView]] : P \in SUBSET Pair}
  <2>2. m.strip \in V /\ m.chain \in C
    <3>1. Document = [type : {"console-params"}, strip : V, chain : C]
      BY DEF Document
    <3> HIDE DEF V, C
    <3> QED
      BY <2>1, <3>1
  <2> QED
    BY <2>2
<1> QED
  BY <1>1, <1>2, <1>3

LEMMA EventsHead ==
  ASSUME PortOK, events # <<>>
  PROVE  /\ Head(events) \in Answer /\ Tail(events) \in Seq(Answer)
         /\ Len(Tail(events)) <= MaxQueue
<1>1. /\ Head(events) \in Answer /\ Tail(events) \in Seq(Answer)
      /\ Len(Tail(events)) = Len(events) - 1
  BY HeadTailProperties DEF PortOK
<1>2. Len(events) \in Nat /\ MaxQueue \in Nat
  BY LenProperties, Constants DEF PortOK
<1> QED
  BY <1>1, <1>2 DEF PortOK

\* A roll-back or a report writes rows over rows.
LEMMA OverType ==
  ASSUME NEW D, NEW R, NEW old \in [D -> R], NEW S, NEW new \in [S -> R]
  PROVE  Over(new, old) \in [D -> R]
BY DEF Over

LEMMA ApplyFxErrorOK ==
  ASSUME Shapes, events # <<>>, ApplyFxError, UNCHANGED scenes
  PROVE  StoreOK'
<1> DEFINE m == Head(events)
           snapshot == fxPending[m.pair][m.slot]
<1>1. m.pair \in Pair /\ m.slot \in Slot
  BY EventsHead, AnswerTypes DEF ApplyFxError, Shapes
<1>2. snapshot \in Rows \cup {None} /\ fxChains[m.pair] \in [Slot -> FxView]
  BY <1>1 DEF Shapes, StoreOK
<1>3. /\ fxChains' = [fxChains EXCEPT ![m.pair] = RolledBack(@, snapshot, m.slot)]
      /\ fxPending' = [fxPending EXCEPT ![m.pair][m.slot] = None]
      /\ UNCHANGED <<stereo, channels, chips>>
  BY DEF ApplyFxError
<1> HIDE DEF m, snapshot
<1>4. RolledBack(fxChains[m.pair], snapshot, m.slot) \in [Slot -> FxView]
  <2>1. CASE snapshot = None
    BY <1>2, <2>1 DEF RolledBack
  <2>2. CASE snapshot # None
    <3>1. PICK S \in SUBSET Slot : snapshot \in [S -> FxView]
      BY <1>2, <2>2 DEF Rows
    <3> QED
      BY <1>2, <2>2, <3>1, OverType DEF RolledBack
  <2> QED
    BY <2>1, <2>2
<1>5. fxChains' \in [Pair -> [Slot -> FxView]]
  BY <1>1, <1>3, <1>4 DEF Shapes, StoreOK
<1>6. fxPending' \in [Pair -> [Slot -> Rows \cup {None}]]
  BY <1>1, <1>3 DEF Shapes, StoreOK
<1> QED
  BY <1>3, <1>5, <1>6 DEF Shapes, StoreOK, Saved

LEMMA ApplyConsoleParamsOK ==
  ASSUME Shapes, events # <<>>, ApplyConsoleParams, UNCHANGED scenes
  PROVE  StoreOK'
<1> DEFINE m == Head(events)
<1>1. /\ \E S \in SUBSET Strip : m.strip \in [S -> View]
      /\ \E P \in SUBSET Pair : m.chain \in [P -> [Slot -> FxView]]
  BY EventsHead, AnswerTypes DEF ApplyConsoleParams, Shapes
<1>2. PICK S \in SUBSET Strip : m.strip \in [S -> View]
  BY <1>1
<1>3. PICK P \in SUBSET Pair : m.chain \in [P -> [Slot -> FxView]]
  BY <1>1
<1>4. /\ channels' = Over(m.strip, channels)
      /\ stereo' = [t \in Pair |-> channels'[2 * t]]
      /\ fxChains' = [p \in Pair |-> [s \in Slot |->
           IF p \in DOMAIN m.chain /\ m.chain[p][s].fx # None THEN m.chain[p][s]
           ELSE NoFx]]
      /\ UNCHANGED <<fxPending, chips>>
  BY DEF ApplyConsoleParams
<1> HIDE DEF m
<1>5. channels' \in [Strip -> View]
  BY <1>2, <1>4, OverType DEF Shapes, StoreOK
<1>6. stereo' \in [Pair -> View]
  BY <1>4, <1>5, Pairing
<1>7. NoFx \in FxView
  BY SameSets DEF NoFx, FxView, Params
<1>8. fxChains' \in [Pair -> [Slot -> FxView]]
  BY <1>3, <1>4, <1>7
<1> QED
  BY <1>4, <1>5, <1>6, <1>8 DEF Shapes, StoreOK, Saved

\* What replies do to the port: a recall's makes the store ask for the console.
LEMMA ReplyDoes ==
  ASSUME Shapes, Reply
  PROVE  /\ StoreOK' /\ UNCHANGED core
         /\ \/ ctl' = ctl
            \/ ctl' = ctl \o <<[type |-> "get-params"]>> /\ Len(ctl) < MaxQueue
         /\ events' \in Seq(Answer) /\ Len(events') <= MaxQueue
<1>1. events # <<>> /\ events' = Tail(events) /\ UNCHANGED core /\ UNCHANGED scenes
  BY DEF Reply, core
<1>2. events' \in Seq(Answer) /\ Len(events') <= MaxQueue
  BY <1>1, EventsHead DEF Shapes
<1>3. CASE SceneSaved
  <2>1. Head(events).id \in Saved
    BY <1>1, <1>3, EventsHead, AnswerTypes DEF SceneSaved, Shapes
  <2>2. /\ chips' = chips \cup {Head(events).id}
        /\ UNCHANGED <<stereo, channels, fxChains, fxPending, ctl>>
    BY <1>3 DEF SceneSaved
  <2>3. StoreOK'
    BY <1>1, <2>1, <2>2 DEF Shapes, StoreOK, Saved
  <2> QED
    BY <1>1, <1>2, <2>2, <2>3
<1>4. CASE SceneRecalled
  <2>1. /\ ctl' = Append(ctl, [type |-> "get-params"])
        /\ Len(ctl) < MaxQueue /\ UNCHANGED store
    BY <1>4 DEF SceneRecalled
  <2>2. [type |-> "get-params"] \in Ask
    BY DEF Ask, Message
  <2>3. ctl' = ctl \o <<[type |-> "get-params"]>>
    BY <2>1, <2>2, AppendIsConcat DEF Shapes, PortOK
  <2>4. StoreOK'
    BY <1>1, <2>1 DEF Shapes, StoreOK, Saved, store
  <2> QED
    BY <1>1, <1>2, <2>1, <2>3, <2>4
<1>5. CASE ApplyFxError
  <2>1. ctl' = ctl
    BY <1>5 DEF ApplyFxError
  <2> QED
    BY <1>1, <1>2, <1>5, <2>1, ApplyFxErrorOK
<1>6. CASE ApplyConsoleParams
  <2>1. ctl' = ctl
    BY <1>6 DEF ApplyConsoleParams
  <2> QED
    BY <1>1, <1>2, <1>6, <2>1, ApplyConsoleParamsOK
<1> QED
  BY <1>3, <1>4, <1>5, <1>6 DEF Reply

--------------------------------------------------------------------------------
(* Types *)

LEMMA InitShapes == Init => Shapes
<1> SUFFICES ASSUME Init PROVE Shapes
  OBVIOUS
<1>1. StripView \in View
  BY Constants DEF StripView, View, Level, Default
<1>2. NoFx \in FxView
  BY SameSets DEF NoFx, FxView, Params
<1>3. /\ console = K!InitConsole /\ fade = None
      /\ scenes = [id \in 1..MaxScene |-> None]
  BY SameStrips DEF Init, K!Init
<1>4. StoreOK
  BY <1>1, <1>2 DEF Init, StoreOK
<1>5. PortOK
  BY Constants DEF Init, PortOK
<1>6. FP!RackOK(rack)
  <2>1. F!Init <=> FP!Init
    BY DEF F!Init, FP!Init, F!EmptySlot, FP!EmptySlot, F!Pair, FP!Pair, F!Slot, FP!Slot,
       F!Zeroed, FP!Zeroed
  <2> QED
    BY <2>1, Rack, FP!InitOK DEF Init
<1>7. CoreOK
  BY <1>3, <1>6, InitConsolePlain DEF Init, CoreOK, Comps
<1> QED
  BY <1>4, <1>5, <1>7 DEF Shapes

LEMMA NextShapes == Shapes /\ [Next]_vars => Shapes'
<1> SUFFICES ASSUME Shapes, [Next]_vars PROVE Shapes'
  OBVIOUS
<1>0. FP!RackOK(rack)' <=> FP!RackOK(rack')
  BY DEF FP!RackOK, FP!SlotsOK, FP!Exact, FP!InBudget, FP!MemoryHandles, FP!LooperSlots,
     FP!At
<1>a. StoreOK /\ PortOK /\ CoreOK
  BY DEF Shapes
<1>1. CASE User
  <2>1. StoreOK'
    BY <1>1, UserOK
  <2>2. PICK msgs : Posted(msgs)
    BY <1>1, UserOK
  <2>3. /\ ctl' = ctl \o msgs /\ Len(ctl') <= MaxQueue /\ msgs \in Seq(Ask)
        /\ UNCHANGED <<events, console, rack, comp, scenes, fade>>
    BY <2>2 DEF Posted, core
  <2>4. Ask' = Ask /\ Answer' = Answer
    BY <2>3 DEF Ask, Answer, Saved
  <2>5. ctl' \in Seq(Ask)
    BY <1>a, <2>3, ConcatProperties DEF PortOK
  <2>6. PortOK'
    BY <1>a, <2>3, <2>4, <2>5 DEF PortOK
  <2>7. CoreOK'
    BY <1>0, <1>a, <2>3 DEF CoreOK
  <2> QED
    BY <2>1, <2>6, <2>7 DEF Shapes
<1>2. CASE Worklet
  <2>1. /\ ctl # <<>> /\ Len(events) < MaxQueue /\ ctl' = Tail(ctl)
        /\ UNCHANGED <<stereo, channels, fxChains, fxPending, chips>>
    BY <1>2 DEF Worklet, store
  <2>2. Tail(ctl) \in Seq(Ask) /\ Len(Tail(ctl)) <= MaxQueue
    BY <1>a, <2>1, CtlHead
  <2>3. CASE SceneSave
    <3>1. /\ scenes' \in [1..MaxScene -> PlainScenes \cup {None}]
          /\ Saved \subseteq Saved'
          /\ events' \in Seq(Answer') /\ Len(events') <= MaxQueue
          /\ UNCHANGED <<console, rack, comp, fade>>
      BY <2>1, <2>3, SceneSaveDoes
    <3>2. ctl' \in Seq(Ask')
      BY <2>1, <2>2, <3>1, MoreSaved
    <3>3. StoreOK' /\ PortOK'
      BY <1>a, <2>1, <2>2, <3>1, <3>2 DEF StoreOK, PortOK
    <3>4. CoreOK'
      BY <1>0, <1>a, <3>1 DEF CoreOK
    <3> QED
      BY <3>3, <3>4 DEF Shapes
  <2>4. ASSUME UNCHANGED scenes, events' \in Seq(Answer), Len(events') <= MaxQueue,
               FP!RackOK(rack'), console' \in Consoles, comp' \in Comps,
               fade' \in PlainFades \cup {None}
        PROVE  Shapes'
    <3>1. Ask' = Ask /\ Answer' = Answer
      BY <2>4 DEF Ask, Answer, Saved
    <3>2. StoreOK' /\ PortOK'
      BY <1>a, <2>1, <2>2, <2>4, <3>1 DEF StoreOK, PortOK, Saved
    <3>3. CoreOK'
      BY <1>0, <1>a, <2>4 DEF CoreOK
    <3> QED
      BY <3>2, <3>3 DEF Shapes
  <2>5. CASE SetStrip
    BY <1>a, <2>1, <2>4, <2>5, SetStripDoes DEF PortOK, CoreOK
  <2>6. CASE SetFx
    BY <1>a, <2>1, <2>4, <2>6, SetFxDoes DEF CoreOK
  <2>7. CASE SceneRecall
    BY <1>a, <2>1, <2>4, <2>7, SceneRecallDoes, RecallsOK
  <2>8. CASE GetParams
    BY <1>a, <2>1, <2>4, <2>8, GetParamsDoes DEF CoreOK, core
  <2> QED
    BY <1>2, <2>3, <2>5, <2>6, <2>7, <2>8 DEF Worklet
<1>3. CASE FadeBlock
  <2>1. /\ console' \in Consoles /\ comp' \in Comps /\ fade' \in PlainFades \cup {None}
        /\ UNCHANGED <<rack, scenes, store, ctl, events>>
    BY <1>3, FadeBlockDoes
  <2>2. StoreOK' /\ PortOK'
    BY <1>a, <2>1 DEF StoreOK, PortOK, Ask, Answer, Saved, store
  <2>3. CoreOK'
    BY <1>0, <1>a, <2>1 DEF CoreOK
  <2> QED
    BY <2>2, <2>3 DEF Shapes
<1>4. ASSUME NEW c \in Strip, StreamArrives(c) PROVE Shapes'
  <2>1. /\ console' \in Consoles
        /\ UNCHANGED <<rack, comp, scenes, fade, store, ctl, events>>
    BY <1>4, StreamArrivesDoes
  <2>2. StoreOK' /\ PortOK'
    BY <1>a, <2>1 DEF StoreOK, PortOK, Ask, Answer, Saved, store
  <2>3. CoreOK'
    BY <1>0, <1>a, <2>1 DEF CoreOK
  <2> QED
    BY <2>2, <2>3 DEF Shapes
<1>5. CASE Reply
  <2>1. /\ StoreOK' /\ UNCHANGED <<console, rack, comp, scenes, fade>>
        /\ events' \in Seq(Answer) /\ Len(events') <= MaxQueue
    BY <1>5, ReplyDoes DEF core
  <2>2. ctl' \in Seq(Ask) /\ Len(ctl') <= MaxQueue
    <3>1. CASE ctl' = ctl
      BY <1>a, <3>1 DEF PortOK
    <3>2. CASE ctl' = ctl \o <<[type |-> "get-params"]>> /\ Len(ctl) < MaxQueue
      <4>1. [type |-> "get-params"] \in Ask
        BY DEF Ask, Message
      <4>2. /\ <<[type |-> "get-params"]>> \in Seq(Ask)
            /\ Len(<<[type |-> "get-params"]>>) = 1
        BY <4>1
      <4>3. Len(ctl) \in Nat /\ MaxQueue \in Nat
        BY <1>a, LenProperties, Constants DEF PortOK
      <4> QED
        BY <1>a, <3>2, <4>2, <4>3, ConcatProperties DEF PortOK
    <3> QED
      BY <1>5, <3>1, <3>2, ReplyDoes
  <2>3. Ask' = Ask /\ Answer' = Answer
    BY <2>1 DEF Ask, Answer, Saved
  <2>4. PortOK'
    BY <2>1, <2>2, <2>3 DEF PortOK
  <2>5. CoreOK'
    BY <1>0, <1>a, <2>1 DEF CoreOK
  <2> QED
    BY <2>1, <2>4, <2>5 DEF Shapes
<1>6. CASE UNCHANGED vars
  <2>1. /\ UNCHANGED <<stereo, channels, fxChains, fxPending, chips, console, rack>>
        /\ UNCHANGED <<comp, scenes, fade, ctl, events>>
    BY <1>6 DEF vars, store, core
  <2>2. StoreOK' /\ PortOK'
    BY <1>a, <2>1 DEF StoreOK, PortOK, Ask, Answer, Saved
  <2>3. CoreOK'
    BY <1>0, <1>a, <2>1 DEF CoreOK
  <2> QED
    BY <2>2, <2>3 DEF Shapes
<1> QED
  BY <1>1, <1>2, <1>3, <1>4, <1>5, <1>6 DEF Next

LEMMA ShapesInvariance == Spec => []Shapes
BY InitShapes, NextShapes, PTL DEF Spec

\* Store, port and core keep their types, whatever is asked and answered in which
\* order: no report names a strip, slot or scene there is not, no roll-back or
\* console document leaves a hole in what is shown, a recalled scene was saved,
\* and the rack keeps its budgets through recalls.
THEOREM TypeCorrect == Spec => []TypeOK
BY ShapesInvariance, ShapesType, PTL
--------------------------------------------------------------------------------
(* The two strips of a stereo channel *)

\* The left strip was told and the right one is next.
HalfOf(q) == q # <<>> /\ IsRight(Head(q))
HalfWay == HalfOf(ctl)

\* Gain and compressor of a strip once the message half-way is done.
GainAfter(c) ==
  IF HalfWay /\ Head(ctl).type = "set-gain" /\ Head(ctl).ch = c THEN Head(ctl).gain
  ELSE console.gain[c]
CompAfter(c) ==
  IF HalfWay /\ Head(ctl).ch = c THEN CompWritten(Head(ctl), comp[c]) ELSE comp[c]

Alike ==
  \A t \in Pair : /\ GainAfter(2 * t) = GainAfter(2 * t + 1)
                  /\ CompAfter(2 * t) = CompAfter(2 * t + 1)

Balanced(s) ==
  \A t \in Pair : 2 * t \in s.strips.covers <=> 2 * t + 1 \in s.strips.covers
Linked(s) ==
  \A t \in Pair : /\ s.strips.strip[2 * t] = s.strips.strip[2 * t + 1]
                  /\ s.comp[2 * t] = s.comp[2 * t + 1]

AllBalanced == \A id \in Saved : Balanced(scenes[id])

Linkage ==
  /\ Alike
  /\ \A id \in Saved : Linked(scenes[id])
  /\ fade # None => Linked(fade.from) /\ Linked(fade.to) /\ Balanced(fade.to)

SidesInv ==
  /\ InPairs(ctl)
  /\ HalfWay => fade = None
  /\ \E n \in Nat : Saved = 1..n
  /\ AllBalanced => Linkage

LEMMA TailPairs ==
  ASSUME NEW S, NEW q \in Seq(S), q # <<>>, InPairs(q)
  PROVE  /\ InPairs(Tail(q))
         /\ IsLeft(Head(q)) => Tail(q) # <<>> /\ Head(Tail(q)) = Mate(Head(q))
         /\ ~IsLeft(Head(q)) => ~HalfOf(Tail(q))
<1> DEFINE r == Tail(q)
<1>1. /\ r \in Seq(S) /\ Len(r) = Len(q) - 1 /\ Len(q) \in Nat /\ Len(q) > 0
      /\ \A i \in 1..Len(r) : r[i] = q[i + 1]
      /\ Head(q) = q[1] /\ (r # <<>> => Head(r) = r[1] /\ Len(r) > 0)
  BY HeadTailProperties, EmptySeq, LenProperties
<1> HIDE DEF r
<1>2. r = <<>> => Len(r) = 0
  OBVIOUS
<1>3. ASSUME NEW i \in 1..Len(r)
      PROVE  /\ IsLeft(r[i]) => i < Len(r) /\ r[i + 1] = Mate(r[i])
             /\ IsRight(r[i]) /\ i > 1 => IsLeft(r[i - 1])
  <2> DEFINE j == i + 1
  <2>1. j \in 1..Len(q) /\ j > 1 /\ r[i] = q[j]
    BY <1>1
  <2>2. j < Len(q) => i < Len(r) /\ r[i + 1] = q[j + 1]
    BY <1>1
  <2>3. i > 1 => r[i - 1] = q[j - 1]
    BY <1>1
  <2> HIDE DEF j
  <2> QED
    BY <2>1, <2>2, <2>3 DEF InPairs
<1>4. InPairs(r)
  BY <1>3 DEF InPairs
<1>5. ASSUME IsLeft(q[1]) PROVE r # <<>> /\ Head(r) = Mate(q[1])
  <2>1. 1 < Len(q) /\ q[2] = Mate(q[1])
    BY <1>1, <1>5 DEF InPairs
  <2> QED
    BY <1>1, <1>2, <2>1
<1>6. ASSUME ~IsLeft(q[1]), r # <<>> PROVE ~IsRight(Head(r))
  <2>1. 2 \in 1..Len(q) /\ Head(r) = q[2]
    BY <1>1, <1>6
  <2> QED
    BY <1>6, <2>1 DEF InPairs
<1> QED
  BY <1>1, <1>4, <1>5, <1>6 DEF r, HalfOf

LEMMA MorePairs ==
  ASSUME NEW S, NEW p \in Seq(S), NEW q \in Seq(S), InPairs(p), Paired(q)
  PROVE  /\ InPairs(p \o q)
         /\ HalfOf(p \o q) <=> HalfOf(p)
         /\ HalfOf(p) => Head(p \o q) = Head(p)
<1>1. InPairs(p \o q)
  BY ConcatPairs
<1>2. CASE p = <<>>
  <2>1. p \o q = q /\ Head(q) = q[1]
    BY <1>2, ConcatEmptySeq
  <2> QED
    BY <1>1, <1>2, <2>1 DEF HalfOf, Paired
<1>3. CASE p # <<>>
  <2>1. Len(p) \in Nat /\ Len(p) > 0 /\ Len(q) \in Nat
    BY <1>3, EmptySeq, LenProperties
  <2>2. (p \o q)[1] = p[1] /\ p \o q # <<>>
    BY <1>3, <2>1, ConcatProperties
  <2>3. Head(p \o q) = (p \o q)[1] /\ Head(p) = p[1]
    <3>1. \A s \in Seq(S) : s # <<>> => Head(s) = s[1]
      OBVIOUS
    <3>2. p \o q \in Seq(S)
      BY ConcatProperties
    <3> QED
      BY <1>3, <2>2, <3>1, <3>2
  <2> QED
    BY <1>1, <1>3, <2>2, <2>3 DEF HalfOf
<1> QED
  BY <1>2, <1>3

\* With no message half-way, the strips themselves are alike.
LEMMA WholeAlike ==
  ASSUME ~HalfWay
  PROVE  Alike <=> \A t \in Pair : /\ console.gain[2 * t] = console.gain[2 * t + 1]
                                   /\ comp[2 * t] = comp[2 * t + 1]
BY DEF Alike, GainAfter, CompAfter

\* Nothing in the core changes that a stereo channel is made of.
LEMMA StillLinked ==
  ASSUME SidesInv, InPairs(ctl'), HalfWay' <=> HalfWay, HalfWay => Head(ctl') = Head(ctl),
         console'.gain = console.gain, UNCHANGED <<comp, scenes, fade>>
  PROVE  SidesInv'
<1>1. Saved' = Saved /\ (AllBalanced' <=> AllBalanced)
  BY DEF Saved, AllBalanced
<1>2. Alike' <=> Alike
  <2>1. \A c : GainAfter(c)' = GainAfter(c) /\ CompAfter(c)' = CompAfter(c)
    BY DEF GainAfter, CompAfter
  <2> QED
    BY <2>1 DEF Alike
<1>3. Linkage' <=> Linkage
  BY <1>1, <1>2 DEF Linkage
<1> QED
  BY <1>1, <1>3 DEF SidesInv

LEMMA UserSides ==
  ASSUME Shapes, SidesInv, User PROVE SidesInv'
<1>1. PICK msgs : Posted(msgs)
  BY UserOK
<1>2. /\ InPairs(ctl') /\ (HalfWay' <=> HalfWay) /\ (HalfWay => Head(ctl') = Head(ctl))
  <2>1. ctl \in Seq(Ask) /\ InPairs(ctl) /\ msgs \in Seq(Ask) /\ Paired(msgs)
        /\ ctl' = ctl \o msgs
    BY <1>1 DEF Shapes, PortOK, SidesInv, Posted
  <2>2. HalfWay' <=> HalfOf(ctl')
    BY DEF HalfWay, HalfOf
  <2> QED
    BY <2>1, <2>2, MorePairs DEF HalfWay
<1> QED
  BY <1>1, <1>2, StillLinked DEF Posted, core

LEMMA ReplySides ==
  ASSUME Shapes, SidesInv, Reply PROVE SidesInv'
<1>1. /\ UNCHANGED <<console, comp, scenes, fade>>
      /\ ctl' = ctl \/ ctl' = ctl \o <<[type |-> "get-params"]>>
  BY ReplyDoes DEF core
<1>2. /\ InPairs(ctl') /\ (HalfWay' <=> HalfWay) /\ (HalfWay => Head(ctl') = Head(ctl))
  <2>1. CASE ctl' = ctl
    BY <2>1 DEF SidesInv, HalfWay, HalfOf
  <2>2. CASE ctl' = ctl \o <<[type |-> "get-params"]>>
    <3> DEFINE m == [type |-> "get-params"]
    <3>1. m \in Ask /\ ~OfStrip(m)
      BY DEF Ask, Message, OfStrip, StripTypes
    <3> HIDE DEF m
    <3>2. <<m>> \in Seq(Ask) /\ Paired(<<m>>)
      BY <3>1, NoPair
    <3>3. ctl \in Seq(Ask) /\ InPairs(ctl) /\ ctl' = ctl \o <<m>>
      BY <2>2 DEF Shapes, PortOK, SidesInv, m
    <3>4. HalfWay' <=> HalfOf(ctl')
      BY DEF HalfWay, HalfOf
    <3> QED
      BY <3>2, <3>3, <3>4, MorePairs DEF HalfWay
  <2> QED
    BY <1>1, <2>1, <2>2
<1> QED
  BY <1>1, <1>2, StillLinked

LEMMA MateIs ==
  ASSUME NEW m \in Ask, OfStrip(m)
  PROVE  /\ Mate(m).type = m.type /\ Mate(m).ch = m.ch + 1
         /\ m.type = "set-gain" => Mate(m).gain = m.gain
         /\ \A v : CompWritten(Mate(m), v) = CompWritten(m, v)
<1>1. /\ Mate(m).type = m.type /\ Mate(m).ch = m.ch + 1
      /\ m.type = "set-gain" => Mate(m).gain = m.gain
      /\ m.type = "set-comp-param" => Mate(m).value = m.value
  BY DEF Ask, Message, OfStrip, StripTypes, Mate
<1>2. \A v : CompWritten(Mate(m), v) = CompWritten(m, v)
  <2> TAKE v
  <2> DEFINE n == Mate(m)
  <2>1. m.type \in StripTypes /\ n.type = m.type
        /\ (m.type = "set-comp-param" => n.value = m.value)
    BY <1>1 DEF OfStrip
  <2> HIDE DEF n
  <2>2. CompWritten(n, v) = CompWritten(m, v)
    BY <2>1, CompWrittenIs DEF StripTypes
  <2> QED
    BY <2>2 DEF n
<1> QED
  BY <1>1, <1>2

\* The left strip is told first, and what it was told is undone by the right one.
LEMMA SetStripSides ==
  ASSUME Shapes, SidesInv, ctl # <<>>, SetStrip, ctl' = Tail(ctl)
  PROVE  SidesInv'
<1> DEFINE m == Head(ctl)
<1>1. /\ m \in Ask /\ OfStrip(m) /\ m.ch \in Strip
      /\ fade' = None /\ UNCHANGED scenes
      /\ console'.gain = IF m.type = "set-gain"
                         THEN [console.gain EXCEPT ![m.ch] = m.gain]
                         ELSE console.gain
      /\ comp' = [comp EXCEPT ![m.ch] = CompWritten(m, comp[m.ch])]
  BY SetStripDoes
<1>2. console.gain \in [Strip -> Level] /\ comp \in [Strip -> Level \cup {None}]
  BY DEF Shapes, CoreOK, Consoles, Comps
<1>3. /\ InPairs(ctl')
      /\ IsLeft(m) => ctl' # <<>> /\ Head(ctl') = Mate(m)
      /\ ~IsLeft(m) => ~HalfWay'
  BY TailPairs DEF Shapes, PortOK, SidesInv, HalfWay, HalfOf
<1>4. HalfWay <=> IsRight(m)
  BY DEF HalfWay, HalfOf
<1> HIDE DEF m
<1>5. \A c \in Strip :
        /\ console'.gain[c] = IF m.type = "set-gain" /\ m.ch = c THEN m.gain
                              ELSE console.gain[c]
        /\ comp'[c] = IF m.ch = c THEN CompWritten(m, comp[c]) ELSE comp[c]
  BY <1>1, <1>2
<1>6. \A t \in Pair : 2 * t \in Strip /\ 2 * t + 1 \in Strip
  BY Pairing
<1>7. Saved' = Saved /\ (AllBalanced' <=> AllBalanced)
  BY <1>1 DEF Saved, AllBalanced
<1>8. Alike => Alike'
  <2>1. CASE IsRight(m)
    <3>1. ~HalfWay'
      BY <1>3, <2>1, OneSide
    <3>2. \A c \in Strip : console'.gain[c] = GainAfter(c) /\ comp'[c] = CompAfter(c)
      BY <1>4, <1>5, <2>1 DEF GainAfter, CompAfter, m
    <3>3. \A c : GainAfter(c)' = console'.gain[c] /\ CompAfter(c)' = comp'[c]
      BY <3>1 DEF GainAfter, CompAfter
    <3> QED
      BY <1>6, <3>2, <3>3 DEF Alike
  <2>2. CASE IsLeft(m)
    <3> DEFINE n == Mate(m)
    <3>1. ~HalfWay /\ Head(ctl') = n
      BY <1>3, <1>4, <2>2, OneSide
    <3>2. /\ n.type = m.type /\ n.ch = m.ch + 1
          /\ m.type = "set-gain" => n.gain = m.gain
          /\ \A v : CompWritten(n, v) = CompWritten(m, v)
      BY <1>1, MateIs
    <3> HIDE DEF n
    <3>3. PICK u \in Pair : m.ch = 2 * u
      BY <2>2 DEF IsLeft, Lefts
    <3>4. HalfWay'
      <4>1. n.ch \in Rights
        BY <3>2, <3>3, TwoSides
      <4> QED
        BY <1>1, <1>3, <2>2, <3>1, <3>2, <4>1 DEF HalfWay, HalfOf, IsRight, OfStrip
    <3>5. \A c : /\ GainAfter(c)' = IF m.type = "set-gain" /\ n.ch = c THEN m.gain
                                    ELSE console'.gain[c]
                 /\ CompAfter(c)' = IF n.ch = c THEN CompWritten(m, comp'[c]) ELSE comp'[c]
      BY <3>1, <3>2, <3>4 DEF GainAfter, CompAfter
    <3>6. \A c : GainAfter(c) = console.gain[c] /\ CompAfter(c) = comp[c]
      BY <3>1 DEF GainAfter, CompAfter
    <3>7. ASSUME NEW t \in Pair, Alike
          PROVE  /\ GainAfter(2 * t)' = GainAfter(2 * t + 1)'
                 /\ CompAfter(2 * t)' = CompAfter(2 * t + 1)'
      <4>1. /\ m.ch # 2 * t + 1 /\ n.ch # 2 * t
            /\ n.ch = 2 * t + 1 <=> m.ch = 2 * t
        BY <3>2, <3>3, Constants DEF Pair
      <4>2. console.gain[2 * t] = console.gain[2 * t + 1] /\ comp[2 * t] = comp[2 * t + 1]
        BY <3>6, <3>7 DEF Alike
      <4>3. GainAfter(2 * t)' = GainAfter(2 * t + 1)'
        BY <1>5, <1>6, <3>5, <4>1, <4>2
      <4>4. CompAfter(2 * t)' = CompAfter(2 * t + 1)'
        BY <1>5, <1>6, <3>5, <4>1, <4>2
      <4> QED
        BY <4>3, <4>4
    <3> QED
      BY <3>7 DEF Alike
  <2> QED
    BY <1>1, <2>1, <2>2, TwoSides DEF IsLeft, IsRight
<1>9. AllBalanced' => Linkage'
  BY <1>1, <1>7, <1>8 DEF SidesInv, Linkage
<1> QED
  BY <1>1, <1>3, <1>7, <1>9 DEF SidesInv

\* What the core holds in its strips when no message is half-way.
LEMMA ConsoleLinked ==
  ASSUME Shapes, ~HalfWay, Alike
  PROVE  Linked(ConsoleScene)
<1> DEFINE s == ConsoleScene
<1>1. /\ s.strips.strip \in [Strip -> PlainStrip] /\ s.comp = comp
      /\ \A c \in Strip : s.strips.strip[c].gain = console.gain[c]
  BY ConsoleSceneOK DEF Shapes, PlainScenes, Strips
<1>2. \A t \in Pair : /\ console.gain[2 * t] = console.gain[2 * t + 1]
                      /\ comp[2 * t] = comp[2 * t + 1]
  BY WholeAlike
<1>3. \A a, b \in PlainStrip : a.gain = b.gain => a = b
  <2>1. ASSUME NEW a \in PlainStrip
        PROVE  a = [gain |-> a.gain, main_assign |-> TRUE, mute |-> FALSE, solo |-> FALSE]
    <3>1. a = [gain |-> a.gain, main_assign |-> a.main_assign, mute |-> a.mute,
               solo |-> a.solo]
      BY DEF PlainStrip
    <3>2. a.main_assign = TRUE
      BY DEF PlainStrip
    <3>3. a.mute = FALSE
      BY DEF PlainStrip
    <3>4. a.solo = FALSE
      BY DEF PlainStrip
    <3> QED
      BY <3>1, <3>2, <3>3, <3>4, Zenon
  <2> QED
    BY <2>1, Zenon
<1>4. \A t \in Pair : 2 * t \in Strip /\ 2 * t + 1 \in Strip
  BY Pairing
<1> HIDE DEF s
<1>5. \A t \in Pair : s.strips.strip[2 * t] = s.strips.strip[2 * t + 1]
  BY <1>1, <1>2, <1>3, <1>4
<1> QED
  BY <1>1, <1>2, <1>5 DEF Linked, s

\* A recall or a block of a fade between linked scenes writes both strips or neither,
\* and alike.
LEMMA InterpLinked ==
  ASSUME console \in Consoles, comp \in Comps, NEW from \in PlainScenes,
         NEW to \in PlainScenes, Linked(from), Linked(to), Balanced(to),
         NEW pos, NEW dur, At(pos, dur), ApplySceneInterp(from, to, pos, dur),
         NEW t \in Pair, console.gain[2 * t] = console.gain[2 * t + 1],
         comp[2 * t] = comp[2 * t + 1]
  PROVE  console'.gain[2 * t] = console'.gain[2 * t + 1] /\ comp'[2 * t] = comp'[2 * t + 1]
<1> DEFINE W == Written(from.strips, to.strips, pos, dur)
<1>1. \A c \in Strip :
        /\ console'.gain[c] =
             IF c \in W
             THEN K!Lerp(from.strips.strip[c].gain, to.strips.strip[c].gain, pos, dur)
             ELSE console.gain[c]
        /\ comp'[c] =
             IF c \in to.strips.covers THEN CompAt(from.comp[c], to.comp[c], pos, dur)
             ELSE comp[c]
  BY InterpPlain
<1>2. 2 * t \in Strip /\ 2 * t + 1 \in Strip
  BY Pairing
<1>3. /\ from.strips.strip[2 * t] = from.strips.strip[2 * t + 1]
      /\ to.strips.strip[2 * t] = to.strips.strip[2 * t + 1]
      /\ from.comp[2 * t] = from.comp[2 * t + 1] /\ to.comp[2 * t] = to.comp[2 * t + 1]
      /\ 2 * t \in to.strips.covers <=> 2 * t + 1 \in to.strips.covers
  BY DEF Linked, Balanced
<1>4. 2 * t \in W <=> 2 * t + 1 \in W
  BY <1>3 DEF Written
<1> HIDE DEF W
<1>5. console'.gain[2 * t] = console'.gain[2 * t + 1]
  BY <1>1, <1>2, <1>3, <1>4
<1>6. comp'[2 * t] = comp'[2 * t + 1]
  BY <1>1, <1>2, <1>3
<1> QED
  BY <1>5, <1>6

\* Scenes are numbered one after the other.
LEMMA NextIsNew ==
  ASSUME NEW n \in Nat, Saved = 1..n
  PROVE  next_scene_id = n + 1
<1>1. {id \in 1..MaxScene : scenes[id] # None} = 1..n
  BY DEF Saved
<1>2. Cardinality(1..n) = n
  BY FS_Interval
<1> QED
  BY <1>1, <1>2 DEF next_scene_id

LEMMA SceneSaveSides ==
  ASSUME Shapes, SidesInv, ctl # <<>>, Len(events) < MaxQueue, SceneSave, ctl' = Tail(ctl)
  PROVE  SidesInv'
<1> DEFINE x == ConsoleScene
           n == next_scene_id
<1>1. /\ ~OfStrip(Head(ctl)) /\ n \in 1..MaxScene
      /\ scenes' = [scenes EXCEPT ![n] = x] /\ Saved' = Saved \cup {n}
      /\ UNCHANGED <<console, rack, comp, fade, parted>>
  BY SceneSaveDoes
<1>2. ~HalfWay /\ InPairs(ctl') /\ ~HalfWay'
  BY <1>1, TailPairs DEF Shapes, PortOK, SidesInv, HalfWay, HalfOf, IsLeft, IsRight
<1>3. PICK k \in Nat : Saved = 1..k
  BY DEF SidesInv
<1>4. n = k + 1 /\ Saved' = 1..(k + 1) /\ n \notin Saved
  <2>1. n = k + 1
    BY <1>3, NextIsNew
  <2> QED
    BY <1>1, <1>3, <2>1
<1>5. scenes \in [1..MaxScene -> PlainScenes \cup {None}] /\ Saved \subseteq 1..MaxScene
  BY DEF Shapes, CoreOK, Saved
<1>6. Alike /\ AllBalanced => Linked(x)
  BY <1>2, ConsoleLinked
<1> HIDE DEF x, n
<1>7. scenes'[n] = x /\ \A id \in Saved : scenes'[id] = scenes[id]
  BY <1>1, <1>4, <1>5
<1>8. AllBalanced' => AllBalanced
  BY <1>1, <1>7 DEF AllBalanced, Balanced
<1>9. ASSUME AllBalanced' PROVE Linkage'
  <2>1. Linkage /\ Linked(x)
    BY <1>6, <1>8, <1>9 DEF SidesInv, Linkage
  <2>2. Alike'
    <3>1. \A c : /\ GainAfter(c) = console.gain[c] /\ CompAfter(c) = comp[c]
                 /\ GainAfter(c)' = console'.gain[c] /\ CompAfter(c)' = comp'[c]
      BY <1>2 DEF GainAfter, CompAfter
    <3> QED
      BY <1>1, <2>1, <3>1 DEF Linkage, Alike
  <2>3. \A id \in Saved' : Linked(scenes'[id])
    BY <1>1, <1>7, <2>1 DEF Linkage
  <2> QED
    BY <1>1, <2>1, <2>2, <2>3 DEF Linkage
<1>10. \E j \in Nat : Saved' = 1..j
  BY <1>4
<1> QED
  BY <1>1, <1>2, <1>9, <1>10 DEF SidesInv

\* The strips are written alike while no message is half-way.
LEMMA WrittenAlike ==
  ASSUME SidesInv, ~HalfWay, InPairs(ctl'), ~HalfWay', UNCHANGED scenes,
         AllBalanced /\ Linkage =>
           /\ \A t \in Pair : /\ console'.gain[2 * t] = console'.gain[2 * t + 1]
                              /\ comp'[2 * t] = comp'[2 * t + 1]
           /\ fade' # None => Linked(fade'.from) /\ Linked(fade'.to) /\ Balanced(fade'.to)
  PROVE  SidesInv'
<1>1. Saved' = Saved /\ (AllBalanced' <=> AllBalanced)
  BY DEF Saved, AllBalanced
<1>2. ASSUME AllBalanced PROVE Linkage'
  <2>1. Linkage
    BY <1>2 DEF SidesInv
  <2>2. Alike'
    <3>1. \A c : GainAfter(c)' = console'.gain[c] /\ CompAfter(c)' = comp'[c]
      BY DEF GainAfter, CompAfter
    <3> QED
      BY <1>2, <2>1, <3>1 DEF Alike
  <2> QED
    BY <1>1, <1>2, <2>1, <2>2 DEF Linkage
<1> QED
  BY <1>1, <1>2 DEF SidesInv

LEMMA SceneRecallSides ==
  ASSUME Shapes, SidesInv, ctl # <<>>, Len(events) < MaxQueue, SceneRecall,
         ctl' = Tail(ctl)
  PROVE  SidesInv'
<1>1. ~OfStrip(Head(ctl)) /\ UNCHANGED scenes
  BY SceneRecallDoes
<1>2. PICK id \in Saved : scenes[id] \in PlainScenes /\ Recalls(scenes[id])
  BY SceneRecallDoes
<1>3. ~HalfWay /\ InPairs(ctl') /\ ~HalfWay'
  BY <1>1, TailPairs DEF Shapes, PortOK, SidesInv, HalfWay, HalfOf, IsLeft, IsRight
<1> DEFINE x == scenes[id]
           y == ConsoleScene
<1>4. ASSUME AllBalanced, Linkage
      PROVE  /\ \A t \in Pair : /\ console'.gain[2 * t] = console'.gain[2 * t + 1]
                                /\ comp'[2 * t] = comp'[2 * t + 1]
             /\ fade' # None => Linked(fade'.from) /\ Linked(fade'.to) /\ Balanced(fade'.to)
  <2>1. Linked(x) /\ Balanced(x) /\ x \in PlainScenes
    BY <1>2, <1>4 DEF Linkage, AllBalanced
  <2>2. Linked(y)
    BY <1>3, <1>4, ConsoleLinked DEF Linkage
  <2>3. \A t \in Pair : /\ console.gain[2 * t] = console.gain[2 * t + 1]
                        /\ comp[2 * t] = comp[2 * t + 1]
    BY <1>3, <1>4, WholeAlike DEF Linkage
  <2>4. \/ ApplySceneInterp(x, x, 1, 1) /\ fade' = None
        \/ \E dur \in Durations :
             /\ fade' = [from |-> y, to |-> x, pos |-> 0, dur |-> dur]
             /\ UNCHANGED <<console, comp>>
    BY <1>2 DEF Recalls
  <2> HIDE DEF x, y
  <2>5. CASE ApplySceneInterp(x, x, 1, 1) /\ fade' = None
    <3>1. At(1, 1)
      BY DEF At
    <3>2. console \in Consoles /\ comp \in Comps
      BY DEF Shapes, CoreOK
    <3> QED
      BY <2>1, <2>3, <2>5, <3>1, <3>2, InterpLinked
  <2>6. ASSUME NEW dur \in Durations, UNCHANGED <<console, comp>>,
               fade' = [from |-> y, to |-> x, pos |-> 0, dur |-> dur]
        PROVE  /\ \A t \in Pair : /\ console'.gain[2 * t] = console'.gain[2 * t + 1]
                                  /\ comp'[2 * t] = comp'[2 * t + 1]
               /\ Linked(fade'.from) /\ Linked(fade'.to) /\ Balanced(fade'.to)
    BY <2>1, <2>2, <2>3, <2>6
  <2> QED
    BY <2>4, <2>5, <2>6
<1> QED
  BY <1>1, <1>3, <1>4, WrittenAlike

LEMMA OtherSides ==
  ASSUME Shapes, SidesInv, ctl # <<>>, Len(events) < MaxQueue, SetFx \/ GetParams,
         ctl' = Tail(ctl)
  PROVE  SidesInv'
<1>1. /\ ~OfStrip(Head(ctl)) /\ UNCHANGED <<console, comp, scenes>>
      /\ fade' = None \/ fade' = fade
  BY SetFxDoes, GetParamsDoes DEF core
<1>2. ~HalfWay /\ InPairs(ctl') /\ ~HalfWay'
  BY <1>1, TailPairs DEF Shapes, PortOK, SidesInv, HalfWay, HalfOf, IsLeft, IsRight
<1>3. Linkage => \A t \in Pair : /\ console.gain[2 * t] = console.gain[2 * t + 1]
                                 /\ comp[2 * t] = comp[2 * t + 1]
  BY <1>2, WholeAlike DEF Linkage
<1>4. Linkage /\ fade' # None =>
        Linked(fade'.from) /\ Linked(fade'.to) /\ Balanced(fade'.to)
  BY <1>1 DEF Linkage
<1> QED
  BY <1>1, <1>2, <1>3, <1>4, WrittenAlike

\* A fade never runs half-way between two strips: the first write ended it.
LEMMA FadeBlockSides ==
  ASSUME Shapes, SidesInv, FadeBlock
  PROVE  SidesInv'
<1>1. /\ fade # None /\ fade.from \in PlainScenes /\ fade.to \in PlainScenes
      /\ FadeStep(fade.from, fade.to) /\ UNCHANGED <<scenes, ctl>>
  BY FadeBlockDoes
<1>2. ~HalfWay /\ InPairs(ctl') /\ ~HalfWay'
  BY <1>1 DEF SidesInv, HalfWay, HalfOf
<1>3. ASSUME AllBalanced, Linkage
      PROVE  /\ \A t \in Pair : /\ console'.gain[2 * t] = console'.gain[2 * t + 1]
                                /\ comp'[2 * t] = comp'[2 * t + 1]
             /\ fade' # None => Linked(fade'.from) /\ Linked(fade'.to) /\ Balanced(fade'.to)
  <2>1. Linked(fade.from) /\ Linked(fade.to) /\ Balanced(fade.to)
    BY <1>1, <1>3 DEF Linkage
  <2>2. \A t \in Pair : /\ console.gain[2 * t] = console.gain[2 * t + 1]
                        /\ comp[2 * t] = comp[2 * t + 1]
    BY <1>2, <1>3, WholeAlike DEF Linkage
  <2>3. console \in Consoles /\ comp \in Comps
    BY DEF Shapes, CoreOK
  <2>4. CASE ApplySceneInterp(fade.to, fade.to, 1, 1) /\ fade' = None
    <3>1. At(1, 1)
      BY DEF At
    <3> QED
      BY <1>1, <2>1, <2>2, <2>3, <2>4, <3>1, InterpLinked
  <2>5. ASSUME NEW pos, NEW dur, At(pos, dur),
               ApplySceneInterp(fade.from, fade.to, pos, dur),
               fade'.from = fade.from, fade'.to = fade.to
        PROVE  /\ \A t \in Pair : /\ console'.gain[2 * t] = console'.gain[2 * t + 1]
                                  /\ comp'[2 * t] = comp'[2 * t + 1]
               /\ Linked(fade'.from) /\ Linked(fade'.to) /\ Balanced(fade'.to)
    <3>1. \A t \in Pair : /\ console'.gain[2 * t] = console'.gain[2 * t + 1]
                          /\ comp'[2 * t] = comp'[2 * t + 1]
      BY <1>1, <2>1, <2>2, <2>3, <2>5, InterpLinked
    <3> QED
      BY <2>1, <2>5, <3>1
  <2> QED
    BY <1>1, <2>4, <2>5 DEF FadeStep
<1> QED
  BY <1>1, <1>2, <1>3, WrittenAlike

LEMMA InitSides == Init => SidesInv
<1> SUFFICES ASSUME Init PROVE SidesInv
  OBVIOUS
<1>1. /\ ctl = <<>> /\ fade = None /\ comp = [c \in Strip |-> None]
      /\ console.gain = [c \in Strip |-> InitialGain]
      /\ scenes = [id \in 1..MaxScene |-> None]
  BY SameStrips DEF Init, K!Init, K!InitConsole
<1>2. Saved = {} /\ 1..0 = {}
  BY <1>1 DEF Saved
<1>3. ~HalfWay
  BY <1>1 DEF HalfWay, HalfOf
<1>4. InPairs(<<>>)
  BY DEF InPairs
<1>5. \A t \in Pair : /\ console.gain[2 * t] = console.gain[2 * t + 1]
                      /\ comp[2 * t] = comp[2 * t + 1]
  BY <1>1, Pairing
<1>6. Alike
  BY <1>3, <1>5, WholeAlike
<1>7. Linkage
  BY <1>1, <1>2, <1>6 DEF Linkage
<1> QED
  BY <1>1, <1>2, <1>3, <1>4, <1>7 DEF SidesInv

LEMMA NextSides == Shapes /\ SidesInv /\ [Next]_vars => SidesInv'
<1> SUFFICES ASSUME Shapes, SidesInv, [Next]_vars PROVE SidesInv'
  OBVIOUS
<1>1. CASE User
  BY <1>1, UserSides
<1>2. CASE Worklet
  <2>1. /\ ctl # <<>> /\ Len(events) < MaxQueue /\ ctl' = Tail(ctl)
        /\ SetStrip \/ SetFx \/ SceneSave \/ SceneRecall \/ GetParams
    BY <1>2 DEF Worklet
  <2> QED
    BY <2>1, SetStripSides, SceneSaveSides, SceneRecallSides, OtherSides
<1>3. CASE FadeBlock
  BY <1>3, FadeBlockSides
<1>4. ASSUME NEW c \in Strip, StreamArrives(c) PROVE SidesInv'
  <2>1. console'.gain = console.gain /\ UNCHANGED <<comp, scenes, fade, ctl>>
    BY <1>4, StreamArrivesDoes
  <2>2. InPairs(ctl') /\ (HalfWay' <=> HalfWay) /\ Head(ctl') = Head(ctl)
    BY <2>1 DEF SidesInv, HalfWay, HalfOf
  <2> QED
    BY <2>1, <2>2, StillLinked
<1>5. CASE Reply
  BY <1>5, ReplySides
<1>6. CASE UNCHANGED vars
  <2>1. UNCHANGED <<console, comp, scenes, fade, ctl>>
    BY <1>6 DEF vars, core
  <2>2. InPairs(ctl') /\ (HalfWay' <=> HalfWay) /\ Head(ctl') = Head(ctl)
    BY <2>1 DEF SidesInv, HalfWay, HalfOf
  <2> QED
    BY <2>1, <2>2, StillLinked
<1> QED
  BY <1>1, <1>2, <1>3, <1>4, <1>5, <1>6 DEF Next

LEMMA SidesInvariance == Spec => [](Shapes /\ SidesInv)
<1>1. Init => Shapes /\ SidesInv
  BY InitShapes, InitSides
<1>2. Shapes /\ SidesInv /\ [Next]_vars => (Shapes /\ SidesInv)'
  BY NextShapes, NextSides
<1> QED
  BY <1>1, <1>2, PTL DEF Spec

\* For every number of stereo channels, gain range and length of fade: whenever the
\* worklet has answered every message, the strips of a stereo channel are set
\* alike, though it is told of one strip at a time and fades, recalls and streams
\* come in between - unless a scene was saved that holds one of them only.
THEOREM SidesLinked == Spec => []SidesStayLinked
<1>1. Shapes /\ SidesInv => SidesStayLinked
  <2> SUFFICES ASSUME SidesInv, ctl = <<>>, AllBalanced
               PROVE  \A t \in Pair : /\ console.gain[2 * t] = console.gain[2 * t + 1]
                                      /\ comp[2 * t] = comp[2 * t + 1]
    BY DEF SidesStayLinked, AllBalanced, Balanced, Saved
  <2>1. ~HalfWay
    BY DEF HalfWay, HalfOf
  <2> QED
    BY <2>1, WholeAlike DEF SidesInv, Linkage
<1> QED
  BY <1>1, SidesInvariance, PTL
--------------------------------------------------------------------------------
(* The store mirrors the core: queues, one message more or less *)

LEMMA OneMore ==
  ASSUME NEW S, NEW q \in Seq(S), NEW m \in S
  PROVE  /\ q \o <<m>> \in Seq(S) /\ Len(q) \in Nat
         /\ Len(q \o <<m>>) = Len(q) + 1
         /\ \A i \in 1..Len(q) : (q \o <<m>>)[i] = q[i]
         /\ (q \o <<m>>)[Len(q) + 1] = m
<1>1. <<m>> \in Seq(S) /\ Len(<<m>>) = 1 /\ <<m>>[1] = m
  OBVIOUS
<1>2. Len(q) \in Nat
  BY LenProperties
<1> QED
  BY <1>1, <1>2, ConcatProperties

LEMMA OneLess ==
  ASSUME NEW S, NEW q \in Seq(S), q # <<>>
  PROVE  /\ Head(q) = q[1] /\ Head(q) \in S /\ Tail(q) \in Seq(S)
         /\ Len(q) \in Nat /\ Len(q) >= 1 /\ Len(Tail(q)) = Len(q) - 1
         /\ \A i \in 1..Len(Tail(q)) : Tail(q)[i] = q[i + 1]
BY HeadTailProperties, EmptySeq, LenProperties

\* Something of the queue that is not its head is in its tail.
LEMMA StillThere ==
  ASSUME NEW S, NEW q \in Seq(S), NEW types, OfType(q, types) # {}, q # <<>>,
         Head(q).type \notin types
  PROVE  OfType(Tail(q), types) # {}
<1>1. PICK i \in 1..Len(q) : q[i].type \in types
  BY DEF OfType
<1>2. i # 1
  BY <1>1, OneLess
<1> DEFINE j == i - 1
<1>3. j \in 1..Len(Tail(q)) /\ Tail(q)[j] = q[i] /\ j \in DOMAIN Tail(q)
  <2>1. j \in 1..Len(Tail(q)) /\ j + 1 = i
    BY <1>1, <1>2, OneLess
  <2>2. DOMAIN Tail(q) = 1..Len(Tail(q))
    BY OneLess, LenProperties
  <2> QED
    BY <2>1, <2>2, OneLess
<1> QED
  BY <1>1, <1>3 DEF OfType

LEMMA StillThereWithMore ==
  ASSUME NEW S, NEW p \in Seq(S), NEW q \in Seq(S), NEW types, OfType(p, types) # {}
  PROVE  OfType(p \o q, types) # {}
<1>1. PICK i \in 1..Len(p) : p[i].type \in types
  BY DEF OfType
<1>2. (p \o q)[i] = p[i] /\ i \in 1..Len(p \o q)
  <2>1. Len(p) \in Nat /\ Len(q) \in Nat
    BY LenProperties
  <2> QED
    BY <2>1, ConcatProperties
<1>3. i \in DOMAIN (p \o q)
  BY <1>2, ConcatProperties, LenProperties
<1> QED
  BY <1>1, <1>2, <1>3 DEF OfType

LEMMA LastIsThere ==
  ASSUME NEW S, NEW q \in Seq(S), NEW m \in S, NEW types, m.type \in types
  PROVE  OfType(q \o <<m>>, types) # {}
<1> DEFINE r == q \o <<m>>
<1>1. r \in Seq(S) /\ Len(r) = Len(q) + 1 /\ Len(q) \in Nat /\ r[Len(q) + 1] = m
  BY OneMore
<1> HIDE DEF r
<1>2. Len(q) + 1 \in DOMAIN r
  BY <1>1, LenProperties
<1> QED
  BY <1>1, <1>2 DEF OfType, r

--------------------------------------------------------------------------------
(* Scenes, fades and reports are about strips that exist *)

Existing(e) == e.type = "console-params" => DOMAIN e.strip \subseteq console.exists

Grounds ==
  /\ \A id \in Saved : scenes[id].strips.covers \subseteq console.exists
  /\ fade # None => fade.to.strips.covers \subseteq console.exists
  /\ \A i \in 1..Len(events) : Existing(events[i])
  /\ \A t \in Pair : stereo[t] = channels[2 * t]

LEMMA DocumentIs ==
  ASSUME NEW scene
  PROVE  /\ ConsoleParams(scene).type = "console-params"
         /\ DOMAIN ConsoleParams(scene).strip = scene.strips.covers
         /\ \A c \in scene.strips.covers :
              /\ ConsoleParams(scene).strip[c].gain = scene.strips.strip[c].gain
              /\ ConsoleParams(scene).strip[c].comp_on = (scene.comp[c] # None)
              /\ ConsoleParams(scene).strip[c].comp =
                   IF scene.comp[c] = None THEN Default ELSE scene.comp[c]
         /\ ConsoleParams(scene).chain =
              [p \in {p \in scene.chains.covers :
                        \E s \in Slot : scene.chains.chain[p][s].fx # None}
                 |-> scene.chains.chain[p]]
BY DEF ConsoleParams

\* A recall or a block of a fade makes no strip.
LEMMA NoneMade ==
  ASSUME console \in Consoles, comp \in Comps, NEW from \in PlainScenes,
         NEW to \in PlainScenes, NEW pos, NEW dur, At(pos, dur),
         ApplySceneInterp(from, to, pos, dur), to.strips.covers \subseteq console.exists
  PROVE  console'.exists = console.exists
<1> DEFINE W == Written(from.strips, to.strips, pos, dur)
<1>1. console'.exists = console.exists \cup W
  BY InterpPlain
<1>2. W \subseteq console.exists
  BY DEF Written
<1> QED
  BY <1>1, <1>2
--------------------------------------------------------------------------------
(* What the messages under way will make of a strip *)

\* A strip's gain and compressor once it is told m.
Told(c, m, x) ==
  IF OfStrip(m) /\ m.ch = c
  THEN [gain |-> IF m.type = "set-gain" THEN m.gain ELSE x.gain,
        comp |-> CompWritten(m, x.comp)]
  ELSE x

\* The messages q take strip c from x to y.
Run(c, q, x, y) ==
  \E r : /\ r[0] = x /\ r[Len(q)] = y
         /\ \A i \in 1..Len(q) : r[i] = Told(c, q[i], r[i - 1])

LEMMA RunNone ==
  ASSUME NEW c, NEW x, NEW y
  PROVE  Run(c, <<>>, x, y) <=> x = y
<1>1. ASSUME x = y PROVE Run(c, <<>>, x, y)
  <2> DEFINE r == [i \in {0} |-> x]
  <2>1. r[0] = x /\ r[Len(<<>>)] = y /\ 1..Len(<<>>) = {}
    BY <1>1
  <2> HIDE DEF r
  <2> QED
    BY <2>1 DEF Run
<1>2. ASSUME Run(c, <<>>, x, y) PROVE x = y
  BY <1>2 DEF Run
<1> QED
  BY <1>1, <1>2

LEMMA RunOne ==
  ASSUME NEW c, NEW x, NEW m
  PROVE  Run(c, <<m>>, x, Told(c, m, x))
<1> DEFINE y == Told(c, m, x)
           r == [i \in {0, 1} |-> IF i = 0 THEN x ELSE y]
<1>1. Len(<<m>>) = 1 /\ <<m>>[1] = m
  OBVIOUS
<1>2. r[0] = x /\ r[1] = y
  OBVIOUS
<1> HIDE DEF r
<1>3. \A i \in 1..1 : r[i] = Told(c, <<m>>[i], r[i - 1])
  <2> SUFFICES r[1] = Told(c, <<m>>[1], r[1 - 1])
    OBVIOUS
  <2> QED
    BY <1>1, <1>2
<1> QED
  BY <1>1, <1>2, <1>3 DEF Run

LEMMA RunMore ==
  ASSUME NEW S, NEW p \in Seq(S), NEW q \in Seq(S), NEW c, NEW x, NEW y, NEW z,
         Run(c, p, x, y), Run(c, q, y, z)
  PROVE  Run(c, p \o q, x, z)
<1>1. PICK r : /\ r[0] = x /\ r[Len(p)] = y
               /\ \A i \in 1..Len(p) : r[i] = Told(c, p[i], r[i - 1])
  BY DEF Run
<1>2. PICK t : /\ t[0] = y /\ t[Len(q)] = z
               /\ \A i \in 1..Len(q) : t[i] = Told(c, q[i], t[i - 1])
  BY DEF Run
<1> DEFINE n == Len(p)
           k == Len(q)
           u == [i \in 0..(n + k) |-> IF i <= n THEN r[i] ELSE t[i - n]]
<1>3. n \in Nat /\ k \in Nat
  BY LenProperties
<1>4. /\ Len(p \o q) = n + k
      /\ \A i \in 1..(n + k) : (p \o q)[i] = IF i <= n THEN p[i] ELSE q[i - n]
  BY ConcatProperties
<1>5. u[0] = x
  BY <1>1, <1>3
<1>6. u[n + k] = z
  BY <1>1, <1>2, <1>3
<1>7. ASSUME NEW i \in 1..(n + k)
      PROVE  u[i] = Told(c, (p \o q)[i], u[i - 1])
  <2>1. CASE i <= n
    <3>1. i \in 1..n /\ u[i] = r[i] /\ u[i - 1] = r[i - 1] /\ (p \o q)[i] = p[i]
      BY <1>3, <1>4, <2>1
    <3> QED
      BY <1>1, <3>1
  <2>2. CASE ~(i <= n)
    <3> DEFINE j == i - n
    <3>1. j \in 1..k /\ u[i] = t[j] /\ (p \o q)[i] = q[j]
      BY <1>3, <1>4, <2>2
    <3>2. u[i - 1] = t[j - 1]
      <4>1. CASE j = 1
        BY <1>1, <1>2, <1>3, <4>1
      <4>2. CASE j # 1
        BY <1>3, <3>1, <4>2
      <4> QED
        BY <4>1, <4>2
    <3> HIDE DEF j, u
    <3> QED
      BY <1>2, <3>1, <3>2
  <2> QED
    BY <2>1, <2>2
<1> HIDE DEF u, n, k
<1> QED
  BY <1>4, <1>5, <1>6, <1>7 DEF Run

LEMMA RunTail ==
  ASSUME NEW S, NEW q \in Seq(S), q # <<>>, NEW c, NEW x, NEW y, Run(c, q, x, y)
  PROVE  Run(c, Tail(q), Told(c, Head(q), x), y)
<1>1. PICK r : /\ r[0] = x /\ r[Len(q)] = y
               /\ \A i \in 1..Len(q) : r[i] = Told(c, q[i], r[i - 1])
  BY DEF Run
<1> DEFINE n == Len(Tail(q))
           t == [i \in 0..n |-> r[i + 1]]
<1>2. /\ Head(q) = q[1] /\ Len(q) \in Nat /\ Len(q) >= 1 /\ n = Len(q) - 1
      /\ \A i \in 1..n : Tail(q)[i] = q[i + 1]
  BY OneLess
<1>3. t[0] = Told(c, Head(q), x)
  <2>1. t[0] = r[1] /\ r[1] = Told(c, q[1], r[1 - 1])
    BY <1>1, <1>2
  <2> QED
    BY <1>1, <1>2, <2>1
<1>4. t[n] = y
  BY <1>1, <1>2
<1>5. ASSUME NEW i \in 1..n PROVE t[i] = Told(c, Tail(q)[i], t[i - 1])
  <2>1. t[i] = r[i + 1] /\ t[i - 1] = r[i] /\ i + 1 \in 1..Len(q) /\ (i + 1) - 1 = i
    BY <1>2
  <2> HIDE DEF t
  <2> QED
    BY <1>1, <1>2, <2>1
<1> HIDE DEF t
<1> QED
  BY <1>3, <1>4, <1>5 DEF Run, n

\* Messages that are not to the strip leave it alone.
LEMMA RunApart ==
  ASSUME NEW c, NEW q, NEW x, Len(q) \in Nat,
         \A i \in 1..Len(q) : ~(OfStrip(q[i]) /\ q[i].ch = c)
  PROVE  Run(c, q, x, x)
<1> DEFINE r == [i \in 0..Len(q) |-> x]
<1>1. r[0] = x /\ r[Len(q)] = x
  OBVIOUS
<1>2. \A i \in 1..Len(q) : r[i] = Told(c, q[i], r[i - 1])
  BY DEF Told
<1> HIDE DEF r
<1> QED
  BY <1>1, <1>2 DEF Run
--------------------------------------------------------------------------------
(* A strip's controls against the strip, with messages and replies under way *)

Tells(e, c) == e.type = "console-params" /\ c \in DOMAIN e.strip

\* Once the replies ev are in, w is on strip c's controls, which now show v.
Shown(c, ev, v, w) ==
  \/ \E i \in 1..Len(ev) : /\ Tells(ev[i], c) /\ w = ev[i].strip[c]
                           /\ \A j \in 1..Len(ev) : Tells(ev[j], c) => j <= i
  \/ (\A i \in 1..Len(ev) : ~Tells(ev[i], c)) /\ w = v

\* The dynamics parameter of a right strip is not on screen.
Agrees(y, w, c) ==
  /\ y.gain = w.gain
  /\ w.comp_on = (y.comp # None)
  /\ c \in Lefts => y.comp \in {w.comp, None}

InStep(c, q, ev, v, x) ==
  \E w, y : Shown(c, ev, v, w) /\ Run(c, q, x, y) /\ Agrees(y, w, c)

NoSetters(q) == \A i \in 1..Len(q) : q[i].type \notin StripTypes \cup FxTypes

LEMMA ShownTail ==
  ASSUME NEW S, NEW ev \in Seq(S), ev # <<>>, NEW c, NEW v, NEW w, Shown(c, ev, v, w)
  PROVE  Shown(c, Tail(ev), IF Tells(Head(ev), c) THEN Head(ev).strip[c] ELSE v, w)
<1> DEFINE n == Len(Tail(ev))
           u == IF Tells(Head(ev), c) THEN Head(ev).strip[c] ELSE v
<1>1. /\ Head(ev) = ev[1] /\ Len(ev) \in Nat /\ Len(ev) >= 1 /\ n = Len(ev) - 1
      /\ \A i \in 1..n : Tail(ev)[i] = ev[i + 1]
  BY OneLess
<1>2. \A i \in 1..n : i + 1 \in 1..Len(ev)
  BY <1>1
<1>3. CASE \A i \in 1..Len(ev) : ~Tells(ev[i], c)
  <2>1. w = v /\ u = v /\ \A i \in 1..n : ~Tells(Tail(ev)[i], c)
    BY <1>1, <1>2, <1>3 DEF Shown
  <2> HIDE DEF u
  <2> QED
    BY <2>1 DEF Shown, n, u
<1>4. CASE \E i \in 1..Len(ev) : Tells(ev[i], c)
  <2>1. PICK i \in 1..Len(ev) : /\ Tells(ev[i], c) /\ w = ev[i].strip[c]
                                /\ \A j \in 1..Len(ev) : Tells(ev[j], c) => j <= i
    BY <1>4 DEF Shown
  <2>2. CASE i = 1
    <3>1. \A j \in 1..n : ~Tells(Tail(ev)[j], c)
      <4> SUFFICES ASSUME NEW j \in 1..n, Tells(Tail(ev)[j], c) PROVE FALSE
        OBVIOUS
      <4>1. j + 1 \in 1..Len(ev) /\ Tells(ev[j + 1], c)
        BY <1>1, <1>2
      <4>2. j + 1 <= i
        BY <2>1, <4>1
      <4> QED
        BY <2>2, <4>2
    <3>2. w = u
      BY <1>1, <2>1, <2>2
    <3> HIDE DEF u
    <3> QED
      BY <3>1, <3>2 DEF Shown, n, u
  <2>3. CASE i # 1
    <3> DEFINE k == i - 1
    <3>1. k \in 1..n /\ Tail(ev)[k] = ev[i]
      BY <1>1, <2>3
    <3>2. \A j \in 1..n : Tells(Tail(ev)[j], c) => j <= k
      <4> SUFFICES ASSUME NEW j \in 1..n, Tells(Tail(ev)[j], c) PROVE j <= k
        OBVIOUS
      <4>1. j + 1 \in 1..Len(ev) /\ Tells(ev[j + 1], c)
        BY <1>1, <1>2
      <4>2. j + 1 <= i
        BY <2>1, <4>1
      <4> QED
        BY <4>2
    <3> HIDE DEF k
    <3> QED
      BY <2>1, <3>1, <3>2 DEF Shown, n
  <2> QED
    BY <2>2, <2>3
<1> QED
  BY <1>3, <1>4

LEMMA ShownMore ==
  ASSUME NEW S, NEW ev \in Seq(S), NEW e \in S, NEW c, ~Tells(e, c), NEW v, NEW w,
         Shown(c, ev, v, w)
  PROVE  Shown(c, ev \o <<e>>, v, w)
<1> DEFINE n == Len(ev)
           f == ev \o <<e>>
<1>1. /\ n \in Nat /\ Len(f) = n + 1 /\ f[n + 1] = e
      /\ \A i \in 1..n : f[i] = ev[i]
  BY OneMore
<1> HIDE DEF f, n
<1>2. \A i \in 1..(n + 1) : Tells(f[i], c) => i \in 1..n /\ Tells(ev[i], c)
  <2> TAKE i \in 1..(n + 1)
  <2>1. i = n + 1 \/ i \in 1..n
    BY <1>1
  <2> QED
    BY <1>1, <2>1
<1>3. CASE \A i \in 1..n : ~Tells(ev[i], c)
  <2>1. w = v /\ \A i \in 1..(n + 1) : ~Tells(f[i], c)
    BY <1>2, <1>3 DEF Shown, n
  <2> QED
    BY <1>1, <2>1 DEF Shown, f
<1>4. CASE \E i \in 1..n : Tells(ev[i], c)
  <2>1. PICK i \in 1..n : /\ Tells(ev[i], c) /\ w = ev[i].strip[c]
                          /\ \A j \in 1..n : Tells(ev[j], c) => j <= i
    BY <1>4 DEF Shown, n
  <2>2. i \in 1..(n + 1) /\ f[i] = ev[i]
    BY <1>1
  <2>3. \A j \in 1..(n + 1) : Tells(f[j], c) => j <= i
    BY <1>2, <2>1
  <2> QED
    BY <1>1, <2>1, <2>2, <2>3 DEF Shown, f
<1> QED
  BY <1>3, <1>4

LEMMA ShownLast ==
  ASSUME NEW S, NEW ev \in Seq(S), NEW e \in S, NEW c, Tells(e, c), NEW v
  PROVE  Shown(c, ev \o <<e>>, v, e.strip[c])
<1> DEFINE n == Len(ev)
           f == ev \o <<e>>
<1>1. n \in Nat /\ Len(f) = n + 1 /\ f[n + 1] = e
  BY OneMore
<1> HIDE DEF f, n
<1>2. n + 1 \in 1..Len(f) /\ \A j \in 1..Len(f) : j <= n + 1
  BY <1>1
<1> QED
  BY <1>1, <1>2 DEF Shown, f

LEMMA InStepTold ==
  ASSUME NEW S, NEW q \in Seq(S), q # <<>>, NEW c, NEW ev, NEW v, NEW x,
         InStep(c, q, ev, v, x)
  PROVE  InStep(c, Tail(q), ev, v, Told(c, Head(q), x))
BY RunTail DEF InStep

LEMMA InStepEmit ==
  ASSUME NEW S, NEW ev \in Seq(S), NEW e \in S, NEW c, ~Tells(e, c), NEW q, NEW v, NEW x,
         InStep(c, q, ev, v, x)
  PROVE  InStep(c, q, ev \o <<e>>, v, x)
BY ShownMore DEF InStep

LEMMA InStepReply ==
  ASSUME NEW S, NEW ev \in Seq(S), ev # <<>>, NEW c, NEW q, NEW v, NEW x,
         InStep(c, q, ev, v, x)
  PROVE  InStep(c, q, Tail(ev), IF Tells(Head(ev), c) THEN Head(ev).strip[c] ELSE v, x)
BY ShownTail DEF InStep

LEMMA InStepAsk ==
  ASSUME NEW S, NEW q \in Seq(S), NEW m \in S, NEW c, ~(OfStrip(m) /\ m.ch = c),
         NEW ev, NEW v, NEW x, InStep(c, q, ev, v, x)
  PROVE  InStep(c, q \o <<m>>, ev, v, x)
<1>1. \A y : Run(c, <<m>>, y, y)
  BY RunOne DEF Told
<1>2. <<m>> \in Seq(S)
  OBVIOUS
<1>3. \A y : Run(c, q, x, y) => Run(c, q \o <<m>>, x, y)
  BY <1>1, <1>2, RunMore
<1> QED
  BY <1>3 DEF InStep

LEMMA InStepWrite ==
  ASSUME NEW S, NEW q \in Seq(S), NEW msgs \in Seq(S), NEW c, NEW ev,
         \A i \in 1..Len(ev) : ~Tells(ev[i], c), NEW v, NEW u, NEW x,
         \A y : Agrees(y, v, c) => \E z : Run(c, msgs, y, z) /\ Agrees(z, u, c),
         InStep(c, q, ev, v, x)
  PROVE  InStep(c, q \o msgs, ev, u, x)
<1>1. PICK y : Run(c, q, x, y) /\ Agrees(y, v, c)
  BY DEF InStep, Shown
<1>2. PICK z : Run(c, msgs, y, z) /\ Agrees(z, u, c)
  BY <1>1
<1>3. Run(c, q \o msgs, x, z)
  BY <1>1, <1>2, RunMore
<1>4. Shown(c, ev, u, u)
  BY DEF Shown
<1> QED
  BY <1>2, <1>3, <1>4 DEF InStep

LEMMA InStepDocument ==
  ASSUME NEW S, NEW ev \in Seq(S), NEW e \in S, NEW c, Tells(e, c),
         NEW q, Len(q) \in Nat, NoSetters(q), NEW v, NEW x, Agrees(x, e.strip[c], c)
  PROVE  InStep(c, q, ev \o <<e>>, v, x)
<1>1. Run(c, q, x, x)
  <2>1. \A i \in 1..Len(q) : ~(OfStrip(q[i]) /\ q[i].ch = c)
    BY DEF NoSetters, OfStrip
  <2> QED
    BY <2>1, RunApart
<1> QED
  BY <1>1, ShownLast DEF InStep

LEMMA NoSettersTail ==
  ASSUME NEW S, NEW q \in Seq(S), q # <<>>, NoSetters(q)
  PROVE  NoSetters(Tail(q)) /\ Head(q).type \notin StripTypes \cup FxTypes
<1>1. /\ Head(q) = q[1] /\ Len(q) \in Nat /\ Len(q) >= 1 /\ Len(Tail(q)) = Len(q) - 1
      /\ \A i \in 1..Len(Tail(q)) : Tail(q)[i] = q[i + 1]
  BY OneLess
<1>2. 1 \in 1..Len(q) /\ \A i \in 1..Len(Tail(q)) : i + 1 \in 1..Len(q)
  BY <1>1
<1> QED
  BY <1>1, <1>2 DEF NoSetters

LEMMA NoSettersMore ==
  ASSUME NEW S, NEW q \in Seq(S), NEW m \in S, NoSetters(q),
         m.type \notin StripTypes \cup FxTypes
  PROVE  NoSetters(q \o <<m>>)
<1> DEFINE n == Len(q)
           f == q \o <<m>>
<1>1. /\ n \in Nat /\ Len(f) = n + 1 /\ f[n + 1] = m
      /\ \A i \in 1..n : f[i] = q[i]
  BY OneMore
<1> HIDE DEF f, n
<1>2. \A i \in 1..(n + 1) : i = n + 1 \/ i \in 1..n
  BY <1>1
<1>3. \A i \in 1..(n + 1) : f[i].type \notin StripTypes \cup FxTypes
  BY <1>1, <1>2, Zenon DEF NoSetters, n
<1> QED
  BY <1>1, <1>3 DEF NoSetters, f
--------------------------------------------------------------------------------
(* What the user writes on a strip, the messages posted with it tell the strip *)

LEMMA RunTwo ==
  ASSUME NEW c, NEW x, NEW l, NEW m
  PROVE  Run(c, <<l, m>>, x, Told(c, m, Told(c, l, x)))
<1> DEFINE y == Told(c, l, x)
           z == Told(c, m, y)
           r == [i \in {0, 1, 2} |-> IF i = 0 THEN x ELSE IF i = 1 THEN y ELSE z]
<1>1. Len(<<l, m>>) = 2 /\ <<l, m>>[1] = l /\ <<l, m>>[2] = m
  OBVIOUS
<1>2. r[0] = x /\ r[1] = y /\ r[2] = z
  OBVIOUS
<1>3. 1 - 1 = 0 /\ 2 - 1 = 1 /\ 1..2 = {1, 2}
  OBVIOUS
<1> HIDE DEF r
<1>4. r[1] = Told(c, <<l, m>>[1], r[0]) /\ r[2] = Told(c, <<l, m>>[2], r[1])
  BY <1>1, <1>2
<1>5. \A i \in 1..2 : r[i] = Told(c, <<l, m>>[i], r[i - 1])
  BY <1>3, <1>4
<1> QED
  BY <1>1, <1>2, <1>5 DEF Run

\* Messages to the two sides of stereo channel t.
Both(t, l, r) == OfStrip(l) /\ OfStrip(r) /\ l.ch = 2 * t /\ r.ch = 2 * t + 1

LEMMA Sides ==
  ASSUME NEW t \in Pair, NEW c \in Strip
  PROVE  /\ c \div 2 = t <=> c = 2 * t \/ c = 2 * t + 1
         /\ 2 * t # 2 * t + 1
         /\ c = 2 * t + 1 => c \notin Lefts
<1>1. c \div 2 = t <=> c = 2 * t \/ c = 2 * t + 1
  BY Constants DEF Strip, Pair
<1>2. 2 * t # 2 * t + 1
  BY Constants DEF Pair
<1> QED
  BY <1>1, <1>2, TwoSides

LEMMA RunBoth ==
  ASSUME NEW t \in Pair, NEW l, NEW r, Both(t, l, r), NEW c \in Strip, NEW y
  PROVE  /\ c = 2 * t => Run(c, <<l, r>>, y, Told(c, l, y))
         /\ c = 2 * t + 1 => Run(c, <<l, r>>, y, Told(c, r, y))
         /\ c \div 2 # t => Run(c, <<l, r>>, y, y)
<1>1. \A z : c # 2 * t => Told(c, l, z) = z
  BY DEF Told, Both
<1>2. \A z : c # 2 * t + 1 => Told(c, r, z) = z
  BY DEF Told, Both
<1>3. Run(c, <<l, r>>, y, Told(c, r, Told(c, l, y)))
  BY RunTwo
<1> QED
  BY <1>1, <1>2, <1>3, Sides

Keeps(c, msgs, v, u) ==
  \A y : Agrees(y, v, c) => \E z : Run(c, msgs, y, z) /\ Agrees(z, u, c)

LEMMA GainKept ==
  ASSUME NEW t \in Pair, NEW g, NEW c \in Strip, NEW v \in View
  PROVE  Keeps(c, <<SetGain(2 * t, g), SetGain(2 * t + 1, g)>>,
               v, IF c \div 2 = t THEN [v EXCEPT !.gain = g] ELSE v)
<1> DEFINE l == SetGain(2 * t, g)
           r == SetGain(2 * t + 1, g)
           u == IF c \div 2 = t THEN [v EXCEPT !.gain = g] ELSE v
<1>1. /\ Both(t, l, r)
      /\ l.type = "set-gain" /\ l.gain = g /\ r.type = "set-gain" /\ r.gain = g
  BY DEF Both, OfStrip, StripTypes, SetGain
<1> HIDE DEF l, r
<1> SUFFICES ASSUME NEW y, Agrees(y, v, c)
             PROVE  \E z : Run(c, <<l, r>>, y, z) /\ Agrees(z, u, c)
  BY DEF Keeps, l, r
<1>2. \A m : m \in {l, r} /\ m.ch = c =>
        Told(c, m, y).gain = g /\ Told(c, m, y).comp = y.comp
  BY <1>1, CompWrittenIs DEF Told, Both
<1>3. /\ u.comp = v.comp /\ u.comp_on = v.comp_on
      /\ u.gain = IF c \div 2 = t THEN g ELSE v.gain
  BY DEF View
<1> HIDE DEF u
<1>4. \A z : /\ z.gain = (IF c \div 2 = t THEN g ELSE y.gain)
             /\ z.comp = y.comp
             => Agrees(z, u, c)
  BY <1>3 DEF Agrees
<1>5. CASE c = 2 * t
  <2>1. Run(c, <<l, r>>, y, Told(c, l, y)) /\ c \div 2 = t /\ l.ch = c
    BY <1>1, <1>5, RunBoth, Sides DEF Both
  <2> QED
    BY <1>2, <1>4, <2>1
<1>6. CASE c = 2 * t + 1
  <2>1. Run(c, <<l, r>>, y, Told(c, r, y)) /\ c \div 2 = t /\ r.ch = c
    BY <1>1, <1>6, RunBoth, Sides DEF Both
  <2> QED
    BY <1>2, <1>4, <2>1
<1>7. CASE c \div 2 # t
  <2>1. Run(c, <<l, r>>, y, y)
    BY <1>1, <1>7, RunBoth
  <2> QED
    BY <1>4, <1>7, <2>1
<1> QED
  BY <1>5, <1>6, <1>7, Sides

LEMMA ParamKept ==
  ASSUME NEW t \in Pair, NEW a \in Level, NEW c \in Strip, NEW v \in View
  PROVE  Keeps(c, <<SetCompParam(2 * t, a), SetCompParam(2 * t + 1, a)>>,
               v, IF c \div 2 = t THEN [v EXCEPT !.comp = a] ELSE v)
<1> DEFINE l == SetCompParam(2 * t, a)
           r == SetCompParam(2 * t + 1, a)
           u == IF c \div 2 = t THEN [v EXCEPT !.comp = a] ELSE v
<1>1. /\ Both(t, l, r)
      /\ l.type = "set-comp-param" /\ l.value = a /\ r.type = "set-comp-param" /\ r.value = a
  BY DEF Both, OfStrip, StripTypes, SetCompParam
<1> HIDE DEF l, r
<1> SUFFICES ASSUME NEW y, Agrees(y, v, c)
             PROVE  \E z : Run(c, <<l, r>>, y, z) /\ Agrees(z, u, c)
  BY DEF Keeps, l, r
<1>2. \A m : m \in {l, r} /\ m.ch = c =>
        /\ Told(c, m, y).gain = y.gain
        /\ Told(c, m, y).comp = IF y.comp = None THEN None ELSE a
  BY <1>1, CompWrittenIs DEF Told, Both
<1>3. /\ u.comp_on = v.comp_on /\ u.gain = v.gain
      /\ u.comp = IF c \div 2 = t THEN a ELSE v.comp
  BY DEF View
<1>4. a # None
  BY Constants DEF Level
<1> HIDE DEF u
<1>5. \A z : /\ z.gain = y.gain
             /\ z.comp = IF c \div 2 = t /\ y.comp # None THEN a ELSE y.comp
             => Agrees(z, u, c)
  <2> SUFFICES ASSUME NEW z, z.gain = y.gain,
                      z.comp = IF c \div 2 = t /\ y.comp # None THEN a ELSE y.comp
               PROVE  Agrees(z, u, c)
    OBVIOUS
  <2>1. z.gain = u.gain
    BY <1>3 DEF Agrees
  <2>2. (z.comp # None) = (y.comp # None) /\ u.comp_on = (y.comp # None)
    BY <1>3, <1>4 DEF Agrees
  <2>3. c \in Lefts => z.comp \in {u.comp, None}
    BY <1>3 DEF Agrees
  <2> QED
    BY <2>1, <2>2, <2>3, Zenon DEF Agrees
<1>6. CASE c = 2 * t
  <2>1. Run(c, <<l, r>>, y, Told(c, l, y)) /\ c \div 2 = t /\ l.ch = c
    BY <1>1, <1>6, RunBoth, Sides DEF Both
  <2> QED
    BY <1>2, <1>5, <2>1
<1>7. CASE c = 2 * t + 1
  <2>1. Run(c, <<l, r>>, y, Told(c, r, y)) /\ c \div 2 = t /\ r.ch = c
    BY <1>1, <1>7, RunBoth, Sides DEF Both
  <2> QED
    BY <1>2, <1>5, <2>1
<1>8. CASE c \div 2 # t
  <2>1. Run(c, <<l, r>>, y, y)
    BY <1>1, <1>8, RunBoth
  <2> QED
    BY <1>5, <1>8, <2>1
<1> QED
  BY <1>6, <1>7, <1>8, Sides

\* A pair of messages to the compressors of stereo channel t.
LEMMA CompTold ==
  ASSUME NEW t \in Pair, NEW l, NEW r, Both(t, l, r), NEW c \in Strip, NEW y, NEW b,
         l.type # "set-gain", r.type # "set-gain",
         CompWritten(l, y.comp) = b, CompWritten(r, y.comp) = b
  PROVE  \E z : /\ Run(c, <<l, r>>, y, z) /\ z.gain = y.gain
                /\ z.comp = IF c \div 2 = t THEN b ELSE y.comp
<1>1. \A m : m \in {l, r} /\ m.ch = c => Told(c, m, y).gain = y.gain /\ Told(c, m, y).comp = b
  BY DEF Told, Both
<1>2. CASE c = 2 * t
  <2>1. Run(c, <<l, r>>, y, Told(c, l, y)) /\ c \div 2 = t /\ l.ch = c
    BY <1>2, RunBoth, Sides DEF Both
  <2> QED
    BY <1>1, <2>1
<1>3. CASE c = 2 * t + 1
  <2>1. Run(c, <<l, r>>, y, Told(c, r, y)) /\ c \div 2 = t /\ r.ch = c
    BY <1>3, RunBoth, Sides DEF Both
  <2> QED
    BY <1>1, <2>1
<1>4. CASE c \div 2 # t
  <2>1. Run(c, <<l, r>>, y, y)
    BY <1>4, RunBoth
  <2> QED
    BY <1>4, <2>1
<1> QED
  BY <1>2, <1>3, <1>4, Sides

LEMMA SwitchKept ==
  ASSUME NEW t \in Pair, NEW on \in BOOLEAN, NEW a \in Level, NEW c \in Strip,
         NEW v \in View, c = 2 * t => v.comp = a
  PROVE  Keeps(c, <<SwitchComp(2 * t, on), SwitchComp(2 * t + 1, on)>>
                    \o (IF on THEN <<SetCompParam(2 * t, a), SetCompParam(2 * t + 1, a)>>
                        ELSE <<>>),
               v, IF c \div 2 = t THEN [v EXCEPT !.comp_on = on] ELSE v)
<1> DEFINE l == SwitchComp(2 * t, on)
           r == SwitchComp(2 * t + 1, on)
           m == SetCompParam(2 * t, a)
           n == SetCompParam(2 * t + 1, a)
           u == IF c \div 2 = t THEN [v EXCEPT !.comp_on = on] ELSE v
           b == IF on THEN Default ELSE None
<1>1. /\ Both(t, l, r) /\ l.type # "set-gain" /\ r.type # "set-gain"
      /\ \A x : CompWritten(l, x) = b /\ CompWritten(r, x) = b
  BY CompWrittenIs DEF Both, OfStrip, StripTypes, SwitchComp
<1>2. /\ Both(t, m, n) /\ m.type # "set-gain" /\ n.type # "set-gain"
      /\ \A x : x # None => CompWritten(m, x) = a /\ CompWritten(n, x) = a
  BY CompWrittenIs DEF Both, OfStrip, StripTypes, SetCompParam
<1>3. a # None /\ Default # None
  BY Constants DEF Level, Default
<1>4. /\ u.comp = v.comp /\ u.gain = v.gain
      /\ u.comp_on = IF c \div 2 = t THEN on ELSE v.comp_on
  BY DEF View
<1>5. <<l, r>> \in Seq({l, r, m, n}) /\ <<m, n>> \in Seq({l, r, m, n})
  OBVIOUS
<1> HIDE DEF l, r, m, n, u
<1> SUFFICES ASSUME NEW y, Agrees(y, v, c)
             PROVE  \E z : /\ Run(c, <<l, r>> \o (IF on THEN <<m, n>> ELSE <<>>), y, z)
                           /\ Agrees(z, u, c)
  BY Zenon DEF Keeps, l, r, m, n, u
<1>6. PICK x : /\ Run(c, <<l, r>>, y, x) /\ x.gain = y.gain
               /\ x.comp = IF c \div 2 = t THEN b ELSE y.comp
  BY <1>1, CompTold
<1>7. CASE on
  <2>1. \E z : /\ Run(c, <<m, n>>, x, z) /\ z.gain = x.gain
               /\ z.comp = IF c \div 2 = t THEN a ELSE x.comp
    <3>1. CASE c \div 2 = t
      <4>1. x.comp = Default
        BY <1>6, <1>7, <3>1
      <4>2. CompWritten(m, x.comp) = a /\ CompWritten(n, x.comp) = a
        BY <1>2, <1>3, <4>1
      <4> QED
        BY <1>2, <4>2, CompTold
    <3>2. CASE c \div 2 # t
      BY <1>2, <3>2, RunBoth
    <3> QED
      BY <3>1, <3>2
  <2>2. PICK z : /\ Run(c, <<m, n>>, x, z) /\ z.gain = x.gain
                 /\ z.comp = IF c \div 2 = t THEN a ELSE x.comp
    BY <2>1
  <2>3. Run(c, <<l, r>> \o <<m, n>>, y, z)
    BY <1>5, <1>6, <2>2, RunMore
  <2>4. Agrees(z, u, c)
    <3>1. z.gain = u.gain
      BY <1>4, <1>6, <2>2 DEF Agrees
    <3>2. u.comp_on = (z.comp # None)
      <4>1. CASE c \div 2 = t
        <5>1. z.comp # None /\ u.comp_on
          BY <1>3, <1>4, <1>7, <2>2, <4>1
        <5>2. u.comp_on = TRUE /\ (z.comp # None) = TRUE
          BY <1>4, <1>7, <4>1, <5>1, Zenon
        <5> QED
          BY <5>2
      <4>2. CASE c \div 2 # t
        <5>1. z.comp = y.comp /\ u.comp_on = v.comp_on
          BY <1>4, <1>6, <2>2, <4>2
        <5> QED
          BY <5>1, Zenon DEF Agrees
      <4> QED
        BY <4>1, <4>2
    <3>3. ASSUME c \in Lefts PROVE z.comp \in {u.comp, None}
      <4>1. CASE c \div 2 = t
        <5>1. c = 2 * t
          BY <3>3, <4>1, Sides
        <5> QED
          BY <1>4, <2>2, <4>1, <5>1
      <4>2. CASE c \div 2 # t
        BY <1>4, <1>6, <2>2, <3>3, <4>2 DEF Agrees
      <4> QED
        BY <4>1, <4>2
    <3> QED
      BY <3>1, <3>2, <3>3, Zenon DEF Agrees
  <2> QED
    BY <1>7, <2>3, <2>4
<1>8. CASE ~on
  <2>1. Run(c, <<l, r>> \o <<>>, y, x)
    BY <1>5, <1>6, ConcatEmptySeq
  <2>2. x.gain = u.gain
    BY <1>4, <1>6 DEF Agrees
  <2>3. u.comp_on = (x.comp # None)
    <3>1. CASE c \div 2 = t
      <4>1. x.comp = None /\ ~u.comp_on
        BY <1>4, <1>6, <1>8, <3>1
      <4>2. on = FALSE
        BY <1>8
      <4>3. u.comp_on = FALSE /\ (x.comp # None) = FALSE
        BY <1>4, <3>1, <4>1, <4>2, Zenon
      <4> QED
        BY <4>3
    <3>2. CASE c \div 2 # t
      <4>1. x.comp = y.comp /\ u.comp_on = v.comp_on
        BY <1>4, <1>6, <3>2
      <4> QED
        BY <4>1, Zenon DEF Agrees
    <3> QED
      BY <3>1, <3>2
  <2>4. c \in Lefts => x.comp \in {u.comp, None}
    BY <1>4, <1>6, <1>8 DEF Agrees
  <2>5. Agrees(x, u, c)
    BY <2>2, <2>3, <2>4, Zenon DEF Agrees
  <2> QED
    BY <1>8, <2>1, <2>5
<1> QED
  BY <1>7, <1>8
--------------------------------------------------------------------------------
(* The inductive invariant: strips *)

Fading(c) == fade # None /\ c \in fade.to.strips.covers

\* Where strip c ends when nothing else is said to it.
Heading(c) ==
  IF Fading(c) THEN [gain |-> fade.to.strips.strip[c].gain, comp |-> fade.to.comp[c]]
  ELSE [gain |-> console.gain[c], comp |-> comp[c]]

Tracked(c) ==
  /\ InStep(c, ctl, events, channels[c], Heading(c))
  /\ Fading(c) => NoSetters(ctl)

\* The store will read the console.
Expected == OfType(ctl, {"get-params"}) # {} \/ OfType(events, {"scene-recalled"}) # {}

Awaited(c) == Expected /\ (fade # None => Fading(c))

Mirrored(c) == Tracked(c) \/ (c \in console.exists /\ (parted \/ Awaited(c)))

StripsMirror == \A c \in Strip : Mirrored(c)

\* Nothing is said of a strip that does not exist.
LEMMA Absent ==
  ASSUME Grounds, NEW c, c \notin console.exists
  PROVE  ~Fading(c) /\ \A i \in 1..Len(events) : ~Tells(events[i], c)
BY DEF Grounds, Fading, Existing, Tells

LEMMA TimelyWrite ==
  ASSUME PortOK, ~Untimely, NEW c
  PROVE  fade = None /\ \A i \in 1..Len(events) : ~Tells(events[i], c)
<1>1. DOMAIN events = 1..Len(events)
  BY LenProperties DEF PortOK
<1> QED
  BY <1>1 DEF Untimely, OfType, Tells

LEMMA ExpectedAfterAll ==
  ASSUME PortOK, NEW msgs \in Seq(Ask), ctl' = ctl \o msgs, UNCHANGED events, Expected
  PROVE  Expected'
<1>1. CASE OfType(ctl, {"get-params"}) # {}
  <2>1. OfType(ctl \o msgs, {"get-params"}) # {}
    BY <1>1, StillThereWithMore DEF PortOK
  <2> QED
    BY <2>1 DEF Expected
<1>2. CASE OfType(events, {"scene-recalled"}) # {}
  BY <1>2 DEF Expected
<1> QED
  BY <1>1, <1>2 DEF Expected

LEMMA WriteMirrored ==
  ASSUME Shapes, Grounds, NEW msgs \in Seq(Ask), ctl' = ctl \o msgs,
         UNCHANGED <<events, core>>, parted => parted', Untimely => parted',
         NEW c \in Strip, Keeps(c, msgs, channels[c], channels'[c]), Mirrored(c)
  PROVE  Mirrored(c)'
<1>1. CASE c \in console.exists /\ parted'
  BY <1>1 DEF Mirrored, core
<1>2. CASE ~(c \in console.exists /\ parted')
  <2>1. ~Fading(c) /\ \A i \in 1..Len(events) : ~Tells(events[i], c)
    BY <1>2, Absent, TimelyWrite DEF Fading, Shapes
  <2>2. ~Fading(c)' /\ Heading(c)' = Heading(c)
    BY <2>1 DEF Fading, Heading, core
  <2>3. CASE Tracked(c)
    <3>1. InStep(c, ctl \o msgs, events, channels'[c], Heading(c))
      BY <2>1, <2>3, InStepWrite DEF Tracked, Keeps, Shapes, PortOK
    <3> QED
      BY <2>2, <3>1 DEF Mirrored, Tracked
  <2>4. CASE ~Tracked(c)
    <3>1. c \in console.exists /\ Awaited(c)
      BY <1>2, <2>4 DEF Mirrored
    <3>2. Expected'
      BY <3>1, ExpectedAfterAll DEF Awaited, Shapes
    <3> QED
      BY <3>1, <3>2, <2>1 DEF Mirrored, Awaited, Fading, core
  <2> QED
    BY <2>3, <2>4
<1> QED
  BY <1>1, <1>2

\* The user, or a reply, asks for something that writes no strip.
LEMMA AskMirrored ==
  ASSUME PortOK, NEW m \in Ask, m.type \notin StripTypes \cup FxTypes, ctl' = ctl \o <<m>>,
         UNCHANGED <<events, core, channels>>, parted => parted', NEW c, Mirrored(c)
  PROVE  Mirrored(c)'
<1>1. <<m>> \in Seq(Ask)
  OBVIOUS
<1>2. Fading(c)' = Fading(c) /\ Heading(c)' = Heading(c)
  BY DEF Fading, Heading, core
<1>3. CASE Tracked(c)
  <2>1. InStep(c, ctl \o <<m>>, events, channels[c], Heading(c))
    BY <1>3, InStepAsk DEF Tracked, PortOK, OfStrip
  <2>2. Fading(c) => NoSetters(ctl \o <<m>>)
    BY <1>3, NoSettersMore DEF Tracked, PortOK
  <2> QED
    BY <1>2, <2>1, <2>2 DEF Mirrored, Tracked
<1>4. CASE ~Tracked(c)
  <2>1. Expected => Expected'
    BY <1>1, ExpectedAfterAll
  <2> QED
    BY <1>2, <1>4, <2>1 DEF Mirrored, Awaited, core
<1> QED
  BY <1>3, <1>4

LEMMA StripSettersMirror ==
  ASSUME Shapes, Grounds, StripsMirror, NEW t \in Pair,
         \/ \E g \in Gains : SetStereoGain(t, g)
         \/ \E v \in Values : SetStereoCompParam(t, v)
         \/ \E on \in BOOLEAN : SetStereoCompEnabled(t, on)
  PROVE  StripsMirror'
<1>1. \A c \in Strip : channels[c] \in View /\ stereo[t] \in View
  BY DEF Shapes, StoreOK
<1> SUFFICES ASSUME NEW c \in Strip PROVE Mirrored(c)'
  BY DEF StripsMirror
<1>2. Mirrored(c)
  BY DEF StripsMirror
<1>3. ASSUME NEW g \in Gains, SetStereoGain(t, g) PROVE Mirrored(c)'
  <2> DEFINE msgs == <<SetGain(2 * t, g), SetGain(2 * t + 1, g)>>
  <2>1. g \in Level
    BY Constants DEF Level
  <2>2. msgs \in Seq(Ask)
    BY <2>1, Pairing
  <2>3. channels'[c] = IF c \div 2 = t THEN [channels[c] EXCEPT !.gain = g] ELSE channels[c]
    BY <1>3 DEF SetStereoGain, WriteBoth
  <2>4. Keeps(c, msgs, channels[c], channels'[c])
    BY <1>1, <2>3, GainKept
  <2>5. Post(msgs, Untimely)
    BY <1>3 DEF SetStereoGain
  <2> HIDE DEF msgs
  <2> QED
    BY <1>2, <2>2, <2>4, <2>5, WriteMirrored DEF Post
<1>4. ASSUME NEW v \in Values, SetStereoCompParam(t, v) PROVE Mirrored(c)'
  <2> DEFINE msgs == <<SetCompParam(2 * t, v), SetCompParam(2 * t + 1, v)>>
  <2>1. v \in Level
    BY Constants DEF Level
  <2>2. msgs \in Seq(Ask)
    BY <2>1, Pairing
  <2>3. channels'[c] = IF c \div 2 = t THEN [channels[c] EXCEPT !.comp = v] ELSE channels[c]
    BY <1>4 DEF SetStereoCompParam, WriteBoth
  <2>4. Keeps(c, msgs, channels[c], channels'[c])
    BY <1>1, <2>1, <2>3, ParamKept
  <2>5. Post(msgs, Untimely)
    BY <1>4 DEF SetStereoCompParam
  <2> HIDE DEF msgs
  <2> QED
    BY <1>2, <2>2, <2>4, <2>5, WriteMirrored DEF Post
<1>5. ASSUME NEW on \in BOOLEAN, SetStereoCompEnabled(t, on) PROVE Mirrored(c)'
  <2> DEFINE a == stereo[t].comp
             switches == <<SwitchComp(2 * t, on), SwitchComp(2 * t + 1, on)>>
             params == <<SetCompParam(2 * t, a), SetCompParam(2 * t + 1, a)>>
             msgs == switches \o (IF on THEN params ELSE <<>>)
  <2>1. a \in Level /\ (c = 2 * t => channels[c].comp = a)
    BY <1>1 DEF View, Grounds
  <2>2. switches \in Seq(Ask) /\ params \in Seq(Ask)
    BY <2>1, Pairing
  <2>3. channels'[c] = IF c \div 2 = t THEN [channels[c] EXCEPT !.comp_on = on]
                       ELSE channels[c]
    BY <1>5 DEF SetStereoCompEnabled, WriteBoth
  <2>4. Keeps(c, msgs, channels[c], channels'[c])
    <3> HIDE DEF a
    <3> QED
      BY <1>1, <2>1, <2>3, SwitchKept
  <2>5. Post(msgs, Untimely)
    BY <1>5, Zenon DEF SetStereoCompEnabled, PushStereoCompParams
  <2> HIDE DEF switches, params
  <2>6. msgs \in Seq(Ask)
    BY <2>2, ConcatProperties, ConcatEmptySeq
  <2> HIDE DEF msgs
  <2> QED
    BY <1>2, <2>4, <2>5, <2>6, WriteMirrored DEF Post
<1> QED
  BY <1>3, <1>4, <1>5

LEMMA FxWriteMirrors ==
  ASSUME Shapes, Grounds, StripsMirror, NEW p, NEW key, NEW slots, NEW row, NEW m \in Ask,
         ~OfStrip(m), WriteRow(p, key, slots, row, m)
  PROVE  StripsMirror' /\ Grounds'
<1>1. Post(<<m>>, Untimely \/ Unanswered(p, slots)) /\ UNCHANGED <<stereo, channels>>
  BY DEF WriteRow
<1>2. <<m>> \in Seq(Ask) /\ Len(<<m>>) = 1 /\ <<m>>[1] = m
  OBVIOUS
<1>3. \A c, v : Keeps(c, <<m>>, v, v)
  BY <1>2, RunApart DEF Keeps
<1>4. ASSUME NEW c \in Strip PROVE Mirrored(c)'
  <2>1. Mirrored(c) /\ channels'[c] = channels[c]
    BY <1>1 DEF StripsMirror
  <2>2. Keeps(c, <<m>>, channels[c], channels'[c])
    BY <1>3, <2>1
  <2> QED
    BY <1>1, <1>2, <2>1, <2>2, WriteMirrored DEF Post
<1>5. Grounds'
  BY <1>1 DEF Grounds, Post, core, Existing, Saved
<1> QED
  BY <1>4, <1>5 DEF StripsMirror

LEMMA FxSettersMirror ==
  ASSUME Shapes, Grounds, StripsMirror, NEW p \in Pair, NEW s \in Slot,
         \/ \E fx \in Effect \cup {None} : SetFxSlot(p, s, fx)
         \/ \E on \in BOOLEAN : SetFxEnabled(p, s, on)
         \/ \E v \in Values : SetFxParam(p, s, v)
         \/ \E to \in Slot : MoveFxSlot(p, s, to)
  PROVE  StripsMirror' /\ Grounds'
<1>1. ASSUME NEW fx \in Effect \cup {None}, SetFxSlot(p, s, fx)
      PROVE  StripsMirror' /\ Grounds'
  <2> DEFINE m == [type |-> "set-fx-slot", pair |-> p, slot |-> s, fx |-> fx]
  <2>1. m \in Ask /\ ~OfStrip(m)
    BY DEF Ask, Message, OfStrip, StripTypes
  <2> HIDE DEF m
  <2> QED
    BY <1>1, <2>1, FxWriteMirrors DEF SetFxSlot, m
<1>2. ASSUME NEW on \in BOOLEAN, SetFxEnabled(p, s, on)
      PROVE  StripsMirror' /\ Grounds'
  <2> DEFINE m == [type |-> "set-fx-enabled", pair |-> p, slot |-> s, on |-> on]
  <2>1. m \in Ask /\ ~OfStrip(m)
    BY DEF Ask, Message, OfStrip, StripTypes
  <2> HIDE DEF m
  <2> QED
    BY <1>2, <2>1, FxWriteMirrors DEF SetFxEnabled, m
<1>3. ASSUME NEW v \in Values, SetFxParam(p, s, v)
      PROVE  StripsMirror' /\ Grounds'
  <2> DEFINE m == [type |-> "set-fx-param", pair |-> p, slot |-> s, value |-> v,
                   fx |-> fxChains[p][s].fx]
  <2>1. m \in Ask /\ ~OfStrip(m)
    BY <1>3, TurnedEffect DEF Ask, Message, OfStrip, StripTypes, Params
  <2> HIDE DEF m
  <2> QED
    BY <1>3, <2>1, FxWriteMirrors DEF SetFxParam, m
<1>4. ASSUME NEW to \in Slot, MoveFxSlot(p, s, to)
      PROVE  StripsMirror' /\ Grounds'
  <2> DEFINE m == [type |-> "move-fx-slot", pair |-> p, from |-> s, to |-> to]
  <2>1. m \in Ask /\ ~OfStrip(m)
    BY DEF Ask, Message, OfStrip, StripTypes
  <2> HIDE DEF m
  <2> QED
    BY <1>4, <2>1, FxWriteMirrors DEF MoveFxSlot, m
<1> QED
  BY <1>1, <1>2, <1>3, <1>4

LEMMA UserMirrors ==
  ASSUME Shapes, Grounds, StripsMirror, User
  PROVE  StripsMirror' /\ Grounds'
<1>1. ASSUME NEW m \in Ask, m.type \notin StripTypes \cup FxTypes, Post(<<m>>, FALSE),
             UNCHANGED store
      PROVE  StripsMirror' /\ Grounds'
  <2>1. ctl' = ctl \o <<m>> /\ UNCHANGED <<events, core, channels, stereo>> /\ (parted => parted')
    BY <1>1 DEF Post, store
  <2>2. Grounds'
    BY <2>1 DEF Grounds, core, Existing, Saved
  <2>3. \A c \in Strip : Mirrored(c)'
    BY <1>1, <2>1, AskMirrored DEF StripsMirror, Shapes
  <2> QED
    BY <2>2, <2>3 DEF StripsMirror
<1>2. CASE SendSceneSave
  <2> DEFINE m == [type |-> "scene-save"]
  <2>1. m \in Ask /\ m.type \notin StripTypes \cup FxTypes
    BY DEF Ask, Message, StripTypes, FxTypes
  <2>2. Post(<<m>>, FALSE) /\ UNCHANGED store
    BY <1>2 DEF SendSceneSave
  <2> HIDE DEF m
  <2> QED
    BY <1>1, <2>1, <2>2
<1>3. ASSUME NEW id \in chips, NEW dur \in Durations \cup {0}, SendSceneRecall(id, dur)
      PROVE  StripsMirror' /\ Grounds'
  <2> DEFINE m == [type |-> "scene-recall", id |-> id, dur |-> dur]
  <2>1. id \in Saved /\ id \in 1..MaxScene
    BY DEF Shapes, StoreOK, Saved
  <2>2. m \in Ask /\ m.type \notin StripTypes \cup FxTypes
    BY <2>1 DEF Ask, Message, StripTypes, FxTypes
  <2>3. Post(<<m>>, FALSE) /\ UNCHANGED store
    BY <1>3 DEF SendSceneRecall
  <2> HIDE DEF m
  <2> QED
    BY <1>1, <2>2, <2>3
<1>4. ASSUME NEW t \in Pair,
             \/ \E g \in Gains : SetStereoGain(t, g)
             \/ \E v \in Values : SetStereoCompParam(t, v)
             \/ \E on \in BOOLEAN : SetStereoCompEnabled(t, on)
      PROVE  StripsMirror' /\ Grounds'
  <2>1. StripsMirror'
    BY <1>4, StripSettersMirror
  <2>2. Grounds'
    <3>1. /\ \A u \in Pair : stereo'[u] = channels'[2 * u]
          /\ UNCHANGED <<events, core>>
      <4>1. \A u \in Pair : /\ 2 * u \in Strip /\ ((2 * u) \div 2 = t <=> u = t)
                            /\ stereo[u] = channels[2 * u]
        BY Pairing, Constants DEF Pair, Grounds
      <4>2. stereo \in [Pair -> View]
        BY DEF Shapes, StoreOK
      <4>3. \A g : SetStereoGain(t, g) => /\ \A u \in Pair : stereo'[u] = channels'[2 * u]
                                          /\ UNCHANGED <<events, core>>
        BY <4>1, <4>2 DEF SetStereoGain, WriteBoth, Post
      <4>4. \A v : SetStereoCompParam(t, v) =>
              /\ \A u \in Pair : stereo'[u] = channels'[2 * u]
              /\ UNCHANGED <<events, core>>
        BY <4>1, <4>2 DEF SetStereoCompParam, WriteBoth, Post
      <4>5. \A on : SetStereoCompEnabled(t, on) =>
              /\ \A u \in Pair : stereo'[u] = channels'[2 * u]
              /\ UNCHANGED <<events, core>>
        <5>1. \A on : SetStereoCompEnabled(t, on) =>
                \A u \in Pair : stereo'[u] = channels'[2 * u]
          BY <4>1, <4>2 DEF SetStereoCompEnabled, WriteBoth
        <5>2. \A on : SetStereoCompEnabled(t, on) => UNCHANGED <<events, core>>
          BY Zenon DEF SetStereoCompEnabled, Post
        <5> QED
          BY <5>1, <5>2
      <4> QED
        BY <1>4, <4>3, <4>4, <4>5
    <3> QED
      BY <3>1 DEF Grounds, core, Existing, Saved
  <2> QED
    BY <2>1, <2>2
<1> QED
  BY <1>2, <1>3, <1>4, FxSettersMirror DEF User
--------------------------------------------------------------------------------
(* The worklet's messages and the strips *)

\* Nothing, or one report that does not tell of strip c.
Untold(c) == events' = events \/ \E e : ~Tells(e, c) /\ events' = events \o <<e>>

LEMMA TailTracked ==
  ASSUME PortOK, ctl # <<>>, ctl' = Tail(ctl), UNCHANGED channels, NEW c, Untold(c),
         NEW x, InStep(c, ctl, events, channels[c], x)
  PROVE  InStep(c, ctl', events', channels'[c], Told(c, Head(ctl), x))
<1> DEFINE y == Told(c, Head(ctl), x)
<1>1. InStep(c, Tail(ctl), events, channels[c], y)
  BY InStepTold DEF PortOK
<1> HIDE DEF y
<1>2. ASSUME NEW e, ~Tells(e, c), events' = events \o <<e>>
      PROVE  InStep(c, Tail(ctl), events', channels[c], y)
  <2>1. events \in Seq(Answer \cup {e})
    BY SeqMonotonic DEF PortOK
  <2> QED
    BY <1>1, <1>2, <2>1, InStepEmit
<1>3. InStep(c, Tail(ctl), events', channels[c], y)
  BY <1>1, <1>2 DEF Untold
<1> QED
  BY <1>3 DEF y

LEMMA StillExpected ==
  ASSUME PortOK, ctl # <<>>, ctl' = Tail(ctl), Head(ctl).type # "get-params",
         NEW c, Untold(c), Expected
  PROVE  Expected'
<1>1. CASE OfType(ctl, {"get-params"}) # {}
  BY <1>1, StillThere DEF Expected, PortOK, OfType
<1>2. CASE OfType(events, {"scene-recalled"}) # {}
  <2>1. ASSUME NEW e, events' = events \o <<e>>
        PROVE  OfType(events', {"scene-recalled"}) # {}
    <3>1. events \in Seq(Answer \cup {e}) /\ <<e>> \in Seq(Answer \cup {e})
      BY SeqMonotonic DEF PortOK
    <3> QED
      BY <1>2, <2>1, <3>1, StillThereWithMore
  <2> QED
    BY <1>2, <2>1 DEF Untold, Expected, OfType
<1> QED
  BY <1>1, <1>2 DEF Expected

\* A message that leaves the fade, if there is one, and the strips alone.
LEMMA PassedMirrored ==
  ASSUME PortOK, ctl # <<>>, ctl' = Tail(ctl), Head(ctl).type # "get-params",
         ~OfStrip(Head(ctl)), UNCHANGED channels, NEW c, Untold(c), Heading(c)' = Heading(c),
         fade' # None => (fade # None /\ (Fading(c) <=> Fading(c)')),
         Fading(c)' => Fading(c),
         console.exists \subseteq console'.exists, parted => parted', Mirrored(c)
  PROVE  Mirrored(c)'
<1>1. CASE Tracked(c)
  <2>1. InStep(c, ctl', events', channels'[c], Heading(c))
    BY <1>1, TailTracked DEF Tracked, Told
  <2>2. Fading(c)' => NoSetters(ctl')
    BY <1>1, NoSettersTail DEF Tracked, PortOK
  <2> QED
    BY <2>1, <2>2 DEF Mirrored, Tracked
<1>2. CASE ~Tracked(c)
  <2>1. Expected => Expected'
    BY StillExpected
  <2> QED
    BY <1>2, <2>1 DEF Mirrored, Awaited
<1> QED
  BY <1>1, <1>2

LEMMA SetStripMirrors ==
  ASSUME Shapes, Grounds, StripsMirror, ctl # <<>>, ctl' = Tail(ctl), SetStrip,
         UNCHANGED store
  PROVE  StripsMirror' /\ Grounds'
<1> DEFINE m == Head(ctl)
<1>1. /\ OfStrip(m) /\ m \in Ask /\ m.ch \in Strip
      /\ console'.gain = IF m.type = "set-gain"
                         THEN [console.gain EXCEPT ![m.ch] = m.gain]
                         ELSE console.gain
      /\ console.exists \subseteq console'.exists
      /\ comp' = [comp EXCEPT ![m.ch] = CompWritten(m, comp[m.ch])]
      /\ fade' = None /\ UNCHANGED <<rack, scenes, events, parted>>
  <2>1. /\ OfStrip(m) /\ m \in Ask /\ m.ch \in Strip
        /\ console'.gain = IF m.type = "set-gain"
                           THEN [console.gain EXCEPT ![m.ch] = m.gain]
                           ELSE console.gain
        /\ console'.exists = IF m.type \in {"set-gain", "enable-compressor"}
                             THEN console.exists \cup {m.ch} ELSE console.exists
        /\ comp' = [comp EXCEPT ![m.ch] = CompWritten(m, comp[m.ch])]
        /\ fade' = None /\ UNCHANGED <<rack, scenes, events, parted>>
    BY SetStripDoes
  <2> HIDE DEF m
  <2> QED
    BY <2>1
<1>2. console.gain \in [Strip -> Level] /\ comp \in [Strip -> Level \cup {None}]
  BY DEF Shapes, CoreOK, Consoles, Comps
<1>3. ASSUME NEW c \in Strip PROVE Mirrored(c)'
  <2>1. Mirrored(c) /\ ~Fading(c)'
    BY <1>1 DEF StripsMirror, Fading
  <2>2. m.type \in StripTypes \cup FxTypes
    BY <1>1 DEF OfStrip
  <2>3. CASE Tracked(c)
    <3>1. ~Fading(c)
      <4>1. NoSetters(ctl) => m.type \notin StripTypes \cup FxTypes
        BY NoSettersTail DEF Shapes, PortOK
      <4> QED
        BY <2>2, <2>3, <4>1 DEF Tracked
    <3>2. Heading(c)' = Told(c, m, Heading(c))
      <4> DEFINE x == Heading(c)
      <4>1. x = [gain |-> console.gain[c], comp |-> comp[c]]
        BY <3>1 DEF Heading
      <4>2. Heading(c)' = [gain |-> console'.gain[c], comp |-> comp'[c]]
        BY <2>1 DEF Heading
      <4> HIDE DEF m, x
      <4>3. ASSUME m.ch = c PROVE Heading(c)' = Told(c, m, x)
        <5>1. console'.gain[c] = IF m.type = "set-gain" THEN m.gain ELSE console.gain[c]
          BY <1>1, <1>2, <4>3
        <5>2. comp'[c] = CompWritten(m, comp[c])
          BY <1>1, <1>2, <4>3
        <5> QED
          BY <1>1, <4>1, <4>2, <4>3, <5>1, <5>2 DEF Told
      <4>4. ASSUME m.ch # c PROVE Heading(c)' = Told(c, m, x)
        <5>1. console'.gain[c] = console.gain[c] /\ comp'[c] = comp[c]
          BY <1>1, <1>2, <4>4
        <5> QED
          BY <4>1, <4>2, <4>4, <5>1 DEF Told
      <4>5. Heading(c)' = Told(c, m, x)
        BY <4>3, <4>4
      <4> QED
        BY <4>5 DEF x
    <3>3. InStep(c, ctl', events', channels'[c], Told(c, m, Heading(c)))
      BY <1>1, <2>3, TailTracked DEF Tracked, Untold, store, Shapes
    <3> QED
      BY <2>1, <3>2, <3>3 DEF Mirrored, Tracked
  <2>4. CASE ~Tracked(c)
    <3>1. c \in console.exists /\ (parted \/ Awaited(c))
      BY <2>1, <2>4 DEF Mirrored
    <3>2. m.type # "get-params"
      BY <2>2 DEF StripTypes, FxTypes
    <3>3. Expected => Expected'
      BY <1>1, <3>2, StillExpected DEF Untold, Shapes
    <3> QED
      BY <1>1, <3>1, <3>3 DEF Mirrored, Awaited
  <2> QED
    BY <2>3, <2>4
<1>4. Grounds'
  <2> HIDE DEF m
  <2> QED
    BY <1>1 DEF Grounds, store, Existing, Saved
<1> QED
  BY <1>3, <1>4 DEF StripsMirror

\* One report more, about strips that exist.
LEMMA OneGrounded ==
  ASSUME PortOK, Grounds, NEW e, Existing(e), events' = events \o <<e>>
  PROVE  \A i \in 1..Len(events') : Existing(events'[i])
<1>1. events \in Seq(Answer \cup {e}) /\ e \in Answer \cup {e}
  BY SeqMonotonic DEF PortOK
<1> DEFINE f == events \o <<e>>
<1>2. /\ Len(events) \in Nat /\ Len(f) = Len(events) + 1 /\ f[Len(events) + 1] = e
      /\ \A i \in 1..Len(events) : f[i] = events[i]
  BY <1>1, OneMore
<1> HIDE DEF f
<1>3. \A i \in 1..Len(f) : i \in 1..Len(events) \/ i = Len(events) + 1
  BY <1>2
<1>4. \A i \in 1..Len(f) : Existing(f[i])
  BY <1>2, <1>3 DEF Grounds
<1> QED
  BY <1>4 DEF f

LEMMA SetFxMirrors ==
  ASSUME Shapes, Grounds, StripsMirror, ctl # <<>>, Len(events) < MaxQueue,
         ctl' = Tail(ctl), SetFx, UNCHANGED store
  PROVE  StripsMirror' /\ Grounds'
<1> DEFINE m == Head(ctl)
<1>1. m.type \in FxTypes /\ fade' = None /\ UNCHANGED <<console, comp, scenes, parted>>
  BY DEF SetFx, FxTypes
<1>2. events' = events \/ events' = events \o <<[type |-> "fx-error", pair |-> m.pair,
                                                slot |-> m.slot]>>
  BY DEF SetFx, Emit
<1>3. \A c : Untold(c)
  <2> DEFINE e == [type |-> "fx-error", pair |-> m.pair, slot |-> m.slot]
  <2>1. e.type # "console-params"
    OBVIOUS
  <2> HIDE DEF e
  <2> QED
    BY <1>2, <2>1 DEF Untold, Tells, e
<1>4. ASSUME NEW c \in Strip PROVE Mirrored(c)'
  <2>1. Mirrored(c) /\ ~Fading(c)'
    BY <1>1 DEF StripsMirror, Fading
  <2>2. ~OfStrip(m) /\ m.type # "get-params"
    BY <1>1 DEF OfStrip, StripTypes, FxTypes
  <2>3. CASE Fading(c)
    <3>1. ~Tracked(c)
      <4>1. NoSetters(ctl) => m.type \notin StripTypes \cup FxTypes
        BY NoSettersTail DEF Shapes, PortOK
      <4> QED
        BY <1>1, <2>3, <4>1 DEF Tracked
    <3>2. Expected => Expected'
      BY <1>3, <2>2, StillExpected DEF Shapes
    <3> QED
      BY <1>1, <2>1, <3>1, <3>2 DEF Mirrored, Awaited
  <2>4. CASE ~Fading(c)
    <3>1. Heading(c)' = Heading(c)
      BY <1>1, <2>1, <2>4 DEF Heading
    <3> HIDE DEF m
    <3> QED
      BY <1>1, <1>3, <2>1, <2>2, <3>1, PassedMirrored DEF Shapes, store, m
  <2> QED
    BY <2>3, <2>4
<1>5. Grounds'
  <2>1. \A i \in 1..Len(events') : Existing(events'[i])
    <3> DEFINE e == [type |-> "fx-error", pair |-> m.pair, slot |-> m.slot]
    <3>1. e.type # "console-params"
      OBVIOUS
    <3> HIDE DEF e
    <3>2. Existing(e)
      BY <3>1 DEF Existing
    <3> QED
      BY <1>2, <3>2, OneGrounded DEF e, Grounds, Shapes
  <2> QED
    BY <1>1, <2>1 DEF Grounds, store, Saved, Existing
<1> QED
  BY <1>4, <1>5 DEF StripsMirror

LEMMA SceneSaveMirrors ==
  ASSUME Shapes, Grounds, StripsMirror, ctl # <<>>, Len(events) < MaxQueue,
         ctl' = Tail(ctl), SceneSave, UNCHANGED store
  PROVE  StripsMirror' /\ Grounds'
<1> DEFINE n == next_scene_id
           e == [type |-> "scene-saved", id |-> n]
<1>1. /\ Head(ctl).type = "scene-save" /\ events' = events \o <<e>>
      /\ UNCHANGED <<console, rack, comp, fade, parted>>
  BY DEF SceneSave, Emit
<1>2. /\ n \in 1..MaxScene /\ scenes' = [scenes EXCEPT ![n] = ConsoleScene]
      /\ Saved' = Saved \cup {n}
  BY SceneSaveDoes
<1>3. e.type # "console-params"
  OBVIOUS
<1> HIDE DEF n, e
<1>4. \A c : Untold(c)
  BY <1>1, <1>3 DEF Untold, Tells
<1>5. ~OfStrip(Head(ctl)) /\ Head(ctl).type # "get-params"
  BY <1>1 DEF OfStrip, StripTypes
<1>6. ASSUME NEW c \in Strip PROVE Mirrored(c)'
  <2>1. Fading(c)' = Fading(c) /\ Heading(c)' = Heading(c)
    BY <1>1 DEF Fading, Heading
  <2>2. Mirrored(c)
    BY DEF StripsMirror
  <2> QED
    BY <1>1, <1>4, <1>5, <2>1, <2>2, PassedMirrored DEF Shapes, store
<1>7. Grounds'
  <2>1. \A i \in 1..Len(events') : Existing(events'[i])
    BY <1>1, <1>3, OneGrounded DEF Existing, Shapes
  <2>2. ConsoleScene.strips.covers = console.exists
    BY ConsoleSceneOK DEF Shapes
  <2>3. \A id \in Saved' : scenes'[id].strips.covers \subseteq console.exists
    <3> DEFINE x == ConsoleScene
    <3>1. x.strips.covers = console.exists /\ scenes' = [scenes EXCEPT ![n] = x]
      BY <1>2, <2>2
    <3>2. DOMAIN scenes = 1..MaxScene
      BY DEF Shapes, CoreOK
    <3> HIDE DEF x
    <3> QED
      BY <1>2, <3>1, <3>2 DEF Grounds
  <2> QED
    BY <1>1, <2>1, <2>3 DEF Grounds, store, Existing
<1> QED
  BY <1>6, <1>7 DEF StripsMirror

LEMMA NewFade ==
  ASSUME CoreOK, NEW scene \in PlainScenes, NEW dur \in Durations, NEW f,
         f = [from |-> ConsoleScene, to |-> scene, pos |-> 0, dur |-> dur]
  PROVE  f # None /\ f.to = scene
<1> DEFINE x == ConsoleScene
<1>1. x \in PlainScenes /\ dur \in Nat /\ 0 < dur
  BY ConsoleSceneOK, Constants
<1>2. f = [from |-> x, to |-> scene, pos |-> 0, dur |-> dur]
  OBVIOUS
<1> HIDE DEF x
<1>3. f \in PlainFades
  BY <1>1, <1>2 DEF PlainFades
<1> QED
  BY <1>2, <1>3, PlainIsFade

LEMMA SceneRecallMirrors ==
  ASSUME Shapes, Grounds, StripsMirror, ctl # <<>>, Len(events) < MaxQueue,
         ctl' = Tail(ctl), SceneRecall, UNCHANGED store
  PROVE  StripsMirror' /\ Grounds'
<1> DEFINE m == Head(ctl)
           scene == scenes[m.id]
           e == [type |-> "scene-recalled"]
<1>1. m \in Ask /\ m.type = "scene-recall" /\ m.id \in Saved
  BY CtlHead, AskTypes DEF SceneRecall, Shapes
<1>2. scene \in PlainScenes /\ scene.strips.covers \subseteq console.exists
  BY <1>1 DEF Shapes, CoreOK, Saved, Grounds
<1>3. events' = events \o <<e>> /\ UNCHANGED scenes
  BY DEF SceneRecall, Emit
<1>4. \/ ApplySceneInterp(scene, scene, 1, 1) /\ fade' = None /\ UNCHANGED parted
      \/ /\ fade' = [from |-> ConsoleScene, to |-> scene, pos |-> 0, dur |-> m.dur]
         /\ parted' = (parted \/ AnswersForAnother(scene))
         /\ UNCHANGED <<console, comp>> /\ m.dur # 0
  BY DEF SceneRecall
<1>5. e.type = "scene-recalled"
  OBVIOUS
<1> HIDE DEF m, scene, e
<1>6. Expected'
  <2>1. events \in Seq(Answer \cup {e}) /\ e \in Answer \cup {e}
    BY SeqMonotonic DEF Shapes, PortOK
  <2>2. OfType(events \o <<e>>, {"scene-recalled"}) # {}
    BY <1>5, <2>1, LastIsThere
  <2> QED
    BY <1>3, <2>2 DEF Expected, OfType
<1>7. \A c : Untold(c)
  BY <1>3, <1>5 DEF Untold, Tells
<1>8. ~OfStrip(Head(ctl)) /\ Head(ctl).type # "get-params"
  BY <1>1 DEF OfStrip, StripTypes, m
<1>9. \A i \in 1..Len(events') : Existing(events'[i])
  BY <1>3, <1>5, OneGrounded DEF Existing, Shapes
<1>10. CASE ApplySceneInterp(scene, scene, 1, 1) /\ fade' = None /\ UNCHANGED parted
  <2>1. At(1, 1)
    BY DEF At
  <2>2. console'.exists = console.exists
    BY <1>2, <1>10, <2>1, NoneMade DEF Shapes, CoreOK
  <2>3. ASSUME NEW c \in Strip, c \in console.exists PROVE Mirrored(c)'
    BY <1>6, <1>10, <2>2, <2>3 DEF Mirrored, Awaited
  <2>4. ASSUME NEW c \in Strip, c \notin console.exists PROVE Mirrored(c)'
    <3>1. ~Fading(c) /\ ~Fading(c)'
      BY <1>10, <2>4, Absent DEF Fading
    <3>2. c \notin scene.strips.covers
      BY <1>2, <2>4
    <3>3. console'.gain[c] = console.gain[c] /\ comp'[c] = comp[c]
      <4>1. c \notin Written(scene.strips, scene.strips, 1, 1)
        BY <3>2 DEF Written
      <4> QED
        BY <1>2, <1>10, <2>1, <3>2, <4>1, InterpPlain DEF Shapes, CoreOK
    <3>4. Heading(c)' = Heading(c)
      BY <3>1, <3>3 DEF Heading
    <3>5. Mirrored(c)
      BY DEF StripsMirror
    <3> QED
      BY <1>7, <1>8, <1>10, <2>2, <3>1, <3>4, <3>5, PassedMirrored DEF Shapes, store
  <2>5. Grounds'
    BY <1>3, <1>9, <1>10, <2>2 DEF Grounds, store, Saved, Existing
  <2> QED
    BY <2>3, <2>4, <2>5 DEF StripsMirror
<1>11. CASE /\ fade' = [from |-> ConsoleScene, to |-> scene, pos |-> 0, dur |-> m.dur]
            /\ parted' = (parted \/ AnswersForAnother(scene))
            /\ UNCHANGED <<console, comp>> /\ m.dur # 0
  <2>1. fade' # None /\ fade'.to = scene
    <3>1. m.dur \in Durations
      BY <1>1, <1>11, AskTypes
    <3> QED
      BY <1>2, <1>11, <3>1, NewFade DEF Shapes
  <2>2. ASSUME NEW c \in Strip PROVE Mirrored(c)'
    <3>1. Mirrored(c)
      BY DEF StripsMirror
    <3>2. CASE c \in scene.strips.covers
      BY <1>2, <1>6, <1>11, <2>1, <3>2 DEF Mirrored, Awaited, Fading
    <3>3. CASE c \in console.exists /\ parted'
      BY <1>11, <3>3 DEF Mirrored
    <3>4. CASE c \notin scene.strips.covers /\ ~(c \in console.exists /\ parted')
      <4>1. ~Fading(c)'
        BY <2>1, <3>4 DEF Fading
      <4>2. ~Fading(c) /\ Tracked(c)
        <5>1. CASE c \notin console.exists
          BY <3>1, <5>1, Absent DEF Mirrored
        <5>2. CASE c \in console.exists
          <6>1. ~parted /\ ~AnswersForAnother(scene)
            BY <1>11, <3>4, <5>2
          <6>2. ~(console.exists \subseteq scene.strips.covers)
            BY <3>4, <5>2
          <6>3. fade = None /\ ~Expected
            BY <6>1, <6>2 DEF AnswersForAnother, Expected
          <6> QED
            BY <3>1, <6>1, <6>3 DEF Mirrored, Awaited, Fading
        <5> QED
          BY <5>1, <5>2
      <4>3. Heading(c)' = Heading(c)
        BY <1>11, <4>1, <4>2 DEF Heading
      <4>4. InStep(c, ctl', events', channels'[c], Told(c, Head(ctl), Heading(c)))
        BY <1>7, <4>2, TailTracked DEF Tracked, Shapes, store
      <4>5. Told(c, Head(ctl), Heading(c)) = Heading(c)
        BY <1>8 DEF Told
      <4> QED
        BY <4>1, <4>3, <4>4, <4>5 DEF Mirrored, Tracked
    <3> QED
      BY <3>2, <3>3, <3>4
  <2>3. Grounds'
    BY <1>2, <1>3, <1>9, <1>11, <2>1 DEF Grounds, store, Saved, Existing
  <2> QED
    BY <2>2, <2>3 DEF StripsMirror
<1> QED
  BY <1>4, <1>10, <1>11

LEMMA GetParamsMirrors ==
  ASSUME Shapes, Grounds, StripsMirror, ctl # <<>>, Len(events) < MaxQueue,
         ctl' = Tail(ctl), GetParams, UNCHANGED store
  PROVE  StripsMirror' /\ Grounds'
<1> DEFINE scene == IF fade = None THEN ConsoleScene ELSE fade.to
           e == ConsoleParams(scene)
           behind == OfType(Tail(ctl), {"scene-save", "scene-recall", "get-params"})
<1>1. /\ Head(ctl).type = "get-params" /\ events' = events \o <<e>> /\ UNCHANGED core
      /\ parted' = \/ DOMAIN Tail(ctl) \ behind # {}
                   \/ TellsOfOtherChains(scene)
                   \/ parted /\ ~(console.exists \subseteq scene.strips.covers)
  BY DEF GetParams, Emit
<1>2. /\ scene \in PlainScenes
      /\ fade = None => scene.strips.covers = console.exists
      /\ scene.strips.covers \subseteq console.exists
  BY ConsoleSceneOK DEF Shapes, CoreOK, PlainFades, Grounds
<1>3. /\ e.type = "console-params" /\ DOMAIN e.strip = scene.strips.covers
      /\ \A c \in scene.strips.covers :
           /\ e.strip[c].gain = scene.strips.strip[c].gain
           /\ e.strip[c].comp_on = (scene.comp[c] # None)
           /\ e.strip[c].comp = IF scene.comp[c] = None THEN Default ELSE scene.comp[c]
  <2> HIDE DEF scene
  <2> QED
    BY DocumentIs
<1>4. ASSUME NEW c \in scene.strips.covers PROVE Agrees(Heading(c), e.strip[c], c)
  <2> DEFINE x == Heading(c)
             y == scene.comp[c]
  <2>1. c \in Strip
    BY <1>2 DEF PlainScenes, Strips
  <2>2. x.gain = scene.strips.strip[c].gain /\ x.comp = y
    <3>1. CASE fade = None
      BY <2>1, <3>1, ConsoleSceneOK DEF Heading, Fading, Shapes
    <3>2. CASE fade # None
      BY <3>2 DEF Heading, Fading
    <3> QED
      BY <3>1, <3>2
  <2> HIDE DEF x, y, e, scene
  <2>3. x.gain = e.strip[c].gain
    BY <1>3, <2>2
  <2>4. e.strip[c].comp_on = (x.comp # None)
    BY <1>3, <2>2, Zenon DEF y
  <2>5. x.comp \in {e.strip[c].comp, None}
    BY <1>3, <2>2 DEF y
  <2> QED
    BY <2>3, <2>4, <2>5, Zenon DEF Agrees, x
<1>5. \A c : Tells(e, c) <=> c \in scene.strips.covers
  BY <1>3 DEF Tells
<1>6. DOMAIN Tail(ctl) \ behind = {} => NoSetters(Tail(ctl))
  <2>1. DOMAIN Tail(ctl) = 1..Len(Tail(ctl))
    BY CtlHead, LenProperties DEF Shapes
  <2> SUFFICES ASSUME DOMAIN Tail(ctl) \ behind = {}, NEW i \in 1..Len(Tail(ctl))
               PROVE  Tail(ctl)[i].type \notin StripTypes \cup FxTypes
    BY DEF NoSetters
  <2>2. Tail(ctl)[i].type \in {"scene-save", "scene-recall", "get-params"}
    BY <2>1 DEF OfType
  <2> QED
    BY <2>2 DEF StripTypes, FxTypes
<1>7. \A c : Fading(c)' = Fading(c) /\ Heading(c)' = Heading(c)
  BY <1>1 DEF Fading, Heading, core
<1> HIDE DEF e, behind
<1>8. ASSUME NEW c \in Strip PROVE Mirrored(c)'
  <2>1. Mirrored(c)
    BY DEF StripsMirror
  <2>2. CASE c \in console.exists /\ parted'
    BY <1>1, <2>2 DEF Mirrored, core
  <2>3. CASE c \in scene.strips.covers /\ ~parted'
    <3>1. NoSetters(Tail(ctl))
      BY <1>1, <1>6, <2>3 DEF behind
    <3>2. events \in Seq(Answer \cup {e}) /\ e \in Answer \cup {e}
      BY SeqMonotonic DEF Shapes, PortOK
    <3>3. Len(Tail(ctl)) \in Nat
      BY CtlHead, LenProperties DEF Shapes
    <3>4. InStep(c, Tail(ctl), events \o <<e>>, channels[c], Heading(c))
      BY <1>4, <1>5, <2>3, <3>1, <3>2, <3>3, InStepDocument
    <3>5. NoSetters(ctl') /\ events' = events \o <<e>>
      BY <1>1, <3>1
    <3> QED
      BY <1>7, <3>4, <3>5 DEF Mirrored, Tracked, store
  <2>4. CASE c \notin scene.strips.covers /\ ~(c \in console.exists /\ parted')
    <3>1. Tracked(c)
      <4>1. CASE c \notin console.exists
        BY <2>1, <4>1 DEF Mirrored
      <4>2. CASE c \in console.exists
        <5>1. ~parted
          BY <1>1, <2>4, <4>2
        <5>2. fade # None /\ ~Fading(c)
          BY <1>2, <2>4, <4>2 DEF Fading
        <5> QED
          BY <2>1, <5>1, <5>2 DEF Mirrored, Awaited
      <4> QED
        BY <4>1, <4>2
    <3>2. Untold(c)
      BY <1>1, <1>5, <2>4 DEF Untold
    <3>3. InStep(c, ctl', events', channels'[c], Told(c, Head(ctl), Heading(c)))
      BY <3>1, <3>2, TailTracked DEF Tracked, Shapes, store
    <3>4. Told(c, Head(ctl), Heading(c)) = Heading(c)
      BY <1>1 DEF Told, OfStrip, StripTypes
    <3>5. Fading(c) => NoSetters(ctl')
      BY <3>1, NoSettersTail DEF Tracked, Shapes, PortOK
    <3> QED
      BY <1>7, <3>3, <3>4, <3>5 DEF Mirrored, Tracked
  <2> QED
    BY <1>2, <2>2, <2>3, <2>4
<1>9. Grounds'
  <2>1. Existing(e)
    BY <1>2, <1>3 DEF Existing
  <2>2. \A i \in 1..Len(events') : Existing(events'[i])
    BY <1>1, <2>1, OneGrounded DEF Shapes
  <2> QED
    BY <1>1, <2>2 DEF Grounds, store, core, Saved, Existing
<1> QED
  BY <1>8, <1>9 DEF StripsMirror
--------------------------------------------------------------------------------
(* Fades, streams and replies, and the strips *)

\* What a recall to one scene's end leaves on a strip.
LEMMA Landed ==
  ASSUME console \in Consoles, comp \in Comps, NEW scene \in PlainScenes,
         ApplySceneInterp(scene, scene, 1, 1), NEW c \in scene.strips.covers
  PROVE  console'.gain[c] = scene.strips.strip[c].gain /\ comp'[c] = scene.comp[c]
<1>1. At(1, 1)
  BY DEF At
<1> DEFINE W == Written(scene.strips, scene.strips, 1, 1)
           g == scene.strips.strip[c].gain
           x == scene.comp[c]
<1>2. c \in Strip /\ g \in Level /\ x \in Level \cup {None}
  BY DEF PlainScenes, Strips, PlainStrip, Comps
<1>3. c \in W
  BY DEF Written, K!Skipped
<1>4. console'.gain[c] = K!Lerp(g, g, 1, 1) /\ comp'[c] = CompAt(x, x, 1, 1)
  <2>1. /\ \A d \in Strip : console'.gain[d] =
             IF d \in W
             THEN K!Lerp(scene.strips.strip[d].gain, scene.strips.strip[d].gain, 1, 1)
             ELSE console.gain[d]
        /\ \A d \in Strip : comp'[d] =
             IF d \in scene.strips.covers THEN CompAt(scene.comp[d], scene.comp[d], 1, 1)
             ELSE comp[d]
    BY <1>1, InterpPlain
  <2> HIDE DEF W
  <2> QED
    BY <1>2, <1>3, <2>1
<1> HIDE DEF g, x
<1>5. \A a \in Level : K!Lerp(a, a, 1, 1) = a
  BY DEF K!Lerp, Level
<1>6. CompAt(x, x, 1, 1) = x
  BY <1>2, <1>5, Constants DEF CompAt, K!Snap, Level
<1> QED
  BY <1>2, <1>4, <1>5, <1>6 DEF g, x

LEMMA FadeBlockMirrors ==
  ASSUME Shapes, Grounds, StripsMirror, FadeBlock
  PROVE  StripsMirror' /\ Grounds'
<1>1. /\ fade # None /\ fade.from \in PlainScenes /\ fade.to \in PlainScenes
      /\ FadeStep(fade.from, fade.to)
      /\ UNCHANGED <<rack, scenes, store, ctl, events>>
  BY FadeBlockDoes
<1>2. UNCHANGED parted
  BY DEF FadeBlock
<1> DEFINE from == fade.from
           to == fade.to
<1>3. to.strips.covers \subseteq console.exists /\ console \in Consoles /\ comp \in Comps
  BY <1>1 DEF Grounds, Shapes, CoreOK
<1>4. \/ ApplySceneInterp(to, to, 1, 1) /\ fade' = None
      \/ /\ \E pos, dur : At(pos, dur) /\ ApplySceneInterp(from, to, pos, dur)
         /\ fade' \in PlainFades /\ fade'.to = to
  BY <1>1 DEF FadeStep
<1>5. At(1, 1)
  BY DEF At
<1> HIDE DEF from
<1>6. PICK f, pos, dur : f \in PlainScenes /\ At(pos, dur) /\ ApplySceneInterp(f, to, pos, dur)
  BY <1>1, <1>4, <1>5 DEF from
<1>7. console'.exists = console.exists
  BY <1>1, <1>3, <1>6, NoneMade
<1>8. ASSUME NEW c \in Strip, ~Fading(c)
      PROVE  console'.gain[c] = console.gain[c] /\ comp'[c] = comp[c]
  <2>1. c \notin to.strips.covers
    BY <1>1, <1>8 DEF Fading
  <2>2. c \notin Written(f.strips, to.strips, pos, dur)
    BY <2>1 DEF Written
  <2> QED
    BY <1>1, <1>3, <1>6, <2>1, <2>2, InterpPlain
<1>9. \A c : Fading(c)' => Fading(c)
  BY <1>1, <1>4 DEF Fading
<1>10. \A c : fade' # None => Fading(c)' = Fading(c)
  BY <1>1, <1>4 DEF Fading
<1>11. ASSUME NEW c \in Strip PROVE Heading(c)' = Heading(c)
  <2>1. CASE ~Fading(c)
    BY <1>8, <1>9, <2>1 DEF Heading
  <2>2. CASE Fading(c) /\ fade' # None
    BY <1>1, <1>4, <1>10, <2>2 DEF Heading
  <2>3. CASE Fading(c) /\ fade' = None
    <3>1. None \notin PlainFades
      BY PlainIsFade
    <3>2. ApplySceneInterp(to, to, 1, 1) /\ c \in to.strips.covers
      BY <1>4, <2>3, <3>1 DEF Fading
    <3>3. console'.gain[c] = to.strips.strip[c].gain /\ comp'[c] = to.comp[c]
      BY <1>1, <1>3, <3>2, Landed
    <3> QED
      BY <2>3, <3>3 DEF Heading, Fading
  <2> QED
    BY <2>1, <2>2, <2>3
<1>12. ASSUME NEW c \in Strip PROVE Mirrored(c)'
  <2>1. Mirrored(c)
    BY DEF StripsMirror
  <2>2. Tracked(c) => Tracked(c)'
    BY <1>1, <1>9, <1>11 DEF Tracked, store
  <2>3. Awaited(c) => Awaited(c)'
    BY <1>1, <1>10 DEF Awaited, Expected, OfType
  <2> QED
    BY <1>2, <1>7, <2>1, <2>2, <2>3 DEF Mirrored
<1>13. Grounds'
  <2>1. fade' # None => fade'.to.strips.covers \subseteq console'.exists
    BY <1>3, <1>4, <1>7
  <2> HIDE DEF to
  <2> QED
    BY <1>1, <1>7, <2>1 DEF Grounds, store, Saved, Existing
<1> QED
  BY <1>12, <1>13 DEF StripsMirror

LEMMA StreamMirrors ==
  ASSUME Shapes, Grounds, StripsMirror, NEW d \in Strip, StreamArrives(d)
  PROVE  StripsMirror' /\ Grounds'
<1>1. /\ console.exists \subseteq console'.exists /\ console'.gain = console.gain
      /\ UNCHANGED <<rack, comp, scenes, fade, store, ctl, events, parted>>
  BY EnsurePlain DEF Shapes, CoreOK, StreamArrives
<1>2. ASSUME NEW c \in Strip PROVE Mirrored(c)'
  <2>1. Mirrored(c) /\ Fading(c)' = Fading(c) /\ Heading(c)' = Heading(c)
    BY <1>1 DEF StripsMirror, Fading, Heading
  <2>2. Tracked(c) => Tracked(c)'
    BY <1>1, <2>1 DEF Tracked, store
  <2>3. Awaited(c) => Awaited(c)'
    BY <1>1, <2>1 DEF Awaited, Expected, OfType
  <2> QED
    BY <1>1, <2>1, <2>2, <2>3 DEF Mirrored
<1>3. Grounds'
  BY <1>1 DEF Grounds, store, Saved, Existing
<1> QED
  BY <1>2, <1>3 DEF StripsMirror

\* A reply is taken off the queue and, if it is a document, put on the controls.
LEMMA ReplyMirrored ==
  ASSUME PortOK, events # <<>>, events' = Tail(events), UNCHANGED <<core, parted>>, NEW c,
         channels'[c] = IF Tells(Head(events), c) THEN Head(events).strip[c] ELSE channels[c],
         ctl' = ctl, Head(events).type # "scene-recalled", Mirrored(c)
  PROVE  Mirrored(c)'
<1>1. Fading(c)' = Fading(c) /\ Heading(c)' = Heading(c)
  BY DEF Fading, Heading, core
<1>2. Tracked(c) => Tracked(c)'
  BY <1>1, InStepReply DEF Tracked, PortOK
<1>3. ASSUME Expected PROVE Expected'
  <2>1. Head(events).type \notin {"scene-recalled"} /\ events \in Seq(Answer)
    BY DEF PortOK
  <2>2. OfType(events, {"scene-recalled"}) # {}
          => OfType(Tail(events), {"scene-recalled"}) # {}
    BY <2>1, StillThere
  <2>3. OfType(ctl, {"get-params"}) # {}
          => OfType(ctl', {"get-params"}) # {}
    OBVIOUS
  <2>4. OfType(ctl', {"get-params"}) # {} \/ OfType(Tail(events), {"scene-recalled"}) # {}
    BY <1>3, <2>2, <2>3 DEF Expected
  <2> QED
    BY <2>4 DEF Expected, OfType
<1> QED
  BY <1>1, <1>2, <1>3 DEF Mirrored, Awaited, core

LEMMA SceneRecalledMirrored ==
  ASSUME PortOK, events # <<>>, events' = Tail(events), UNCHANGED <<core, parted, channels>>,
         SceneRecalled, NEW c, Mirrored(c)
  PROVE  Mirrored(c)'
<1> DEFINE m == [type |-> "get-params"]
<1>1. Head(events).type = "scene-recalled" /\ ctl' = ctl \o <<m>>
  BY ConcatProperties DEF SceneRecalled, PortOK
<1>2. m.type = "get-params"
  OBVIOUS
<1> HIDE DEF m
<1>3. ctl \in Seq(Ask \cup {m}) /\ m \in Ask \cup {m}
  BY SeqMonotonic DEF PortOK
<1>4. Fading(c)' = Fading(c) /\ Heading(c)' = Heading(c)
  BY DEF Fading, Heading, core
<1>5. CASE Tracked(c)
  <2>1. InStep(c, ctl, Tail(events), channels[c], Heading(c))
    <3>1. ~Tells(Head(events), c)
      BY <1>1 DEF Tells
    <3> QED
      BY <1>5, <3>1, InStepReply DEF Tracked, PortOK
  <2>2. InStep(c, ctl \o <<m>>, Tail(events), channels[c], Heading(c))
    BY <1>2, <1>3, <2>1, InStepAsk DEF OfStrip, StripTypes
  <2>3. Fading(c) => NoSetters(ctl \o <<m>>)
    BY <1>2, <1>3, <1>5, NoSettersMore DEF Tracked, StripTypes, FxTypes
  <2> QED
    BY <1>1, <1>4, <2>2, <2>3 DEF Mirrored, Tracked
<1>6. CASE ~Tracked(c)
  <2>1. OfType(ctl \o <<m>>, {"get-params"}) # {}
    BY <1>2, <1>3, LastIsThere
  <2> QED
    BY <1>1, <1>4, <1>6, <2>1 DEF Mirrored, Awaited, Expected, OfType, core
<1> QED
  BY <1>5, <1>6

LEMMA FewerGrounded ==
  ASSUME PortOK, Grounds, events # <<>>, events' = Tail(events), UNCHANGED core,
         \A t \in Pair : stereo'[t] = channels'[2 * t]
  PROVE  Grounds'
<1>1. /\ Len(events) \in Nat /\ Len(Tail(events)) = Len(events) - 1
      /\ \A i \in 1..Len(Tail(events)) : Tail(events)[i] = events[i + 1]
  BY OneLess DEF PortOK
<1>2. \A i \in 1..Len(Tail(events)) : i + 1 \in 1..Len(events)
  BY <1>1
<1>3. \A i \in 1..Len(events') : Existing(events'[i])
  BY <1>1, <1>2 DEF Grounds
<1> QED
  BY <1>3 DEF Grounds, core, Saved, Existing

LEMMA ReplyMirrors ==
  ASSUME Shapes, Grounds, StripsMirror, Reply
  PROVE  StripsMirror' /\ Grounds'
<1>1. events # <<>> /\ events' = Tail(events) /\ UNCHANGED <<core, parted>>
  BY DEF Reply
<1>2. CASE \/ SceneSaved \/ ApplyFxError
  <2>1. /\ Head(events).type \in {"scene-saved", "fx-error"}
        /\ UNCHANGED <<channels, stereo, ctl>>
    BY <1>2 DEF SceneSaved, ApplyFxError
  <2>2. \A c : ~Tells(Head(events), c)
    BY <2>1 DEF Tells
  <2>3. \A c \in Strip : Mirrored(c)'
    BY <1>1, <2>1, <2>2, ReplyMirrored DEF Shapes, StripsMirror
  <2>4. Grounds'
    BY <1>1, <2>1, FewerGrounded DEF Shapes, Grounds
  <2> QED
    BY <2>3, <2>4 DEF StripsMirror
<1>3. CASE SceneRecalled
  <2>1. UNCHANGED <<channels, stereo>>
    BY <1>3 DEF SceneRecalled, store
  <2>2. \A c \in Strip : Mirrored(c)'
    BY <1>1, <1>3, <2>1, SceneRecalledMirrored DEF Shapes, StripsMirror
  <2>3. Grounds'
    BY <1>1, <2>1, FewerGrounded DEF Shapes, Grounds
  <2> QED
    BY <2>2, <2>3 DEF StripsMirror
<1>4. CASE ApplyConsoleParams
  <2> DEFINE m == Head(events)
  <2>1. /\ m.type = "console-params" /\ channels' = Over(m.strip, channels)
        /\ stereo' = [t \in Pair |-> channels'[2 * t]] /\ ctl' = ctl
    BY <1>4 DEF ApplyConsoleParams
  <2>2. DOMAIN channels = Strip
    BY DEF Shapes, StoreOK
  <2> HIDE DEF m
  <2>3. \A c \in Strip : channels'[c] = IF Tells(m, c) THEN m.strip[c] ELSE channels[c]
    BY <2>1, <2>2 DEF Over, Tells
  <2>4. \A c \in Strip : Mirrored(c)'
    BY <1>1, <2>1, <2>3, ReplyMirrored DEF Shapes, StripsMirror, m
  <2>5. Grounds'
    BY <1>1, <2>1, FewerGrounded DEF Shapes
  <2> QED
    BY <2>4, <2>5 DEF StripsMirror
<1> QED
  BY <1>2, <1>3, <1>4 DEF Reply

LEMMA InitMirrors == Init => StripsMirror /\ Grounds
<1> SUFFICES ASSUME Init PROVE StripsMirror /\ Grounds
  OBVIOUS
<1>1. ctl = <<>> /\ events = <<>> /\ Len(events) = 0
  BY DEF Init
<1>2. fade = None /\ \A id \in Saved : FALSE
  BY SameStrips DEF Init, K!Init, F!Init, Saved
<1>3. ASSUME NEW c \in Strip PROVE Tracked(c)
  <2> DEFINE x == Heading(c)
  <2>1. channels[c] = StripView
    BY <1>3 DEF Init
  <2>2. x.gain = InitialGain /\ x.comp = None
    <3>1. console.gain[c] = InitialGain
      BY <1>3, SameStrips DEF Init, K!Init, K!InitConsole
    <3> QED
      BY <1>2, <1>3, <3>1 DEF Heading, Fading, Init
  <2> HIDE DEF x
  <2>3. Agrees(x, StripView, c)
    <3>1. (x.comp # None) = FALSE
      BY <2>2
    <3>2. x.gain = StripView.gain /\ StripView.comp_on = FALSE
      BY <2>2 DEF StripView
    <3>3. StripView.comp_on = (x.comp # None)
      BY <3>1, <3>2, Zenon
    <3> QED
      BY <2>2, <3>2, <3>3 DEF Agrees
  <2>4. Run(c, ctl, x, x)
    BY <1>1, RunNone
  <2>5. Shown(c, events, channels[c], StripView)
    BY <1>1, <2>1 DEF Shown
  <2> QED
    BY <1>2, <2>3, <2>4, <2>5 DEF Tracked, InStep, Fading, x
<1>4. Grounds
  <2>1. \A t \in Pair : stereo[t] = channels[2 * t]
    BY Pairing DEF Init
  <2> QED
    BY <1>1, <1>2, <2>1 DEF Grounds
<1> QED
  BY <1>3, <1>4 DEF StripsMirror, Mirrored

LEMMA NextMirrors == Shapes /\ Grounds /\ StripsMirror /\ [Next]_vars => StripsMirror' /\ Grounds'
<1> SUFFICES ASSUME Shapes, Grounds, StripsMirror, [Next]_vars
             PROVE  StripsMirror' /\ Grounds'
  OBVIOUS
<1>1. CASE User
  BY <1>1, UserMirrors
<1>2. CASE Worklet
  <2>1. /\ ctl # <<>> /\ Len(events) < MaxQueue /\ ctl' = Tail(ctl) /\ UNCHANGED store
        /\ SetStrip \/ SetFx \/ SceneSave \/ SceneRecall \/ GetParams
    BY <1>2 DEF Worklet
  <2> QED
    BY <2>1, SetStripMirrors, SetFxMirrors, SceneSaveMirrors, SceneRecallMirrors,
       GetParamsMirrors
<1>3. CASE FadeBlock
  BY <1>3, FadeBlockMirrors
<1>4. ASSUME NEW c \in Strip, StreamArrives(c) PROVE StripsMirror' /\ Grounds'
  BY <1>4, StreamMirrors
<1>5. CASE Reply
  BY <1>5, ReplyMirrors
<1>6. CASE UNCHANGED vars
  <2>1. UNCHANGED <<store, core, ctl, events, parted>>
    BY <1>6 DEF vars
  <2>2. \A c : /\ Fading(c)' = Fading(c) /\ Heading(c)' = Heading(c)
    BY <2>1 DEF Fading, Heading, core
  <2>3. Expected => Expected'
    BY <2>1 DEF Expected, OfType
  <2>4. \A c : Mirrored(c) => Mirrored(c)'
    BY <2>1, <2>2, <2>3 DEF Mirrored, Tracked, Awaited, store, core
  <2>5. Grounds'
    BY <2>1 DEF Grounds, store, core, Saved, Existing
  <2> QED
    BY <2>4, <2>5 DEF StripsMirror
<1> QED
  BY <1>1, <1>2, <1>3, <1>4, <1>5, <1>6 DEF Next

\* With nothing under way, the controls show the strips.
LEMMA StripsShown ==
  ASSUME Shapes, Grounds, StripsMirror, ctl = <<>>, events = <<>>, fade = None, ~parted
  PROVE  /\ \A c \in Strip : StripShown(channels[c], c)
         /\ \A t \in Pair : /\ StripShown(stereo[t], 2 * t)
                            /\ comp[2 * t] \in {stereo[t].comp, None}
<1>1. ~Expected
  BY DEF Expected, OfType
<1>2. ASSUME NEW c \in Strip
      PROVE  /\ StripShown(channels[c], c)
             /\ c \in Lefts => comp[c] \in {channels[c].comp, None}
  <2>1. Tracked(c)
    BY <1>1 DEF StripsMirror, Mirrored, Awaited
  <2>2. PICK w, y : /\ Shown(c, events, channels[c], w) /\ Run(c, ctl, Heading(c), y)
                    /\ Agrees(y, w, c)
    BY <2>1 DEF Tracked, InStep
  <2>3. w = channels[c]
    BY <2>2 DEF Shown
  <2>4. y = Heading(c)
    BY <2>2, RunNone
  <2>5. Heading(c).gain = console.gain[c] /\ Heading(c).comp = comp[c]
    BY DEF Heading, Fading
  <2>6. /\ console.gain[c] = channels[c].gain
        /\ channels[c].comp_on = (comp[c] # None)
        /\ c \in Lefts => comp[c] \in {channels[c].comp, None}
    BY <2>2, <2>3, <2>4, <2>5, Zenon DEF Agrees
  <2>7. StripShown(channels[c], c)
    BY <2>6, Zenon DEF StripShown
  <2> QED
    BY <2>6, <2>7
<1>3. ASSUME NEW t \in Pair
      PROVE  StripShown(stereo[t], 2 * t) /\ comp[2 * t] \in {stereo[t].comp, None}
  <2>1. 2 * t \in Strip /\ 2 * t \in Lefts /\ stereo[t] = channels[2 * t]
    BY Pairing, TwoSides DEF Grounds
  <2> QED
    BY <1>2, <2>1
<1> QED
  BY <1>2, <1>3
--------------------------------------------------------------------------------
(* What the messages under way will make of the chain of a pair *)

\* m is about slot s of pair p; a move is about all the slots.
Touches(m, p, s) ==
  m.type \in FxTypes /\ m.pair = p /\ (m.type # "move-fx-slot" => m.slot = s)

Sets(m, p, s) == m.type = "set-fx-slot" /\ m.pair = p /\ m.slot = s

Turns(m, p, s) == m.type = "set-fx-param" /\ m.pair = p /\ m.slot = s

Fresh(fx) ==
  IF fx = None THEN NoFx ELSE [fx |-> fx, enabled |-> FALSE, params |-> F!Default]

\* Slot s of a row x of pair p once the worklet has accepted m.
SlotAfter(p, s, m, x) ==
  IF ~Touches(m, p, s) THEN x[s]
  ELSE CASE m.type = "set-fx-slot" -> Fresh(m.fx)
         [] m.type = "set-fx-enabled" ->
              IF x[s].fx = None THEN x[s] ELSE [x[s] EXCEPT !.enabled = m.on]
         [] m.type = "set-fx-param" ->
              IF x[s].fx = None THEN x[s] ELSE [x[s] EXCEPT !.params = m.value]
         [] OTHER -> x[F!MovedFrom(m.from, m.to, s)]

RowAfter(p, m, x) == [s \in Slot |-> SlotAfter(p, s, m, x)]

\* r[i] is the row after i of the messages q.
RowRun(p, q, x, r) ==
  r[0] = x /\ \A i \in 1..Len(q) : r[i] = RowAfter(p, q[i], r[i - 1])

IsRefusal(e, p, s) == e.type = "fx-error" /\ e.pair = p /\ e.slot = s

Refused(ev, p, s) == \E i \in 1..Len(ev) : IsRefusal(ev[i], p, s)

Once(ev, p, s) ==
  \A i, j \in 1..Len(ev) : IsRefusal(ev[i], p, s) /\ IsRefusal(ev[j], p, s) => i = j

\* The snapshot kept for slot s would bring back w.
RollsBack(held, s, w) == held[s] # None /\ DOMAIN held[s] = {s} /\ held[s][s] = w

UntouchedAfter(n, q, p, s) == \A j \in 1..Len(q) : j > n => ~Touches(q[j], p, s)

\* A refusal on its way finds the slot's snapshot as good as it was.
RowShown(p, q, ev, shown, held, r) ==
  \A s \in Slot :
    IF Refused(ev, p, s)
    THEN RollsBack(held, s, r[Len(q)][s]) /\ Once(ev, p, s) /\ UntouchedAfter(0, q, p, s)
    ELSE r[Len(q)][s] = shown[s]

\* A set that may yet be refused has the slot's snapshot to go back to.
SetsHeld(p, q, held, r) ==
  \A i \in 1..Len(q), s \in Slot : Sets(q[i], p, s) =>
    RollsBack(held, s, r[i - 1][s]) /\ UntouchedAfter(i, q, p, s)

\* A parameter finds the effect it was turned on, so that it is not refused.
ParamsFit(p, q, r) ==
  \A i \in 1..Len(q), s \in Slot : Turns(q[i], p, s) => r[i - 1][s].fx = q[i].fx

RowInStep(p, q, ev, shown, held, x) ==
  \E r : /\ RowRun(p, q, x, r) /\ RowShown(p, q, ev, shown, held, r)
         /\ SetsHeld(p, q, held, r) /\ ParamsFit(p, q, r)

LEMMA SetTouches ==
  ASSUME NEW m, NEW p, NEW s, Sets(m, p, s)
  PROVE  \A t : Touches(m, p, t) <=> t = s
BY DEF Sets, Touches, FxTypes

LEMMA TurnTouches ==
  ASSUME NEW m, NEW p, NEW s, Turns(m, p, s)
  PROVE  Touches(m, p, s)
BY DEF Turns, Touches, FxTypes

LEMMA UntouchedTail ==
  ASSUME NEW S, NEW q \in Seq(S), q # <<>>, NEW n \in Nat, NEW p, NEW s,
         UntouchedAfter(n + 1, q, p, s)
  PROVE  UntouchedAfter(n, Tail(q), p, s)
<1>1. /\ Len(q) \in Nat /\ Len(Tail(q)) = Len(q) - 1
      /\ \A i \in 1..Len(Tail(q)) : Tail(q)[i] = q[i + 1]
  BY OneLess
<1> SUFFICES ASSUME NEW j \in 1..Len(Tail(q)), j > n PROVE ~Touches(Tail(q)[j], p, s)
  BY DEF UntouchedAfter
<1>2. j + 1 \in 1..Len(q) /\ j + 1 > n + 1 /\ Tail(q)[j] = q[j + 1]
  BY <1>1
<1> QED
  BY <1>2 DEF UntouchedAfter

\* A parameter at the head of the queue finds its effect.
LEMMA HeadFits ==
  ASSUME NEW S, NEW q \in Seq(S), q # <<>>, NEW p, NEW s \in Slot, Turns(Head(q), p, s),
         NEW ev, NEW shown, NEW held, NEW x, RowInStep(p, q, ev, shown, held, x)
  PROVE  x[s].fx = Head(q).fx
<1>1. PICK r : RowRun(p, q, x, r) /\ ParamsFit(p, q, r)
  BY DEF RowInStep
<1>2. Head(q) = q[1] /\ 1 \in 1..Len(q)
  BY OneLess
<1>3. r[1 - 1][s].fx = q[1].fx
  BY <1>1, <1>2 DEF ParamsFit
<1> QED
  BY <1>1, <1>2, <1>3 DEF RowRun

\* The head is accepted.
LEMMA RowTail ==
  ASSUME NEW S, NEW q \in Seq(S), q # <<>>, NEW p, NEW ev, NEW shown, NEW held, NEW x,
         RowInStep(p, q, ev, shown, held, x)
  PROVE  RowInStep(p, Tail(q), ev, shown, held, RowAfter(p, Head(q), x))
<1>1. PICK r : /\ RowRun(p, q, x, r) /\ RowShown(p, q, ev, shown, held, r)
               /\ SetsHeld(p, q, held, r) /\ ParamsFit(p, q, r)
  BY DEF RowInStep
<1> DEFINE n == Len(Tail(q))
           t == [i \in 0..n |-> r[i + 1]]
<1>2. /\ Head(q) = q[1] /\ Len(q) \in Nat /\ Len(q) >= 1 /\ n = Len(q) - 1
      /\ \A i \in 1..n : Tail(q)[i] = q[i + 1]
  BY OneLess
<1>3. \A i \in 1..n : i + 1 \in 1..Len(q) /\ (i + 1) - 1 = i /\ t[i] = r[i + 1] /\ t[i - 1] = r[i]
  BY <1>2
<1>4. t[0] = r[1] /\ t[n] = r[Len(q)] /\ 1 \in 1..Len(q) /\ n \in Nat
  BY <1>2
<1> HIDE DEF t
<1>5. RowRun(p, Tail(q), RowAfter(p, Head(q), x), t)
  <2>1. r[0] = x /\ r[1] = RowAfter(p, q[1], r[1 - 1])
    BY <1>1, <1>4 DEF RowRun
  <2>2. t[0] = RowAfter(p, Head(q), x)
    BY <1>2, <1>4, <2>1
  <2>3. \A i \in 1..n : t[i] = RowAfter(p, Tail(q)[i], t[i - 1])
    BY <1>1, <1>2, <1>3 DEF RowRun
  <2> QED
    BY <2>2, <2>3 DEF RowRun
<1>6. RowShown(p, Tail(q), ev, shown, held, t)
  <2>1. \A s : UntouchedAfter(0, q, p, s) => UntouchedAfter(0 + 1, q, p, s)
    BY <1>2 DEF UntouchedAfter
  <2>2. \A s : UntouchedAfter(0, q, p, s) => UntouchedAfter(0, Tail(q), p, s)
    BY <2>1, UntouchedTail
  <2> QED
    BY <1>1, <1>4, <2>2 DEF RowShown, n
<1>7. SetsHeld(p, Tail(q), held, t)
  <2> SUFFICES ASSUME NEW i \in 1..n, NEW s \in Slot, Sets(Tail(q)[i], p, s)
               PROVE  RollsBack(held, s, t[i - 1][s]) /\ UntouchedAfter(i, Tail(q), p, s)
    BY DEF SetsHeld
  <2>1. Sets(q[i + 1], p, s) /\ i + 1 \in 1..Len(q)
    BY <1>2, <1>3
  <2>2. RollsBack(held, s, r[(i + 1) - 1][s]) /\ UntouchedAfter(i + 1, q, p, s)
    BY <1>1, <2>1 DEF SetsHeld
  <2>3. i \in Nat
    BY <1>4
  <2> QED
    BY <1>3, <2>2, <2>3, UntouchedTail
<1>8. ParamsFit(p, Tail(q), t)
  <2> SUFFICES ASSUME NEW i \in 1..n, NEW s \in Slot, Turns(Tail(q)[i], p, s)
               PROVE  t[i - 1][s].fx = Tail(q)[i].fx
    BY DEF ParamsFit
  <2>1. Turns(q[i + 1], p, s) /\ i + 1 \in 1..Len(q)
    BY <1>2, <1>3
  <2>2. r[(i + 1) - 1][s].fx = q[i + 1].fx
    BY <1>1, <2>1 DEF ParamsFit
  <2> QED
    BY <1>2, <1>3, <2>2
<1> QED
  BY <1>5, <1>6, <1>7, <1>8 DEF RowInStep

\* One report more, that refuses nothing to this pair.
LEMMA RowEmit ==
  ASSUME NEW S, NEW ev \in Seq(S), NEW e \in S, NEW p, \A s : ~IsRefusal(e, p, s),
         NEW q, NEW shown, NEW held, NEW x, RowInStep(p, q, ev, shown, held, x)
  PROVE  RowInStep(p, q, ev \o <<e>>, shown, held, x)
<1>1. PICK r : /\ RowRun(p, q, x, r) /\ RowShown(p, q, ev, shown, held, r)
               /\ SetsHeld(p, q, held, r) /\ ParamsFit(p, q, r)
  BY DEF RowInStep
<1> DEFINE n == Len(ev)
           f == ev \o <<e>>
<1>2. /\ n \in Nat /\ Len(f) = n + 1 /\ f[n + 1] = e
      /\ \A i \in 1..n : f[i] = ev[i]
  BY OneMore
<1> HIDE DEF f, n
<1>3. \A s, i : i \in 1..Len(f) /\ IsRefusal(f[i], p, s) => i \in 1..n /\ IsRefusal(ev[i], p, s)
  <2> SUFFICES ASSUME NEW s, NEW i \in 1..Len(f), IsRefusal(f[i], p, s)
               PROVE  i \in 1..n /\ IsRefusal(ev[i], p, s)
    OBVIOUS
  <2>1. i # n + 1
    BY <1>2
  <2>2. i \in 1..n
    BY <1>2, <2>1
  <2> QED
    BY <1>2, <2>2
<1>4. \A s : Refused(f, p, s) <=> Refused(ev, p, s)
  <2>1. \A i \in 1..n : i \in 1..Len(f)
    BY <1>2
  <2> QED
    BY <1>2, <1>3, <2>1 DEF Refused, n
<1>5. \A s : Once(ev, p, s) => Once(f, p, s)
  BY <1>3 DEF Once, n
<1>6. RowShown(p, q, f, shown, held, r)
  BY <1>1, <1>4, <1>5 DEF RowShown
<1> QED
  BY <1>1, <1>6 DEF RowInStep, f

\* A reply that refuses nothing to this pair.
LEMMA RowReply ==
  ASSUME NEW S, NEW ev \in Seq(S), ev # <<>>, NEW p, \A s : ~IsRefusal(Head(ev), p, s),
         NEW q, NEW shown, NEW held, NEW x, RowInStep(p, q, ev, shown, held, x)
  PROVE  RowInStep(p, q, Tail(ev), shown, held, x)
<1>1. PICK r : /\ RowRun(p, q, x, r) /\ RowShown(p, q, ev, shown, held, r)
               /\ SetsHeld(p, q, held, r) /\ ParamsFit(p, q, r)
  BY DEF RowInStep
<1> DEFINE n == Len(Tail(ev))
<1>2. /\ Head(ev) = ev[1] /\ Len(ev) \in Nat /\ Len(ev) >= 1 /\ n = Len(ev) - 1
      /\ \A i \in 1..n : Tail(ev)[i] = ev[i + 1]
  BY OneLess
<1>3. \A i \in 1..n : i + 1 \in 1..Len(ev)
  BY <1>2
<1>4. ASSUME NEW s PROVE Refused(Tail(ev), p, s) <=> Refused(ev, p, s)
  <2>1. ASSUME Refused(ev, p, s) PROVE Refused(Tail(ev), p, s)
    <3>1. PICK i \in 1..Len(ev) : IsRefusal(ev[i], p, s)
      BY <2>1 DEF Refused
    <3>2. i # 1
      BY <1>2, <3>1
    <3> DEFINE j == i - 1
    <3>3. j \in 1..n /\ j + 1 = i
      BY <1>2, <3>2
    <3>4. Tail(ev)[j] = ev[i]
      BY <1>2, <3>3
    <3> HIDE DEF j
    <3> QED
      BY <3>1, <3>3, <3>4 DEF Refused
  <2> QED
    BY <1>2, <1>3, <2>1 DEF Refused
<1>5. ASSUME NEW s, Once(ev, p, s) PROVE Once(Tail(ev), p, s)
  <2> SUFFICES ASSUME NEW i \in 1..n, NEW j \in 1..n, IsRefusal(Tail(ev)[i], p, s),
                      IsRefusal(Tail(ev)[j], p, s)
               PROVE  i = j
    BY DEF Once
  <2>1. i + 1 = j + 1
    BY <1>2, <1>3, <1>5 DEF Once
  <2> QED
    BY <2>1
<1>6. RowShown(p, q, Tail(ev), shown, held, r)
  BY <1>1, <1>4, <1>5 DEF RowShown
<1> QED
  BY <1>1, <1>6 DEF RowInStep

\* The head, a set, is refused.
LEMMA RowRefused ==
  ASSUME NEW S, NEW q \in Seq(S), q # <<>>, NEW p, NEW s \in Slot, Sets(Head(q), p, s),
         NEW T, NEW ev \in Seq(T), NEW e \in T, \A t : IsRefusal(e, p, t) <=> t = s,
         NEW shown, NEW held, NEW x, x = [t \in Slot |-> x[t]],
         RowInStep(p, q, ev, shown, held, x)
  PROVE  RowInStep(p, Tail(q), ev \o <<e>>, shown, held, x)
<1>1. PICK r : /\ RowRun(p, q, x, r) /\ RowShown(p, q, ev, shown, held, r)
               /\ SetsHeld(p, q, held, r) /\ ParamsFit(p, q, r)
  BY DEF RowInStep
<1> DEFINE n == Len(Tail(q))
           u == [i \in 0..n |-> [t \in Slot |-> IF t = s THEN x[s] ELSE r[i + 1][t]]]
<1>2. /\ Head(q) = q[1] /\ Len(q) \in Nat /\ Len(q) >= 1 /\ n = Len(q) - 1
      /\ \A i \in 1..n : Tail(q)[i] = q[i + 1]
  BY OneLess
<1>3. 1 \in 1..Len(q) /\ n \in Nat /\ Sets(q[1], p, s)
  BY <1>2
<1>4. /\ RollsBack(held, s, x[s]) /\ UntouchedAfter(1, q, p, s)
      /\ r[0] = x
  <2>1. RollsBack(held, s, r[1 - 1][s]) /\ UntouchedAfter(1, q, p, s)
    BY <1>1, <1>3 DEF SetsHeld
  <2> QED
    BY <1>1, <2>1 DEF RowRun
<1>5. UntouchedAfter(0, Tail(q), p, s)
  <2>1. 1 = 0 + 1
    OBVIOUS
  <2> QED
    BY <1>4, <2>1, UntouchedTail
<1>6. ~Refused(ev, p, s)
  <2>1. ~UntouchedAfter(0, q, p, s)
    <3>1. Touches(q[1], p, s)
      BY <1>3, SetTouches
    <3> QED
      BY <1>3, <3>1 DEF UntouchedAfter
  <2> QED
    BY <1>1, <2>1 DEF RowShown
<1>7. \A i \in 0..n, t \in Slot : u[i][t] = IF t = s THEN x[s] ELSE r[i + 1][t]
  OBVIOUS
<1>8. \A i \in 1..n : /\ i + 1 \in 1..Len(q) /\ (i + 1) - 1 = i /\ i \in 0..n /\ i - 1 \in 0..n
                      /\ (i - 1) + 1 = i
  BY <1>2
<1>9. \A i \in 0..n : u[i] = [t \in Slot |-> u[i][t]]
  OBVIOUS
<1>10. 0 \in 0..n /\ n \in 0..n /\ 0 + 1 = 1 /\ n + 1 = Len(q)
  BY <1>2, <1>3
<1> HIDE DEF u
<1>11. u[0] = x
  <2>1. \A t \in Slot : t # s => r[1][t] = x[t]
    <3>1. r[1] = RowAfter(p, q[1], r[1 - 1])
      BY <1>1, <1>3 DEF RowRun
    <3>2. r[1] = RowAfter(p, q[1], x)
      BY <1>4, <3>1
    <3> QED
      BY <1>3, <3>2, SetTouches DEF RowAfter, SlotAfter
  <2>2. \A t \in Slot : u[0][t] = x[t]
    BY <1>7, <1>10, <2>1
  <2>3. u[0] = [t \in Slot |-> u[0][t]]
    BY <1>9, <1>10
  <2> QED
    BY <2>2, <2>3
<1>12. ASSUME NEW i \in 1..n PROVE u[i] = RowAfter(p, Tail(q)[i], u[i - 1])
  <2> DEFINE m == Tail(q)[i]
             w == u[i - 1]
  <2>1. m = q[i + 1] /\ r[i + 1] = RowAfter(p, m, r[i])
    <3>1. r[i + 1] = RowAfter(p, q[i + 1], r[(i + 1) - 1])
      BY <1>1, <1>8 DEF RowRun
    <3> QED
      BY <1>2, <1>8, <3>1
  <2>2. ~Touches(m, p, s)
    BY <1>3, <1>5 DEF UntouchedAfter
  <2>3. \A t \in Slot : w[t] = IF t = s THEN x[s] ELSE r[i][t]
    <3>1. i - 1 \in 0..n /\ (i - 1) + 1 = i
      BY <1>8
    <3>2. \A t \in Slot : w[t] = IF t = s THEN x[s] ELSE r[(i - 1) + 1][t]
      BY <1>7, <3>1
    <3> QED
      BY <3>1, <3>2
  <2> HIDE DEF m, w
  <2>4. ASSUME NEW t \in Slot PROVE u[i][t] = SlotAfter(p, t, m, w)
    <3>1. CASE t = s
      <4>1. u[i][t] = x[s] /\ w[t] = x[s]
        BY <1>7, <1>8, <2>3, <3>1
      <4> QED
        BY <2>2, <3>1, <4>1 DEF SlotAfter
    <3>2. CASE t # s
      <4>1. u[i][t] = r[i + 1][t] /\ w[t] = r[i][t]
        BY <1>7, <1>8, <2>3, <3>2
      <4>2. r[i + 1][t] = SlotAfter(p, t, m, r[i])
        BY <2>1 DEF RowAfter
      <4>3. ~(m.type = "move-fx-slot" /\ Touches(m, p, t))
        BY <2>2 DEF Touches
      <4>4. SlotAfter(p, t, m, r[i]) = SlotAfter(p, t, m, w)
        BY <4>1, <4>3 DEF SlotAfter, Touches, FxTypes
      <4> QED
        BY <4>1, <4>2, <4>4
    <3> QED
      BY <3>1, <3>2
  <2>5. u[i] = [t \in Slot |-> u[i][t]]
    BY <1>8, <1>9
  <2>6. u[i] = RowAfter(p, m, w)
    BY <2>4, <2>5 DEF RowAfter
  <2> QED
    BY <2>6 DEF m, w
<1>13. RowRun(p, Tail(q), x, u)
  BY <1>11, <1>12 DEF RowRun
<1>14. SetsHeld(p, Tail(q), held, u)
  <2> SUFFICES ASSUME NEW i \in 1..n, NEW t \in Slot, Sets(Tail(q)[i], p, t)
               PROVE  RollsBack(held, t, u[i - 1][t]) /\ UntouchedAfter(i, Tail(q), p, t)
    BY DEF SetsHeld
  <2>1. Sets(q[i + 1], p, t) /\ i + 1 \in 1..Len(q)
    BY <1>2, <1>8
  <2>2. RollsBack(held, t, r[(i + 1) - 1][t]) /\ UntouchedAfter(i + 1, q, p, t)
    BY <1>1, <2>1 DEF SetsHeld
  <2>3. t # s
    <3>1. Touches(Tail(q)[i], p, t)
      BY SetTouches
    <3> QED
      BY <1>3, <1>5, <3>1 DEF UntouchedAfter
  <2>4. u[i - 1][t] = r[i][t]
    BY <1>7, <1>8, <2>3
  <2>5. i \in Nat
    BY <1>3
  <2>6. UntouchedAfter(i, Tail(q), p, t)
    BY <2>2, <2>5, UntouchedTail
  <2> QED
    BY <1>8, <2>2, <2>4, <2>6
<1>21. ParamsFit(p, Tail(q), u)
  <2> SUFFICES ASSUME NEW i \in 1..n, NEW t \in Slot, Turns(Tail(q)[i], p, t)
               PROVE  u[i - 1][t].fx = Tail(q)[i].fx
    BY DEF ParamsFit
  <2>1. Turns(q[i + 1], p, t) /\ i + 1 \in 1..Len(q)
    BY <1>2, <1>8
  <2>2. r[(i + 1) - 1][t].fx = q[i + 1].fx
    BY <1>1, <2>1 DEF ParamsFit
  <2>3. t # s
    <3>1. Touches(Tail(q)[i], p, t)
      BY TurnTouches
    <3> QED
      BY <1>3, <1>5, <3>1 DEF UntouchedAfter
  <2>4. u[i - 1][t] = r[i][t]
    BY <1>7, <1>8, <2>3
  <2> QED
    BY <1>2, <1>8, <2>2, <2>4
<1> DEFINE f == ev \o <<e>>
<1>15. /\ Len(ev) \in Nat /\ Len(f) = Len(ev) + 1 /\ f[Len(ev) + 1] = e
       /\ \A i \in 1..Len(ev) : f[i] = ev[i]
  BY OneMore
<1> HIDE DEF f
<1>16. \A i \in 1..Len(f) : i \in 1..Len(ev) \/ i = Len(ev) + 1
  BY <1>15
<1>17. Len(ev) + 1 \in 1..Len(f) /\ \A i \in 1..Len(ev) : i \in 1..Len(f)
  BY <1>15
<1>18. ASSUME NEW t \in Slot, t # s
       PROVE  (Refused(f, p, t) <=> Refused(ev, p, t)) /\ (Once(ev, p, t) => Once(f, p, t))
  <2>1. \A i \in 1..Len(f) : IsRefusal(f[i], p, t) => i \in 1..Len(ev) /\ f[i] = ev[i]
    BY <1>15, <1>16, <1>18
  <2> QED
    BY <1>15, <1>17, <2>1 DEF Refused, Once
<1>19. Refused(f, p, s) /\ Once(f, p, s)
  <2>1. IsRefusal(f[Len(ev) + 1], p, s)
    BY <1>15
  <2>2. \A i \in 1..Len(f) : IsRefusal(f[i], p, s) => i = Len(ev) + 1
    BY <1>6, <1>15, <1>16 DEF Refused
  <2> QED
    BY <1>17, <2>1, <2>2 DEF Refused, Once
<1>20. RowShown(p, Tail(q), f, shown, held, u)
  <2> SUFFICES ASSUME NEW t \in Slot
               PROVE  IF Refused(f, p, t)
                      THEN /\ RollsBack(held, t, u[n][t]) /\ Once(f, p, t)
                           /\ UntouchedAfter(0, Tail(q), p, t)
                      ELSE u[n][t] = shown[t]
    BY DEF RowShown
  <2>1. CASE t = s
    <3>1. u[n][t] = x[s]
      BY <1>7, <1>10, <2>1
    <3> QED
      BY <1>4, <1>5, <1>19, <2>1, <3>1
  <2>2. CASE t # s
    <3>1. u[n][t] = r[Len(q)][t]
      BY <1>7, <1>10, <2>2
    <3>2. UntouchedAfter(0, q, p, t) => UntouchedAfter(0, Tail(q), p, t)
      <4>1. UntouchedAfter(0, q, p, t) => UntouchedAfter(0 + 1, q, p, t)
        BY <1>2 DEF UntouchedAfter
      <4> QED
        BY <4>1, UntouchedTail
    <3> QED
      BY <1>1, <1>18, <2>2, <3>1, <3>2 DEF RowShown
  <2> QED
    BY <2>1, <2>2
<1> QED
  BY <1>13, <1>14, <1>20, <1>21 DEF RowInStep, f

\* The user writes a row, or something else: m is posted for it.
LEMMA RowWrite ==
  ASSUME NEW S, NEW q \in Seq(S), NEW m \in S, NEW p, NEW ev, NEW shown, NEW held,
         NEW shown2, NEW held2, NEW x,
         m.type = "move-fx-slot" /\ m.pair = p => m.from \in Slot /\ m.to \in Slot,
         \A s \in Slot : shown2[s] = SlotAfter(p, s, m, shown),
         \A s \in Slot : IF Touches(m, p, s)
                         THEN ~Refused(ev, p, s) /\ \A i \in 1..Len(q) : ~Sets(q[i], p, s)
                         ELSE held2[s] = held[s],
         \A s \in Slot : Sets(m, p, s) => RollsBack(held2, s, shown[s]),
         \A s \in Slot : Turns(m, p, s) => shown[s].fx = m.fx,
         RowInStep(p, q, ev, shown, held, x)
  PROVE  RowInStep(p, q \o <<m>>, ev, shown2, held2, x)
<1>1. PICK r : /\ RowRun(p, q, x, r) /\ RowShown(p, q, ev, shown, held, r)
               /\ SetsHeld(p, q, held, r) /\ ParamsFit(p, q, r)
  BY DEF RowInStep
<1> DEFINE n == Len(q)
           f == q \o <<m>>
           y == RowAfter(p, m, r[n])
           u == [i \in 0..(n + 1) |-> IF i = n + 1 THEN y ELSE r[i]]
<1>2. /\ n \in Nat /\ Len(f) = n + 1 /\ f[n + 1] = m
      /\ \A i \in 1..n : f[i] = q[i]
  BY OneMore
<1>3. /\ u[n + 1] = y /\ \A i \in 0..n : u[i] = r[i]
      /\ 0 \in 0..n /\ n \in 0..n
  BY <1>2
<1>4. \A i \in 1..(n + 1) : i \in 1..n \/ i = n + 1
  BY <1>2
<1>5. \A i \in 1..n : i \in 0..n /\ i - 1 \in 0..n /\ i \in Nat
  BY <1>2
<1>6. \A s \in Slot : y[s] = SlotAfter(p, s, m, r[n])
  BY DEF RowAfter
<1> HIDE DEF u, f, n
<1>7. (n + 1) - 1 = n /\ \A j \in 1..n : ~(j > n)
  BY <1>2
<1>8. RowRun(p, f, x, u)
  <2>1. u[0] = x
    BY <1>1, <1>3 DEF RowRun
  <2>2. ASSUME NEW i \in 1..n PROVE u[i] = RowAfter(p, f[i], u[i - 1])
    <3>1. r[i] = RowAfter(p, q[i], r[i - 1])
      BY <1>1 DEF RowRun, n
    <3> QED
      BY <1>2, <1>3, <1>5, <3>1
  <2>3. u[n + 1] = RowAfter(p, f[n + 1], u[(n + 1) - 1])
    BY <1>2, <1>3, <1>7
  <2>4. \A i \in 1..(n + 1) : u[i] = RowAfter(p, f[i], u[i - 1])
    BY <1>4, <2>2, <2>3
  <2> QED
    BY <1>2, <2>1, <2>4 DEF RowRun
<1> HIDE DEF y
\* What is shown is what is run to, as far as m goes.
<1>9. ASSUME NEW s \in Slot, ~Refused(ev, p, s) PROVE r[n][s] = shown[s]
  BY <1>1, <1>9 DEF RowShown, n
<1>10. ASSUME NEW s \in Slot, NEW i \in 1..n, ~Touches(m, p, s)
       PROVE  UntouchedAfter(i, q, p, s) => UntouchedAfter(i, f, p, s)
  BY <1>2, <1>4, <1>10 DEF UntouchedAfter, n
<1>11. ASSUME NEW s \in Slot, ~Touches(m, p, s)
       PROVE  UntouchedAfter(0, q, p, s) => UntouchedAfter(0, f, p, s)
  BY <1>2, <1>4, <1>11 DEF UntouchedAfter, n
<1>12. RowShown(p, f, ev, shown2, held2, u)
  <2> SUFFICES ASSUME NEW s \in Slot
               PROVE  IF Refused(ev, p, s)
                      THEN /\ RollsBack(held2, s, u[n + 1][s]) /\ Once(ev, p, s)
                           /\ UntouchedAfter(0, f, p, s)
                      ELSE u[n + 1][s] = shown2[s]
    BY <1>2 DEF RowShown
  <2>1. CASE Refused(ev, p, s)
    <3>1. ~Touches(m, p, s) /\ held2[s] = held[s]
      BY <2>1
    <3>2. u[n + 1][s] = r[n][s]
      BY <1>3, <1>6, <3>1 DEF SlotAfter
    <3>3. /\ RollsBack(held, s, r[n][s]) /\ Once(ev, p, s)
          /\ UntouchedAfter(0, q, p, s)
      BY <1>1, <2>1 DEF RowShown, n
    <3> QED
      BY <1>11, <2>1, <3>1, <3>2, <3>3 DEF RollsBack
  <2>2. CASE ~Refused(ev, p, s)
    <3>1. u[n + 1][s] = SlotAfter(p, s, m, r[n]) /\ shown2[s] = SlotAfter(p, s, m, shown)
      BY <1>3, <1>6
    <3>2. r[n][s] = shown[s]
      BY <1>9, <2>2
    <3>3. ASSUME ~(Touches(m, p, s) /\ m.type = "move-fx-slot")
          PROVE  SlotAfter(p, s, m, r[n]) = SlotAfter(p, s, m, shown)
      BY <3>2, <3>3 DEF SlotAfter, Touches, FxTypes
    <3>4. ASSUME Touches(m, p, s), m.type = "move-fx-slot"
          PROVE  SlotAfter(p, s, m, r[n]) = SlotAfter(p, s, m, shown)
      <4>1. \A t \in Slot : Touches(m, p, t)
        BY <3>4 DEF Touches
      <4>2. \A t \in Slot : r[n][t] = shown[t]
        BY <1>9, <4>1
      <4>3. F!MovedFrom(m.from, m.to, s) \in Slot
        BY <3>4, MoveStays DEF Touches
      <4>4. /\ SlotAfter(p, s, m, r[n]) = r[n][F!MovedFrom(m.from, m.to, s)]
            /\ SlotAfter(p, s, m, shown) = shown[F!MovedFrom(m.from, m.to, s)]
        BY <3>4 DEF SlotAfter
      <4> QED
        BY <4>2, <4>3, <4>4
    <3>5. SlotAfter(p, s, m, r[n]) = SlotAfter(p, s, m, shown)
      BY <3>3, <3>4
    <3> QED
      BY <2>2, <3>1, <3>5
  <2> QED
    BY <2>1, <2>2
<1>13. SetsHeld(p, f, held2, u)
  <2> SUFFICES ASSUME NEW i \in 1..(n + 1), NEW s \in Slot, Sets(f[i], p, s)
               PROVE  RollsBack(held2, s, u[i - 1][s]) /\ UntouchedAfter(i, f, p, s)
    BY <1>2 DEF SetsHeld
  <2>1. CASE i \in 1..n
    <3>1. Sets(q[i], p, s) /\ u[i - 1] = r[i - 1]
      BY <1>2, <1>3, <1>5, <2>1
    <3>2. ~Touches(m, p, s) /\ held2[s] = held[s]
      BY <2>1, <3>1 DEF n
    <3>3. RollsBack(held, s, r[i - 1][s]) /\ UntouchedAfter(i, q, p, s)
      BY <1>1, <2>1, <3>1 DEF SetsHeld, n
    <3> QED
      BY <1>10, <2>1, <3>1, <3>2, <3>3 DEF RollsBack
  <2>2. CASE i = n + 1
    <3>1. Sets(m, p, s) /\ Touches(m, p, s) /\ u[i - 1] = r[n]
      BY <1>2, <1>3, <1>7, <2>2, SetTouches
    <3>2. r[n][s] = shown[s]
      BY <1>9, <3>1
    <3>3. UntouchedAfter(i, f, p, s)
      BY <1>2, <2>2 DEF UntouchedAfter
    <3> QED
      BY <3>1, <3>2, <3>3
  <2> QED
    BY <1>4, <2>1, <2>2
<1>14. ParamsFit(p, f, u)
  <2> SUFFICES ASSUME NEW i \in 1..(n + 1), NEW s \in Slot, Turns(f[i], p, s)
               PROVE  u[i - 1][s].fx = f[i].fx
    BY <1>2 DEF ParamsFit
  <2>1. CASE i \in 1..n
    <3>1. f[i] = q[i] /\ Turns(q[i], p, s) /\ u[i - 1] = r[i - 1]
      BY <1>2, <1>3, <1>5, <2>1
    <3>2. r[i - 1][s].fx = q[i].fx
      BY <1>1, <2>1, <3>1 DEF ParamsFit, n
    <3> QED
      BY <3>1, <3>2
  <2>2. CASE i = n + 1
    <3>1. f[i] = m /\ Turns(m, p, s) /\ Touches(m, p, s) /\ u[i - 1] = r[n]
      BY <1>2, <1>3, <1>7, <2>2, TurnTouches
    <3>2. r[n][s] = shown[s]
      BY <1>9, <3>1
    <3> QED
      BY <3>1, <3>2
  <2> QED
    BY <1>4, <2>1, <2>2
<1>15. RowInStep(p, f, ev, shown2, held2, x)
  BY <1>8, <1>12, <1>13, <1>14 DEF RowInStep
<1> QED
  BY <1>15 DEF f

\* A refusal is answered: the snapshot of its slot is put back.
RolledOver(p, q, ev, s, shown, held, x) ==
  \A shown2, held2 :
    /\ shown2[s] = held[s][s]
    /\ \A t \in Slot : t # s => shown2[t] = shown[t] /\ held2[t] = held[t]
    => RowInStep(p, q, ev, shown2, held2, x)

LEMMA RowRolledBack ==
  ASSUME NEW S, NEW ev \in Seq(S), ev # <<>>, NEW p, NEW s \in Slot,
         \A t : IsRefusal(Head(ev), p, t) <=> t = s,
         NEW q, NEW shown, NEW held, NEW x, RowInStep(p, q, ev, shown, held, x)
  PROVE  /\ held[s] # None /\ DOMAIN held[s] = {s}
         /\ RolledOver(p, q, Tail(ev), s, shown, held, x)
<1>1. PICK r : /\ RowRun(p, q, x, r) /\ RowShown(p, q, ev, shown, held, r)
               /\ SetsHeld(p, q, held, r) /\ ParamsFit(p, q, r)
  BY DEF RowInStep
<1> DEFINE n == Len(Tail(ev))
<1>2. /\ Head(ev) = ev[1] /\ Len(ev) \in Nat /\ Len(ev) >= 1 /\ n = Len(ev) - 1
      /\ \A i \in 1..n : Tail(ev)[i] = ev[i + 1]
  BY OneLess
<1>3. \A i \in 1..n : i + 1 \in 1..Len(ev) /\ i + 1 # 1
  BY <1>2
<1>4. 1 \in 1..Len(ev) /\ IsRefusal(ev[1], p, s)
  BY <1>2
<1>5. /\ RollsBack(held, s, r[Len(q)][s]) /\ Once(ev, p, s) /\ UntouchedAfter(0, q, p, s)
  BY <1>1, <1>4 DEF RowShown, Refused
<1>6. ~Refused(Tail(ev), p, s)
  BY <1>2, <1>3, <1>4, <1>5 DEF Refused, Once
<1>7. ASSUME NEW t \in Slot, t # s
      PROVE  Refused(Tail(ev), p, t) => Refused(ev, p, t)
  BY <1>2, <1>3 DEF Refused
<1>8. ASSUME NEW t \in Slot, t # s, Refused(ev, p, t) PROVE Refused(Tail(ev), p, t)
  <2>1. PICK i \in 1..Len(ev) : IsRefusal(ev[i], p, t)
    BY <1>8 DEF Refused
  <2>2. i # 1
    BY <1>2, <1>8, <2>1
  <2> DEFINE j == i - 1
  <2>3. j \in 1..n /\ j + 1 = i
    BY <1>2, <2>2
  <2>4. Tail(ev)[j] = ev[i]
    BY <1>2, <2>3
  <2> HIDE DEF j
  <2> QED
    BY <2>1, <2>3, <2>4 DEF Refused
<1>9. ASSUME NEW t \in Slot, Once(ev, p, t) PROVE Once(Tail(ev), p, t)
  <2> SUFFICES ASSUME NEW i \in 1..n, NEW j \in 1..n, IsRefusal(Tail(ev)[i], p, t),
                      IsRefusal(Tail(ev)[j], p, t)
               PROVE  i = j
    BY DEF Once
  <2>1. i + 1 = j + 1
    BY <1>2, <1>3, <1>9 DEF Once
  <2> QED
    BY <2>1
<1>10. ASSUME NEW shown2, NEW held2, shown2[s] = held[s][s],
              \A t \in Slot : t # s => shown2[t] = shown[t] /\ held2[t] = held[t]
       PROVE  RowInStep(p, q, Tail(ev), shown2, held2, x)
  <2>1. RowShown(p, q, Tail(ev), shown2, held2, r)
    <3> SUFFICES ASSUME NEW t \in Slot
                 PROVE  IF Refused(Tail(ev), p, t)
                        THEN /\ RollsBack(held2, t, r[Len(q)][t]) /\ Once(Tail(ev), p, t)
                             /\ UntouchedAfter(0, q, p, t)
                        ELSE r[Len(q)][t] = shown2[t]
      BY DEF RowShown
    <3>1. CASE t = s
      BY <1>5, <1>6, <1>10, <3>1 DEF RollsBack
    <3>2. CASE t # s
      <4>1. /\ Refused(Tail(ev), p, t) <=> Refused(ev, p, t)
            /\ shown2[t] = shown[t] /\ held2[t] = held[t]
        BY <1>7, <1>8, <1>10, <3>2
      <4>2. IF Refused(ev, p, t)
            THEN RollsBack(held, t, r[Len(q)][t]) /\ Once(ev, p, t) /\ UntouchedAfter(0, q, p, t)
            ELSE r[Len(q)][t] = shown[t]
        BY <1>1 DEF RowShown
      <4> QED
        BY <1>9, <4>1, <4>2 DEF RollsBack
    <3> QED
      BY <3>1, <3>2
  <2>2. SetsHeld(p, q, held2, r)
    <3> SUFFICES ASSUME NEW i \in 1..Len(q), NEW t \in Slot, Sets(q[i], p, t)
                 PROVE  RollsBack(held2, t, r[i - 1][t]) /\ UntouchedAfter(i, q, p, t)
      BY DEF SetsHeld
    <3>1. t # s
      <4>1. Touches(q[i], p, t) /\ i > 0
        BY SetTouches
      <4> QED
        BY <1>5, <4>1 DEF UntouchedAfter
    <3>2. held2[t] = held[t]
      BY <1>10, <3>1
    <3> QED
      BY <1>1, <3>2 DEF SetsHeld, RollsBack
  <2> QED
    BY <1>1, <2>1, <2>2 DEF RowInStep
<1>11. held[s] # None /\ DOMAIN held[s] = {s}
  BY <1>5 DEF RollsBack
<1> QED
  BY <1>10, <1>11 DEF RolledOver

\* With no FX message under way, the row shown is the row there is.
LEMMA RowSettled ==
  ASSUME NEW q, Len(q) \in Nat, \A i \in 1..Len(q) : q[i].type \notin FxTypes,
         NEW p, NEW ev, \A s : ~Refused(ev, p, s), NEW shown, NEW held, NEW x,
         x = [s \in Slot |-> x[s]], \A s \in Slot : shown[s] = x[s]
  PROVE  RowInStep(p, q, ev, shown, held, x)
<1> DEFINE u == [i \in 0..Len(q) |-> x]
<1>1. /\ u[0] = x /\ u[Len(q)] = x
      /\ \A i \in 1..Len(q) : u[i] = x /\ u[i - 1] = x
  OBVIOUS
<1> HIDE DEF u
<1>2. \A i \in 1..Len(q) : \A s : /\ ~Touches(q[i], p, s) /\ ~Sets(q[i], p, s)
                                 /\ ~Turns(q[i], p, s)
  BY DEF Touches, Sets, Turns, FxTypes
<1>3. RowRun(p, q, x, u)
  <2>1. ASSUME NEW i \in 1..Len(q) PROVE RowAfter(p, q[i], x) = x
    BY <1>2 DEF RowAfter, SlotAfter
  <2> QED
    BY <1>1, <2>1 DEF RowRun
<1>4. RowShown(p, q, ev, shown, held, u) /\ SetsHeld(p, q, held, u) /\ ParamsFit(p, q, u)
  BY <1>1, <1>2 DEF RowShown, SetsHeld, ParamsFit
<1> QED
  BY <1>3, <1>4 DEF RowInStep

LEMMA RowAtRest ==
  ASSUME NEW p, NEW shown, NEW held, NEW x, RowInStep(p, <<>>, <<>>, shown, held, x)
  PROVE  \A s \in Slot : shown[s] = x[s]
<1>1. PICK r : RowRun(p, <<>>, x, r) /\ RowShown(p, <<>>, <<>>, shown, held, r)
  BY DEF RowInStep
<1>2. Len(<<>>) = 0
  OBVIOUS
<1>3. r[Len(<<>>)] = x
  BY <1>1, <1>2 DEF RowRun
<1>4. \A s : ~Refused(<<>>, p, s)
  BY <1>2 DEF Refused
<1> QED
  BY <1>1, <1>3, <1>4 DEF RowShown
--------------------------------------------------------------------------------
(* What a message does to the rows of the rack *)

RowOf(r, p) == [s \in Slot |-> F!Captured(r.slot[p][s])]

LEMMA CapturedIs ==
  ASSUME NEW x
  PROVE  /\ F!Captured(x) = [fx |-> x.fx, enabled |-> x.enabled, params |-> x.params]
         /\ F!Captured(x).fx = x.fx /\ F!Captured(x).enabled = x.enabled
         /\ F!Captured(x).params = x.params
BY DEF F!Captured

\* One slot is written.
LEMMA RowPut ==
  ASSUME NEW r, FP!RackOK(r), NEW m, m.type # "move-fx-slot", m.type \in FxTypes,
         m.pair \in Pair, m.slot \in Slot, NEW x, NEW q,
         q.slot = FP!Put(r, m.pair, m.slot, x),
         F!Captured(x) = SlotAfter(m.pair, m.slot, m, RowOf(r, m.pair)), NEW p \in Pair
  PROVE  RowOf(q, p) = RowAfter(p, m, RowOf(r, p))
<1>1. r.slot \in [Pair -> [Slot -> FP!SlotState]]
  BY SameSets DEF FP!RackOK, FP!Racks, FP!Slots
<1>2. \A s \in Slot : q.slot[p][s] = IF p = m.pair /\ s = m.slot THEN x ELSE r.slot[p][s]
  BY <1>1 DEF FP!Put
<1>3. \A s \in Slot : RowOf(r, p)[s] = F!Captured(r.slot[p][s])
  BY DEF RowOf
<1>4. ASSUME NEW s \in Slot PROVE F!Captured(q.slot[p][s]) = SlotAfter(p, s, m, RowOf(r, p))
  <2>1. CASE p = m.pair /\ s = m.slot
    BY <1>2, <2>1
  <2>2. CASE ~(p = m.pair /\ s = m.slot)
    <3>1. ~Touches(m, p, s)
      BY <2>2 DEF Touches
    <3> QED
      BY <1>2, <1>3, <2>2, <3>1 DEF SlotAfter
  <2> QED
    BY <2>1, <2>2
<1> QED
  BY <1>4 DEF RowOf, RowAfter

\* The rack after an FX message that is accepted.
Accepts(r, q, m) ==
  /\ m.type = "set-fx-slot" => /\ FP!FitsBudget(r, m.pair, m.slot, m.fx)
                               /\ q = FP!SetSlot(r, m.pair, m.slot, m.fx)
  /\ m.type = "set-fx-enabled" => q = FP!SetEnabled(r, m.pair, m.slot, m.on)
  /\ m.type = "set-fx-param" => q = FP!SetParam(r, m.pair, m.slot, m.value)
  /\ m.type = "move-fx-slot" => q = FP!MoveSlot(r, m.pair, m.from, m.to)

LEMMA RowAccepts ==
  ASSUME NEW r, FP!RackOK(r), NEW m \in Ask, m.type \in FxTypes, NEW q, Accepts(r, q, m),
         NEW p \in Pair
  PROVE  RowOf(q, p) = RowAfter(p, m, RowOf(r, p))
<1>1. r.slot \in [Pair -> [Slot -> FP!SlotState]] /\ r \in FP!Racks
  BY SameSets DEF FP!RackOK, FP!Racks, FP!Slots
<1>2. ASSUME NEW a \in Pair, NEW b \in Slot
      PROVE  RowOf(r, a)[b] = F!Captured(r.slot[a][b]) /\ r.slot[a][b] \in FP!SlotState
  BY <1>1 DEF RowOf
<1>3. CASE m.type = "set-fx-slot"
  <2>1. m.pair \in Pair /\ m.slot \in Slot /\ m.fx \in Effect \cup {None}
    BY <1>3, AskTypes
  <2> DEFINE x == IF m.fx = None THEN FP!EmptySlot ELSE FP!NewSlot(m.slot, m.fx)
  <2>2. q.slot = FP!Put(r, m.pair, m.slot, x)
    <3>1. m.fx \in AvailableFx \cup {None} /\ m.pair \in FP!Pair /\ m.slot \in FP!Slot
      BY <2>1, SyncAssumption, SameSets
    <3>2. FP!FitsBudget(r, m.pair, m.slot, m.fx) /\ q = FP!SetSlot(r, m.pair, m.slot, m.fx)
      BY <1>3 DEF Accepts
    <3>3. FP!Written(q, r, m.pair, m.slot, x)
      BY <3>1, <3>2, Rack, FP!SetSlotFits
    <3> QED
      BY <3>3 DEF FP!Written
  <2>3. F!Captured(x) = Fresh(m.fx)
    <3>1. x.fx = m.fx /\ x.enabled = FALSE
      BY DEF FP!EmptySlot, FP!NewSlot
    <3>2. x.params = IF m.fx = None THEN F!Zeroed ELSE F!Default
      BY SameSets DEF FP!EmptySlot, FP!NewSlot
    <3> HIDE DEF x
    <3>3. F!Captured(x) = [fx |-> x.fx, enabled |-> x.enabled, params |-> x.params]
      BY CapturedIs
    <3> QED
      BY <3>1, <3>2, <3>3 DEF Fresh, NoFx
  <2>4. F!Captured(x) = SlotAfter(m.pair, m.slot, m, RowOf(r, m.pair))
    BY <1>3, <2>3 DEF SlotAfter, Touches, FxTypes
  <2> HIDE DEF x
  <2> QED
    BY <1>3, <2>1, <2>2, <2>4, RowPut
<1>4. CASE m.type = "set-fx-enabled"
  <2>1. m.pair \in Pair /\ m.slot \in Slot /\ m.on \in BOOLEAN
    BY <1>4, AskTypes
  <2> DEFINE old == r.slot[m.pair][m.slot]
             x == IF old.fx = None THEN old ELSE [old EXCEPT !.enabled = m.on, !.active = m.on]
  <2>2. q = FP!SetEnabled(r, m.pair, m.slot, m.on)
    BY <1>4 DEF Accepts
  <2>3. q.slot = FP!Put(r, m.pair, m.slot, x)
    <3>1. CASE old.fx = None
      BY <1>1, <2>1, <2>2, <3>1 DEF FP!SetEnabled, FP!Put
    <3>2. CASE old.fx # None
      <4>1. m.pair \in FP!Pair /\ m.slot \in FP!Slot
        BY <2>1, SameSets
      <4>2. FP!Kept(q, r, m.pair, m.slot, [old EXCEPT !.enabled = m.on, !.active = m.on])
        BY <1>1, <2>1, <2>2, <3>2, <4>1, Rack, FP!FlagsKept DEF FP!SetEnabled
      <4> QED
        BY <3>2, <4>2 DEF FP!Kept
    <3> QED
      BY <3>1, <3>2
  <2>4. F!Captured(x) = SlotAfter(m.pair, m.slot, m, RowOf(r, m.pair))
    <3>1. old \in FP!SlotState /\ RowOf(r, m.pair)[m.slot] = F!Captured(old)
      BY <1>2, <2>1
    <3>2. SlotAfter(m.pair, m.slot, m, RowOf(r, m.pair))
            = IF F!Captured(old).fx = None THEN F!Captured(old)
              ELSE [F!Captured(old) EXCEPT !.enabled = m.on]
      BY <1>4, <3>1 DEF SlotAfter, Touches, FxTypes
    <3> HIDE DEF old
    <3> QED
      BY <3>1, <3>2 DEF F!Captured, FP!SlotState
  <2> HIDE DEF x
  <2> QED
    BY <1>4, <2>1, <2>3, <2>4, RowPut
<1>5. CASE m.type = "set-fx-param"
  <2>1. m.pair \in Pair /\ m.slot \in Slot /\ m.value \in Params
    BY <1>5, AskTypes
  <2> DEFINE old == r.slot[m.pair][m.slot]
             x == IF old.fx = None THEN old ELSE [old EXCEPT !.params = m.value]
  <2>2. q = FP!SetParam(r, m.pair, m.slot, m.value)
    BY <1>5 DEF Accepts
  <2>3. q.slot = FP!Put(r, m.pair, m.slot, x)
    <3>1. CASE old.fx = None
      BY <1>1, <2>1, <2>2, <3>1 DEF FP!SetParam, FP!Put
    <3>2. CASE old.fx # None
      <4>1. /\ m.pair \in FP!Pair /\ m.slot \in FP!Slot
            /\ m.value \in Values \cup {FP!Zeroed, FP!Default}
        BY <2>1, SameSets DEF Params
      <4>2. FP!Kept([r EXCEPT !.slot[m.pair][m.slot].params = m.value], r, m.pair, m.slot,
                    [old EXCEPT !.params = m.value])
        BY <1>1, <4>1, Rack, FP!ParamsKept
      <4>3. q = [r EXCEPT !.slot[m.pair][m.slot].params = m.value]
        BY <2>2, <3>2 DEF FP!SetParam
      <4> QED
        BY <3>2, <4>2, <4>3 DEF FP!Kept
    <3> QED
      BY <3>1, <3>2
  <2>4. F!Captured(x) = SlotAfter(m.pair, m.slot, m, RowOf(r, m.pair))
    <3>1. old \in FP!SlotState /\ RowOf(r, m.pair)[m.slot] = F!Captured(old)
      BY <1>2, <2>1
    <3>2. SlotAfter(m.pair, m.slot, m, RowOf(r, m.pair))
            = IF F!Captured(old).fx = None THEN F!Captured(old)
              ELSE [F!Captured(old) EXCEPT !.params = m.value]
      BY <1>5, <3>1 DEF SlotAfter, Touches, FxTypes
    <3> HIDE DEF old
    <3> QED
      BY <3>1, <3>2 DEF F!Captured, FP!SlotState
  <2> HIDE DEF x
  <2> QED
    BY <1>5, <2>1, <2>3, <2>4, RowPut
<1>6. CASE m.type = "move-fx-slot"
  <2>1. m.pair \in Pair /\ m.from \in Slot /\ m.to \in Slot
    BY <1>6, AskTypes
  <2>2. q = FP!MoveSlot(r, m.pair, m.from, m.to)
    BY <1>6 DEF Accepts
  <2>3. ASSUME NEW s \in Slot
        PROVE  F!Captured(q.slot[p][s]) = SlotAfter(p, s, m, RowOf(r, p))
    <3> DEFINE j == F!MovedFrom(m.from, m.to, s)
    <3>1. j \in Slot
      BY <2>1, MoveStays
    <3>2. CASE p # m.pair
      <4>1. q.slot[p][s] = r.slot[p][s]
        BY <1>1, <2>2, <3>2 DEF FP!MoveSlot
      <4>2. ~Touches(m, p, s)
        BY <3>2 DEF Touches
      <4> QED
        BY <4>1, <4>2 DEF SlotAfter, RowOf
    <3>3. CASE p = m.pair
      <4>1. SlotAfter(p, s, m, RowOf(r, p)) = F!Captured(r.slot[p][j])
        <5>1. SlotAfter(p, s, m, RowOf(r, p)) = RowOf(r, p)[j]
          BY <1>6, <3>3 DEF SlotAfter, Touches, FxTypes
        <5> HIDE DEF j
        <5> QED
          BY <3>1, <5>1 DEF RowOf
      <4>2. CASE m.from = m.to
        <5>1. j = s
          BY <2>1, <4>2, Constants DEF F!MovedFrom, Slot
        <5>2. q = r
          BY <2>2, <4>2 DEF FP!MoveSlot
        <5> HIDE DEF j
        <5> QED
          BY <4>1, <5>1, <5>2
      <4>3. CASE m.from # m.to
        <5> DEFINE moved == [i \in FP!Slot |-> r.slot[m.pair][FP!MovedFrom(m.from, m.to, i)]]
        <5>1. q.slot[p][s] \in {FP!ConnectSlotParams(moved, s), moved[s]}
          <6>1. s \in FP!Slot /\ m.pair \in DOMAIN r.slot /\ "slot" \in DOMAIN r
            BY <1>1, <2>1, SameSets DEF FP!Racks
          <6> QED
            BY <2>2, <3>3, <4>3, <6>1 DEF FP!MoveSlot
        <5>2. moved[s] = r.slot[p][j]
          BY <3>3, SameSets DEF FP!MovedFrom, F!MovedFrom
        <5>3. moved[s] \in FP!SlotState
          <6> HIDE DEF j, moved
          <6> QED
            BY <1>2, <3>1, <5>2
        <5> HIDE DEF moved, j
        <5>4. F!Captured(q.slot[p][s]) = F!Captured(moved[s])
          BY <5>1, <5>3 DEF FP!ConnectSlotParams, F!Captured, FP!SlotState
        <5> QED
          BY <4>1, <5>2, <5>4
      <4> QED
        BY <4>2, <4>3
    <3> QED
      BY <3>2, <3>3
  <2> QED
    BY <2>3 DEF RowOf, RowAfter
<1> QED
  BY <1>3, <1>4, <1>5, <1>6 DEF FxTypes

\* Messages that are not about the rack.
LEMMA RowApart ==
  ASSUME NEW S, NEW q \in Seq(S), NEW msgs \in Seq(S),
         \A i \in 1..Len(msgs) : msgs[i].type \notin FxTypes,
         NEW p, NEW ev, NEW shown, NEW held, NEW x, RowInStep(p, q, ev, shown, held, x)
  PROVE  RowInStep(p, q \o msgs, ev, shown, held, x)
<1>1. PICK r : /\ RowRun(p, q, x, r) /\ RowShown(p, q, ev, shown, held, r)
               /\ SetsHeld(p, q, held, r) /\ ParamsFit(p, q, r)
  BY DEF RowInStep
<1> DEFINE n == Len(q)
           k == Len(msgs)
           f == q \o msgs
           y == [s \in Slot |-> r[n][s]]
           u == [i \in 0..(n + k) |-> IF i <= n THEN r[i] ELSE y]
<1>2. /\ n \in Nat /\ k \in Nat /\ Len(f) = n + k
      /\ \A i \in 1..n : f[i] = q[i]
      /\ \A i \in 1..(n + k) : i > n => f[i] = msgs[i - n]
  BY LenProperties, ConcatProperties
<1>3. \A i \in 0..(n + k) : u[i] = IF i <= n THEN r[i] ELSE y
  OBVIOUS
<1>4. \A s \in Slot : y[s] = r[n][s]
  OBVIOUS
<1>5. y = [s \in Slot |-> y[s]]
  OBVIOUS
<1> HIDE DEF u, y, f, n, k
<1>6. /\ \A i \in 1..(n + k) : i \in 1..n \/ i > n
      /\ \A i \in 1..n : i \in 1..(n + k) /\ u[i] = r[i] /\ u[i - 1] = r[i - 1]
      /\ u[0] = r[0] /\ u[n] = r[n]
      /\ \A i \in 1..(n + k) : i > n => u[i] = y /\ u[i - 1] \in {y, r[n]} /\ i - n \in 1..k
  <2>1. n \in Nat /\ k \in Nat
    BY <1>2
  <2>2. \A i \in 1..(n + k) : i \in 1..n \/ i > n
    BY <2>1
  <2>3. \A i \in 1..n : i \in 1..(n + k) /\ u[i] = r[i] /\ u[i - 1] = r[i - 1]
    BY <1>3, <2>1
  <2>4. u[0] = r[0] /\ u[n] = r[n]
    BY <1>3, <2>1
  <2>5. ASSUME NEW i \in 1..(n + k), i > n
        PROVE  u[i] = y /\ u[i - 1] \in {y, r[n]} /\ i - n \in 1..k
    <3>1. i \in 0..(n + k) /\ i - 1 \in 0..(n + k) /\ ~(i <= n) /\ i - n \in 1..k
      BY <2>1, <2>5
    <3>2. i - 1 <= n => i - 1 = n
      BY <2>1, <2>5
    <3> QED
      BY <1>3, <3>1, <3>2
  <2> QED
    BY <2>2, <2>3, <2>4, <2>5
<1>7. \A i \in 1..(n + k) : i > n =>
        \A s : ~Touches(f[i], p, s) /\ ~Sets(f[i], p, s) /\ ~Turns(f[i], p, s)
  BY <1>2, <1>6 DEF Touches, Sets, Turns, FxTypes, k
<1>8. RowRun(p, f, x, u)
  <2>1. u[0] = x
    BY <1>1, <1>6 DEF RowRun
  <2>2. ASSUME NEW i \in 1..n PROVE u[i] = RowAfter(p, f[i], u[i - 1])
    BY <1>1, <1>2, <1>6 DEF RowRun, n
  <2>3. ASSUME NEW i \in 1..(n + k), i > n PROVE u[i] = RowAfter(p, f[i], u[i - 1])
    <3>1. u[i] = y /\ \A s \in Slot : u[i - 1][s] = y[s]
      BY <1>6, <1>4, <2>3
    <3>2. \A s \in Slot : SlotAfter(p, s, f[i], u[i - 1]) = y[s]
      BY <1>7, <2>3, <3>1 DEF SlotAfter
    <3> QED
      BY <1>5, <3>1, <3>2 DEF RowAfter
  <2> QED
    BY <1>2, <1>6, <2>1, <2>2, <2>3 DEF RowRun
<1>9. \A i \in 0..n, s \in Slot : UntouchedAfter(i, q, p, s) => UntouchedAfter(i, f, p, s)
  BY <1>2, <1>6, <1>7 DEF UntouchedAfter, n
<1>10. \A s \in Slot : u[n + k][s] = r[n][s]
  <2>1. CASE k = 0
    BY <1>2, <1>6, <2>1
  <2>2. CASE k # 0
    <3>1. n + k \in 1..(n + k) /\ n + k > n
      BY <1>2, <2>2
    <3> QED
      BY <1>6, <1>4, <3>1
  <2> QED
    BY <2>1, <2>2
<1>11. RowShown(p, f, ev, shown, held, u)
  <2>1. 0 \in 0..n
    BY <1>2
  <2> QED
    BY <1>1, <1>2, <1>9, <1>10, <2>1 DEF RowShown, RollsBack, n
<1>12. SetsHeld(p, f, held, u)
  <2> SUFFICES ASSUME NEW i \in 1..(n + k), NEW s \in Slot, Sets(f[i], p, s)
               PROVE  RollsBack(held, s, u[i - 1][s]) /\ UntouchedAfter(i, f, p, s)
    BY <1>2 DEF SetsHeld
  <2>1. i \in 1..n
    BY <1>6, <1>7
  <2>2. RollsBack(held, s, r[i - 1][s]) /\ UntouchedAfter(i, q, p, s)
    BY <1>1, <1>2, <2>1 DEF SetsHeld, n
  <2>3. i \in 0..n
    BY <1>2, <2>1
  <2> QED
    BY <1>6, <1>9, <2>1, <2>2, <2>3
<1>13. ParamsFit(p, f, u)
  <2> SUFFICES ASSUME NEW i \in 1..(n + k), NEW s \in Slot, Turns(f[i], p, s)
               PROVE  u[i - 1][s].fx = f[i].fx
    BY <1>2 DEF ParamsFit
  <2>1. i \in 1..n
    BY <1>6, <1>7
  <2>2. r[i - 1][s].fx = q[i].fx
    BY <1>1, <1>2, <2>1 DEF ParamsFit, n
  <2> QED
    BY <1>2, <1>6, <2>1, <2>2
<1>14. RowInStep(p, f, ev, shown, held, x)
  BY <1>8, <1>11, <1>12, <1>13 DEF RowInStep
<1> QED
  BY <1>14 DEF f

\* A message that does not touch the pair is taken.
LEMMA RowPassed ==
  ASSUME NEW S, NEW q \in Seq(S), q # <<>>, NEW p, \A s : ~Touches(Head(q), p, s),
         NEW ev, NEW shown, NEW held, NEW x, x = [s \in Slot |-> x[s]],
         RowInStep(p, q, ev, shown, held, x)
  PROVE  RowInStep(p, Tail(q), ev, shown, held, x)
<1>1. RowAfter(p, Head(q), x) = x
  BY DEF RowAfter, SlotAfter
<1> QED
  BY <1>1, RowTail
--------------------------------------------------------------------------------
(* The inductive invariant: chains *)

\* The store will read the console once the recalls before it are done.
RowsAwaited(q, ev) ==
  OfType(q, {"get-params", "scene-recall"}) # {} \/ OfType(ev, {"scene-recalled"}) # {}

TellsRack(e, r) ==
  /\ e.type = "console-params"
  /\ \A p \in Pair, s \in Slot :
       (IF p \in DOMAIN e.chain /\ e.chain[p][s].fx # None THEN e.chain[p][s] ELSE NoFx)
         = RowOf(r, p)[s]

NotOfRack(q) == \A i \in 1..Len(q) : q[i].type \notin FxTypes

\* A report on its way tells of rack r, and nothing after it says otherwise.
ReportsRack(q, ev, r) ==
  /\ NotOfRack(q)
  /\ \E i \in 1..Len(ev) :
       /\ TellsRack(ev[i], r)
       /\ \A j \in 1..Len(ev) : j > i => ev[j].type \notin {"console-params", "fx-error"}

RowsInStep(q, ev, shown, held, r) ==
  /\ \A i \in 1..Len(ev) : ev[i].type # "console-params"
  /\ \A p \in Pair : RowInStep(p, q, ev, shown[p], held[p], RowOf(r, p))

ChainsMirror ==
  \/ parted
  \/ RowsAwaited(ctl, events)
  \/ ReportsRack(ctl, events, rack)
  \/ RowsInStep(ctl, events, fxChains, fxPending, rack)

LEMMA AwaitedMore ==
  ASSUME NEW S, NEW q \in Seq(S), NEW msgs \in Seq(S), NEW ev, RowsAwaited(q, ev)
  PROVE  RowsAwaited(q \o msgs, ev)
BY StillThereWithMore DEF RowsAwaited

LEMMA AwaitedTail ==
  ASSUME NEW S, NEW q \in Seq(S), q # <<>>, Head(q).type \notin {"get-params", "scene-recall"},
         NEW ev, RowsAwaited(q, ev)
  PROVE  RowsAwaited(Tail(q), ev)
BY StillThere DEF RowsAwaited

LEMMA AwaitedEmit ==
  ASSUME NEW S, NEW ev \in Seq(S), NEW e \in S, NEW q, RowsAwaited(q, ev)
  PROVE  RowsAwaited(q, ev \o <<e>>)
<1>1. <<e>> \in Seq(S)
  OBVIOUS
<1> QED
  BY <1>1, StillThereWithMore DEF RowsAwaited

LEMMA AwaitedReply ==
  ASSUME NEW S, NEW ev \in Seq(S), ev # <<>>, Head(ev).type # "scene-recalled", NEW q,
         RowsAwaited(q, ev)
  PROVE  RowsAwaited(q, Tail(ev))
<1>1. Head(ev).type \notin {"scene-recalled"}
  OBVIOUS
<1> QED
  BY <1>1, StillThere DEF RowsAwaited

LEMMA NotOfRackMore ==
  ASSUME NEW S, NEW q \in Seq(S), NEW msgs \in Seq(S), NotOfRack(q), NotOfRack(msgs)
  PROVE  NotOfRack(q \o msgs)
<1>1. /\ Len(q) \in Nat /\ Len(msgs) \in Nat /\ Len(q \o msgs) = Len(q) + Len(msgs)
      /\ \A i \in 1..Len(q) : (q \o msgs)[i] = q[i]
      /\ \A i \in 1..(Len(q) + Len(msgs)) : i > Len(q) => (q \o msgs)[i] = msgs[i - Len(q)]
  BY LenProperties, ConcatProperties
<1> SUFFICES ASSUME NEW i \in 1..(Len(q) + Len(msgs))
             PROVE  (q \o msgs)[i].type \notin FxTypes
  BY <1>1 DEF NotOfRack
<1>2. CASE i \in 1..Len(q)
  BY <1>1, <1>2 DEF NotOfRack
<1>3. CASE i \notin 1..Len(q)
  <2>1. i > Len(q) /\ i - Len(q) \in 1..Len(msgs)
    BY <1>1, <1>3
  <2> QED
    BY <1>1, <2>1 DEF NotOfRack
<1> QED
  BY <1>2, <1>3

LEMMA NotOfRackTail ==
  ASSUME NEW S, NEW q \in Seq(S), q # <<>>, NotOfRack(q)
  PROVE  NotOfRack(Tail(q)) /\ Head(q).type \notin FxTypes
<1>1. /\ Head(q) = q[1] /\ Len(q) \in Nat /\ Len(q) >= 1 /\ Len(Tail(q)) = Len(q) - 1
      /\ \A i \in 1..Len(Tail(q)) : Tail(q)[i] = q[i + 1]
  BY OneLess
<1>2. 1 \in 1..Len(q) /\ \A i \in 1..Len(Tail(q)) : i + 1 \in 1..Len(q)
  BY <1>1
<1> QED
  BY <1>1, <1>2 DEF NotOfRack

LEMMA ReportsEmit ==
  ASSUME NEW S, NEW ev \in Seq(S), NEW e \in S, e.type \notin {"console-params", "fx-error"},
         NEW q, NEW r, ReportsRack(q, ev, r)
  PROVE  ReportsRack(q, ev \o <<e>>, r)
<1> DEFINE f == ev \o <<e>>
           n == Len(ev)
<1>1. /\ n \in Nat /\ Len(f) = n + 1 /\ f[n + 1] = e
      /\ \A i \in 1..n : f[i] = ev[i]
  BY OneMore
<1>2. PICK i \in 1..n :
        /\ TellsRack(ev[i], r)
        /\ \A j \in 1..n : j > i => ev[j].type \notin {"console-params", "fx-error"}
  BY DEF ReportsRack
<1> HIDE DEF f, n
<1>3. i \in 1..Len(f) /\ \A j \in 1..Len(f) : j \in 1..n \/ j = n + 1
  BY <1>1
<1>4. TellsRack(f[i], r)
  BY <1>1, <1>2
<1>5. \A j \in 1..Len(f) : j > i => f[j].type \notin {"console-params", "fx-error"}
  BY <1>1, <1>2, <1>3
<1>6. ReportsRack(q, f, r)
  BY <1>3, <1>4, <1>5 DEF ReportsRack
<1> QED
  BY <1>6 DEF f

\* The report is the last of its kind, so it is settled once it is applied.
LEMMA ReportsReply ==
  ASSUME NEW S, NEW ev \in Seq(S), ev # <<>>, NEW q, NEW r, ReportsRack(q, ev, r)
  PROVE  \/ ReportsRack(q, Tail(ev), r)
         \/ /\ TellsRack(Head(ev), r)
            /\ \A j \in 1..Len(Tail(ev)) :
                 Tail(ev)[j].type \notin {"console-params", "fx-error"}
<1> DEFINE t == Tail(ev)
           n == Len(t)
<1>1. /\ Head(ev) = ev[1] /\ Len(ev) \in Nat /\ Len(ev) >= 1 /\ n = Len(ev) - 1
      /\ \A i \in 1..n : t[i] = ev[i + 1]
  BY OneLess
<1>2. PICK i \in 1..Len(ev) :
        /\ TellsRack(ev[i], r)
        /\ \A j \in 1..Len(ev) : j > i => ev[j].type \notin {"console-params", "fx-error"}
  BY DEF ReportsRack
<1> HIDE DEF t, n
<1>3. \A j \in 1..n : j + 1 \in 1..Len(ev)
  BY <1>1
<1>4. CASE i = 1
  <2>1. \A j \in 1..n : j + 1 > i
    BY <1>4
  <2>2. \A j \in 1..n : t[j].type \notin {"console-params", "fx-error"}
    BY <1>1, <1>2, <1>3, <2>1
  <2> QED
    BY <1>1, <1>2, <1>4, <2>2 DEF t, n
<1>5. CASE i # 1
  <2> DEFINE k == i - 1
  <2>1. k \in 1..n /\ k + 1 = i /\ \A j \in 1..n : j > k => j + 1 > i
    BY <1>1, <1>5
  <2> HIDE DEF k
  <2>2. TellsRack(t[k], r)
    BY <1>1, <1>2, <2>1
  <2>3. \A j \in 1..n : j > k => t[j].type \notin {"console-params", "fx-error"}
    BY <1>1, <1>2, <1>3, <2>1
  <2>4. ReportsRack(q, t, r)
    BY <2>1, <2>2, <2>3 DEF ReportsRack, n
  <2> QED
    BY <2>4 DEF t
<1> QED
  BY <1>4, <1>5
--------------------------------------------------------------------------------
(* What the user does, and the chains *)

\* Something is posted that is not about the rack.
LEMMA PostedApart ==
  ASSUME Shapes, ChainsMirror, NEW msgs \in Seq(Ask), NotOfRack(msgs), ctl' = ctl \o msgs,
         UNCHANGED <<events, rack, fxChains, fxPending>>, parted => parted'
  PROVE  ChainsMirror'
<1>1. ctl \in Seq(Ask)
  BY DEF Shapes, PortOK
<1>2. CASE parted
  BY <1>2 DEF ChainsMirror
<1>3. CASE RowsAwaited(ctl, events)
  <2>1. RowsAwaited(ctl \o msgs, events)
    BY <1>1, <1>3, AwaitedMore
  <2> QED
    BY <2>1 DEF ChainsMirror
<1>4. CASE ReportsRack(ctl, events, rack)
  <2>1. ReportsRack(ctl \o msgs, events, rack)
    BY <1>1, <1>4, NotOfRackMore DEF ReportsRack
  <2> QED
    BY <2>1 DEF ChainsMirror
<1>5. CASE RowsInStep(ctl, events, fxChains, fxPending, rack)
  <2>1. RowsInStep(ctl \o msgs, events, fxChains, fxPending, rack)
    BY <1>1, <1>5, RowApart DEF RowsInStep, NotOfRack
  <2> QED
    BY <2>1 DEF ChainsMirror
<1> QED
  BY <1>2, <1>3, <1>4, <1>5 DEF ChainsMirror

LEMMA StripSettersApart ==
  ASSUME Shapes, ChainsMirror, NEW t \in Pair,
         \/ \E g \in Gains : SetStereoGain(t, g)
         \/ \E v \in Values : SetStereoCompParam(t, v)
         \/ \E on \in BOOLEAN : SetStereoCompEnabled(t, on)
  PROVE  ChainsMirror'
<1>1. ASSUME NEW a \in Ask, NEW b \in Ask, a.type \notin FxTypes, b.type \notin FxTypes
      PROVE  <<a, b>> \in Seq(Ask) /\ NotOfRack(<<a, b>>)
  <2>1. Len(<<a, b>>) = 2 /\ <<a, b>>[1] = a /\ <<a, b>>[2] = b
    OBVIOUS
  <2>2. \A i \in 1..2 : i = 1 \/ i = 2
    OBVIOUS
  <2> QED
    BY <1>1, <2>1, <2>2 DEF NotOfRack
<1>2. ASSUME NEW msgs \in Seq(Ask), NotOfRack(msgs), Post(msgs, Untimely),
             UNCHANGED <<fxChains, fxPending>>
      PROVE  ChainsMirror'
  BY <1>2, PostedApart DEF Post, core
<1>3. 2 * t \in Strip /\ 2 * t + 1 \in Strip
  BY Pairing
<1>4. ASSUME NEW c \in Strip
      PROVE  /\ \A g \in Level : SetGain(c, g) \in Ask /\ SetGain(c, g).type \notin FxTypes
             /\ \A v \in Level :
                  SetCompParam(c, v) \in Ask /\ SetCompParam(c, v).type \notin FxTypes
             /\ \A on : SwitchComp(c, on) \in Ask /\ SwitchComp(c, on).type \notin FxTypes
  BY DEF SetGain, SetCompParam, SwitchComp, Ask, Message, FxTypes
<1>5. ASSUME NEW g \in Gains, SetStereoGain(t, g) PROVE ChainsMirror'
  <2> DEFINE msgs == <<SetGain(2 * t, g), SetGain(2 * t + 1, g)>>
  <2>1. g \in Level
    BY Constants DEF Level
  <2>2. msgs \in Seq(Ask) /\ NotOfRack(msgs)
    BY <1>1, <1>3, <1>4, <2>1
  <2>3. Post(msgs, Untimely) /\ UNCHANGED <<fxChains, fxPending>>
    BY <1>5 DEF SetStereoGain, WriteBoth
  <2> HIDE DEF msgs
  <2> QED
    BY <1>2, <2>2, <2>3
<1>6. ASSUME NEW v \in Values, SetStereoCompParam(t, v) PROVE ChainsMirror'
  <2> DEFINE msgs == <<SetCompParam(2 * t, v), SetCompParam(2 * t + 1, v)>>
  <2>1. v \in Level
    BY Constants DEF Level
  <2>2. msgs \in Seq(Ask) /\ NotOfRack(msgs)
    BY <1>1, <1>3, <1>4, <2>1
  <2>3. Post(msgs, Untimely) /\ UNCHANGED <<fxChains, fxPending>>
    BY <1>6 DEF SetStereoCompParam, WriteBoth
  <2> HIDE DEF msgs
  <2> QED
    BY <1>2, <2>2, <2>3
<1>7. ASSUME NEW on \in BOOLEAN, SetStereoCompEnabled(t, on) PROVE ChainsMirror'
  <2> DEFINE a == stereo[t].comp
             switches == <<SwitchComp(2 * t, on), SwitchComp(2 * t + 1, on)>>
             params == <<SetCompParam(2 * t, a), SetCompParam(2 * t + 1, a)>>
             msgs == switches \o (IF on THEN params ELSE <<>>)
  <2>1. a \in Level
    BY DEF Shapes, StoreOK, View
  <2>2. switches \in Seq(Ask) /\ NotOfRack(switches)
    BY <1>1, <1>3, <1>4
  <2>3. params \in Seq(Ask) /\ NotOfRack(params)
    <3> HIDE DEF a
    <3> QED
      BY <1>1, <1>3, <1>4, <2>1
  <2>4. Post(msgs, Untimely) /\ UNCHANGED <<fxChains, fxPending>>
    <3>1. Post(msgs, Untimely)
      BY <1>7, Zenon DEF SetStereoCompEnabled, PushStereoCompParams
    <3>2. UNCHANGED <<fxChains, fxPending>>
      BY <1>7 DEF SetStereoCompEnabled, WriteBoth
    <3> QED
      BY <3>1, <3>2
  <2> HIDE DEF switches, params
  <2>5. msgs \in Seq(Ask) /\ NotOfRack(msgs)
    BY <2>2, <2>3, ConcatProperties, ConcatEmptySeq, NotOfRackMore
  <2> HIDE DEF msgs
  <2> QED
    BY <1>2, <2>4, <2>5
<1> QED
  BY <1>5, <1>6, <1>7

\* A write that is neither untimely nor on an unanswered slot.
LEMMA FxWriteChains ==
  ASSUME Shapes, ChainsMirror, NEW p \in Pair, NEW key \in Slot, NEW slots \in SUBSET Slot,
         NEW row, NEW m \in Ask, m.type \in FxTypes, m.pair = p,
         \A s \in Slot : /\ Touches(m, p, s) <=> s \in slots
                         /\ row[s] = SlotAfter(p, s, m, fxChains[p])
                         /\ Sets(m, p, s) => s = key /\ slots = {s}
                         /\ Turns(m, p, s) => fxChains[p][s].fx = m.fx,
         key \in slots, WriteRow(p, key, slots, row, m)
  PROVE  ChainsMirror'
<1>1. ctl \in Seq(Ask) /\ events \in Seq(Answer)
  BY DEF Shapes, PortOK
<1> DEFINE snapshot == [s \in slots |-> fxChains[p][s]]
<1>2. /\ fxPending' = [fxPending EXCEPT ![p][key] = snapshot]
      /\ fxChains' = [fxChains EXCEPT ![p] = row]
      /\ ctl' = ctl \o <<m>> /\ UNCHANGED <<events, rack>>
      /\ parted' = (parted \/ (Untimely \/ Unanswered(p, slots)))
  BY DEF WriteRow, Post, core
<1>3. <<m>> \in Seq(Ask)
  OBVIOUS
<1>4. CASE parted'
  BY <1>4 DEF ChainsMirror
<1>5. CASE RowsAwaited(ctl, events)
  <2>1. RowsAwaited(ctl \o <<m>>, events)
    BY <1>1, <1>3, <1>5, AwaitedMore
  <2> QED
    BY <1>2, <2>1 DEF ChainsMirror
<1>6. DOMAIN ctl = 1..Len(ctl) /\ DOMAIN events = 1..Len(events)
  BY <1>1, LenProperties
<1>7. CASE ReportsRack(ctl, events, rack)
  <2>1. Untimely
    BY <1>6, <1>7 DEF ReportsRack, TellsRack, Untimely, OfType
  <2> QED
    BY <1>2, <2>1 DEF ChainsMirror
<1>8. CASE ~parted' /\ RowsInStep(ctl, events, fxChains, fxPending, rack)
  <2>1. ~Unanswered(p, slots)
    BY <1>2, <1>8
  <2>2. ASSUME NEW s \in slots
        PROVE  ~Refused(events, p, s) /\ \A i \in 1..Len(ctl) : ~Sets(ctl[i], p, s)
    BY <1>6, <2>1 DEF Unanswered, OfType, Refused, IsRefusal, Sets
  <2>3. snapshot # None /\ DOMAIN snapshot = slots
        /\ \A s \in slots : snapshot[s] = fxChains[p][s]
    <3>1. fxChains[p] \in [Slot -> FxView]
      BY DEF Shapes, StoreOK
    <3>2. snapshot \in Rows
      BY <3>1 DEF Rows
    <3> QED
      BY <3>2, AbsenceAssumption
  <2> HIDE DEF snapshot
  <2>4. fxPending \in [Pair -> [Slot -> Rows \cup {None}]] /\ fxChains \in [Pair -> [Slot -> FxView]]
    BY DEF Shapes, StoreOK
  <2>5. m.type = "move-fx-slot" => m.from \in Slot /\ m.to \in Slot
    BY AskTypes
  <2>6. ASSUME NEW a \in Pair
        PROVE  RowInStep(a, ctl \o <<m>>, events, fxChains'[a], fxPending'[a], RowOf(rack, a))
    <3>1. RowInStep(a, ctl, events, fxChains[a], fxPending[a], RowOf(rack, a))
      BY <1>8 DEF RowsInStep
    <3> DEFINE x == RowOf(rack, a)
    <3> HIDE DEF x
    <3>2. RowInStep(a, ctl, events, fxChains[a], fxPending[a], x)
      BY <3>1 DEF x
    <3>3. CASE a = p
      <4>1. fxChains'[a] = row
        BY <1>2, <2>4, <3>3
      <4>2. \A s \in Slot : fxPending'[a][s] = IF s = key THEN snapshot ELSE fxPending[a][s]
        BY <1>2, <2>4, <3>3
      <4>3. \A s \in Slot : Sets(m, a, s) => RollsBack(fxPending'[a], s, fxChains[a][s])
        BY <2>3, <3>3, <4>2 DEF RollsBack
      <4>4. \A s \in Slot : IF Touches(m, a, s)
                            THEN /\ ~Refused(events, a, s)
                                 /\ \A i \in 1..Len(ctl) : ~Sets(ctl[i], a, s)
                            ELSE fxPending'[a][s] = fxPending[a][s]
        BY <2>2, <3>3, <4>2
      <4>5. \A s \in Slot : fxChains'[a][s] = SlotAfter(a, s, m, fxChains[a])
        BY <3>3, <4>1
      <4>6. \A s \in Slot : Turns(m, a, s) => fxChains[a][s].fx = m.fx
        BY <3>3
      <4>7. RowInStep(a, ctl \o <<m>>, events, fxChains'[a], fxPending'[a], x)
        BY <1>1, <2>5, <3>2, <4>3, <4>4, <4>5, <4>6, RowWrite
      <4> QED
        BY <4>7 DEF x
    <3>4. CASE a # p
      <4>1. fxChains'[a] = fxChains[a] /\ fxPending'[a] = fxPending[a]
        BY <1>2, <2>4, <3>4
      <4>2. \A s : ~Touches(m, a, s) /\ ~Sets(m, a, s) /\ ~Turns(m, a, s)
        BY <3>4 DEF Touches, Sets, Turns
      <4>3. \A s \in Slot : fxChains[a][s] = SlotAfter(a, s, m, fxChains[a])
        BY <4>2 DEF SlotAfter
      <4>4. RowInStep(a, ctl \o <<m>>, events, fxChains[a], fxPending[a], x)
        BY <1>1, <2>5, <3>2, <4>2, <4>3, RowWrite
      <4> QED
        BY <4>1, <4>4 DEF x
    <3> QED
      BY <3>3, <3>4
  <2>7. RowsInStep(ctl', events', fxChains', fxPending', rack')
    BY <1>2, <1>8, <2>6 DEF RowsInStep
  <2> QED
    BY <2>7 DEF ChainsMirror
<1>9. parted => parted'
  BY <1>2
<1> QED
  BY <1>4, <1>5, <1>7, <1>8, <1>9 DEF ChainsMirror

LEMMA FxSettersChains ==
  ASSUME Shapes, ChainsMirror, NEW p \in Pair, NEW s \in Slot,
         \/ \E fx \in Effect \cup {None} : SetFxSlot(p, s, fx)
         \/ \E on \in BOOLEAN : SetFxEnabled(p, s, on)
         \/ \E v \in Values : SetFxParam(p, s, v)
         \/ \E to \in Slot : MoveFxSlot(p, s, to)
  PROVE  ChainsMirror'
<1> DEFINE row == fxChains[p]
<1>1. row \in [Slot -> FxView]
  BY DEF Shapes, StoreOK
<1>2. {s} \in SUBSET Slot /\ s \in {s}
  OBVIOUS
<1>3. ASSUME NEW fx \in Effect \cup {None}, SetFxSlot(p, s, fx) PROVE ChainsMirror'
  <2> DEFINE m == [type |-> "set-fx-slot", pair |-> p, slot |-> s, fx |-> fx]
             new == [row EXCEPT ![s] = Fresh(fx)]
  <2>1. m \in Ask /\ m.type \in FxTypes /\ m.pair = p
    BY DEF Ask, Message, FxTypes
  <2>2. WriteRow(p, s, {s}, new, m)
    BY <1>3, Zenon DEF SetFxSlot, Fresh
  <2>3. m.type = "set-fx-slot" /\ m.slot = s /\ m.fx = fx
    OBVIOUS
  <2> HIDE DEF m
  <2>4. \A t \in Slot : /\ Touches(m, p, t) <=> t \in {s}
                        /\ new[t] = SlotAfter(p, t, m, row)
                        /\ Sets(m, p, t) => t = s /\ {s} = {t}
                        /\ Turns(m, p, t) => row[t].fx = m.fx
    BY <1>1, <2>1, <2>3 DEF Touches, SlotAfter, Sets, Turns
  <2> HIDE DEF new
  <2> QED
    BY <1>2, <2>1, <2>2, <2>4, FxWriteChains
<1>4. ASSUME NEW on \in BOOLEAN, SetFxEnabled(p, s, on) PROVE ChainsMirror'
  <2> DEFINE m == [type |-> "set-fx-enabled", pair |-> p, slot |-> s, on |-> on]
             new == [row EXCEPT ![s].enabled = on]
  <2>1. m \in Ask /\ m.type \in FxTypes /\ m.pair = p
    BY DEF Ask, Message, FxTypes
  <2>2. WriteRow(p, s, {s}, new, m) /\ row[s].fx # None
    BY <1>4, Zenon DEF SetFxEnabled
  <2>3. m.type = "set-fx-enabled" /\ m.slot = s /\ m.on = on
    OBVIOUS
  <2> HIDE DEF m
  <2>4. \A t \in Slot : /\ Touches(m, p, t) <=> t \in {s}
                        /\ new[t] = SlotAfter(p, t, m, row)
                        /\ Sets(m, p, t) => t = s /\ {s} = {t}
                        /\ Turns(m, p, t) => row[t].fx = m.fx
    BY <1>1, <2>1, <2>2, <2>3 DEF Touches, SlotAfter, Sets, Turns
  <2> HIDE DEF new
  <2> QED
    BY <1>2, <2>1, <2>2, <2>4, FxWriteChains
<1>5. ASSUME NEW v \in Values, SetFxParam(p, s, v) PROVE ChainsMirror'
  <2> DEFINE m == [type |-> "set-fx-param", pair |-> p, slot |-> s, value |-> v,
                   fx |-> row[s].fx]
             new == [row EXCEPT ![s].params = v]
  <2>1. m \in Ask /\ m.type \in FxTypes /\ m.pair = p
    BY <1>5, TurnedEffect DEF Ask, Message, Params, FxTypes
  <2>2. WriteRow(p, s, {s}, new, m) /\ row[s].fx # None
    BY <1>5, Zenon DEF SetFxParam
  <2>3. m.type = "set-fx-param" /\ m.slot = s /\ m.value = v /\ m.fx = row[s].fx
    OBVIOUS
  <2> HIDE DEF m
  <2>4. \A t \in Slot : /\ Touches(m, p, t) <=> t \in {s}
                        /\ new[t] = SlotAfter(p, t, m, row)
                        /\ Sets(m, p, t) => t = s /\ {s} = {t}
                        /\ Turns(m, p, t) => row[t].fx = m.fx
    BY <1>1, <2>1, <2>2, <2>3 DEF Touches, SlotAfter, Sets, Turns
  <2> HIDE DEF new
  <2> QED
    BY <1>2, <2>1, <2>2, <2>4, FxWriteChains
<1>6. ASSUME NEW to \in Slot, MoveFxSlot(p, s, to) PROVE ChainsMirror'
  <2> DEFINE m == [type |-> "move-fx-slot", pair |-> p, from |-> s, to |-> to]
             new == [i \in Slot |-> row[F!MovedFrom(s, to, i)]]
  <2>1. m \in Ask /\ m.type \in FxTypes /\ m.pair = p
    BY DEF Ask, Message, FxTypes
  <2>2. WriteRow(p, s, Slot, new, m)
    BY <1>6, Zenon DEF MoveFxSlot
  <2>3. m.type = "move-fx-slot" /\ m.from = s /\ m.to = to
    OBVIOUS
  <2> HIDE DEF m
  <2>4. \A t \in Slot : /\ Touches(m, p, t) <=> t \in Slot
                        /\ new[t] = SlotAfter(p, t, m, row)
                        /\ Sets(m, p, t) => t = s /\ Slot = {t}
                        /\ Turns(m, p, t) => row[t].fx = m.fx
    BY <2>1, <2>3 DEF Touches, SlotAfter, Sets, Turns
  <2> HIDE DEF new
  <2> QED
    BY <2>1, <2>2, <2>4, FxWriteChains
<1> QED
  BY <1>3, <1>4, <1>5, <1>6

LEMMA UserChains ==
  ASSUME Shapes, ChainsMirror, User
  PROVE  ChainsMirror'
<1>1. ASSUME NEW m \in Ask, m.type \notin FxTypes, Post(<<m>>, FALSE), UNCHANGED store
      PROVE  ChainsMirror'
  <2>1. <<m>> \in Seq(Ask) /\ Len(<<m>>) = 1 /\ <<m>>[1] = m
    OBVIOUS
  <2>2. NotOfRack(<<m>>)
    BY <1>1, <2>1 DEF NotOfRack
  <2> QED
    BY <1>1, <2>1, <2>2, PostedApart DEF Post, store, core
<1>2. CASE SendSceneSave
  <2> DEFINE m == [type |-> "scene-save"]
  <2>1. m \in Ask /\ m.type \notin FxTypes
    BY DEF Ask, Message, FxTypes
  <2>2. Post(<<m>>, FALSE) /\ UNCHANGED store
    BY <1>2 DEF SendSceneSave
  <2> HIDE DEF m
  <2> QED
    BY <1>1, <2>1, <2>2
<1>3. ASSUME NEW id \in chips, NEW dur \in Durations \cup {0}, SendSceneRecall(id, dur)
      PROVE  ChainsMirror'
  <2> DEFINE m == [type |-> "scene-recall", id |-> id, dur |-> dur]
  <2>1. id \in Saved /\ id \in 1..MaxScene
    BY DEF Shapes, StoreOK, Saved
  <2>2. m \in Ask /\ m.type \notin FxTypes
    BY <2>1 DEF Ask, Message, FxTypes
  <2>3. Post(<<m>>, FALSE) /\ UNCHANGED store
    BY <1>3 DEF SendSceneRecall
  <2> HIDE DEF m
  <2> QED
    BY <1>1, <2>2, <2>3
<1>4. ASSUME NEW t \in Pair,
             \/ \E g \in Gains : SetStereoGain(t, g)
             \/ \E v \in Values : SetStereoCompParam(t, v)
             \/ \E on \in BOOLEAN : SetStereoCompEnabled(t, on)
      PROVE  ChainsMirror'
  BY <1>4, StripSettersApart
<1> QED
  BY <1>2, <1>3, <1>4, FxSettersChains DEF User

LEMMA EmitsInStep ==
  ASSUME NEW S, NEW ev \in Seq(S), NEW e, e.type \notin {"console-params", "fx-error"},
         NEW q, NEW shown, NEW held, NEW r, RowsInStep(q, ev, shown, held, r)
  PROVE  RowsInStep(q, ev \o <<e>>, shown, held, r)
<1> DEFINE f == ev \o <<e>>
           n == Len(ev)
<1>1. ev \in Seq(S \cup {e}) /\ e \in S \cup {e}
  BY SeqMonotonic
<1>2. /\ n \in Nat /\ Len(f) = n + 1 /\ f[n + 1] = e
      /\ \A i \in 1..n : f[i] = ev[i]
  BY <1>1, OneMore
<1>3. \A p, s : ~IsRefusal(e, p, s)
  BY DEF IsRefusal
<1>4. \A p \in Pair : RowInStep(p, q, f, shown[p], held[p], RowOf(r, p))
  BY <1>1, <1>3, RowEmit DEF RowsInStep
<1> HIDE DEF f, n
<1>5. \A i \in 1..Len(f) : i \in 1..n \/ i = n + 1
  BY <1>2
<1>6. \A i \in 1..Len(f) : f[i].type # "console-params"
  BY <1>2, <1>5 DEF RowsInStep, n
<1>7. RowsInStep(q, f, shown, held, r)
  BY <1>4, <1>6 DEF RowsInStep
<1> QED
  BY <1>7 DEF f
--------------------------------------------------------------------------------
(* The worklet's messages and the chains *)

LEMMA RowIs ==
  ASSUME NEW r, NEW p
  PROVE  RowOf(r, p) = [s \in Slot |-> RowOf(r, p)[s]]
BY DEF RowOf

\* A message that is not about the rack, and no recall, is taken.
LEMMA PassedChains ==
  ASSUME Shapes, ChainsMirror, ctl # <<>>, ctl' = Tail(ctl), UNCHANGED <<store, rack>>,
         Head(ctl).type \notin FxTypes \cup {"get-params", "scene-recall"},
         \/ events' = events
         \/ \E e : /\ e.type \notin {"console-params", "fx-error"}
                   /\ events' = events \o <<e>>,
         parted => parted'
  PROVE  ChainsMirror'
<1>1. ctl \in Seq(Ask) /\ events \in Seq(Answer) /\ UNCHANGED <<fxChains, fxPending>>
  BY DEF Shapes, PortOK, store
<1>2. CASE parted
  BY <1>2 DEF ChainsMirror
<1>3. CASE RowsAwaited(ctl, events)
  <2>1. RowsAwaited(Tail(ctl), events)
    BY <1>1, <1>3, AwaitedTail
  <2>2. ASSUME NEW e, events' = events \o <<e>> PROVE RowsAwaited(Tail(ctl), events')
    <3>1. events \in Seq(Answer \cup {e})
      BY <1>1, SeqMonotonic
    <3> QED
      BY <2>1, <2>2, <3>1, AwaitedEmit
  <2>3. RowsAwaited(Tail(ctl), events')
    BY <2>1, <2>2
  <2> QED
    BY <2>3 DEF ChainsMirror
<1>4. CASE ReportsRack(ctl, events, rack)
  <2>1. ReportsRack(Tail(ctl), events, rack)
    BY <1>1, <1>4, NotOfRackTail DEF ReportsRack
  <2>2. ASSUME NEW e, e.type \notin {"console-params", "fx-error"}, events' = events \o <<e>>
        PROVE  ReportsRack(Tail(ctl), events', rack)
    <3>1. events \in Seq(Answer \cup {e})
      BY <1>1, SeqMonotonic
    <3> QED
      BY <2>1, <2>2, <3>1, ReportsEmit
  <2>3. ReportsRack(Tail(ctl), events', rack)
    BY <2>1, <2>2
  <2> QED
    BY <2>3 DEF ChainsMirror
<1>5. CASE RowsInStep(ctl, events, fxChains, fxPending, rack)
  <2>1. \A p, s : ~Touches(Head(ctl), p, s)
    BY DEF Touches
  <2>2. \A p \in Pair : RowInStep(p, Tail(ctl), events, fxChains[p], fxPending[p], RowOf(rack, p))
    BY <1>1, <1>5, <2>1, RowIs, RowPassed DEF RowsInStep
  <2>3. RowsInStep(Tail(ctl), events, fxChains, fxPending, rack)
    BY <1>5, <2>2 DEF RowsInStep
  <2>4. ASSUME NEW e, e.type \notin {"console-params", "fx-error"}, events' = events \o <<e>>
        PROVE  RowsInStep(Tail(ctl), events', fxChains, fxPending, rack)
    BY <1>1, <2>3, <2>4, EmitsInStep
  <2>5. RowsInStep(Tail(ctl), events', fxChains, fxPending, rack)
    BY <2>3, <2>4
  <2> QED
    BY <1>1, <2>5 DEF ChainsMirror
<1> QED
  BY <1>2, <1>3, <1>4, <1>5 DEF ChainsMirror

LEMMA SetFxChains ==
  ASSUME Shapes, ChainsMirror, ctl # <<>>, Len(events) < MaxQueue, ctl' = Tail(ctl), SetFx,
         UNCHANGED store
  PROVE  ChainsMirror'
<1> DEFINE m == Head(ctl)
           e == [type |-> "fx-error", pair |-> m.pair, slot |-> m.slot]
<1>1. /\ ctl \in Seq(Ask) /\ events \in Seq(Answer) /\ UNCHANGED <<fxChains, fxPending>>
      /\ FP!RackOK(rack)
  BY DEF Shapes, PortOK, CoreOK, store
<1>2. m \in Ask /\ m.type \in FxTypes /\ UNCHANGED parted
  BY CtlHead DEF SetFx, FxTypes, Shapes
<1>3. \/ UNCHANGED events /\ Accepts(rack, rack', m)
      \/ events' = events \o <<e>> /\ rack' = rack /\ MayRefuse(m)
  <2>1. CASE /\ ~MustRefuse(m) /\ UNCHANGED events
             /\ rack' =
                  CASE m.type = "set-fx-slot" -> F!SetSlot(rack, m.pair, m.slot, m.fx)
                    [] m.type = "set-fx-enabled" -> F!SetEnabled(rack, m.pair, m.slot, m.on)
                    [] m.type = "set-fx-param" -> F!SetParam(rack, m.pair, m.slot, m.value)
                    [] m.type = "move-fx-slot" -> F!MoveSlot(rack, m.pair, m.from, m.to)
    <3>1. m.type = "set-fx-slot" => FP!FitsBudget(rack, m.pair, m.slot, m.fx)
      BY <2>1, SameRack DEF MustRefuse
    <3>2. /\ m.type = "set-fx-slot" => rack' = FP!SetSlot(rack, m.pair, m.slot, m.fx)
          /\ m.type = "set-fx-enabled" => rack' = FP!SetEnabled(rack, m.pair, m.slot, m.on)
          /\ m.type = "set-fx-param" => rack' = FP!SetParam(rack, m.pair, m.slot, m.value)
          /\ m.type = "move-fx-slot" => rack' = FP!MoveSlot(rack, m.pair, m.from, m.to)
      BY <2>1, SameRack, SameMove
    <3> HIDE DEF m
    <3> QED
      BY <2>1, <3>1, <3>2 DEF Accepts
  <2> QED
    BY <2>1 DEF SetFx, Emit
<1>5. m.type \notin {"get-params", "scene-recall"}
  BY <1>2 DEF FxTypes
<1>6. e.type = "fx-error" /\ e.pair = m.pair /\ e.slot = m.slot
  OBVIOUS
<1> HIDE DEF e
<1>7. CASE parted
  BY <1>2, <1>7 DEF ChainsMirror
<1>8. CASE RowsAwaited(ctl, events)
  <2>1. RowsAwaited(Tail(ctl), events)
    BY <1>1, <1>5, <1>8, AwaitedTail
  <2>2. events \in Seq(Answer \cup {e})
    BY <1>1, SeqMonotonic
  <2>3. RowsAwaited(Tail(ctl), events \o <<e>>)
    BY <2>1, <2>2, AwaitedEmit
  <2>4. RowsAwaited(Tail(ctl), events')
    BY <1>3, <2>1, <2>3
  <2> QED
    BY <2>4 DEF ChainsMirror
<1>9. CASE ReportsRack(ctl, events, rack)
  BY <1>1, <1>2, <1>9, NotOfRackTail DEF ReportsRack
<1>10. CASE RowsInStep(ctl, events, fxChains, fxPending, rack)
  <2>1. \A p \in Pair : RowInStep(p, ctl, events, fxChains[p], fxPending[p], RowOf(rack, p))
    BY <1>10 DEF RowsInStep
  <2>2. CASE UNCHANGED events /\ Accepts(rack, rack', m)
    <3>1. ASSUME NEW p \in Pair
          PROVE  RowInStep(p, Tail(ctl), events, fxChains[p], fxPending[p], RowOf(rack', p))
      <4> DEFINE q == rack'
      <4>1. Accepts(rack, q, m)
        BY <2>2
      <4> HIDE DEF q, m
      <4>2. RowOf(q, p) = RowAfter(p, m, RowOf(rack, p))
        BY <1>1, <1>2, <4>1, RowAccepts
      <4>3. RowInStep(p, Tail(ctl), events, fxChains[p], fxPending[p], RowOf(q, p))
        BY <1>1, <2>1, <4>2, RowTail DEF m
      <4> QED
        BY <4>3 DEF q
    <3>2. RowsInStep(Tail(ctl), events, fxChains, fxPending, rack')
      BY <1>10, <3>1 DEF RowsInStep
    <3> QED
      BY <1>1, <2>2, <3>2 DEF ChainsMirror
  <2>3. CASE events' = events \o <<e>> /\ rack' = rack /\ MayRefuse(m)
    <3>0. m.type # "set-fx-param"
      <4> SUFFICES ASSUME m.type = "set-fx-param" PROVE FALSE
        OBVIOUS
      <4>1. m.pair \in Pair /\ m.slot \in Slot /\ m.fx \in Effect
        BY <1>2, AskTypes
      <4> DEFINE a == m.pair
                 b == m.slot
                 x == RowOf(rack, a)
      <4>2. Turns(Head(ctl), a, b)
        BY DEF Turns
      <4>3. x[b] = F!Captured(rack.slot[a][b])
        BY <4>1 DEF RowOf
      <4>4. RowInStep(a, ctl, events, fxChains[a], fxPending[a], x)
        BY <2>1, <4>1
      <4>5. b \in Slot /\ m.fx = Head(ctl).fx
        BY <4>1
      <4> HIDE DEF a, b, x, m
      <4>6. x[b].fx = m.fx
        BY <1>1, <4>2, <4>4, <4>5, HeadFits
      <4>7. rack.slot[a][b].fx = m.fx
        BY <4>3, <4>6, CapturedIs
      <4>8. rack.slot[m.pair][m.slot].fx = m.fx
        BY <4>7 DEF a, b
      <4> QED
        BY <2>3, <4>1, <4>8, Constants DEF MayRefuse, MustRefuse
    <3>1. /\ m.type = "set-fx-slot" /\ m.pair \in Pair /\ m.slot \in Slot
          /\ events' = events \o <<e>> /\ rack' = rack
      BY <1>2, <2>3, <3>0, AskTypes DEF MayRefuse, MustRefuse
    <3>2. events \in Seq(Answer \cup {e}) /\ e \in Answer \cup {e}
      BY <1>1, SeqMonotonic
    <3>3. ASSUME NEW p \in Pair
          PROVE  RowInStep(p, Tail(ctl), events \o <<e>>, fxChains[p], fxPending[p],
                           RowOf(rack, p))
      <4>1. CASE p = m.pair
        <5>1. Sets(m, p, m.slot) /\ \A t : IsRefusal(e, p, t) <=> t = m.slot
          BY <1>6, <3>1, <4>1 DEF Sets, IsRefusal
        <5> QED
          BY <1>1, <2>1, <3>1, <3>2, <5>1, RowIs, RowRefused
      <4>2. CASE p # m.pair
        <5>1. \A s : ~Touches(m, p, s) /\ ~IsRefusal(e, p, s)
          BY <1>6, <4>2 DEF Touches, IsRefusal
        <5>2. RowInStep(p, Tail(ctl), events, fxChains[p], fxPending[p], RowOf(rack, p))
          BY <1>1, <2>1, <5>1, RowIs, RowPassed
        <5> QED
          BY <3>2, <5>1, <5>2, RowEmit
      <4> QED
        BY <4>1, <4>2
    <3> DEFINE f == events \o <<e>>
    <3>4. \A i \in 1..Len(f) : f[i].type # "console-params"
      <4>1. /\ Len(f) = Len(events) + 1 /\ Len(events) \in Nat /\ f[Len(events) + 1] = e
            /\ \A i \in 1..Len(events) : f[i] = events[i]
        BY <3>2, OneMore
      <4> HIDE DEF f
      <4>2. \A i \in 1..Len(f) : i \in 1..Len(events) \/ i = Len(events) + 1
        BY <4>1
      <4> QED
        BY <1>6, <1>10, <4>1, <4>2 DEF RowsInStep
    <3>5. RowsInStep(Tail(ctl), f, fxChains, fxPending, rack)
      BY <3>3, <3>4 DEF RowsInStep
    <3> HIDE DEF f
    <3>6. events' = f
      BY <3>1 DEF f
    <3> QED
      BY <1>1, <3>1, <3>5, <3>6 DEF ChainsMirror
  <2> QED
    BY <1>3, <2>2, <2>3
<1> QED
  BY <1>7, <1>8, <1>9, <1>10 DEF ChainsMirror

LEMMA SceneRecallChains ==
  ASSUME Shapes, SceneRecall
  PROVE  ChainsMirror'
<1> DEFINE e == [type |-> "scene-recalled"]
<1>1. events' = events \o <<e>> /\ e.type = "scene-recalled"
  BY DEF SceneRecall, Emit
<1> HIDE DEF e
<1>2. events \in Seq(Answer \cup {e}) /\ e \in Answer \cup {e}
  BY SeqMonotonic DEF Shapes, PortOK
<1>3. OfType(events', {"scene-recalled"}) # {}
  BY <1>1, <1>2, LastIsThere
<1>4. RowsAwaited(ctl', events')
  BY <1>3 DEF RowsAwaited
<1> QED
  BY <1>4 DEF ChainsMirror

\* An empty slot of the rack is captured as the store shows one.
LEMMA EmptyShown ==
  ASSUME FP!RackOK(rack), NEW p \in Pair, NEW s \in Slot, rack.slot[p][s].fx = None
  PROVE  F!Captured(rack.slot[p][s]) = NoFx
<1> DEFINE x == rack.slot[p][s]
<1>1. x \in FP!SlotState /\ FP!Activated(x) /\ FP!Blank(x)
  BY SameSets DEF FP!RackOK, FP!SlotsOK, FP!SlotOK
<1> HIDE DEF x
<1>2. x.fx = None
  BY DEF x
<1>3. x.enabled = FALSE
  <2>1. ~x.enabled /\ x.enabled \in BOOLEAN
    BY <1>1, <1>2 DEF FP!Activated, FP!SlotState
  <2> QED
    BY <2>1
<1>4. x.params = F!Zeroed
  BY <1>1, <1>2, SyncAssumption, SameSets DEF FP!Blank
<1>5. F!Captured(x) = NoFx
  BY <1>2, <1>3, <1>4 DEF F!Captured, NoFx
<1> QED
  BY <1>5 DEF x

LEMMA GetParamsChains ==
  ASSUME Shapes, ctl # <<>>, ctl' = Tail(ctl), GetParams
  PROVE  ChainsMirror'
<1> DEFINE scene == IF fade = None THEN ConsoleScene ELSE fade.to
           e == ConsoleParams(scene)
           behind == OfType(Tail(ctl), {"scene-save", "scene-recall", "get-params"})
<1>1. /\ Head(ctl).type = "get-params" /\ events' = events \o <<e>> /\ UNCHANGED rack
      /\ parted' = \/ DOMAIN Tail(ctl) \ behind # {}
                   \/ TellsOfOtherChains(scene)
                   \/ parted /\ ~(console.exists \subseteq scene.strips.covers)
  BY DEF GetParams, Emit, core
<1>2. scene \in PlainScenes
  BY ConsoleSceneOK DEF Shapes, CoreOK, PlainFades
<1> DEFINE chain == scene.chains.chain
           covers == scene.chains.covers
<1>3. /\ e.type = "console-params"
      /\ e.chain = [p \in {p \in covers : \E s \in Slot : chain[p][s].fx # None} |-> chain[p]]
  <2> HIDE DEF scene
  <2> QED
    BY DocumentIs
<1>4. CASE parted'
  BY <1>4 DEF ChainsMirror
<1>5. CASE ~parted'
  <2>1. NotOfRack(Tail(ctl))
    <3>1. DOMAIN Tail(ctl) = 1..Len(Tail(ctl)) /\ DOMAIN Tail(ctl) \ behind = {}
      BY <1>1, <1>5, CtlHead, LenProperties DEF Shapes
    <3> SUFFICES ASSUME NEW i \in 1..Len(Tail(ctl)) PROVE Tail(ctl)[i].type \notin FxTypes
      BY DEF NotOfRack
    <3>2. Tail(ctl)[i].type \in {"scene-save", "scene-recall", "get-params"}
      BY <3>1 DEF OfType
    <3> QED
      BY <3>2 DEF FxTypes
  <2>2. /\ \A p \in Pair \ covers, s \in Slot : rack.slot[p][s].fx = None
        /\ F!Restored(rack, scene.chains)
    BY <1>1, <1>5 DEF TellsOfOtherChains
  <2>3. \A p \in covers, s \in Slot :
          IF chain[p][s].fx = None THEN rack.slot[p][s].fx = None
          ELSE F!Captured(rack.slot[p][s]) = chain[p][s]
    BY <2>2, SameSets DEF F!Restored
  <2> HIDE DEF chain, covers, e, scene
  <2>4. FP!RackOK(rack)
    BY DEF Shapes, CoreOK
  <2>5. TellsRack(e, rack)
    <3> SUFFICES ASSUME NEW p \in Pair, NEW s \in Slot
                 PROVE  (IF p \in DOMAIN e.chain /\ e.chain[p][s].fx # None
                         THEN e.chain[p][s] ELSE NoFx) = F!Captured(rack.slot[p][s])
      BY <1>3 DEF TellsRack, RowOf
    <3>1. CASE rack.slot[p][s].fx = None
      <4>1. F!Captured(rack.slot[p][s]) = NoFx
        BY <2>4, <3>1, EmptyShown
      <4>2. p \in covers => chain[p][s].fx = None
        BY <2>3, <3>1, <4>1 DEF NoFx
      <4> QED
        BY <1>3, <4>1, <4>2
    <3>2. CASE rack.slot[p][s].fx # None
      <4>1. p \in covers
        BY <2>2, <3>2
      <4>2. chain[p][s].fx # None /\ F!Captured(rack.slot[p][s]) = chain[p][s]
        BY <2>3, <3>2, <4>1
      <4> QED
        BY <1>3, <4>1, <4>2
    <3> QED
      BY <3>1, <3>2
  <2>6. events \in Seq(Answer \cup {e}) /\ e \in Answer \cup {e}
    BY SeqMonotonic DEF Shapes, PortOK
  <2> DEFINE f == events \o <<e>>
             n == Len(events) + 1
  <2>7. Len(f) = n /\ n \in 1..n /\ f[n] = e
    BY <2>6, OneMore
  <2>8. \A j \in 1..n : ~(j > n)
    BY <2>7
  <2> HIDE DEF f, n
  <2>9. ReportsRack(Tail(ctl), f, rack)
    BY <2>1, <2>5, <2>7, <2>8 DEF ReportsRack
  <2>10. ReportsRack(ctl', events', rack')
    BY <1>1, <2>9 DEF f
  <2> QED
    BY <2>10 DEF ChainsMirror
<1> QED
  BY <1>4, <1>5
--------------------------------------------------------------------------------
(* Replies and the chains *)

LEMMA ReplyChains ==
  ASSUME Shapes, ChainsMirror, Reply
  PROVE  ChainsMirror'
<1> DEFINE m == Head(events)
           q == ctl'
<1>1. /\ events # <<>> /\ events' = Tail(events) /\ UNCHANGED <<rack, parted>>
      /\ ctl \in Seq(Ask) /\ events \in Seq(Answer) /\ m \in Answer
      /\ fxChains \in [Pair -> [Slot -> FxView]]
      /\ fxPending \in [Pair -> [Slot -> Rows \cup {None}]]
  BY EventsHead DEF Reply, core, Shapes, PortOK, StoreOK
<1>2. /\ m = events[1] /\ 1 \in 1..Len(events)
      /\ Len(Tail(events)) \in Nat
      /\ \A i \in 1..Len(Tail(events)) : i + 1 \in 1..Len(events) /\ Tail(events)[i] = events[i + 1]
  BY <1>1, OneLess
<1>3. CASE SceneRecalled
  <2> DEFINE a == [type |-> "get-params"]
  <2>1. ctl' = ctl \o <<a>> /\ a.type = "get-params"
    <3>1. a \in Ask
      BY DEF Ask, Message
    <3>2. ctl' = Append(ctl, a)
      BY <1>3 DEF SceneRecalled
    <3> QED
      BY <1>1, <3>1, <3>2, AppendIsConcat
  <2> HIDE DEF a
  <2>2. ctl \in Seq(Ask \cup {a}) /\ a \in Ask \cup {a}
    BY <1>1, SeqMonotonic
  <2>3. OfType(ctl \o <<a>>, {"get-params", "scene-recall"}) # {}
    BY <2>1, <2>2, LastIsThere
  <2>4. RowsAwaited(ctl', events')
    BY <2>1, <2>3 DEF RowsAwaited
  <2> QED
    BY <2>4 DEF ChainsMirror
<1>4. CASE SceneSaved \/ ApplyFxError \/ ApplyConsoleParams
  <2>1. ctl' = ctl /\ m.type \in {"scene-saved", "fx-error", "console-params"}
    BY <1>4 DEF SceneSaved, ApplyFxError, ApplyConsoleParams
  <2>2. /\ m.type = "scene-saved" => UNCHANGED <<fxChains, fxPending>>
        /\ m.type = "fx-error" => ApplyFxError
        /\ m.type = "console-params" => ApplyConsoleParams
    BY <1>4 DEF SceneSaved, ApplyFxError, ApplyConsoleParams
  <2>3. CASE parted
    BY <1>1, <2>3 DEF ChainsMirror
  <2>4. CASE RowsAwaited(ctl, events)
    <3>1. RowsAwaited(ctl, Tail(events))
      BY <1>1, <2>1, <2>4, AwaitedReply
    <3> QED
      BY <1>1, <2>1, <3>1 DEF ChainsMirror
  <2>5. CASE ReportsRack(ctl, events, rack)
    <3>1. CASE ReportsRack(ctl, Tail(events), rack)
      BY <1>1, <2>1, <3>1 DEF ChainsMirror
    <3>2. CASE /\ TellsRack(m, rack)
               /\ \A j \in 1..Len(Tail(events)) :
                    Tail(events)[j].type \notin {"console-params", "fx-error"}
      <4>1. ApplyConsoleParams
        BY <2>2, <3>2 DEF TellsRack
      <4>2. fxChains' = [p \in Pair |-> [s \in Slot |->
              IF p \in DOMAIN m.chain /\ m.chain[p][s].fx # None THEN m.chain[p][s] ELSE NoFx]]
        BY <4>1 DEF ApplyConsoleParams
      <4>3. ASSUME NEW p \in Pair, NEW s \in Slot PROVE fxChains'[p][s] = RowOf(rack, p)[s]
        <5> HIDE DEF m
        <5> QED
          BY <3>2, <4>2 DEF TellsRack
      <4>4. NotOfRack(ctl) /\ Len(ctl) \in Nat
        BY <1>1, <2>5, LenProperties DEF ReportsRack
      <4>5. \A p, s : ~Refused(Tail(events), p, s)
        BY <3>2 DEF Refused, IsRefusal
      <4>6. ASSUME NEW p \in Pair
            PROVE  RowInStep(p, ctl, Tail(events), fxChains'[p], fxPending'[p], RowOf(rack, p))
        <5> DEFINE x == RowOf(rack, p)
        <5>1. x = [s \in Slot |-> x[s]] /\ \A s \in Slot : fxChains'[p][s] = x[s]
          BY <4>3, RowIs
        <5> HIDE DEF x
        <5>2. RowInStep(p, ctl, Tail(events), fxChains'[p], fxPending'[p], x)
          BY <4>4, <4>5, <5>1, RowSettled DEF NotOfRack
        <5> QED
          BY <5>2 DEF x
      <4>7. RowsInStep(ctl', events', fxChains', fxPending', rack')
        BY <1>1, <2>1, <3>2, <4>6 DEF RowsInStep
      <4> QED
        BY <4>7 DEF ChainsMirror
    <3> QED
      BY <1>1, <2>5, <3>1, <3>2, ReportsReply
  <2>6. CASE RowsInStep(ctl, events, fxChains, fxPending, rack)
    <3>1. /\ \A i \in 1..Len(events) : events[i].type # "console-params"
          /\ \A p \in Pair : RowInStep(p, ctl, events, fxChains[p], fxPending[p], RowOf(rack, p))
      BY <2>6 DEF RowsInStep
    <3>2. m.type # "console-params"
      BY <1>2, <3>1
    <3>3. \A i \in 1..Len(Tail(events)) : Tail(events)[i].type # "console-params"
      BY <1>2, <3>1
    <3>4. ASSUME NEW p \in Pair, \A s : ~IsRefusal(m, p, s)
          PROVE  RowInStep(p, ctl, Tail(events), fxChains[p], fxPending[p], RowOf(rack, p))
      BY <1>1, <3>1, <3>4, RowReply
    <3>5. ASSUME NEW p \in Pair
          PROVE  RowInStep(p, ctl, Tail(events), fxChains'[p], fxPending'[p], RowOf(rack, p))
      <4>1. CASE m.type = "scene-saved"
        <5>1. \A s : ~IsRefusal(m, p, s)
          BY <4>1 DEF IsRefusal
        <5> QED
          BY <2>2, <3>4, <4>1, <5>1
      <4>2. CASE m.type = "fx-error"
        <5> DEFINE snapshot == fxPending[m.pair][m.slot]
                   x == RowOf(rack, p)
        <5>1. /\ fxChains' = [fxChains EXCEPT ![m.pair] = RolledBack(@, snapshot, m.slot)]
              /\ fxPending' = [fxPending EXCEPT ![m.pair][m.slot] = None]
          BY <2>2, <4>2 DEF ApplyFxError
        <5>2. m.pair \in Pair /\ m.slot \in Slot
          BY <1>1, <4>2, AnswerTypes
        <5>3. \A s : IsRefusal(m, p, s) <=> p = m.pair /\ s = m.slot
          BY <4>2 DEF IsRefusal
        <5>4. CASE p # m.pair
          <6>1. fxChains'[p] = fxChains[p] /\ fxPending'[p] = fxPending[p]
            BY <1>1, <5>1, <5>2, <5>4
          <6> QED
            BY <3>4, <5>3, <5>4, <6>1
        <5>5. CASE p = m.pair
          <6> HIDE DEF x
          <6>1. /\ RowInStep(p, ctl, events, fxChains[p], fxPending[p], x)
                /\ \A s : IsRefusal(Head(events), p, s) <=> s = m.slot
            BY <3>1, <5>3, <5>5 DEF x
          <6> HIDE DEF m
          <6>2. /\ fxPending[p][m.slot] # None /\ DOMAIN fxPending[p][m.slot] = {m.slot}
                /\ RolledOver(p, ctl, Tail(events), m.slot, fxChains[p], fxPending[p], x)
            <7>1. events \in Seq(Answer) /\ events # <<>> /\ m.slot \in Slot
              BY <1>1, <5>2
            <7> QED
              BY <6>1, <7>1, RowRolledBack
          <6>3. fxChains'[p] = Over(fxPending[p][m.slot], fxChains[p])
            BY <1>1, <5>1, <5>2, <5>5, <6>2 DEF RolledBack
          <6>4. /\ fxChains'[p][m.slot] = fxPending[p][m.slot][m.slot]
                /\ \A t \in Slot : t # m.slot => fxChains'[p][t] = fxChains[p][t]
            <7>1. DOMAIN fxChains[p] = Slot
              BY <1>1
            <7> QED
              BY <5>2, <6>2, <6>3, <7>1 DEF Over
          <6>5. \A t \in Slot : t # m.slot => fxPending'[p][t] = fxPending[p][t]
            BY <1>1, <5>1, <5>2, <5>5
          <6>6. RowInStep(p, ctl, Tail(events), fxChains'[p], fxPending'[p], x)
            BY <6>2, <6>4, <6>5 DEF RolledOver
          <6> QED
            BY <6>6 DEF x
        <5> QED
          BY <5>4, <5>5
      <4> QED
        BY <2>1, <3>2, <4>1, <4>2
    <3>6. RowsInStep(ctl', events', fxChains', fxPending', rack')
      BY <1>1, <2>1, <3>3, <3>5 DEF RowsInStep
    <3> QED
      BY <3>6 DEF ChainsMirror
  <2> QED
    BY <2>3, <2>4, <2>5, <2>6 DEF ChainsMirror
<1> QED
  BY <1>3, <1>4 DEF Reply
--------------------------------------------------------------------------------
(* The store mirrors the engine *)

LEMMA InitChains == Init => ChainsMirror
<1> SUFFICES ASSUME Init PROVE ChainsMirror
  OBVIOUS
<1>1. ctl = <<>> /\ events = <<>> /\ Len(ctl) = 0 /\ Len(events) = 0
  BY DEF Init
<1>2. \A p, s : ~Refused(events, p, s)
  BY <1>1 DEF Refused
<1>3. Len(ctl) \in Nat /\ \A i \in 1..Len(ctl) : ctl[i].type \notin FxTypes
  BY <1>1
<1>4. ASSUME NEW p \in Pair
      PROVE  RowInStep(p, ctl, events, fxChains[p], fxPending[p], RowOf(rack, p))
  <2> DEFINE x == RowOf(rack, p)
  <2>1. ASSUME NEW s \in Slot PROVE fxChains[p][s] = x[s]
    <3>1. fxChains[p][s] = NoFx
      BY <1>4 DEF Init
    <3>2. rack.slot[p][s] = F!EmptySlot
      BY <1>4, <2>1, SameSets DEF Init, F!Init
    <3>3. F!Captured(F!EmptySlot) = NoFx
      BY DEF NoFx, F!Captured, F!EmptySlot
    <3>4. x[s] = F!Captured(rack.slot[p][s])
      BY <2>1 DEF RowOf
    <3> QED
      BY <3>1, <3>2, <3>3, <3>4
  <2>2. x = [s \in Slot |-> x[s]]
    BY RowIs
  <2> HIDE DEF x
  <2>3. RowInStep(p, ctl, events, fxChains[p], fxPending[p], x)
    BY <1>1, <1>2, <1>3, <2>1, <2>2, RowSettled
  <2> QED
    BY <2>3 DEF x
<1> QED
  BY <1>1, <1>4 DEF ChainsMirror, RowsInStep

LEMMA NextChains == Shapes /\ ChainsMirror /\ [Next]_vars => ChainsMirror'
<1> SUFFICES ASSUME Shapes, ChainsMirror, [Next]_vars PROVE ChainsMirror'
  OBVIOUS
<1>1. CASE User
  BY <1>1, UserChains
<1>2. CASE Worklet
  <2>1. /\ ctl # <<>> /\ Len(events) < MaxQueue /\ ctl' = Tail(ctl) /\ UNCHANGED store
        /\ SetStrip \/ SetFx \/ SceneSave \/ SceneRecall \/ GetParams
    BY <1>2 DEF Worklet
  <2>2. CASE SetStrip
    <3>1. Head(ctl).type \notin FxTypes \cup {"get-params", "scene-recall"}
      BY <2>2 DEF SetStrip, FxTypes
    <3>2. UNCHANGED <<rack, events, parted>>
      BY <2>2 DEF SetStrip
    <3> QED
      BY <2>1, <3>1, <3>2, PassedChains
  <2>3. CASE SceneSave
    <3> DEFINE e == [type |-> "scene-saved", id |-> next_scene_id]
    <3>1. Head(ctl).type \notin FxTypes \cup {"get-params", "scene-recall"}
      BY <2>3 DEF SceneSave, FxTypes
    <3>2. UNCHANGED <<rack, parted>> /\ events' = events \o <<e>>
      BY <2>3 DEF SceneSave, Emit
    <3>3. e.type \notin {"console-params", "fx-error"}
      OBVIOUS
    <3> HIDE DEF e
    <3> QED
      BY <2>1, <3>1, <3>2, <3>3, PassedChains
  <2> QED
    BY <2>1, <2>2, <2>3, SetFxChains, SceneRecallChains, GetParamsChains
<1>3. CASE Reply
  BY <1>3, ReplyChains
<1>4. CASE FadeBlock \/ (\E c \in Strip : StreamArrives(c)) \/ UNCHANGED vars
  <2>1. UNCHANGED <<store, rack, ctl, events, parted>>
    BY <1>4 DEF FadeBlock, StreamArrives, vars, core
  <2> QED
    BY <2>1 DEF ChainsMirror, store
<1> QED
  BY <1>1, <1>2, <1>3, <1>4 DEF Next

LEMMA MirrorInvariance == Spec => [](Shapes /\ Grounds /\ StripsMirror /\ ChainsMirror)
<1>1. Init => Shapes /\ Grounds /\ StripsMirror /\ ChainsMirror
  BY InitShapes, InitMirrors, InitChains
<1>2. Shapes /\ Grounds /\ StripsMirror /\ ChainsMirror /\ [Next]_vars
      => (Shapes /\ Grounds /\ StripsMirror /\ ChainsMirror)'
  BY NextShapes, NextMirrors, NextChains
<1> QED
  BY <1>1, <1>2, PTL DEF Spec

\* For every number of stereo channels, slots and scenes, every length of queue and
\* of fade: at rest, no message or event under way and no fade running, the UI's
\* faders, switches and chain rows show what the mixer plays, whatever setters,
\* scene recalls, refusals, fades and re-read documents crossed on the way - unless
\* the user wrote in one of the windows parted stands for and nothing told since
\* has brought the two together again.
THEOREM StoreAndEngineAgree == Spec => []StoreMirrorsEngine
<1>1. Shapes /\ Grounds /\ StripsMirror /\ ChainsMirror => StoreMirrorsEngine
  <2> SUFFICES ASSUME Shapes, Grounds, StripsMirror, ChainsMirror,
                      ctl = <<>>, events = <<>>, fade = None, ~parted
               PROVE  /\ \A c \in Strip : StripShown(channels[c], c)
                      /\ \A t \in Pair : /\ StripShown(stereo[t], 2 * t)
                                         /\ comp[2 * t] \in {stereo[t].comp, None}
                      /\ \A p \in Pair, s \in Slot :
                           fxChains[p][s] = F!Captured(rack.slot[p][s])
    BY DEF StoreMirrorsEngine
  <2>1. ~RowsAwaited(ctl, events) /\ ~ReportsRack(ctl, events, rack)
    BY DEF RowsAwaited, ReportsRack, OfType
  <2>2. RowsInStep(<<>>, <<>>, fxChains, fxPending, rack)
    BY <2>1 DEF ChainsMirror
  <2>3. ASSUME NEW p \in Pair, NEW s \in Slot
        PROVE  fxChains[p][s] = F!Captured(rack.slot[p][s])
    <3>1. fxChains[p][s] = RowOf(rack, p)[s]
      BY <2>2, RowAtRest DEF RowsInStep
    <3> QED
      BY <3>1 DEF RowOf
  <2> QED
    BY <2>3, StripsShown
<1> QED
  BY <1>1, MirrorInvariance, PTL
================================================================================
