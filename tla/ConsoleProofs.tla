------------------------------ MODULE ConsoleProofs ------------------------------
(****************************************************************************)
(* What holds of the console for every number of inputs, buses and slots,   *)
(* every set of gains and durations and any number of operations.           *)
(*                                                                          *)
(* The setters and the stages of a recall keep a console good: typed, with  *)
(* only existing strips muted or soloed, and engine mutes derived from the  *)
(* user's intent.  Applied puts the stages together into what a recall or a *)
(* fade block makes of each strip and bus.  IInv adds that scenes and fades *)
(* are sound: what they cover, and the strip of each slot they assign,      *)
(* exists.  That is what keeps a recall from creating strips, and with      *)
(* FadeSkipsSoundly what makes its skipped writes right.                    *)
(****************************************************************************)
EXTENDS Console, TLAPS

Consoles ==
  [exists : SUBSET Strip, gain : [Strip -> Level],
   user_muted : SUBSET Strip, soloed : SUBSET Strip,
   engine : SUBSET Strip, main_assign : SUBSET Input,
   bus : [Bus -> BusScenes], master_gain : Level]

Ensured(k) == k.user_muted \cup k.soloed \cup k.engine \subseteq k.exists

Derived(k) ==
  /\ k.user_muted \subseteq k.engine
  /\ \A c \in k.engine : c \in k.user_muted \/ SoloGated(k, c)

Good(k) == k \in Consoles /\ Ensured(k) /\ Derived(k)

LEMMA LerpType ==
  ASSUME NEW a \in Nat, NEW b \in Nat, NEW pos \in Nat, NEW dur \in Nat \ {0},
         pos <= dur
  PROVE  Lerp(a, b, pos, dur) \in Nat
<1>1. (b - a) * pos >= (0 - a) * dur
  <2>1. CASE b >= a
    <3>1. (b - a) * pos >= 0 BY <2>1, Z3
    <3>2. (0 - a) * dur <= 0 BY Z3
    <3> QED BY <3>1, <3>2, Z3
  <2>2. CASE b < a
    <3>1. (a - b) * pos <= (a - b) * dur BY <2>2, Z3
    <3>2. (a - b) * dur <= a * dur BY <2>2, Z3
    <3> QED BY <3>1, <3>2, Z3
  <2> QED BY <2>1, <2>2
<1>2. ((b - a) * pos) \div dur >= 0 - a
  <2> DEFINE x == (b - a) * pos
  <2>1. x \in Int OBVIOUS
  <2>2. x \div dur \in Int /\ x < dur * (x \div dur) + dur BY <2>1, Z3
  <2>3. SUFFICES ASSUME x \div dur < 0 - a PROVE FALSE BY <2>2
  <2>4. x \div dur + 1 <= 0 - a BY <2>2, <2>3
  <2>5. dur * (x \div dur + 1) <= dur * (0 - a) BY <2>2, <2>4, Z3
  <2> QED BY <1>1, <2>1, <2>2, <2>5, Z3
<1> QED BY <1>2 DEF Lerp

LEMMA LerpEnds ==
  ASSUME NEW a \in Nat
  PROVE  Lerp(a, a, 1, 1) = a
BY DEF Lerp
--------------------------------------------------------------------------------
(* The setters keep a console good, and what they touch *)

LEMMA EnsureGood ==
  ASSUME NEW k, Good(k), NEW c \in Strip
  PROVE  Good(EnsureChannel(k, c))
BY DEF Good, Consoles, Ensured, Derived, SoloGated, EnsureChannel

LEMMA GainGood ==
  ASSUME NEW k, Good(k), NEW c \in Strip, NEW g \in Nat
  PROVE  Good(SetGain(k, c, g))
BY DEF Good, Consoles, Ensured, Derived, SoloGated, EnsureChannel, SetGain, Level

LEMMA MuteGood ==
  ASSUME NEW k, Good(k), NEW c \in Strip, NEW muted \in BOOLEAN
  PROVE  Good(SetMute(k, c, muted))
<1> DEFINE n == SetMute(k, c, muted)
<1>1. /\ n.exists = k.exists \cup {c}
      /\ n.user_muted = Put(k.user_muted, c, muted)
      /\ n.soloed = k.soloed
      /\ n.engine = Put(k.engine, c, muted \/ SoloGated(k, c))
      /\ n \in Consoles
  BY DEF Good, Consoles, EnsureChannel, SetMute, Put
<1>2. Ensured(n)
  BY <1>1 DEF Good, Ensured, Put
<1>3. \A i : SoloGated(n, i) <=> SoloGated(k, i)
  BY <1>1 DEF SoloGated
<1>4. Derived(n)
  BY <1>1, <1>3 DEF Good, Derived, Put
<1> QED BY <1>1, <1>2, <1>4 DEF Good

LEMMA DeriveGood ==
  ASSUME NEW k \in Consoles, k.user_muted \cup k.soloed \subseteq k.exists
  PROVE  Good(DeriveMutes(k))
<1> DEFINE n == DeriveMutes(k)
<1>1. /\ n.exists = k.exists /\ n.user_muted = k.user_muted /\ n.soloed = k.soloed
      /\ n.engine = {i \in k.exists : i \in k.user_muted \/ SoloGated(k, i)}
      /\ n \in Consoles
  BY DEF Consoles, DeriveMutes
<1>2. \A i : SoloGated(n, i) <=> SoloGated(k, i)
  BY <1>1 DEF SoloGated
<1> QED BY <1>1, <1>2 DEF Good, Ensured, Derived

LEMMA SoloGood ==
  ASSUME NEW k, Good(k), NEW c \in Strip, NEW soloed \in BOOLEAN
  PROVE  Good(SetSolo(k, c, soloed))
<1> DEFINE n == [EnsureChannel(k, c) EXCEPT !.soloed = Put(@, c, soloed)]
<1>1. n \in Consoles /\ n.user_muted \cup n.soloed \subseteq n.exists
  BY DEF Good, Consoles, Ensured, EnsureChannel, Put
<1> QED BY <1>1, DeriveGood DEF SetSolo

LEMMA AssignGood ==
  ASSUME NEW k, Good(k), NEW c \in Input, NEW on \in BOOLEAN
  PROVE  Good(SetMainAssign(k, c, on))
BY DEF Good, Consoles, Ensured, Derived, SoloGated, SetMainAssign, Put

\* The other fields of a console have no part in its mutes.
LEMMA FrameGood ==
  ASSUME NEW k, Good(k), NEW n \in Consoles, k.exists \subseteq n.exists,
         n.user_muted = k.user_muted, n.soloed = k.soloed, n.engine = k.engine
  PROVE  Good(n)
BY DEF Good, Ensured, Derived, SoloGated

LEMMA SlotStripType == \A b \in Bus, s \in Slot : SlotStrip(b, s) \in Strip
BY DEF Strip

LEMMA SourceGood ==
  ASSUME NEW k, Good(k), NEW b \in Bus, NEW s \in Slot, NEW src \in Strip \cup {None}
  PROVE  Good(SetSource(k, b, s, src))
<1> DEFINE n == SetSource(k, b, s, src)
<1>1. n \in Consoles
  <2>1. k \in Consoles /\ SlotStrip(b, s) \in Strip
    BY SlotStripType DEF Good
  <2>2. [k.bus EXCEPT ![b].sources[s] = src] \in [Bus -> BusScenes]
    BY <2>1 DEF Consoles, BusScenes
  <2>3. (IF src = None THEN k.exists ELSE k.exists \cup {SlotStrip(b, s)}) \in SUBSET Strip
    BY <2>1 DEF Consoles
  <2>4. n = [k EXCEPT !.bus = [k.bus EXCEPT ![b].sources[s] = src],
                      !.exists = IF src = None THEN @ ELSE @ \cup {SlotStrip(b, s)}]
    BY <2>1 DEF SetSource, Consoles
  <2> DEFINE buses == [k.bus EXCEPT ![b].sources[s] = src]
             exists == IF src = None THEN k.exists ELSE k.exists \cup {SlotStrip(b, s)}
  <2>5. n = [k EXCEPT !.bus = buses, !.exists = exists]
    BY <2>4
  <2> HIDE DEF buses, exists, n
  <2> QED
    BY <2>1, <2>2, <2>3, <2>5 DEF Consoles, buses, exists
<1>2. /\ k.exists \subseteq n.exists
      /\ n.user_muted = k.user_muted /\ n.soloed = k.soloed /\ n.engine = k.engine
  BY DEF Good, Consoles, SetSource
<1> QED BY <1>1, <1>2, FrameGood
--------------------------------------------------------------------------------
(* The stages of apply_scene_interp *)

\* A position of a recall: instant, or inside a fade.
At(pos, dur) == pos \in Nat /\ dur \in Nat \ {0} /\ pos <= dur

\* Everything the scene covers is there.
Covered(k, to) == to.covers \subseteq k.exists

LEMMA StripsStage ==
  ASSUME NEW k, Good(k), NEW from \in Snapshot, NEW to \in Snapshot,
         NEW pos, NEW dur, At(pos, dur), Covered(k, to)
  PROVE  LET n == ApplyStrips(k, from, to, pos, dur)
         IN  /\ Good(n)
             /\ n.exists = k.exists /\ n.bus = k.bus /\ n.master_gain = k.master_gain
             /\ n.user_muted = k.user_muted /\ n.soloed = k.soloed
             /\ n.engine = k.engine
             /\ \A c \in to.covers :
                  IF Skipped(from.strip[c], to.strip[c], pos, dur)
                  THEN n.gain[c] = k.gain[c] /\ (c \in n.main_assign <=> c \in k.main_assign)
                  ELSE /\ n.gain[c] = Lerp(from.strip[c].gain, to.strip[c].gain, pos, dur)
                       /\ c \in Input => (c \in n.main_assign <=>
                            Snap(from.strip[c].main_assign, to.strip[c].main_assign, pos, dur))
<1> DEFINE n == ApplyStrips(k, from, to, pos, dur)
           W == {c \in to.covers : ~Skipped(from.strip[c], to.strip[c], pos, dur)}
<1>1. \A c \in W : Lerp(from.strip[c].gain, to.strip[c].gain, pos, dur) \in Nat
  BY LerpType DEF At, Snapshot, StripScenes, Level
<1>2. W \subseteq k.exists
  BY DEF Covered
<1>3. /\ n.exists = k.exists \cup W /\ n.bus = k.bus /\ n.master_gain = k.master_gain
      /\ n.user_muted = k.user_muted /\ n.soloed = k.soloed /\ n.engine = k.engine
      /\ n.gain = [c \in Strip |->
           IF c \in W THEN Lerp(from.strip[c].gain, to.strip[c].gain, pos, dur)
           ELSE k.gain[c]]
      /\ n.main_assign = {c \in Input :
           IF c \in W
           THEN Snap(from.strip[c].main_assign, to.strip[c].main_assign, pos, dur)
           ELSE c \in k.main_assign}
  BY DEF Good, Consoles, ApplyStrips
<1>4. n.exists = k.exists
  BY <1>2, <1>3
<1>5. n.gain \in [Strip -> Nat]
  BY <1>1, <1>3 DEF Good, Consoles, Level
<1>6. n \in Consoles
  <2> DEFINE e == k.exists \cup W
             g == [c \in Strip |->
               IF c \in W THEN Lerp(from.strip[c].gain, to.strip[c].gain, pos, dur)
               ELSE k.gain[c]]
             a == {c \in Input :
               IF c \in W
               THEN Snap(from.strip[c].main_assign, to.strip[c].main_assign, pos, dur)
               ELSE c \in k.main_assign}
  <2>1. n = [k EXCEPT !.exists = e, !.gain = g, !.main_assign = a]
    BY DEF ApplyStrips, Good, Consoles
  <2>2. e \in SUBSET Strip /\ a \in SUBSET Input /\ g \in [Strip -> Level]
    BY <1>2, <1>3, <1>5 DEF Good, Consoles, Level
  <2> HIDE DEF e, g, a, n, W
  <2> QED BY <2>1, <2>2 DEF Good, Consoles
<1>7. Good(n)
  BY <1>3, <1>4, <1>6, FrameGood
<1>8. ASSUME NEW c \in to.covers
      PROVE  IF Skipped(from.strip[c], to.strip[c], pos, dur)
             THEN n.gain[c] = k.gain[c] /\ (c \in n.main_assign <=> c \in k.main_assign)
             ELSE /\ n.gain[c] = Lerp(from.strip[c].gain, to.strip[c].gain, pos, dur)
                  /\ c \in Input => (c \in n.main_assign <=>
                       Snap(from.strip[c].main_assign, to.strip[c].main_assign, pos, dur))
  <2>1. c \in Strip /\ k.main_assign \subseteq Input
    BY DEF Snapshot, Good, Consoles
  <2>2. c \in W <=> ~Skipped(from.strip[c], to.strip[c], pos, dur)
    OBVIOUS
  <2> HIDE DEF n, W
  <2> QED BY <1>3, <2>1, <2>2
<1> QED BY <1>3, <1>4, <1>7, <1>8

LEMMA DropStage ==
  ASSUME NEW k, Good(k), NEW to \in Snapshot
  PROVE  LET n == DropForeignSolos(k, to)
         IN  /\ Good(n)
             /\ n.exists = k.exists /\ n.bus = k.bus /\ n.master_gain = k.master_gain
             /\ n.gain = k.gain /\ n.main_assign = k.main_assign
             /\ n.user_muted = k.user_muted
             /\ n.soloed = k.soloed \cap to.covers
<1>1. CASE k.soloed \subseteq to.covers
  BY <1>1 DEF DropForeignSolos
<1>2. CASE ~(k.soloed \subseteq to.covers)
  <2> DEFINE d == [k EXCEPT !.soloed = @ \cap to.covers]
             n == DeriveMutes(d)
  <2>1. /\ d \in Consoles /\ d.exists = k.exists /\ d.bus = k.bus
        /\ d.master_gain = k.master_gain /\ d.gain = k.gain
        /\ d.main_assign = k.main_assign /\ d.user_muted = k.user_muted
        /\ d.soloed = k.soloed \cap to.covers
    BY DEF Good, Consoles
  <2>2. d.user_muted \cup d.soloed \subseteq d.exists
    BY <2>1 DEF Good, Ensured
  <2>3. Good(n)
    BY <2>1, <2>2, DeriveGood
  <2>4. /\ n.exists = d.exists /\ n.bus = d.bus /\ n.master_gain = d.master_gain
        /\ n.gain = d.gain /\ n.main_assign = d.main_assign
        /\ n.user_muted = d.user_muted /\ n.soloed = d.soloed
    BY <2>1 DEF Consoles, DeriveMutes
  <2>5. DropForeignSolos(k, to) = n
    BY <1>2 DEF DropForeignSolos
  <2> QED BY <2>1, <2>3, <2>4, <2>5
<1> QED BY <1>1, <1>2

LEMMA MutesStage ==
  ASSUME NEW k, Good(k), NEW from \in Snapshot, NEW to \in Snapshot,
         NEW pos, NEW dur, Covered(k, to)
  PROVE  LET n == ApplyMutes(k, from, to, pos, dur)
         IN  /\ Good(n)
             /\ n.exists = k.exists /\ n.bus = k.bus /\ n.master_gain = k.master_gain
             /\ n.gain = k.gain /\ n.main_assign = k.main_assign /\ n.soloed = k.soloed
             /\ \A c \in to.covers : c \in n.user_muted <=>
                  IF c \in k.user_muted <=> to.strip[c].mute THEN c \in k.user_muted
                  ELSE Snap(from.strip[c].mute, to.strip[c].mute, pos, dur)
<1> DEFINE n == ApplyMutes(k, from, to, pos, dur)
           W == {c \in to.covers : (c \in k.user_muted) # to.strip[c].mute}
           M == {c \in W : Snap(from.strip[c].mute, to.strip[c].mute, pos, dur)}
<1>1. W \subseteq k.exists /\ M \subseteq W /\ W \subseteq Strip
  BY DEF Covered, Snapshot
<1>2. /\ n.exists = k.exists \cup W /\ n.bus = k.bus /\ n.master_gain = k.master_gain
      /\ n.gain = k.gain /\ n.main_assign = k.main_assign /\ n.soloed = k.soloed
      /\ n.user_muted = (k.user_muted \ W) \cup M
      /\ n.engine = (k.engine \ W) \cup {c \in W : c \in M \/ SoloGated(k, c)}
  BY DEF Good, Consoles, ApplyMutes
<1>3. \A c \in to.covers : c \in W <=> ~(c \in k.user_muted <=> to.strip[c].mute)
  BY DEF Snapshot, StripScenes
<1>4. \A c \in W : c \in M <=> Snap(from.strip[c].mute, to.strip[c].mute, pos, dur)
  OBVIOUS
<1>5. n \in Consoles
  <2> DEFINE e == k.exists \cup W
             u == (k.user_muted \ W) \cup M
             en == (k.engine \ W) \cup {c \in W : c \in M \/ SoloGated(k, c)}
  <2>1. n = [k EXCEPT !.exists = e, !.user_muted = u, !.engine = en]
    BY DEF ApplyMutes, Good, Consoles
  <2>2. e \in SUBSET Strip /\ u \in SUBSET Strip /\ en \in SUBSET Strip
    BY <1>1 DEF Good, Consoles
  <2> HIDE DEF e, u, en, n, W, M
  <2> QED BY <2>1, <2>2 DEF Good, Consoles
<1> HIDE DEF n, W, M
<1>6. \A i : SoloGated(n, i) <=> SoloGated(k, i)
  BY <1>2 DEF SoloGated
<1>7. Ensured(n)
  BY <1>1, <1>2 DEF Good, Ensured
<1>8. Derived(n)
  BY <1>1, <1>2, <1>6 DEF Good, Derived
<1>9. n.exists = k.exists
  BY <1>1, <1>2
<1>10. \A c \in to.covers : c \in n.user_muted <=>
                  IF c \in k.user_muted <=> to.strip[c].mute THEN c \in k.user_muted
                  ELSE Snap(from.strip[c].mute, to.strip[c].mute, pos, dur)
  BY <1>1, <1>2, <1>3, <1>4
<1>11. Good(n)
  BY <1>5, <1>7, <1>8 DEF Good
<1> QED BY <1>2, <1>9, <1>10, <1>11 DEF n

LEMMA SolosStage ==
  ASSUME NEW k, Good(k), NEW from \in Snapshot, NEW to \in Snapshot,
         NEW pos, NEW dur, Covered(k, to), k.soloed \subseteq to.covers
  PROVE  LET n == ApplySolos(k, from, to, pos, dur)
         IN  /\ Good(n)
             /\ n.exists = k.exists /\ n.bus = k.bus /\ n.master_gain = k.master_gain
             /\ n.gain = k.gain /\ n.main_assign = k.main_assign
             /\ n.user_muted = k.user_muted
             /\ n.soloed \subseteq to.covers
             /\ \A c \in to.covers : c \in n.soloed <=>
                  IF c \in k.soloed <=> to.strip[c].solo THEN c \in k.soloed
                  ELSE Snap(from.strip[c].solo, to.strip[c].solo, pos, dur)
<1> DEFINE n == ApplySolos(k, from, to, pos, dur)
           W == {c \in to.covers : (c \in k.soloed) # to.strip[c].solo}
           S == {c \in W : Snap(from.strip[c].solo, to.strip[c].solo, pos, dur)}
<1>1. W \subseteq k.exists /\ S \subseteq W /\ W \subseteq Strip /\ W \subseteq to.covers
  BY DEF Covered, Snapshot
<1>2. \A c \in to.covers : c \in W <=> ~(c \in k.soloed <=> to.strip[c].solo)
  BY DEF Snapshot, StripScenes
<1>3. \A c \in W : c \in S <=> Snap(from.strip[c].solo, to.strip[c].solo, pos, dur)
  OBVIOUS
<1>4. CASE W = {}
  <2>1. n = k
    BY <1>4 DEF ApplySolos
  <2> HIDE DEF n, W, S
  <2> QED BY <2>1, <1>4, <1>2 DEF n
<1>5. CASE W # {}
  <2> DEFINE e == k.exists \cup W
             so == (k.soloed \ W) \cup S
             d == [k EXCEPT !.exists = e, !.soloed = so]
  <2>1. n = DeriveMutes(d)
    BY <1>5 DEF ApplySolos, Good, Consoles
  <2>2. e = k.exists /\ so \in SUBSET Strip /\ e \in SUBSET Strip /\ so \subseteq to.covers
    BY <1>1 DEF Good, Consoles
  <2>3. \A c \in to.covers : c \in so <=>
                  IF c \in k.soloed <=> to.strip[c].solo THEN c \in k.soloed
                  ELSE Snap(from.strip[c].solo, to.strip[c].solo, pos, dur)
    <3> HIDE DEF W, S
    <3> QED BY <1>1, <1>2, <1>3
  <2> HIDE DEF n, W, S, e, so
  <2>4. /\ d \in Consoles /\ d.exists = k.exists /\ d.bus = k.bus
        /\ d.master_gain = k.master_gain /\ d.gain = k.gain
        /\ d.main_assign = k.main_assign /\ d.user_muted = k.user_muted
        /\ d.soloed = so
    BY <2>2 DEF Good, Consoles
  <2> HIDE DEF d
  <2>5. d.user_muted \cup d.soloed \subseteq d.exists
    BY <2>2, <2>4 DEF Good, Ensured, Covered
  <2>6. Good(n)
    BY <2>1, <2>4, <2>5, DeriveGood
  <2>7. /\ n.exists = d.exists /\ n.bus = d.bus /\ n.master_gain = d.master_gain
        /\ n.gain = d.gain /\ n.main_assign = d.main_assign
        /\ n.user_muted = d.user_muted /\ n.soloed = d.soloed
    BY <2>1, <2>4 DEF Consoles, DeriveMutes
  <2> QED BY <2>2, <2>3, <2>4, <2>6, <2>7 DEF n
<1> QED BY <1>4, <1>5

\* The strips of all slots a scene assigns are strips the scene covers.
SourcesCovered(s) ==
  \A b \in Bus, i \in Slot : s.bus[b].sources[i] # None => SlotStrip(b, i) \in s.covers

LEMMA BusesStage ==
  ASSUME NEW k, Good(k), NEW from \in Snapshot, NEW to \in Snapshot,
         NEW pos, NEW dur, At(pos, dur), Covered(k, from), Covered(k, to),
         SourcesCovered(from), SourcesCovered(to),
         \A b \in Bus, i \in Slot :
           k.bus[b].sources[i] # None => SlotStrip(b, i) \in k.exists
  PROVE  LET n == ApplyBuses(k, from, to, pos, dur)
         IN  /\ Good(n)
             /\ n.exists = k.exists /\ n.gain = k.gain /\ n.main_assign = k.main_assign
             /\ n.user_muted = k.user_muted /\ n.soloed = k.soloed
             /\ n.bus = [b \in Bus |->
                  IF Skipped(from.bus[b], to.bus[b], pos, dur) THEN k.bus[b]
                  ELSE BusAt(from.bus[b], to.bus[b], pos, dur)]
             /\ n.master_gain = Lerp(from.master_gain, to.master_gain, pos, dur)
<1> DEFINE n == ApplyBuses(k, from, to, pos, dur)
           W == {b \in Bus : ~Skipped(from.bus[b], to.bus[b], pos, dur)}
           B == [b \in Bus |-> IF b \in W THEN BusAt(from.bus[b], to.bus[b], pos, dur)
                               ELSE k.bus[b]]
           X == {c \in Strip : \E b \in W, s \in Slot :
                   c = SlotStrip(b, s) /\ B[b].sources[s] # None}
           g == Lerp(from.master_gain, to.master_gain, pos, dur)
<1>1. g \in Nat
  BY LerpType DEF At, Snapshot, Level
<1>2. ASSUME NEW b \in Bus
      PROVE  /\ BusAt(from.bus[b], to.bus[b], pos, dur) \in BusScenes
             /\ \A i \in Slot : BusAt(from.bus[b], to.bus[b], pos, dur).sources[i] # None
                  => SlotStrip(b, i) \in k.exists
  <2>1. from.bus[b] \in BusScenes /\ to.bus[b] \in BusScenes
    BY DEF Snapshot
  <2>2. Lerp(from.bus[b].gain, to.bus[b].gain, pos, dur) \in Nat
    BY <2>1, LerpType DEF At, BusScenes, Level
  <2>3. \/ BusAt(from.bus[b], to.bus[b], pos, dur).sources = from.bus[b].sources
        \/ BusAt(from.bus[b], to.bus[b], pos, dur).sources = to.bus[b].sources
    BY DEF BusAt, Snap
  <2>4. \A i \in Slot : BusAt(from.bus[b], to.bus[b], pos, dur).sources[i] # None
                  => SlotStrip(b, i) \in k.exists
    BY <2>3 DEF SourcesCovered, Covered
  <2> QED BY <2>1, <2>2, <2>4 DEF BusAt, Snap, BusScenes, Level
<1>3. B \in [Bus -> BusScenes]
  BY <1>2 DEF Good, Consoles
<1>4. X \subseteq k.exists
  BY <1>2
<1>5. \A b \in Bus : B[b] = IF Skipped(from.bus[b], to.bus[b], pos, dur) THEN k.bus[b]
                            ELSE BusAt(from.bus[b], to.bus[b], pos, dur)
  OBVIOUS
<1>6. B = [b \in Bus |-> IF Skipped(from.bus[b], to.bus[b], pos, dur) THEN k.bus[b]
                         ELSE BusAt(from.bus[b], to.bus[b], pos, dur)]
  <2> HIDE DEF W
  <2> QED BY <1>5
<1>7. n = [k EXCEPT !.exists = k.exists \cup X, !.bus = B, !.master_gain = g]
  BY DEF ApplyBuses, Good, Consoles
<1> HIDE DEF n, W, B, X, g
<1>8. k.exists \cup X = k.exists
  BY <1>4
<1>9. /\ n \in Consoles /\ n.exists = k.exists /\ n.gain = k.gain
      /\ n.main_assign = k.main_assign /\ n.user_muted = k.user_muted
      /\ n.soloed = k.soloed /\ n.engine = k.engine /\ n.bus = B /\ n.master_gain = g
  BY <1>1, <1>3, <1>7, <1>8 DEF Good, Consoles, Level
<1>10. Good(n)
  BY <1>9, FrameGood
<1> QED BY <1>6, <1>9, <1>10 DEF n, g

\* What applying a scene makes of strip c, from console k to n.
StripApplied(k, n, from, to, pos, dur, c) ==
  /\ IF Skipped(from.strip[c], to.strip[c], pos, dur)
     THEN n.gain[c] = k.gain[c] /\ (c \in n.main_assign <=> c \in k.main_assign)
     ELSE /\ n.gain[c] = Lerp(from.strip[c].gain, to.strip[c].gain, pos, dur)
          /\ c \in Input => (c \in n.main_assign <=>
               Snap(from.strip[c].main_assign, to.strip[c].main_assign, pos, dur))
  /\ c \in n.user_muted <=>
       IF c \in k.user_muted <=> to.strip[c].mute THEN c \in k.user_muted
       ELSE Snap(from.strip[c].mute, to.strip[c].mute, pos, dur)
  /\ c \in n.soloed <=>
       IF c \in k.soloed <=> to.strip[c].solo THEN c \in k.soloed
       ELSE Snap(from.strip[c].solo, to.strip[c].solo, pos, dur)

\* What the whole of it does, on a console that has every strip of the scene.
LEMMA Applied ==
  ASSUME NEW k, Good(k), NEW from \in Snapshot, NEW to \in Snapshot,
         NEW pos, NEW dur, At(pos, dur), Covered(k, from), Covered(k, to),
         SourcesCovered(from), SourcesCovered(to),
         \A b \in Bus, i \in Slot :
           k.bus[b].sources[i] # None => SlotStrip(b, i) \in k.exists
  PROVE  LET n == ApplySceneInterp(k, from, to, pos, dur)
         IN  /\ Good(n)
             /\ n.exists = k.exists
             /\ n.soloed \subseteq to.covers
             /\ \A c \in to.covers : StripApplied(k, n, from, to, pos, dur, c)
             /\ n.bus = [b \in Bus |->
                  IF Skipped(from.bus[b], to.bus[b], pos, dur) THEN k.bus[b]
                  ELSE BusAt(from.bus[b], to.bus[b], pos, dur)]
             /\ n.master_gain = Lerp(from.master_gain, to.master_gain, pos, dur)
<1> DEFINE n1 == ApplyStrips(k, from, to, pos, dur)
           n2 == DropForeignSolos(n1, to)
           n3 == ApplyMutes(n2, from, to, pos, dur)
           n4 == ApplySolos(n3, from, to, pos, dur)
           n5 == ApplyBuses(n4, from, to, pos, dur)
<1>1. /\ Good(n1) /\ n1.exists = k.exists /\ n1.bus = k.bus
      /\ n1.user_muted = k.user_muted /\ n1.soloed = k.soloed
      /\ \A c \in to.covers :
           IF Skipped(from.strip[c], to.strip[c], pos, dur)
           THEN n1.gain[c] = k.gain[c] /\ (c \in n1.main_assign <=> c \in k.main_assign)
           ELSE /\ n1.gain[c] = Lerp(from.strip[c].gain, to.strip[c].gain, pos, dur)
                /\ c \in Input => (c \in n1.main_assign <=>
                     Snap(from.strip[c].main_assign, to.strip[c].main_assign, pos, dur))
  BY StripsStage
<1> HIDE DEF n1
<1>2. /\ Good(n2) /\ n2.exists = k.exists /\ n2.bus = k.bus
      /\ n2.gain = n1.gain /\ n2.main_assign = n1.main_assign
      /\ n2.user_muted = k.user_muted /\ n2.soloed = k.soloed \cap to.covers
  BY <1>1, DropStage
<1> HIDE DEF n2
<1>3. /\ Good(n3) /\ n3.exists = k.exists /\ n3.bus = k.bus
      /\ n3.gain = n1.gain /\ n3.main_assign = n1.main_assign
      /\ n3.soloed = k.soloed \cap to.covers
      /\ \A c \in to.covers : c \in n3.user_muted <=>
           IF c \in k.user_muted <=> to.strip[c].mute THEN c \in k.user_muted
           ELSE Snap(from.strip[c].mute, to.strip[c].mute, pos, dur)
  <2>1. Covered(n2, to)
    BY <1>2 DEF Covered
  <2> QED BY <1>2, <2>1, MutesStage
<1> HIDE DEF n3
<1>4. /\ Good(n4) /\ n4.exists = k.exists /\ n4.bus = k.bus
      /\ n4.gain = n1.gain /\ n4.main_assign = n1.main_assign
      /\ n4.user_muted = n3.user_muted
      /\ n4.soloed \subseteq to.covers
      /\ \A c \in to.covers : c \in n4.soloed <=>
           IF c \in k.soloed <=> to.strip[c].solo THEN c \in k.soloed
           ELSE Snap(from.strip[c].solo, to.strip[c].solo, pos, dur)
  <2>1. Covered(n3, to) /\ n3.soloed \subseteq to.covers
    BY <1>3 DEF Covered
  <2>2. /\ Good(n4) /\ n4.exists = n3.exists /\ n4.bus = n3.bus
        /\ n4.gain = n3.gain /\ n4.main_assign = n3.main_assign
        /\ n4.user_muted = n3.user_muted
        /\ n4.soloed \subseteq to.covers
        /\ \A c \in to.covers : c \in n4.soloed <=>
             IF c \in n3.soloed <=> to.strip[c].solo THEN c \in n3.soloed
             ELSE Snap(from.strip[c].solo, to.strip[c].solo, pos, dur)
    BY <1>3, <2>1, SolosStage
  <2>3. \A c \in to.covers : c \in n3.soloed <=> c \in k.soloed
    BY <1>3
  <2> HIDE DEF n4
  <2> QED BY <1>3, <2>2, <2>3
<1> HIDE DEF n4
<1>5. /\ Good(n5) /\ n5.exists = k.exists
      /\ n5.gain = n1.gain /\ n5.main_assign = n1.main_assign
      /\ n5.user_muted = n3.user_muted /\ n5.soloed = n4.soloed
      /\ n5.bus = [b \in Bus |->
           IF Skipped(from.bus[b], to.bus[b], pos, dur) THEN k.bus[b]
           ELSE BusAt(from.bus[b], to.bus[b], pos, dur)]
      /\ n5.master_gain = Lerp(from.master_gain, to.master_gain, pos, dur)
  <2>1. /\ Covered(n4, from) /\ Covered(n4, to)
        /\ \A b \in Bus, i \in Slot :
             n4.bus[b].sources[i] # None => SlotStrip(b, i) \in n4.exists
    BY <1>4 DEF Covered
  <2>2. /\ Good(n5) /\ n5.exists = n4.exists /\ n5.gain = n4.gain
        /\ n5.main_assign = n4.main_assign
        /\ n5.user_muted = n4.user_muted /\ n5.soloed = n4.soloed
        /\ n5.bus = [b \in Bus |->
             IF Skipped(from.bus[b], to.bus[b], pos, dur) THEN n4.bus[b]
             ELSE BusAt(from.bus[b], to.bus[b], pos, dur)]
        /\ n5.master_gain = Lerp(from.master_gain, to.master_gain, pos, dur)
    BY <1>4, <2>1, BusesStage
  <2> HIDE DEF n5
  <2> QED BY <1>4, <2>2
<1>6. ApplySceneInterp(k, from, to, pos, dur) = n5
  BY DEF ApplySceneInterp, n1, n2, n3, n4
<1> HIDE DEF n5
<1>7. \A c \in to.covers : StripApplied(k, n5, from, to, pos, dur, c)
  BY <1>1, <1>3, <1>4, <1>5 DEF StripApplied
<1> QED BY <1>3, <1>4, <1>5, <1>6, <1>7
--------------------------------------------------------------------------------
(* The invariant *)

SourcesExist ==
  \A b \in Bus, i \in Slot :
    console.bus[b].sources[i] # None => SlotStrip(b, i) \in console.exists

AssignsInputs(s) == \A c \in Strip \ Input : ~s.strip[c].main_assign

Sound(s) == Covered(console, s) /\ SourcesCovered(s) /\ AssignsInputs(s)

\* Scenes and fades only hold strips that exist, with those of every slot they
\* assign; only inputs are assigned to the main mix.
IInv ==
  /\ TypeOK /\ MuteDerived /\ FadeSkipsSoundly
  /\ SourcesExist
  /\ \A id \in Scene : scenes[id] # None => Sound(scenes[id])
  /\ fade # None => Sound(fade.from) /\ Sound(fade.to)

LEMMA GoodConsole == TypeOK /\ MuteDerived <=> Good(console) /\ TypeOK
BY DEF TypeOK, MuteDerived, Good, Consoles, Ensured, Derived

LEMMA InitInv == Init => IInv
<1> SUFFICES ASSUME Init PROVE IInv
  OBVIOUS
<1> USE ConsoleAssumption
<1>1. InitialGain \in Nat
  OBVIOUS
<1>2. console \in Consoles
  BY <1>1 DEF Init, InitConsole, Consoles, BusScenes, Level
<1>3. /\ console.exists = {} /\ console.user_muted = {} /\ console.soloed = {}
      /\ console.engine = {}
      /\ \A b \in Bus, i \in Slot : console.bus[b].sources[i] = None
  BY DEF Init, InitConsole
<1>4. TypeOK
  BY <1>2, <1>3 DEF Init, TypeOK, Consoles
<1> QED BY <1>3, <1>4 DEF Init, IInv, MuteDerived, FadeSkipsSoundly, SourcesExist

LEMMA UserSetsInv ==
  ASSUME IInv, NEW k, Good(k), console.exists \subseteq k.exists,
         \A b \in Bus, i \in Slot :
           k.bus[b].sources[i] # None => SlotStrip(b, i) \in k.exists,
         UserSets(k)
  PROVE  IInv'
<1>1. ops' \in 0..MaxOps
  BY ConsoleAssumption DEF IInv, TypeOK, UserSets, Budget
<1>2. TypeOK' /\ MuteDerived'
  BY <1>1 DEF IInv, TypeOK, MuteDerived, UserSets, Good, Consoles, Ensured, Derived
<1>3. FadeSkipsSoundly' /\ SourcesExist'
  BY DEF UserSets, FadeSkipsSoundly, SourcesExist
<1>4. \A id \in Scene : scenes'[id] # None => Sound(scenes[id])'
  BY DEF UserSets, IInv, Sound, Covered, SourcesCovered, AssignsInputs
<1> QED BY <1>2, <1>3, <1>4 DEF IInv, UserSets, Sound, Covered, SourcesCovered, AssignsInputs

LEMMA SetterStep ==
  ASSUME IInv, NEW c \in Strip, UserSetsStrip(c)
  PROVE  IInv'
<1>1. Good(console)
  BY GoodConsole DEF IInv
<1>2. ASSUME NEW g \in Gains, SetChannelGain(c, g) PROVE IInv'
  <2> DEFINE k == SetGain(console, c, g)
  <2>1. g \in Nat
    BY ConsoleAssumption
  <2>2. Good(k)
    BY <1>1, <2>1, GainGood
  <2>3. k.bus = console.bus /\ k.exists = console.exists \cup {c}
    BY <1>1 DEF Good, Consoles, SetGain, EnsureChannel
  <2> HIDE DEF k
  <2> QED BY <1>2, <2>2, <2>3, UserSetsInv DEF SetChannelGain, k, IInv, SourcesExist
<1>3. ASSUME NEW on \in BOOLEAN, SetChannelMute(c, on) PROVE IInv'
  <2> DEFINE k == SetMute(console, c, on)
  <2>1. Good(k)
    BY <1>1, MuteGood
  <2>2. k.bus = console.bus /\ k.exists = console.exists \cup {c}
    BY <1>1 DEF Good, Consoles, SetMute, EnsureChannel
  <2> HIDE DEF k
  <2> QED BY <1>3, <2>1, <2>2, UserSetsInv DEF SetChannelMute, k, IInv, SourcesExist
<1>4. ASSUME NEW on \in BOOLEAN, SetChannelSolo(c, on) PROVE IInv'
  <2> DEFINE k == SetSolo(console, c, on)
  <2>1. Good(k)
    BY <1>1, SoloGood
  <2>2. k.bus = console.bus /\ k.exists = console.exists \cup {c}
    BY <1>1 DEF Good, Consoles, SetSolo, EnsureChannel, DeriveMutes
  <2> HIDE DEF k
  <2> QED BY <1>4, <2>1, <2>2, UserSetsInv DEF SetChannelSolo, k, IInv, SourcesExist
<1> QED BY <1>2, <1>3, <1>4 DEF UserSetsStrip

LEMMA AssignStep ==
  ASSUME IInv, NEW c \in Input, NEW on \in BOOLEAN, SetChannelMainAssign(c, on)
  PROVE  IInv'
<1> DEFINE k == SetMainAssign(console, c, on)
<1>1. Good(console)
  BY GoodConsole DEF IInv
<1>2. Good(k)
  BY <1>1, AssignGood
<1>3. k.bus = console.bus /\ k.exists = console.exists
  BY <1>1 DEF Good, Consoles, SetMainAssign
<1> HIDE DEF k
<1> QED BY <1>2, <1>3, UserSetsInv DEF SetChannelMainAssign, k, IInv, SourcesExist

LEMMA BusStep ==
  ASSUME IInv, NEW b \in Bus, UserSetsBus(b)
  PROVE  IInv'
<1>1. Good(console)
  BY GoodConsole DEF IInv
<1>2. ASSUME NEW s \in Slot, NEW src \in Strip \cup {None},
             UserSets(SetSource(console, b, s, src))
      PROVE  IInv'
  <2> DEFINE k == SetSource(console, b, s, src)
  <2>1. Good(k)
    BY <1>1, SourceGood
  <2>2. /\ k.exists = IF src = None THEN console.exists
                      ELSE console.exists \cup {SlotStrip(b, s)}
        /\ \A x \in Bus, i \in Slot : k.bus[x].sources[i] =
             IF x = b /\ i = s THEN src ELSE console.bus[x].sources[i]
    BY <1>1 DEF Good, Consoles, BusScenes, SetSource
  <2> HIDE DEF k
  <2>3. \A x \in Bus, i \in Slot :
          k.bus[x].sources[i] # None => SlotStrip(x, i) \in k.exists
    BY <2>2 DEF IInv, SourcesExist
  <2> QED BY <1>2, <2>1, <2>2, <2>3, UserSetsInv DEF k
<1>3. ASSUME NEW n \in BusScenes, n.sources = console.bus[b].sources,
             UserSets([console EXCEPT !.bus[b] = n])
      PROVE  IInv'
  <2> DEFINE k == [console EXCEPT !.bus[b] = n]
  <2>1. k \in Consoles
    BY <1>1 DEF Good, Consoles
  <2>2. /\ k.exists = console.exists /\ k.user_muted = console.user_muted
        /\ k.soloed = console.soloed /\ k.engine = console.engine
        /\ \A x \in Bus : k.bus[x].sources = console.bus[x].sources
    BY <1>1, <1>3 DEF Good, Consoles
  <2>3. Good(k)
    BY <1>1, <2>1, <2>2, FrameGood
  <2> HIDE DEF k
  <2> QED BY <1>3, <2>2, <2>3, UserSetsInv DEF k, IInv, SourcesExist
<1>4. ASSUME NEW s \in Slot, ClearBusSource(b, s) PROVE IInv'
  BY <1>2, <1>4 DEF ClearBusSource
<1>5. ASSUME NEW s \in Slot, NEW c \in Strip, SetBusSource(b, s, c) PROVE IInv'
  BY <1>2, <1>5 DEF SetBusSource
<1>6. ASSUME NEW g \in Gains, SetBusGain(b, g) PROVE IInv'
  <2> DEFINE n == [console.bus[b] EXCEPT !.gain = g]
  <2>1. n \in BusScenes /\ n.sources = console.bus[b].sources
    BY <1>1, ConsoleAssumption DEF Good, Consoles, BusScenes, Level
  <2>2. [console EXCEPT !.bus[b].gain = g] = [console EXCEPT !.bus[b] = n]
    OBVIOUS
  <2> HIDE DEF n
  <2> QED BY <1>3, <1>6, <2>1, <2>2 DEF SetBusGain
<1>7. ASSUME NEW on \in BOOLEAN, SetBusMute(b, on) PROVE IInv'
  <2> DEFINE n == [console.bus[b] EXCEPT !.muted = on]
  <2>1. n \in BusScenes /\ n.sources = console.bus[b].sources
    BY <1>1 DEF Good, Consoles, BusScenes
  <2>2. [console EXCEPT !.bus[b].muted = on] = [console EXCEPT !.bus[b] = n]
    OBVIOUS
  <2> HIDE DEF n
  <2> QED BY <1>3, <1>7, <2>1, <2>2 DEF SetBusMute
<1>8. ASSUME NEW on \in BOOLEAN, SetBusFeedsMain(b, on) PROVE IInv'
  <2> DEFINE n == [console.bus[b] EXCEPT !.feeds_main = on]
  <2>1. n \in BusScenes /\ n.sources = console.bus[b].sources
    BY <1>1 DEF Good, Consoles, BusScenes
  <2>2. [console EXCEPT !.bus[b].feeds_main = on] = [console EXCEPT !.bus[b] = n]
    OBVIOUS
  <2> HIDE DEF n
  <2> QED BY <1>3, <1>8, <2>1, <2>2 DEF SetBusFeedsMain
<1> QED BY <1>4, <1>5, <1>6, <1>7, <1>8 DEF UserSetsBus

LEMMA MasterStep ==
  ASSUME IInv, NEW g \in Gains, SetMasterGain(g)
  PROVE  IInv'
<1> DEFINE k == [console EXCEPT !.master_gain = g]
<1>1. Good(console)
  BY GoodConsole DEF IInv
<1>2. /\ k \in Consoles /\ k.exists = console.exists /\ k.user_muted = console.user_muted
      /\ k.soloed = console.soloed /\ k.engine = console.engine /\ k.bus = console.bus
  BY <1>1, ConsoleAssumption DEF Good, Consoles, Level
<1>3. Good(k)
  BY <1>1, <1>2, FrameGood
<1> HIDE DEF k
<1> QED BY <1>2, <1>3, UserSetsInv DEF SetMasterGain, k, IInv, SourcesExist

LEMMA SnapshotType ==
  ASSUME TypeOK
  PROVE  ConsoleSnapshot(console) \in Snapshot
BY DEF TypeOK, ConsoleSnapshot, StripScene, Snapshot, StripScenes

LEMMA SnapshotSound ==
  ASSUME TypeOK, SourcesExist
  PROVE  Sound(ConsoleSnapshot(console))
BY DEF TypeOK, SourcesExist, ConsoleSnapshot, StripScene, Sound, Covered,
       SourcesCovered, AssignsInputs

\* Recalls and fade blocks, alike: the console becomes what Applied says.
LEMMA AppliedHere ==
  ASSUME IInv, NEW from \in Snapshot, NEW to \in Snapshot, Sound(from), Sound(to),
         NEW pos, NEW dur, At(pos, dur),
         NEW n, n = ApplySceneInterp(console, from, to, pos, dur)
  PROVE  /\ Good(n)
         /\ n.exists = console.exists
         /\ n.soloed \subseteq to.covers
         /\ \A c \in to.covers : StripApplied(console, n, from, to, pos, dur, c)
         /\ n.bus = [b \in Bus |->
              IF Skipped(from.bus[b], to.bus[b], pos, dur) THEN console.bus[b]
              ELSE BusAt(from.bus[b], to.bus[b], pos, dur)]
         /\ n.master_gain = Lerp(from.master_gain, to.master_gain, pos, dur)
<1>1. Good(console)
  BY GoodConsole DEF IInv
<1>2. /\ Covered(console, from) /\ Covered(console, to)
      /\ SourcesCovered(from) /\ SourcesCovered(to)
      /\ \A b \in Bus, i \in Slot :
           console.bus[b].sources[i] # None => SlotStrip(b, i) \in console.exists
  BY DEF IInv, Sound, SourcesExist
<1> QED BY <1>1, <1>2, Applied

LEMMA SkippedBus ==
  ASSUME IInv, NEW from \in Snapshot, NEW to \in Snapshot, Sound(from), Sound(to),
         NEW pos, NEW dur, At(pos, dur),
         NEW n, n = ApplySceneInterp(console, from, to, pos, dur),
         NEW b \in Bus, Skipped(from.bus[b], to.bus[b], pos, dur)
  PROVE  n.bus[b] = console.bus[b]
<1>1. n.bus = [x \in Bus |->
        IF Skipped(from.bus[x], to.bus[x], pos, dur) THEN console.bus[x]
        ELSE BusAt(from.bus[x], to.bus[x], pos, dur)]
  BY AppliedHere
<1> QED BY <1>1

\* In particular it stays good and gains no strip, and its slots keep theirs.
LEMMA AppliedFrame ==
  ASSUME IInv, NEW from \in Snapshot, NEW to \in Snapshot, Sound(from), Sound(to),
         NEW pos, NEW dur, At(pos, dur),
         NEW n, n = ApplySceneInterp(console, from, to, pos, dur)
  PROVE  /\ Good(n) /\ n.exists = console.exists
         /\ \A b \in Bus, i \in Slot :
              n.bus[b].sources[i] # None => SlotStrip(b, i) \in n.exists
<1>1. /\ Good(n) /\ n.exists = console.exists
      /\ n.bus = [b \in Bus |->
           IF Skipped(from.bus[b], to.bus[b], pos, dur) THEN console.bus[b]
           ELSE BusAt(from.bus[b], to.bus[b], pos, dur)]
  BY AppliedHere
<1>2. /\ Covered(console, from) /\ Covered(console, to)
      /\ SourcesCovered(from) /\ SourcesCovered(to)
      /\ \A b \in Bus, i \in Slot :
           console.bus[b].sources[i] # None => SlotStrip(b, i) \in console.exists
  BY DEF IInv, Sound, SourcesExist
<1>3. \A b \in Bus, i \in Slot :
        n.bus[b].sources[i] # None => SlotStrip(b, i) \in n.exists
  <2> TAKE b \in Bus, i \in Slot
  <2>1. \/ n.bus[b].sources = console.bus[b].sources
        \/ n.bus[b].sources = from.bus[b].sources
        \/ n.bus[b].sources = to.bus[b].sources
    <3>1. \/ BusAt(from.bus[b], to.bus[b], pos, dur).sources = from.bus[b].sources
          \/ BusAt(from.bus[b], to.bus[b], pos, dur).sources = to.bus[b].sources
      BY DEF BusAt, Snap
    <3> QED BY <1>1, <3>1
  <2> QED BY <1>1, <1>2, <2>1 DEF Covered, SourcesCovered
<1> QED BY <1>1, <1>3

LEMMA ExactGood ==
  ASSUME IInv, NEW s \in Snapshot, Sound(s),
         NEW n, n = ApplySceneInterp(console, s, s, 1, 1)
  PROVE  /\ Good(n) /\ n.exists = console.exists
         /\ \A b \in Bus, i \in Slot :
              n.bus[b].sources[i] # None => SlotStrip(b, i) \in n.exists
<1>1. At(1, 1)
  BY DEF At
<1> QED BY <1>1, AppliedFrame

\* A console the scene was applied to exactly matches it.
LEMMA ExactMatches ==
  ASSUME IInv, NEW s \in Snapshot, Sound(s)
  PROVE  Matches(ApplySceneInterp(console, s, s, 1, 1), s)
<1> DEFINE n == ApplySceneInterp(console, s, s, 1, 1)
<1>1. At(1, 1) /\ n = ApplySceneInterp(console, s, s, 1, 1)
  BY DEF At
<1>2. \A x, y : ~Skipped(x, y, 1, 1)
  BY DEF Skipped
<1>3. \A x : Snap(x, x, 1, 1) = x
  BY DEF Snap
<1> HIDE DEF n
<1>4. /\ Good(n) /\ n.soloed \subseteq s.covers
      /\ \A c \in s.covers :
           /\ n.gain[c] = Lerp(s.strip[c].gain, s.strip[c].gain, 1, 1)
           /\ c \in Input => (c \in n.main_assign <=> s.strip[c].main_assign)
           /\ c \in n.user_muted <=> s.strip[c].mute
           /\ c \in n.soloed <=> s.strip[c].solo
      /\ n.bus = [b \in Bus |-> BusAt(s.bus[b], s.bus[b], 1, 1)]
      /\ n.master_gain = Lerp(s.master_gain, s.master_gain, 1, 1)
  <2>1. /\ Good(n) /\ n.soloed \subseteq s.covers
        /\ \A c \in s.covers : StripApplied(console, n, s, s, 1, 1, c)
        /\ n.bus = [b \in Bus |->
             IF Skipped(s.bus[b], s.bus[b], 1, 1) THEN console.bus[b]
             ELSE BusAt(s.bus[b], s.bus[b], 1, 1)]
        /\ n.master_gain = Lerp(s.master_gain, s.master_gain, 1, 1)
    BY <1>1, AppliedHere
  <2> QED BY <1>2, <1>3, <2>1 DEF StripApplied
<1>5. n \in Consoles /\ s \in Snapshot /\ AssignsInputs(s)
  BY <1>4 DEF Good, Sound
<1>6. n.bus = s.bus
  <2>1. \A b \in Bus : s.bus[b] \in BusScenes
    BY DEF Snapshot
  <2>2. \A b \in Bus : BusAt(s.bus[b], s.bus[b], 1, 1) = s.bus[b]
    BY <1>3, <2>1, LerpEnds DEF BusAt, BusScenes, Level
  <2> QED BY <1>4, <2>2 DEF Snapshot
<1>7. n.master_gain = s.master_gain
  BY <1>4, LerpEnds DEF Snapshot, Level
<1>8. ASSUME NEW c \in s.covers
      PROVE  StripScene(n, c) = s.strip[c]
  <2>1. c \in Strip /\ s.strip[c] \in StripScenes
    BY DEF Snapshot
  <2>2. n.gain[c] = s.strip[c].gain
    BY <1>4, <2>1, LerpEnds DEF StripScenes, Level
  <2>3. c \in n.main_assign <=> s.strip[c].main_assign
    BY <1>4, <1>5, <2>1 DEF Consoles, AssignsInputs
  <2> QED BY <1>4, <2>1, <2>2, <2>3 DEF StripScene, StripScenes
<1> QED BY <1>4, <1>6, <1>7, <1>8 DEF Matches, n

\* Scenes stay sound while no strip vanishes.
LEMMA SoundStays ==
  ASSUME NEW s, Sound(s), console.exists \subseteq console'.exists
  PROVE  Sound(s)'
BY DEF Sound, Covered, SourcesCovered, AssignsInputs

LEMMA SceneType ==
  ASSUME TypeOK, NEW id \in Scene, scenes[id] # None
  PROVE  scenes[id] \in Snapshot
BY DEF TypeOK

LEMMA FadeType ==
  ASSUME TypeOK, fade # None
  PROVE  /\ fade.from \in Snapshot /\ fade.to \in Snapshot
         /\ fade.pos \in Nat /\ fade.dur \in Nat \ {0}
         /\ fade = [from |-> fade.from, to |-> fade.to, pos |-> fade.pos, dur |-> fade.dur]
BY ConsoleAssumption DEF TypeOK

LEMMA BudgetType ==
  ASSUME TypeOK, Budget
  PROVE  ops' \in 0..MaxOps
BY ConsoleAssumption DEF TypeOK, Budget

LEMMA SaveStep == ASSUME IInv, SaveScene PROVE IInv'
<1> DEFINE s == ConsoleSnapshot(console)
<1>1. s \in Snapshot /\ Sound(s)
  BY SnapshotType, SnapshotSound DEF IInv
<1>2. /\ scenes' = [scenes EXCEPT ![next_scene_id] = s]
      /\ next_scene_id \in Scene /\ next_scene_id' = next_scene_id + 1
      /\ console' = console /\ fade' = fade
  BY DEF SaveScene
<1> HIDE DEF s
<1>3. ops' \in 0..MaxOps
  BY BudgetType DEF SaveScene, IInv
<1>4. next_scene_id' \in 1..(MaxScene + 1)
  BY <1>2, ConsoleAssumption DEF Scene
<1>5. scenes' \in [Scene -> Snapshot \cup {None}]
  BY <1>1, <1>2 DEF IInv, TypeOK
<1>6. TypeOK'
  BY <1>2, <1>3, <1>4, <1>5 DEF IInv, TypeOK
<1>7. ASSUME NEW id \in Scene, scenes'[id] # None PROVE Sound(scenes[id])'
  <2>1. Sound(scenes'[id])
    BY <1>1, <1>2, <1>7 DEF IInv, TypeOK
  <2> QED BY <1>2, <2>1 DEF Sound, Covered, SourcesCovered, AssignsInputs
<1>8. fade' # None => Sound(fade.from)' /\ Sound(fade.to)'
  BY <1>2 DEF IInv, Sound, Covered, SourcesCovered, AssignsInputs
<1>9. MuteDerived' /\ FadeSkipsSoundly' /\ SourcesExist'
  BY <1>2 DEF IInv, MuteDerived, FadeSkipsSoundly, SourcesExist, SoloGated, StripScene
<1> QED BY <1>6, <1>7, <1>8, <1>9 DEF IInv

LEMMA RecallStep == ASSUME IInv, NEW id \in Scene, RecallScene(id) PROVE IInv'
<1> DEFINE s == scenes[id]
           n == ApplySceneInterp(console, s, s, 1, 1)
<1>1. s \in Snapshot /\ Sound(s)
  BY SceneType DEF IInv, RecallScene
<1>2. /\ Good(n) /\ n.exists = console.exists
      /\ \A b \in Bus, i \in Slot :
           n.bus[b].sources[i] # None => SlotStrip(b, i) \in n.exists
  <2> HIDE DEF s
  <2> QED BY <1>1, ExactGood
<1>3. console' = n /\ fade' = None /\ UNCHANGED <<scenes, next_scene_id>>
  BY DEF RecallScene
<1> HIDE DEF n, s
<1>4. ops' \in 0..MaxOps
  BY BudgetType DEF RecallScene, IInv
<1>5. TypeOK' /\ MuteDerived'
  BY <1>2, <1>3, <1>4 DEF IInv, TypeOK, MuteDerived, Good, Consoles, Ensured, Derived
<1>6. \A x \in Scene : scenes'[x] # None => Sound(scenes[x])'
  <2> TAKE x \in Scene
  <2> HAVE scenes'[x] # None
  <2>1. Sound(scenes[x]) /\ scenes'[x] = scenes[x]
    BY <1>3 DEF IInv
  <2> QED BY <1>2, <1>3, <2>1 DEF Sound, Covered, SourcesCovered, AssignsInputs
<1> QED BY <1>2, <1>3, <1>5, <1>6 DEF IInv, FadeSkipsSoundly, SourcesExist

LEMMA FadeStep ==
  ASSUME IInv, NEW id \in Scene, NEW dur \in Durations, RecallSceneFade(id, dur)
  PROVE  IInv'
<1> DEFINE f == ConsoleSnapshot(console)
           t == scenes[id]
<1>1. f \in Snapshot /\ Sound(f) /\ t \in Snapshot /\ Sound(t)
  BY SnapshotType, SnapshotSound, SceneType DEF IInv, RecallSceneFade
<1>2. /\ fade' = [from |-> f, to |-> t, pos |-> 0, dur |-> dur]
      /\ console' = console /\ scenes' = scenes /\ next_scene_id' = next_scene_id
  BY DEF RecallSceneFade
<1>3. ops' \in 0..MaxOps
  BY BudgetType DEF RecallSceneFade, IInv
<1>4. /\ \A c \in Strip : StripScene(console, c) = f.strip[c]
      /\ \A b \in Bus : console.bus[b] = f.bus[b]
  BY DEF ConsoleSnapshot
<1> HIDE DEF f, t
<1>5. TypeOK'
  BY <1>1, <1>2, <1>3 DEF IInv, TypeOK
<1>6. fade'.from = f /\ fade'.to = t
  BY <1>2
<1>7. FadeSkipsSoundly'
  <2>1. ASSUME NEW c \in t.covers, f.strip[c] = t.strip[c]
        PROVE  StripScene(console', c) = t.strip[c]
    BY <1>1, <1>2, <1>4, <2>1 DEF Snapshot
  <2>2. ASSUME NEW b \in Bus, f.bus[b] = t.bus[b]
        PROVE  console'.bus[b] = t.bus[b]
    BY <1>2, <1>4, <2>2
  <2> QED BY <1>6, <2>1, <2>2 DEF FadeSkipsSoundly
<1>8. MuteDerived' /\ SourcesExist'
  BY <1>2 DEF IInv, MuteDerived, SourcesExist, SoloGated
<1>9. Sound(fade.from)' /\ Sound(fade.to)'
  BY <1>1, <1>2, <1>6 DEF Sound, Covered, SourcesCovered, AssignsInputs
<1>10. \A x \in Scene : scenes'[x] # None => Sound(scenes[x])'
  BY <1>2 DEF IInv, Sound, Covered, SourcesCovered, AssignsInputs
<1> QED BY <1>5, <1>7, <1>8, <1>9, <1>10 DEF IInv

LEMMA DeleteStep == ASSUME IInv, NEW id \in Scene, DeleteScene(id) PROVE IInv'
<1>1. /\ scenes' = [scenes EXCEPT ![id] = None]
      /\ console' = console /\ next_scene_id' = next_scene_id /\ fade' = fade
  BY DEF DeleteScene
<1>2. ops' \in 0..MaxOps
  BY BudgetType DEF DeleteScene, IInv
<1>3. TypeOK'
  BY <1>1, <1>2 DEF IInv, TypeOK
<1>4. ASSUME NEW x \in Scene, scenes'[x] # None PROVE Sound(scenes[x])'
  <2>1. Sound(scenes'[x])
    BY <1>1, <1>4 DEF IInv, TypeOK
  <2> QED BY <1>1, <2>1 DEF Sound, Covered, SourcesCovered, AssignsInputs
<1>5. fade' # None => Sound(fade.from)' /\ Sound(fade.to)'
  BY <1>1 DEF IInv, Sound, Covered, SourcesCovered, AssignsInputs
<1>6. MuteDerived' /\ FadeSkipsSoundly' /\ SourcesExist'
  BY <1>1 DEF IInv, MuteDerived, FadeSkipsSoundly, SourcesExist, SoloGated, StripScene
<1> QED BY <1>3, <1>4, <1>5, <1>6 DEF IInv

LEMMA StreamStep == ASSUME IInv, NEW c \in Input, StreamArrives(c) PROVE IInv'
<1> DEFINE n == EnsureChannel(console, c)
<1>1. Good(console) /\ c \in Strip
  BY GoodConsole DEF IInv, Strip
<1>2. Good(n)
  BY <1>1, EnsureGood
<1>3. /\ n.exists = console.exists \cup {c} /\ n.gain = console.gain
      /\ n.main_assign = console.main_assign /\ n.user_muted = console.user_muted
      /\ n.soloed = console.soloed /\ n.bus = console.bus
  BY <1>1 DEF Good, Consoles, EnsureChannel
<1>4. console' = n /\ UNCHANGED <<scenes, next_scene_id, fade, ops>>
  BY DEF StreamArrives
<1> HIDE DEF n
<1>5. TypeOK' /\ MuteDerived'
  BY <1>2, <1>4 DEF IInv, TypeOK, MuteDerived, Good, Consoles, Ensured, Derived
<1>6. FadeSkipsSoundly' /\ SourcesExist'
  BY <1>3, <1>4 DEF IInv, FadeSkipsSoundly, SourcesExist, StripScene
<1>7. \A x \in Scene : scenes'[x] # None => Sound(scenes[x])'
  BY <1>3, <1>4 DEF IInv, Sound, Covered, SourcesCovered, AssignsInputs
<1>8. fade' # None => Sound(fade.from)' /\ Sound(fade.to)'
  BY <1>3, <1>4 DEF IInv, Sound, Covered, SourcesCovered, AssignsInputs
<1> QED BY <1>5, <1>6, <1>7, <1>8 DEF IInv

LEMMA FadeEndStep == ASSUME IInv, FadeEnds PROVE IInv'
<1> DEFINE s == fade.to
           n == ApplySceneInterp(console, s, s, 1, 1)
<1>1. s \in Snapshot /\ Sound(s)
  BY FadeType DEF IInv, FadeEnds
<1>2. /\ Good(n) /\ n.exists = console.exists
      /\ \A b \in Bus, i \in Slot :
           n.bus[b].sources[i] # None => SlotStrip(b, i) \in n.exists
  <2> HIDE DEF s
  <2> QED BY <1>1, ExactGood
<1>3. console' = n /\ fade' = None /\ UNCHANGED <<scenes, next_scene_id, ops>>
  BY DEF FadeEnds
<1> HIDE DEF n, s
<1>4. TypeOK' /\ MuteDerived'
  BY <1>2, <1>3 DEF IInv, TypeOK, MuteDerived, Good, Consoles, Ensured, Derived
<1>5. \A x \in Scene : scenes'[x] # None => Sound(scenes[x])'
  <2> TAKE x \in Scene
  <2> HAVE scenes'[x] # None
  <2>1. Sound(scenes[x]) /\ scenes'[x] = scenes[x]
    BY <1>3 DEF IInv
  <2> QED BY <1>2, <1>3, <2>1 DEF Sound, Covered, SourcesCovered, AssignsInputs
<1> QED BY <1>2, <1>3, <1>4, <1>5 DEF IInv, FadeSkipsSoundly, SourcesExist

\* The step FadeSkipsSoundly is about: what the two scenes share was in place, is
\* skipped or found unchanged, and so stays in place.
LEMMA FadeOnStep == ASSUME IInv, FadeGoesOn PROVE IInv'
<1> DEFINE f == fade.from
           t == fade.to
           p == fade.pos + 1
           d == fade.dur
           n == ApplySceneInterp(console, f, t, p, d)
<1>1. /\ f \in Snapshot /\ Sound(f) /\ t \in Snapshot /\ Sound(t)
      /\ p \in Nat /\ p < d /\ d \in Nat \ {0} /\ At(p, d)
  BY FadeType DEF IInv, FadeGoesOn, At
<1>2. n = ApplySceneInterp(console, f, t, p, d)
  OBVIOUS
<1>3. /\ console' = n /\ fade' = [fade EXCEPT !.pos = p]
      /\ UNCHANGED <<scenes, next_scene_id, ops>>
  BY DEF FadeGoesOn
<1>4. /\ fade = [from |-> f, to |-> t, pos |-> fade.pos, dur |-> d]
      /\ d \in Durations
  BY FadeType DEF FadeGoesOn, IInv, TypeOK
<1>5. fade.from = f /\ fade.to = t /\ fade # None
  BY DEF FadeGoesOn
<1> HIDE DEF n, f, t, p, d
<1>6. fade' = [from |-> f, to |-> t, pos |-> p, dur |-> d]
  BY <1>3, <1>4
<1>7. fade'.from = f /\ fade'.to = t
  BY <1>6
<1>8. /\ Good(n) /\ n.exists = console.exists
      /\ \A b \in Bus, i \in Slot :
           n.bus[b].sources[i] # None => SlotStrip(b, i) \in n.exists
  BY <1>1, <1>2, AppliedFrame
<1>9. TypeOK'
  <2>1. fade' \in [from : Snapshot, to : Snapshot, pos : Nat, dur : Durations] \cup {None}
    BY <1>1, <1>4, <1>6
  <2>2. console' \in [exists : SUBSET Strip, gain : [Strip -> Level],
                      user_muted : SUBSET Strip, soloed : SUBSET Strip,
                      engine : SUBSET Strip, main_assign : SUBSET Input,
                      bus : [Bus -> BusScenes], master_gain : Level]
    BY <1>3, <1>8 DEF Good, Consoles
  <2>3. console'.user_muted \cup console'.soloed \cup console'.engine \subseteq console'.exists
    BY <1>3, <1>8 DEF Good, Ensured
  <2> QED BY <1>3, <2>1, <2>2, <2>3 DEF IInv, TypeOK
<1>10. MuteDerived'
  BY <1>3, <1>8 DEF MuteDerived, Good, Derived, SoloGated
<1>11. FadeSkipsSoundly'
  <2>1. ASSUME NEW c \in t.covers, f.strip[c] = t.strip[c]
        PROVE  StripScene(console', c) = t.strip[c]
    <3>1. StripScene(console, c) = t.strip[c]
      BY <1>5, <2>1 DEF IInv, FadeSkipsSoundly
    <3>2. /\ c \in console.user_muted <=> t.strip[c].mute
          /\ c \in console.soloed <=> t.strip[c].solo
      <4>1. /\ StripScene(console, c).mute = (c \in console.user_muted)
            /\ StripScene(console, c).solo = (c \in console.soloed)
        BY DEF StripScene
      <4> QED BY <3>1, <4>1
    <3>3. Skipped(f.strip[c], t.strip[c], p, d)
      BY <1>1, <2>1 DEF Skipped
    <3>4. StripApplied(console, n, f, t, p, d, c)
      BY <1>1, <1>2, AppliedHere
    <3>5. /\ n.gain[c] = console.gain[c]
          /\ c \in n.main_assign <=> c \in console.main_assign
          /\ c \in n.user_muted <=> c \in console.user_muted
          /\ c \in n.soloed <=> c \in console.soloed
      BY <3>2, <3>3, <3>4 DEF StripApplied
    <3> QED BY <1>3, <3>1, <3>5 DEF StripScene
  <2>2. ASSUME NEW b \in Bus, f.bus[b] = t.bus[b]
        PROVE  console'.bus[b] = t.bus[b]
    <3>1. console.bus[b] = t.bus[b]
      BY <1>5, <2>2 DEF IInv, FadeSkipsSoundly
    <3>2. Skipped(f.bus[b], t.bus[b], p, d)
      BY <1>1, <2>2 DEF Skipped
    <3>3. n.bus[b] = console.bus[b]
      BY <1>1, <1>2, <3>2, SkippedBus
    <3> QED BY <1>3, <3>1, <3>3
  <2> QED BY <1>7, <2>1, <2>2 DEF FadeSkipsSoundly
<1>12. SourcesExist'
  BY <1>3, <1>8 DEF SourcesExist
<1>13. Sound(fade.from)' /\ Sound(fade.to)'
  BY <1>1, <1>3, <1>7, <1>8 DEF Sound, Covered, SourcesCovered, AssignsInputs
<1>14. \A x \in Scene : scenes'[x] # None => Sound(scenes[x])'
  <2> TAKE x \in Scene
  <2> HAVE scenes'[x] # None
  <2>1. Sound(scenes[x]) /\ scenes'[x] = scenes[x]
    BY <1>3 DEF IInv
  <2> QED BY <1>3, <1>8, <2>1 DEF Sound, Covered, SourcesCovered, AssignsInputs
<1> QED BY <1>9, <1>10, <1>11, <1>12, <1>13, <1>14 DEF IInv

LEMMA StutterStep == ASSUME IInv, UNCHANGED vars PROVE IInv'
<1>1. TypeOK' /\ MuteDerived' /\ FadeSkipsSoundly' /\ SourcesExist'
  BY DEF vars, IInv, TypeOK, MuteDerived, FadeSkipsSoundly, SourcesExist, SoloGated,
         StripScene
<1> QED BY <1>1 DEF vars, IInv, Sound, Covered, SourcesCovered, AssignsInputs

LEMMA NextInv == IInv /\ [Next]_vars => IInv'
<1> SUFFICES ASSUME IInv, [Next]_vars PROVE IInv'
  OBVIOUS
<1>1. CASE UserOperates
  BY <1>1, SetterStep, AssignStep, BusStep, MasterStep, SaveStep, RecallStep, FadeStep,
     DeleteStep DEF UserOperates
<1>2. ASSUME NEW c \in Input, StreamArrives(c) PROVE IInv'
  BY <1>2, StreamStep
<1>3. CASE FadeBlock
  BY <1>3, FadeEndStep, FadeOnStep DEF FadeBlock
<1>4. CASE UNCHANGED vars
  BY <1>4, StutterStep
<1> QED BY <1>1, <1>2, <1>3, <1>4 DEF Next

LEMMA Invariant == Spec => []IInv
<1> QED BY InitInv, NextInv, PTL DEF Spec
--------------------------------------------------------------------------------
(* The theorems *)

\* The console, its scenes and its fade are always what their types say, and only
\* strips that exist are muted, soloed or silent.
THEOREM TypeCorrect == Spec => []TypeOK
<1>1. IInv => TypeOK
  BY DEF IInv
<1> QED BY <1>1, Invariant, PTL

\* No order of setters, recalls and fades, finished or cancelled, parts the engine
\* mutes from the user's mutes and solos.
THEOREM MutesDerived == Spec => []MuteDerived
<1>1. IInv => MuteDerived
  BY DEF IInv
<1> QED BY <1>1, Invariant, PTL

\* What a fade skips is in place for as long as it runs.
THEOREM SkipsSound == Spec => []FadeSkipsSoundly
<1>1. IInv => FadeSkipsSoundly
  BY DEF IInv
<1> QED BY <1>1, Invariant, PTL

\* Recalls and finished fades land on their scene, however the console was left.
THEOREM Lands == Spec => RecallLands
<1>1. ASSUME IInv, NEW id \in Scene, RecallScene(id)
      PROVE  Matches(console', scenes[id])
  <2>1. scenes[id] \in Snapshot /\ Sound(scenes[id])
    BY <1>1, SceneType DEF IInv, RecallScene
  <2> QED BY <1>1, <2>1, ExactMatches DEF RecallScene
<1>2. ASSUME IInv, FadeEnds PROVE Matches(console', fade.to)
  <2>1. fade.to \in Snapshot /\ Sound(fade.to)
    BY <1>2, FadeType DEF IInv, FadeEnds
  <2> QED BY <1>2, <2>1, ExactMatches DEF FadeEnds
<1>3. IInv /\ [Next]_vars =>
        [/\ \A id \in Scene : RecallScene(id) => Matches(console', scenes[id])
         /\ FadeEnds => Matches(console', fade.to)]_vars
  BY <1>1, <1>2
<1> QED BY <1>3, Invariant, PTL DEF RecallLands, Spec

\* No recall and no block of a fade brings a strip into being.
THEOREM CreatesNothing == Spec => RecallCreatesNothing
<1>1. ASSUME IInv, NEW id \in Scene, RecallScene(id)
      PROVE  console'.exists = console.exists
  <2>1. scenes[id] \in Snapshot /\ Sound(scenes[id])
    BY <1>1, SceneType DEF IInv, RecallScene
  <2> QED BY <1>1, <2>1, ExactGood DEF RecallScene
<1>2. ASSUME IInv, FadeEnds PROVE console'.exists = console.exists
  <2>1. fade.to \in Snapshot /\ Sound(fade.to)
    BY <1>2, FadeType DEF IInv, FadeEnds
  <2> QED BY <1>2, <2>1, ExactGood DEF FadeEnds
<1>3. ASSUME IInv, FadeGoesOn PROVE console'.exists = console.exists
  <2>1. /\ fade.from \in Snapshot /\ Sound(fade.from)
        /\ fade.to \in Snapshot /\ Sound(fade.to)
        /\ At(fade.pos + 1, fade.dur)
    BY <1>3, FadeType DEF IInv, FadeGoesOn, At
  <2> DEFINE p == fade.pos + 1
  <2>2. console' = ApplySceneInterp(console, fade.from, fade.to, p, fade.dur) /\ At(p, fade.dur)
    BY <1>3, <2>1 DEF FadeGoesOn
  <2> HIDE DEF p
  <2> QED BY <1>3, <2>1, <2>2, AppliedFrame
<1>4. IInv /\ [Next]_vars =>
        [FadeBlock \/ (\E id \in Scene : RecallScene(id))
           => console'.exists = console.exists]_vars
  BY <1>1, <1>2, <1>3 DEF FadeBlock
<1> QED BY <1>4, Invariant, PTL DEF RecallCreatesNothing, Spec
================================================================================
