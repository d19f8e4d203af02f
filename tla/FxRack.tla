--------------------------------- MODULE FxRack ---------------------------------
(****************************************************************************)
(* The FX rack of the mixer core (crates/mixer-wasm/src/gxfx.rs): a chain   *)
(* of effect slots per stereo pair, the C++ DSP instances behind them and   *)
(* the two budgets that cap those instances.                                *)
(*                                                                          *)
(* A slot is its effect, flags, number of DSP handles, one value for its    *)
(* whole parameter row, and row, the slot whose storage the handles' ports  *)
(* point at.  Pairs and slots are in range: the binding rejects the rest.   *)
(****************************************************************************)
EXTENDS Integers, FiniteSets

CONSTANTS
  CHAIN_PAIRS, CHAIN_SLOTS,
  Effect,              \* the catalog
  MemoryFx,            \* effects that allocate tapes (catalog flag "memory")
  LooperFx,            \* the live looper
  StereoFx,            \* effects with one stereo instance; others run dual-mono
  AvailableFx,         \* effects whose DSP can be created
  Values,              \* parameter values a user sets
  MEMORY_CLASS_CAP, LOOPER_CAP,
  None                 \* no effect (-1), no handle

ASSUME RackAssumption ==
  /\ CHAIN_PAIRS \in Nat /\ CHAIN_SLOTS \in Nat
  /\ MemoryFx \subseteq Effect /\ LooperFx \subseteq MemoryFx
  /\ StereoFx \subseteq Effect /\ AvailableFx \subseteq Effect
  /\ MEMORY_CLASS_CAP \in Nat /\ LOOPER_CAP \in Nat
  /\ Values \subseteq Nat
  /\ None \notin Effect /\ None \notin Nat

VARIABLE rack    \* slots, mem_class_instances and looper_slots

Pair == 0..(CHAIN_PAIRS - 1)
Slot == 0..(CHAIN_SLOTS - 1)
Zeroed == 0      \* the parameter row of an empty slot
Default == 1     \* the catalog's defaults

EmptySlot == [fx |-> None, enabled |-> FALSE, active |-> FALSE, params |-> Zeroed,
              handles |-> 0, row |-> None]

Init == rack = [slot |-> [p \in Pair |-> [s \in Slot |-> EmptySlot]],
                mem |-> 0, loopers |-> 0]
--------------------------------------------------------------------------------
(* The rack's operations, on a rack r *)

Handles(fx) == IF fx \in StereoFx THEN 1 ELSE 2
NewMem(fx) == IF fx \in MemoryFx THEN Handles(fx) ELSE 0
HeldMem(slot) == IF slot.fx \in MemoryFx THEN slot.handles ELSE 0
Loopers(fx) == IF fx \in LooperFx THEN 1 ELSE 0

\* Both budgets are checked before the teardown, which releases the old slot.
FitsBudget(r, p, s, fx) ==
  LET old == r.slot[p][s]
  IN  /\ r.mem - HeldMem(old) + NewMem(fx) <= MEMORY_CLASS_CAP
      /\ r.loopers - Loopers(old.fx) + Loopers(fx) <= LOOPER_CAP

\* The slots of r with slot x put at <<p, s>>.
Put(r, p, s, x) == [r.slot EXCEPT ![p][s] = x]

\* Mutant of SlotTeardown: the looper budget is not released.
SlotTeardownKeepsLooper(r, p, s) ==
  [r EXCEPT !.slot = Put(r, p, s, EmptySlot), !.mem = @ - HeldMem(r.slot[p][s])]

\* Mutant of SlotTeardown: every effect releases a looper.
SlotTeardownReleasesAny(r, p, s) ==
  [r EXCEPT !.slot = Put(r, p, s, EmptySlot), !.mem = @ - HeldMem(r.slot[p][s]),
            !.loopers = @ - IF r.slot[p][s].fx = None THEN 0 ELSE 1]

SlotTeardown(r, p, s) ==
  LET old == r.slot[p][s]
  IN  [r EXCEPT !.slot = Put(r, p, s, EmptySlot), !.mem = @ - HeldMem(old),
                !.loopers = @ - Loopers(old.fx)]

\* Point the handles of slot s at the slot's own rows.
ConnectSlotParams(chain, s) ==
  IF chain[s].fx = None THEN chain[s] ELSE [chain[s] EXCEPT !.row = s]

Create(r, p, s, fx) ==
  LET new == [EmptySlot EXCEPT !.fx = fx, !.params = Default,
                               !.handles = Handles(fx)]
      connected == ConnectSlotParams([r.slot[p] EXCEPT ![s] = new], s)
  IN  [r EXCEPT !.slot = Put(r, p, s, connected),
                !.mem = @ + NewMem(fx), !.loopers = @ + Loopers(fx)]

\* An effect that cannot be created leaves the slot empty, its parameters at the
\* effect's defaults.
SetSlot(r, p, s, fx) ==
  LET bare == SlotTeardown(r, p, s)
  IN  CASE ~FitsBudget(r, p, s, fx) -> r
        [] FitsBudget(r, p, s, fx) /\ fx = None -> bare
        [] FitsBudget(r, p, s, fx) /\ fx \in AvailableFx -> Create(bare, p, s, fx)
        [] FitsBudget(r, p, s, fx) /\ fx \in Effect \ AvailableFx ->
             [bare EXCEPT !.slot[p][s].params = Default]

\* Mutant of SetEnabled: activation is left to the render path.
SetEnabledLazily(r, p, s, on) ==
  IF r.slot[p][s].fx = None THEN r
  ELSE [r EXCEPT !.slot[p][s].enabled = on, !.slot[p][s].active = on /\ @]

\* The DSP is activated and deactivated with the flag.
SetEnabled(r, p, s, on) ==
  IF r.slot[p][s].fx = None THEN r
  ELSE [r EXCEPT !.slot[p][s].enabled = on, !.slot[p][s].active = on]

SetParam(r, p, s, v) ==
  IF r.slot[p][s].fx = None THEN r ELSE [r EXCEPT !.slot[p][s].params = v]

\* Where the slot that ends up at position i of a move comes from.
MovedFrom(from, to, i) ==
  CASE i = to -> from
    [] from <= i /\ i < to -> i + 1
    [] to < i /\ i <= from -> i - 1
    [] (i < from /\ i < to) \/ (i > from /\ i > to) -> i

\* Mutant of MoveSlot: only the moved slot is connected again.
MoveSlotConnectsOne(r, p, from, to) ==
  LET moved == [i \in Slot |-> r.slot[p][MovedFrom(from, to, i)]]
  IN  IF from = to THEN r
      ELSE [r EXCEPT !.slot[p] =
             [moved EXCEPT ![to] = ConnectSlotParams(moved, to)]]

\* Array-move; the handles still point at their old rows until the slots
\* between from and to are connected again.
MoveSlot(r, p, from, to) ==
  LET moved == [i \in Slot |-> r.slot[p][MovedFrom(from, to, i)]]
      between == {i \in Slot : (from <= i /\ i <= to) \/ (to <= i /\ i <= from)}
  IN  IF from = to THEN r
      ELSE [r EXCEPT !.slot[p] =
             [i \in Slot |-> IF i \in between THEN ConnectSlotParams(moved, i)
                             ELSE moved[i]]]

\* Rendering activates an enabled slot that is not active.
ProcessPair(r, p) ==
  [r EXCEPT !.slot[p] =
     [s \in Slot |-> [r.slot[p][s] EXCEPT
        !.active = @ \/ (r.slot[p][s].fx # None /\ r.slot[p][s].enabled)]]]
--------------------------------------------------------------------------------
FxSetSlot == \E p \in Pair, s \in Slot, fx \in Effect \cup {None} :
               rack' = SetSlot(rack, p, s, fx)
FxSetEnabled == \E p \in Pair, s \in Slot, on \in BOOLEAN :
                  rack' = SetEnabled(rack, p, s, on)
FxSetParam == \E p \in Pair, s \in Slot, v \in Values :
                rack' = SetParam(rack, p, s, v)
FxMoveSlot == \E p \in Pair, from \in Slot, to \in Slot :
                rack' = MoveSlot(rack, p, from, to)
Process == \E p \in Pair : rack' = ProcessPair(rack, p)

Next == FxSetSlot \/ FxSetEnabled \/ FxSetParam \/ FxMoveSlot \/ Process

Spec == Init /\ [][Next]_rack
--------------------------------------------------------------------------------
(* Properties *)

SlotState ==
  [fx : Effect \cup {None}, enabled : BOOLEAN, active : BOOLEAN,
   params : Values \cup {Zeroed, Default}, handles : 0..2, row : Slot \cup {None}]

TypeOK ==
  rack \in [slot : [Pair -> [Slot -> SlotState]], mem : Nat, loopers : Nat]

\* The slot at the place <<pair, slot, ...>>.
At(r, place) == r.slot[place[1]][place[2]]

MemoryHandles(r) ==
  {h \in Pair \X Slot \X (1..2) : At(r, h).fx \in MemoryFx /\ h[3] <= At(r, h).handles}
LooperSlots(r) == {s \in Pair \X Slot : At(r, s).fx \in LooperFx}

\* The two budget counters never drift from what is really instantiated, through
\* replacements, failed creations and moves, and never pass their caps.
BudgetsExact ==
  /\ rack.mem = Cardinality(MemoryHandles(rack))
  /\ rack.loopers = Cardinality(LooperSlots(rack))
  /\ rack.mem <= MEMORY_CLASS_CAP /\ rack.loopers <= LOOPER_CAP

\* Every DSP instance reads the parameters of the slot it sits in, also after
\* chain moves; a slot has its instances or is empty.
DspReadsOwnSlot ==
  \A p \in Pair, s \in Slot :
    LET slot == rack.slot[p][s]
    IN  IF slot.fx = None THEN slot.handles = 0 /\ slot.row = None
        ELSE slot.handles = Handles(slot.fx) /\ slot.row = s

\* The render path never activates DSP (activation allocates): its
\* ensure-active fallback is dead code, and an empty slot is never enabled.
RenderNeverActivates ==
  \A p \in Pair, s \in Slot :
    LET slot == rack.slot[p][s]
    IN  /\ slot.enabled => slot.active
        /\ slot.fx = None => ~slot.enabled /\ ~slot.active
================================================================================
