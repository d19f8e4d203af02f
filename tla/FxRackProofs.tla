------------------------------ MODULE FxRackProofs ------------------------------
(****************************************************************************)
(* The invariants of FxRack and of its scenes, for every size of the rack,  *)
(* every catalog and every cap.  SlotOK is what holds of one slot, Exact    *)
(* what holds of the budget counters; each operation has a lemma that says  *)
(* it keeps both.  A recall is a loop over the pairs around a loop over the *)
(* slots: each is followed by well-founded induction on the set that is     *)
(* left to visit.                                                           *)
(****************************************************************************)
EXTENDS FxScenes, FunctionTheorems, FiniteSetTheorems, WellFoundedInduction, TLAPS

Slots == [Pair -> [Slot -> SlotState]]
Racks == [slot : Slots, mem : Nat, loopers : Nat]

\* A rack whose counters may have been driven below zero.
Shape == [slot : Slots, mem : Int, loopers : Int]

Wired(x, s) ==
  IF x.fx = None THEN x.handles = 0 /\ x.row = None
  ELSE x.fx \in AvailableFx /\ x.handles = Handles(x.fx) /\ x.row = s

Activated(x) ==
  /\ x.enabled => x.active
  /\ x.fx = None => ~x.enabled /\ ~x.active

\* An effect that cannot be created leaves its defaults behind.
Blank(x) == x.fx = None /\ AvailableFx = Effect => x.params = Zeroed

SlotOK(x, s) == x \in SlotState /\ Wired(x, s) /\ Activated(x) /\ Blank(x)

SlotsOK(r) == \A p \in Pair, s \in Slot : SlotOK(r.slot[p][s], s)

Exact(r) ==
  /\ r.mem = Cardinality(MemoryHandles(r))
  /\ r.loopers = Cardinality(LooperSlots(r))

InBudget(r) == r.mem <= MEMORY_CLASS_CAP /\ r.loopers <= LOOPER_CAP

RackOK(r) == r \in Racks /\ SlotsOK(r) /\ Exact(r) /\ InBudget(r)

--------------------------------------------------------------------------------
(* Counting *)

LEMMA HandlesType == \A fx : Handles(fx) \in 1..2
BY DEF Handles

LEMMA PlacesFinite ==
  IsFiniteSet(Pair \X Slot) /\ IsFiniteSet(Pair \X Slot \X (1..2))
<1> DEFINE D == (Pair \X Slot) \X (1..2)
           C == Pair \X Slot \X (1..2)
           f == [d \in D |-> <<d[1][1], d[1][2], d[2]>>]
<1>1. IsFiniteSet(Pair) /\ IsFiniteSet(Slot) /\ IsFiniteSet(1..2)
  <2>1. CHAIN_PAIRS - 1 \in Int /\ CHAIN_SLOTS - 1 \in Int /\ 0 \in Int /\ 1 \in Int /\ 2 \in Int
    BY RackAssumption
  <2>2. \A a, b \in Int : IsFiniteSet(a..b)
    BY FS_Interval
  <2>3. /\ IsFiniteSet(0..(CHAIN_PAIRS - 1)) /\ IsFiniteSet(0..(CHAIN_SLOTS - 1))
        /\ IsFiniteSet(1..2)
    BY <2>1, <2>2, Zenon
  <2> QED
    BY <2>3 DEF Pair, Slot
<1>2. IsFiniteSet(Pair \X Slot) /\ IsFiniteSet(D)
  BY <1>1, FS_Product
<1>3. f \in [D -> C]
  OBVIOUS
<1>4. ASSUME NEW c \in C PROVE \E d \in D : f[d] = c
  <2>1. <<<<c[1], c[2]>>, c[3]>> \in D /\ f[<<<<c[1], c[2]>>, c[3]>>] = c
    OBVIOUS
  <2> QED
    BY <2>1
<1>5. f \in Surjection(D, C)
  BY <1>3, <1>4 DEF Surjection
<1> QED
  BY <1>2, <1>5, FS_Surjection

LEMMA HandlesFinite ==
  ASSUME NEW r
  PROVE  IsFiniteSet(MemoryHandles(r)) /\ IsFiniteSet(LooperSlots(r))
BY PlacesFinite, FS_Subset DEF MemoryHandles, LooperSlots

\* What slot x at <<p, s>> contributes to the counts.
OwnHandles(x, p, s) == {<<p, s, h>> : h \in 1..HeldMem(x)}
OwnLooper(x, p, s) == IF x.fx \in LooperFx THEN {<<p, s>>} ELSE {}

LEMMA OwnCounts ==
  ASSUME NEW x \in SlotState, NEW p, NEW s
  PROVE  /\ IsFiniteSet(OwnHandles(x, p, s)) /\ IsFiniteSet(OwnLooper(x, p, s))
         /\ Cardinality(OwnHandles(x, p, s)) = HeldMem(x)
         /\ Cardinality(OwnLooper(x, p, s)) = Loopers(x.fx)
<1>1. HeldMem(x) \in 0..2
  BY DEF HeldMem, SlotState
<1>2. /\ IsFiniteSet(OwnLooper(x, p, s))
      /\ Cardinality(OwnLooper(x, p, s)) = Loopers(x.fx)
  BY FS_EmptySet, FS_Singleton DEF OwnLooper, Loopers
<1>3. CASE HeldMem(x) = 0
  <2>1. OwnHandles(x, p, s) = {}
    BY <1>3 DEF OwnHandles
  <2> QED
    BY <1>3, <1>2, <2>1, FS_EmptySet
<1>4. CASE HeldMem(x) = 1
  <2>1. OwnHandles(x, p, s) = {<<p, s, 1>>}
    BY <1>4 DEF OwnHandles
  <2> QED
    BY <1>4, <1>2, <2>1, FS_Singleton
<1>5. CASE HeldMem(x) = 2
  <2>1. OwnHandles(x, p, s) = {<<p, s, 1>>} \cup {<<p, s, 2>>}
    BY <1>5 DEF OwnHandles
  <2>2. <<p, s, 2>> \notin {<<p, s, 1>>}
    OBVIOUS
  <2>3. IsFiniteSet(OwnHandles(x, p, s)) /\ Cardinality(OwnHandles(x, p, s)) = 2
    <3>1. IsFiniteSet({<<p, s, 1>>}) /\ Cardinality({<<p, s, 1>>}) = 1
      BY FS_Singleton
    <3>2. Cardinality({<<p, s, 1>>} \cup {<<p, s, 2>>}) = Cardinality({<<p, s, 1>>}) + 1
      BY <2>2, <3>1, FS_AddElement
    <3>3. IsFiniteSet({<<p, s, 1>>} \cup {<<p, s, 2>>})
      BY <3>1, FS_AddElement
    <3> QED
      BY <2>1, <3>1, <3>2, <3>3
  <2> QED
    BY <1>5, <1>2, <2>3
<1> QED
  BY <1>1, <1>3, <1>4, <1>5

LEMMA DisjointUnion ==
  ASSUME NEW S, NEW T, IsFiniteSet(S), IsFiniteSet(T), S \cap T = {}
  PROVE  Cardinality(S \cup T) = Cardinality(S) + Cardinality(T)
<1>1. Cardinality(S) \in Nat /\ Cardinality(T) \in Nat
  BY FS_CardinalityType
<1>2. Cardinality(S \cup T) = Cardinality(S) + Cardinality(T) - Cardinality(S \cap T)
  BY FS_Union
<1>3. Cardinality(S \cap T) = 0
  BY FS_EmptySet
<1> QED
  BY <1>1, <1>2, <1>3

\* q is r with slot x written at <<p, s>> and counted.
Written(q, r, p, s, x) ==
  /\ q \in Shape
  /\ q.slot = Put(r, p, s, x)
  /\ q.mem = r.mem - HeldMem(r.slot[p][s]) + HeldMem(x)
  /\ q.loopers = r.loopers - Loopers(r.slot[p][s].fx) + Loopers(x.fx)

\* Writing slot x at <<p, s>> changes the counts by the contributions of the new
\* and the old slot.
LEMMA ReplaceSlot ==
  ASSUME NEW r, r.slot \in Slots, NEW p \in Pair, NEW s \in Slot,
         NEW x \in SlotState, NEW q, q.slot = Put(r, p, s, x)
  PROVE  /\ Cardinality(MemoryHandles(q))
              = Cardinality(MemoryHandles(r)) - HeldMem(r.slot[p][s]) + HeldMem(x)
         /\ Cardinality(LooperSlots(q))
              = Cardinality(LooperSlots(r)) - Loopers(r.slot[p][s].fx) + Loopers(x.fx)
<1>a. /\ r.slot \in [Pair -> [Slot -> SlotState]]
      /\ q.slot = [r.slot EXCEPT ![p] = [r.slot[p] EXCEPT ![s] = x]]
  BY DEF Slots, Put
<1> DEFINE old == r.slot[p][s]
           MRest == {h \in MemoryHandles(r) : <<h[1], h[2]>> # <<p, s>>}
           LRest == {h \in LooperSlots(r) : h # <<p, s>>}
<1>1. old \in SlotState
  BY <1>a
<1>2. \A h \in Pair \X Slot : At(q, h) = IF h = <<p, s>> THEN x ELSE At(r, h)
  BY <1>a DEF At
<1>3. \A h \in Pair \X Slot \X (1..2) :
         At(q, h) = IF <<h[1], h[2]>> = <<p, s>> THEN x ELSE At(r, h)
  BY <1>a DEF At
<1>4. \A y \in SlotState, h \in 1..2 : y.fx \in MemoryFx /\ h <= y.handles <=> h \in 1..HeldMem(y)
  BY DEF HeldMem, SlotState
<1>5. \A y \in SlotState : HeldMem(y) \in 0..2
  BY DEF HeldMem, SlotState
<1>6. MemoryHandles(r) = MRest \cup OwnHandles(old, p, s)
  <2>1. \A h \in Pair \X Slot \X (1..2) : <<h[1], h[2]>> = <<p, s>> => At(r, h) = old
    BY DEF At
  <2> HIDE DEF old
  <2>2. \A h \in Pair \X Slot \X (1..2) :
           <<h[1], h[2]>> = <<p, s>> => (h \in MemoryHandles(r) <=> h[3] \in 1..HeldMem(old))
    BY <1>1, <1>4, <2>1 DEF MemoryHandles
  <2>3. OwnHandles(old, p, s) \subseteq MemoryHandles(r)
    <3>1. ASSUME NEW n \in 1..HeldMem(old) PROVE <<p, s, n>> \in MemoryHandles(r)
      <4>1. n \in 1..2
        BY <1>1, <1>5
      <4>2. <<p, s, n>> \in Pair \X Slot \X (1..2)
        BY <4>1
      <4> QED
        BY <2>2, <4>2
    <3> QED
      BY <3>1 DEF OwnHandles
  <2>4. ASSUME NEW h \in MemoryHandles(r), <<h[1], h[2]>> = <<p, s>>
        PROVE  h \in OwnHandles(old, p, s)
    <3>1. h = <<p, s, h[3]>> /\ h[3] \in 1..HeldMem(old)
      BY <2>2, <2>4 DEF MemoryHandles
    <3> QED
      BY <3>1 DEF OwnHandles
  <2> QED
    BY <2>3, <2>4
<1>7. MemoryHandles(q) = MRest \cup OwnHandles(x, p, s)
  BY <1>3, <1>4, <1>5 DEF MemoryHandles, OwnHandles
<1>8. LooperSlots(r) = LRest \cup OwnLooper(old, p, s)
  BY DEF LooperSlots, OwnLooper, At
<1>9. LooperSlots(q) = LRest \cup OwnLooper(x, p, s)
  BY <1>2 DEF LooperSlots, OwnLooper
<1>10. \A y : MRest \cap OwnHandles(y, p, s) = {} /\ LRest \cap OwnLooper(y, p, s) = {}
  BY DEF OwnHandles, OwnLooper
<1>11. IsFiniteSet(MRest) /\ IsFiniteSet(LRest)
  BY HandlesFinite, FS_Subset
<1> HIDE DEF MRest, LRest, old
<1>12. ASSUME NEW y \in SlotState
       PROVE  /\ Cardinality(MRest \cup OwnHandles(y, p, s)) = Cardinality(MRest) + HeldMem(y)
              /\ Cardinality(LRest \cup OwnLooper(y, p, s)) = Cardinality(LRest) + Loopers(y.fx)
  <2>1. /\ IsFiniteSet(OwnHandles(y, p, s)) /\ IsFiniteSet(OwnLooper(y, p, s))
        /\ Cardinality(OwnHandles(y, p, s)) = HeldMem(y)
        /\ Cardinality(OwnLooper(y, p, s)) = Loopers(y.fx)
    BY OwnCounts
  <2>2. /\ Cardinality(MRest \cup OwnHandles(y, p, s))
             = Cardinality(MRest) + Cardinality(OwnHandles(y, p, s))
        /\ Cardinality(LRest \cup OwnLooper(y, p, s))
             = Cardinality(LRest) + Cardinality(OwnLooper(y, p, s))
    BY <2>1, <1>10, <1>11, DisjointUnion
  <2> QED
    BY <2>1, <2>2
<1>13. /\ Cardinality(MemoryHandles(r)) = Cardinality(MRest) + HeldMem(old)
       /\ Cardinality(LooperSlots(r)) = Cardinality(LRest) + Loopers(old.fx)
  BY <1>1, <1>6, <1>8, <1>12
<1>14. /\ Cardinality(MemoryHandles(q)) = Cardinality(MRest) + HeldMem(x)
       /\ Cardinality(LooperSlots(q)) = Cardinality(LRest) + Loopers(x.fx)
  BY <1>7, <1>9, <1>12
<1>15. Cardinality(MRest) \in Nat /\ Cardinality(LRest) \in Nat
  BY <1>11, FS_CardinalityType
<1>16. /\ HeldMem(old) \in Nat /\ HeldMem(x) \in Nat
       /\ Loopers(old.fx) \in Nat /\ Loopers(x.fx) \in Nat
  BY <1>1, <1>5 DEF Loopers
<1> QED
  BY <1>13, <1>14, <1>15, <1>16 DEF old
--------------------------------------------------------------------------------
(* The operations *)

LEMMA EmptySlotOK == \A s : SlotOK(EmptySlot, s)
BY RackAssumption DEF SlotOK, EmptySlot, SlotState, Wired, Activated, Blank, Zeroed, Default

\* The operations that leave effect and instances of every slot alone keep the
\* budgets as they are.
LEMMA SameInstances ==
  ASSUME NEW r, RackOK(r), NEW q, q \in Racks, SlotsOK(q),
         q.mem = r.mem, q.loopers = r.loopers,
         \A p \in Pair, s \in Slot : /\ q.slot[p][s].fx = r.slot[p][s].fx
                                    /\ q.slot[p][s].handles = r.slot[p][s].handles
  PROVE  RackOK(q)
<1>1. MemoryHandles(q) = MemoryHandles(r) /\ LooperSlots(q) = LooperSlots(r)
  BY DEF MemoryHandles, LooperSlots, At
<1> QED
  BY <1>1 DEF RackOK, Exact, InBudget

LEMMA SlotFacts ==
  /\ EmptySlot \in SlotState /\ HeldMem(EmptySlot) = 0 /\ Loopers(EmptySlot.fx) = 0
  /\ \A x \in SlotState : HeldMem(x) \in 0..2 /\ Loopers(x.fx) \in 0..1
<1>1. EmptySlot \in SlotState
  BY EmptySlotOK DEF SlotOK
<1>2. HeldMem(EmptySlot) = 0 /\ Loopers(EmptySlot.fx) = 0
  BY RackAssumption DEF EmptySlot, HeldMem, Loopers
<1>3. \A x \in SlotState : HeldMem(x) \in 0..2 /\ Loopers(x.fx) \in 0..1
  BY DEF HeldMem, Loopers, SlotState
<1> QED
  BY <1>1, <1>2, <1>3

LEMMA PutType ==
  ASSUME NEW r \in Racks, NEW p \in Pair, NEW s \in Slot, NEW x \in SlotState
  PROVE  Put(r, p, s, x) \in Slots
BY DEF Put, Racks, Slots

LEMMA UpdateType ==
  ASSUME NEW r \in Racks, NEW f \in Slots, NEW m \in Int, NEW l \in Int
  PROVE  [r EXCEPT !.slot = f, !.mem = m, !.loopers = l] \in Shape
<1> DEFINE Any(A, B) == [slot : A, mem : B, loopers : B]
<1>1. ASSUME NEW A, NEW B, NEW t \in Any(A, B), NEW a \in A, NEW b \in B, NEW c \in B
      PROVE  [t EXCEPT !.slot = a, !.mem = b, !.loopers = c] \in Any(A, B)
  BY Zenon
<1>2. r \in Any(Slots, Int)
  BY DEF Racks
<1> QED
  BY <1>1, <1>2, Zenon DEF Shape

LEMMA ShapeToRack ==
  ASSUME NEW q \in Shape, q.mem \in Nat, q.loopers \in Nat
  PROVE  q \in Racks
BY DEF Shape, Racks

LEMMA WrittenOK ==
  ASSUME NEW r, RackOK(r), NEW p \in Pair, NEW s \in Slot, NEW x, SlotOK(x, s),
         NEW q, Written(q, r, p, s, x), InBudget(q)
  PROVE  RackOK(q)
<1>1. r \in Racks /\ r.slot \in [Pair -> [Slot -> SlotState]] /\ x \in SlotState
  BY DEF RackOK, Racks, SlotOK, Slots
<1>2. q \in Shape /\ q.slot = [r.slot EXCEPT ![p] = [r.slot[p] EXCEPT ![s] = x]]
  BY <1>1 DEF Written, Put
<1>3. Exact(q)
  <2>1. /\ Cardinality(MemoryHandles(q))
              = Cardinality(MemoryHandles(r)) - HeldMem(r.slot[p][s]) + HeldMem(x)
        /\ Cardinality(LooperSlots(q))
              = Cardinality(LooperSlots(r)) - Loopers(r.slot[p][s].fx) + Loopers(x.fx)
    BY <1>1, ReplaceSlot DEF Written, Slots
  <2> QED
    BY <2>1 DEF Written, Exact, RackOK
<1>4. Cardinality(MemoryHandles(q)) \in Nat /\ Cardinality(LooperSlots(q)) \in Nat
  BY HandlesFinite, FS_CardinalityType
<1>5. q \in Racks
  BY <1>2, <1>3, <1>4, ShapeToRack DEF Exact
<1>6. SlotsOK(q)
  BY <1>1, <1>2 DEF SlotsOK, RackOK
<1> QED
  BY <1>3, <1>5, <1>6 DEF RackOK

LEMMA SlotTeardownOK ==
  ASSUME NEW r, RackOK(r), NEW p \in Pair, NEW s \in Slot
  PROVE  /\ Written(SlotTeardown(r, p, s), r, p, s, EmptySlot)
         /\ RackOK(SlotTeardown(r, p, s))
<1> DEFINE q == SlotTeardown(r, p, s)
           m == r.mem - HeldMem(r.slot[p][s])
           l == r.loopers - Loopers(r.slot[p][s].fx)
<1>1. r \in Racks /\ r.slot[p][s] \in SlotState /\ r.mem \in Nat /\ r.loopers \in Nat
  BY DEF RackOK, Racks, Slots
<1>2. /\ HeldMem(r.slot[p][s]) \in Nat /\ Loopers(r.slot[p][s].fx) \in Nat
  BY <1>1, SlotFacts
<1>3. Put(r, p, s, EmptySlot) \in Slots
  BY <1>1, PutType, SlotFacts
<1>4. q = [r EXCEPT !.slot = Put(r, p, s, EmptySlot), !.mem = m, !.loopers = l]
  BY DEF SlotTeardown
<1>5. q.slot = Put(r, p, s, EmptySlot) /\ q.mem = m /\ q.loopers = l
  BY <1>1, <1>4 DEF Racks
<1>6. m \in Int /\ l \in Int
  BY <1>1, <1>2
<1>7. q \in Shape
  <2> HIDE DEF m, l, q
  <2> QED
    BY <1>1, <1>3, <1>4, <1>6, UpdateType
<1>8. Written(q, r, p, s, EmptySlot)
  BY <1>1, <1>2, <1>5, <1>7, SlotFacts DEF Written
<1>9. InBudget(q)
  BY <1>1, <1>2, <1>5, RackAssumption DEF InBudget, RackOK
<1> HIDE DEF q
<1>10. RackOK(q)
  BY <1>8, <1>9, EmptySlotOK, WrittenOK
<1> QED
  BY <1>8, <1>10 DEF q

\* The slot Create leaves behind.
NewSlot(s, fx) == [fx |-> fx, enabled |-> FALSE, active |-> FALSE, params |-> Default,
                   handles |-> Handles(fx), row |-> s]

LEMMA NewSlotOK ==
  ASSUME NEW s \in Slot, NEW fx \in AvailableFx
  PROVE  /\ SlotOK(NewSlot(s, fx), s) /\ NewSlot(s, fx) \in SlotState
         /\ HeldMem(NewSlot(s, fx)) = NewMem(fx)
         /\ Loopers(NewSlot(s, fx).fx) = Loopers(fx)
<1>1. NewSlot(s, fx) \in SlotState
  BY HandlesType, RackAssumption DEF NewSlot, SlotState
<1> QED
  BY <1>1, RackAssumption DEF SlotOK, NewSlot, Wired, Activated, Blank, HeldMem, NewMem, Loopers

LEMMA CreateOK ==
  ASSUME NEW r, RackOK(r), NEW p \in Pair, NEW s \in Slot, NEW fx \in AvailableFx,
         r.slot[p][s] = EmptySlot,
         r.mem + NewMem(fx) <= MEMORY_CLASS_CAP, r.loopers + Loopers(fx) <= LOOPER_CAP
  PROVE  /\ RackOK(Create(r, p, s, fx))
         /\ Written(Create(r, p, s, fx), r, p, s, NewSlot(s, fx))
<1> DEFINE q == Create(r, p, s, fx)
           x == NewSlot(s, fx)
           m == r.mem + NewMem(fx)
           l == r.loopers + Loopers(fx)
<1>1. r \in Racks /\ r.slot \in Slots /\ r.mem \in Nat /\ r.loopers \in Nat
  BY DEF RackOK, Racks
<1>2. SlotOK(x, s) /\ x \in SlotState /\ HeldMem(x) = NewMem(fx) /\ Loopers(x.fx) = Loopers(fx)
  BY NewSlotOK
<1>3. HeldMem(x) \in Nat /\ Loopers(x.fx) \in Nat
  BY <1>2, SlotFacts
<1>4. ConnectSlotParams([r.slot[p] EXCEPT ![s] = [EmptySlot EXCEPT !.fx = fx,
                            !.params = Default, !.handles = Handles(fx)]], s) = x
  BY <1>1, RackAssumption DEF ConnectSlotParams, EmptySlot, NewSlot, Slots
<1> HIDE DEF x
<1>5. q = [r EXCEPT !.slot = Put(r, p, s, x), !.mem = m, !.loopers = l]
  BY <1>4 DEF Create
<1>6. q.slot = Put(r, p, s, x) /\ q.mem = m /\ q.loopers = l
  BY <1>1, <1>5 DEF Racks
<1>7. Put(r, p, s, x) \in Slots
  BY <1>1, <1>2, PutType
<1>8. m \in Int /\ l \in Int
  BY <1>1, <1>2, <1>3
<1>9. q \in Shape
  <2> HIDE DEF m, l, q
  <2> QED
    BY <1>1, <1>5, <1>7, <1>8, UpdateType
<1>10. Written(q, r, p, s, x)
  <2>1. HeldMem(r.slot[p][s]) = 0 /\ Loopers(r.slot[p][s].fx) = 0
    BY SlotFacts
  <2> QED
    BY <1>1, <1>2, <1>3, <1>6, <1>9, <2>1 DEF Written
<1>11. InBudget(q)
  BY <1>6 DEF InBudget
<1> QED
  BY <1>2, <1>10, <1>11, WrittenOK DEF x

\* q is r with slot x at <<p, s>>, the counters untouched.
Kept(q, r, p, s, x) ==
  /\ q \in Racks
  /\ q.slot = Put(r, p, s, x)
  /\ q.mem = r.mem
  /\ q.loopers = r.loopers

LEMMA PutKeeps ==
  ASSUME NEW r, RackOK(r), NEW p \in Pair, NEW s \in Slot, NEW x, SlotOK(x, s),
         x.fx = r.slot[p][s].fx, x.handles = r.slot[p][s].handles,
         NEW q, Kept(q, r, p, s, x)
  PROVE  RackOK(q)
<1>1. r.slot \in [Pair -> [Slot -> SlotState]]
  BY DEF RackOK, Racks, Slots
<1>2. SlotsOK(q)
  BY <1>1 DEF SlotsOK, RackOK, Put, Kept
<1>3. \A i \in Pair, j \in Slot : /\ q.slot[i][j].fx = r.slot[i][j].fx
                                  /\ q.slot[i][j].handles = r.slot[i][j].handles
  BY <1>1 DEF Put, Kept
<1> QED
  BY <1>2, <1>3, SameInstances DEF Kept

\* Changing flags or parameters of one slot.
LEMMA ParamsKept ==
  ASSUME NEW r \in Racks, NEW p \in Pair, NEW s \in Slot,
         NEW v \in Values \cup {Zeroed, Default}
  PROVE  Kept([r EXCEPT !.slot[p][s].params = v], r, p, s, [r.slot[p][s] EXCEPT !.params = v])
<1> DEFINE x == [r.slot[p][s] EXCEPT !.params = v]
           q == [r EXCEPT !.slot[p][s].params = v]
<1>1. x \in SlotState
  BY DEF Racks, Slots, SlotState
<1>2. q.slot = Put(r, p, s, x) /\ q.mem = r.mem /\ q.loopers = r.loopers
  BY DEF Racks, Slots, Put
<1>3. q \in Racks
  BY <1>1 DEF Racks, Slots
<1> QED
  BY <1>2, <1>3 DEF Kept

LEMMA FlagsKept ==
  ASSUME NEW r \in Racks, NEW p \in Pair, NEW s \in Slot, NEW on \in BOOLEAN
  PROVE  Kept([r EXCEPT !.slot[p][s].enabled = on, !.slot[p][s].active = on], r, p, s,
              [r.slot[p][s] EXCEPT !.enabled = on, !.active = on])
<1> DEFINE x == [r.slot[p][s] EXCEPT !.enabled = on, !.active = on]
           q == [r EXCEPT !.slot[p][s].enabled = on, !.slot[p][s].active = on]
<1>0. r.slot[p][s] \in SlotState
  BY DEF Racks, Slots
<1>1. x \in SlotState
  BY <1>0 DEF SlotState
<1>2. q.slot = Put(r, p, s, x) /\ q.mem = r.mem /\ q.loopers = r.loopers
  BY DEF Racks, Slots, Put
<1>3. q \in Racks
  BY <1>0, <1>1 DEF Racks, Slots
<1> QED
  BY <1>2, <1>3 DEF Kept

LEMMA SetSlotOK ==
  ASSUME NEW r, RackOK(r), NEW p \in Pair, NEW s \in Slot, NEW fx \in Effect \cup {None}
  PROVE  RackOK(SetSlot(r, p, s, fx))
<1> DEFINE bare == SlotTeardown(r, p, s)
<1>1. RackOK(bare) /\ Written(bare, r, p, s, EmptySlot)
  BY SlotTeardownOK
<1>2. r \in Racks /\ r.slot[p][s] \in SlotState
  BY DEF RackOK, Racks, Slots
<1>3. bare \in Racks
  BY <1>1 DEF RackOK
<1>4. bare.slot[p][s] = EmptySlot
  BY <1>1, <1>2 DEF Written, Put, Racks, Slots
<1>5. /\ bare.mem = r.mem - HeldMem(r.slot[p][s])
      /\ bare.loopers = r.loopers - Loopers(r.slot[p][s].fx)
  BY <1>1, <1>2, SlotFacts DEF Written, Racks
<1> HIDE DEF bare
<1>6. CASE ~FitsBudget(r, p, s, fx)
  BY <1>6 DEF SetSlot
<1>7. CASE FitsBudget(r, p, s, fx) /\ fx = None
  <2>1. SetSlot(r, p, s, fx) = bare
    BY <1>7, RackAssumption, Zenon DEF SetSlot, bare
  <2> QED
    BY <1>1, <2>1
<1>8. CASE FitsBudget(r, p, s, fx) /\ fx \in AvailableFx
  <2>1. fx \in Effect /\ fx # None
    BY <1>8, RackAssumption
  <2>2. SetSlot(r, p, s, fx) = Create(bare, p, s, fx)
    BY <1>8, <2>1, Zenon DEF SetSlot, bare
  <2>3. bare.mem + NewMem(fx) <= MEMORY_CLASS_CAP /\ bare.loopers + Loopers(fx) <= LOOPER_CAP
    BY <1>5, <1>8 DEF FitsBudget
  <2> QED
    BY <1>1, <1>4, <1>8, <2>2, <2>3, CreateOK
<1>9. CASE FitsBudget(r, p, s, fx) /\ fx \in Effect \ AvailableFx
  <2> DEFINE q == [bare EXCEPT !.slot[p][s].params = Default]
             x == [bare.slot[p][s] EXCEPT !.params = Default]
  <2>1. SetSlot(r, p, s, fx) = q
    BY <1>9, RackAssumption, Zenon DEF SetSlot, bare
  <2>2. Kept(q, bare, p, s, x)
    <3>1. Default \in Values \cup {Zeroed, Default}
      OBVIOUS
    <3> QED
      BY <1>3, <3>1, ParamsKept, Zenon
  <2>3. SlotOK(x, s) /\ x.fx = EmptySlot.fx /\ x.handles = EmptySlot.handles
    <3>1. x = [EmptySlot EXCEPT !.params = Default]
      BY <1>4
    <3> HIDE DEF x
    <3>2. x \in SlotState
      BY <3>1, SlotFacts DEF SlotState
    <3>3. x.fx = None /\ ~x.enabled /\ ~x.active /\ x.handles = 0 /\ x.row = None
      BY <3>1 DEF EmptySlot
    <3>4. EmptySlot.fx = None /\ EmptySlot.handles = 0
      BY DEF EmptySlot
    <3> QED
      BY <1>9, <3>2, <3>3, <3>4 DEF SlotOK, Blank, Wired, Activated
  <2> HIDE DEF q, x
  <2> QED
    BY <1>1, <1>4, <2>1, <2>2, <2>3, PutKeeps
<1> QED
  BY <1>6, <1>7, <1>8, <1>9

LEMMA SetEnabledOK ==
  ASSUME NEW r, RackOK(r), NEW p \in Pair, NEW s \in Slot, NEW on \in BOOLEAN
  PROVE  RackOK(SetEnabled(r, p, s, on))
<1> DEFINE x == [r.slot[p][s] EXCEPT !.enabled = on, !.active = on]
           q == [r EXCEPT !.slot[p][s].enabled = on, !.slot[p][s].active = on]
<1>1. CASE r.slot[p][s].fx = None
  BY <1>1 DEF SetEnabled
<1>2. CASE r.slot[p][s].fx # None
  <2>1. r \in Racks /\ SlotOK(r.slot[p][s], s) /\ r.slot[p][s] \in SlotState
    BY DEF RackOK, SlotsOK, SlotOK
  <2>2. SetEnabled(r, p, s, on) = q
    BY <1>2 DEF SetEnabled
  <2>3. Kept(q, r, p, s, x)
    BY <2>1, FlagsKept
  <2>4. SlotOK(x, s) /\ x.fx = r.slot[p][s].fx /\ x.handles = r.slot[p][s].handles
    BY <1>2, <2>1 DEF SlotOK, SlotState, Wired, Activated, Blank
  <2> HIDE DEF q, x
  <2> QED
    BY <2>2, <2>3, <2>4, PutKeeps
<1> QED
  BY <1>1, <1>2

LEMMA SetParamOK ==
  ASSUME NEW r, RackOK(r), NEW p \in Pair, NEW s \in Slot,
         NEW v \in Values \cup {Zeroed, Default}
  PROVE  RackOK(SetParam(r, p, s, v))
<1> DEFINE x == [r.slot[p][s] EXCEPT !.params = v]
           q == [r EXCEPT !.slot[p][s].params = v]
<1>1. CASE r.slot[p][s].fx = None
  BY <1>1 DEF SetParam
<1>2. CASE r.slot[p][s].fx # None
  <2>1. r \in Racks /\ SlotOK(r.slot[p][s], s) /\ r.slot[p][s] \in SlotState
    BY DEF RackOK, SlotsOK, SlotOK
  <2>2. SetParam(r, p, s, v) = q
    BY <1>2 DEF SetParam
  <2>3. Kept(q, r, p, s, x)
    BY <2>1, ParamsKept
  <2>4. SlotOK(x, s) /\ x.fx = r.slot[p][s].fx /\ x.handles = r.slot[p][s].handles
    BY <1>2, <2>1 DEF SlotOK, SlotState, Wired, Activated, Blank
  <2> HIDE DEF q, x
  <2> QED
    BY <2>2, <2>3, <2>4, PutKeeps
<1> QED
  BY <1>1, <1>2

\* Rendering changes nothing: every enabled slot is active already.
LEMMA ProcessPairOK ==
  ASSUME NEW r, RackOK(r), NEW p \in Pair
  PROVE  RackOK(ProcessPair(r, p))
<1> DEFINE chain == [s \in Slot |-> [r.slot[p][s] EXCEPT
              !.active = @ \/ (r.slot[p][s].fx # None /\ r.slot[p][s].enabled)]]
           q == [r EXCEPT !.slot[p] = chain]
<1>1. r \in Racks /\ r.slot \in [Pair -> [Slot -> SlotState]]
  BY DEF RackOK, Racks, Slots
<1>2. ASSUME NEW s \in Slot PROVE chain[s] = r.slot[p][s]
  <2>1. r.slot[p][s] \in SlotState /\ Activated(r.slot[p][s])
    BY DEF RackOK, SlotsOK, SlotOK
  <2> QED
    BY <2>1 DEF SlotState, Activated
<1>3. chain = r.slot[p]
  BY <1>1, <1>2
<1> HIDE DEF chain
<1>4. [r EXCEPT !.slot[p] = chain] = r
  BY <1>1, <1>3 DEF Racks, Slots
<1> QED
  BY <1>4 DEF ProcessPair, chain
--------------------------------------------------------------------------------
(* A move permutes the slots of a chain *)

LEMMA Matched ==
  ASSUME NEW S, NEW T, IsFiniteSet(S), NEW f \in [S -> T], NEW g \in [T -> S],
         \A a \in S : g[f[a]] = a, \A b \in T : f[g[b]] = b
  PROVE  Cardinality(S) = Cardinality(T)
<1>1. \A a, b \in S : f[a] = f[b] => a = b
  OBVIOUS
<1>2. \A b \in T : \E a \in S : f[a] = b
  OBVIOUS
<1>3. f \in Bijection(S, T)
  BY <1>1, <1>2, Fun_IsBij
<1> QED
  BY <1>3, FS_Bijection DEF ExistsBijection

LEMMA MoveInverts ==
  ASSUME NEW from \in Slot, NEW to \in Slot, NEW i \in Slot, from # to
  PROVE  /\ MovedFrom(from, to, i) \in Slot
         /\ MovedFrom(to, from, MovedFrom(from, to, i)) = i
         /\ ~((from <= i /\ i <= to) \/ (to <= i /\ i <= from)) => MovedFrom(from, to, i) = i
<1>1. CHAIN_SLOTS \in Nat /\ from \in Int /\ to \in Int /\ i \in Int
  BY RackAssumption DEF Slot
<1>2. CASE i = to
  <2>1. MovedFrom(from, to, i) = from
    BY <1>1, <1>2 DEF MovedFrom
  <2>2. MovedFrom(to, from, from) = to
    BY <1>1 DEF MovedFrom
  <2> QED
    BY <1>1, <1>2, <2>1, <2>2
<1>3. CASE from <= i /\ i < to
  <2>1. MovedFrom(from, to, i) = i + 1
    BY <1>1, <1>3 DEF MovedFrom
  <2>2. MovedFrom(to, from, i + 1) = i
    BY <1>1, <1>3 DEF MovedFrom
  <2> QED
    BY <1>1, <1>3, <2>1, <2>2 DEF Slot
<1>4. CASE to < i /\ i <= from
  <2>1. MovedFrom(from, to, i) = i - 1
    BY <1>1, <1>4 DEF MovedFrom
  <2>2. MovedFrom(to, from, i - 1) = i
    BY <1>1, <1>4 DEF MovedFrom
  <2> QED
    BY <1>1, <1>4, <2>1, <2>2 DEF Slot
<1>5. CASE (i < from /\ i < to) \/ (i > from /\ i > to)
  <2>1. MovedFrom(from, to, i) = i
    BY <1>1, <1>5 DEF MovedFrom
  <2>2. MovedFrom(to, from, i) = i
    BY <1>1, <1>5 DEF MovedFrom
  <2> QED
    BY <2>1, <2>2
<1> QED
  BY <1>1, <1>2, <1>3, <1>4, <1>5

\* Where the slot i of pair a is taken from when the chain of pair p is moved.
Origin(p, from, to, a, i) == IF a = p THEN MovedFrom(from, to, i) ELSE i

LEMMA OriginInverts ==
  ASSUME NEW p \in Pair, NEW from \in Slot, NEW to \in Slot, from # to,
         NEW a \in Pair, NEW i \in Slot
  PROVE  /\ Origin(p, from, to, a, i) \in Slot
         /\ Origin(p, to, from, a, Origin(p, from, to, a, i)) = i
BY MoveInverts DEF Origin

\* q has at each place the effect and instances r has at the place's origin.
Permuted(q, r, p, from, to) ==
  \A a \in Pair, i \in Slot :
    /\ q.slot[a][i].fx = r.slot[a][Origin(p, from, to, a, i)].fx
    /\ q.slot[a][i].handles = r.slot[a][Origin(p, from, to, a, i)].handles

LEMMA MoveKeepsCounts ==
  ASSUME NEW r, NEW q, NEW p \in Pair, NEW from \in Slot, NEW to \in Slot, from # to,
         Permuted(q, r, p, from, to)
  PROVE  /\ Cardinality(MemoryHandles(q)) = Cardinality(MemoryHandles(r))
         /\ Cardinality(LooperSlots(q)) = Cardinality(LooperSlots(r))
<1> DEFINE there(h) == Origin(p, from, to, h[1], h[2])
           back(h) == Origin(p, to, from, h[1], h[2])
<1>1. \A a \in Pair, i \in Slot :
         /\ Origin(p, from, to, a, i) \in Slot
         /\ Origin(p, to, from, a, i) \in Slot
         /\ Origin(p, to, from, a, Origin(p, from, to, a, i)) = i
         /\ Origin(p, from, to, a, Origin(p, to, from, a, i)) = i
  BY OriginInverts
<1>2. \A a \in Pair, i \in Slot :
         /\ r.slot[a][i].fx = q.slot[a][Origin(p, to, from, a, i)].fx
         /\ r.slot[a][i].handles = q.slot[a][Origin(p, to, from, a, i)].handles
  BY <1>1 DEF Permuted
<1>3. Cardinality(MemoryHandles(q)) = Cardinality(MemoryHandles(r))
  <2> DEFINE S == MemoryHandles(q)
             T == MemoryHandles(r)
             f == [h \in S |-> <<h[1], there(h), h[3]>>]
             g == [h \in T |-> <<h[1], back(h), h[3]>>]
  <2>1. f \in [S -> T]
    <3>1. ASSUME NEW h \in S PROVE <<h[1], there(h), h[3]>> \in T
      BY <1>1 DEF MemoryHandles, At, Permuted
    <3> QED
      BY <3>1
  <2>2. g \in [T -> S]
    <3>1. ASSUME NEW h \in T PROVE <<h[1], back(h), h[3]>> \in S
      BY <1>1, <1>2 DEF MemoryHandles, At
    <3> QED
      BY <3>1
  <2>3. \A h \in S : g[f[h]] = h
    BY <1>1, <2>1 DEF MemoryHandles
  <2>4. \A h \in T : f[g[h]] = h
    BY <1>1, <2>2 DEF MemoryHandles
  <2>5. IsFiniteSet(S)
    BY HandlesFinite
  <2> HIDE DEF f, g, S, T
  <2>6. Cardinality(S) = Cardinality(T)
    BY <2>1, <2>2, <2>3, <2>4, <2>5, Matched
  <2> QED
    BY <2>6 DEF S, T
<1>4. Cardinality(LooperSlots(q)) = Cardinality(LooperSlots(r))
  <2> DEFINE S == LooperSlots(q)
             T == LooperSlots(r)
             f == [h \in S |-> <<h[1], there(h)>>]
             g == [h \in T |-> <<h[1], back(h)>>]
  <2>1. f \in [S -> T]
    <3>1. ASSUME NEW h \in S PROVE <<h[1], there(h)>> \in T
      BY <1>1 DEF LooperSlots, At, Permuted
    <3> QED
      BY <3>1
  <2>2. g \in [T -> S]
    <3>1. ASSUME NEW h \in T PROVE <<h[1], back(h)>> \in S
      BY <1>1, <1>2 DEF LooperSlots, At
    <3> QED
      BY <3>1
  <2>3. \A h \in S : g[f[h]] = h
    BY <1>1, <2>1 DEF LooperSlots
  <2>4. \A h \in T : f[g[h]] = h
    BY <1>1, <2>2 DEF LooperSlots
  <2>5. IsFiniteSet(S)
    BY HandlesFinite
  <2> HIDE DEF f, g, S, T
  <2>6. Cardinality(S) = Cardinality(T)
    BY <2>1, <2>2, <2>3, <2>4, <2>5, Matched
  <2> QED
    BY <2>6 DEF S, T
<1> QED
  BY <1>3, <1>4

LEMMA MoveSlotOK ==
  ASSUME NEW r, RackOK(r), NEW p \in Pair, NEW from \in Slot, NEW to \in Slot
  PROVE  RackOK(MoveSlot(r, p, from, to))
<1>1. CASE from = to
  BY <1>1 DEF MoveSlot
<1>2. CASE from # to
  <2> DEFINE moved == [i \in Slot |-> r.slot[p][MovedFrom(from, to, i)]]
             between == {i \in Slot : (from <= i /\ i <= to) \/ (to <= i /\ i <= from)}
             chain == [i \in Slot |-> IF i \in between THEN ConnectSlotParams(moved, i)
                                     ELSE moved[i]]
             q == [r EXCEPT !.slot[p] = chain]
  <2>1. r \in Racks /\ r.slot \in [Pair -> [Slot -> SlotState]]
    BY DEF RackOK, Racks, Slots
  <2>2. \A i \in Slot : MovedFrom(from, to, i) \in Slot
    BY <1>2, MoveInverts
  <2>3. ASSUME NEW i \in Slot
        PROVE  /\ SlotOK(chain[i], i)
               /\ chain[i].fx = r.slot[p][MovedFrom(from, to, i)].fx
               /\ chain[i].handles = r.slot[p][MovedFrom(from, to, i)].handles
    <3> DEFINE j == MovedFrom(from, to, i)
               x == r.slot[p][j]
    <3>1. j \in Slot /\ (i \notin between => j = i)
      BY <1>2, MoveInverts
    <3>2. SlotOK(x, j) /\ x \in SlotState
      BY <3>1 DEF RackOK, SlotsOK, SlotOK
    <3>3. chain[i] = IF i \in between /\ x.fx # None THEN [x EXCEPT !.row = i] ELSE x
      BY DEF ConnectSlotParams
    <3> HIDE DEF chain, j, x, between
    <3>4. CASE i \in between /\ x.fx # None
      <4>1. chain[i] = [x EXCEPT !.row = i]
        BY <3>3, <3>4
      <4>2. chain[i] \in SlotState
        BY <3>2, <4>1 DEF SlotState
      <4>3. /\ chain[i].fx = x.fx /\ chain[i].handles = x.handles /\ chain[i].row = i
            /\ chain[i].enabled = x.enabled /\ chain[i].active = x.active
        BY <3>2, <4>1 DEF SlotState
      <4> QED
        BY <3>2, <3>4, <4>2, <4>3 DEF SlotOK, Blank, Wired, Activated, x, j
    <3>5. CASE ~(i \in between /\ x.fx # None)
      <4>1. chain[i] = x
        BY <3>3, <3>5
      <4>2. SlotOK(x, i)
        BY <3>1, <3>2, <3>5 DEF SlotOK, Blank, Wired
      <4> QED
        BY <4>1, <4>2 DEF x, j
    <3> QED
      BY <3>4, <3>5
  <2>4. chain \in [Slot -> SlotState]
    <3> DEFINE C == chain
    <3>1. C = [i \in Slot |-> C[i]]
      OBVIOUS
    <3>2. \A i \in Slot : C[i] \in SlotState
      BY <2>3 DEF SlotOK
    <3> HIDE DEF C
    <3> QED
      BY <3>1, <3>2 DEF C
  <2>5. MoveSlot(r, p, from, to) = q
    BY <1>2 DEF MoveSlot
  <2> HIDE DEF chain
  <2>6. q \in Racks /\ q.slot = [r.slot EXCEPT ![p] = chain]
        /\ q.mem = r.mem /\ q.loopers = r.loopers
    BY <2>1, <2>4 DEF Racks, Slots
  <2> HIDE DEF q
  <2>7. SlotsOK(q)
    BY <2>1, <2>3, <2>6 DEF SlotsOK, RackOK
  <2>8. Permuted(q, r, p, from, to)
    BY <2>1, <2>3, <2>6 DEF Permuted, Origin
  <2>9. Exact(q) /\ InBudget(q)
    BY <1>2, <2>6, <2>8, MoveKeepsCounts DEF Exact, InBudget, RackOK
  <2> QED
    BY <2>5, <2>6, <2>7, <2>9 DEF RackOK
<1> QED
  BY <1>1, <1>2
--------------------------------------------------------------------------------
(* Loops *)

\* Induction up to n, for membership in a set: the one form of it that needs no
\* operator parameter.
LEMMA UpTo ==
  ASSUME NEW n \in Nat, NEW S, 0 \in S,
         \A i \in 1..n : i - 1 \in S => i \in S
  PROVE  0..n \subseteq S
<1> SUFFICES ASSUME ~(0..n \subseteq S) PROVE FALSE
  OBVIOUS
<1> DEFINE T == (0..n) \ S
           R == OpToRel(<, Nat)
<1>1. IsWellFoundedOn(R, Nat)
  BY NatLessThanWellFounded
<1>2. R = {ss \in Nat \X Nat : ss[1] < ss[2]}
  BY DEF OpToRel
<1>3. T \subseteq Nat /\ T # {}
  OBVIOUS
<1> HIDE DEF R, T
<1>4. PICK x \in T : \A y \in T : ~(<<y, x>> \in R)
  BY <1>1, <1>3, WFMin
<1>5. \A y \in T : ~(y < x)
  BY <1>2, <1>3, <1>4
<1>6. x \in 1..n /\ x \notin S
  BY DEF T
<1>7. x - 1 \in T
  BY <1>6 DEF T
<1> QED
  BY <1>5, <1>6, <1>7

\* A loop of n rounds, round i taking the state x to g[<<i, x>>]: the recursive
\* function exists, and every function that satisfies the recursion keeps what
\* each round keeps.
IsLoop(f, n, r, g) == f = [i \in 0..n |-> IF i = 0 THEN r ELSE g[<<i, f[i - 1]>>]]

LEMMA LoopExists ==
  ASSUME NEW n \in Nat, NEW r, NEW g
  PROVE  \E f : IsLoop(f, n, r, g)
<1> USE DEF IsLoop
<1> DEFINE Upto(m, f) == f = [i \in 0..m |-> IF i = 0 THEN r ELSE g[<<i, f[i - 1]>>]]
           S == {m \in Nat : \E f : Upto(m, f)}
<1>1. 0 \in S
  <2> DEFINE f == [i \in 0..0 |-> r]
  <2>1. Upto(0, f)
    OBVIOUS
  <2> QED
    BY <2>1
<1>2. ASSUME NEW m \in 1..n, m - 1 \in S PROVE m \in S
  <2>1. PICK f : Upto(m - 1, f)
    BY <1>2
  <2> DEFINE h == [i \in 0..m |-> IF i < m THEN f[i] ELSE g[<<m, f[m - 1]>>]]
  <2>2. ASSUME NEW i \in 0..m
        PROVE  h[i] = IF i = 0 THEN r ELSE g[<<i, h[i - 1]>>]
    <3>1. \A j \in 0..(m - 1) : f[j] = IF j = 0 THEN r ELSE g[<<j, f[j - 1]>>]
      BY <2>1, Zenon
    <3> HIDE DEF Upto
    <3>2. CASE i = m
      <4>1. i # 0 /\ i - 1 \in 0..m /\ i - 1 < m /\ ~(i < m)
        BY <1>2, <3>2
      <4> QED
        BY <3>2, <4>1
    <3>3. CASE i # m /\ i # 0
      <4>1. i \in 0..(m - 1) /\ i - 1 \in 0..m /\ i - 1 < m /\ i < m
        BY <1>2, <3>3
      <4>2. h[i] = f[i] /\ h[i - 1] = f[i - 1]
        BY <4>1
      <4> QED
        BY <3>1, <3>3, <4>1, <4>2
    <3>4. CASE i = 0
      <4>1. i \in 0..(m - 1) /\ i < m
        BY <1>2, <3>4
      <4>2. h[i] = f[i]
        BY <4>1
      <4> QED
        BY <3>1, <3>4, <4>1, <4>2
    <3> QED
      BY <3>2, <3>3, <3>4
  <2>3. h = [i \in 0..m |-> IF i = 0 THEN r ELSE g[<<i, h[i - 1]>>]]
    <3>1. h = [i \in 0..m |-> h[i]]
      OBVIOUS
    <3> HIDE DEF h
    <3> QED
      BY <2>2, <3>1
  <2> HIDE DEF h
  <2>4. Upto(m, h)
    BY <2>3
  <2> QED
    BY <2>4
<1> HIDE DEF S
<1>3. 0..n \subseteq S
  BY <1>1, <1>2, UpTo
<1>4. n \in 0..n /\ n \in S
  BY <1>3
<1> QED
  BY <1>4 DEF S

LEMMA LoopKeeps ==
  ASSUME NEW n \in Nat, NEW J, NEW f, f[0] \in J[0],
         \A i \in 1..n : f[i - 1] \in J[i - 1] => f[i] \in J[i]
  PROVE  \A i \in 0..n : f[i] \in J[i]
<1> DEFINE S == {i \in 0..n : f[i] \in J[i]}
<1>1. 0 \in S
  OBVIOUS
<1>2. \A i \in 1..n : i - 1 \in S => i \in S
  OBVIOUS
<1> HIDE DEF S
<1>3. 0..n \subseteq S
  BY <1>1, <1>2, UpTo
<1> QED
  BY <1>3 DEF S

\* f is the loop that g describes, and goes through the states J allows.
Runs(f, n, r, g, J) ==
  /\ f = [i \in 0..n |-> f[i]]
  /\ f[0] = r
  /\ \A i \in 1..n : f[i] = g[<<i, f[i - 1]>>]
  /\ \A i \in 0..n : f[i] \in J[i]

LEMMA LoopRuns ==
  ASSUME NEW n \in Nat, NEW r, NEW J, r \in J[0], NEW g,
         \A i \in 1..n : \A x \in J[i - 1] : g[<<i, x>>] \in J[i]
  PROVE  \E f : Runs(f, n, r, g, J)
<1>1. PICK f : IsLoop(f, n, r, g)
  BY LoopExists
<1>2. /\ \A i \in 0..n : f[i] = IF i = 0 THEN r ELSE g[<<i, f[i - 1]>>]
      /\ f = [i \in 0..n |-> f[i]]
  <2>1. f = [i \in 0..n |-> IF i = 0 THEN r ELSE g[<<i, f[i - 1]>>]]
    BY <1>1, Zenon DEF IsLoop
  <2> QED
    BY <2>1, Zenon
<1>3. f[0] = r /\ \A i \in 1..n : f[i] = g[<<i, f[i - 1]>>]
  <2>1. 0 \in 0..n /\ \A i \in 1..n : i \in 0..n /\ i # 0
    OBVIOUS
  <2> QED
    BY <1>2, <2>1, Zenon
<1>4. f[0] \in J[0] /\ \A i \in 1..n : f[i - 1] \in J[i - 1] => f[i] \in J[i]
  BY <1>3
<1>5. \A i \in 0..n : f[i] \in J[i]
  BY <1>4, LoopKeeps, Zenon
<1> QED
  BY <1>2, <1>3, <1>5 DEF Runs
--------------------------------------------------------------------------------
(* Recalling one slot *)

Saved == [fx : AvailableFx \cup {None}, enabled : BOOLEAN,
          params : Values \cup {Zeroed, Default}]
Snapshots == [covers : SUBSET Pair, chain : [Pair -> [Slot -> Saved]]]

\* A set that fits leaves the new effect, or nothing, in the slot.
LEMMA SetSlotFits ==
  ASSUME NEW r, RackOK(r), NEW p \in Pair, NEW s \in Slot,
         NEW fx \in AvailableFx \cup {None}, FitsBudget(r, p, s, fx)
  PROVE  Written(SetSlot(r, p, s, fx), r, p, s,
                 IF fx = None THEN EmptySlot ELSE NewSlot(s, fx))
<1> DEFINE bare == SlotTeardown(r, p, s)
<1>1. RackOK(bare) /\ Written(bare, r, p, s, EmptySlot)
  BY SlotTeardownOK
<1>2. /\ r \in Racks /\ r.slot \in Slots /\ r.slot[p][s] \in SlotState
      /\ bare \in Racks /\ bare.slot = Put(r, p, s, EmptySlot)
  BY <1>1 DEF RackOK, Racks, Slots, Written
<1>3. bare.slot[p][s] = EmptySlot
  BY <1>2 DEF Put, Slots
<1>4. /\ bare.mem = r.mem - HeldMem(r.slot[p][s])
      /\ bare.loopers = r.loopers - Loopers(r.slot[p][s].fx)
  BY <1>1, <1>2, SlotFacts DEF Written, Racks
<1> HIDE DEF bare
<1>5. CASE fx = None
  <2>1. SetSlot(r, p, s, fx) = bare
    BY <1>5, RackAssumption, Zenon DEF SetSlot, bare
  <2> QED
    BY <1>1, <1>5, <2>1
<1>6. CASE fx \in AvailableFx
  <2>1. fx \in Effect /\ fx # None
    BY <1>6, RackAssumption
  <2>2. SetSlot(r, p, s, fx) = Create(bare, p, s, fx)
    BY <1>6, <2>1, Zenon DEF SetSlot, bare
  <2>3. /\ bare.mem + NewMem(fx) <= MEMORY_CLASS_CAP
        /\ bare.loopers + Loopers(fx) <= LOOPER_CAP
    BY <1>4 DEF FitsBudget
  <2> DEFINE q == Create(bare, p, s, fx)
             x == NewSlot(s, fx)
  <2>4. Written(q, bare, p, s, x)
    BY <1>1, <1>3, <1>6, <2>3, CreateOK
  <2> HIDE DEF q, x
  <2>5. Put(bare, p, s, x) = Put(r, p, s, x)
    BY <1>2 DEF Put, Slots
  <2>6. Written(q, r, p, s, x)
    BY <1>2, <1>3, <1>4, <2>4, <2>5, SlotFacts DEF Written, Racks
  <2> QED
    BY <2>1, <2>2, <2>6 DEF q, x
<1> QED
  BY <1>5, <1>6

LEMMA ApplySlotOK ==
  ASSUME NEW r, RackOK(r), NEW scene \in Snapshots, NEW p \in Pair, NEW s \in Slot
  PROVE  RackOK(ApplySlot(r, scene, p, s))
<1> DEFINE saved == scene.chain[p][s]
           loaded == IF r.slot[p][s].fx = saved.fx THEN r
                     ELSE SetSlot(r, p, s, saved.fx)
<1>1. /\ saved.fx \in Effect \cup {None} /\ saved.enabled \in BOOLEAN
      /\ saved.params \in Values \cup {Zeroed, Default}
  BY RackAssumption DEF Snapshots, Saved
<1> HIDE DEF saved
<1>2. RackOK(loaded)
  BY <1>1, SetSlotOK
<1> HIDE DEF loaded
<1>3. RackOK(SetParam(loaded, p, s, saved.params))
  BY <1>1, <1>2, SetParamOK
<1>4. RackOK(SetEnabled(SetParam(loaded, p, s, saved.params), p, s, saved.enabled))
  BY <1>1, <1>3, SetEnabledOK
<1> QED
  BY <1>2, <1>4 DEF ApplySlot, saved, loaded

SlotRestored(r, scene, p, s) ==
  IF scene.chain[p][s].fx = None THEN r.slot[p][s].fx = None
  ELSE Captured(r.slot[p][s]) = scene.chain[p][s]

\* q and r differ in the slot at <<p, s>> only.
ElsewhereSame(q, r, p, s) ==
  \A a \in Pair, b \in Slot :
    <<a, b>> # <<p, s>> => q.slot[a][b] = r.slot[a][b]

LEMMA ReapplyRestores ==
  ASSUME NEW r, RackOK(r), NEW p \in Pair, NEW s \in Slot, NEW saved \in Saved,
         saved.fx # None, r.slot[p][s].fx = saved.fx
  PROVE  LET q == SetEnabled(SetParam(r, p, s, saved.params), p, s, saved.enabled)
         IN  /\ Captured(q.slot[p][s]) = saved
             /\ ElsewhereSame(q, r, p, s)
             /\ q.mem = r.mem /\ q.loopers = r.loopers
<1> DEFINE x == [r.slot[p][s] EXCEPT !.params = saved.params]
           m == SetParam(r, p, s, saved.params)
           y == [m.slot[p][s] EXCEPT !.enabled = saved.enabled,
                                     !.active = saved.enabled]
           q == SetEnabled(m, p, s, saved.enabled)
<1>1. r \in Racks /\ r.slot \in Slots /\ r.slot[p][s] \in SlotState
  BY DEF RackOK, Racks, Slots
<1>2. /\ saved.enabled \in BOOLEAN /\ saved.params \in Values \cup {Zeroed, Default}
  BY DEF Saved
<1>3. Kept(m, r, p, s, x)
  BY <1>1, <1>2, ParamsKept DEF SetParam
<1>4. x.fx = saved.fx /\ x.params = saved.params
  BY <1>1 DEF SlotState
<1> HIDE DEF m, x
<1>5. m \in Racks /\ m.slot \in Slots /\ m.slot[p][s] = x
  BY <1>1, <1>3 DEF Kept, Racks, Put, Slots
<1>6. Kept(q, m, p, s, y)
  BY <1>2, <1>4, <1>5, FlagsKept DEF SetEnabled
<1> HIDE DEF q, y
<1>7. q.slot[p][s] = y
  BY <1>5, <1>6 DEF Kept, Put, Slots
<1>8. /\ y.fx = saved.fx /\ y.params = saved.params /\ y.enabled = saved.enabled
  <2>1. m.slot[p][s] \in SlotState
    BY <1>5 DEF Slots
  <2> QED
    BY <1>4, <1>5, <2>1 DEF y, SlotState
<1>9. Captured(q.slot[p][s]) = saved
  BY <1>7, <1>8 DEF Captured, Saved
<1>10. ElsewhereSame(q, r, p, s)
  BY <1>1, <1>3, <1>5, <1>6 DEF ElsewhereSame, Kept, Put, Slots
<1>11. q.mem = r.mem /\ q.loopers = r.loopers
  BY <1>3, <1>6 DEF Kept
<1> QED
  BY <1>9, <1>10, <1>11 DEF q, m

\* A covered slot whose effect fits is restored, at the price of its instances.
LEMMA ApplySlotRestores ==
  ASSUME NEW r, RackOK(r), NEW scene \in Snapshots, NEW p \in scene.covers,
         NEW s \in Slot, FitsBudget(r, p, s, scene.chain[p][s].fx)
  PROVE  LET q == ApplySlot(r, scene, p, s)
             fx == scene.chain[p][s].fx
         IN  /\ SlotRestored(q, scene, p, s)
             /\ ElsewhereSame(q, r, p, s)
             /\ q.mem = r.mem - HeldMem(r.slot[p][s]) + NewMem(fx)
             /\ q.loopers = r.loopers - Loopers(r.slot[p][s].fx) + Loopers(fx)
<1> DEFINE saved == scene.chain[p][s]
           fx == saved.fx
           old == r.slot[p][s]
           x == IF fx = None THEN EmptySlot ELSE NewSlot(s, fx)
           loaded == IF old.fx = fx THEN r ELSE SetSlot(r, p, s, fx)
           q == ApplySlot(r, scene, p, s)
<1>1. /\ p \in Pair /\ saved \in Saved /\ fx \in AvailableFx \cup {None}
      /\ r \in Racks /\ r.slot \in Slots /\ old \in SlotState /\ SlotOK(old, s)
      /\ r.mem \in Nat /\ r.loopers \in Nat
  BY DEF Snapshots, Saved, RackOK, Racks, Slots, SlotsOK
<1>2. /\ HeldMem(x) = NewMem(fx) /\ Loopers(x.fx) = Loopers(fx) /\ x.fx = fx
      /\ HeldMem(old) \in Nat /\ Loopers(old.fx) \in Nat
      /\ NewMem(fx) \in Nat /\ Loopers(fx) \in Nat
  <2>1. CASE fx = None
    BY <1>1, <2>1, RackAssumption, SlotFacts DEF NewMem, Loopers, EmptySlot
  <2>2. CASE fx # None
    BY <1>1, <2>2, RackAssumption, SlotFacts, NewSlotOK
       DEF NewSlot, NewMem, Handles
  <2> QED
    BY <2>1, <2>2
<1>3. /\ RackOK(loaded) /\ loaded.slot[p][s].fx = fx
      /\ ElsewhereSame(loaded, r, p, s)
      /\ loaded.mem = r.mem - HeldMem(old) + NewMem(fx)
      /\ loaded.loopers = r.loopers - Loopers(old.fx) + Loopers(fx)
  <2>1. CASE old.fx = fx
    <3>1. HeldMem(old) = NewMem(fx)
      BY <1>1, <2>1, RackAssumption DEF HeldMem, NewMem, SlotOK, Wired
    <3> QED
      BY <1>1, <1>2, <2>1, <3>1 DEF ElsewhereSame
  <2>2. CASE old.fx # fx
    <3>1. Written(loaded, r, p, s, x)
      BY <1>1, <2>2, SetSlotFits
    <3>2. RackOK(loaded)
      BY <1>1, <2>2, RackAssumption, SetSlotOK
    <3> HIDE DEF x, loaded
    <3> QED
      BY <1>1, <1>2, <3>1, <3>2 DEF Written, Put, Slots, ElsewhereSame
  <2> QED
    BY <2>1, <2>2
<1> HIDE DEF x
<1>4. q = IF fx = None THEN loaded
          ELSE SetEnabled(SetParam(loaded, p, s, saved.params), p, s, saved.enabled)
  BY DEF ApplySlot
<1> HIDE DEF loaded, q
<1>5. CASE fx = None
  BY <1>3, <1>4, <1>5 DEF SlotRestored, q
<1>6. CASE fx # None
  <2>1. /\ Captured(q.slot[p][s]) = saved
        /\ ElsewhereSame(q, loaded, p, s)
        /\ q.mem = loaded.mem /\ q.loopers = loaded.loopers
    BY <1>1, <1>3, <1>4, <1>6, ReapplyRestores
  <2>2. ElsewhereSame(q, r, p, s)
    BY <1>3, <2>1 DEF ElsewhereSame
  <2> QED
    BY <1>3, <1>6, <2>1, <2>2 DEF SlotRestored, q
<1> QED
  BY <1>5, <1>6
--------------------------------------------------------------------------------
(* Recalling the rack *)

\* A recall is two nested loops: what holds at the start of one and is kept by
\* each round holds at its end.
LEMMA ChainKeeps ==
  ASSUME NEW r, NEW scene, NEW p, NEW J, r \in J[0],
         \A n \in 1..CHAIN_SLOTS : \A x \in J[n - 1] :
            ApplySlot(x, scene, p, n - 1) \in J[n]
  PROVE  ApplyChain(r, scene, p) \in J[CHAIN_SLOTS]
<1> DEFINE Loop(f) == f = [n \in 0..CHAIN_SLOTS |->
                             IF n = 0 THEN r ELSE ApplySlot(f[n - 1], scene, p, n - 1)]
           after == CHOOSE f : Loop(f)
           X == UNION {J[n] : n \in 0..CHAIN_SLOTS}
           g == [z \in (1..CHAIN_SLOTS) \X X |-> ApplySlot(z[2], scene, p, z[1] - 1)]
<1>1. CHAIN_SLOTS \in Nat
  BY RackAssumption
<1>2. ASSUME NEW n \in 1..CHAIN_SLOTS, NEW x \in J[n - 1]
      PROVE  g[<<n, x>>] = ApplySlot(x, scene, p, n - 1)
  <2>1. n - 1 \in 0..CHAIN_SLOTS /\ x \in X
    BY <1>1
  <2> QED
    BY <2>1
<1> HIDE DEF g
<1>3. \A n \in 1..CHAIN_SLOTS : \A x \in J[n - 1] : g[<<n, x>>] \in J[n]
  BY <1>2
<1>4. PICK h : Runs(h, CHAIN_SLOTS, r, g, J)
  BY <1>1, <1>3, LoopRuns
<1>5. Loop(h)
  <2>1. ASSUME NEW n \in 0..CHAIN_SLOTS
        PROVE  h[n] = IF n = 0 THEN r ELSE ApplySlot(h[n - 1], scene, p, n - 1)
    <3>1. CASE n = 0
      BY <1>4, <3>1 DEF Runs
    <3>2. CASE n # 0
      <4>1. n \in 1..CHAIN_SLOTS /\ n - 1 \in 0..CHAIN_SLOTS
        BY <1>1, <3>2
      <4> QED
        BY <1>2, <1>4, <3>2, <4>1 DEF Runs
    <3> QED
      BY <3>1, <3>2
  <2> QED
    BY <1>4, <2>1 DEF Runs
<1>6. Loop(after)
  BY <1>5, Zenon
<1> HIDE DEF after
<1>7. \A n \in 0..CHAIN_SLOTS : after[n] = IF n = 0 THEN r ELSE ApplySlot(after[n - 1], scene, p, n - 1)
  BY <1>6, Zenon
<1>8. /\ after[0] \in J[0]
      /\ \A n \in 1..CHAIN_SLOTS : after[n - 1] \in J[n - 1] => after[n] \in J[n]
  <2>1. 0 \in 0..CHAIN_SLOTS /\ \A n \in 1..CHAIN_SLOTS : n \in 0..CHAIN_SLOTS /\ n # 0
    BY <1>1
  <2> QED
    BY <1>7, <2>1
<1>9. \A n \in 0..CHAIN_SLOTS : after[n] \in J[n]
  BY <1>1, <1>8, LoopKeeps, Zenon
<1>10. ApplyChain(r, scene, p) = after[CHAIN_SLOTS]
  BY DEF ApplyChain, after
<1> QED
  BY <1>1, <1>9, <1>10

LEMMA PairsKeep ==
  ASSUME NEW r, NEW scene, NEW J, r \in J[0],
         \A n \in 1..CHAIN_PAIRS : \A x \in J[n - 1] :
            ApplyChain(x, scene, n - 1) \in J[n]
  PROVE  ApplySceneFx(r, scene) \in J[CHAIN_PAIRS]
<1> DEFINE Loop(f) == f = [n \in 0..CHAIN_PAIRS |->
                             IF n = 0 THEN r ELSE ApplyChain(f[n - 1], scene, n - 1)]
           after == CHOOSE f : Loop(f)
           X == UNION {J[n] : n \in 0..CHAIN_PAIRS}
           g == [z \in (1..CHAIN_PAIRS) \X X |-> ApplyChain(z[2], scene, z[1] - 1)]
<1>1. CHAIN_PAIRS \in Nat
  BY RackAssumption
<1>2. ASSUME NEW n \in 1..CHAIN_PAIRS, NEW x \in J[n - 1]
      PROVE  g[<<n, x>>] = ApplyChain(x, scene, n - 1)
  <2>1. n - 1 \in 0..CHAIN_PAIRS /\ x \in X
    BY <1>1
  <2> QED
    BY <2>1
<1> HIDE DEF g
<1>3. \A n \in 1..CHAIN_PAIRS : \A x \in J[n - 1] : g[<<n, x>>] \in J[n]
  BY <1>2
<1>4. PICK h : Runs(h, CHAIN_PAIRS, r, g, J)
  BY <1>1, <1>3, LoopRuns
<1>5. Loop(h)
  <2>1. ASSUME NEW n \in 0..CHAIN_PAIRS
        PROVE  h[n] = IF n = 0 THEN r ELSE ApplyChain(h[n - 1], scene, n - 1)
    <3>1. CASE n = 0
      BY <1>4, <3>1 DEF Runs
    <3>2. CASE n # 0
      <4>1. n \in 1..CHAIN_PAIRS /\ n - 1 \in 0..CHAIN_PAIRS
        BY <1>1, <3>2
      <4> QED
        BY <1>2, <1>4, <3>2, <4>1 DEF Runs
    <3> QED
      BY <3>1, <3>2
  <2> QED
    BY <1>4, <2>1 DEF Runs
<1>6. Loop(after)
  BY <1>5, Zenon
<1> HIDE DEF after
<1>7. \A n \in 0..CHAIN_PAIRS : after[n] = IF n = 0 THEN r ELSE ApplyChain(after[n - 1], scene, n - 1)
  BY <1>6, Zenon
<1>8. /\ after[0] \in J[0]
      /\ \A n \in 1..CHAIN_PAIRS : after[n - 1] \in J[n - 1] => after[n] \in J[n]
  <2>1. 0 \in 0..CHAIN_PAIRS /\ \A n \in 1..CHAIN_PAIRS : n \in 0..CHAIN_PAIRS /\ n # 0
    BY <1>1
  <2> QED
    BY <1>7, <2>1
<1>9. \A n \in 0..CHAIN_PAIRS : after[n] \in J[n]
  BY <1>1, <1>8, LoopKeeps, Zenon
<1>10. ApplySceneFx(r, scene) = after[CHAIN_PAIRS]
  BY DEF ApplySceneFx, after
<1> QED
  BY <1>1, <1>9, <1>10

--------------------------------------------------------------------------------
(* What a recall costs and restores *)

\* The places a recall has been through when it reaches slot n of pair p.
Done(p, n) == {d \in Pair \X Slot : d[1] < p \/ (d[1] = p /\ d[2] < n)}

LEMMA DoneSteps ==
  /\ Done(0, 0) = {}
  /\ \A p \in Pair, s \in Slot : /\ <<p, s>> \notin Done(p, s)
                                 /\ Done(p, s + 1) = Done(p, s) \cup {<<p, s>>}
  /\ \A p \in Pair : Done(p, CHAIN_SLOTS) = Done(p + 1, 0)
  /\ Done(CHAIN_PAIRS, 0) = Pair \X Slot
<1>1. CHAIN_PAIRS \in Nat /\ CHAIN_SLOTS \in Nat
  BY RackAssumption
<1>2. Done(0, 0) = {} /\ Done(CHAIN_PAIRS, 0) = Pair \X Slot
  BY <1>1 DEF Done, Pair, Slot
<1>3. ASSUME NEW p \in Pair, NEW s \in Slot
      PROVE  /\ <<p, s>> \notin Done(p, s)
             /\ Done(p, s + 1) = Done(p, s) \cup {<<p, s>>}
  <2>1. <<p, s>> \notin Done(p, s)
    BY <1>1 DEF Done, Pair, Slot
  <2>2. ASSUME NEW d \in Pair \X Slot
        PROVE  d \in Done(p, s + 1) <=> d \in Done(p, s) \/ d = <<p, s>>
    <3>1. /\ d = <<d[1], d[2]>>
          /\ d[1] \in Int /\ d[2] \in Int /\ p \in Int /\ s \in Int
      BY <1>1 DEF Pair, Slot
    <3>2. d = <<p, s>> <=> d[1] = p /\ d[2] = s
      BY <3>1
    <3> QED
      BY <3>1, <3>2 DEF Done
  <2>3. Done(p, s + 1) \subseteq Pair \X Slot /\ Done(p, s) \subseteq Pair \X Slot
    BY DEF Done
  <2> QED
    BY <2>1, <2>2, <2>3
<1>4. ASSUME NEW p \in Pair PROVE Done(p, CHAIN_SLOTS) = Done(p + 1, 0)
  <2>1. ASSUME NEW d \in Pair \X Slot
        PROVE  d \in Done(p, CHAIN_SLOTS) <=> d \in Done(p + 1, 0)
    <3>1. /\ d[1] \in Int /\ d[2] \in Int /\ p \in Int
          /\ 0 <= d[2] /\ d[2] < CHAIN_SLOTS
      BY <1>1 DEF Pair, Slot
    <3> QED
      BY <1>1, <3>1 DEF Done
  <2> QED
    BY <2>1 DEF Done
<1> QED
  BY <1>2, <1>3, <1>4

\* The instances the scene wants at the places in D, as a rack to count in.
Wanted(scene, D) ==
  [slot |-> [p \in Pair |-> [s \in Slot |->
     IF <<p, s>> \in D /\ p \in scene.covers /\ scene.chain[p][s].fx # None
     THEN NewSlot(s, scene.chain[p][s].fx) ELSE EmptySlot]]]

LEMMA WantedType ==
  ASSUME NEW scene \in Snapshots, NEW D
  PROVE  Wanted(scene, D).slot \in Slots
<1>1. \A p \in Pair, s \in Slot : scene.chain[p][s].fx \in AvailableFx \cup {None}
  BY DEF Snapshots, Saved
<1> QED
  BY <1>1, NewSlotOK, SlotFacts DEF Wanted, Slots

WantedMem(scene, D) == Cardinality(MemoryHandles(Wanted(scene, D)))
WantedLoopers(scene, D) == Cardinality(LooperSlots(Wanted(scene, D)))

LEMMA WantedNat ==
  ASSUME NEW scene, NEW D
  PROVE  WantedMem(scene, D) \in Nat /\ WantedLoopers(scene, D) \in Nat
BY HandlesFinite, FS_CardinalityType DEF WantedMem, WantedLoopers

LEMMA WantedGrows ==
  ASSUME NEW scene \in Snapshots, NEW p \in Pair, NEW s \in Slot, NEW D,
         <<p, s>> \notin D
  PROVE  LET fx == scene.chain[p][s].fx
             E == D \cup {<<p, s>>}
         IN  /\ p \in scene.covers =>
                  /\ WantedMem(scene, E) = WantedMem(scene, D) + NewMem(fx)
                  /\ WantedLoopers(scene, E) = WantedLoopers(scene, D) + Loopers(fx)
             /\ p \notin scene.covers =>
                  /\ WantedMem(scene, E) = WantedMem(scene, D)
                  /\ WantedLoopers(scene, E) = WantedLoopers(scene, D)
<1> DEFINE fx == scene.chain[p][s].fx
           E == D \cup {<<p, s>>}
           r == Wanted(scene, D)
           q == Wanted(scene, E)
           x == IF p \in scene.covers /\ fx # None THEN NewSlot(s, fx) ELSE EmptySlot
<1>1. fx \in AvailableFx \cup {None}
  BY DEF Snapshots, Saved
<1>2. r.slot \in Slots /\ r.slot[p][s] = EmptySlot
  BY WantedType DEF Wanted
<1>3. x \in SlotState
  BY <1>1, NewSlotOK, SlotFacts
<1>4. /\ p \in scene.covers => HeldMem(x) = NewMem(fx) /\ Loopers(x.fx) = Loopers(fx)
      /\ p \notin scene.covers => HeldMem(x) = 0 /\ Loopers(x.fx) = 0
  BY <1>1, NewSlotOK, SlotFacts, RackAssumption DEF EmptySlot, NewMem, Loopers
<1>5. q.slot = Put(r, p, s, x)
  <2>1. ASSUME NEW a \in Pair, NEW b \in Slot, <<a, b>> # <<p, s>>
        PROVE  <<a, b>> \in E <=> <<a, b>> \in D
    BY <2>1
  <2>2. q.slot[p][s] = x
    BY DEF Wanted
  <2>3. \A a \in Pair, b \in Slot :
           <<a, b>> # <<p, s>> => q.slot[a][b] = r.slot[a][b]
    BY <2>1 DEF Wanted
  <2>4. q.slot \in Slots
    BY WantedType
  <2> HIDE DEF q, r, x
  <2>5. /\ Put(r, p, s, x) \in Slots
        /\ \A a \in Pair, b \in Slot : Put(r, p, s, x)[a][b] = q.slot[a][b]
    BY <1>2, <1>3, <2>2, <2>3 DEF Put, Slots
  <2>6. \A a \in Pair : Put(r, p, s, x)[a] = q.slot[a]
    BY <2>4, <2>5 DEF Slots
  <2> QED
    BY <2>4, <2>5, <2>6 DEF Slots
<1> HIDE DEF x
<1>6. /\ Cardinality(MemoryHandles(q))
           = Cardinality(MemoryHandles(r)) - HeldMem(EmptySlot) + HeldMem(x)
      /\ Cardinality(LooperSlots(q))
           = Cardinality(LooperSlots(r)) - Loopers(EmptySlot.fx) + Loopers(x.fx)
  BY <1>2, <1>3, <1>5, ReplaceSlot
<1>7. /\ Cardinality(MemoryHandles(r)) \in Nat /\ Cardinality(LooperSlots(r)) \in Nat
      /\ HeldMem(x) \in Nat /\ Loopers(x.fx) \in Nat
  BY <1>3, SlotFacts, HandlesFinite, FS_CardinalityType
<1> QED
  BY <1>4, <1>6, <1>7, SlotFacts DEF WantedMem, WantedLoopers

\* Headroom counts at least what is wanted anywhere.
LEMMA WantedBounded ==
  ASSUME NEW scene \in Snapshots, NEW D
  PROVE  /\ WantedMem(scene, D) <= Cardinality(SceneHandles(scene))
         /\ WantedLoopers(scene, D) <= Cardinality(SceneLoopers(scene))
         /\ Cardinality(SceneHandles(scene)) \in Nat
         /\ Cardinality(SceneLoopers(scene)) \in Nat
<1> DEFINE w == Wanted(scene, D)
<1>1. scene.covers \subseteq Pair
  BY DEF Snapshots
<1>2. IsFiniteSet(SceneHandles(scene)) /\ IsFiniteSet(SceneLoopers(scene))
  <2>1. /\ SceneHandles(scene) \subseteq Pair \X Slot \X (1..2)
        /\ SceneLoopers(scene) \subseteq Pair \X Slot
    BY <1>1 DEF SceneHandles, SceneLoopers
  <2> QED
    BY <2>1, PlacesFinite, FS_Subset
<1>3. ASSUME NEW a \in Pair, NEW b \in Slot, w.slot[a][b].fx # None
      PROVE  /\ a \in scene.covers
             /\ w.slot[a][b].fx = scene.chain[a][b].fx
             /\ w.slot[a][b].handles = Handles(scene.chain[a][b].fx)
  BY <1>3 DEF Wanted, EmptySlot, NewSlot
<1>4. None \notin MemoryFx /\ None \notin LooperFx
  BY RackAssumption
<1> HIDE DEF w
<1>5. MemoryHandles(w) \subseteq SceneHandles(scene)
  BY <1>3, <1>4 DEF MemoryHandles, SceneHandles, SceneFx, At
<1>6. LooperSlots(w) \subseteq SceneLoopers(scene)
  BY <1>3, <1>4 DEF LooperSlots, SceneLoopers, SceneFx, At
<1> QED
  BY <1>2, <1>5, <1>6, FS_Subset, FS_CardinalityType DEF WantedMem, WantedLoopers, w

\* A recall of the scene that has come to slot n of pair p: with the headroom it
\* started with, what it went through is restored and what it spent is what the
\* scene wanted there, so what the scene wants next still fits.
Midway(x, scene, p, n) ==
  /\ RackOK(x)
  /\ Headroom(scene) =>
       /\ x.mem <= rack.mem + WantedMem(scene, Done(p, n))
       /\ x.loopers <= rack.loopers + WantedLoopers(scene, Done(p, n))
       /\ \A d \in Done(p, n) :
            d[1] \in scene.covers => SlotRestored(x, scene, d[1], d[2])

LEMMA MidwayStep ==
  ASSUME RackOK(rack), NEW scene \in Snapshots, NEW p \in Pair, NEW s \in Slot,
         NEW x, Midway(x, scene, p, s)
  PROVE  Midway(ApplySlot(x, scene, p, s), scene, p, s + 1)
<1> DEFINE q == ApplySlot(x, scene, p, s)
           fx == scene.chain[p][s].fx
           old == x.slot[p][s]
           D == Done(p, s)
           E == Done(p, s + 1)
<1>1. RackOK(x) /\ RackOK(q)
  BY ApplySlotOK DEF Midway
<1>2. /\ old \in SlotState /\ fx \in AvailableFx \cup {None}
      /\ x.mem \in Nat /\ x.loopers \in Nat /\ rack.mem \in Nat /\ rack.loopers \in Nat
  BY <1>1 DEF RackOK, Racks, Slots, Snapshots, Saved
<1>3. /\ <<p, s>> \notin D /\ E = D \cup {<<p, s>>}
      /\ D \subseteq Pair \X Slot
  BY DoneSteps DEF Done
<1> SUFFICES ASSUME Headroom(scene)
             PROVE  /\ q.mem <= rack.mem + WantedMem(scene, E)
                    /\ q.loopers <= rack.loopers + WantedLoopers(scene, E)
                    /\ \A d \in E : d[1] \in scene.covers
                                      => SlotRestored(q, scene, d[1], d[2])
  BY <1>1 DEF Midway
<1>4. /\ x.mem <= rack.mem + WantedMem(scene, D)
      /\ x.loopers <= rack.loopers + WantedLoopers(scene, D)
      /\ \A d \in D : d[1] \in scene.covers => SlotRestored(x, scene, d[1], d[2])
  BY DEF Midway
<1> HIDE DEF D, E
<1>5. CASE p \notin scene.covers
  <2>1. q = x
    BY <1>5 DEF ApplySlot
  <2>2. /\ WantedMem(scene, E) = WantedMem(scene, D)
        /\ WantedLoopers(scene, E) = WantedLoopers(scene, D)
    BY <1>3, <1>5, WantedGrows
  <2>3. \A d \in E : d[1] \in scene.covers => d \in D
    BY <1>3, <1>5
  <2> QED
    BY <1>4, <2>1, <2>2, <2>3
<1>6. CASE p \in scene.covers
  <2>1. /\ WantedMem(scene, E) = WantedMem(scene, D) + NewMem(fx)
        /\ WantedLoopers(scene, E) = WantedLoopers(scene, D) + Loopers(fx)
    BY <1>3, <1>6, WantedGrows
  <2>2. /\ WantedMem(scene, D) \in Nat /\ WantedLoopers(scene, D) \in Nat
        /\ NewMem(fx) \in Nat /\ Loopers(fx) \in Nat
        /\ HeldMem(old) \in Nat /\ Loopers(old.fx) \in Nat
    BY <1>2, WantedNat, SlotFacts DEF NewMem, Loopers, Handles
  <2>3. FitsBudget(x, p, s, fx)
    <3>1. /\ rack.mem + WantedMem(scene, E) <= MEMORY_CLASS_CAP
          /\ rack.loopers + WantedLoopers(scene, E) <= LOOPER_CAP
      <4>1. /\ WantedMem(scene, E) \in Nat /\ WantedLoopers(scene, E) \in Nat
        BY WantedNat
      <4> QED
        BY <1>2, <4>1, WantedBounded, RackAssumption DEF Headroom
    <3> QED
      BY <1>2, <1>4, <2>1, <2>2, <3>1, RackAssumption DEF FitsBudget
  <2>4. /\ SlotRestored(q, scene, p, s)
        /\ ElsewhereSame(q, x, p, s)
        /\ q.mem = x.mem - HeldMem(old) + NewMem(fx)
        /\ q.loopers = x.loopers - Loopers(old.fx) + Loopers(fx)
    BY <1>1, <1>6, <2>3, ApplySlotRestores
  <2>5. /\ q.mem <= rack.mem + WantedMem(scene, E)
        /\ q.loopers <= rack.loopers + WantedLoopers(scene, E)
    BY <1>2, <1>4, <2>1, <2>2, <2>4
  <2> HIDE DEF q
  <2>6. ASSUME NEW d \in E, d[1] \in scene.covers
        PROVE  SlotRestored(q, scene, d[1], d[2])
    <3>1. CASE d = <<p, s>>
      BY <2>4, <3>1
    <3>2. CASE d # <<p, s>>
      <4>1. /\ d \in D /\ d[1] \in Pair /\ d[2] \in Slot
            /\ <<d[1], d[2]>> # <<p, s>>
        BY <1>3, <3>2
      <4>2. q.slot[d[1]][d[2]] = x.slot[d[1]][d[2]]
        BY <2>4, <4>1 DEF ElsewhereSame
      <4> QED
        BY <1>4, <2>6, <4>1, <4>2 DEF SlotRestored
    <3> QED
      BY <3>1, <3>2
  <2> QED
    BY <2>5, <2>6
<1> QED
  BY <1>5, <1>6

LEMMA MidwayChain ==
  ASSUME RackOK(rack), NEW scene \in Snapshots, NEW p \in Pair,
         NEW x, Midway(x, scene, p, 0)
  PROVE  Midway(ApplyChain(x, scene, p), scene, p + 1, 0)
<1> DEFINE J == [n \in 0..CHAIN_SLOTS |-> {y \in Racks : Midway(y, scene, p, n)}]
<1>1. CHAIN_SLOTS \in Nat
  BY RackAssumption
<1>2. x \in J[0]
  BY <1>1 DEF Midway, RackOK
<1>3. ASSUME NEW n \in 1..CHAIN_SLOTS, NEW y \in J[n - 1]
      PROVE  ApplySlot(y, scene, p, n - 1) \in J[n]
  <2>1. n - 1 \in Slot /\ n - 1 \in 0..CHAIN_SLOTS /\ (n - 1) + 1 = n
    BY <1>1 DEF Slot
  <2>2. Midway(ApplySlot(y, scene, p, n - 1), scene, p, n)
    BY <2>1, MidwayStep
  <2> QED
    BY <2>2 DEF Midway, RackOK
<1> HIDE DEF J
<1>4. ApplyChain(x, scene, p) \in J[CHAIN_SLOTS]
  BY <1>2, <1>3, ChainKeeps
<1>5. Midway(ApplyChain(x, scene, p), scene, p, CHAIN_SLOTS)
  BY <1>1, <1>4 DEF J
<1>6. Done(p, CHAIN_SLOTS) = Done(p + 1, 0)
  BY DoneSteps
<1> QED
  BY <1>5, <1>6 DEF Midway

LEMMA MidwayEnd ==
  ASSUME RackOK(rack), NEW scene \in Snapshots
  PROVE  Midway(ApplySceneFx(rack, scene), scene, CHAIN_PAIRS, 0)
<1> DEFINE J == [n \in 0..CHAIN_PAIRS |-> {y \in Racks : Midway(y, scene, n, 0)}]
<1>1. CHAIN_PAIRS \in Nat
  BY RackAssumption
<1>2. Midway(rack, scene, 0, 0)
  <2>1. /\ WantedMem(scene, Done(0, 0)) \in Nat
        /\ WantedLoopers(scene, Done(0, 0)) \in Nat
        /\ rack.mem \in Nat /\ rack.loopers \in Nat
    BY WantedNat DEF RackOK, Racks
  <2> QED
    BY <2>1, DoneSteps DEF Midway
<1>3. rack \in J[0]
  BY <1>1, <1>2 DEF RackOK
<1>4. ASSUME NEW n \in 1..CHAIN_PAIRS, NEW y \in J[n - 1]
      PROVE  ApplyChain(y, scene, n - 1) \in J[n]
  <2>1. n - 1 \in Pair /\ n - 1 \in 0..CHAIN_PAIRS /\ (n - 1) + 1 = n
    BY <1>1 DEF Pair
  <2>2. Midway(ApplyChain(y, scene, n - 1), scene, n, 0)
    BY <2>1, MidwayChain
  <2> QED
    BY <2>2 DEF Midway, RackOK
<1> HIDE DEF J
<1>5. ApplySceneFx(rack, scene) \in J[CHAIN_PAIRS]
  BY <1>3, <1>4, PairsKeep
<1> QED
  BY <1>1, <1>5 DEF J

\* A recall is as good to the rack as the setters it is made of, and exact when
\* the budgets have room for the scene.
LEMMA ApplySceneFxOK ==
  ASSUME RackOK(rack), NEW scene \in Snapshots
  PROVE  /\ RackOK(ApplySceneFx(rack, scene))
         /\ Headroom(scene) => Restored(ApplySceneFx(rack, scene), scene)
<1> DEFINE q == ApplySceneFx(rack, scene)
<1>1. RackOK(q) /\ (Headroom(scene) => \A d \in Pair \X Slot :
                      d[1] \in scene.covers => SlotRestored(q, scene, d[1], d[2]))
  BY MidwayEnd, DoneSteps DEF Midway
<1>2. ASSUME Headroom(scene), NEW p \in scene.covers, NEW s \in Slot
      PROVE  SlotRestored(q, scene, p, s)
  <2>1. <<p, s>> \in Pair \X Slot
    BY DEF Snapshots
  <2> QED
    BY <1>1, <1>2, <2>1
<1> HIDE DEF q
<1> QED
  BY <1>1, <1>2 DEF Restored, SlotRestored, q

--------------------------------------------------------------------------------
(* The invariants *)

LEMMA InitOK == Init => RackOK(rack)
<1> SUFFICES ASSUME Init PROVE RackOK(rack)
  OBVIOUS
<1>1. EmptySlot \in SlotState
  BY SlotFacts
<1>2. /\ rack.slot = [p \in Pair |-> [s \in Slot |-> EmptySlot]]
      /\ rack.mem = 0 /\ rack.loopers = 0
  BY DEF Init
<1>3. rack \in Racks
  BY <1>1 DEF Init, Racks, Slots
<1>4. SlotsOK(rack)
  BY <1>2, EmptySlotOK DEF SlotsOK
<1>5. \A p \in Pair, s \in Slot : rack.slot[p][s] = EmptySlot
  BY <1>2
<1>6. MemoryHandles(rack) = {} /\ LooperSlots(rack) = {}
  <2>1. EmptySlot.fx \notin MemoryFx /\ EmptySlot.fx \notin LooperFx
    BY RackAssumption DEF EmptySlot
  <2> QED
    BY <1>5, <2>1 DEF MemoryHandles, LooperSlots, At
<1>7. Exact(rack)
  BY <1>2, <1>6, FS_EmptySet DEF Exact
<1>8. InBudget(rack)
  BY <1>2, RackAssumption DEF InBudget
<1> QED
  BY <1>3, <1>4, <1>7, <1>8 DEF RackOK

LEMMA NextOK == RackOK(rack) /\ [Next]_rack => RackOK(rack)'
<1> SUFFICES ASSUME RackOK(rack), [Next]_rack PROVE RackOK(rack')
  BY DEF RackOK, SlotsOK, Exact, InBudget, MemoryHandles, LooperSlots, At
<1>1. CASE FxSetSlot
  BY <1>1, SetSlotOK DEF FxSetSlot
<1>2. CASE FxSetEnabled
  BY <1>2, SetEnabledOK DEF FxSetEnabled
<1>3. CASE FxSetParam
  BY <1>3, SetParamOK DEF FxSetParam
<1>4. CASE FxMoveSlot
  BY <1>4, MoveSlotOK DEF FxMoveSlot
<1>5. CASE Process
  BY <1>5, ProcessPairOK DEF Process
<1>6. CASE UNCHANGED rack
  BY <1>6
<1> QED
  BY <1>1, <1>2, <1>3, <1>4, <1>5, <1>6 DEF Next

LEMMA RackInvariance == Spec => []RackOK(rack)
BY InitOK, NextOK, PTL DEF Spec

\* The rack keeps its type: no sequence of setters and moves drives a counter
\* below zero or leaves a slot outside its domain.
THEOREM RackTypeCorrect == Spec => []TypeOK
<1>1. RackOK(rack) => TypeOK
  BY DEF RackOK, Racks, Slots, TypeOK
<1> QED
  BY <1>1, RackInvariance, PTL

\* For every catalog, every size of the rack and all caps, the two counters are
\* the numbers of tape instances and loopers that exist, and within the caps.
THEOREM BudgetsStayExact == Spec => []BudgetsExact
<1>1. RackOK(rack) => BudgetsExact
  BY DEF RackOK, Exact, InBudget, BudgetsExact
<1> QED
  BY <1>1, RackInvariance, PTL

\* However the chains are edited and reordered, every DSP instance reads the
\* parameter row of the slot it sits in.
THEOREM InstancesReadOwnSlot == Spec => []DspReadsOwnSlot
<1>1. RackOK(rack) => DspReadsOwnSlot
  BY DEF RackOK, SlotsOK, SlotOK, Wired, DspReadsOwnSlot
<1> QED
  BY <1>1, RackInvariance, PTL

\* The render path never finds an enabled slot that is not active.
THEOREM ActivationIsEager == Spec => []RenderNeverActivates
<1>1. RackOK(rack) => RenderNeverActivates
  BY DEF RackOK, SlotsOK, SlotOK, Activated, RenderNeverActivates
<1> QED
  BY <1>1, RackInvariance, PTL
--------------------------------------------------------------------------------
(* The rack with scenes *)

SInv ==
  /\ RackOK(rack)
  /\ owned \subseteq Pair
  /\ scenes \in [Scene -> Snapshots \cup {None}]

LEMMA InitSInv == SInit => SInv
BY InitOK DEF SInit, SInv

\* What a scene captures can be set again: every effect in the rack is available.
LEMMA SnapshotType ==
  ASSUME SInv PROVE ConsoleSnapshot \in Snapshots
<1>1. ASSUME NEW p \in Pair, NEW s \in Slot
      PROVE  Captured(rack.slot[p][s]) \in Saved
  <2>1. SlotOK(rack.slot[p][s], s)
    BY DEF SInv, RackOK, SlotsOK
  <2> QED
    BY <2>1 DEF SlotOK, Blank, Wired, SlotState, Captured, Saved
<1> QED
  BY <1>1 DEF SInv, ConsoleSnapshot, Snapshots

LEMMA NextSInv == SInv /\ [SNext]_svars => SInv'
<1> SUFFICES ASSUME SInv, [SNext]_svars PROVE SInv'
  OBVIOUS
<1>0. /\ RackOK(rack) /\ owned \subseteq Pair
      /\ scenes \in [Scene -> Snapshots \cup {None}]
  BY DEF SInv
<1>a. SInv' <=> /\ RackOK(rack') /\ owned' \subseteq Pair
                /\ scenes' \in [Scene -> Snapshots \cup {None}]
  BY DEF SInv, RackOK, SlotsOK, Exact, InBudget, MemoryHandles, LooperSlots, At
<1>1. CASE RackStep
  <2>1. RackOK(rack)'
    BY <1>0, <1>1, NextOK DEF RackStep, Next
  <2> QED
    BY <1>0, <1>1, <2>1 DEF RackStep, SInv
<1>2. ASSUME NEW p \in Pair, EnsureOwner(p) PROVE SInv'
  BY <1>0, <1>2, <1>a DEF EnsureOwner
<1>3. CASE SaveScene
  BY <1>0, <1>3, <1>a, SnapshotType DEF SaveScene
<1>4. ASSUME NEW id \in Scene, RecallScene(id) PROVE SInv'
  <2>1. scenes[id] \in Snapshots
    BY <1>0, <1>4 DEF RecallScene
  <2>2. RackOK(ApplySceneFx(rack, scenes[id]))
    BY <1>0, <2>1, ApplySceneFxOK
  <2> QED
    BY <1>0, <1>4, <1>a, <2>2 DEF RecallScene
<1>5. ASSUME NEW id \in Scene, DeleteScene(id) PROVE SInv'
  BY <1>0, <1>5, <1>a DEF DeleteScene
<1>6. CASE UNCHANGED svars
  BY <1>0, <1>6, <1>a DEF svars
<1> QED
  BY <1>1, <1>2, <1>3, <1>4, <1>5, <1>6 DEF SNext

LEMMA SInvariance == SSpec => []SInv
BY InitSInv, NextSInv, PTL DEF SSpec

\* The rack's invariants also hold when scenes are saved and recalled: type,
\* budgets that count exactly what is instantiated, parameters read from the
\* slot's own row, and activation outside the render path.
THEOREM ScenesKeepRack ==
  SSpec => [](TypeOK /\ BudgetsExact /\ DspReadsOwnSlot /\ RenderNeverActivates)
<1>1. SInv => TypeOK
  BY DEF SInv, RackOK, Racks, Slots, TypeOK
<1>2. SInv => BudgetsExact
  BY DEF SInv, RackOK, Exact, InBudget, BudgetsExact
<1>3. SInv => DspReadsOwnSlot
  BY DEF SInv, RackOK, SlotsOK, SlotOK, Wired, DspReadsOwnSlot
<1>4. SInv => RenderNeverActivates
  BY DEF SInv, RackOK, SlotsOK, SlotOK, Activated, RenderNeverActivates
<1> QED
  BY <1>1, <1>2, <1>3, <1>4, SInvariance, PTL

\* A recall that starts with room in the budgets for the whole scene, on top of
\* everything that runs, restores every covered slot exactly: no order of the
\* teardowns and creations on the way can make a set be refused.
THEOREM HeadroomMakesRecallExact == SSpec => RecallRestoresWithHeadroom
<1> DEFINE Step == \A id \in Scene :
             RecallScene(id) /\ Headroom(scenes[id]) => Restored(rack', scenes[id])
<1>1. SInv => Step
  <2> SUFFICES ASSUME SInv, NEW id \in Scene, RecallScene(id), Headroom(scenes[id])
               PROVE  Restored(rack', scenes[id])
    OBVIOUS
  <2>1. RackOK(rack) /\ scenes[id] \in Snapshots
    BY DEF SInv, RecallScene
  <2> QED
    BY <2>1, ApplySceneFxOK DEF RecallScene
<1>2. SSpec => [][Step]_svars
  BY <1>1, SInvariance, PTL
<1> QED
  BY <1>2 DEF RecallRestoresWithHeadroom
================================================================================
