----------------------------- MODULE MixGraphProofs -----------------------------
(****************************************************************************)
(* What holds of the mix for every number of inputs, buses and slots, every *)
(* set of fader positions and any number of operations.                     *)
(*                                                                          *)
(* Every step of the mix graph is a step of the console or leaves it alone, *)
(* so what ConsoleProofs shows of Spec holds of MixSpec.  MutedReach then   *)
(* rests on MuteDerived in the console a block is rendered from, and on the *)
(* type of a tap that a block with the tap off leaves behind.               *)
(****************************************************************************)
EXTENDS MixGraph, ConsoleProofs

\* IInv is the inductive invariant of the console.
MixInv ==
  /\ IInv /\ OutputsOK
  /\ bus_out = [b \in Bus |-> bus_out[b]]

LEMMA SlotIsNoInput ==
  ASSUME NEW b \in Bus, NEW s \in Slot
  PROVE  SlotStrip(b, s) \in Strip \ Input
<1>1. b * BUS_SLOTS \in Nat
  <2>1. \A i, j \in Nat : i * j \in Nat
    OBVIOUS
  <2> QED BY <2>1, ConsoleAssumption DEF Bus
<1> QED BY <1>1, ConsoleAssumption DEF SlotStrip, Strip, Slot, Input

\* A row holds its own input, and that of the other strip of its pair.
LEMMA CoupledRow ==
  ASSUME NEW k, NEW x, NEW c \in Input, NEW r \in Coupled(k, x, c)
  PROVE  r \in Input /\ (r # c => c \div 2 = r \div 2)
BY ConsoleAssumption DEF Coupled, Input

LEMMA BusMixType ==
  ASSUME NEW k, NEW x, NEW b \in Bus
  PROVE  BusMix(k, x, b) \in SUBSET (Strip \X Input)
BY SlotIsNoInput DEF BusMix, Heard, SlotRow, Raw

\* Every step of the mix graph is one of the console or leaves it alone.
LEMMA ConsoleStep == MixNext => [Next]_vars
BY DEF MixNext, ProcessBlock, UserOperates, Next, SetChannelTap, TakeChannelTap,
       TakeBusOutput, vars

\* The mix graph adds no behaviour to the console.
THEOREM MixIsConsole == MixSpec => Spec
<1>1. MixInit => Init
  BY DEF MixInit
<1>2. [MixNext]_mixVars => [Next]_vars
  BY ConsoleStep DEF mixVars, vars
<1> QED BY <1>1, <1>2, PTL DEF MixSpec, Spec

LEMMA RenderType ==
  ASSUME MixInv, NEW x, Render(console', x)
  PROVE  OutputsOK' /\ (bus_out = [b \in Bus |-> bus_out[b]])'
<1>1. tap_channels \in 0..NumInputs /\ tap_channels' = tap_channels
  BY DEF MixInv, OutputsOK, Render
<1>2. bus_out' = [b \in Bus |-> BusMix(console', x, b)]
  BY DEF Render
<1>3. \A b \in Bus : bus_out'[b] \in SUBSET (Strip \X Input)
  BY <1>2, BusMixType
<1>4. tap' = None \/ tap' \in [0..(tap_channels - 1) -> SUBSET Input]
  <2>1. CASE tap_channels = 0
    BY <2>1 DEF Render, MixInv, OutputsOK
  <2>2. CASE tap_channels # 0
    <3>1. tap' = TapMix(console', x)
      BY <2>2 DEF Render
    <3>2. \A c \in 0..(tap_channels - 1) : c \in Input
      BY <1>1, ConsoleAssumption DEF Input
    <3>3. \A c \in 0..(tap_channels - 1) :
            {m[2] : m \in Heard(console', c, Coupled(console', x, c))} \subseteq Input
      BY <3>2, CoupledRow DEF Heard
    <3> QED BY <3>1, <3>3 DEF TapMix
  <2> QED BY <2>1, <2>2
<1> QED BY <1>1, <1>2, <1>3, <1>4 DEF OutputsOK

LEMMA MixNextInv == MixInv /\ [MixNext]_mixVars => MixInv'
<1> SUFFICES ASSUME MixInv, [MixNext]_mixVars PROVE MixInv'
  OBVIOUS
<1>1. IInv'
  <2>1. [Next]_vars
    BY ConsoleStep DEF mixVars, vars
  <2> QED BY <2>1, NextInv DEF MixInv
<1>2. CASE ProcessBlock
  BY <1>1, <1>2, RenderType DEF ProcessBlock, MixInv
<1>3. CASE UNCHANGED outputs
  BY <1>1, <1>3 DEF outputs, MixInv, OutputsOK
<1>4. ASSUME NEW channels \in TapWidths, SetChannelTap(channels) PROVE MixInv'
  BY <1>1, <1>4, MixAssumption, ConsoleAssumption DEF SetChannelTap, MixInv, OutputsOK
<1>5. CASE TakeChannelTap
  BY <1>1, <1>5 DEF TakeChannelTap, MixInv, OutputsOK
<1>6. ASSUME NEW b \in Bus, TakeBusOutput(b) PROVE MixInv'
  <2>1. /\ bus_out' = [bus_out EXCEPT ![b] = None]
        /\ tap_channels' = tap_channels /\ tap' = tap
    BY <1>6 DEF TakeBusOutput
  <2> QED BY <1>1, <2>1 DEF MixInv, OutputsOK
<1> QED BY <1>2, <1>3, <1>4, <1>5, <1>6 DEF MixNext, mixVars

LEMMA MixInvariant == MixSpec => []MixInv
<1>1. MixInit => MixInv
  BY InitInv, ConsoleAssumption DEF MixInit, MixInv, OutputsOK
<1> QED BY <1>1, MixNextInv, PTL DEF MixSpec
--------------------------------------------------------------------------------
(* The theorems *)

\* Console and outputs keep their types; a block to be taken has the tap's width
\* also when the width was set while one was waiting.
THEOREM MixTypeCorrect == MixSpec => []MixTypeOK
<1>1. MixInv => MixTypeOK
  BY DEF MixInv, IInv, MixTypeOK
<1> QED BY <1>1, MixInvariant, PTL

\* With the mix around it the console keeps what ConsoleProofs shows of it.
THEOREM MixKeepsConsole ==
  MixSpec => /\ []TypeOK /\ []MuteDerived /\ []FadeSkipsSoundly
             /\ RecallLands /\ RecallCreatesNothing
BY MixIsConsole, TypeCorrect, MutesDerived, SkipsSound, Lands, CreatesNothing, PTL

\* Nothing is heard through a muted strip.
LEMMA MutedSilent ==
  ASSUME NEW k, k.user_muted \subseteq k.engine, NEW c, NEW row, NEW m \in Heard(k, c, row)
  PROVE  m[1] = c /\ m[2] \in row /\ m[1] \notin k.user_muted
BY DEF Heard, Unmuted

\* What is heard through a strip that is not its own was led there.
LEMMA MixedLed ==
  ASSUME NEW k, k.user_muted \subseteq k.engine, k.main_assign \subseteq Input,
         k.user_muted \subseteq Strip,
         NEW x \in SUBSET Pair, NEW m,
         m \in MasterMix(k, x) \/ \E b \in Bus : m \in BusMix(k, x, b)
  PROVE  /\ m[1] \notin k.user_muted
         /\ m[2] \in k.user_muted => LedTo(k, m[2], m[1])
<1>1. ASSUME NEW c \in k.main_assign, m \in Heard(k, c, Coupled(k, x, c))
      PROVE  /\ m[1] \notin k.user_muted
             /\ m[2] # m[1] => LedTo(k, m[2], m[1])
  <2>1. m[1] = c /\ m[2] \in Coupled(k, x, c) /\ m[1] \notin k.user_muted
    BY <1>1, MutedSilent
  <2>2. m[2] \in Input /\ (m[2] # c => c \div 2 = m[2] \div 2)
    BY <2>1, CoupledRow
  <2> QED BY <2>1, <2>2 DEF LedTo
<1>2. ASSUME NEW b \in Bus, m \in BusMix(k, x, b)
      PROVE  m[1] \notin k.user_muted /\ LedTo(k, m[2], m[1])
  <2>1. PICK s \in Slot : m \in Heard(k, SlotStrip(b, s), SlotRow(k, x, b, s))
    BY <1>2 DEF BusMix
  <2>2. m[1] = SlotStrip(b, s) /\ m[2] \in Raw(k, b, s) /\ m[1] \notin k.user_muted
    BY <2>1, MutedSilent DEF SlotRow
  <2>3. k.bus[b].sources[s] = m[2]
    BY <2>2 DEF Raw
  <2> QED BY <2>2, <2>3 DEF LedTo
<1>3. m \in MasterMix(k, x) =>
        \/ \E c \in k.main_assign : m \in Heard(k, c, Coupled(k, x, c))
        \/ \E b \in Bus : m \in BusMix(k, x, b)
  BY DEF MasterMix, MainMix
<1> QED BY <1>1, <1>2, <1>3

LEMMA TapLed ==
  ASSUME NEW k, k.user_muted \subseteq k.engine, NEW x \in SUBSET Pair,
         tap_channels \in 0..NumInputs, NEW c \in 0..(tap_channels - 1)
  PROVE  /\ c \in k.user_muted => TapMix(k, x)[c] = {}
         /\ \A r \in TapMix(k, x)[c] \ {c} : LedTo(k, r, c)
<1>1. c \in Input
  BY ConsoleAssumption DEF Input
<1>2. TapMix(k, x)[c] = {m[2] : m \in Heard(k, c, Coupled(k, x, c))}
  BY DEF TapMix
<1>3. c \in k.user_muted => Heard(k, c, Coupled(k, x, c)) = {}
  BY DEF Heard, Unmuted
<1>4. ASSUME NEW r \in TapMix(k, x)[c] \ {c} PROVE LedTo(k, r, c)
  <2>1. PICK m \in Heard(k, c, Coupled(k, x, c)) : r = m[2]
    BY <1>2
  <2>2. r \in Coupled(k, x, c)
    BY <2>1, MutedSilent
  <2> QED BY <1>1, <2>2, CoupledRow DEF LedTo
<1> QED BY <1>2, <1>3, <1>4

\* "Muted strips contribute to no mix": in no block, whatever led to the mute.
THEOREM MutedStaysOut == MixSpec => MutedReach
<1>1. ASSUME MixInv, MixInv', ProcessBlock
      PROVE  /\ \A y \in SUBSET Pair : HeardWhereLed(console', MasterMix(console', y), tap')
             /\ \A b \in Bus : HeardWhereLed(console', bus_out'[b], tap')
  <2>1. PICK x \in SUBSET Pair : Render(console', x)
    BY <1>1 DEF ProcessBlock
  <2>2. /\ console'.user_muted \subseteq console'.engine
        /\ console'.main_assign \subseteq Input /\ console'.user_muted \subseteq Strip
    BY <1>1 DEF MixInv, IInv, TypeOK, MuteDerived
  <2>3. /\ bus_out' = [b \in Bus |-> BusMix(console', x, b)]
        /\ tap' = IF tap_channels = 0 THEN tap ELSE TapMix(console', x)
    BY <2>1 DEF Render
  <2>4. ASSUME tap' # None, NEW c \in DOMAIN tap'
        PROVE  /\ c \in console'.user_muted => tap'[c] = {}
               /\ \A r \in tap'[c] \ {c} : LedTo(console', r, c)
    <3>1. tap_channels \in 0..NumInputs /\ tap_channels # 0 /\ tap' = TapMix(console', x)
      BY <1>1, <2>3, <2>4 DEF MixInv, OutputsOK
    <3>2. c \in 0..(tap_channels - 1)
      BY <2>4, <3>1 DEF TapMix
    <3> QED BY <2>2, <3>1, <3>2, TapLed
  <2>5. ASSUME NEW y \in SUBSET Pair
        PROVE  HeardWhereLed(console', MasterMix(console', y), tap')
    BY <2>2, <2>4, MixedLed DEF HeardWhereLed
  <2>6. ASSUME NEW b \in Bus PROVE HeardWhereLed(console', bus_out'[b], tap')
    BY <2>2, <2>3, <2>4, MixedLed DEF HeardWhereLed
  <2> QED BY <2>5, <2>6
<1>2. MixInv /\ [MixNext]_mixVars =>
        [ProcessBlock =>
           /\ \A x \in SUBSET Pair : HeardWhereLed(console', MasterMix(console', x), tap')
           /\ \A b \in Bus : HeardWhereLed(console', bus_out'[b], tap')]_mixVars
  BY <1>1, MixNextInv
<1> QED BY <1>2, MixInvariant, PTL DEF MutedReach, MixSpec
================================================================================
