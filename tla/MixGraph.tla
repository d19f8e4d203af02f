-------------------------------- MODULE MixGraph --------------------------------
(****************************************************************************)
(* The mix of process_block (lib.rs) over the console of module Console:    *)
(* staging, FX pass, direct-out tap, the engines' call lists, the bus tail, *)
(* and the two drains of what a block leaves behind.                        *)
(*                                                                          *)
(* A signal is the set of the raw inputs heard in it; a mix is a set of     *)
(* <<strip, raw input>>, what is heard and through which strip.  Dynamics,  *)
(* EQ, pan and limiter change no such set.  Of the FX chains counts whether *)
(* a stereo effect lets the rows of a pair into one another: each block     *)
(* chooses the pairs where one does.  Every input strip is fed (a starved   *)
(* one is heard in less).                                                   *)
(****************************************************************************)
EXTENDS Console

CONSTANT TapWidths     \* widths the publisher asks for

ASSUME MixAssumption == TapWidths \subseteq Nat

VARIABLES
  tap_channels,   \* width of the direct-out tap, 0 is off
  tap,            \* c -> its signal in the last block, or None (nothing to take)
  bus_out         \* b -> what it published in the last block, or None

outputs == <<tap_channels, tap, bus_out>>
mixVars == <<vars, outputs>>

MixInit ==
  /\ Init
  /\ tap_channels = 0
  /\ tap = None
  /\ bus_out = [b \in Bus |-> None]
--------------------------------------------------------------------------------
(* One block of console k; x is the set of pairs whose rows mix *)

Pair == 0..((NumInputs + 1) \div 2 - 1)

\* The drained row a slot taps: only inputs have one.
Raw(k, b, s) == {k.bus[b].sources[s]} \cap Input \cap k.exists

\* The even strip owns the chain of its pair; both rows must exist to mix.
Coupled(k, x, c) ==
  IF c \div 2 \in x /\ {2 * (c \div 2), 2 * (c \div 2) + 1} \subseteq k.exists \cap Input
  THEN {2 * (c \div 2), 2 * (c \div 2) + 1} ELSE {c}

\* What a bus slot stages: the raw row, also of a muted source.
SlotRow(k, x, b, s) == Raw(k, b, s)

\* The strips the engines hear.
Unmuted(k) == k.exists \ k.engine

\* What a strip passes on.
Heard(k, c, row) == IF c \in Unmuted(k) /\ k.gain[c] > 0 THEN {c} \X row ELSE {}

\* Mutant of TapMix: the tap sits before the mute.
TapMixPreMute(k, x) == [c \in 0..(tap_channels - 1) |-> Coupled(k, x, c)]

\* The direct-out tap, of input strips only: what they pass on, before pan.
TapMix(k, x) ==
  [c \in 0..(tap_channels - 1) |->
     {m[2] : m \in Heard(k, c, Coupled(k, x, c))}]

MainMix(k, x) == UNION {Heard(k, c, Coupled(k, x, c)) : c \in k.main_assign}

\* A muted bus publishes silence.
BusMix(k, x, b) ==
  IF k.bus[b].muted \/ k.bus[b].gain = 0 THEN {}
  ELSE UNION {Heard(k, SlotStrip(b, s), SlotRow(k, x, b, s)) : s \in Slot}

MasterMix(k, x) ==
  IF k.master_gain = 0 THEN {}
  ELSE MainMix(k, x) \cup
       UNION {BusMix(k, x, b) : b \in {b \in Bus : k.bus[b].feeds_main}}
--------------------------------------------------------------------------------
(* The operations *)

Render(k, x) ==
  /\ tap' = IF tap_channels = 0 THEN tap ELSE TapMix(k, x)
  /\ bus_out' = [b \in Bus |-> BusMix(k, x, b)]
  /\ UNCHANGED tap_channels

\* process_block: the fade advances, and the block is rendered from where it is.
ProcessBlock ==
  /\ FadeBlock \/ (fade = None /\ UNCHANGED vars)
  /\ \E x \in SUBSET Pair : Render(console', x)

\* Mutant of SetChannelTap: a block of the old width stays to be taken.
SetChannelTapKeepsBlock(channels) ==
  /\ tap_channels' = IF channels > NumInputs THEN NumInputs ELSE channels
  /\ UNCHANGED <<vars, tap, bus_out>>

\* Slot strips are never tapped; what was captured under the old width is dropped.
SetChannelTap(channels) ==
  /\ tap_channels' = IF channels > NumInputs THEN NumInputs ELSE channels
  /\ tap' = None
  /\ UNCHANGED <<vars, bus_out>>

TakeChannelTap ==
  /\ tap # None
  /\ tap' = None
  /\ UNCHANGED <<vars, tap_channels, bus_out>>

TakeBusOutput(b) ==
  /\ bus_out[b] # None
  /\ bus_out' = [bus_out EXCEPT ![b] = None]
  /\ UNCHANGED <<vars, tap_channels, tap>>

MixNext ==
  \/ ProcessBlock
  \/ UserOperates /\ UNCHANGED outputs
  \/ (\E c \in Input : StreamArrives(c)) /\ UNCHANGED outputs
  \/ \E channels \in TapWidths : SetChannelTap(channels)
  \/ TakeChannelTap
  \/ \E b \in Bus : TakeBusOutput(b)

MixSpec == MixInit /\ [][MixNext]_mixVars
--------------------------------------------------------------------------------
(* Properties *)

OutputsOK ==
  /\ tap_channels \in 0..NumInputs
  /\ tap = None \/ tap \in [0..(tap_channels - 1) -> SUBSET Input]
  /\ \A b \in Bus : bus_out[b] = None \/ bus_out[b] \in SUBSET (Strip \X Input)

\* The console is well-formed, only raw inputs are mixed, and a block to be taken
\* has the tap's width.
MixTypeOK == TypeOK /\ OutputsOK

\* Where an input r may be heard but through its own strip: through the other strip
\* of its pair, which a stereo effect mixes it into, or a bus slot that taps it.
LedTo(k, r, c) ==
  \/ {c, r} \subseteq Input /\ c # r /\ c \div 2 = r \div 2
  \/ \E b \in Bus, s \in Slot : c = SlotStrip(b, s) /\ k.bus[b].sources[s] = r

\* Nothing is heard through a muted strip, in the mix, on a bus or in the tap, and
\* its input only where it was led on purpose.
HeardWhereLed(k, mixed, direct) ==
  /\ \A m \in mixed : /\ m[1] \notin k.user_muted
                      /\ m[2] \in k.user_muted => LedTo(k, m[2], m[1])
  /\ direct # None =>
       \A c \in DOMAIN direct : /\ c \in k.user_muted => direct[c] = {}
                                /\ \A r \in direct[c] \ {c} : LedTo(k, r, c)

\* "Muted strips contribute to no mix" (process_block), whoever muted them and
\* whatever was soloed, recalled or faded since.
MutedReach ==
  [][ProcessBlock =>
       /\ \A x \in SUBSET Pair : HeardWhereLed(console', MasterMix(console', x), tap')
       /\ \A b \in Bus : HeardWhereLed(console', bus_out'[b], tap')]_mixVars
================================================================================
