--------------------------- MODULE PidSessionsProofs ---------------------------
(****************************************************************************)
(* Theorems about PidSessions, for every number of sessions, PIDs, strips   *)
(* and channel counts: its types, that streams do not mix, that a session   *)
(* in use keeps its strips, that the three threads implement StripOwnership,*)
(* and that the store's picture of a session stays true.                    *)
(****************************************************************************)
EXTENDS PidSessions, FiniteSetTheorems, SequenceTheorems, TLAPS

\* What the store asks the worklet to forget belongs to a session that is over.
Timely(m) ==
  /\ m.type = "null-port" => rec[m.sid] = "gone"
  /\ m.type = "unmap-pid" => rec[m.key[1]] = "gone"

TimelyMessage == {m \in Message : Timely(m)}

Event == [key : Key, start : Strip \cup {-1}]
Pcm == [key : Key, n : ChannelCounts]

StoreOK ==
  /\ rec \in [Session -> {"new", "connecting", "live", "gone"}]
  /\ resolving \subseteq Session /\ worker \subseteq Session
  /\ pids \in [Key -> Strip \cup {-1, None}]

PortsOK ==
  /\ ctl \in Seq(TimelyMessage)
  /\ events \in Seq(Event)
  /\ direct \in [Session -> Seq(Pcm)]

WorkletOK ==
  /\ mixer \in BOOLEAN /\ open \subseteq Session
  /\ pidAlloc \in 0..MAX_MIXER_CHANNELS
  /\ pidMap \in [Key -> ChRange \cup {None}]
  /\ cappedPids \subseteq Key
  /\ wasmMap \in [Key -> ChRange \cup {None}]
  /\ elastic \subseteq Strip

IsMapped(k) == pidMap[k] # None
EndOf(k) == pidMap[k].start + pidMap[k].n

\* wasm has the mapping the worklet has.
Exact == \A k \in Key : IsMapped(k) => wasmMap[k] = pidMap[k]

\* The allocator's cursor is past every mapping,
Below == \A k \in Key : IsMapped(k) => EndOf(k) <= pidAlloc

\* and no two mappings overlap.
Apart ==
  \A j, k \in Key : j # k /\ IsMapped(j) /\ IsMapped(k)
                    => EndOf(j) <= pidMap[k].start \/ EndOf(k) <= pidMap[j].start

MapsOK == Exact /\ Below /\ Apart

IInv == StoreOK /\ PortsOK /\ WorkletOK /\ MapsOK

--------------------------------------------------------------------------------
(* The store *)

\* The elements of SetToSeq of a finite set are elements of the set.
LEMMA SetToSeqType ==
  ASSUME NEW S, IsFiniteSet(S)
  PROVE  SetToSeq(S) \in [1..Cardinality(S) -> S] /\ Cardinality(S) \in Nat
<1>1. Cardinality(S) \in Nat /\ ExistsBijection(1..Cardinality(S), S)
  BY FS_CardinalityType
<1>2. \E f \in [1..Cardinality(S) -> S] : IsInjective(f)
  BY <1>1 DEF ExistsBijection, Bijection, Injection
<1> QED
  BY <1>1, <1>2 DEF SetToSeq

LEMMA MappedFinite ==
  ASSUME NEW s \in Session
  PROVE  Mapped(s) \subseteq {s} \X Pid /\ IsFiniteSet(Mapped(s))
<1>1. Mapped(s) \subseteq {s} \X Pid
  BY DEF Mapped
<1>2. IsFiniteSet({s}) /\ IsFiniteSet(Pid)
  BY FS_Singleton, ConstantsAssumption
<1>3. IsFiniteSet({s} \X Pid)
  BY <1>2, FS_Product
<1> QED
  BY <1>1, <1>3, FS_Subset

\* The unmap messages of a teardown are about PIDs of the session.
LEMMA UnmapsType ==
  ASSUME NEW s \in Session
  PROVE  Unmaps(s) \in Seq([type : {"unmap-pid"}, key : {s} \X Pid])
<1> DEFINE q == SetToSeq(Mapped(s))
           c == Cardinality(Mapped(s))
<1>1. c \in Nat /\ q \in [1..c -> Mapped(s)]
  BY MappedFinite, SetToSeqType
<1>2. Mapped(s) \subseteq {s} \X Pid
  BY MappedFinite
<1>3. Unmaps(s) = [i \in 1..c |-> Unmap(q[i])]
  BY <1>1 DEF Unmaps
<1>4. \A i \in 1..c : Unmap(q[i]) \in [type : {"unmap-pid"}, key : {s} \X Pid]
  BY <1>1, <1>2 DEF Unmap
<1> HIDE DEF q, c
<1>5. [i \in 1..c |-> Unmap(q[i])] \in [1..c -> [type : {"unmap-pid"}, key : {s} \X Pid]]
  BY <1>4
<1> QED
  BY <1>1, <1>3, <1>5

\* A session that is over stays so, whatever the store does.
RecOnward == \A s \in Session : rec[s] = "gone" => rec'[s] = "gone"

LEMMA TimelyStays ==
  ASSUME RecOnward
  PROVE  TimelyMessage \subseteq TimelyMessage'
<1> SUFFICES ASSUME NEW m \in Message, Timely(m)
             PROVE  Timely(m)'
  BY DEF TimelyMessage
<1>1. m.type = "null-port" => m.sid \in Session
  BY DEF Message
<1>2. m.type = "unmap-pid" => m.key[1] \in Session
  BY DEF Message, Key
<1> QED
  BY <1>1, <1>2 DEF Timely, RecOnward

\* What is queued stays timely.
LEMMA CtlStaysTimely ==
  ASSUME RecOnward, ctl \in Seq(TimelyMessage)
  PROVE  ctl \in Seq(TimelyMessage')
BY TimelyStays, SeqMonotonic

LEMMA TeardownOK ==
  ASSUME IInv, NEW s \in Session, Teardown(s)
  PROVE  /\ RecOnward
         /\ rec' \in [Session -> {"new", "connecting", "live", "gone"}]
         /\ worker' \subseteq Session
         /\ pids' \in [Key -> Strip \cup {-1, None}]
         /\ ctl' \in Seq(TimelyMessage')
<1> USE DEF IInv, StoreOK, PortsOK
<1>1. RecOnward /\ rec'[s] = "gone"
  BY DEF Teardown, RecOnward
<1>2. /\ rec' \in [Session -> {"new", "connecting", "live", "gone"}]
      /\ worker' \subseteq Session
      /\ pids' \in [Key -> Strip \cup {-1, None}]
  BY DEF Teardown
<1>3. ctl \in Seq(TimelyMessage')
  BY <1>1, CtlStaysTimely
<1>4. [type : {"unmap-pid"}, key : {s} \X Pid] \subseteq TimelyMessage'
  BY <1>1 DEF TimelyMessage, Timely, Message, Key
<1>5. Unmaps(s) \in Seq(TimelyMessage')
  BY <1>4, UnmapsType, SeqMonotonic
<1>6. NullPort(s) \in TimelyMessage'
  BY <1>1 DEF TimelyMessage, Timely, Message, NullPort
<1>7. <<NullPort(s)>> \in Seq(TimelyMessage')
  BY <1>6
<1>8. ctl \o Unmaps(s) \in Seq(TimelyMessage')
  BY <1>3, <1>5, ConcatProperties
<1>9. ctl \o Unmaps(s) \o <<NullPort(s)>> \in Seq(TimelyMessage')
  BY <1>7, <1>8, ConcatProperties
<1> QED
  BY <1>1, <1>2, <1>9 DEF Teardown
--------------------------------------------------------------------------------
(* The worklet *)

LEMMA CountType ==
  /\ \A n \in Count : n \in Nat /\ n >= 1
  /\ ChRange \subseteq [start : Nat, n : Nat]
<1>1. ChannelCounts \subseteq Nat \ {0}
  BY ConstantsAssumption
<1>2. \A n \in Count : n \in Nat \ {0}
  <2>1. 1 \in Nat \ {0}
    OBVIOUS
  <2> QED
    BY <1>1, <2>1, Zenon DEF Count
<1>3. \A n \in Count : n \in Nat /\ n >= 1
  BY <1>2
<1> QED
  BY <1>3 DEF ChRange

LEMMA RangeType ==
  ASSUME NEW r \in ChRange
  PROVE  /\ r.start \in Nat /\ r.n \in Nat /\ r.n >= 1 /\ r # None
         /\ Strips(r) = r.start..(r.start + r.n - 1)
<1>1. r.start \in Nat /\ r.n \in Count
  BY DEF ChRange
<1>2. r.n \in Nat /\ r.n # 0
  BY <1>1, CountType
<1>3. r \in [start : Nat, n : Nat]
  BY CountType
<1> QED
  BY <1>1, <1>2, <1>3, NoneAssumption DEF Strips

LEMMA RangesInBounds ==
  ASSUME WorkletOK, MapsOK, NEW k \in Key, IsMapped(k)
  PROVE  /\ pidMap[k] \in ChRange /\ wasmMap[k] = pidMap[k]
         /\ EndOf(k) \in Nat
         /\ Strips(wasmMap[k]) \subseteq Strip
<1>1. pidMap[k] \in ChRange /\ wasmMap[k] = pidMap[k]
  BY DEF WorkletOK, MapsOK, Exact, IsMapped
<1>2. /\ pidMap[k].start \in Nat /\ pidMap[k].n \in Nat
      /\ Strips(pidMap[k]) = pidMap[k].start..(pidMap[k].start + pidMap[k].n - 1)
  BY <1>1, RangeType
<1>3. EndOf(k) \in Nat
  BY <1>2 DEF EndOf
<1>4. EndOf(k) <= pidAlloc
  BY DEF MapsOK, Below
<1>5. pidAlloc \in Nat /\ pidAlloc <= MAX_MIXER_CHANNELS /\ MAX_MIXER_CHANNELS \in Nat
  BY ConstantsAssumption DEF WorkletOK
<1>6. pidMap[k].start + pidMap[k].n <= MAX_MIXER_CHANNELS
  BY <1>3, <1>4, <1>5 DEF EndOf
<1> QED
  BY <1>1, <1>2, <1>3, <1>5, <1>6 DEF Strip

\* The range the allocator hands out next.
LEMMA NextRange ==
  ASSUME WorkletOK, NEW n \in Count, pidAlloc + n <= MAX_MIXER_CHANNELS,
         NEW r, r = [start |-> pidAlloc, n |-> n]
  PROVE  /\ r \in ChRange /\ r # None /\ r.start = pidAlloc /\ r.n = n
         /\ Strips(r) = pidAlloc..(pidAlloc + n - 1)
         /\ pidAlloc \in Strip /\ Strips(r) \subseteq Strip
<1>1. r \in ChRange /\ r.start = pidAlloc /\ r.n = n
  BY DEF WorkletOK, ChRange
<1>2. ChRange \subseteq [start : Nat, n : Nat]
  BY CountType
<1>3. r # None
  BY <1>1, <1>2, NoneAssumption
<1> QED
  BY <1>1, <1>3, ConstantsAssumption, CountType DEF WorkletOK, Strips, Strip

\* The part of the state that PCM and control messages write in the worklet.
FeedOK == WorkletOK /\ MapsOK /\ events \in Seq(Event)

LEMMA AutoMapOK ==
  ASSUME FeedOK, NEW k \in Key, NEW n \in Count,
         AutoMap(k, n), UNCHANGED <<mixer, open>>
  PROVE  FeedOK'
<1> DEFINE r == [start |-> pidAlloc, n |-> n]
<1>1. /\ r \in ChRange /\ r # None /\ r.start = pidAlloc /\ r.n = n
      /\ pidAlloc \in Strip /\ Strips(r) \subseteq Strip
  BY NextRange DEF FeedOK, AutoMap
<1>2. /\ pidAlloc' = pidAlloc + n /\ pidAlloc' <= MAX_MIXER_CHANNELS
      /\ pidMap' = [pidMap EXCEPT ![k] = r]
      /\ wasmMap' = [wasmMap EXCEPT ![k] = r]
      /\ elastic' = elastic \cup Strips(r)
      /\ events' = Append(events, [key |-> k, start |-> pidAlloc])
      /\ cappedPids' = cappedPids
  BY DEF AutoMap
<1> HIDE DEF r
<1>3. WorkletOK'
  <2>1. pidAlloc \in Nat /\ n \in Nat /\ MAX_MIXER_CHANNELS \in Nat
    BY ConstantsAssumption, CountType DEF FeedOK, WorkletOK
  <2>2. pidAlloc' \in 0..MAX_MIXER_CHANNELS
    BY <1>2, <2>1
  <2>3. /\ pidMap' \in [Key -> ChRange \cup {None}]
        /\ wasmMap' \in [Key -> ChRange \cup {None}]
        /\ elastic' \subseteq Strip
    BY <1>1, <1>2 DEF FeedOK, WorkletOK
  <2> QED
    BY <1>2, <2>2, <2>3 DEF FeedOK, WorkletOK
<1>4. /\ pidMap'[k] = r /\ wasmMap'[k] = r
      /\ \A j \in Key : j # k => pidMap'[j] = pidMap[j] /\ wasmMap'[j] = wasmMap[j]
  BY <1>2 DEF FeedOK, WorkletOK
<1>5. Exact'
  BY <1>4 DEF FeedOK, MapsOK, Exact, IsMapped
<1>6. EndOf(k)' = pidAlloc'
  BY <1>1, <1>2, <1>4 DEF EndOf
<1>7. \A j \in Key : j # k /\ IsMapped(j)' => IsMapped(j) /\ EndOf(j)' = EndOf(j) /\ EndOf(j) <= pidAlloc
  BY <1>4 DEF FeedOK, MapsOK, Below, IsMapped, EndOf
<1>8. \A j \in Key : IsMapped(j) => EndOf(j) \in Nat
  BY RangesInBounds DEF FeedOK
<1>9. pidAlloc \in Nat /\ n \in Nat
  BY ConstantsAssumption, CountType DEF FeedOK, WorkletOK
<1>10. Below'
  BY <1>2, <1>6, <1>7, <1>8, <1>9 DEF Below
<1>11. Apart'
  <2> SUFFICES ASSUME NEW i \in Key, NEW j \in Key, i # j, IsMapped(i)', IsMapped(j)'
               PROVE  EndOf(i)' <= pidMap'[j].start \/ EndOf(j)' <= pidMap'[i].start
    BY DEF Apart
  <2>1. CASE i = k
    BY <2>1, <1>1, <1>4, <1>7
  <2>2. CASE j = k
    BY <2>2, <1>1, <1>4, <1>7
  <2>3. CASE i # k /\ j # k
    BY <2>3, <1>4, <1>7 DEF FeedOK, MapsOK, Apart
  <2> QED
    BY <2>1, <2>2, <2>3
<1>12. events' \in Seq(Event)
  BY <1>1, <1>2 DEF FeedOK, Event
<1> QED
  BY <1>3, <1>5, <1>10, <1>11, <1>12 DEF FeedOK, MapsOK

LEMMA OnPcmOK ==
  ASSUME FeedOK, NEW k \in Key, NEW n \in Count,
         OnPcm(k, n), UNCHANGED <<mixer, open>>
  PROVE  FeedOK'
<1>1. CASE FeedMapped(k)
  <2>1. elastic' \subseteq Strip
    BY <1>1, RangesInBounds DEF FeedMapped, FeedOK, WorkletOK, IsMapped
  <2> QED
    BY <1>1, <2>1 DEF FeedMapped, FeedOK, WorkletOK, MapsOK, Exact, Below, Apart,
                      IsMapped, EndOf
<1>2. CASE AutoMap(k, n)
  BY <1>2, AutoMapOK
<1>3. CASE Cap(k, n)
  <2>1. [key |-> k, start |-> -1] \in Event
    BY DEF Event
  <2>2. events' \in Seq(Event)
    BY <1>3, <2>1 DEF Cap, FeedOK
  <2> QED
    BY <1>3, <2>2 DEF Cap, FeedOK, WorkletOK, MapsOK, Exact, Below, Apart, IsMapped,
                      EndOf, wasm
<1>4. CASE UNCHANGED <<pidAlloc, pidMap, cappedPids, wasm, events>>
  BY <1>4 DEF FeedOK, WorkletOK, MapsOK, Exact, Below, Apart, IsMapped, EndOf, wasm
<1> QED
  BY <1>1, <1>2, <1>3, <1>4 DEF OnPcm

\* Forgetting mappings keeps what the rest relies on: the allocator is rewound
\* only when nothing is left for it to protect.
LEMMA ForgettingOK ==
  ASSUME WorkletOK, MapsOK,
         pidMap' \in [Key -> ChRange \cup {None}],
         \A k \in Key : pidMap'[k] \in {pidMap[k], None},
         \A k \in Key : pidMap'[k] # None => wasmMap'[k] = wasmMap[k],
         pidAlloc' = Rewound(pidMap', pidAlloc)
  PROVE  pidAlloc' \in 0..MAX_MIXER_CHANNELS /\ MapsOK'
<1>1. pidAlloc' \in 0..MAX_MIXER_CHANNELS
  BY ConstantsAssumption DEF Rewound, WorkletOK
<1>2. \A k \in Key : IsMapped(k)' => /\ IsMapped(k) /\ pidMap'[k] = pidMap[k]
                                     /\ wasmMap'[k] = wasmMap[k]
  BY DEF IsMapped
<1>3. \A k \in Key : IsMapped(k)' => pidAlloc' = pidAlloc
  BY DEF IsMapped, Rewound
<1>4. \A k \in Key : IsMapped(k)' => EndOf(k)' = EndOf(k)
  BY <1>2 DEF EndOf
<1>5. Exact' /\ Below' /\ Apart'
  BY <1>2, <1>3, <1>4 DEF MapsOK, Exact, Below, Apart
<1> QED
  BY <1>1, <1>5 DEF MapsOK

LEMMA OnNullPortOK ==
  ASSUME FeedOK, NEW m, OnNullPort(m), UNCHANGED mixer
  PROVE  FeedOK'
<1>1. /\ pidMap' \in [Key -> ChRange \cup {None}]
      /\ \A k \in Key : pidMap'[k] \in {pidMap[k], None}
  BY DEF OnNullPort, Forget, FeedOK, WorkletOK
<1>2. wasmMap' = wasmMap /\ pidAlloc' = Rewound(pidMap', pidAlloc)
  BY DEF OnNullPort, wasm
<1>3. pidAlloc' \in 0..MAX_MIXER_CHANNELS /\ MapsOK'
  BY <1>1, <1>2, ForgettingOK DEF FeedOK
<1> QED
  BY <1>1, <1>3 DEF OnNullPort, FeedOK, WorkletOK, wasm

LEMMA OnUnmapOK ==
  ASSUME FeedOK, NEW m, OnUnmap(m), UNCHANGED mixer
  PROVE  FeedOK'
<1>1. /\ pidMap' \in [Key -> ChRange \cup {None}]
      /\ \A k \in Key : pidMap'[k] \in {pidMap[k], None}
      /\ \A k \in Key : pidMap'[k] # None => wasmMap'[k] = wasmMap[k]
  BY DEF OnUnmap, FeedOK, WorkletOK
<1>2. pidAlloc' = Rewound(pidMap', pidAlloc)
  BY DEF OnUnmap
<1>3. pidAlloc' \in 0..MAX_MIXER_CHANNELS /\ MapsOK'
  BY <1>1, <1>2, ForgettingOK DEF FeedOK
<1>4. wasmMap' \in [Key -> ChRange \cup {None}] /\ elastic' \subseteq Strip
  BY DEF OnUnmap, FeedOK, WorkletOK
<1> QED
  BY <1>1, <1>3, <1>4 DEF OnUnmap, FeedOK, WorkletOK
--------------------------------------------------------------------------------
(* The inductive invariant *)

LEMMA InitOK == Init => IInv
<1> SUFFICES ASSUME Init PROVE IInv
  OBVIOUS
<1>1. StoreOK /\ PortsOK
  BY DEF Init, StoreOK, PortsOK
<1>2. WorkletOK
  <2>1. 0 \in 0..MAX_MIXER_CHANNELS
    BY ConstantsAssumption
  <2> QED
    BY <2>1 DEF Init, WorkletOK
<1>3. MapsOK
  BY DEF Init, MapsOK, Exact, Below, Apart, IsMapped
<1> QED
  BY <1>1, <1>2, <1>3 DEF IInv

\* Steps that leave worklet and mixer core alone.
LEMMA WorkletStays ==
  ASSUME WorkletOK, MapsOK, UNCHANGED <<worklet, wasm>>
  PROVE  WorkletOK' /\ MapsOK'
BY DEF worklet, wasm, WorkletOK, MapsOK, Exact, Below, Apart, IsMapped, EndOf

LEMMA StoreStays ==
  ASSUME StoreOK, UNCHANGED store
  PROVE  StoreOK' /\ TimelyMessage' = TimelyMessage
BY DEF store, StoreOK, TimelyMessage, Timely

LEMMA PcmOK ==
  ASSUME IInv, UNCHANGED <<store, mixer, open>>,
         NEW k \in Key, NEW n \in Count, OnPcm(k, n),
         ctl' \in Seq(TimelyMessage), direct' \in [Session -> Seq(Pcm)]
  PROVE  IInv'
<1>1. FeedOK'
  BY OnPcmOK DEF IInv, FeedOK, PortsOK
<1>2. StoreOK' /\ TimelyMessage' = TimelyMessage
  BY StoreStays DEF IInv
<1> QED
  BY <1>1, <1>2 DEF IInv, FeedOK, PortsOK

LEMMA ControlOK ==
  ASSUME IInv, Control
  PROVE  IInv'
<1> DEFINE m == Head(ctl)
<1>1. /\ m \in TimelyMessage /\ ctl' = Tail(ctl) /\ ctl' \in Seq(TimelyMessage)
      /\ UNCHANGED <<store, mixer>>
  BY HeadTailProperties DEF Control, IInv, PortsOK
<1>2. StoreOK' /\ TimelyMessage' = TimelyMessage
  BY <1>1, StoreStays DEF IInv
<1>3. OnPort(m) \/ OnNullPort(m) \/ OnUnmap(m) \/ OnRelayed(m)
  BY DEF Control
<1>4. m \in Message
  BY <1>1 DEF TimelyMessage
<1>5. FeedOK
  BY DEF IInv, FeedOK, PortsOK
<1> HIDE DEF m
<1>6. CASE OnPort(m)
  <2>1. m.sid \in Session
    BY <1>4, <1>6 DEF OnPort, Message
  <2>2. WorkletOK' /\ MapsOK'
    BY <1>1, <1>6, <2>1 DEF OnPort, IInv, WorkletOK, MapsOK, Exact, Below, Apart,
                            IsMapped, EndOf, wasm
  <2> QED
    BY <1>1, <1>2, <1>6, <2>2 DEF OnPort, IInv, PortsOK
<1>7. CASE OnNullPort(m)
  <2>1. FeedOK'
    BY <1>1, <1>5, <1>7, OnNullPortOK
  <2>2. direct' \in [Session -> Seq(Pcm)]
    <3>1. <<>> \in Seq(Pcm) /\ direct \in [Session -> Seq(Pcm)]
      BY EmptySeq DEF IInv, PortsOK
    <3>2. direct' = [direct EXCEPT ![m.sid] = <<>>] \/ direct' = direct
      BY <1>7 DEF OnNullPort
    <3> QED
      BY <3>1, <3>2
  <2> QED
    BY <1>1, <1>2, <2>1, <2>2 DEF IInv, FeedOK, PortsOK
<1>8. CASE OnUnmap(m)
  <2>1. FeedOK'
    BY <1>1, <1>5, <1>8, OnUnmapOK
  <2> QED
    BY <1>1, <1>2, <1>8, <2>1 DEF OnUnmap, IInv, FeedOK, PortsOK
<1>9. CASE OnRelayed(m)
  <2>1. m.key \in Key /\ 1 \in Count
    BY <1>4, <1>9 DEF OnRelayed, Message, Count
  <2> QED
    BY <1>1, <1>9, <2>1, PcmOK DEF OnRelayed, IInv, PortsOK
<1> QED
  BY <1>3, <1>6, <1>7, <1>8, <1>9

LEMMA DirectPcmOK ==
  ASSUME IInv, NEW s \in Session, DirectPcm(s)
  PROVE  IInv'
<1> DEFINE e == Head(direct[s])
<1>1. direct[s] \in Seq(Pcm) /\ direct[s] # <<>>
  BY DEF IInv, PortsOK, DirectPcm
<1>2. e \in Pcm /\ Tail(direct[s]) \in Seq(Pcm)
  BY <1>1, HeadTailProperties
<1>3. e.key \in Key /\ e.n \in Count
  BY <1>2 DEF Pcm, Count
<1>4. direct' \in [Session -> Seq(Pcm)] /\ ctl' \in Seq(TimelyMessage)
  BY <1>2 DEF IInv, PortsOK, DirectPcm
<1>5. OnPcm(e.key, e.n) /\ UNCHANGED <<store, mixer, open>>
  BY DEF DirectPcm
<1> HIDE DEF e
<1> QED
  BY <1>3, <1>4, <1>5, PcmOK

LEMMA RecOnwardUnlessChanged ==
  ASSUME UNCHANGED rec PROVE RecOnward
BY DEF RecOnward

LEMMA ConnectOK ==
  ASSUME IInv, NEW s \in Session, Connect(s)
  PROVE  RecOnward /\ IInv'
<1>1. RecOnward
  BY DEF Connect, RecOnward, IInv, StoreOK
<1>2. StoreOK'
  BY DEF Connect, IInv, StoreOK
<1>3. WorkletOK' /\ MapsOK'
  BY WorkletStays DEF Connect, IInv
<1>4. PortsOK'
  BY <1>1, CtlStaysTimely DEF Connect, IInv, PortsOK
<1> QED
  BY <1>1, <1>2, <1>3, <1>4 DEF IInv

LEMMA ResolvedOK ==
  ASSUME IInv, NEW s \in Session, Resolved(s)
  PROVE  RecOnward /\ IInv'
<1>1. RecOnward
  BY DEF Resolved, RecOnward, IInv, StoreOK
<1>2. StoreOK'
  BY DEF Resolved, IInv, StoreOK
<1>3. WorkletOK' /\ MapsOK'
  BY WorkletStays DEF Resolved, IInv
<1>4. ctl \in Seq(TimelyMessage')
  BY <1>1, CtlStaysTimely DEF IInv, PortsOK
<1>5. Port(s) \in TimelyMessage'
  BY DEF TimelyMessage, Timely, Message, Port
<1>6. PortsOK'
  BY <1>4, <1>5 DEF Resolved, IInv, PortsOK
<1> QED
  BY <1>1, <1>2, <1>3, <1>6 DEF IInv

\* A step that is a teardown.
LEMMA TeardownStepOK ==
  ASSUME IInv, NEW s \in Session, Teardown(s), resolving' \subseteq Session,
         UNCHANGED <<events, direct, worklet, wasm>>
  PROVE  RecOnward /\ IInv'
<1>1. StoreOK' /\ ctl' \in Seq(TimelyMessage') /\ RecOnward
  BY TeardownOK DEF StoreOK
<1>2. WorkletOK' /\ MapsOK'
  BY WorkletStays DEF IInv
<1> QED
  BY <1>1, <1>2 DEF IInv, PortsOK

LEMMA ResolveFailsOK ==
  ASSUME IInv, NEW s \in Session, ResolveFails(s)
  PROVE  RecOnward /\ IInv'
<1>1. CASE Teardown(s)
  BY <1>1, TeardownStepOK DEF ResolveFails, IInv, StoreOK
<1>2. CASE UNCHANGED <<rec, ctl, worker, pids>>
  <2>1. WorkletOK' /\ MapsOK'
    BY WorkletStays DEF ResolveFails, IInv
  <2>2. StoreOK' /\ RecOnward
    BY <1>2 DEF ResolveFails, IInv, StoreOK, RecOnward
  <2>3. PortsOK'
    BY <1>2, <2>2, CtlStaysTimely DEF ResolveFails, IInv, PortsOK
  <2> QED
    BY <2>1, <2>2, <2>3 DEF IInv
<1> QED
  BY <1>1, <1>2 DEF ResolveFails

LEMMA StoreEventOK ==
  ASSUME IInv, StoreEvent
  PROVE  IInv'
<1>1. Head(events) \in Event /\ Tail(events) \in Seq(Event)
  BY HeadTailProperties DEF StoreEvent, IInv, PortsOK
<1>2. pids' \in [Key -> Strip \cup {-1, None}]
  BY <1>1 DEF StoreEvent, Upsert, Event, IInv, StoreOK
<1>3. WorkletOK' /\ MapsOK'
  BY WorkletStays DEF StoreEvent, IInv
<1>4. TimelyMessage' = TimelyMessage
  BY DEF StoreEvent, TimelyMessage, Timely
<1> QED
  BY <1>1, <1>2, <1>3, <1>4 DEF StoreEvent, IInv, StoreOK, PortsOK

LEMMA RelayPcmOK ==
  ASSUME IInv, NEW k \in Key, RelayPcm(k)
  PROVE  IInv'
<1>1. Relayed(k) \in TimelyMessage
  BY DEF Relayed, TimelyMessage, Timely, Message
<1>2. ctl' \in Seq(TimelyMessage)
  BY <1>1 DEF RelayPcm, IInv, PortsOK
<1>3. StoreOK' /\ TimelyMessage' = TimelyMessage
  BY StoreStays DEF RelayPcm, IInv
<1>4. WorkletOK' /\ MapsOK'
  BY WorkletStays DEF RelayPcm, IInv
<1> QED
  BY <1>2, <1>3, <1>4 DEF RelayPcm, IInv, PortsOK

LEMMA WorkerSendsOK ==
  ASSUME IInv, NEW k \in Key, NEW n \in ChannelCounts, WorkerSends(k, n)
  PROVE  IInv'
<1>1. [key |-> k, n |-> n] \in Pcm
  BY DEF Pcm
<1>2. direct' \in [Session -> Seq(Pcm)]
  <2> DEFINE q == Append(direct[k[1]], [key |-> k, n |-> n])
  <2>1. k[1] \in Session
    BY DEF Key
  <2>2. q \in Seq(Pcm)
    BY <1>1, <2>1 DEF IInv, PortsOK
  <2>3. direct' = [direct EXCEPT ![k[1]] = q]
    BY DEF WorkerSends
  <2> HIDE DEF q
  <2> QED
    BY <2>2, <2>3 DEF IInv, PortsOK
<1>3. StoreOK' /\ TimelyMessage' = TimelyMessage
  BY StoreStays DEF WorkerSends, IInv
<1>4. WorkletOK' /\ MapsOK'
  BY WorkletStays DEF WorkerSends, IInv
<1> QED
  BY <1>2, <1>3, <1>4 DEF WorkerSends, IInv, PortsOK

LEMMA InitWasmOK ==
  ASSUME IInv, InitWasm
  PROVE  IInv'
<1>1. StoreOK' /\ TimelyMessage' = TimelyMessage
  BY StoreStays DEF InitWasm, IInv
<1>2. WorkletOK' /\ MapsOK'
  BY DEF InitWasm, IInv, WorkletOK, MapsOK, Exact, Below, Apart, IsMapped, EndOf, wasm
<1> QED
  BY <1>1, <1>2 DEF InitWasm, IInv, PortsOK

LEMMA StutterOK ==
  ASSUME IInv, UNCHANGED vars
  PROVE  IInv'
<1>1. StoreOK' /\ TimelyMessage' = TimelyMessage
  BY StoreStays DEF vars, IInv
<1>2. WorkletOK' /\ MapsOK'
  BY WorkletStays DEF vars, IInv
<1> QED
  BY <1>1, <1>2 DEF vars, IInv, PortsOK

LEMMA NextOK ==
  ASSUME IInv, [Next]_vars
  PROVE  IInv'
<1>1. ASSUME NEW s \in Session, Disconnect(s) \/ WtClosed(s)
      PROVE  IInv'
  <2>1. Teardown(s) /\ UNCHANGED <<resolving, events, direct, worklet, wasm>>
    BY <1>1 DEF Disconnect, WtClosed
  <2>2. resolving' \subseteq Session
    BY <2>1 DEF IInv, StoreOK
  <2> QED
    BY <2>1, <2>2, TeardownStepOK
<1> QED
  BY <1>1, ConnectOK, ResolvedOK, ResolveFailsOK, DirectPcmOK, RelayPcmOK,
     WorkerSendsOK, StoreEventOK, ControlOK, InitWasmOK, StutterOK DEF Next

\* The invariant that carries all of this module.
THEOREM InductiveInvariant == Spec => []IInv
BY InitOK, NextOK, PTL DEF Spec

--------------------------------------------------------------------------------
(* Theorems *)

\* Every variable has its type in every reachable state: no PID is mapped past
\* the last strip, the store hears of existing strips only, and every queued
\* message is one the handlers of the three threads know.
THEOREM SessionsTypeCorrect == Spec => []TypeOK
<1>1. IInv => TypeOK
  <2> SUFFICES ASSUME IInv PROVE TypeOK
    OBVIOUS
  <2>1. TimelyMessage \subseteq Message
    BY DEF TimelyMessage
  <2>2. ctl \in Seq(Message)
    BY <2>1, SeqMonotonic DEF IInv, PortsOK
  <2> QED
    BY <2>2 DEF IInv, StoreOK, PortsOK, WorkletOK, TypeOK, Event, Pcm
<1> QED
  BY <1>1, InductiveInvariant, PTL

LEMMA PlayingApart ==
  ASSUME WorkletOK, MapsOK, NEW j \in Key, NEW k \in Key, j # k,
         IsMapped(j), IsMapped(k)
  PROVE  Strips(wasmMap[j]) \cap Strips(wasmMap[k]) = {}
<1>1. /\ pidMap[j] \in ChRange /\ wasmMap[j] = pidMap[j]
      /\ pidMap[k] \in ChRange /\ wasmMap[k] = pidMap[k]
  BY RangesInBounds
<1>2. EndOf(j) <= pidMap[k].start \/ EndOf(k) <= pidMap[j].start
  BY DEF MapsOK, Apart
<1>3. ASSUME NEW i \in Key, IsMapped(i), pidMap[i] \in ChRange
      PROVE  /\ Strips(pidMap[i]) = pidMap[i].start..(EndOf(i) - 1)
             /\ pidMap[i].start \in Nat /\ EndOf(i) \in Nat
  <2>1. /\ pidMap[i].start \in Nat /\ pidMap[i].n \in Nat
        /\ Strips(pidMap[i]) = pidMap[i].start..(pidMap[i].start + pidMap[i].n - 1)
    BY <1>3, RangeType
  <2> QED
    BY <2>1 DEF EndOf
<1> QED
  BY <1>1, <1>2, <1>3

\* Two streams that are being fed never meet on a strip, for any number of
\* sessions that come and go in any order.
THEOREM StreamsNeverMix == Spec => []StreamsDontMix
<1>1. IInv => StreamsDontMix
  BY PlayingApart DEF IInv, StreamsDontMix, IsMapped
<1> QED
  BY <1>1, InductiveInvariant, PTL
--------------------------------------------------------------------------------
(* PidSessions implements StripOwnership *)

\* A step of the worklet that forgets mappings forgets those of sessions that
\* are over.
OnlyGoneForgotten ==
  /\ \A k \in Key : pidMap'[k] \in {pidMap[k], None}
  /\ \A k \in Key : pidMap'[k] # None => wasmMap'[k] = wasmMap[k]
  /\ \A k \in Key : pidMap'[k] # pidMap[k] => rec[k[1]] = "gone"

LEMMA ForgettingReleases ==
  ASSUME OnlyGoneForgotten, UNCHANGED rec
  PROVE  Ownership!Release
<1> DEFINE K == {k \in Key : pidMap'[k] # pidMap[k]}
<1>1. K \in SUBSET {k \in Key : rec[k[1]] = "gone"}
  BY DEF OnlyGoneForgotten
<1>2. \A k \in Key : Playing(k)' = IF k \in K THEN {} ELSE Playing(k)
  BY DEF OnlyGoneForgotten, Playing
<1>3. [k \in Key |-> Playing(k)]'
        = [k \in Key |-> IF k \in K THEN {} ELSE [j \in Key |-> Playing(j)][k]]
  BY <1>2
<1>4. UNCHANGED {k \in Key : rec[k[1]] = "gone"}
  OBVIOUS
<1> HIDE DEF K
<1> QED
  BY <1>1, <1>3, <1>4 DEF Ownership!Release

LEMMA AutoMapClaims ==
  ASSUME FeedOK, NEW k \in Key, NEW n \in Count, AutoMap(k, n), UNCHANGED rec
  PROVE  Ownership!Claim(k)
<1> DEFINE r == [start |-> pidAlloc, n |-> n]
           S == Strips(r)
           play == [j \in Key |-> Playing(j)]
<1>1. /\ pidMap[k] = None /\ pidAlloc + n <= MAX_MIXER_CHANNELS
      /\ pidMap' = [pidMap EXCEPT ![k] = r]
      /\ wasmMap' = [wasmMap EXCEPT ![k] = r]
  BY DEF AutoMap
<1>2. S = pidAlloc..(pidAlloc + n - 1) /\ S \subseteq Strip /\ r # None
  BY <1>1, NextRange DEF FeedOK
<1>3. pidAlloc \in Nat /\ n \in Nat /\ n >= 1
  BY ConstantsAssumption, CountType DEF FeedOK, WorkletOK
<1>4. S # {}
  <2>1. pidAlloc \in pidAlloc..(pidAlloc + n - 1)
    BY <1>3
  <2> QED
    BY <1>2, <2>1
<1>5. \A j \in Key : Playing(j) \cap S = {}
  <2> SUFFICES ASSUME NEW j \in Key, IsMapped(j)
               PROVE  Strips(wasmMap[j]) \cap S = {}
    BY DEF Playing, IsMapped
  <2>1. /\ pidMap[j] \in ChRange /\ wasmMap[j] = pidMap[j]
        /\ EndOf(j) \in Nat /\ EndOf(j) <= pidAlloc
    BY RangesInBounds DEF FeedOK, MapsOK, Below
  <2>2. Strips(wasmMap[j]) = pidMap[j].start..(EndOf(j) - 1) /\ pidMap[j].start \in Nat
    BY <2>1, RangeType DEF EndOf
  <2> QED
    BY <1>2, <1>3, <2>1, <2>2
<1>6. S \in (SUBSET (Strip \ UNION {play[j] : j \in Key})) \ {{}}
  BY <1>2, <1>4, <1>5
<1>7. Playing(k)' = S /\ \A j \in Key : j # k => Playing(j)' = Playing(j)
  BY <1>1, <1>2 DEF Playing, FeedOK, WorkletOK
<1>8. play' = [play EXCEPT ![k] = S]
  BY <1>7
<1>9. play[k] = {}
  BY <1>1 DEF Playing
<1>10. UNCHANGED {j \in Key : rec[j[1]] = "gone"}
  OBVIOUS
<1>11. S \in (SUBSET Ownership!Free) \ {{}}
  BY <1>6 DEF Ownership!Free
<1> QED
  BY <1>8, <1>9, <1>10, <1>11 DEF Ownership!Claim

\* What a step can do to the mappings: give a new one to an unmapped PID, or
\* take some from sessions that are over.
MapStep ==
  \/ \E k \in Key, n \in Count : AutoMap(k, n)
  \/ OnlyGoneForgotten

LEMMA OnPcmMaps ==
  ASSUME NEW k \in Key, NEW n \in Count, OnPcm(k, n)
  PROVE  MapStep
BY DEF OnPcm, FeedMapped, Cap, wasm, MapStep, OnlyGoneForgotten

LEMMA WorkletStepMaps ==
  ASSUME IInv,
         Control \/ InitWasm \/ \E s \in Session : DirectPcm(s)
  PROVE  MapStep /\ UNCHANGED rec
<1>1. CASE Control
  <2> DEFINE m == Head(ctl)
  <2>1. m \in Message /\ Timely(m)
    BY <1>1, HeadTailProperties DEF Control, IInv, PortsOK, TimelyMessage
  <2>2. UNCHANGED rec /\ (OnPort(m) \/ OnNullPort(m) \/ OnUnmap(m) \/ OnRelayed(m))
    BY <1>1 DEF Control, store
  <2> HIDE DEF m
  <2>3. CASE OnPort(m)
    <3>1. OnlyGoneForgotten
      BY <2>3 DEF OnPort, wasm, OnlyGoneForgotten
    <3> QED
      BY <2>2, <3>1 DEF MapStep
  <2>4. CASE OnNullPort(m)
    <3>1. rec[m.sid] = "gone"
      BY <2>1, <2>4 DEF OnNullPort, Timely
    <3>2. \A k \in Key : pidMap'[k] = IF k[1] = m.sid THEN None ELSE pidMap[k]
      BY <2>4 DEF OnNullPort, Forget
    <3>3. wasmMap' = wasmMap
      BY <2>4 DEF OnNullPort, wasm
    <3>4. OnlyGoneForgotten
      BY <3>1, <3>2, <3>3 DEF OnlyGoneForgotten
    <3> QED
      BY <2>2, <3>4 DEF MapStep
  <2>5. CASE OnUnmap(m)
    <3>1. rec[m.key[1]] = "gone"
      BY <2>1, <2>5 DEF OnUnmap, Timely
    <3>2. pidMap \in [Key -> ChRange \cup {None}] /\ wasmMap \in [Key -> ChRange \cup {None}]
      BY DEF IInv, WorkletOK
    <3>3. OnlyGoneForgotten
      BY <2>5, <3>1, <3>2 DEF OnUnmap, OnlyGoneForgotten
    <3> QED
      BY <2>2, <3>3 DEF MapStep
  <2>6. CASE OnRelayed(m)
    <3>1. m.key \in Key /\ 1 \in Count
      BY <2>1, <2>6 DEF OnRelayed, Message, Count
    <3>2. MapStep
      BY <2>6, <3>1, OnPcmMaps DEF OnRelayed
    <3> QED
      BY <2>2, <3>2
  <2> QED
    BY <2>2, <2>3, <2>4, <2>5, <2>6
<1>2. CASE InitWasm
  BY <1>2 DEF InitWasm, store, wasm, MapStep, OnlyGoneForgotten
<1>3. ASSUME NEW s \in Session, DirectPcm(s)
      PROVE  MapStep /\ UNCHANGED rec
  <2>1. Head(direct[s]) \in Pcm
    BY <1>3, HeadTailProperties DEF DirectPcm, IInv, PortsOK
  <2> QED
    BY <1>3, <2>1, OnPcmMaps DEF DirectPcm, store, Pcm, Count
<1> QED
  BY <1>1, <1>2, <1>3

LEMMA StoreStepMaps ==
  ASSUME IInv,
         \/ \E s \in Session : \/ Connect(s) \/ Resolved(s) \/ ResolveFails(s)
                               \/ Disconnect(s) \/ WtClosed(s)
         \/ \E k \in Key : RelayPcm(k) \/ \E n \in ChannelCounts : WorkerSends(k, n)
         \/ StoreEvent \/ UNCHANGED vars
  PROVE  RecOnward /\ UNCHANGED <<worklet, wasm>>
<1>1. ASSUME NEW s \in Session, Disconnect(s) \/ WtClosed(s)
      PROVE  RecOnward /\ UNCHANGED <<worklet, wasm>>
  BY <1>1, TeardownOK DEF Disconnect, WtClosed
<1>2. ASSUME NEW s \in Session, Connect(s) \/ Resolved(s) \/ ResolveFails(s)
      PROVE  RecOnward /\ UNCHANGED <<worklet, wasm>>
  BY <1>2, ConnectOK, ResolvedOK, ResolveFailsOK DEF Connect, Resolved, ResolveFails
<1>3. ASSUME NEW k \in Key, RelayPcm(k) \/ \E n \in ChannelCounts : WorkerSends(k, n)
      PROVE  RecOnward /\ UNCHANGED <<worklet, wasm>>
  BY <1>3 DEF RelayPcm, WorkerSends, store, RecOnward
<1>4. CASE StoreEvent
  BY <1>4 DEF StoreEvent, RecOnward
<1>5. CASE UNCHANGED vars
  BY <1>5 DEF vars, store, RecOnward
<1> QED
  BY <1>1, <1>2, <1>3, <1>4, <1>5

LEMMA StepMaps ==
  ASSUME IInv, [Next]_vars
  PROVE  \/ MapStep /\ UNCHANGED rec
         \/ RecOnward /\ UNCHANGED <<worklet, wasm>>
BY WorkletStepMaps, StoreStepMaps DEF Next

\* Sessions end, and nothing else happens to the strips.
LEMMA StoreStepEnds ==
  ASSUME RecOnward, UNCHANGED <<worklet, wasm>>
  PROVE  Ownership!End
<1>1. \A k \in Key : k[1] \in Session
  BY DEF Key
<1>2. /\ {k \in Key : rec[k[1]] = "gone"}' \in SUBSET Key
      /\ {k \in Key : rec[k[1]] = "gone"} \subseteq {k \in Key : rec[k[1]] = "gone"}'
  BY <1>1 DEF RecOnward
<1>3. UNCHANGED [k \in Key |-> Playing(k)]
  BY DEF worklet, wasm, Playing
<1> QED
  BY <1>2, <1>3 DEF Ownership!End

\* Store, worklet and mixer core together implement StripOwnership: whatever the
\* order of their messages, a stream gets free strips of the mixer, keeps them
\* while its session lasts, and shares them with nobody.
THEOREM ImplementsOwnership == Spec => OwnsStrips
<1>1. Init => Ownership!Init
  <2> SUFFICES ASSUME Init PROVE Ownership!Init
    OBVIOUS
  <2>1. \A k \in Key : Playing(k) = {}
    BY DEF Init, Playing
  <2>2. \A k \in Key : rec[k[1]] # "gone"
    BY DEF Init, Key
  <2> QED
    BY <2>1, <2>2 DEF Ownership!Init
<1>2. ASSUME IInv, [Next]_vars
      PROVE  [Ownership!Next]_(Ownership!vars)
  <2>1. ASSUME NEW k \in Key, NEW n \in Count, AutoMap(k, n), UNCHANGED rec
        PROVE  Ownership!Claim(k)
    BY <1>2, <2>1, AutoMapClaims DEF IInv, FeedOK, PortsOK
  <2>2. CASE MapStep /\ UNCHANGED rec
    BY <2>1, <2>2, ForgettingReleases DEF MapStep, Ownership!Next
  <2>3. CASE RecOnward /\ UNCHANGED <<worklet, wasm>>
    BY <2>3, StoreStepEnds DEF Ownership!Next
  <2> QED
    BY <1>2, <2>2, <2>3, StepMaps
<1> QED
  BY <1>1, <1>2, InductiveInvariant, PTL DEF Spec, OwnsStrips, Ownership!Spec

\* A session that is not torn down keeps the strips of its PIDs, whatever other
\* sessions do and however often the allocator starts over.
THEOREM LiveSessionsKeep == Spec => LiveSessionsKeepStrips
<1>1. ASSUME IInv, [Next]_vars
      PROVE  \A k \in Key : pidMap[k] # None /\ rec[k[1]] # "gone"
                            => pidMap'[k] = pidMap[k]
  <2>1. CASE MapStep
    BY <1>1, <2>1 DEF MapStep, AutoMap, OnlyGoneForgotten, IInv, WorkletOK
  <2>2. CASE UNCHANGED <<worklet, wasm>>
    BY <2>2 DEF worklet
  <2> QED
    BY <1>1, <2>1, <2>2, StepMaps
<1> QED
  BY <1>1, InductiveInvariant, PTL DEF Spec, LiveSessionsKeepStrips
--------------------------------------------------------------------------------
(* What the store hears *)

\* Only a session that was connected leaves traces, in the queues, the worklet or
\* the store.
Begun(s) == rec[s] # "new"

TracesOK ==
  /\ \A s \in resolving \cup worker : Begun(s)
  /\ \A k \in Key : pidMap[k] # None \/ k \in cappedPids \/ pids[k] # None => Begun(k[1])

BegunMessage == {m \in Message : m.type = "pcm" => Begun(m.key[1])}
BegunEvent == {e \in Event : Begun(e.key[1])}
BegunPcm == {x \in Pcm : Begun(x.key[1])}

QueuesOK ==
  /\ ctl \in Seq(BegunMessage)
  /\ events \in Seq(BegunEvent)
  /\ direct \in [Session -> Seq(BegunPcm)]

\* The last the store heard, or will hear, of k is v.
Heard(k, v) ==
  /\ \A i \in 1..Len(events) :
       events[i].key = k /\ (\A j \in 1..Len(events) : j > i => events[j].key # k)
       => events[i].start = v
  /\ (\A i \in 1..Len(events) : events[i].key # k) => pids[k] = v

\* The reports under way bring the store to what the worklet has.
HeardOK == \A k \in Key : HasRecord(k[1]) => Heard(k, Reported(k))

HInv == IInv /\ TracesOK /\ QueuesOK /\ HeardOK

\* A session stays begun, and so does what its traces are about.
BegunOnward == \A s \in Session : Begun(s) => Begun(s)'

LEMMA QueuesStay ==
  ASSUME BegunOnward, QueuesOK
  PROVE  /\ ctl \in Seq(BegunMessage') /\ events \in Seq(BegunEvent')
         /\ direct \in [Session -> Seq(BegunPcm')]
<1>1. \A m \in Message : m.type = "pcm" => m.key[1] \in Session
  BY DEF Message, Key
<1>2. \A e \in Event : e.key[1] \in Session
  BY DEF Event, Key
<1>3. \A x \in Pcm : x.key[1] \in Session
  BY DEF Pcm, Key
<1>4. /\ BegunMessage \subseteq BegunMessage' /\ BegunEvent \subseteq BegunEvent'
      /\ BegunPcm \subseteq BegunPcm'
  BY <1>1, <1>2, <1>3 DEF BegunMessage, BegunEvent, BegunPcm, BegunOnward
<1>5. Seq(BegunPcm) \subseteq Seq(BegunPcm')
  BY <1>4, SeqMonotonic
<1> QED BY <1>4, <1>5, SeqMonotonic DEF QueuesOK

\* A message that is no PCM needs no session that has begun.
LEMMA OtherMessages ==
  /\ \A s \in Session : Port(s) \in BegunMessage /\ NullPort(s) \in BegunMessage
  /\ \A s \in Session : Unmaps(s) \in Seq(BegunMessage)
<1>1. \A s \in Session : Port(s) \in BegunMessage /\ NullPort(s) \in BegunMessage
  BY DEF BegunMessage, Message, Port, NullPort
<1>2. ASSUME NEW s \in Session PROVE Unmaps(s) \in Seq(BegunMessage)
  <2>1. [type : {"unmap-pid"}, key : {s} \X Pid] \subseteq BegunMessage
    BY DEF BegunMessage, Message, Key
  <2> QED BY <2>1, UnmapsType, SeqMonotonic
<1> QED BY <1>1, <1>2

LEMMA TeardownTraces ==
  ASSUME HInv, NEW s \in Session, HasRecord(s), Teardown(s), resolving' \subseteq resolving,
         UNCHANGED <<events, direct, worklet, wasm>>
  PROVE  TracesOK' /\ QueuesOK'
<1> USE DEF HInv, IInv, StoreOK
<1>1. rec' = [rec EXCEPT ![s] = "gone"]
  BY DEF Teardown
<1>2. BegunOnward
  BY <1>1 DEF BegunOnward, Begun
<1>3. \A k \in Key : k[1] \in Session
  BY DEF Key
<1>4. TracesOK'
  BY <1>2, <1>3 DEF Teardown, TracesOK, BegunOnward, worklet
<1>5. /\ ctl \in Seq(BegunMessage') /\ events \in Seq(BegunEvent')
      /\ direct \in [Session -> Seq(BegunPcm')]
  BY <1>2, QueuesStay
<1>6. NullPort(s) \in BegunMessage' /\ Unmaps(s) \in Seq(BegunMessage')
  <2>1. BegunMessage \subseteq BegunMessage'
    <3>1. \A m \in Message : m.type = "pcm" => m.key[1] \in Session
      BY DEF Message, Key
    <3> QED BY <1>2, <3>1 DEF BegunMessage, BegunOnward
  <2> QED BY <2>1, OtherMessages, SeqMonotonic
<1>7. <<NullPort(s)>> \in Seq(BegunMessage')
  BY <1>6
<1>8. ctl \o Unmaps(s) \in Seq(BegunMessage')
  BY <1>5, <1>6, ConcatProperties
<1>9. ctl \o Unmaps(s) \o <<NullPort(s)>> \in Seq(BegunMessage')
  BY <1>7, <1>8, ConcatProperties
<1> QED BY <1>4, <1>5, <1>9 DEF Teardown, QueuesOK

LEMMA ConnectTraces ==
  ASSUME HInv, NEW s \in Session, Connect(s) \/ Resolved(s)
  PROVE  TracesOK' /\ QueuesOK'
<1> USE DEF HInv, IInv, StoreOK
<1>1. BegunOnward
  BY DEF BegunOnward, Begun, Connect, Resolved
<1>2. \A k \in Key : k[1] \in Session
  BY DEF Key
<1>3. Begun(s)'
  BY DEF Begun, Connect, Resolved, TracesOK
<1>4. TracesOK'
  BY <1>1, <1>2, <1>3 DEF Connect, Resolved, TracesOK, BegunOnward, worklet
<1>5. /\ ctl \in Seq(BegunMessage') /\ events \in Seq(BegunEvent')
      /\ direct \in [Session -> Seq(BegunPcm')]
  BY <1>1, QueuesStay
<1>6. Port(s) \in BegunMessage'
  BY DEF BegunMessage, Message, Port
<1>7. ctl' \in Seq(BegunMessage')
  <2>1. CASE Connect(s)
    BY <1>5, <2>1 DEF Connect
  <2>2. CASE Resolved(s)
    BY <1>5, <1>6, <2>2, AppendProperties DEF Resolved
  <2> QED BY <2>1, <2>2
<1>8. events' = events /\ direct' = direct
  BY DEF Connect, Resolved
<1> QED BY <1>4, <1>5, <1>7, <1>8 DEF QueuesOK

\* Steps after which every session is where it was.
LEMMA StoreTraces ==
  ASSUME HInv,
         \/ StoreEvent \/ InitWasm \/ UNCHANGED vars
         \/ \E k \in Key : RelayPcm(k) \/ \E n \in ChannelCounts : WorkerSends(k, n)
         \/ \E s \in Session : ResolveFails(s) /\ ~HasRecord(s)
  PROVE  TracesOK' /\ QueuesOK'
<1> USE DEF HInv, IInv, StoreOK
<1>1. CASE StoreEvent
  <2>1. Head(events) \in BegunEvent /\ Tail(events) \in Seq(BegunEvent)
    BY <1>1, HeadTailProperties DEF StoreEvent, QueuesOK
  <2>2. Head(events).key \in Key /\ Begun(Head(events).key[1])
    BY <2>1 DEF BegunEvent, Event
  <2>3. TracesOK'
    BY <1>1, <2>2 DEF StoreEvent, Upsert, TracesOK, Begun, worklet
  <2> QED BY <1>1, <2>1, <2>3
        DEF StoreEvent, QueuesOK, BegunEvent, BegunMessage, BegunPcm, Begun
<1>2. ASSUME NEW k \in Key, RelayPcm(k)
      PROVE  TracesOK' /\ QueuesOK'
  <2>1. Relayed(k) \in BegunMessage
    BY <1>2 DEF RelayPcm, Relayed, BegunMessage, Message, Begun
  <2>2. ctl' \in Seq(BegunMessage)
    BY <1>2, <2>1 DEF RelayPcm, QueuesOK
  <2> QED BY <1>2, <2>2
        DEF RelayPcm, TracesOK, QueuesOK, BegunEvent, BegunMessage, BegunPcm, Begun,
            store, worklet
<1>3. ASSUME NEW k \in Key, NEW n \in ChannelCounts, WorkerSends(k, n)
      PROVE  TracesOK' /\ QueuesOK'
  <2> DEFINE q == Append(direct[k[1]], [key |-> k, n |-> n])
  <2>1. k[1] \in Session
    BY DEF Key
  <2>2. [key |-> k, n |-> n] \in BegunPcm
    BY <1>3, <2>1 DEF WorkerSends, BegunPcm, Pcm, TracesOK
  <2>3. q \in Seq(BegunPcm)
    BY <2>1, <2>2 DEF QueuesOK
  <2>4. direct' = [direct EXCEPT ![k[1]] = q]
    BY <1>3 DEF WorkerSends
  <2> HIDE DEF q
  <2>5. direct' \in [Session -> Seq(BegunPcm)]
    BY <2>3, <2>4 DEF QueuesOK
  <2> QED BY <1>3, <2>5
        DEF WorkerSends, TracesOK, QueuesOK, BegunEvent, BegunMessage, BegunPcm, Begun,
            store, worklet
<1>4. CASE \E s \in Session : ResolveFails(s) /\ ~HasRecord(s)
  BY <1>4 DEF ResolveFails, TracesOK, QueuesOK, BegunEvent, BegunMessage, BegunPcm, Begun,
              worklet
<1>5. CASE InitWasm \/ UNCHANGED vars
  BY <1>5 DEF InitWasm, vars, TracesOK, QueuesOK, BegunEvent, BegunMessage, BegunPcm,
              Begun, store, worklet
<1> QED BY <1>1, <1>2, <1>3, <1>4, <1>5

\* Handled PCM maps or caps a PID of its own session only.
LEMMA OnPcmTraces ==
  ASSUME HInv, NEW k \in Key, NEW n \in Count, OnPcm(k, n), Begun(k[1]),
         UNCHANGED store
  PROVE  TracesOK' /\ events' \in Seq(BegunEvent)
<1> USE DEF HInv, IInv, StoreOK, WorkletOK
<1>1. events' \in Seq(BegunEvent)
  <2>1. CASE AutoMap(k, n)
    <3>1. pidAlloc \in Strip
      BY <2>1, NextRange DEF AutoMap
    <3>2. [key |-> k, start |-> pidAlloc] \in BegunEvent
      BY <3>1 DEF BegunEvent, Event
    <3> QED BY <2>1, <3>2 DEF AutoMap, QueuesOK
  <2>2. CASE Cap(k, n)
    <3>1. [key |-> k, start |-> -1] \in BegunEvent
      BY DEF BegunEvent, Event
    <3> QED BY <2>2, <3>1 DEF Cap, QueuesOK
  <2> QED BY <2>1, <2>2 DEF OnPcm, FeedMapped, QueuesOK
<1>2. TracesOK'
  BY DEF OnPcm, FeedMapped, AutoMap, Cap, TracesOK, Begun, store
<1> QED BY <1>1, <1>2

LEMMA WorkletTraces ==
  ASSUME HInv, Control \/ \E s \in Session : DirectPcm(s)
  PROVE  TracesOK' /\ QueuesOK'
<1> USE DEF HInv, IInv, StoreOK, WorkletOK
<1>1. CASE Control
  <2> DEFINE m == Head(ctl)
  <2>1. m \in BegunMessage /\ ctl' \in Seq(BegunMessage) /\ UNCHANGED store
    BY <1>1, HeadTailProperties DEF Control, QueuesOK
  <2>2. OnPort(m) \/ OnNullPort(m) \/ OnUnmap(m) \/ OnRelayed(m)
    BY <1>1 DEF Control
  <2>3. /\ BegunMessage' = BegunMessage /\ BegunEvent' = BegunEvent
        /\ BegunPcm' = BegunPcm
    BY <2>1 DEF store, BegunMessage, BegunEvent, BegunPcm, Begun
  <2> HIDE DEF m
  <2>4. CASE OnPort(m) \/ OnNullPort(m) \/ OnUnmap(m)
    <3>1. TracesOK'
      BY <2>1, <2>4 DEF OnPort, OnNullPort, OnUnmap, Forget, TracesOK, Begun, store
    <3>2. events' = events
      BY <2>4 DEF OnPort, OnNullPort, OnUnmap
    <3>3. direct' \in [Session -> Seq(BegunPcm)]
      <4>1. \/ direct' = direct
            \/ direct' = [direct EXCEPT ![m.sid] = <<>>]
        BY <2>4 DEF OnPort, OnNullPort, OnUnmap
      <4>2. <<>> \in Seq(BegunPcm)
        BY EmptySeq
      <4> QED BY <4>1, <4>2 DEF QueuesOK
    <3> QED BY <2>1, <2>3, <3>1, <3>2, <3>3 DEF QueuesOK
  <2>5. CASE OnRelayed(m)
    <3>1. m.key \in Key /\ 1 \in Count /\ Begun(m.key[1])
      BY <2>1, <2>5 DEF OnRelayed, BegunMessage, Message, Count
    <3>2. TracesOK' /\ events' \in Seq(BegunEvent)
      BY <2>1, <2>5, <3>1, OnPcmTraces DEF OnRelayed
    <3> QED BY <2>1, <2>3, <2>5, <3>2 DEF OnRelayed, QueuesOK
  <2> QED BY <2>2, <2>4, <2>5
<1>2. ASSUME NEW s \in Session, DirectPcm(s) PROVE TracesOK' /\ QueuesOK'
  <2> DEFINE x == Head(direct[s])
  <2>1. x \in BegunPcm /\ Tail(direct[s]) \in Seq(BegunPcm)
    BY <1>2, HeadTailProperties DEF DirectPcm, QueuesOK
  <2>2. x.key \in Key /\ x.n \in Count /\ Begun(x.key[1])
    BY <2>1 DEF BegunPcm, Pcm, Count
  <2>3. OnPcm(x.key, x.n) /\ UNCHANGED <<store, ctl>>
    BY <1>2 DEF DirectPcm
  <2>4. direct' \in [Session -> Seq(BegunPcm)]
    BY <1>2, <2>1 DEF DirectPcm, QueuesOK
  <2> HIDE DEF x
  <2>5. TracesOK' /\ events' \in Seq(BegunEvent)
    BY <2>2, <2>3, OnPcmTraces
  <2> QED BY <2>3, <2>4, <2>5
        DEF QueuesOK, store, BegunMessage, BegunEvent, BegunPcm, Begun
<1> QED BY <1>1, <1>2

\* What was to be heard of k still is.
LEMMA HeardStays ==
  ASSUME NEW k \in Key, NEW v, Heard(k, v), UNCHANGED events, pids'[k] = pids[k]
  PROVE  Heard(k, v)'
BY DEF Heard

\* Steps that leave the worklet and what it reports alone, and for the sessions
\* that go on, what the store has heard.
LEMMA HeardFrame ==
  ASSUME HInv, UNCHANGED <<events, worklet>>,
         \A k \in Key : HasRecord(k[1])' => HasRecord(k[1]) /\ pids'[k] = pids[k]
  PROVE  HeardOK'
<1> SUFFICES ASSUME NEW k \in Key, HasRecord(k[1])'
             PROVE  Heard(k, Reported(k))'
  BY DEF HeardOK
<1>1. HasRecord(k[1]) /\ pids'[k] = pids[k] /\ Heard(k, Reported(k))
  BY DEF HInv, HeardOK
<1>2. Reported(k)' = Reported(k)
  BY DEF Reported, worklet
<1> QED BY <1>1, <1>2, HeardStays DEF Heard

LEMMA HeardStore ==
  ASSUME HInv, NEW s \in Session,
         \/ Connect(s) \/ Resolved(s) \/ ResolveFails(s) \/ Disconnect(s) \/ WtClosed(s)
  PROVE  HeardOK'
<1> USE DEF HInv, IInv, StoreOK
<1>1. CASE Connect(s)
  <2>1. UNCHANGED <<events, worklet>> /\ pids' = pids
    BY <1>1 DEF Connect
  <2>2. ASSUME NEW k \in Key, k[1] = s
        PROVE  Heard(k, Reported(k))'
    <3>1. pidMap[k] = None /\ k \notin cappedPids /\ pids[k] = None
      BY <1>1, <2>2 DEF Connect, TracesOK, Begun
    <3>2. Reported(k)' = None /\ pids'[k] = None
      BY <2>1, <3>1 DEF Reported, worklet
    <3>3. \A i \in 1..Len(events) : events[i].key # k
      <4> SUFFICES ASSUME NEW i \in 1..Len(events) PROVE events[i].key # k
        OBVIOUS
      <4>1. events[i] \in BegunEvent
        BY ElementOfSeq DEF QueuesOK
      <4> QED BY <1>1, <2>2, <4>1 DEF Connect, BegunEvent, Begun
    <3> QED BY <2>1, <3>2, <3>3 DEF Heard
  <2>3. ASSUME NEW k \in Key, k[1] # s, HasRecord(k[1])'
        PROVE  Heard(k, Reported(k))'
    <3>1. k[1] \in Session
      BY DEF Key
    <3>2. HasRecord(k[1]) /\ Heard(k, Reported(k))
      BY <1>1, <2>3, <3>1 DEF Connect, HasRecord, HeardOK
    <3>3. Reported(k)' = Reported(k)
      BY <2>1 DEF Reported, worklet
    <3> QED BY <2>1, <3>2, <3>3 DEF Heard
  <2> QED BY <2>2, <2>3 DEF HeardOK
<1>2. \A k \in Key : k[1] \in Session
  BY DEF Key
<1>3. CASE Resolved(s)
  <2>1. \A k \in Key : HasRecord(k[1])' => HasRecord(k[1])
    BY <1>2, <1>3 DEF Resolved, HasRecord
  <2> QED BY <1>3, <2>1, HeardFrame DEF Resolved
<1>4. CASE Teardown(s) /\ UNCHANGED <<events, worklet>>
  <2>1. \A k \in Key : HasRecord(k[1])' => HasRecord(k[1]) /\ pids'[k] = pids[k]
    BY <1>2, <1>4 DEF Teardown, HasRecord
  <2> QED BY <1>4, <2>1, HeardFrame
<1>5. CASE ResolveFails(s)
  <2>1. CASE UNCHANGED <<rec, ctl, worker, pids>>
    BY <1>5, <2>1, HeardFrame DEF ResolveFails, HasRecord
  <2> QED BY <1>4, <1>5, <2>1 DEF ResolveFails
<1>6. CASE Disconnect(s) \/ WtClosed(s)
  BY <1>4, <1>6 DEF Disconnect, WtClosed
<1> QED BY <1>1, <1>3, <1>5, <1>6

\* A report is heard: the next one about the same PID, or the store itself, has
\* what it said.
LEMMA HeardEvent ==
  ASSUME HInv, StoreEvent
  PROVE  HeardOK'
<1> DEFINE n == Len(events)
           e == Head(events)
<1> USE DEF HInv, IInv, StoreOK
<1>1. /\ events \in Seq(Event) /\ events # <<>> /\ events' = Tail(events)
      /\ UNCHANGED <<rec, worklet>> /\ pids' = Upsert(e)
  BY DEF StoreEvent, PortsOK
<1>2. /\ n \in Nat /\ n >= 1 /\ Len(events') = n - 1 /\ e = events[1]
      /\ \A i \in 1..(n - 1) : events'[i] = events[i + 1]
  BY <1>1, HeadTailProperties, EmptySeq, LenProperties
<1> HIDE DEF n, e
<1>3. /\ 1 \in 1..n /\ \A i \in 1..(n - 1) : i + 1 \in 1..n
      /\ \A j \in 1..n : j = 1 \/ (j > 1 /\ j - 1 \in 1..(n - 1) /\ (j - 1) + 1 = j)
  BY <1>2
<1> SUFFICES ASSUME NEW k \in Key, HasRecord(k[1])'
             PROVE  Heard(k, Reported(k))'
  BY DEF HeardOK
<1>4. HasRecord(k[1]) /\ Heard(k, Reported(k)) /\ Reported(k)' = Reported(k)
  BY <1>1 DEF HasRecord, HeardOK, Reported, worklet
<1>5. ASSUME NEW i \in 1..(n - 1), events'[i].key = k,
             \A j \in 1..(n - 1) : j > i => events'[j].key # k
      PROVE  events'[i].start = Reported(k)
  <2>1. \A j \in 1..n : j > i + 1 => events[j].key # k
    <3> SUFFICES ASSUME NEW j \in 1..n, j > i + 1 PROVE events[j].key # k
      OBVIOUS
    <3>1. j - 1 \in 1..(n - 1) /\ j - 1 > i /\ (j - 1) + 1 = j
      BY <1>2
    <3> QED BY <1>2, <1>5, <3>1
  <2>2. i + 1 \in 1..n /\ events[i + 1].key = k
    BY <1>2, <1>3, <1>5
  <2>3. events[i + 1].start = Reported(k)
    BY <1>4, <2>1, <2>2 DEF Heard, n
  <2> QED BY <1>2, <2>3
<1>6. ASSUME \A i \in 1..(n - 1) : events'[i].key # k
      PROVE  pids'[k] = Reported(k)
  <2>1. \A j \in 1..n : j > 1 => events[j].key # k
    <3> SUFFICES ASSUME NEW j \in 1..n, j > 1 PROVE events[j].key # k
      OBVIOUS
    <3>1. j - 1 \in 1..(n - 1) /\ (j - 1) + 1 = j
      BY <1>2
    <3> QED BY <1>2, <1>6, <3>1
  <2>2. CASE e.key = k
    <3>1. pids'[k] = e.start
      BY <1>1, <1>4, <2>2 DEF Upsert
    <3>2. events[1].start = Reported(k)
      BY <1>2, <1>3, <1>4, <2>1, <2>2 DEF Heard, n
    <3> QED BY <1>2, <3>1, <3>2
  <2>3. CASE e.key # k
    <3>1. \A j \in 1..n : events[j].key # k
      BY <1>2, <1>3, <2>1, <2>3
    <3>2. pids[k] = Reported(k)
      BY <1>4, <3>1 DEF Heard, n
    <3>3. pids'[k] = pids[k]
      BY <1>1, <2>3 DEF Upsert
    <3> QED BY <3>2, <3>3
  <2> QED BY <2>2, <2>3
<1> QED BY <1>2, <1>4, <1>5, <1>6 DEF Heard

\* Whatever PCM changes in the worklet is reported, and it is the last report.
LEMMA HeardPcm ==
  ASSUME HInv, NEW k \in Key, NEW n \in Count, OnPcm(k, n), UNCHANGED store
  PROVE  HeardOK'
<1> USE DEF HInv, IInv, StoreOK, WorkletOK
<1>1. /\ \A j \in Key : j # k => Reported(j)' = Reported(j)
      /\ \/ UNCHANGED events /\ Reported(k)' = Reported(k)
         \/ /\ events' = Append(events, [key |-> k, start |-> Reported(k)'])
            /\ Reported(k)' \in Strip \cup {-1}
  <2>1. CASE AutoMap(k, n)
    <3> DEFINE r == [start |-> pidAlloc, n |-> n]
    <3>1. pidAlloc \in Strip /\ r # None /\ r.start = pidAlloc
      BY <2>1, NextRange DEF AutoMap
    <3>2. pidMap' = [pidMap EXCEPT ![k] = r] /\ cappedPids' = cappedPids
          /\ events' = Append(events, [key |-> k, start |-> pidAlloc])
      BY <2>1 DEF AutoMap
    <3> HIDE DEF r
    <3>3. Reported(k)' = pidAlloc
      BY <3>1, <3>2 DEF Reported
    <3>4. \A j \in Key : j # k => Reported(j)' = Reported(j)
      BY <3>2 DEF Reported
    <3> QED BY <3>1, <3>2, <3>3, <3>4
  <2>2. CASE Cap(k, n)
    BY <2>2 DEF Cap, Reported
  <2> QED BY <2>1, <2>2 DEF OnPcm, FeedMapped, Reported
<1> SUFFICES ASSUME NEW j \in Key, HasRecord(j[1])'
             PROVE  Heard(j, Reported(j))'
  BY DEF HeardOK
<1>2. HasRecord(j[1]) /\ Heard(j, Reported(j)) /\ pids' = pids
  BY DEF store, HasRecord, HeardOK
<1>3. CASE UNCHANGED events /\ Reported(k)' = Reported(k)
  BY <1>1, <1>2, <1>3 DEF Heard
<1>4. CASE /\ events' = Append(events, [key |-> k, start |-> Reported(k)'])
           /\ Reported(k)' \in Strip \cup {-1}
  <2> DEFINE m == Len(events)
             v == Reported(k)'
             e == [key |-> k, start |-> v]
  <2>1. events \in Seq(Event) /\ e \in Event /\ events' = Append(events, e)
    BY <1>4 DEF PortsOK, Event
  <2>2. e.key = k /\ e.start = v
    OBVIOUS
  <2> HIDE DEF e, v
  <2>3. /\ m \in Nat /\ Len(events') = m + 1 /\ events'[m + 1] = e
        /\ \A i \in 1..m : events'[i] = events[i]
    BY <2>1, AppendProperties, LenProperties
  <2> HIDE DEF m
  <2>4. /\ m + 1 \in 1..(m + 1) /\ \A i \in 1..(m + 1) : i \in 1..m \/ i = m + 1
        /\ \A i \in 1..m : i \in 1..(m + 1) /\ m + 1 > i
    BY <2>3
  <2>5. CASE j = k
    <3>1. \A i \in 1..m : ~(\A l \in 1..(m + 1) : l > i => events'[l].key # k)
      BY <2>2, <2>3, <2>4
    <3>2. Reported(j)' = v
      BY <2>5 DEF v
    <3>3. \A i \in 1..(m + 1) :
            events'[i].key = j /\ (\A l \in 1..(m + 1) : l > i => events'[l].key # j)
            => events'[i].start = v
      BY <2>2, <2>3, <2>4, <2>5, <3>1
    <3>4. ~ \A i \in 1..(m + 1) : events'[i].key # j
      BY <2>2, <2>3, <2>4, <2>5
    <3> QED BY <2>3, <3>2, <3>3, <3>4 DEF Heard
  <2>6. CASE j # k
    <3>1. Reported(j)' = Reported(j)
      BY <1>1, <2>6
    <3>2. ASSUME NEW i \in 1..(m + 1), events'[i].key = j,
                 \A l \in 1..(m + 1) : l > i => events'[l].key # j
          PROVE  events'[i].start = Reported(j)
      <4>1. i \in 1..m
        BY <2>2, <2>3, <2>4, <2>6, <3>2
      <4>2. \A l \in 1..m : l > i => events[l].key # j
        BY <2>3, <2>4, <3>2
      <4> QED BY <1>2, <2>3, <3>2, <4>1, <4>2 DEF Heard, m
    <3>3. ASSUME \A i \in 1..(m + 1) : events'[i].key # j
          PROVE  pids'[j] = Reported(j)
      <4>1. \A i \in 1..m : events[i].key # j
        BY <2>3, <2>4, <3>3
      <4> QED BY <1>2, <4>1 DEF Heard, m
    <3> QED BY <2>3, <3>1, <3>2, <3>3 DEF Heard
  <2> QED BY <2>5, <2>6
<1> QED BY <1>1, <1>3, <1>4

\* The worklet forgets only what nobody asks for any more.
LEMMA HeardWorklet ==
  ASSUME HInv, Control \/ InitWasm \/ \E s \in Session : DirectPcm(s)
  PROVE  HeardOK'
<1> USE DEF HInv
<1>1. CASE Control
  <2> DEFINE m == Head(ctl)
  <2>1. m \in Message /\ Timely(m) /\ UNCHANGED store
    BY <1>1, HeadTailProperties DEF Control, IInv, PortsOK, TimelyMessage
  <2>2. OnPort(m) \/ OnNullPort(m) \/ OnUnmap(m) \/ OnRelayed(m)
    BY <1>1 DEF Control
  <2> HIDE DEF m
  <2>3. CASE OnRelayed(m)
    <3>1. m.key \in Key /\ 1 \in Count
      BY <2>1, <2>3 DEF OnRelayed, Message, Count
    <3> QED BY <2>1, <2>3, <3>1, HeardPcm DEF OnRelayed
  <2>4. CASE OnPort(m) \/ OnNullPort(m) \/ OnUnmap(m)
    <3>1. UNCHANGED events
      BY <2>4 DEF OnPort, OnNullPort, OnUnmap
    <3>2. ASSUME NEW k \in Key, HasRecord(k[1]) PROVE Reported(k)' = Reported(k)
      <4>1. rec[k[1]] # "gone"
        BY <3>2 DEF HasRecord
      <4>2. CASE OnPort(m)
        BY <4>2 DEF OnPort, Reported
      <4>3. CASE OnNullPort(m)
        <5>1. k[1] # m.sid
          BY <2>1, <4>1, <4>3 DEF OnNullPort, Timely
        <5> QED BY <4>3, <5>1 DEF OnNullPort, Forget, Reported
      <4>4. CASE OnUnmap(m)
        <5>1. k # m.key
          BY <2>1, <4>1, <4>4 DEF OnUnmap, Timely
        <5>2. pidMap'[k] = pidMap[k] /\ cappedPids' = cappedPids
          BY <4>4, <5>1 DEF OnUnmap, IInv, WorkletOK
        <5> QED BY <5>2 DEF Reported
      <4> QED BY <2>4, <4>2, <4>3, <4>4
    <3> QED BY <2>1, <3>1, <3>2 DEF HeardOK, Heard, HasRecord, store
  <2> QED BY <2>2, <2>3, <2>4
<1>2. CASE InitWasm
  BY <1>2 DEF InitWasm, HeardOK, Heard, HasRecord, Reported, store
<1>3. ASSUME NEW s \in Session, DirectPcm(s) PROVE HeardOK'
  <2>1. Head(direct[s]) \in Pcm
    BY <1>3, HeadTailProperties DEF DirectPcm, IInv, PortsOK
  <2> QED BY <1>3, <2>1, HeardPcm DEF DirectPcm, Pcm, Count
<1> QED BY <1>1, <1>2, <1>3

LEMMA HeardNext ==
  ASSUME HInv, [Next]_vars
  PROVE  HInv'
<1>1. IInv'
  BY NextOK DEF HInv
<1>2. ASSUME NEW s \in Session, Teardown(s), HasRecord(s), resolving' \subseteq resolving,
             UNCHANGED <<events, direct, worklet, wasm>>
      PROVE  TracesOK' /\ QueuesOK'
  BY <1>2, TeardownTraces
<1>3. TracesOK' /\ QueuesOK'
  <2>1. ASSUME NEW s \in Session, Disconnect(s) \/ WtClosed(s) \/ ResolveFails(s)
        PROVE  TracesOK' /\ QueuesOK'
    BY <1>2, <2>1, StoreTraces DEF Disconnect, WtClosed, ResolveFails, HasRecord
  <2> QED BY <2>1, ConnectTraces, StoreTraces, WorkletTraces DEF Next
<1>4. HeardOK'
  <2>1. ASSUME NEW k \in Key, RelayPcm(k) \/ \E n \in ChannelCounts : WorkerSends(k, n)
        PROVE  HeardOK'
    BY <2>1, HeardFrame DEF RelayPcm, WorkerSends, store, HasRecord
  <2>2. CASE UNCHANGED vars
    BY <2>2, HeardFrame DEF vars, store, HasRecord
  <2> QED BY <2>1, <2>2, HeardStore, HeardEvent, HeardWorklet DEF Next
<1> QED BY <1>1, <1>3, <1>4 DEF HInv

LEMMA HeardInit == Init => HInv
<1> SUFFICES ASSUME Init PROVE HInv
  OBVIOUS
<1>1. TracesOK
  BY DEF Init, TracesOK
<1>2. QueuesOK
  BY EmptySeq DEF Init, QueuesOK
<1>3. HeardOK
  BY DEF Init, HeardOK, HasRecord, Key
<1> QED BY <1>1, <1>2, <1>3, InitOK DEF HInv

\* The session store never ends up with a wrong picture of a session it has: what
\* it shows, or is about to hear, is what the worklet gave the session's PIDs,
\* although pid-mapped events, unmaps, null ports and PCM travel separately.
THEOREM StoreStaysTrue == Spec => []StoreAgrees
<1>1. ASSUME HInv PROVE StoreAgrees
  <2> SUFFICES ASSUME events = <<>>, NEW k \in Key, HasRecord(k[1])
               PROVE  pids[k] = Reported(k)
    BY DEF StoreAgrees
  <2>1. Len(events) = 0
    OBVIOUS
  <2> QED BY <1>1, <2>1 DEF HInv, HeardOK, Heard
<1> QED BY HeardInit, HeardNext, <1>1, PTL DEF Spec
================================================================================
