----------------------------- MODULE PublishProofs -----------------------------
(****************************************************************************)
(* What holds of publishing for every set of channel counts that has stereo,*)
(* every batch size, and any number of workers, blocks and queued messages. *)
(*                                                                          *)
(* IInv says how the control messages under way to the tap follow on one    *)
(* another (Chained), what they leave behind when there is no worker        *)
(* (Closing), and what they still bring when there is one (Opening); and    *)
(* that what is under way to the worker continues what its muxer has        *)
(* (Continuous).                                                            *)
(****************************************************************************)
EXTENDS Publish, SequenceTheorems, TLAPS

\* The store's own bookkeeping; source and width stand still while there is a
\* worker.
StoreOK ==
  /\ worker = None => /\ reports = <<>> /\ direct = <<>> /\ wk = NoWorker
                      /\ ~stats /\ status # "connected"
  /\ worker # None => wk.channels = EffectiveChannels /\ status # "disconnected"
  /\ resolving => worker = None /\ status = "connecting"

\* No port is newer than the last worker.
PortsKnown ==
  /\ tap.port # None => tap.port <= started
  /\ \A i \in 1..Len(ctl) :
       ctl[i].type = "pub-port" /\ ctl[i].port # None => ctl[i].port <= started

\* A start follows the port it runs on; a port is changed while the tap rests.
Chained ==
  /\ tap.active => tap.port # None
  /\ \A i \in 1..Len(ctl) :
       /\ ctl[i].type = "pub-port" =>
            IF i = 1 THEN ~tap.active ELSE ctl[i - 1].type # "pub-start"
       /\ ctl[i].type = "pub-start" =>
            IF i = 1 THEN tap.port # None
            ELSE ctl[i - 1].type = "pub-port" /\ ctl[i - 1].port # None

\* The messages under way leave port p.
LeavesPort(p) ==
  /\ \A i \in 1..Len(ctl) :
       ctl[i].type = "pub-port"
         /\ (\A j \in 1..Len(ctl) : j > i => ctl[j].type # "pub-port")
       => ctl[i].port = p
  /\ (\A i \in 1..Len(ctl) : ctl[i].type # "pub-port") => tap.port = p

Closing ==
  worker = None =>
    /\ LeavesPort(None)
    /\ IF ctl = <<>> THEN ~tap.active ELSE ctl[Len(ctl)].type # "pub-start"

StartsWorker(m) == m = PubStart(EffectiveChannels, source)

\* Nothing has reached the worker yet.
Untouched == direct = <<>> /\ wk.muxed = None

\* The tap's port, its start, or both are still under way to it, or it runs.
Opening ==
  worker # None =>
    \/ /\ ctl = <<>> /\ tap.active /\ tap.port = worker
       /\ tap.source = source /\ tap.channels = EffectiveChannels
    \/ /\ Len(ctl) = 1 /\ StartsWorker(ctl[1])
       /\ tap.port = worker /\ ~tap.active /\ Untouched
    \/ /\ Len(ctl) >= 2 /\ StartsWorker(ctl[Len(ctl)])
       /\ ctl[Len(ctl) - 1] = PubPort(worker)
       /\ tap.port # worker /\ Untouched
       /\ \A i \in 1..(Len(ctl) - 2) : ctl[i].type = "pub-port" => ctl[i].port # worker

\* The pts of the batch the tap is filling.
NextPts == tap.frames - tap.fill

\* The batches under way follow on one another, and on what the muxer has.
Continuous ==
  /\ tap.fill <= tap.frames
  /\ WidthsAgree
  /\ wk.muxed # None => wk.handshake /\ wk.phase \in {"running", "over"}
  /\ direct # <<>> => direct[Len(direct)].pts + BATCH = NextPts
  /\ \A i \in 1..Len(direct) : i > 1 => direct[i].pts = direct[i - 1].pts + BATCH
  /\ wk.muxed # None /\ wk.phase = "running" =>
       wk.muxed + BATCH = IF direct = <<>> THEN NextPts ELSE direct[1].pts

IInv ==
  /\ TypeOK /\ StoreOK /\ PortsKnown /\ Chained /\ Closing /\ Opening /\ Continuous
--------------------------------------------------------------------------------
(* Types *)

Worker == 1..MaxWorker
Reports == {WtReady, Stats} \cup {WtClosed(err) : err \in BOOLEAN}

LEMMA Constant ==
  /\ 2 \in Counts /\ Counts \subseteq Nat
  /\ BATCH \in Nat /\ BATCH > 0
  /\ MaxWorker \in Nat /\ MaxBlocks \in Nat
  /\ \A i \in Int : i # None
BY PublishAssumption

LEMMA MessageType ==
  /\ \A p \in Worker \cup {None} : PubPort(p) \in Control
  /\ \A n \in Counts, src \in Source : PubStart(n, src) \in Control
  /\ PubStop \in Control
  /\ WtReady \in Reports /\ Stats \in Reports
  /\ \A err \in BOOLEAN : WtClosed(err) \in Reports
BY DEF PubPort, PubStart, PubStop, Control, Reports, Worker

LEMMA TapMessages ==
  ASSUME TypeOK, NEW w \in Worker
  PROVE  /\ EffectiveChannels \in Counts
         /\ OpenTap(w) \in Seq(Control) /\ CloseTap \in Seq(Control)
         /\ <<PubStop>> \in Seq(Control)
<1>1. EffectiveChannels \in Counts
  BY Constant DEF EffectiveChannels, TypeOK
<1>2. PubPort(w) \in Control /\ PubPort(None) \in Control /\ PubStop \in Control
      /\ PubStart(EffectiveChannels, source) \in Control
  BY <1>1, MessageType DEF TypeOK
<1>3. <<PubPort(w), PubStart(EffectiveChannels, source)>> \in Seq(Control)
  BY <1>2
<1>4. <<PubStop, PubPort(None)>> \in Seq(Control)
  BY <1>2
<1> QED BY <1>1, <1>2, <1>3, <1>4 DEF OpenTap, CloseTap

LEMMA InitInv == Init => IInv
<1> SUFFICES ASSUME Init PROVE IInv
  OBVIOUS
<1>1. TypeOK
  <2>1. /\ status = "disconnected" /\ channels \in Counts /\ source \in Source
        /\ ctl \in Seq(Control) /\ direct \in Seq(Batch) /\ reports \in Seq(Reports)
        /\ started \in 0..MaxWorker
    BY Constant DEF Init, Source
  <2>2. tap \in [active : BOOLEAN, source : Source, channels : Counts, fill : 0..(BATCH - 1),
                 frames : 0..MaxBlocks, port : Worker \cup {None}]
    BY Constant DEF Init, Source
  <2>3. wk \in [phase : {"none", "booting", "loading", "opening", "probing", "running", "over"},
                channels : Counts, transport : {"open", "closed", "reported"},
                handshake : BOOLEAN, muxed : 0..MaxBlocks \cup {None}]
    BY Constant DEF Init, NoWorker
  <2> QED BY <2>1, <2>2, <2>3 DEF Init, TypeOK, Worker, Reports
<1>2. Len(ctl) = 0 /\ Len(direct) = 0
  BY DEF Init
<1>3. StoreOK /\ PortsKnown /\ Chained /\ Closing /\ Opening
  BY <1>2 DEF Init, StoreOK, PortsKnown, Chained, Closing, Opening, LeavesPort
<1>4. Continuous
  BY <1>2 DEF Init, Continuous, WidthsAgree, NextPts, NoWorker
<1> QED BY <1>1, <1>3, <1>4 DEF IInv

\* What a step of the store may leave behind when a message is sent.
LEMMA SentType ==
  ASSUME NEW S, NEW q \in Seq(S), NEW m \in S
  PROVE  Append(q, m) \in Seq(S)
OBVIOUS

LEMMA TakenType ==
  ASSUME NEW S, NEW q \in Seq(S), q # <<>>
  PROVE  Head(q) \in S /\ Tail(q) \in Seq(S)
BY HeadTailProperties

WorkerRecord ==
  [phase : {"none", "booting", "loading", "opening", "probing", "running", "over"},
   channels : Counts, transport : {"open", "closed", "reported"},
   handshake : BOOLEAN, muxed : 0..MaxBlocks \cup {None}]

LEMMA NewWorkerType ==
  ASSUME TypeOK
  PROVE  NoWorker \in WorkerRecord /\ NewWorker \in WorkerRecord
<1>1. EffectiveChannels \in Counts
  BY Constant DEF EffectiveChannels, TypeOK
<1> QED BY <1>1, Constant DEF NoWorker, NewWorker, WorkerRecord

\* Ending a session: the tap is told, the worker is gone.
LEMMA EndType ==
  ASSUME TypeOK, ctl' = ctl \o CloseTap, TerminateWorker,
         status' \in {"disconnected", "connecting", "connected", "error"},
         stats' = FALSE, UNCHANGED <<channels, source, resolving, started, tap>>
  PROVE  TypeOK'
<1>1. CloseTap \in Seq(Control)
  BY MessageType DEF CloseTap
<1>2. ctl' \in Seq(Control)
  BY <1>1, ConcatProperties DEF TypeOK
<1>3. wk' \in WorkerRecord
  BY NewWorkerType DEF TerminateWorker
<1>4. reports' \in Seq(Reports) /\ direct' \in Seq(Batch)
  BY DEF TerminateWorker
<1> QED BY <1>2, <1>3, <1>4 DEF TypeOK, TerminateWorker, WorkerRecord, Reports

LEMMA StoreType ==
  ASSUME TypeOK,
         \/ SetPublishChannels \/ SetPublishSource \/ Connect \/ ResolveFails
         \/ OnWorkerError
  PROVE  TypeOK'
<1>1. CASE ResolveFails
  <2>1. ctl' \in Seq(Control)
    BY <1>1, MessageType, SentType DEF TypeOK, ResolveFails
  <2> QED BY <1>1, <2>1 DEF TypeOK, ResolveFails
<1>2. CASE SetPublishChannels
  BY <1>2 DEF TypeOK, SetPublishChannels
<1>3. CASE SetPublishSource
  BY <1>3 DEF TypeOK, SetPublishSource
<1>4. CASE Connect
  BY <1>4 DEF TypeOK, Connect
<1>5. CASE OnWorkerError
  BY <1>5 DEF TypeOK, OnWorkerError
<1> QED BY <1>1, <1>2, <1>3, <1>4, <1>5

LEMMA ResolvedType == ASSUME TypeOK, Resolved PROVE TypeOK'
<1>1. started' \in 0..MaxWorker /\ started' \in Worker /\ worker' \in 1..started'
  BY Constant DEF TypeOK, Resolved, Worker
<1>2. ctl' \in Seq(Control)
  BY <1>1, TapMessages, ConcatProperties DEF TypeOK, Resolved
<1>3. wk' \in WorkerRecord
  BY NewWorkerType DEF Resolved
<1> QED BY <1>1, <1>2, <1>3 DEF TypeOK, Resolved, WorkerRecord

LEMMA MessageStepType ==
  ASSUME TypeOK, Disconnect \/ OnWorkerMsg
  PROVE  TypeOK'
<1>1. CASE Disconnect
  BY <1>1, EndType DEF Disconnect
<1>2. CASE OnWorkerMsg
  <2>1. Head(reports) \in Reports /\ Tail(reports) \in Seq(Reports)
    BY <1>2, TakenType DEF OnWorkerMsg, TypeOK, Reports
  <2>2. CASE OnWtReady
    BY <1>2, <2>1, <2>2 DEF OnWorkerMsg, OnWtReady, TypeOK, Reports
  <2>3. CASE OnStats
    BY <1>2, <2>1, <2>3 DEF OnWorkerMsg, OnStats, TypeOK, Reports
  <2>4. CASE OnWtClosed
    BY <1>2, <2>4, EndType DEF OnWorkerMsg, OnWtClosed
  <2> QED BY <1>2, <2>2, <2>3, <2>4 DEF OnWorkerMsg
<1> QED BY <1>1, <1>2

TapRecord ==
  [active : BOOLEAN, source : Source, channels : Counts, fill : 0..(BATCH - 1),
   frames : 0..MaxBlocks, port : Worker \cup {None}]

LEMMA TapControlType == ASSUME TypeOK, TapControl PROVE TypeOK'
<1>1. Head(ctl) \in Control /\ Tail(ctl) \in Seq(Control)
  BY TakenType DEF TypeOK, TapControl
<1>2. tap \in TapRecord
  BY DEF TypeOK, TapRecord, Worker
<1>3. Head(ctl).type = "pub-port" => Head(ctl).port \in Worker \cup {None}
  BY <1>1 DEF Control, Worker
<1>4. Head(ctl).type = "pub-start" =>
        Head(ctl).channels \in Counts /\ Head(ctl).source \in Source
  BY <1>1 DEF Control
<1>5. 0 \in 0..(BATCH - 1) /\ 0 \in 0..MaxBlocks
  BY Constant
<1>6. tap' \in TapRecord
  BY <1>2, <1>3, <1>4, <1>5, Constant DEF TapControl, TapRecord, Source
<1> QED BY <1>1, <1>6 DEF TypeOK, TapControl, TapRecord, Worker, store

LEMMA TapBlockType == ASSUME TypeOK, Continuous, TapBlock PROVE TypeOK'
<1>1. tap \in TapRecord
  BY DEF TypeOK, TapRecord, Worker
<1>2. tap' \in TapRecord
  <2>1. /\ tap.fill \in 0..(BATCH - 1) /\ tap.frames \in 0..MaxBlocks
        /\ tap.frames < MaxBlocks
    BY <1>1 DEF TapBlock, TapRecord
  <2>2. tap.frames + 1 \in 0..MaxBlocks
    BY <2>1, Constant
  <2>3. (IF tap.fill + 1 < BATCH THEN tap.fill + 1 ELSE 0) \in 0..(BATCH - 1)
    BY <2>1, Constant
  <2> QED BY <1>1, <2>2, <2>3 DEF TapBlock, TapRecord
<1>3. CASE tap.fill + 1 < BATCH
  BY <1>2, <1>3 DEF TypeOK, TapBlock, TapRecord, Worker, store
<1>4. CASE ~(tap.fill + 1 < BATCH)
  <2> DEFINE b == [pts |-> tap'.frames - BATCH, channels |-> tap.channels]
  <2>1. tap.fill + 1 = BATCH /\ tap'.frames = tap.frames + 1 /\ tap.fill <= tap.frames
    BY <1>1, <1>4, Constant DEF TapBlock, TapRecord, Continuous
  <2>2. b \in Batch
    BY <1>1, <1>2, <2>1, Constant DEF Batch, TapRecord
  <2>3. Post(b) \in Seq(Batch)
    BY <2>2, SentType DEF Post, TypeOK
  <2>4. direct' \in Seq(Batch)
    BY <1>4, <2>3 DEF TapBlock
  <2> QED BY <1>2, <2>4 DEF TypeOK, TapBlock, TapRecord, Worker, store
<1> QED BY <1>3, <1>4

LEMMA ReportType ==
  ASSUME TypeOK, NEW m \in Reports, Report(m)
  PROVE  reports' \in Seq(Reports)
BY SentType DEF Report, TypeOK, Reports

LEMMA WorkerType ==
  ASSUME TypeOK,
         \/ Boot \/ Loaded \/ Ready \/ Probed \/ InitFails \/ HandshakeCompletes
         \/ TransportCloses \/ ReportClosed \/ StatsTick
  PROVE  TypeOK'
<1>1. wk' \in WorkerRecord
  BY DEF TypeOK, WorkerRecord, Advance, Boot, Loaded, Ready, Probed, InitFails,
         HandshakeCompletes, TransportCloses, ReportClosed, StatsTick
<1>2. reports' \in Seq(Reports)
  <2>1. \/ UNCHANGED reports
        \/ \E m \in Reports : Report(m)
    BY MessageType
       DEF Boot, Loaded, Ready, Probed, InitFails, HandshakeCompletes, TransportCloses,
           ReportClosed, StatsTick
  <2>2. CASE UNCHANGED reports
    BY <2>2 DEF TypeOK, Reports
  <2> QED BY <2>1, <2>2, ReportType
<1>3. UNCHANGED <<store, ctl, direct, tap>>
  BY DEF Advance, Boot, Loaded, Ready, Probed, InitFails,
         HandshakeCompletes, TransportCloses, ReportClosed, StatsTick
<1> QED BY <1>1, <1>2, <1>3 DEF TypeOK, WorkerRecord, Reports, store

LEMMA HandlePcmType == ASSUME TypeOK, HandlePcm PROVE TypeOK'
<1>1. Head(direct) \in Batch /\ Tail(direct) \in Seq(Batch)
  BY TakenType DEF TypeOK, HandlePcm
<1>2. Head(direct).pts \in 0..MaxBlocks
  BY <1>1 DEF Batch
<1>3. wk' \in WorkerRecord
  BY <1>2 DEF HandlePcm, Push, PushFails, TypeOK, WorkerRecord
<1>4. reports' \in Seq(Reports)
  <2>1. UNCHANGED reports \/ Report(WtClosed(TRUE))
    BY DEF HandlePcm, Push, PushFails
  <2>2. CASE UNCHANGED reports
    BY <2>2 DEF TypeOK, Reports
  <2> QED BY <2>1, <2>2, MessageType, ReportType
<1> QED BY <1>1, <1>3, <1>4 DEF HandlePcm, TypeOK, WorkerRecord, Reports, store
--------------------------------------------------------------------------------
(* The store's bookkeeping *)

LEMMA EffectiveStands ==
  ASSUME UNCHANGED <<channels, source>>
  PROVE  EffectiveChannels' = EffectiveChannels
BY DEF EffectiveChannels

LEMMA NewWorkerFields ==
  ASSUME TypeOK
  PROVE
  /\ NoWorker.phase = "none" /\ NoWorker.muxed = None
  /\ NewWorker.channels = EffectiveChannels /\ NewWorker.phase = "booting"
  /\ NewWorker.muxed = None
<1>1. NoWorker \in WorkerRecord
  BY NewWorkerType
<1>2. NoWorker.phase = "none" /\ NoWorker.muxed = None
  BY DEF NoWorker
<1> QED BY <1>1, <1>2 DEF NewWorker, WorkerRecord

LEMMA EndStore ==
  ASSUME StoreOK, worker # None, TerminateWorker, stats' = FALSE,
         status' # "connected", UNCHANGED <<channels, source, resolving>>
  PROVE  StoreOK'
BY DEF StoreOK, TerminateWorker

LEMMA UserStore ==
  ASSUME TypeOK, StoreOK,
         \/ SetPublishChannels \/ SetPublishSource \/ Connect \/ Resolved \/ ResolveFails
         \/ OnWorkerError
  PROVE  StoreOK'
<1>1. CASE Resolved
  <2>1. worker' # None
    BY <1>1, Constant DEF Resolved, TypeOK
  <2>2. wk'.channels = EffectiveChannels'
    BY <1>1, NewWorkerFields, EffectiveStands DEF Resolved
  <2> QED BY <1>1, <2>1, <2>2 DEF Resolved, StoreOK
<1>2. CASE SetPublishChannels
  BY <1>2 DEF StoreOK, SetPublishChannels
<1>3. CASE SetPublishSource
  BY <1>3 DEF StoreOK, SetPublishSource
<1>4. CASE Connect
  BY <1>4, EffectiveStands DEF StoreOK, Connect, PubActive
<1>5. CASE ResolveFails
  BY <1>5, EffectiveStands DEF StoreOK, ResolveFails
<1>6. CASE OnWorkerError
  BY <1>6, EffectiveStands DEF StoreOK, OnWorkerError
<1> QED BY <1>1, <1>2, <1>3, <1>4, <1>5, <1>6

LEMMA MessageStore ==
  ASSUME TypeOK, StoreOK, Disconnect \/ OnWorkerMsg
  PROVE  StoreOK'
<1>1. worker # None
  BY DEF StoreOK, Disconnect, OnWorkerMsg
<1>2. CASE Disconnect
  BY <1>1, <1>2, EndStore DEF Disconnect
<1>3. CASE OnWorkerMsg
  <2>1. CASE OnWtReady
    BY <1>1, <1>3, <2>1, EffectiveStands DEF StoreOK, OnWorkerMsg, OnWtReady
  <2>2. CASE OnStats
    BY <1>1, <1>3, <2>2, EffectiveStands DEF StoreOK, OnWorkerMsg, OnStats
  <2>3. CASE OnWtClosed
    BY <1>1, <1>3, <2>3, EndStore DEF OnWorkerMsg, OnWtClosed
  <2> QED BY <1>3, <2>1, <2>2, <2>3 DEF OnWorkerMsg
<1> QED BY <1>2, <1>3

TapActs == TapControl \/ TapBlock

WorkerActs ==
  \/ Boot \/ Loaded \/ Ready \/ Probed \/ InitFails \/ HandshakeCompletes
  \/ TransportCloses \/ ReportClosed \/ StatsTick \/ HandlePcm

\* Without a worker, nothing acts in one; one that acts keeps its width.
LEMMA WorkerExists ==
  ASSUME TypeOK, StoreOK, WorkerActs
  PROVE  /\ worker # None /\ UNCHANGED <<store, ctl, tap>>
         /\ wk'.channels = wk.channels
<1>1. worker # None
  BY NewWorkerFields
     DEF WorkerActs, StoreOK, Boot, Loaded, Ready, Probed, InitFails, HandshakeCompletes,
         TransportCloses, ReportClosed, StatsTick, HandlePcm, Advance
<1>2. UNCHANGED <<store, ctl, tap>>
  BY DEF WorkerActs, Boot, Loaded, Ready, Probed, InitFails, HandshakeCompletes,
         TransportCloses, ReportClosed, StatsTick, HandlePcm, Advance
<1>3. wk'.channels = wk.channels
  BY DEF WorkerActs, Boot, Loaded, Ready, Probed, InitFails, HandshakeCompletes,
         TransportCloses, ReportClosed, StatsTick, HandlePcm, Advance, Push, PushFails,
         TypeOK
<1> QED BY <1>1, <1>2, <1>3

LEMMA OtherStore ==
  ASSUME TypeOK, StoreOK, TapActs \/ WorkerActs
  PROVE  StoreOK'
<1>1. CASE WorkerActs
  BY <1>1, WorkerExists, EffectiveStands DEF StoreOK, store
<1>2. CASE TapControl
  BY <1>2, EffectiveStands DEF StoreOK, TapControl, store
<1>3. CASE TapBlock
  <2>1. worker = None => direct' = direct
    BY <1>3 DEF TapBlock, Post
  <2> QED BY <1>3, <2>1, EffectiveStands DEF StoreOK, TapBlock, store
<1> QED BY <1>1, <1>2, <1>3 DEF TapActs
--------------------------------------------------------------------------------
(* The control messages to the tap *)

Wired == PortsKnown /\ Chained /\ Closing /\ Opening

LEMMA MessageFields ==
  /\ PubStop.type = "pub-stop"
  /\ \A p : PubPort(p).type = "pub-port" /\ PubPort(p).port = p
  /\ \A n, src : /\ PubStart(n, src).type = "pub-start"
                 /\ PubStart(n, src).channels = n /\ PubStart(n, src).source = src
BY DEF PubStop, PubPort, PubStart

LEMMA ControlLen == ASSUME TypeOK PROVE Len(ctl) \in Nat /\ (Len(ctl) = 0 <=> ctl = <<>>)
BY EmptySeq, LenProperties DEF TypeOK

\* Steps that leave the messages alone, the tap on its port and width, and a
\* worker that nothing has reached untouched.
LEMMA WiredFrame ==
  ASSUME Wired, UNCHANGED <<ctl, worker, started>>,
         tap'.active = tap.active, tap'.port = tap.port,
         tap'.source = tap.source, tap'.channels = tap.channels,
         worker # None => UNCHANGED <<channels, source>>,
         worker # None /\ ctl # <<>> /\ Untouched => Untouched'
  PROVE  Wired'
<1>1. PortsKnown' /\ Chained'
  BY DEF Wired, PortsKnown, Chained
<1>2. Closing'
  BY DEF Wired, Closing, LeavesPort
<1>3. Opening'
  <2> SUFFICES ASSUME worker # None PROVE Opening'
    BY DEF Opening
  <2>1. EffectiveChannels' = EffectiveChannels /\ source' = source
    BY EffectiveStands
  <2>2. \A m : StartsWorker(m)' <=> StartsWorker(m)
    BY <2>1 DEF StartsWorker
  <2>3. Len(<<>>) = 0
    OBVIOUS
  <2> QED BY <2>1, <2>2, <2>3 DEF Wired, Opening, StartsWorker
<1> QED BY <1>1, <1>2, <1>3 DEF Wired

\* What is appended, message by message.
LEMMA Appended ==
  ASSUME NEW q \in Seq(Control), NEW r \in Seq(Control)
  PROVE  /\ Len(q \o r) = Len(q) + Len(r) /\ Len(q) \in Nat /\ Len(r) \in Nat
         /\ \A i \in 1..Len(q) : (q \o r)[i] = q[i]
         /\ \A i \in 1..Len(r) : (q \o r)[Len(q) + i] = r[i]
BY ConcatProperties, LenProperties

\* A connect that failed: one more stop, and still no worker.
LEMMA WiredStop ==
  ASSUME TypeOK, Wired, worker = None, ctl' = Append(ctl, PubStop),
         UNCHANGED <<worker, started, tap>>
  PROVE  Wired'
<1> DEFINE n == Len(ctl)
<1>1. /\ n \in Nat /\ Len(ctl') = n + 1 /\ ctl'[n + 1] = PubStop
      /\ \A i \in 1..n : ctl'[i] = ctl[i]
  BY LenProperties DEF TypeOK
<1>2. PubStop.type = "pub-stop" /\ PubStop.type # "pub-port" /\ PubStop.type # "pub-start"
  BY MessageFields
<1> HIDE DEF n
<1>3. \A i \in 1..(n + 1) : i \in 1..n \/ i = n + 1
  BY <1>1
<1>4. \A i \in 1..n : i > 1 => i - 1 \in 1..n
  BY <1>1
<1>5. PortsKnown'
  BY <1>1, <1>2, <1>3 DEF Wired, PortsKnown, n
<1>6. Chained'
  BY <1>1, <1>2, <1>3, <1>4 DEF Wired, Chained, n
<1>7. Closing'
  <2>1. LeavesPort(None)'
    BY <1>1, <1>2, <1>3 DEF Wired, Closing, LeavesPort, n
  <2>2. ctl' # <<>> /\ ctl'[Len(ctl')].type # "pub-start"
    BY <1>1, <1>2
  <2> QED BY <2>1, <2>2 DEF Closing
<1> QED BY <1>5, <1>6, <1>7 DEF Wired, Opening

\* The end of a session.
LEMMA WiredEnd ==
  ASSUME TypeOK, Wired, worker # None, worker' = None, ctl' = ctl \o CloseTap,
         UNCHANGED <<started, tap>>
  PROVE  Wired'
<1> DEFINE n == Len(ctl)
<1>1. /\ n \in Nat /\ Len(ctl') = n + 2
      /\ ctl'[n + 1] = PubStop /\ ctl'[n + 2] = PubPort(None)
      /\ \A i \in 1..n : ctl'[i] = ctl[i]
  <2>1. CloseTap \in Seq(Control)
    BY MessageType DEF CloseTap
  <2>2. Len(CloseTap) = 2 /\ CloseTap[1] = PubStop /\ CloseTap[2] = PubPort(None)
    BY DEF CloseTap
  <2>3. ctl \in Seq(Control)
    BY DEF TypeOK
  <2>4. 1 \in 1..Len(CloseTap) /\ 2 \in 1..Len(CloseTap)
    BY <2>2
  <2>5. /\ Len(ctl \o CloseTap) = Len(ctl) + Len(CloseTap) /\ Len(ctl) \in Nat
        /\ \A i \in 1..Len(ctl) : (ctl \o CloseTap)[i] = ctl[i]
        /\ \A i \in 1..Len(CloseTap) : (ctl \o CloseTap)[Len(ctl) + i] = CloseTap[i]
    BY <2>1, <2>3, Appended
  <2> QED BY <2>2, <2>4, <2>5
<1>2. /\ PubStop.type = "pub-stop" /\ PubStop.type # "pub-port"
      /\ PubStop.type # "pub-start"
      /\ PubPort(None).type = "pub-port" /\ PubPort(None).port = None
      /\ PubPort(None).type # "pub-start"
  BY MessageFields
<1> HIDE DEF n
<1>3. \A i \in 1..(n + 2) : i \in 1..n \/ i = n + 1 \/ i = n + 2
  BY <1>1
<1>4. \A i \in 1..n : i > 1 => i - 1 \in 1..n
  BY <1>1
<1>5. PortsKnown'
  BY <1>1, <1>2, <1>3 DEF Wired, PortsKnown, n
<1>6. Chained'
  <2>1. n + 2 - 1 = n + 1 /\ n + 2 # 1
    BY <1>1
  <2> QED BY <1>1, <1>2, <1>3, <1>4, <2>1 DEF Wired, Chained, n
<1>7. Closing'
  <2>1. LeavesPort(None)'
    <3>1. n + 2 \in 1..(n + 2) /\ n + 2 > n + 1 /\ \A i \in 1..n : n + 2 > i
      BY <1>1
    <3> QED BY <1>1, <1>2, <1>3, <3>1 DEF LeavesPort
  <2>2. ctl' # <<>> /\ ctl'[Len(ctl')].type # "pub-start"
    BY <1>1, <1>2
  <2> QED BY <2>1, <2>2 DEF Closing
<1> QED BY <1>5, <1>6, <1>7 DEF Wired, Opening

\* The beginning of one: the tap rests, and its new port was never heard of.
LEMMA WiredBegin ==
  ASSUME TypeOK, Wired, worker = None, Resolved, Untouched'
  PROVE  Wired'
<1> DEFINE n == Len(ctl)
           w == started + 1
<1>1. w \in Worker /\ w # None /\ started \in Nat /\ worker' = w /\ started' = w
      /\ tap' = tap /\ source' = source /\ EffectiveChannels' = EffectiveChannels
  BY Constant, EffectiveStands DEF TypeOK, Resolved, Worker
<1>2. /\ n \in Nat /\ Len(ctl') = n + 2
      /\ ctl'[n + 1] = PubPort(w) /\ ctl'[n + 2] = PubStart(EffectiveChannels, source)
      /\ \A i \in 1..n : ctl'[i] = ctl[i]
  <2>1. OpenTap(w) \in Seq(Control)
    BY <1>1, TapMessages
  <2>2. /\ Len(OpenTap(w)) = 2 /\ OpenTap(w)[1] = PubPort(w)
        /\ OpenTap(w)[2] = PubStart(EffectiveChannels, source)
    BY DEF OpenTap
  <2>3. ctl \in Seq(Control) /\ ctl' = ctl \o OpenTap(w)
    BY DEF TypeOK, Resolved
  <2>4. 1 \in 1..Len(OpenTap(w)) /\ 2 \in 1..Len(OpenTap(w))
    BY <2>2
  <2>5. /\ Len(ctl \o OpenTap(w)) = Len(ctl) + Len(OpenTap(w)) /\ Len(ctl) \in Nat
        /\ \A i \in 1..Len(ctl) : (ctl \o OpenTap(w))[i] = ctl[i]
        /\ \A i \in 1..Len(OpenTap(w)) : (ctl \o OpenTap(w))[Len(ctl) + i] = OpenTap(w)[i]
    BY <2>1, <2>3, Appended
  <2> QED BY <2>2, <2>3, <2>4, <2>5
<1>3. /\ PubPort(w).type = "pub-port" /\ PubPort(w).port = w
      /\ PubPort(w).type # "pub-start"
      /\ PubStart(EffectiveChannels, source).type = "pub-start"
      /\ PubStart(EffectiveChannels, source).type # "pub-port"
  BY MessageFields
<1>4. n = 0 <=> ctl = <<>>
  BY ControlLen
<1>5. \A p \in Worker : p <= started => p # w
  BY <1>1 DEF Worker
<1>6. tap.port \in Worker \cup {None}
  BY DEF TypeOK, Worker
<1>7. \A i \in 1..n : ctl[i].type = "pub-port" => ctl[i].port \in Worker \cup {None}
  <2> SUFFICES ASSUME NEW i \in 1..n, ctl[i].type = "pub-port"
               PROVE  ctl[i].port \in Worker \cup {None}
    OBVIOUS
  <2>1. ctl[i] \in Control
    BY ElementOfSeq DEF TypeOK
  <2> QED BY <2>1 DEF Control, Worker
<1> HIDE DEF n, w
<1>8. \A i \in 1..(n + 2) : i \in 1..n \/ i = n + 1 \/ i = n + 2
  BY <1>2
<1>9. \A i \in 1..n : i > 1 => i - 1 \in 1..n
  BY <1>2
<1>10. PortsKnown'
  <2>1. \A p \in Worker \cup {None} : p # None /\ p <= started => p <= w
    BY <1>1 DEF w, Worker
  <2>2. tap.port # None => tap.port <= w
    BY <1>6, <2>1 DEF Wired, PortsKnown
  <2>3. \A i \in 1..n : ctl[i].type = "pub-port" /\ ctl[i].port # None => ctl[i].port <= w
    BY <1>7, <2>1 DEF Wired, PortsKnown, n
  <2>4. w <= w
    BY <1>1 DEF Worker
  <2> QED BY <1>1, <1>2, <1>3, <1>8, <2>2, <2>3, <2>4 DEF PortsKnown
<1>11. Chained'
  <2>1. n + 2 - 1 = n + 1 /\ n + 2 # 1 /\ (n + 1 = 1 => n = 0) /\ n + 1 - 1 = n
        /\ (n # 0 => n \in 1..n /\ n + 1 # 1)
    BY <1>2
  <2>2. IF n = 0 THEN ~tap.active ELSE ctl[n].type # "pub-start"
    BY <1>4 DEF Wired, Closing, n
  <2>3. tap.active => tap.port # None
    BY DEF Wired, Chained
  <2>4. \A i \in 1..n :
         /\ ctl'[i].type = "pub-port" =>
              IF i = 1 THEN ~tap.active ELSE ctl'[i - 1].type # "pub-start"
         /\ ctl'[i].type = "pub-start" =>
              IF i = 1 THEN tap.port # None
              ELSE ctl'[i - 1].type = "pub-port" /\ ctl'[i - 1].port # None
    BY <1>2, <1>9 DEF Wired, Chained, n
  <2>5. IF n + 1 = 1 THEN ~tap.active ELSE ctl'[n + 1 - 1].type # "pub-start"
    BY <1>2, <2>1, <2>2
  <2>6. ctl'[n + 2 - 1].type = "pub-port" /\ ctl'[n + 2 - 1].port # None
    BY <1>1, <1>2, <1>3, <2>1
  <2>7. ctl'[n + 1].type # "pub-start" /\ ctl'[n + 2].type # "pub-port"
    BY <1>2, <1>3
  <2> QED BY <1>1, <1>2, <1>8, <2>1, <2>3, <2>4, <2>5, <2>6, <2>7 DEF Chained
<1>12. Opening'
  <2>1. Len(ctl') >= 2 /\ Len(ctl') - 1 = n + 1 /\ Len(ctl') - 2 = n
    BY <1>2
  <2>2. StartsWorker(ctl[Len(ctl)])'
    BY <1>1, <1>2 DEF StartsWorker
  <2>3. tap'.port # worker'
    BY <1>1, <1>5, <1>6 DEF Wired, PortsKnown
  <2>4. \A i \in 1..n : ctl'[i].type = "pub-port" => ctl'[i].port # worker'
    BY <1>1, <1>2, <1>5, <1>7 DEF Wired, PortsKnown, n
  <2> QED BY <1>1, <1>2, <2>1, <2>2, <2>3, <2>4 DEF Opening, PubPort
<1> QED BY <1>1, <1>10, <1>11, <1>12 DEF Wired, Closing

\* The worklet takes the next message.
LEMMA Taken ==
  ASSUME TypeOK, TapControl
  PROVE  /\ Len(ctl) \in Nat /\ Len(ctl) >= 1 /\ Len(ctl') = Len(ctl) - 1
         /\ \A i \in 1..(Len(ctl) - 1) : ctl'[i] = ctl[i + 1]
         /\ (ctl' = <<>> <=> Len(ctl) = 1)
         /\ tap \in TapRecord
         /\ \/ /\ ctl[1].type = "pub-port"
               /\ tap' = [tap EXCEPT !.port = ctl[1].port]
            \/ /\ ctl[1].type = "pub-start"
               /\ tap' = [tap EXCEPT !.active = TRUE, !.fill = 0, !.frames = 0,
                            !.source = ctl[1].source,
                            !.channels = IF ctl[1].source = "bus" THEN 2 ELSE ctl[1].channels]
            \/ /\ ctl[1].type = "pub-stop"
               /\ tap' = [tap EXCEPT !.active = FALSE, !.fill = 0, !.frames = 0,
                            !.source = "master"]
<1>1. ctl \in Seq(Control) /\ ctl # <<>> /\ ctl' = Tail(ctl)
  BY DEF TypeOK, TapControl
<1>2. /\ Len(ctl) \in Nat /\ Len(ctl) >= 1 /\ Tail(ctl) \in Seq(Control)
      /\ Len(Tail(ctl)) = Len(ctl) - 1 /\ Head(ctl) = ctl[1]
      /\ \A i \in 1..(Len(ctl) - 1) : Tail(ctl)[i] = ctl[i + 1]
  BY <1>1, HeadTailProperties, EmptySeq, LenProperties
<1>3. Tail(ctl) = <<>> <=> Len(Tail(ctl)) = 0
  BY <1>2, EmptySeq
<1>4. tap \in TapRecord
  BY DEF TypeOK, TapRecord, Worker
<1>5. Len(ctl) - 1 = 0 <=> Len(ctl) = 1
  BY <1>2
<1> QED BY <1>1, <1>2, <1>3, <1>4, <1>5 DEF TapControl

\* What the three messages do to the tap.
LEMMA TapAfter ==
  ASSUME TypeOK, TapControl
  PROVE  /\ ctl[1].type = "pub-port" =>
              /\ tap'.port = ctl[1].port /\ tap'.active = tap.active
              /\ tap'.fill = tap.fill /\ tap'.frames = tap.frames
         /\ ctl[1].type = "pub-start" =>
              /\ tap'.port = tap.port /\ tap'.active /\ tap'.fill = 0 /\ tap'.frames = 0
              /\ tap'.source = ctl[1].source
              /\ tap'.channels = IF ctl[1].source = "bus" THEN 2 ELSE ctl[1].channels
         /\ ctl[1].type = "pub-stop" =>
              tap'.port = tap.port /\ ~tap'.active /\ tap'.fill = 0 /\ tap'.frames = 0
         /\ ctl[1].type \in {"pub-port", "pub-start", "pub-stop"}
BY Taken DEF TapRecord

LEMMA WiredTaken ==
  ASSUME TypeOK, Wired, TapControl
  PROVE  Wired'
<1> DEFINE n == Len(ctl)
<1>1. /\ n \in Nat /\ n >= 1 /\ Len(ctl') = n - 1
      /\ \A i \in 1..(n - 1) : ctl'[i] = ctl[i + 1]
      /\ (ctl' = <<>> <=> n = 1) /\ ctl # <<>>
      /\ UNCHANGED <<source, channels, worker, started, direct, wk>>
  BY Taken DEF TapControl, store
<1>2. EffectiveChannels' = EffectiveChannels
  BY <1>1, EffectiveStands
<1> HIDE DEF n
<1>3. /\ 1 \in 1..n /\ n \in 1..n /\ \A i \in 1..(n - 1) : i + 1 \in 1..n /\ i + 1 # 1
      /\ \A i \in 1..(n - 1) : i # 1 => i - 1 \in 1..(n - 1) /\ (i - 1) + 1 = i
      /\ \A i \in 1..(n - 1) : (i + 1) - 1 = i
  BY <1>1
<1>4. PortsKnown'
  <2>1. tap'.port # None => tap'.port <= started
    BY <1>3, TapAfter DEF Wired, PortsKnown, n
  <2>2. \A i \in 1..(n - 1) :
          ctl'[i].type = "pub-port" /\ ctl'[i].port # None => ctl'[i].port <= started
    BY <1>1, <1>3 DEF Wired, PortsKnown, n
  <2> QED BY <1>1, <2>1, <2>2 DEF PortsKnown
<1>5. Chained'
  <2>1. tap'.active => tap'.port # None
    BY <1>3, TapAfter DEF Wired, Chained, n
  <2>2. ASSUME NEW i \in 1..(n - 1), ctl'[i].type = "pub-port"
        PROVE  IF i = 1 THEN ~tap'.active ELSE ctl'[i - 1].type # "pub-start"
    <3>1. ctl[i + 1].type = "pub-port" /\ ctl[i].type # "pub-start"
      BY <1>1, <1>3, <2>2 DEF Wired, Chained, n
    <3>2. CASE i = 1
      BY <1>3, <3>1, <3>2, TapAfter DEF Wired, Chained, n
    <3>3. CASE i # 1
      BY <1>1, <1>3, <3>1, <3>3
    <3> QED BY <3>2, <3>3
  <2>3. ASSUME NEW i \in 1..(n - 1), ctl'[i].type = "pub-start"
        PROVE  IF i = 1 THEN tap'.port # None
               ELSE ctl'[i - 1].type = "pub-port" /\ ctl'[i - 1].port # None
    <3>1. ctl[i].type = "pub-port" /\ ctl[i].port # None
      BY <1>1, <1>3, <2>3 DEF Wired, Chained, n
    <3>2. CASE i = 1
      BY <3>1, <3>2, TapAfter
    <3>3. CASE i # 1
      BY <1>1, <1>3, <3>1, <3>3
    <3> QED BY <3>2, <3>3
  <2> QED BY <1>1, <2>1, <2>2, <2>3 DEF Chained
<1>6. Closing'
  <2> SUFFICES ASSUME worker = None
               PROVE  /\ LeavesPort(None)'
                      /\ IF ctl' = <<>> THEN ~tap'.active
                         ELSE ctl'[Len(ctl')].type # "pub-start"
    BY <1>1 DEF Closing
  <2>1. LeavesPort(None)
    BY DEF Wired, Closing
  <2>2. ctl[n].type # "pub-start"
    BY <1>1 DEF Wired, Closing, n
  <2>3. ASSUME NEW i \in 1..(n - 1), ctl'[i].type = "pub-port",
               \A j \in 1..(n - 1) : j > i => ctl'[j].type # "pub-port"
        PROVE  ctl'[i].port = None
    <3>1. ASSUME NEW j \in 1..n, j > i + 1 PROVE ctl[j].type # "pub-port"
      <4>1. j - 1 \in 1..(n - 1) /\ j - 1 > i /\ (j - 1) + 1 = j
        BY <1>1, <3>1
      <4> QED BY <1>1, <2>3, <4>1
    <3>2. i + 1 \in 1..n /\ ctl'[i] = ctl[i + 1]
      BY <1>1, <1>3
    <3>3. \A k \in 1..n :
            ctl[k].type = "pub-port" /\ (\A j \in 1..n : j > k => ctl[j].type # "pub-port")
            => ctl[k].port = None
      BY <2>1 DEF LeavesPort, n
    <3>4. ctl[i + 1].type = "pub-port"
      BY <2>3, <3>2
    <3>5. ctl[i + 1].port = None
      BY <3>1, <3>2, <3>3, <3>4
    <3> QED BY <3>2, <3>5
  <2>4. ASSUME \A i \in 1..(n - 1) : ctl'[i].type # "pub-port" PROVE tap'.port = None
    <3>1. ASSUME NEW j \in 1..n, j > 1 PROVE ctl[j].type # "pub-port"
      <4>1. j - 1 \in 1..(n - 1) /\ (j - 1) + 1 = j
        BY <1>1, <3>1
      <4> QED BY <1>1, <2>4, <4>1
    <3>2. CASE ctl[1].type = "pub-port"
      BY <1>3, <2>1, <3>1, <3>2, TapAfter DEF LeavesPort, n
    <3>3. CASE ctl[1].type # "pub-port"
      <4>1. \A j \in 1..n : j > 1 \/ j = 1
        BY <1>1
      <4>2. tap.port = None
        BY <2>1, <3>1, <3>3, <4>1 DEF LeavesPort, n
      <4> QED BY <3>3, <4>2, TapAfter
    <3> QED BY <3>2, <3>3
  <2>5. CASE n = 1
    BY <1>1, <1>3, <2>2, <2>3, <2>4, <2>5, TapAfter DEF Wired, Chained, LeavesPort, n
  <2>6. CASE n # 1
    <3>1. n - 1 \in 1..(n - 1) /\ (n - 1) + 1 = n
      BY <1>1, <2>6
    <3>2. ctl'[Len(ctl')] = ctl[n]
      BY <1>1, <3>1
    <3> QED BY <1>1, <2>2, <2>3, <2>4, <2>6, <3>2 DEF LeavesPort
  <2> QED BY <2>5, <2>6
<1>7. Opening'
  <2> SUFFICES ASSUME worker # None PROVE Opening'
    BY <1>1 DEF Opening
  <2>1. Untouched => Untouched'
    BY <1>1 DEF Untouched
  <2>2. CASE /\ n = 1 /\ StartsWorker(ctl[1])
             /\ tap.port = worker /\ ~tap.active /\ Untouched
    <3>1. /\ ctl[1].type = "pub-start" /\ ctl[1].source = source
          /\ ctl[1].channels = EffectiveChannels
      BY <2>2, MessageFields DEF StartsWorker
    <3>2. /\ tap'.active /\ tap'.port = worker /\ tap'.source = source
          /\ tap'.channels = EffectiveChannels
      BY <2>2, <3>1, TapAfter DEF EffectiveChannels
    <3> QED BY <1>1, <1>2, <2>2, <3>2 DEF Opening
  <2>3. CASE /\ n >= 2 /\ StartsWorker(ctl[n]) /\ ctl[n - 1] = PubPort(worker)
             /\ tap.port # worker /\ Untouched
             /\ \A i \in 1..(n - 2) : ctl[i].type = "pub-port" => ctl[i].port # worker
    <3>1. n - 1 \in 1..(n - 1) /\ (n - 1) + 1 = n
      BY <1>1, <2>3
    <3>2. StartsWorker(ctl[Len(ctl)])'
      BY <1>1, <1>2, <2>3, <3>1 DEF StartsWorker
    <3>3. CASE n = 2
      <4>1. ctl[1] = PubPort(worker) /\ Len(ctl') = 1
        BY <1>1, <2>3, <3>3
      <4>2. ctl[1].type = "pub-port" /\ ctl[1].port = worker
        BY <4>1, MessageFields
      <4>3. ~tap.active
        BY <1>3, <4>2 DEF Wired, Chained, n
      <4>4. tap'.port = worker /\ ~tap'.active
        BY <4>2, <4>3, TapAfter
      <4>5. StartsWorker(ctl[1])'
        BY <3>2, <4>1
      <4> QED BY <1>1, <2>1, <2>3, <4>1, <4>4, <4>5 DEF Opening
    <3>4. CASE n > 2
      <4>1. /\ 1 \in 1..(n - 2) /\ n - 2 \in 1..(n - 1) /\ (n - 2) + 1 = n - 1
            /\ Len(ctl') >= 2 /\ Len(ctl') - 1 = n - 2 /\ Len(ctl') - 2 = n - 3
        BY <1>1, <3>4
      <4>2. ctl'[n - 2] = PubPort(worker)
        BY <1>1, <2>3, <4>1
      <4>3. tap'.port # worker
        BY <2>3, <4>1, TapAfter
      <4>4. \A i \in 1..(n - 3) : i \in 1..(n - 1) /\ i + 1 \in 1..(n - 2)
        BY <1>1
      <4>5. \A i \in 1..(n - 3) : ctl'[i].type = "pub-port" => ctl'[i].port # worker
        BY <1>1, <2>3, <4>4
      <4>6. PubPort(worker)' = PubPort(worker)
        BY <1>1 DEF PubPort
      <4> QED BY <1>1, <2>1, <2>3, <3>2, <4>1, <4>2, <4>3, <4>5, <4>6 DEF Opening
    <3> QED BY <1>1, <2>3, <3>3, <3>4
  <2> QED BY <1>1, <2>2, <2>3 DEF Wired, Opening, n
<1> QED BY <1>4, <1>5, <1>6, <1>7 DEF Wired

\* Messages under way mean that nothing has reached a worker.
LEMMA QuietStart ==
  ASSUME TypeOK, StoreOK, Opening, ctl # <<>>
  PROVE  Untouched
BY NewWorkerFields DEF StoreOK, Opening, Untouched

LEMMA WiredOther ==
  ASSUME TypeOK, StoreOK, Wired,
         \/ SetPublishChannels \/ SetPublishSource \/ Connect \/ OnWorkerError
         \/ TapBlock \/ WorkerActs
  PROVE  Wired'
<1>1. CASE SetPublishChannels \/ SetPublishSource
  BY <1>1, WiredFrame DEF SetPublishChannels, SetPublishSource, StoreOK, Untouched
<1>2. CASE Connect \/ OnWorkerError
  BY <1>2, WiredFrame DEF Connect, OnWorkerError, Untouched
<1>3. CASE TapBlock
  <2>1. /\ tap'.active = tap.active /\ tap'.port = tap.port
        /\ tap'.source = tap.source /\ tap'.channels = tap.channels
    BY <1>3 DEF TapBlock, TypeOK
  <2>2. worker # None /\ ctl # <<>> => tap.port # worker
    BY <1>3 DEF Wired, Opening, TapBlock
  <2>3. worker # None /\ ctl # <<>> /\ Untouched => Untouched'
    BY <1>3, <2>2 DEF Untouched, TapBlock, Post
  <2> QED BY <1>3, <2>1, <2>3, WiredFrame DEF TapBlock, store
<1>4. CASE WorkerActs
  <2>1. Untouched => Untouched'
    BY <1>4
       DEF Untouched, TypeOK, WorkerActs, Boot, Loaded, Ready, Probed, InitFails,
           HandshakeCompletes, TransportCloses, ReportClosed, StatsTick, HandlePcm, Advance
  <2> QED BY <1>4, <2>1, WorkerExists, WiredFrame DEF store
<1> QED BY <1>1, <1>2, <1>3, <1>4

LEMMA WiredMessage ==
  ASSUME TypeOK, StoreOK, Wired, Disconnect \/ OnWorkerMsg
  PROVE  Wired'
<1>1. worker # None
  BY DEF StoreOK, Disconnect, OnWorkerMsg
<1>2. CASE Disconnect
  BY <1>1, <1>2, WiredEnd DEF Disconnect, TerminateWorker
<1>3. CASE OnWorkerMsg
  <2>1. CASE OnWtReady \/ OnStats
    BY <1>3, <2>1, WiredFrame DEF OnWorkerMsg, OnWtReady, OnStats, Untouched
  <2>2. CASE OnWtClosed
    BY <1>1, <1>3, <2>2, WiredEnd DEF OnWorkerMsg, OnWtClosed, TerminateWorker
  <2> QED BY <1>3, <2>1, <2>2 DEF OnWorkerMsg
<1> QED BY <1>2, <1>3
--------------------------------------------------------------------------------
(* The timeline *)

\* Nothing under way and nothing in the muxer: no timeline to break.
LEMMA NoTimeline ==
  ASSUME direct = <<>>, wk.muxed = None, tap.fill <= tap.frames
  PROVE  Continuous
<1>1. Len(direct) = 0
  OBVIOUS
<1> QED BY <1>1 DEF Continuous, WidthsAgree

LEMMA ContinuousUser ==
  ASSUME TypeOK, StoreOK, Continuous,
         \/ SetPublishChannels \/ SetPublishSource \/ Connect \/ Resolved \/ ResolveFails
         \/ Disconnect \/ OnWorkerMsg \/ OnWorkerError
  PROVE  Continuous'
<1>1. CASE UNCHANGED <<direct, tap, wk>>
  BY <1>1 DEF Continuous, WidthsAgree, NextPts
<1>2. CASE direct' = <<>> /\ wk'.muxed = None /\ UNCHANGED tap
  <2>1. Len(direct') = 0
    BY <1>2
  <2> QED BY <1>2, <2>1 DEF Continuous, WidthsAgree
<1>3. CASE Resolved
  BY <1>2, <1>3, NewWorkerFields DEF Resolved, StoreOK
<1>4. CASE Disconnect
  BY <1>2, <1>4, NewWorkerFields DEF Disconnect, TerminateWorker
<1>5. CASE OnWorkerMsg
  BY <1>1, <1>2, <1>5, NewWorkerFields
     DEF OnWorkerMsg, OnWtReady, OnStats, OnWtClosed, TerminateWorker
<1> QED
  BY <1>1, <1>3, <1>4, <1>5
     DEF SetPublishChannels, SetPublishSource, Connect, ResolveFails, OnWorkerError

LEMMA ContinuousTaken ==
  ASSUME TypeOK, StoreOK, Opening, Continuous, TapControl
  PROVE  Continuous'
<1>1. Untouched /\ UNCHANGED <<direct, wk>>
  BY QuietStart DEF TapControl
<1>2. tap'.fill <= tap'.frames
  BY TapAfter DEF Continuous
<1>3. Len(direct') = 0
  BY <1>1 DEF Untouched
<1> QED BY <1>1, <1>2, <1>3 DEF Untouched, Continuous, WidthsAgree

LEMMA ContinuousBlock ==
  ASSUME TypeOK, StoreOK, Opening, Continuous, TapBlock
  PROVE  Continuous'
<1> DEFINE n == Len(direct)
           b == [pts |-> tap'.frames - BATCH, channels |-> tap.channels]
<1>1. /\ tap.fill \in 0..(BATCH - 1) /\ tap.frames \in Nat /\ tap.fill <= tap.frames
      /\ BATCH \in Nat /\ BATCH > 0 /\ direct \in Seq(Batch) /\ n \in Nat
      /\ tap'.frames = tap.frames + 1
      /\ tap'.fill = IF tap.fill + 1 < BATCH THEN tap.fill + 1 ELSE 0
      /\ UNCHANGED wk
  BY Constant, LenProperties DEF TypeOK, Continuous, TapBlock
<1>2. tap'.fill <= tap'.frames
  BY <1>1
<1>3. CASE tap.fill + 1 < BATCH
  <2>1. NextPts' = NextPts
    BY <1>1, <1>3 DEF NextPts
  <2> QED BY <1>1, <1>2, <1>3, <2>1 DEF Continuous, WidthsAgree, TapBlock
<1>4. CASE ~(tap.fill + 1 < BATCH)
  <2>1. /\ NextPts = tap'.frames - BATCH /\ NextPts' = NextPts + BATCH
        /\ NextPts \in Int
    BY <1>1, <1>4 DEF NextPts
  <2>2. b.pts = NextPts /\ b.channels = tap.channels
    BY <2>1
  <2> HIDE DEF b
  <2>3. direct' = Post(b)
    BY <1>4 DEF TapBlock, b
  <2>4. CASE tap.port # None /\ tap.port = worker
    <3>1. direct' = Append(direct, b)
      BY <2>3, <2>4 DEF Post
    <3>2. /\ Len(direct') = n + 1 /\ direct'[n + 1] = b /\ direct' # <<>>
          /\ \A i \in 1..n : direct'[i] = direct[i]
      BY <1>1, <3>1
    <3>3. ctl = <<>> /\ tap.channels = wk.channels
      BY <2>4 DEF Opening, StoreOK, TapBlock
    <3>4. n = 0 <=> direct = <<>>
      BY <1>1, EmptySeq
    <3> HIDE DEF n
    <3>5. \A i \in 1..(n + 1) : i \in 1..n \/ i = n + 1
      BY <1>1
    <3>6. \A i \in 1..n : i > 1 => i - 1 \in 1..n
      BY <1>1
    <3>7. n # 0 => n \in 1..n /\ 1 \in 1..n /\ n + 1 > 1 /\ (n + 1) - 1 = n
      BY <1>1
    <3>8. WidthsAgree'
      <4>1. DOMAIN direct' = 1..(n + 1) /\ DOMAIN direct = 1..n
        BY <1>1, <3>1, LenProperties, <3>2 DEF n
      <4> QED BY <1>1, <2>2, <3>2, <3>3, <3>5, <4>1 DEF Continuous, WidthsAgree
    <3>9. direct'[Len(direct')].pts + BATCH = NextPts'
      BY <2>1, <2>2, <3>2
    <3>10. ASSUME NEW i \in 1..Len(direct'), i > 1
           PROVE  direct'[i].pts = direct'[i - 1].pts + BATCH
      <4>1. CASE i \in 1..n
        BY <3>2, <3>6, <3>10, <4>1 DEF Continuous, n
      <4>2. CASE i = n + 1
        <5>1. n # 0 /\ direct # <<>> /\ direct'[i - 1] = direct[n]
          BY <1>1, <3>2, <3>4, <3>7, <3>10, <4>2
        <5> QED BY <2>2, <3>2, <4>2, <5>1 DEF Continuous, n
      <4> QED BY <3>2, <3>5, <4>1, <4>2
    <3>11. wk.muxed # None /\ wk.phase = "running" => wk.muxed + BATCH = direct'[1].pts
      <4>1. CASE n = 0
        BY <2>2, <3>2, <3>4, <4>1 DEF Continuous
      <4>2. CASE n # 0
        BY <3>2, <3>4, <3>7, <4>2 DEF Continuous
      <4> QED BY <4>1, <4>2
    <3> QED BY <1>1, <1>2, <3>2, <3>8, <3>9, <3>10, <3>11 DEF Continuous
  <2>5. CASE ~(tap.port # None /\ tap.port = worker)
    <3>1. Untouched /\ direct' = direct
      BY <2>3, <2>5, NewWorkerFields DEF Post, StoreOK, Opening, Untouched
    <3>2. Len(direct') = 0
      BY <3>1 DEF Untouched
    <3> QED BY <1>1, <1>2, <3>1, <3>2 DEF Continuous, Untouched, WidthsAgree
  <2> QED BY <2>4, <2>5
<1> QED BY <1>3, <1>4

LEMMA ContinuousWorker ==
  ASSUME TypeOK, Continuous, WorkerActs, ~HandlePcm
  PROVE  Continuous'
<1>1. UNCHANGED <<direct, tap>> /\ wk'.muxed = wk.muxed /\ wk'.channels = wk.channels
  BY DEF WorkerActs, TypeOK, Boot, Loaded, Ready, Probed, InitFails, HandshakeCompletes,
         TransportCloses, ReportClosed, StatsTick, Advance
<1>2. wk.muxed # None => wk'.phase = wk.phase /\ wk'.handshake
  BY DEF WorkerActs, TypeOK, Continuous, Boot, Loaded, Ready, Probed, InitFails,
         HandshakeCompletes, TransportCloses, ReportClosed, StatsTick, Advance
<1> QED BY <1>1, <1>2 DEF Continuous, WidthsAgree, NextPts

\* A batch is taken: the next one in line follows it.
LEMMA ContinuousPcm ==
  ASSUME TypeOK, Continuous, HandlePcm
  PROVE  /\ Continuous'
         /\ wk.muxed # None /\ wk'.muxed # wk.muxed => wk'.muxed = wk.muxed + BATCH
<1> DEFINE n == Len(direct)
<1>1. /\ direct \in Seq(Batch) /\ direct # <<>> /\ direct' = Tail(direct) /\ UNCHANGED tap
      /\ n \in Nat
  BY LenProperties DEF TypeOK, HandlePcm
<1>2. /\ n >= 1 /\ Len(direct') = n - 1 /\ Head(direct) = direct[1]
      /\ direct' \in Seq(Batch)
      /\ \A i \in 1..(n - 1) : direct'[i] = direct[i + 1]
  BY <1>1, HeadTailProperties, EmptySeq
<1>3. DOMAIN direct = 1..n /\ DOMAIN direct' = 1..(n - 1) /\ (n - 1 = 0 <=> direct' = <<>>)
  BY <1>1, <1>2, LenProperties, EmptySeq
<1>4. /\ wk'.channels = wk.channels /\ wk'.handshake = wk.handshake
      /\ \/ /\ Accepts(direct[1]) /\ wk'.muxed = direct[1].pts /\ wk'.phase = wk.phase
         \/ /\ Accepts(direct[1]) /\ wk'.muxed = wk.muxed /\ wk'.phase = "over"
         \/ ~Accepts(direct[1]) /\ wk' = wk
  BY <1>2 DEF HandlePcm, Push, PushFails, TypeOK
<1>5. wk.phase = "running" /\ wk.handshake => Accepts(direct[1])
  <2>1. 1 \in DOMAIN direct
    BY <1>2, <1>3
  <2> QED BY <2>1 DEF Continuous, WidthsAgree, Accepts
<1> HIDE DEF n
<1>6. \A i \in 1..(n - 1) : i + 1 \in 1..n /\ i + 1 > 1 /\ (i + 1) - 1 = i
      /\ (i > 1 => i - 1 \in 1..(n - 1) /\ (i - 1) + 1 = i)
  BY <1>1, <1>2 DEF n
<1>7. WidthsAgree'
  BY <1>2, <1>3, <1>4, <1>6 DEF Continuous, WidthsAgree
<1>8. \A i \in 1..Len(direct') : i > 1 => direct'[i].pts = direct'[i - 1].pts + BATCH
  <2> SUFFICES ASSUME NEW i \in 1..(n - 1), i > 1
               PROVE  direct'[i].pts = direct'[i - 1].pts + BATCH
    BY <1>2
  <2>1. direct'[i] = direct[i + 1] /\ direct'[i - 1] = direct[i]
    BY <1>2, <1>6
  <2>2. direct[i + 1].pts = direct[i].pts + BATCH
    BY <1>6 DEF Continuous, n
  <2> QED BY <2>1, <2>2
<1>9. NextPts' = NextPts /\ direct[n].pts + BATCH = NextPts
  BY <1>1 DEF NextPts, Continuous, n
<1>10. direct' # <<>> => direct'[Len(direct')].pts + BATCH = NextPts'
  <2> SUFFICES ASSUME direct' # <<>> PROVE direct'[n - 1].pts + BATCH = NextPts
    BY <1>2, <1>9
  <2>1. n - 1 \in 1..(n - 1) /\ (n - 1) + 1 = n
    BY <1>1, <1>2, <1>3 DEF n
  <2> QED BY <1>2, <1>9, <2>1
<1>11. direct[1].pts + BATCH = IF direct' = <<>> THEN NextPts' ELSE direct'[1].pts
  <2>1. CASE direct' = <<>>
    BY <1>1, <1>3, <1>9, <2>1 DEF n
  <2>2. CASE direct' # <<>>
    <3>1. 1 \in 1..(n - 1) /\ 2 \in 1..n
      BY <1>1, <1>2, <1>3, <2>2 DEF n
    <3>2. direct[2].pts = direct[2 - 1].pts + BATCH
      BY <3>1 DEF Continuous, n
    <3> QED BY <1>2, <2>2, <3>1, <3>2
  <2> QED BY <2>1, <2>2
<1>12. wk'.muxed # None => wk'.handshake /\ wk'.phase \in {"running", "over"}
  BY <1>4 DEF Continuous, Accepts
<1>13. wk'.muxed # None /\ wk'.phase = "running" => wk'.muxed = direct[1].pts
  BY <1>4, <1>5 DEF Continuous
<1>14. Continuous'
  BY <1>1, <1>7, <1>8, <1>10, <1>11, <1>12, <1>13 DEF Continuous
<1>15. wk.muxed # None /\ wk'.muxed # wk.muxed => wk'.muxed = wk.muxed + BATCH
  BY <1>1, <1>4 DEF Continuous, Accepts
<1> QED BY <1>14, <1>15
--------------------------------------------------------------------------------
(* The invariant and what follows from it *)

LEMMA NextInv ==
  ASSUME IInv, Next
  PROVE  IInv'
<1>1. TypeOK /\ StoreOK /\ Wired /\ Opening /\ Continuous
  BY DEF IInv, Wired
<1>2. SUFFICES TypeOK' /\ StoreOK' /\ Wired' /\ Continuous'
  BY DEF IInv, Wired
<1>3. CASE SetPublishChannels \/ SetPublishSource \/ Connect \/ OnWorkerError
  BY <1>1, <1>3, StoreType, UserStore, WiredOther, ContinuousUser
<1>4. CASE Resolved
  <2>1. worker = None /\ Untouched'
    BY <1>1, <1>4, NewWorkerFields DEF StoreOK, Resolved, Untouched
  <2> QED BY <1>1, <1>4, <2>1, ResolvedType, UserStore, WiredBegin, ContinuousUser
<1>5. CASE ResolveFails
  <2>1. Wired'
    BY <1>1, <1>5, WiredStop DEF StoreOK, ResolveFails
  <2> QED BY <1>1, <1>5, <2>1, StoreType, UserStore, ContinuousUser
<1>6. CASE Disconnect \/ OnWorkerMsg
  BY <1>1, <1>6, MessageStepType, MessageStore, WiredMessage, ContinuousUser
<1>7. CASE TapControl
  BY <1>1, <1>7, TapControlType, OtherStore, WiredTaken, ContinuousTaken DEF TapActs
<1>8. CASE TapBlock
  BY <1>1, <1>8, TapBlockType, OtherStore, WiredOther, ContinuousBlock DEF TapActs
<1>9. CASE WorkerActs
  <2>1. TypeOK'
    BY <1>1, <1>9, WorkerType, HandlePcmType DEF WorkerActs
  <2> QED BY <1>1, <1>9, <2>1, OtherStore, WiredOther, ContinuousWorker, ContinuousPcm
<1> QED BY <1>3, <1>4, <1>5, <1>6, <1>7, <1>8, <1>9 DEF Next, WorkerActs

LEMMA IdleInv ==
  ASSUME IInv, UNCHANGED vars
  PROVE  IInv'
<1>1. /\ UNCHANGED <<status, channels, source, resolving, worker, started, stats>>
      /\ UNCHANGED <<ctl, reports, direct, tap, wk>>
  BY DEF vars, store
<1>2. TypeOK' /\ StoreOK'
  BY <1>1, EffectiveStands DEF IInv, TypeOK, StoreOK
<1>3. Wired'
  BY <1>1, WiredFrame DEF IInv, Wired, Untouched
<1>4. Continuous'
  BY <1>1 DEF IInv, Continuous, WidthsAgree, NextPts
<1> QED BY <1>2, <1>3, <1>4 DEF IInv, Wired

\* The inductive invariant, however many sessions follow on one another and
\* however slowly the worklet and the worker handle what is sent to them.
THEOREM Invariant == Spec => []IInv
<1>1. IInv /\ [Next]_vars => IInv'
  BY NextInv, IdleInv
<1> QED BY InitInv, <1>1, PTL DEF Spec

\* Every state of a publishing session has the type publish.ts, the worker and
\* the worklet give it.
THEOREM PublishTypeCorrect == Spec => []TypeOK
<1>1. IInv => TypeOK
  BY DEF IInv
<1> QED BY Invariant, <1>1, PTL

\* The tap is where the store thinks it is as soon as the worklet has handled the
\* port, start and stop messages of publish.ts, and it never runs without a port.
THEOREM TapServes == Spec => []TapServesSession
<1>1. ASSUME IInv PROVE TapServesSession
  <2>1. tap.active => tap.port # None
    BY <1>1 DEF IInv, Chained
  <2>2. ASSUME ctl = <<>>
        PROVE  IF worker = None THEN ~tap.active /\ tap.port = None
               ELSE /\ tap.active /\ tap.port = worker
                    /\ tap.source = source /\ tap.channels = EffectiveChannels
    <3>1. Len(ctl) = 0
      BY <2>2
    <3>2. CASE worker = None
      BY <1>1, <2>2, <3>1, <3>2 DEF IInv, Closing, LeavesPort
    <3>3. CASE worker # None
      BY <1>1, <3>1, <3>3 DEF IInv, Opening
    <3> QED BY <3>2, <3>3
  <2> QED BY <2>1, <2>2 DEF TapServesSession
<1> QED BY Invariant, <1>1, PTL

\* No batch of the tap reaches a worker whose muxer was made for another width:
\* the "wiring bug" branch of handlePcm is dead.
THEOREM WidthsAlwaysAgree == Spec => []WidthsAgree
<1>1. IInv => WidthsAgree
  BY DEF IInv, Continuous
<1> QED BY Invariant, <1>1, PTL

\* The status the PUBLISH button shows is that of the session: "disconnected" only
\* when nothing of one is left, "connected" only with a worker.
THEOREM StatusTrue == Spec => []StatusTellsTheTruth
<1>1. IInv => StatusTellsTheTruth
  BY DEF IInv, StoreOK, StatusTellsTheTruth
<1> QED BY Invariant, <1>1, PTL

\* The timeline the worker hands to its TS muxer has no gap and no overlap from
\* the handshake to the end of the session.
THEOREM Gapless == Spec => TimelineGapless
<1> DEFINE Follows == worker' = worker /\ wk.muxed # None /\ wk'.muxed # wk.muxed
                      => wk'.muxed = wk.muxed + BATCH
<1>1. ASSUME IInv, Next PROVE Follows
  <2>1. TypeOK /\ StoreOK /\ Continuous
    BY <1>1 DEF IInv
  <2>2. CASE HandlePcm
    BY <2>1, <2>2, ContinuousPcm
  <2>3. CASE WorkerActs /\ ~HandlePcm
    BY <2>1, <2>3
       DEF WorkerActs, TypeOK, Boot, Loaded, Ready, Probed, InitFails, HandshakeCompletes,
           TransportCloses, ReportClosed, StatsTick, Advance
  <2>4. CASE Resolved \/ Disconnect \/ OnWorkerMsg
    BY <2>1, <2>4, NewWorkerFields
       DEF StoreOK, Resolved, Disconnect, OnWorkerMsg, OnWtReady, OnStats, OnWtClosed,
           TerminateWorker
  <2>5. CASE \/ SetPublishChannels \/ SetPublishSource \/ Connect \/ ResolveFails
             \/ OnWorkerError \/ TapControl \/ TapBlock
    BY <2>5
       DEF SetPublishChannels, SetPublishSource, Connect, ResolveFails, OnWorkerError,
           TapControl, TapBlock
  <2> QED BY <1>1, <2>2, <2>3, <2>4, <2>5 DEF Next, WorkerActs
<1>2. IInv /\ [Next]_vars => [Follows]_vars
  BY <1>1
<1>3. [][Follows]_vars => TimelineGapless
  BY DEF TimelineGapless
<1> QED BY Invariant, <1>2, <1>3, PTL DEF Spec
================================================================================
