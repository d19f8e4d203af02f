--------------------------------- MODULE Publish ---------------------------------
(****************************************************************************)
(* Publishing the mix (frontend/src/quicsrt): the store behind the PUBLISH  *)
(* button (publish.ts), the publish worker (publish-worker.ts) and the      *)
(* worklet's output tap (worklet-template.js).                              *)
(*                                                                          *)
(* Store and tap talk over the worklet's port (ctl), the worker reports to  *)
(* the store (reports), and the tap posts batches to the worker over a port *)
(* made anew for every worker (direct).  A batch is its channel count and   *)
(* the number of blocks before it, its pts.  terminate() drops whatever a   *)
(* worker has queued, so the "stop" posted just before it has no effect     *)
(* anyone could see.  The transport, the SRT engine and the TS muxer are    *)
(* external.  Without a port the tap posts to the main thread instead       *)
(* (relayPubPcm); TapServesSession is why that path is left out.            *)
(*                                                                          *)
(* Also left out: the time before the worklet's node exists, in which       *)
(* sendToWorklet drops every message, and the SRT peer's "close", which     *)
(* only changes the text shown beside the status.                           *)
(*                                                                          *)
(* Bounds: MaxWorker workers in a run, MaxBlocks blocks per tap session,    *)
(* a click that connects finds at most MaxCtl messages unhandled.           *)
(****************************************************************************)
EXTENDS Integers, Sequences

CONSTANTS
  Counts,         \* output channel counts, 2 among them
  BATCH,          \* blocks in a batch (8 of 128 frames in the code)
  MaxWorker, MaxBlocks, MaxCtl,
  None

ASSUME PublishAssumption ==
  /\ 2 \in Counts /\ Counts \subseteq Nat
  /\ BATCH \in Nat \ {0} /\ MaxWorker \in Nat /\ MaxBlocks \in Nat /\ MaxCtl \in Nat
  /\ None \notin Int

VARIABLES
  \* the store
  status, channels, source,
  resolving,      \* connectPublish awaits resolveCertHash
  worker,         \* number of the worker, or None
  started,        \* workers started so far
  stats,          \* stats are shown
  \* queues
  ctl, reports, direct,
  \* the worklet's tap and the state of the worker
  tap, wk

store == <<status, channels, source, resolving, worker, started, stats>>
vars == <<store, ctl, reports, direct, tap, wk>>

Source == {"master", "bus"}

NoWorker == [phase |-> "none", channels |-> 2, transport |-> "open",
             handshake |-> FALSE, muxed |-> None]

Init ==
  /\ status = "disconnected" /\ channels = 2 /\ source = "master"
  /\ resolving = FALSE /\ worker = None /\ started = 0 /\ stats = FALSE
  /\ ctl = <<>> /\ reports = <<>> /\ direct = <<>>
  /\ tap = [active |-> FALSE, source |-> "master", channels |-> 2,
            fill |-> 0, frames |-> 0, port |-> None]
  /\ wk = NoWorker
--------------------------------------------------------------------------------
(* The store *)

PubPort(w) == [type |-> "pub-port", port |-> w]
PubStart(n, src) == [type |-> "pub-start", channels |-> n, source |-> src]
PubStop == [type |-> "pub-stop"]
WtReady == [type |-> "wtReady"]
WtClosed(err) == [type |-> "wtClosed", error |-> err]
Stats == [type |-> "stats"]

PubActive == status \in {"connected", "connecting"}

\* A bus is published in stereo whatever the channel count is set to.
EffectiveChannels == IF source = "bus" THEN 2 ELSE channels

\* The setters are ignored unless disconnected.
SetPublishChannels ==
  /\ status = "disconnected"
  /\ channels' \in Counts
  /\ UNCHANGED <<status, source, resolving, worker, started, stats, ctl, reports, direct, tap, wk>>

SetPublishSource ==
  /\ status = "disconnected"
  /\ source' \in Source
  /\ UNCHANGED <<status, channels, resolving, worker, started, stats, ctl, reports, direct, tap, wk>>

\* connectPublish up to its await.  The button is disabled while connecting.
Connect ==
  /\ ~PubActive /\ worker = None /\ Len(ctl) <= MaxCtl
  /\ status' = "connecting" /\ resolving' = TRUE
  /\ UNCHANGED <<channels, source, worker, started, stats, ctl, reports, direct, tap, wk>>

\* Mutant of NewWorker: a bus is muxed with the configured channel count.
NewWorkerRawChannels == [NoWorker EXCEPT !.phase = "booting", !.channels = channels]

\* A worker with init and its end of the direct port posted to it.
NewWorker == [NoWorker EXCEPT !.phase = "booting", !.channels = EffectiveChannels]

OpenTap(w) == <<PubPort(w), PubStart(EffectiveChannels, source)>>

\* Mutant of CloseTap: the port is left in place.
CloseTapKeepsPort == <<PubStop>>

CloseTap == <<PubStop, PubPort(None)>>

\* The rest of connectPublish.
Resolved ==
  /\ resolving /\ started < MaxWorker
  /\ resolving' = FALSE
  /\ started' = started + 1 /\ worker' = started + 1
  /\ wk' = NewWorker
  /\ ctl' = ctl \o OpenTap(started + 1)
  /\ UNCHANGED <<status, channels, source, stats, reports, direct, tap>>

ResolveFails ==
  /\ resolving
  /\ resolving' = FALSE
  /\ status' = "error"
  /\ ctl' = Append(ctl, PubStop)
  /\ UNCHANGED <<channels, source, worker, started, stats, reports, direct, tap, wk>>

\* Mutant of TerminateWorker: the handle is kept.
TerminateWorkerKeepsHandle == wk' = NoWorker /\ reports' = <<>> /\ direct' = <<>> /\ UNCHANGED worker

TerminateWorker == wk' = NoWorker /\ reports' = <<>> /\ direct' = <<>> /\ worker' = None

\* disconnectPublish; the button offers it only when connected.
Disconnect ==
  /\ status = "connected"
  /\ ctl' = ctl \o CloseTap
  /\ TerminateWorker
  /\ status' = "disconnected" /\ stats' = FALSE
  /\ UNCHANGED <<channels, source, resolving, started, tap>>

OnWtReady ==
  /\ Head(reports) = WtReady
  /\ status' = "connected"
  /\ reports' = Tail(reports)
  /\ UNCHANGED <<worker, stats, ctl, direct, wk>>

OnStats ==
  /\ Head(reports) = Stats
  /\ stats' = TRUE
  /\ reports' = Tail(reports)
  /\ UNCHANGED <<status, worker, ctl, direct, wk>>

\* The session is over: full reset.
OnWtClosed ==
  /\ Head(reports).type = "wtClosed"
  /\ ctl' = ctl \o CloseTap
  /\ TerminateWorker
  /\ status' = IF Head(reports).error THEN "error" ELSE "disconnected"
  /\ stats' = FALSE

OnWorkerMsg ==
  /\ reports # <<>>
  /\ OnWtReady \/ OnStats \/ OnWtClosed
  /\ UNCHANGED <<channels, source, resolving, started, tap>>

\* w.onerror: an uncaught exception in the worker, or a script that does not load.
OnWorkerError ==
  /\ worker # None
  /\ status' = "error"
  /\ UNCHANGED <<channels, source, resolving, worker, started, stats, ctl, reports, direct, tap, wk>>
--------------------------------------------------------------------------------
(* The worklet's tap *)

\* A start begins a new accumulator and a new timeline; the port is set apart.
TapControl ==
  /\ ctl # <<>>
  /\ LET m == Head(ctl)
     IN  \/ /\ m.type = "pub-port"
            /\ tap' = [tap EXCEPT !.port = m.port]
         \/ /\ m.type = "pub-start"
            /\ tap' = [tap EXCEPT !.active = TRUE, !.fill = 0, !.frames = 0, !.source = m.source,
                                  !.channels = IF m.source = "bus" THEN 2 ELSE m.channels]
         \/ /\ m.type = "pub-stop"
            /\ tap' = [tap EXCEPT !.active = FALSE, !.fill = 0, !.frames = 0, !.source = "master"]
  /\ ctl' = Tail(ctl)
  /\ UNCHANGED <<store, reports, direct, wk>>

\* A port whose worker is terminated swallows what is posted on it.
Post(b) == IF tap.port # None /\ tap.port = worker THEN Append(direct, b) ELSE direct

\* Mutant of TapBlock: a full accumulator is not emptied.
TapBlockKeepsFill ==
  /\ tap.active /\ tap.frames < MaxBlocks
  /\ tap' = [tap EXCEPT !.frames = @ + 1, !.fill = @ + 1]
  /\ direct' = IF tap.fill + 1 < BATCH THEN direct
               ELSE Post([pts |-> tap'.frames - BATCH, channels |-> tap.channels])
  /\ UNCHANGED <<store, ctl, reports, wk>>

\* One rendered block is appended; a full batch is posted with the pts of its
\* first frame.
TapBlock ==
  /\ tap.active /\ tap.frames < MaxBlocks
  /\ tap' = [tap EXCEPT !.frames = @ + 1, !.fill = IF @ + 1 < BATCH THEN @ + 1 ELSE 0]
  /\ direct' = IF tap.fill + 1 < BATCH THEN direct
               ELSE Post([pts |-> tap'.frames - BATCH, channels |-> tap.channels])
  /\ UNCHANGED <<store, ctl, reports, wk>>
--------------------------------------------------------------------------------
(* The worker.  The muxer exists while opening, probing and running, the SRT  *)
(* engine while running.                                                      *)

Report(m) == reports' = Append(reports, m)

Advance(from, to) ==
  /\ wk.phase = from
  /\ wk' = [wk EXCEPT !.phase = to]
  /\ UNCHANGED <<store, ctl, direct, tap>>

\* init and pcm-port are handled; doInit awaits the wasm modules.
Boot == Advance("booting", "loading") /\ UNCHANGED reports

\* Muxer made, WebTransport created; its ready is awaited.
Loaded == Advance("loading", "opening") /\ UNCHANGED reports

\* The transport is ready; its stats are awaited.
Ready == Advance("opening", "probing") /\ UNCHANGED reports

\* The rest of doInit: SRT engine, reader, writer and the handlers of wt.closed.
Probed == Advance("probing", "running") /\ Report(WtReady)

\* Mutant of InitFails: the worker stops without a word.
InitFailsSilently ==
  /\ wk.phase \in {"loading", "opening", "probing"}
  /\ Advance(wk.phase, "over") /\ UNCHANGED reports

\* doInit's catch: a wasm module, the transport or the SRT engine failed, or the
\* transport closed before its streams were made, with no handler set yet.
InitFails ==
  /\ wk.phase \in {"loading", "opening", "probing"}
  /\ Advance(wk.phase, "over") /\ Report(WtClosed(TRUE))

HandshakeCompletes ==
  /\ wk.phase = "running" /\ wk.transport = "open" /\ ~wk.handshake
  /\ wk' = [wk EXCEPT !.handshake = TRUE]
  /\ UNCHANGED <<store, ctl, reports, direct, tap>>

TransportCloses ==
  /\ wk.phase \in {"probing", "running"} /\ wk.transport = "open"
  /\ wk' = [wk EXCEPT !.transport = "closed"]
  /\ UNCHANGED <<store, ctl, reports, direct, tap>>

\* The handlers of wt.closed, set once doInit is through.
ReportClosed ==
  /\ wk.phase = "running" /\ wk.transport = "closed"
  /\ wk' = [wk EXCEPT !.transport = "reported"]
  /\ \E err \in BOOLEAN : Report(WtClosed(err))
  /\ UNCHANGED <<store, ctl, direct, tap>>

\* The stats timer; one report at a time is on its way.
StatsTick ==
  /\ wk.phase = "running"
  /\ \A i \in DOMAIN reports : reports[i] # Stats
  /\ Report(Stats)
  /\ UNCHANGED <<store, ctl, direct, tap, wk>>

\* What handlePcm lets through to the muxer.
Accepts(b) ==
  wk.phase = "running" /\ b.channels = wk.channels /\ wk.handshake

Push(b) ==
  /\ Accepts(b)
  /\ wk' = [wk EXCEPT !.muxed = b.pts]
  /\ UNCHANGED reports

\* The muxer throws: report, then stop for good.
PushFails(b) ==
  /\ Accepts(b)
  /\ wk' = [wk EXCEPT !.phase = "over"]
  /\ Report(WtClosed(TRUE))

HandlePcm ==
  /\ direct # <<>> /\ wk.phase # "booting"
  /\ LET b == Head(direct)
     IN  Push(b) \/ PushFails(b) \/ (~Accepts(b) /\ UNCHANGED <<wk, reports>>)
  /\ direct' = Tail(direct)
  /\ UNCHANGED <<store, ctl, tap>>

Next ==
  \/ SetPublishChannels \/ SetPublishSource
  \/ Connect \/ Resolved \/ ResolveFails \/ Disconnect \/ OnWorkerMsg \/ OnWorkerError
  \/ TapControl \/ TapBlock
  \/ Boot \/ Loaded \/ Ready \/ Probed \/ InitFails \/ HandshakeCompletes
  \/ TransportCloses \/ ReportClosed \/ StatsTick \/ HandlePcm

\* Either way doInit settles once the transport is ready.
Settles == wk.phase = "probing" /\ (Probed \/ InitFails)

\* The event loops run, and getStats settles.
Fairness ==
  /\ WF_vars(OnWorkerMsg) /\ WF_vars(TapControl)
  /\ WF_vars(Settles) /\ WF_vars(ReportClosed)

Spec == Init /\ [][Next]_vars /\ Fairness
--------------------------------------------------------------------------------
(* Properties *)

Control ==
  [type : {"pub-port"}, port : 1..MaxWorker \cup {None}]
  \cup [type : {"pub-start"}, channels : Counts, source : Source]
  \cup [type : {"pub-stop"}]

Batch == [pts : 0..MaxBlocks, channels : Counts]

TypeOK ==
  /\ status \in {"disconnected", "connecting", "connected", "error"}
  /\ channels \in Counts /\ source \in Source
  /\ resolving \in BOOLEAN /\ stats \in BOOLEAN
  /\ started \in 0..MaxWorker /\ worker \in 1..started \cup {None}
  /\ ctl \in Seq(Control) /\ direct \in Seq(Batch)
  /\ reports \in Seq({WtReady, Stats} \cup {WtClosed(err) : err \in BOOLEAN})
  /\ tap \in [active : BOOLEAN, source : Source, channels : Counts, fill : 0..(BATCH - 1),
              frames : 0..MaxBlocks, port : 1..MaxWorker \cup {None}]
  /\ wk \in [phase : {"none", "booting", "loading", "opening", "probing", "running", "over"},
             channels : Counts, transport : {"open", "closed", "reported"},
             handshake : BOOLEAN, muxed : 0..MaxBlocks \cup {None}]

\* Whichever way the last session ended and however fast the next one began:
\* once the worklet has caught up, its tap runs exactly when there is a worker,
\* on that worker's port, with the source and width the store shows.  Nor does it
\* ever run without a port before: the relay through the main thread stays
\* unused ("0 in normal operation").
TapServesSession ==
  /\ tap.active => tap.port # None
  /\ ctl = <<>> =>
       IF worker = None THEN ~tap.active /\ tap.port = None
       ELSE /\ tap.active /\ tap.port = worker
            /\ tap.source = source /\ tap.channels = EffectiveChannels

\* The worker's "wiring bug" branch is dead: no batch reaches a worker with a
\* channel count other than the one its muxer was made for.
WidthsAgree == \A i \in DOMAIN direct : direct[i].channels = wk.channels

\* "disconnected", the one status in which source and width may change, means
\* that no session is left of any kind: no worker, no connect under way, no stats.
\* A connected store has its worker.
StatusTellsTheTruth ==
  /\ status = "disconnected" => worker = None /\ ~resolving /\ ~stats
  /\ status = "connected" => worker # None /\ ~resolving

\* From the handshake on the muxer gets every batch: its timeline has no gap and
\* no overlap.
TimelineGapless ==
  [][worker' = worker /\ wk.muxed # None /\ wk'.muxed # wk.muxed
     => wk'.muxed = wk.muxed + BATCH]_vars

\* A session that is over in the worker (failed, or its transport closed, even
\* while doInit still waits or in the middle of it) does not linger in the store:
\* it ends, and the tap with it.
SessionEnds ==
  \A w \in 1..MaxWorker :
    worker = w /\ (wk.phase = "over" \/ wk.transport # "open")
    ~> worker # w /\ tap.port # w
================================================================================
