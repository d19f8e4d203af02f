# CakeMix in TLA+

CakeMix is a web mixing console. Audio streams arrive over WebTransport in QuicSRT
workers, are mapped onto strips of a mixer that runs as wasm inside an AudioWorklet,
pass effect chains, and are mixed, metered and published again. This directory holds
TLA+ models of the parts whose correctness depends on the *order* of things, what TLC
checks of them, and what TLAPS proves.

## The system

| part | source | state | operations | hard because |
|---|---|---|---|---|
| elastic input FIFOs, stream-health gate | `crates/mixer-wasm/src/fifo.rs`, `lib.rs` (feed, map, drain) | per strip: queue, direct queue, window statistics, EWMA, anchor, cooldown, gate | feed, tone, map, unmap, one drain per block | two clocks; windows, remaps and gate trips reset different parts of the state at different times |
| receive sessions and PID mapping | `frontend/src/quicsrt/store.ts`, `frontend/src/worklet/worklet-template.js`, `lib.rs` (`pid_map`) | session records, workers, direct ports, allocator, PID maps in worklet and wasm | connect (with an await), disconnect, stream end, PCM on two paths, events back | three threads, two unordered ports, an await, state mirrored in three places |
| FX rack | `crates/mixer-wasm/src/gxfx.rs` | chains of slots, DSP instances with raw pointers into slots, two budgets | set, enable, write a parameter, move, render | budgets at two granularities, pointers that survive a move, creation that can fail |
| scenes over the FX rack | `lib.rs` (`apply_scene_fx`), `scene.rs` | captured chains | save, recall, delete | a recall is a sequence of setters, each of which may be refused |
| console | `lib.rs`, `scene.rs` | lazy strips, user mute and solo, derived engine mute, bus sources and tails, scenes, a running cross-fade | setters, save, recall, timed recall, fade step | derived state, cancel-on-set, skipped writes |
| mix graph | `lib.rs` (`process_block` after the drain) | per-block rows and call lists, the tap's and the buses' last block | render, set and take the tap, take a bus | one block reads the same strips raw, processed, muted and soloed; two drains on their own clock |
| meters, console JSON, effect wrappers | `meter.rs`, `console_json.rs`, `effects.rs` | levels, filter states | per-block arithmetic, formatting | numerics |
| gxfx C++ DSP | `crates/mixer-wasm/gxfx` | DSP instances | C ABI | vendored |
| publish | `quicsrt/publish.ts`, `publish-worker.ts`, the worklet's tap | worker handle, generation, muxer, transport, batch accumulator | connect, disconnect, PCM, handshake, stats | awaits, generation checks, worker replacement |
| UI console store | `stores/mixer.ts`, `stores/scenes.ts`, `App.tsx` | optimistic copy of the console, pending FX writes | setters, replies from the worklet | stale replies, roll-back |
| server | `cakemix-server/src/main.rs`, `certs.rs` | certificate and key files, the pair in memory, the tasks and the Notify between them | load or generate the certificate, bind, serve, proxy, shut down | crash between two writes, notifications nobody waits for, draining |

How they interact: the main thread owns the sessions and the UI, and talks to the worklet over
the node's port (FIFO both ways). Each receive worker posts PCM to the worklet over a
`MessageChannel` of its own, or through the main thread while that is not wired. The worklet
calls the wasm mixer synchronously. The mixer calls the rack synchronously; scenes go through
the same setters the worklet's messages use. The publish tap posts batches to the publish
worker. `PROJECT.json` lists every component with its status, and every hazard with its line.

What makes each part correct:

* **FIFOs** - bounded depth whatever happens; anchors made of real depths;
  only strips that a stream is mapped onto are gated, and a gated stream that behaves comes back; strips of one
  stream correct in lockstep; a stopped source is played out.
* **Sessions** - two streams never share a strip; a live session keeps its strips; the store
  shows what the worklet did; a torn-down session ends up without mappings, armed strips or worker.
* **Rack and its scenes** - budgets count what exists; an instance reads its own slot; nothing is
  activated on the audio thread; a recall restores what was saved.
* **Console** - the engine mute is what user mute and solo say; a recall or a finished fade lands
  exactly on its scene and creates no strip; a user's write takes over from a fade.
* **Mix graph** - a muted strip is heard nowhere but where a bus taps its raw input; a drained block has the width that was asked for.
* **Publish** - one worker at a time, none after disconnect; no PCM reaches a freed muxer; old
  generations stay silent. **UI** - it shows the mixer's state once messages are handled; the two strips of a channel stay alike.
  **Server** - Ctrl-C ends it and cuts no answer on plain HTTP; the certificate it serves is in date, matches its key, also after a crash,
  and is the one on disk.

## The modules

| module | models | checked by |
|---|---|---|
| `ElasticFifo` | the FIFO, its statistics and its gate; map, unmap, feed, tone and drain of `lib.rs` | `fifo` |
| `ElasticFifoProofs` | theorems about `ElasticFifo` | tlapm |
| `PidSessions` | store, worklet and wasm map of the receive sessions, and the ports between them | `sessions`, `sessions_disarm`, `sessions_zombie` |
| `StripOwnership` | what the sessions promise about strips, without threads or allocator | `sessions` (as `OwnsStrips`) |
| `PidSessionsProofs` | theorems about `PidSessions`, with the refinement | tlapm |
| `FxRack` | `gxfx.rs` | `fxscenes` |
| `FxRackProofs` | theorems about `FxRack` and `FxScenes` | tlapm |
| `FxScenes` | extends `FxRack` with save and recall of the chains | `fxscenes`, `fxscenes_recall` |
| `Console` | strips, mute and solo, bus routing, scenes and cross-fades | `mix`, `console_solo` |
| `ConsoleProofs` | theorems about `Console` | tlapm |
| `MixGraph` | extends `Console` with what `process_block` mixes, taps and publishes | `mix` |
| `MixGraphProofs` | theorems about `MixGraph`, on top of `ConsoleProofs` | tlapm |
| `ConsoleSync` | the UI's console store and its message traffic with the mixer; joins `Console` and `FxScenes` | `console_sync` |
| `ConsoleSyncProofs` | theorems about `ConsoleSync`, on lemmas of `ConsoleProofs` and `FxRackProofs` | tlapm |
| `Publish` | the publish store, its worker and the worklet's output tap | `publish` |
| `PublishProofs` | theorems about `Publish` | tlapm |
| `Server` | the server process over its two certificate files, across restarts | `server`, `server_pair` |
| `ServerProofs` | theorems about `Server` | tlapm |

### ElasticFifo

A FIFO is a record with the fields of `ChannelFifo`. Samples are not modelled; queues are
depths. The EWMA and the anchor count quarter frames, so that `EWMA_ALPHA = 1/4` is integer
arithmetic rounded down. The code's absolute block and window numbers only meet in
differences, so the model keeps those: `phase` (block within the window), `stale`
(`window_id` is behind), `age` (windows since the last feed). This makes the state space finite
with no bound on the length of a run.
`Push` is the body of `feed_interleaved` for one strip, `DrainFifo` what `process_block` does
to one FIFO, in the code's order: `Pop` with the fade, `CountStarve`, `Rollover` (which
finalizes the window), `Sample`, `Correct`. `MapPid`, `UnmapPid`, `FeedPcm`, `SetChannelInput`
and `ProcessBlock` are the operations; the audio thread runs one at a time, so they interleave
at this grain. `streams` are the keys in the worklet's `_pidMap`, which is smaller than the core's `pid_map` once the worklet has forgotten a key the core
was not told of (`ForgetStream`, a null port). `MapPid`'s guard is what the worklet's allocator ensures (`PidSessions`, `StreamsDontMix`): a new range is disjoint from
those of the keys it still feeds, not from forgotten mappings. The core itself takes any range.

### PidSessions

`ctl` and `events` are the two directions of the node's port, `direct[s]` is session `s`'s
own port. `Connect` and `Resolved`/`ResolveFails` are the two halves of
`connectQuicsrtSession` around its await. `Teardown` is `teardownSession`, shared by the user's
disconnect, a stream that ends and a failed connect. The worklet's actions are `Control` (one
message of the node's port), `DirectPcm` and `InitWasm`; `OnPcm` is `_onPcm` with its three
outcomes. `wasmMap` and `elastic` are what the calls into `lib.rs` leave behind.
The worker itself is external: it sends PCM while it runs, on the direct port or, as the code
allows, over its parent channel. The store relays those without a channel count, and the worklet takes them as mono (`RelayPcm`, `Relayed`, `OnRelayed`), so a PID that is
mapped by relayed PCM gets one strip. `Relaying` names the sessions whose workers do so.

`StripOwnership` is the promise: a stream claims a set of free strips in one piece, and releases it only after its session
has ended. `Ownership` maps `PidSessions` to it: a stream owns the strips wasm plays it on while the worklet feeds it, and has ended
when the store's record is gone. A claim is `AutoMap`, a release the handling of an unmap or a null port, an end a teardown; all else stutters.
A stream may claim after its end, because PCM of a session can still be under way when it is torn down. `TeardownForgets` says that this does not last.

### FxRack and FxScenes

The operations are functions from rack to rack, so that a recall can fold them over the
positions of a scene, in the code's order and with the code's dropped errors. `handles` and `row` stand
for the C++ instances and the slot their ports point into. `AvailableFx` are the effects whose
instances can be created; the others stand for a creation that fails, which leaves a torn-down
slot with the new effect's defaults in its row.

### Console and MixGraph

`user_muted` and `soloed` are the user's intent, `engine` the mute the mix applies; `exists` are the
strips `ensure_channel` has made, inputs and, behind them, bus slots. Gain stands for everything a fade interpolates on a strip,
`main_assign` for what it snaps; a bus has its sources, gain, mute and `feeds_main`. `fade_applying`
needs no variable: the fade's own writes use the setters (`SetGain` and the others), a user's use `UserSets`,
which cancels. `ApplySceneInterp` composes the stages of `apply_scene_interp` in its order. Where the code loops over strips and the
writes are independent, a stage writes all of them at once; a mute write derives the engine mute of its own strip, a solo write that of
all, so that only the last solo write counts. FX chains, which a recall snaps before it interpolates, are disjoint state and in `FxScenes`.

`MixGraph` adds the rest of `process_block`: `ProcessBlock` advances the fade and renders the block from the console that results, as
the code does. A signal is the set of raw inputs heard in it, a mix a set of pairs of strip and raw input. `SlotRow` is the staged row of a bus slot,
`Coupled` what the FX pass leaves in the row of an input strip (each block chooses the pairs whose chains mix left and right), `Heard` what a strip passes on to its engine,
`TapMix`, `MainMix`, `BusMix` and `MasterMix` the outputs. `tap` and `bus_out` are what `take_channel_tap` and `take_bus_output` drain.

### ConsoleSync

`stereo`, `channels`, `fxChains` and `fxPending` are the stores of `mixer.ts`; `console`, `rack`, `comp`, `scenes` and
`fade` the mixer, whose operations are those of `Console` and `FxScenes`, taken in through INSTANCE; a scene is the
snapshots of both. `ctl` and `events` are the two directions of the node's port. A user action is one helper of the store: the optimistic write and
all messages it posts (two per parameter, one for each strip). `Worklet` handles one message, `Reply` one reply as `App.tsx` routes it.
`comp` is a dynamics module with one parameter: enabling recreates it with defaults, and the store answers by pushing what it shows.
The design lets store and mixer part in a few windows, which the history variable `parted` names: a write while a console
document is on its way or a fade runs (`Untimely`), an FX write on a slot whose last set may still be refused (`Unanswered`),
a timed recall of a narrower scene before the one it follows is over and answered for (`AnswersForAnother`; a document tells of the running fade's scene only),
and a document that leaves out or misstates a chain (`TellsOfOtherChains`). Answering the next `get-params` brings them together again.
A parameter write is refused by a slot that is empty by then (`MustRefuse`) and, as parameters are named by their ordinal, may be refused by one that holds another effect
(`MayRefuse`). That happens to a knob turned while a recall or a refusal of the slot's effect is under way; the `fx-error` rolls the slot back to a snapshot from before, and the re-read that follows a recall has to repair the row.
Each of the exclusions is needed: without `AnswersForAnother` a run with two scenes fails, without any other one this one does.
`Over(new, old)` is the store's merge: what is told replaces what is shown, where something is shown.

### Publish

`Connect` and `Resolved`/`ResolveFails` are the halves of `connectPublish` around its await; the guards
of `Connect`, `Disconnect` and the setters are those of the panel's button and of the setters. `ctl` is the
store's end of the worklet's port, `reports` the batches of the worker, `direct` the port from the tap to
the worker. `wk.phase` is the await `doInit` is in. `gen`, the worker's generation, needs no variable: the store
makes a worker anew for every connect, so `gen` moves under a running `doInit` only by the `stop` that
`terminate()` follows; the other move, a throwing muxer, is the phase `over`.
`TapBlock` is `_pubTap` for one block; `HandlePcm` is `handlePcm` with its three outcomes.
`InitFails` is `doInit`'s catch, reached from every one of its awaits: also after `getStats`, when the SRT engine cannot be made or the transport has closed before its
streams are (`publish-worker.ts:196-208`), and no handler of `wt.closed` is set yet. Two things are left out. The SRT peer's `close` changes the text beside the status and
nothing else. Before the worklet's node exists, `sendToWorklet` drops every message (`mixer.ts:274`); the button does not wait for the node, so a session started in that period runs
without a tap and `TapServesSession` does not hold for it.

### Server

One process at a time, started again over the files it left. `cert_pem` and `key_pem` are missing, torn or whole; a write is
a truncation and a fill, because `std::fs::write` is. `main` is the step `main()` is at, `ctrl_c`, `web` and the membership of `waiting` and `woken` the steps of
its tasks. `Kill` can fall between any two steps, `SigInt` kills until the handler is installed by the first poll of its task.
tokio's `Notify` is modelled from its use: `notify_waiters` wakes who waits and is forgotten by everybody else. `cut` is a history variable: a process has
ended with its new certificate in place beside an old, whole key.
A web task that fails (`WebFails`) leaves its connections to themselves; main returns without waiting for anything, and the process takes them with it.

## What the runs check

| run | question | bounds | result |
|---|---|---|---|
| `fifo` | do the FIFO's bounds, gate, lockstep and liveness hold under every order of operations? | 2 strips, 2 keys that map both, one after the other or over a forgotten mapping; blocks of 2 frames, windows of 3 blocks, cap 5, slips of 1 frame; feeds of 2 and 5 frames | holds |
| `sessions` | do streams stay apart, do store and worklet agree, and is `StripOwnership` implemented? | 2 sessions, 2 PIDs each, stereo, 5 strips: two stereo mappings fit, the third is capped; session 1 also relays | holds |
| `sessions_disarm` | does a disconnect disarm the strips? | as `sessions` | violated |
| `sessions_zombie` | does a disconnect terminate the worker? | as `sessions` | violated |
| `fxscenes` | are budgets, wiring and activation sound through setters, moves, blocks and recalls, and is a recall exact with headroom? | 2 chains of 2 slots, a stereo delay and a looper, caps 2 and 1, 1 scene | holds |
| `fxscenes_recall` | does a recall of a whole rack restore it? | as `fxscenes` | violated |
| `mix` | are mutes derived, fades sound, recalls exact, and does the mix hold only what it should? | 2 inputs, 1 bus of 1 slot, 2 gains, fades of 3 blocks, 1 scene, 4 user operations, tap off or wider than the console | holds |
| `console_sync` | do the controls end up showing what the mixer holds, and do the two strips of a channel stay alike? | 1 stereo channel with a chain of 2 slots, effects looper (one allowed) and plain, 4 user operations, 1 scene, recalls at once and over 2 blocks, 6 messages each way | holds |
| `console_solo` | does a solo silence every other strip? | as `mix`, without blocks | violated |
| `publish` | do tap, worker and store agree through any sequence of sessions, and is the published timeline whole? | 3 workers, channel counts 2 and 16, batches of 2 blocks, 6 blocks per session | holds |
| `server` | what may the files hold at a start, what is served, is it what is on disk, how does the server end? | 4 days, validity 3 and slack 1, 2 generated pairs, 1 connection | holds |
| `server_pair` | is the pair handed on ready to use? | as `server` | violated |

Why these bounds reach the interesting cases. *fifo*: every threshold is reached below its
cap (a feed of 5 into a queue of 2 overflows; three starved blocks fit into one window; two trims, one insert and the ceiling are
reachable), windows are long enough for a trip in mid-window, and two strips are enough to tell a
mapping's strips apart; the second key arrives on strips with another one's leftovers, or beside a mapping that is still there and no longer fed; the thresholds keep the order they have in the code, including
`HEALTH_FAST_SLIPS = HEALTH_SLIP_MAX`. *sessions*: two sessions reuse the same PIDs and five strips are not enough for
three stereo mappings, relayed PCM makes a mono one of either PID, so rewinds, caps, late PCM and reuse all happen; one queued PCM message per
port is enough for it to be overtaken by any control message. *fxscenes*: two slots in each chain give moves over slots that stay, and the caps are below what the slots could hold, so sets
and recalls are refused; effects that cannot be created, longer moves and mono effects are left to the proofs. *mix*: a scene may cover one strip and the
live solo be on the other, the two inputs are a stereo pair whose rows the FX pass may mix, and the slot may tap either; four operations
are save, change, timed recall and a write that cancels it; a fade of three blocks has blocks before and after its half-way point.
*server*: a certificate of two generations ago can be out of date and one of the last still in its slack; a second generation can be cut short over the first one's files.
*console_sync*: four operations are what the longest
scenario takes (set the looper, save, move it, recall over time), and they overlap with each other's replies in every way. Larger
instances were explored in pieces: two scenes with six operations on the strips, one slot with two scenes and five operations, two channels. It was
the second scene that showed the window `AnswersForAnother`.
*publish*: three sessions give a predecessor and a successor to a session that ends in any way, and three batches
of a session let a gap or an overlap show; a constant shift of a whole session, from a start that reset only the tap's fill, would not show.

`sessions` and its two siblings do not check for deadlock: session ids are not reused, so a run ends when they
are used up. Neither do `console_sync`, `mix` and `console_solo`: the user may stop.

### Fairness

`ElasticFifo` assumes that `process()` is called again and again, which is what the audio thread does while the
context runs (`Fairness`; it is weak fairness of `ProcessBlock`, written without ENABLED). Nothing is assumed of
feeds. `PidSessions` assumes weak fairness of `Control`: the worklet's event loop gets to every
message of the port. `Publish` assumes that the event loops of the main thread and of the worklet get to their messages, and that
`getStats()` settles, one way or the other, and the handlers of `wt.closed` run (`OnWorkerMsg`, `TapControl`, `Settles`, `ReportClosed`); nothing is assumed of the network: neither a
connect nor a handshake need ever end. `Server` assumes that tokio runs every task that can run and that, once the server stops, an open connection of plain HTTP gets
its answer and closes (`axum::serve` waits for it without limit); nobody has to start the server, press Ctrl-C, fail or kill. The other modules have safety properties only.

### Where the code and its documentation part

Each violated property quotes a sentence of the repository; `PROJECT.json` gives the lines.

* `DisconnectDisarms` - PCM that maps a PID after the store's teardown and before the null port leaves wasm mapping and armed strips.
* `DisconnectSticks` - a disconnect during the connect's await is forgotten.
* `RecallRestores` - a recall that fits the budgets is refused half-way and writes parameters into the wrong effect.
* `SoloSilencesOthers` - a strip created under an active solo is audible.
* `ReadyToUse` - a process that ends between writing a new certificate and its key leaves a pair the next start takes for usable; TLS refuses it, and
  so does every start after that. `KeyErrorNeedsCut` shows that this is the only way the files go wrong.

Some were met while modelling and have no run of their own.

* A remap resets a strip's anchor and EWMA but keeps its queue and cooldown (`lib.rs`, `map_pid_keyed`), so a PID remapped onto a wider
  range starts with strips that differ, against `fifo.rs:34-35`; `LockstepKept` is what remains true.
* A recall clears on screen the effect rack of a pair whose even strip does not exist yet, and a timed recall that of a pair which the scene was saved
  without, while the effects stay in the mixer, against "so store and engine never disagree" (`mixer.ts:1069-1071`).
* A scene saved while only one strip of a pair exists lets the two sides differ after a recall, against "mismatches only exist on legacy
  mono-per-strip scenes" (`mixer.ts:1175`).
* After an uncaught exception in the publish worker the store shows an error and keeps the worker (`publish.ts:208`), so the button offers to publish and does nothing.
* A Ctrl-C pressed after "Press Ctrl+C to stop." (`main.rs:437`) and before main and the shutdown watcher wait is lost: `notify_waiters` keeps nothing, the task that listened is over,
  and tokio has replaced the default handler, so later ones do nothing. `StopsOnCtrlC` starts where both wait.
* Enabling a dynamics module recreates it, and a fade enables it in every block (`lib.rs:1855`); bus meters lack the non-finite floor of the strip meters (`lib.rs:2383`, `2240-2246`).

## What is proved

`ElasticFifoProofs` proves, for every number of strips, every range set, block size, feed size and threshold that meet the module's assumptions, that
`TypeOK`, `DepthBounded`, `AnchorSampled` and `OnlyMappedStripsGated` are invariants, and that every step satisfies `LockstepKept`.
None of the invariants is inductive. The inductive invariant `IInv` says of every FIFO `FifoOK`, which has three parts: `Bounds`
(the queue is within the cap, the window minimum is a depth or the "nothing sampled" sentinel, the EWMA is a depth or unseeded, the anchor a depth); `Gate` (only an armed FIFO is gated or faded); and
`CleanSampled` (a gated FIFO that has counted a clean window has sampled a depth). The last one carries the argument for
`AnchorSampled`: a recovery copies the EWMA into the anchor, and without it the fold before that copy could be of the sentinel.
There is one lemma per operator (`PushOK`, `PopOK`, `FoldOK`, `RolloverOK`, `CorrectOK` and so on), composed in the order of
the block. Two assumptions do real work: `RECONCILE_CEIL_FRAMES + SLIP_FRAMES <= MAX_QUEUE_FRAMES`, without which an
insert slip could pass the cap, and `HEALTH_OVERFLOW_MAX_FRAMES < HEALTH_FAST_OVERFLOW_FRAMES`. The code's constants meet both.
`LockstepKept` needs a lemma of its own for each operator, too: what it makes of two FIFOs that are alike is alike (`PushAlike`, `JudgeAlike` and so on). The rest is that an
operation treats either all strips of a mapping or none, because the strips of the streams that the worklet feeds are disjoint (`StripsDisjoint`); a forgotten mapping may lie across them, and is never
fed or unmapped again. `OnlyMappedStripsGated` follows from `Gate` and `ArmedMapped`: what is armed is mapped.

`FxRackProofs` proves, for every number of chains and slots, every catalog and both caps, the four invariants of
`fxscenes`, under the rack's own operations and again with scenes saved, recalled and deleted between them (`ScenesKeepRack`): `TypeOK`, `BudgetsExact`, `DspReadsOwnSlot` and `RenderNeverActivates`. The inductive invariant
`RackOK` is `SlotsOK` (each slot has its effect's instances, wired to itself, is active when enabled and blank when empty)
with `Exact` and `InBudget`. `SlotsOK` is needed for `Exact`: a teardown subtracts what the slot's effect and instance count say, so the counter
stays right only while those agree. `ReplaceSlot` shows what writing one slot does to the two sets that are counted;
set, create and tear down follow from it (`WrittenOK`), the setters keep the sets as they are (`PutKeeps`), and a move
maps them one-to-one (`MoveInverts`, `MoveKeepsCounts`).
A recall is a fold over the pairs of folds over the slots. `ApplyChain` and `ApplySceneFx` write it as a recursive function on what is left to visit,
and the theorem about well-founded relations turns into induction once the statement is a set: if some number of positions were the wrong one, there would be a least one. So a recall keeps `RackOK` (`ApplySceneFxOK`) in
racks of every size, and so does `HeadroomMakesRecallExact`, the property of the same name: a recall that the budgets can never refuse makes every chain what the scene
holds. Its invariant (`Midway`) says that the slots visited are restored and that no more was spent on them than the scene wants there, so what it wants next still fits.

`PidSessionsProofs` proves, for every number of sessions, PIDs, strips and channel counts and every queue bound, `TypeOK`, `StreamsDontMix`,
`LiveSessionsKeepStrips`, `StoreAgrees` and the refinement `OwnsStrips`. The inductive invariant has four parts. `MapsOK` is the allocator's: wasm has
the mapping the worklet has (`Exact`), no mapping reaches past the cursor (`Below`), and no two overlap (`Apart`). `Below` makes a new range free,
and survives a rewind only because `Rewound` waits for the last mapping to go (`ForgettingOK`). `PortsOK` says of the messages under way to the worklet that an
unmap or a null port is about a session whose record is gone (`Timely`); that is why a release is never one of a live session. `WorkletOK` and `StoreOK` are types.
The steps of the refinement follow from what any step can do to the maps (`StepMaps`): map one unmapped PID (`AutoMapClaims`), forget PIDs of ended sessions
(`ForgettingReleases`), or leave them alone while sessions end (`StoreStepEnds`).
`StoreAgrees` needs to know what the worklet still has to tell: `HInv` says that the last report under way on a stream of a live session, or with none the store itself, has what the worklet has (`Heard`), and
that messages, maps and events are only about sessions that were begun (`Begun`), so that a new session starts without a trace.

`ConsoleProofs` proves, for every number of inputs, buses and slots, every set of gains and durations and any number of operations, `TypeOK`, `MuteDerived`,
`FadeSkipsSoundly`, `RecallLands` and `RecallCreatesNothing`. The inductive invariant `IInv` is a good console (`Good`: typed, only existing strips muted or
soloed, mutes derived), sound scenes (`Sound`: what a scene covers exists, and so does the strip of each slot it assigns) and a sound fade, with `FadeSkipsSoundly`. Each setter
and each stage of `ApplySceneInterp` has its lemma; `Applied` composes the stages into what they make of one strip and one bus, and everything about recalls and fades follows from
it. Skips and landing depend on each other: a block may skip what is equal in both scenes only because earlier blocks and the snapshot left it so.

`MixGraphProofs` first proves `MixIsConsole`, `MixSpec => Spec`, which carries the theorems about `Console` over (`MixKeepsConsole`), then `MixTypeOK`, `MutedReach` from `MuteDerived`
of the console the block is rendered from.

`ServerProofs` proves `TypeOK`, `KeyErrorNeedsCut`, `ServedInDate`, `ServedIsKept` and `CtrlCCutsNoAnswer` for every validity above the slack and any number of days, pairs and connections. `PairInv` says
what is on disk at each step of a generation, and that a mismatch, on disk or in memory, comes from a cut or is in the making; `InDateInv` gives a pair its slack from the moment
it is loaded or made, and `KeptInv` says that the files hold what is in memory from the end of a generation on. `DrainInv` is why a Ctrl-C cuts nothing: main drains only with a web task
to wait for, and one that stopped in order, on plain HTTP, has no connection left and gets no new one.

`PublishProofs` proves `TypeOK`, `TapServesSession`, `WidthsAgree`, `StatusTellsTheTruth` and `TimelineGapless` for every set of channel counts that has
stereo, every batch size and any number of workers, blocks and queued messages. The inductive invariant says of the control messages still under way to the tap how they
follow on one another (`Chained`), that without a worker they end with no port and no start (`Closing`), and that with one the last two are its port and its start, or
both are taken (`Opening`). So nothing reaches a worker while messages are under way, whatever earlier sessions left in the queue, and a start of the tap's timeline never falls
into a running one. `Continuous` then says that the batches under way follow on one another and on what the muxer has. `TypeOK` needs it, too: that is why no batch has a negative pts.

`ConsoleSyncProofs` proves, for every number of channels, slots, scenes and operations and every queue bound, `TypeOK`, `SidesStayLinked` and `StoreMirrorsEngine`. Nobody mutes, solos or
routes a bus here, so the console has a plain shape (`Consoles`) in which a recall's stages reduce to what they do to gains. `Shapes` is the type of store, mixer and messages; it
rests on the rack's soundness and on saved scenes being `1..n`, so that a save never overwrites one. `SidesStayLinked` is about states without messages; the invariant is about all of them.
Every setter posts its messages in pairs, the left strip's first, and the worklet takes them one by one: so the port holds whole pairs (`InPairs`), or its head is the right-hand half of a
pair whose left half has been done (`HalfWay`). Before, the two sides of every channel are equal, in the mixer, in saved scenes that cover both or neither (`Balanced`) and at both ends
of a fade; half-way, they differ in what the message at the head is about to write, and no fade runs, because the left half has cancelled it. A save cannot fall between the halves, a block can, and changes nothing then.
`StoreMirrorsEngine` speaks of the system at rest; what is inductive says where store and mixer are heading, strip by strip and chain by chain, once everything under way is handled.
For a strip (`StripsMirror`): the mixer's values, or the end of the fade that runs (`Heading`), taken through the port's messages one by one (`Run`), end at what the
store will show when the documents among the events have been applied (`Shown`, the last that tells of the strip wins). While a fade moves the strip no
setter is in the port, which would cancel it half-way (`NoSetters`). The way out of all this is a re-read that is still to come (`Expected`), after which only the new document counts, and `parted`.
`Grounds` is what that needs: scenes, fades and documents are about existing strips, and the fader on screen shows its left strip.
For the chain of a pair (`ChainsMirror`): the row of the rack taken through the port (`RowRun`) ends at the row on screen (`RowInStep`), except in a slot whose refusal is on its way. That one's
snapshot is the row's end (`RowShown`); so is, for each set still in the port, the snapshot what the slot held before it (`SetsHeld`), as long as nothing behind it touches the slot, which is what the window
`Unanswered` keeps. After a recall a re-read is due (`RowsAwaited`), or its document is on its way and tells of the rack as it is, with no setter or refusal behind it (`ReportsRack`).
No parameter under way is refused outside the windows (`ParamsFit`): it finds the effect it was turned on, or a re-read is due.
The proof needed one fact of the rack that was not stated before, that an empty slot is blank (`Blank`, now part of `SlotOK`): a document leaves empty chains out, and the store then shows defaults.

## What is only model-checked

Liveness (`CleanStreamRecovers`, `StoppedSourceDrains`, `TeardownForgets`, `SessionEnds`, `StopsOnCtrlC`) is out of the prover's reach. Every invariant and action property of
the passing runs has a theorem.

## Not modelled

Sample arithmetic, metering, JSON formatting, the effect wrappers (`effects.rs`) and the C++ effects have no control state. The server's request handlers
keep none either. Of the modelled parts: the sessionId-less full reset and `map-pid` of the worklet
(no sender in this frontend), `subscribe_pid` (no caller), bus slots of the UI store (same shape as stereo channels), messages before the wasm is ready, names in scenes, diagnostic counters, log lines.

## Plan

1. Core (done): `ElasticFifo` with proofs, `PidSessions`, `FxRack`, `FxScenes`, `Console`, `ConsoleSync`, `Publish`.
2. `StripOwnership` and the refinement with its proof (done).
3. `Server` with proofs (done); `MixGraph` over the completed `Console`, with proofs of both (done).
4. Proofs of `Publish` (done), of `LockstepKept`, `StoreAgrees` and the scenes of the rack (done), of `ConsoleSync` (done).
