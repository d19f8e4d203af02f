------------------------------ MODULE PidSessions ------------------------------
(****************************************************************************)
(* How a QuicSRT receive session's audio PIDs get, keep and lose their      *)
(* mixer strips: the session store on the main thread (quicsrt/store.ts),   *)
(* the AudioWorklet (worklet-template.js) with its channel allocator, and   *)
(* the PID map of the wasm mixer core (lib.rs).                             *)
(*                                                                          *)
(* Main thread and worklet talk over the node's port (ctl one way, events   *)
(* the other); every session's worker posts PCM to the worklet over a port  *)
(* of its own (direct).  Ports are FIFO, and nothing orders one port        *)
(* against another.  A PCM message is its PID and channel count, the PID    *)
(* alone when the store relays it; samples are not modelled.  Session ids   *)
(* are used once, in increasing order.                                      *)
(*                                                                          *)
(* Bounds: MaxDirect and MaxCtl cap the queues the workers fill.            *)
(****************************************************************************)
EXTENDS Integers, Sequences, FiniteSets, SequencesExt

CONSTANTS
  MaxSession,          \* sessions connected in a run
  Pid,                 \* TS PIDs, reused by every session
  ChannelCounts,       \* channel counts a worker's PCM message may carry
  Relaying,            \* sessions whose worker also posts PCM on its parent channel
  MAX_MIXER_CHANNELS,  \* input strips
  MaxDirect, MaxCtl,   \* bounds on queued PCM messages
  None

ASSUME ConstantsAssumption ==
  /\ MaxSession \in Nat
  /\ IsFiniteSet(Pid)
  /\ ChannelCounts \subseteq Nat \ {0}
  /\ Relaying \subseteq 1..MaxSession
  /\ MAX_MIXER_CHANNELS \in Nat
  /\ MaxDirect \in Nat /\ MaxCtl \in Nat

ASSUME NoneAssumption == None \notin Int /\ None \notin [start : Nat, n : Nat]

Session == 1..MaxSession
Key == Session \X Pid     \* "sid:pid" in the worklet, (sid << 16) | pid in wasm
Strip == 0..(MAX_MIXER_CHANNELS - 1)

VARIABLES
  \* the store
  rec,        \* a session's record: "new", "connecting", "live" or "gone"
  resolving,  \* sessions whose connect awaits resolveTarget
  worker,     \* sessions whose worker runs
  pids,       \* key -> chStart the store last heard of (-1: capped), or None
  \* ports
  ctl,        \* main thread -> worklet
  events,     \* worklet -> main thread: "pid-mapped"
  direct,     \* session -> PCM its worker posted on the direct port
  \* the worklet
  mixer,      \* the wasm mixer exists
  open,       \* sessions with an entry in _pcmPorts
  pidAlloc, pidMap, cappedPids,
  \* the mixer core
  wasmMap,    \* pid_map: key -> range, or None
  elastic     \* strips whose input FIFO is in elastic mode

store == <<rec, resolving, worker, pids>>
worklet == <<mixer, open, pidAlloc, pidMap, cappedPids>>
wasm == <<wasmMap, elastic>>
vars == <<store, ctl, events, direct, worklet, wasm>>

\* The channel counts of a mapping: the worklet takes a message without one as mono.
Count == ChannelCounts \cup {1}
ChRange == [start : Nat, n : Count]
Strips(r) == IF r = None THEN {} ELSE r.start..(r.start + r.n - 1)

Port(s) == [type |-> "port", sid |-> s]
NullPort(s) == [type |-> "null-port", sid |-> s]
Unmap(k) == [type |-> "unmap-pid", key |-> k]
Relayed(k) == [type |-> "pcm", key |-> k]

Init ==
  /\ rec = [s \in Session |-> "new"]
  /\ resolving = {} /\ worker = {}
  /\ pids = [k \in Key |-> None]
  /\ ctl = <<>> /\ events = <<>>
  /\ direct = [s \in Session |-> <<>>]
  /\ mixer = FALSE /\ open = {}
  /\ pidAlloc = 0 /\ pidMap = [k \in Key |-> None] /\ cappedPids = {}
  /\ wasmMap = [k \in Key |-> None] /\ elastic = {}
--------------------------------------------------------------------------------
(* The store *)

\* connectQuicsrtSession up to its await: a fresh id and a record.
Connect(s) ==
  /\ rec[s] = "new"
  /\ \A t \in Session : t < s => rec[t] # "new"
  /\ rec' = [rec EXCEPT ![s] = "connecting"]
  /\ resolving' = resolving \cup {s}
  /\ UNCHANGED <<worker, pids, ctl, events, direct, worklet, wasm>>

\* The rest of connectQuicsrtSession.  Nothing looks whether the record is
\* still there: patchSession is a no-op without one, the worker starts anyway.
Resolved(s) ==
  /\ s \in resolving
  /\ resolving' = resolving \ {s}
  /\ worker' = worker \cup {s}
  /\ rec' = [rec EXCEPT ![s] = IF @ = "connecting" THEN "live" ELSE @]
  /\ ctl' = Append(ctl, Port(s))
  /\ UNCHANGED <<pids, events, direct, worklet, wasm>>

HasRecord(s) == rec[s] \in {"connecting", "live"}

Mapped(s) == {k \in {s} \X Pid : pids[k] # None /\ pids[k] >= 0}

Unmaps(s) ==
  LET q == SetToSeq(Mapped(s)) IN [i \in DOMAIN q |-> Unmap(q[i])]

\* teardownSession of a session with a record: unmap what the store knows to be
\* mapped, null the port, stop the worker, drop the record.
Teardown(s) ==
  /\ rec' = [rec EXCEPT ![s] = "gone"]
  /\ ctl' = ctl \o Unmaps(s) \o <<NullPort(s)>>
  /\ worker' = worker \ {s}
  /\ pids' = [k \in Key |-> IF k[1] = s THEN None ELSE pids[k]]

ResolveFails(s) ==
  /\ s \in resolving
  /\ resolving' = resolving \ {s}
  /\ \/ HasRecord(s) /\ Teardown(s)
     \/ ~HasRecord(s) /\ UNCHANGED <<rec, ctl, worker, pids>>
  /\ UNCHANGED <<events, direct, worklet, wasm>>

\* disconnectQuicsrtSession.
Disconnect(s) ==
  /\ HasRecord(s)
  /\ Teardown(s)
  /\ UNCHANGED <<resolving, events, direct, worklet, wasm>>

\* The worker reports that the stream is over.  Like every message of a worker
\* whose record is gone, it is dropped after a teardown.
WtClosed(s) ==
  /\ rec[s] = "live"
  /\ Teardown(s)
  /\ UNCHANGED <<resolving, events, direct, worklet, wasm>>

\* onPcm: PCM the worker posted on its parent channel is relayed, without its
\* channel count.
RelayPcm(k) ==
  /\ k[1] \in Relaying
  /\ rec[k[1]] = "live"
  /\ Len(ctl) < MaxCtl
  /\ ctl' = Append(ctl, Relayed(k))
  /\ UNCHANGED <<store, events, direct, worklet, wasm>>

\* Mutant of Upsert: only the first report of a PID is kept.
UpsertFirst(e) ==
  IF HasRecord(e.key[1]) /\ pids[e.key] = None
  THEN [pids EXCEPT ![e.key] = e.start] ELSE pids

\* onWorkletPidMapped: upsert into the session's pids, if there is a record.
Upsert(e) == IF HasRecord(e.key[1]) THEN [pids EXCEPT ![e.key] = e.start] ELSE pids

StoreEvent ==
  /\ events # <<>>
  /\ pids' = Upsert(Head(events))
  /\ events' = Tail(events)
  /\ UNCHANGED <<rec, resolving, worker, ctl, direct, worklet, wasm>>

\* The worker posts PCM on its direct port.
WorkerSends(k, n) ==
  /\ k[1] \in worker
  /\ Len(direct[k[1]]) < MaxDirect
  /\ direct' = [direct EXCEPT ![k[1]] = Append(@, [key |-> k, n |-> n])]
  /\ UNCHANGED <<store, ctl, events, worklet, wasm>>
--------------------------------------------------------------------------------
(* The worklet *)

\* Mutant of Rewound: every teardown rewinds.
RewoundAlways(map, alloc) == 0

\* When nothing is mapped any more the allocator starts over.
Rewound(map, alloc) == IF \A k \in Key : map[k] = None THEN 0 ELSE alloc

\* Mutant of Forget: the full reset of a single-session worklet.
ForgetAll(s) == [k \in Key |-> None]

Forget(s) == [k \in Key |-> IF k[1] = s THEN None ELSE pidMap[k]]

FeedMapped(k) ==
  /\ pidMap[k] # None
  /\ elastic' = elastic \cup Strips(wasmMap[k])
  /\ UNCHANGED <<pidAlloc, pidMap, cappedPids, wasmMap, events>>

\* Mutant of AutoMap: only the first channel has to fit.
AutoMapLastFits(k, n) ==
  LET r == [start |-> pidAlloc, n |-> n]
  IN  /\ pidMap[k] = None
      /\ pidAlloc < MAX_MIXER_CHANNELS
      /\ pidAlloc' = pidAlloc + n
      /\ pidMap' = [pidMap EXCEPT ![k] = r]
      /\ wasmMap' = [wasmMap EXCEPT ![k] = r]
      /\ elastic' = elastic \cup Strips(r)
      /\ events' = Append(events, [key |-> k, start |-> pidAlloc])
      /\ UNCHANGED cappedPids

\* First PCM of a PID: map it at the allocator's cursor, then feed.
AutoMap(k, n) ==
  LET r == [start |-> pidAlloc, n |-> n]
  IN  /\ pidMap[k] = None
      /\ pidAlloc + n <= MAX_MIXER_CHANNELS
      /\ pidAlloc' = pidAlloc + n
      /\ pidMap' = [pidMap EXCEPT ![k] = r]
      /\ wasmMap' = [wasmMap EXCEPT ![k] = r]
      /\ elastic' = elastic \cup Strips(r)
      /\ events' = Append(events, [key |-> k, start |-> pidAlloc])
      /\ UNCHANGED cappedPids

\* Past the cap: report once, drop.
Cap(k, n) ==
  /\ pidMap[k] = None
  /\ pidAlloc + n > MAX_MIXER_CHANNELS
  /\ cappedPids' = cappedPids \cup {k}
  /\ events' = IF k \in cappedPids THEN events
               ELSE Append(events, [key |-> k, start |-> -1])
  /\ UNCHANGED <<pidAlloc, pidMap, wasm>>

\* _onPcm, whichever way the PCM came.
OnPcm(k, n) ==
  \/ mixer /\ (FeedMapped(k) \/ AutoMap(k, n) \/ Cap(k, n))
  \/ ~mixer /\ UNCHANGED <<pidAlloc, pidMap, cappedPids, wasm, events>>

DirectPcm(s) ==
  /\ s \in open
  /\ direct[s] # <<>>
  /\ OnPcm(Head(direct[s]).key, Head(direct[s]).n)
  /\ direct' = [direct EXCEPT ![s] = Tail(@)]
  /\ UNCHANGED <<store, ctl, mixer, open>>

\* Handling of the control message m.
OnPort(m) ==
  /\ m.type = "port"
  /\ open' = open \cup {m.sid}
  /\ UNCHANGED <<pidAlloc, pidMap, cappedPids, wasm, events, direct>>

\* Mutant of OnNullPort: the mappings are forgotten, the port stays open.
OnNullPortStaysOpen(m) ==
  /\ m.type = "null-port"
  /\ pidMap' = Forget(m.sid)
  /\ cappedPids' = {k \in cappedPids : k[1] # m.sid}
  /\ pidAlloc' = Rewound(pidMap', pidAlloc)
  /\ UNCHANGED <<open, direct, wasm, events>>

\* Close the session's port, with what is queued on it, and forget its mappings.
OnNullPort(m) ==
  /\ m.type = "null-port"
  /\ open' = open \ {m.sid}
  /\ direct' = IF m.sid \in open THEN [direct EXCEPT ![m.sid] = <<>>] ELSE direct
  /\ pidMap' = Forget(m.sid)
  /\ cappedPids' = {k \in cappedPids : k[1] # m.sid}
  /\ pidAlloc' = Rewound(pidMap', pidAlloc)
  /\ UNCHANGED <<wasm, events>>

\* Mutant of OnUnmap: the worklet looks the PID up in every session.
OnUnmapEverywhere(m) ==
  /\ m.type = "unmap-pid"
  /\ pidMap' = [k \in Key |-> IF k[2] = m.key[2] THEN None ELSE pidMap[k]]
  /\ pidAlloc' = Rewound(pidMap', pidAlloc)
  /\ wasmMap' = IF mixer THEN [wasmMap EXCEPT ![m.key] = None] ELSE wasmMap
  /\ elastic' = IF mixer THEN elastic \ Strips(wasmMap[m.key]) ELSE elastic
  /\ UNCHANGED <<open, cappedPids, events, direct>>

\* unmap_pid_keyed disarms the strips of the mapping it removes.
OnUnmap(m) ==
  /\ m.type = "unmap-pid"
  /\ pidMap' = [pidMap EXCEPT ![m.key] = None]
  /\ pidAlloc' = Rewound(pidMap', pidAlloc)
  /\ wasmMap' = IF mixer THEN [wasmMap EXCEPT ![m.key] = None] ELSE wasmMap
  /\ elastic' = IF mixer THEN elastic \ Strips(wasmMap[m.key]) ELSE elastic
  /\ UNCHANGED <<open, cappedPids, events, direct>>

OnRelayed(m) ==
  /\ m.type = "pcm"
  /\ OnPcm(m.key, 1)
  /\ UNCHANGED <<open, direct>>

Control ==
  /\ ctl # <<>>
  /\ LET m == Head(ctl)
     IN  OnPort(m) \/ OnNullPort(m) \/ OnUnmap(m) \/ OnRelayed(m)
  /\ ctl' = Tail(ctl)
  /\ UNCHANGED <<store, mixer>>

\* init-wasm: posted once, when the module has been fetched.
InitWasm ==
  /\ ~mixer
  /\ mixer' = TRUE
  /\ UNCHANGED <<store, ctl, events, direct, open, pidAlloc, pidMap, cappedPids, wasm>>

Next ==
  \/ \E s \in Session : \/ Connect(s) \/ Resolved(s) \/ ResolveFails(s)
                        \/ Disconnect(s) \/ WtClosed(s) \/ DirectPcm(s)
  \/ \E k \in Key : RelayPcm(k) \/ \E n \in ChannelCounts : WorkerSends(k, n)
  \/ StoreEvent
  \/ Control
  \/ InitWasm

\* The worklet's event loop gets to every message of the node's port.
Spec == Init /\ [][Next]_vars /\ WF_vars(Control)
--------------------------------------------------------------------------------
(* Properties *)

Message ==
  [type : {"port", "null-port"}, sid : Session]
  \cup [type : {"unmap-pid"}, key : Key]
  \cup [type : {"pcm"}, key : Key]

TypeOK ==
  /\ rec \in [Session -> {"new", "connecting", "live", "gone"}]
  /\ resolving \subseteq Session /\ worker \subseteq Session
  /\ pids \in [Key -> Strip \cup {-1, None}]
  /\ ctl \in Seq(Message)
  /\ events \in Seq([key : Key, start : Strip \cup {-1}])
  /\ direct \in [Session -> Seq([key : Key, n : ChannelCounts])]
  /\ mixer \in BOOLEAN /\ open \subseteq Session
  /\ pidAlloc \in 0..MAX_MIXER_CHANNELS
  /\ pidMap \in [Key -> ChRange \cup {None}]
  /\ cappedPids \subseteq Key
  /\ wasmMap \in [Key -> ChRange \cup {None}]
  /\ elastic \subseteq Strip

\* Two streams that are being fed never meet on a strip, whatever sessions came
\* and went before: the allocator's rewinds never hand out the strips of a
\* mapping that lives, and wasm plays each PID on the strips the worklet gave it.
StreamsDontMix ==
  \A j, k \in Key : j # k /\ pidMap[j] # None /\ pidMap[k] # None
                    => Strips(wasmMap[j]) \cap Strips(wasmMap[k]) = {}

\* What the worklet has for a key, the way pid-mapped reports it.
Reported(k) == IF pidMap[k] # None THEN pidMap[k].start
               ELSE IF k \in cappedPids THEN -1 ELSE None

\* Once the reports in flight have landed, the store shows for every session it
\* has exactly the strips (or the cap) the worklet gave its PIDs, whatever unmaps
\* and null ports of other sessions are still under way.
StoreAgrees ==
  events = <<>> => \A k \in Key : HasRecord(k[1]) => pids[k] = Reported(k)

\* What a stream plays on: the strips wasm has for it, as long as the worklet
\* feeds it.
Playing(k) == IF pidMap[k] = None THEN {} ELSE Strips(wasmMap[k])

Ownership ==
  INSTANCE StripOwnership
    WITH Stream <- Key,
         strips <- [k \in Key |-> Playing(k)],
         ended <- {k \in Key : rec[k[1]] = "gone"}

\* The three threads together keep the promise of StripOwnership: a stream gets
\* free strips of the mixer in one step of wasm and worklet, plays on exactly
\* these, and gives them up only after its session was torn down.
OwnsStrips == Ownership!Spec

\* A session in use keeps its strips, whatever happens to the others.
LiveSessionsKeepStrips ==
  [][\A k \in Key : pidMap[k] # None /\ rec[k[1]] # "gone"
                    => pidMap'[k] = pidMap[k]]_vars

\* A torn-down session whose worker is stopped ends up without mappings for
\* good, however much of its PCM was still under way.
TeardownForgets ==
  \A s \in Session :
    rec[s] = "gone" /\ s \notin worker /\ s \notin resolving
    ~> [](\A p \in Pid : pidMap[<<s, p>>] = None)

\* "Disconnect one session: [...] terminate its worker, remove the record": once
\* a session's record is gone and its connect call is over, no worker of it runs.
DisconnectSticks ==
  \A s \in Session : rec[s] = "gone" /\ s \notin resolving => s \notin worker

\* unmap_pid_keyed disarms the strips of a session that is gone "so the queue's
\* tail drains silently instead of starving into degraded GATED strips": once
\* the control messages are handled, only strips of a mapped PID are elastic.
DisconnectDisarms ==
  ctl = <<>> => elastic \subseteq UNION {Strips(pidMap[k]) : k \in Key}
================================================================================
