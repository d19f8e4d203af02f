--------------------------------- MODULE Server ---------------------------------
(****************************************************************************)
(* The life of a cakemix-server process (main.rs) over the certificate pair *)
(* it keeps in cert.pem and key.pem (certs.rs): load or regenerate the      *)
(* pair, bind, serve, stop on Ctrl-C; it may be killed between any two      *)
(* steps and is started again over the files it left.                       *)
(*                                                                          *)
(* A file is missing, torn (truncated and not filled) or whole.  A whole    *)
(* certificate is the number of its key pair and the day it ends; a whole   *)
(* key is that number.  std::fs::write truncates, then fills.  What rustls, *)
(* axum and tokio's Notify do is modelled from how main.rs uses them: TLS   *)
(* set-up refuses a key that is not the certificate's, and notify_waiters   *)
(* wakes the tasks that wait at that moment and no later one.  One process  *)
(* at a time runs in a directory.  Static files and the cert-hash proxy are *)
(* stateless and appear as connections only.                                *)
(*                                                                          *)
(* Bounds: MaxDay days pass, MaxPair pairs are generated and MaxConn        *)
(* connections are open at a time.                                          *)
(****************************************************************************)
EXTENDS Integers

CONSTANTS
  VALIDITY_DAYS, EXPIRY_SLACK_DAYS,
  MaxDay, MaxPair, MaxConn,
  Missing, Torn,      \* file states
  None

ASSUME ServerAssumption ==
  /\ {VALIDITY_DAYS, EXPIRY_SLACK_DAYS, MaxDay, MaxPair, MaxConn} \subseteq Nat
  /\ EXPIRY_SLACK_DAYS < VALIDITY_DAYS

Pair == 1..MaxPair
UserPair == 0         \* the pair of --cert-pem and --key-pem
Mode == {"self_signed", "pem", "no_tls"}
Task == {"main", "watcher"}

VARIABLES
  cert_pem, key_pem,  \* the two files
  now,                \* the day
  last_pair,          \* pairs generated so far
  main,               \* where main() is; "down" without a process
  exit,               \* how the last process ended
  mode,
  web_tls,            \* [cert, key, since] in memory, or None
  ctrl_c,             \* the task that waits for SIGINT
  waiting, woken,     \* tasks that wait on the Notify, and that it has woken
  web,                \* the axum task
  conns,              \* its open connections
  cut                 \* a process ended with its new certificate beside an old key

files == <<cert_pem, key_pem>>
process == <<main, exit, mode, web_tls, ctrl_c, waiting, woken, web, conns>>
vars == <<files, now, last_pair, process, cut>>

Init ==
  /\ cert_pem = Missing /\ key_pem = Missing
  /\ now = 0 /\ last_pair = 0
  /\ main = "down" /\ exit = "none" /\ mode = "self_signed"
  /\ web_tls = None
  /\ ctrl_c = "none" /\ waiting = {} /\ woken = {}
  /\ web = "none" /\ conns = 0
  /\ cut = FALSE
--------------------------------------------------------------------------------
(* The end of a process, by whatever way *)

Whole(file) == file \notin {Missing, Torn}

Generating == {"truncate_cert", "write_cert", "truncate_key", "write_key"}

Exit(how) ==
  /\ main' = "down"
  /\ exit' = how
  /\ web_tls' = None
  /\ ctrl_c' = "none" /\ waiting' = {} /\ woken' = {}
  /\ web' = "none" /\ conns' = 0
  /\ cut' = (cut \/ (main = "truncate_key" /\ Whole(key_pem)))
  /\ UNCHANGED mode

\* main goes on to the next step; nothing else of the process changes.
Goto(step) ==
  /\ main' = step
  /\ UNCHANGED <<exit, mode, ctrl_c, waiting, woken, web, conns, cut>>

\* SIGKILL, a panic, a power cut.
Kill ==
  /\ main # "down"
  /\ Exit("killed")
  /\ UNCHANGED <<files, now, last_pair>>
--------------------------------------------------------------------------------
(* The certificate stage, which runs before the Ctrl-C handler is in place *)

Start(m) ==
  /\ main = "down"
  /\ mode' = m
  /\ main' = CASE m = "self_signed" -> "load_persisted"
               [] m = "pem" -> "read_pem"
               [] m = "no_tls" -> "start"
  /\ UNCHANGED <<files, now, last_pair, exit, web_tls, ctrl_c, waiting, woken,
                 web, conns, cut>>

\* Mutant of Usable: a certificate is used up to its last day.
UsableUntilExpiry(cert, key) ==
  /\ Whole(cert) /\ Whole(key)
  /\ cert.not_after >= now

\* Mutant of Usable: the key is not parsed.
UsableUnparsedKey(cert, key) ==
  /\ Whole(cert) /\ key # Missing
  /\ cert.not_after >= now + EXPIRY_SLACK_DAYS

\* Both files are there and parse, and the certificate has time left.  Whether
\* they belong together is not looked at.
Usable(cert, key) ==
  /\ Whole(cert) /\ Whole(key)
  /\ cert.not_after >= now + EXPIRY_SLACK_DAYS

\* Mutant of NotAfter: the ends of the validity are swapped.
NotAfterSwapped(day) == day - 1

NotAfter(day) == day + VALIDITY_DAYS

LoadPersisted ==
  /\ main = "load_persisted"
  /\ \/ /\ Usable(cert_pem, key_pem)
        /\ Goto("start")
        /\ web_tls' = [cert |-> cert_pem, key |-> key_pem, since |-> now]
        /\ UNCHANGED last_pair
     \/ /\ ~Usable(cert_pem, key_pem)
        /\ last_pair < MaxPair
        /\ last_pair' = last_pair + 1
        /\ Goto("truncate_cert")
        /\ web_tls' = [cert |-> [pair |-> last_pair', not_after |-> NotAfter(now)],
                       key |-> last_pair', since |-> now]
  /\ UNCHANGED <<files, now>>

\* Mutant of WriteFails: the server starts with the pair it has in memory.
WriteFailsIgnored ==
  /\ main \in Generating
  /\ Goto("start")
  /\ UNCHANGED <<files, web_tls, now, last_pair>>

\* An open or a write that fails ends the process.
WriteFails ==
  /\ main \in Generating
  /\ Exit("io")
  /\ UNCHANGED <<files, now, last_pair>>

TruncateCert ==
  /\ main = "truncate_cert"
  /\ cert_pem' = Torn
  /\ Goto("write_cert")
  /\ UNCHANGED <<key_pem, web_tls, now, last_pair>>

WriteCert ==
  /\ main = "write_cert"
  /\ cert_pem' = web_tls.cert
  /\ Goto("truncate_key")
  /\ UNCHANGED <<key_pem, web_tls, now, last_pair>>

TruncateKey ==
  /\ main = "truncate_key"
  /\ key_pem' = Torn
  /\ Goto("write_key")
  /\ UNCHANGED <<cert_pem, web_tls, now, last_pair>>

WriteKey ==
  /\ main = "write_key"
  /\ key_pem' = web_tls.key
  /\ Goto("start")
  /\ UNCHANGED <<cert_pem, web_tls, now, last_pair>>

\* --cert-pem and --key-pem: any two files the user names, or none.
ReadPemFiles ==
  /\ main = "read_pem"
  /\ \/ /\ \E key \in {UserPair, None} :
             web_tls' = [cert |-> [pair |-> UserPair, not_after |-> now], key |-> key,
                         since |-> now]
        /\ Goto("start")
     \/ Exit("io")
  /\ UNCHANGED <<files, now, last_pair>>
--------------------------------------------------------------------------------
(* From the Ctrl-C task to the select! *)

SpawnCtrlC ==
  /\ main = "start"
  /\ main' = "tls"
  /\ ctrl_c' = "spawned"
  /\ UNCHANGED <<files, now, last_pair, exit, mode, web_tls, waiting, woken, web,
                 conns, cut>>

\* The handler is installed by the task's first poll.
ArmCtrlC ==
  /\ ctrl_c = "spawned"
  /\ ctrl_c' = "armed"
  /\ UNCHANGED <<files, now, last_pair, main, exit, mode, web_tls, waiting, woken,
                 web, conns, cut>>

Matching(tls) == tls.cert.pair = tls.key

LoadTls ==
  /\ main = "tls"
  /\ \/ /\ mode # "no_tls" => Matching(web_tls)
        /\ Goto("bind")
        /\ UNCHANGED web_tls
     \/ /\ mode # "no_tls" /\ ~Matching(web_tls)
        /\ Exit("tls")
  /\ UNCHANGED <<files, now, last_pair>>

\* The port may be taken.  Once bound, the watcher and the web task are spawned.
Bind ==
  /\ main = "bind"
  /\ \/ /\ main' = "serve"
        /\ web' = "serving"
        /\ UNCHANGED <<exit, mode, web_tls, ctrl_c, waiting, woken, conns, cut>>
     \/ Exit("bind")
  /\ UNCHANGED <<files, now, last_pair>>

\* A task begins to wait on the Notify.
EnterSelect ==
  /\ main = "serve"
  /\ main' = "select"
  /\ waiting' = waiting \cup {"main"}
  /\ UNCHANGED <<files, now, last_pair, exit, mode, web_tls, ctrl_c, woken, web,
                 conns, cut>>

\* Spawned and not yet notified: from Bind to the end of the web task.
WatcherWaits ==
  /\ web = "serving"
  /\ "watcher" \notin waiting \cup woken
  /\ waiting' = waiting \cup {"watcher"}
  /\ UNCHANGED <<files, now, last_pair, main, exit, mode, web_tls, ctrl_c, woken,
                 web, conns, cut>>
--------------------------------------------------------------------------------
(* Ctrl-C and the end *)

NotifyWaiters ==
  /\ woken' = woken \cup waiting
  /\ waiting' = {}

\* SIGINT: deadly until the handler is installed, seen by it once, and swallowed
\* ever after.
SigInt ==
  /\ main # "down"
  /\ \/ /\ ctrl_c \in {"none", "spawned"}
        /\ Exit("killed")
     \/ /\ ctrl_c = "armed"
        /\ ctrl_c' = "fired"
        /\ UNCHANGED <<main, exit, mode, web_tls, waiting, woken, web, conns, cut>>
  /\ UNCHANGED <<files, now, last_pair>>

CtrlCNotifies ==
  /\ ctrl_c = "fired"
  /\ ctrl_c' = "done"
  /\ NotifyWaiters
  /\ UNCHANGED <<files, now, last_pair, main, exit, mode, web_tls, web, conns, cut>>

\* Mutant of WatcherRuns: it forgets to stop the server.
WatcherIdles ==
  /\ "watcher" \in woken /\ web = "serving"
  /\ web' = web
  /\ woken' = woken \ {"watcher"}
  /\ UNCHANGED <<files, now, last_pair, main, exit, mode, web_tls, ctrl_c, waiting,
                 conns, cut>>

\* handle.shutdown(), or the graceful signal of axum::serve.
WatcherRuns ==
  /\ "watcher" \in woken /\ web = "serving"
  /\ web' = "stopping"
  /\ UNCHANGED <<files, now, last_pair, main, exit, mode, web_tls, ctrl_c, waiting,
                 woken, conns, cut>>

\* What axum_server and axum do once told to stop: TLS drops every connection,
\* plain HTTP accepts no new one and waits for those that are open.
WebStops ==
  /\ web = "stopping"
  /\ mode # "no_tls" \/ conns = 0
  /\ web' = "ok"
  /\ conns' = 0
  /\ UNCHANGED <<files, now, last_pair, main, exit, mode, web_tls, ctrl_c, waiting,
                 woken, cut>>

\* The accept loop ends with an error or panics.  The connections it had are tasks
\* of their own and go on.
WebFails ==
  /\ web = "serving"
  /\ web' = "err"
  /\ UNCHANGED <<files, now, last_pair, main, exit, mode, web_tls, ctrl_c, waiting,
                 woken, conns, cut>>

\* Mutant of MainCtrlC: the process ends without draining the web task.
MainCtrlCNoDrain ==
  /\ main = "select" /\ "main" \in woken
  /\ Exit("ok")
  /\ UNCHANGED <<files, now, last_pair>>

\* The select! ends by Ctrl-C; main notifies again and drains the web task.
MainCtrlC ==
  /\ main = "select" /\ "main" \in woken
  /\ main' = "drain"
  /\ woken' = (woken \ {"main"}) \cup waiting
  /\ waiting' = {}
  /\ UNCHANGED <<files, now, last_pair, exit, mode, web_tls, ctrl_c, web, conns, cut>>

WebDone == web \in {"ok", "err"}

\* The select! ends by the web task, and main returns without waiting for anything;
\* or the drain is over.
MainEnds ==
  /\ main \in {"select", "drain"} /\ WebDone
  /\ Exit("ok")
  /\ UNCHANGED <<files, now, last_pair>>

ConnOpens ==
  /\ web = "serving" /\ conns < MaxConn
  /\ conns' = conns + 1
  /\ UNCHANGED <<files, now, last_pair, main, exit, mode, web_tls, ctrl_c, waiting,
                 woken, web, cut>>

ConnCloses ==
  /\ conns > 0
  /\ conns' = conns - 1
  /\ UNCHANGED <<files, now, last_pair, main, exit, mode, web_tls, ctrl_c, waiting,
                 woken, web, cut>>

DayPasses ==
  /\ now < MaxDay
  /\ now' = now + 1
  /\ UNCHANGED <<files, last_pair, process, cut>>
--------------------------------------------------------------------------------
Main ==
  \/ LoadPersisted \/ TruncateCert \/ WriteCert \/ TruncateKey \/ WriteKey
  \/ ReadPemFiles \/ SpawnCtrlC \/ LoadTls \/ Bind \/ EnterSelect
  \/ MainCtrlC \/ MainEnds

Environment ==
  \/ \E m \in Mode : Start(m)
  \/ Kill \/ WriteFails \/ SigInt \/ WebFails \/ ConnOpens \/ DayPasses

Next ==
  \/ Main \/ Environment
  \/ ArmCtrlC \/ CtrlCNotifies \/ WatcherWaits \/ WatcherRuns \/ WebStops
  \/ ConnCloses

\* Every task runs when it can, and a client gets its answer; nobody has to start
\* the server, press Ctrl-C, fail or kill.
Fairness ==
  /\ WF_vars(Main)
  /\ WF_vars(ArmCtrlC) /\ WF_vars(CtrlCNotifies)
  /\ WF_vars(WatcherWaits) /\ WF_vars(WatcherRuns) /\ WF_vars(WebStops)
  /\ WF_vars(web = "stopping" /\ ConnCloses)

Spec == Init /\ [][Next]_vars /\ Fairness
--------------------------------------------------------------------------------
(* Properties *)

Serving == {"serve", "select", "drain"}
Certificate == [pair : Pair \cup {UserPair}, not_after : Nat]
WebTls == [cert : Certificate, key : Pair \cup {UserPair, None}, since : Nat]

TypeOK ==
  /\ cert_pem \in [pair : Pair, not_after : Nat] \cup {Missing, Torn}
  /\ key_pem \in Pair \cup {Missing, Torn}
  /\ now \in Nat /\ last_pair \in 0..MaxPair
  /\ main \in {"down", "load_persisted", "read_pem", "start", "tls", "bind"}
              \cup Generating \cup Serving
  /\ exit \in {"none", "ok", "killed", "io", "tls", "bind"}
  /\ mode \in Mode
  /\ web_tls \in WebTls \cup {None}
  /\ ctrl_c \in {"none", "spawned", "armed", "fired", "done"}
  /\ waiting \in SUBSET Task /\ woken \in SUBSET Task
  /\ web \in {"none", "serving", "stopping", "ok", "err"}
  /\ conns \in Nat
  /\ cut \in BOOLEAN

\* Wherever a generation is cut short, the next start heals it: TLS refuses the
\* persisted pair only if some process ended just when its new certificate stood
\* beside a whole old key.
KeyErrorNeedsCut ==
  main = "down" /\ exit = "tls" /\ mode = "self_signed" => cut

\* The slack is what lets a server run on: within EXPIRY_SLACK_DAYS of its start
\* a server never offers an expired certificate of its own, persisted or new.
ServedInDate ==
  main \in Serving /\ mode = "self_signed"
    /\ now <= web_tls.since + EXPIRY_SLACK_DAYS
  => now <= web_tls.cert.not_after

\* What a server offers outlives it: whichever write of a generation failed or was
\* interrupted, now or in an earlier process, a server runs only with the pair that
\* the files hold, so that the next start in time offers the same certificate and
\* the exceptions that browsers made for it stay good.
ServedIsKept ==
  main \in Serving /\ mode = "self_signed"
  => cert_pem = web_tls.cert /\ key_pem = web_tls.key

\* Ctrl-C cuts no answer on plain HTTP: however its notifications interleave with
\* the watcher, the web task and the clients that come and go, the process ends
\* orderly with no connection open.  A web task that fails is the exception, main
\* then returns and drops what is open; TLS drops its connections when it stops.
CtrlCCutsNoAnswer ==
  [][main # "down" /\ main' = "down" /\ exit' = "ok" /\ mode = "no_tls"
     => web = "err" \/ conns = 0]_vars

\* Ctrl-C ends the process once both main and the watcher wait (pressed between
\* the installing of the handler and that moment it can be lost), and a web task
\* that ended does not leave main waiting.
StopsOnCtrlC ==
  (WebDone \/ (ctrl_c = "fired" /\ waiting = Task)) ~> main = "down"

\* "Unreadable files (or a key rustls will reject) count as unreadable": what the
\* certificate stage hands on is ready to use.
ReadyToUse ==
  main = "tls" /\ mode = "self_signed" => Matching(web_tls)
================================================================================
