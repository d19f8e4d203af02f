------------------------------ MODULE ServerProofs ------------------------------
(****************************************************************************)
(* What holds of a server for every validity, slack and number of days,     *)
(* pairs and connections.                                                   *)
(*                                                                          *)
(* KeyErrorNeedsCut is not inductive: PairInv adds what is on disk at each  *)
(* step of a generation, and that a mismatch on disk or in memory comes     *)
(* from a cut.  ServedInDate rests on InDateInv, which holds the slack from *)
(* the moment the pair is loaded or made, ServedIsKept on KeptInv, that the *)
(* files hold what is in memory once a generation is over, and              *)
(* CtrlCCutsNoAnswer on DrainInv, that a web task that stopped in order has *)
(* no connection left.                                                      *)
(****************************************************************************)
EXTENDS Server, TLAPS

\* The pair in memory has its slack from the day it was loaded or generated.
InDateInv ==
  mode = "self_signed" /\ main \in Generating \cup {"start", "tls", "bind"} \cup Serving
  => /\ web_tls \in WebTls
     /\ web_tls.since + EXPIRY_SLACK_DAYS <= web_tls.cert.not_after

PairInv ==
  /\ main = "load_persisted" => mode = "self_signed"
  /\ main = "read_pem" => mode = "pem"
  /\ main \in Generating =>
       mode = "self_signed" /\ web_tls.key \in Pair /\ web_tls.cert.pair = web_tls.key
  /\ main = "write_cert" => cert_pem = Torn
  /\ main \in {"truncate_key", "write_key"} => cert_pem = web_tls.cert
  /\ main = "write_key" => key_pem = Torn
  /\ Whole(cert_pem) /\ Whole(key_pem) /\ cert_pem.pair # key_pem
       => main = "truncate_key" \/ cut
  /\ main \in {"start", "tls"} /\ mode = "self_signed" => Matching(web_tls) \/ cut
  /\ KeyErrorNeedsCut

\* From the end of a generation on, the files hold what is in memory.
KeptInv ==
  mode = "self_signed" /\ main \in {"start", "tls", "bind"} \cup Serving
  => cert_pem = web_tls.cert /\ key_pem = web_tls.key

LEMMA Bounds ==
  /\ VALIDITY_DAYS \in Nat /\ EXPIRY_SLACK_DAYS \in Nat /\ MaxPair \in Nat
  /\ EXPIRY_SLACK_DAYS < VALIDITY_DAYS
BY ServerAssumption

LEMMA TypeInit == Init => TypeOK
<1> SUFFICES ASSUME Init PROVE TypeOK
  OBVIOUS
<1>1. waiting \in SUBSET Task /\ woken \in SUBSET Task
  BY DEF Init
<1>2. main = "down" /\ exit = "none" /\ mode \in Mode /\ ctrl_c = "none" /\ web = "none"
  BY DEF Init, Mode
<1>3. now \in Nat /\ conns \in Nat /\ last_pair \in 0..MaxPair
  BY Bounds DEF Init
<1>4. cut \in BOOLEAN
  BY DEF Init
<1> QED
  BY <1>1, <1>2, <1>3, <1>4 DEF Init, TypeOK

\* Ways to end a process.
How == {"ok", "killed", "io", "tls", "bind"}

LEMMA ExitType ==
  ASSUME TypeOK, NEW how \in How, Exit(how), UNCHANGED <<files, now, last_pair>>
  PROVE  TypeOK'
<1>1. cut' \in BOOLEAN
  BY DEF Exit
<1>2. waiting' \in SUBSET Task /\ woken' \in SUBSET Task
  BY DEF Exit
<1>3. exit' \in How /\ main' = "down" /\ web_tls' = None /\ mode' \in Mode
  BY DEF Exit, TypeOK
<1> QED
  BY <1>1, <1>2, <1>3 DEF Exit, files, How, TypeOK

LEMMA ExitPair ==
  ASSUME PairInv, NEW how \in How, how = "tls" /\ mode = "self_signed" => cut,
         Exit(how), UNCHANGED <<files, now, last_pair>>
  PROVE  PairInv'
<1>1. main' = "down"
  BY DEF Exit
<1>2. KeyErrorNeedsCut'
  BY DEF Exit, KeyErrorNeedsCut
<1>3. (Whole(cert_pem) /\ Whole(key_pem) /\ cert_pem.pair # key_pem => cut)'
  BY DEF Exit, PairInv, files, Whole
<1> QED
  BY <1>1, <1>2, <1>3 DEF PairInv, Generating

LEMMA TypeStep == TypeOK /\ InDateInv /\ PairInv /\ [Next]_vars => TypeOK'
<1> SUFFICES ASSUME TypeOK, InDateInv, PairInv, [Next]_vars PROVE TypeOK'
  OBVIOUS
<1> USE Bounds
<1>1. CASE LoadPersisted
  <2>1. CASE Usable(cert_pem, key_pem)
    <3>1. cert_pem \in Certificate /\ key_pem \in Pair /\ now \in Nat
      BY <2>1 DEF Usable, Whole, TypeOK, Certificate
    <3>2. web_tls' \in WebTls
      BY <1>1, <2>1, <3>1 DEF LoadPersisted, WebTls
    <3> QED
      BY <1>1, <2>1, <3>2 DEF files, LoadPersisted, Goto, TypeOK
  <2>2. CASE ~Usable(cert_pem, key_pem)
    <3>1. last_pair' \in Pair /\ last_pair' \in 0..MaxPair
      BY <1>1, <2>2 DEF LoadPersisted, TypeOK, Pair
    <3>2. [pair |-> last_pair', not_after |-> now + VALIDITY_DAYS] \in Certificate
      BY <3>1 DEF TypeOK, Certificate
    <3>3. web_tls' \in WebTls
      BY <1>1, <2>2, <3>1, <3>2 DEF NotAfter, LoadPersisted, WebTls, TypeOK
    <3>4. main' = "truncate_cert" /\ UNCHANGED <<exit, mode, ctrl_c, waiting, woken, web, conns, cut>>
      BY <1>1, <2>2 DEF LoadPersisted, Goto
    <3>5. UNCHANGED <<cert_pem, key_pem, now>>
      BY <1>1 DEF LoadPersisted, files
    <3> QED
      BY <3>1, <3>3, <3>4, <3>5 DEF TypeOK, Generating
  <2> QED
    BY <2>1, <2>2
<1>2. CASE TruncateCert
  BY <1>2 DEF files, process, TruncateCert, Goto, TypeOK, Mode, Task, WebTls,
     Certificate, Pair, UserPair, Generating, Serving
<1>3. CASE WriteCert
  <2>1. web_tls \in WebTls /\ mode = "self_signed" /\ web_tls.cert.pair \in Pair
    BY <1>3 DEF WriteCert, InDateInv, PairInv, Generating
  <2>2. cert_pem' \in [pair : Pair, not_after : Nat]
    BY <1>3, <2>1 DEF WriteCert, WebTls, Certificate
  <2> QED
    BY <1>3, <2>2 DEF files, WriteCert, Goto, TypeOK, Mode, Task, WebTls,
       Certificate, Pair, UserPair, Generating, Serving
<1>4. CASE TruncateKey
  BY <1>4 DEF files, process, TruncateKey, Goto, TypeOK, Mode, Task, WebTls,
     Certificate, Pair, UserPair, Generating, Serving
<1>5. CASE WriteKey
  <2>1. key_pem' \in Pair
    BY <1>5 DEF WriteKey, PairInv, Generating
  <2> QED
    BY <1>5, <2>1 DEF files, WriteKey, Goto, TypeOK, Mode, Task, WebTls,
       Certificate, Pair, UserPair, Generating, Serving
<1>6. CASE ReadPemFiles
  <2>1. CASE Exit("io")
    BY <1>6, <2>1, ExitType DEF ReadPemFiles, How
  <2>2. CASE ~Exit("io")
    <3>1. PICK key \in {UserPair, None} :
            web_tls' = [cert |-> [pair |-> UserPair, not_after |-> now], key |-> key, since |-> now]
      BY <1>6, <2>2 DEF ReadPemFiles
    <3>2. [pair |-> UserPair, not_after |-> now] \in Certificate /\ now \in Nat
      BY DEF Certificate, TypeOK
    <3>3. web_tls' \in WebTls
      BY <3>1, <3>2 DEF WebTls
    <3> QED
      BY <1>6, <2>2, <3>3 DEF files, ReadPemFiles, Goto, TypeOK
  <2> QED
    BY <2>1, <2>2
<1>7. CASE SpawnCtrlC
  BY <1>7 DEF files, process, SpawnCtrlC, TypeOK, Mode, Task, WebTls, Certificate,
     Pair, UserPair, Generating, Serving
<1>8. CASE LoadTls
  <2>1. CASE Exit("tls")
    BY <1>8, <2>1, ExitType DEF LoadTls, How
  <2>2. CASE ~Exit("tls")
    BY <1>8, <2>2 DEF files, LoadTls, Goto, TypeOK
  <2> QED
    BY <2>1, <2>2
<1>9. CASE Bind
  <2>1. CASE Exit("bind")
    BY <1>9, <2>1, ExitType DEF Bind, How
  <2>2. CASE ~Exit("bind")
    BY <1>9, <2>2 DEF files, Bind, TypeOK, Serving
  <2> QED
    BY <2>1, <2>2
<1>10. CASE EnterSelect
  BY <1>10 DEF files, process, EnterSelect, TypeOK, Mode, Task, WebTls,
     Certificate, Pair, UserPair, Generating, Serving
<1>11. CASE MainCtrlC
  BY <1>11 DEF files, process, MainCtrlC, TypeOK, Mode, Task, WebTls, Certificate,
     Pair, UserPair, Generating, Serving
<1>12. CASE MainEnds
  BY <1>12, ExitType DEF MainEnds, How
<1>13. CASE \E m \in Mode : Start(m)
  BY <1>13 DEF files, process, Start, TypeOK, Mode, Task, WebTls, Certificate,
     Pair, UserPair, Generating, Serving, Mode
<1>14. CASE Kill
  BY <1>14, ExitType DEF Kill, How
<1>15. CASE WriteFails
  BY <1>15, ExitType DEF WriteFails, How
<1>16. CASE SigInt
  <2>1. CASE Exit("killed")
    BY <1>16, <2>1, ExitType DEF SigInt, How
  <2>2. CASE ~Exit("killed")
    BY <1>16, <2>2 DEF files, SigInt, TypeOK
  <2> QED
    BY <2>1, <2>2
<1>17. CASE WebFails
  BY <1>17 DEF files, process, WebFails, TypeOK, Mode, Task, WebTls, Certificate,
     Pair, UserPair, Generating, Serving
<1>18. CASE ConnOpens
  BY <1>18 DEF files, process, ConnOpens, TypeOK, Mode, Task, WebTls, Certificate,
     Pair, UserPair, Generating, Serving
<1>19. CASE DayPasses
  BY <1>19 DEF files, process, DayPasses, TypeOK, Mode, Task, WebTls, Certificate,
     Pair, UserPair, Generating, Serving
<1>20. CASE ArmCtrlC
  BY <1>20 DEF files, process, ArmCtrlC, TypeOK, Mode, Task, WebTls, Certificate,
     Pair, UserPair, Generating, Serving
<1>21. CASE CtrlCNotifies
  BY <1>21 DEF files, process, CtrlCNotifies, NotifyWaiters, TypeOK, Mode, Task,
     WebTls, Certificate, Pair, UserPair, Generating, Serving
<1>22. CASE WatcherWaits
  BY <1>22 DEF files, process, WatcherWaits, TypeOK, Mode, Task, WebTls,
     Certificate, Pair, UserPair, Generating, Serving
<1>23. CASE WatcherRuns
  BY <1>23 DEF files, process, WatcherRuns, TypeOK, Mode, Task, WebTls,
     Certificate, Pair, UserPair, Generating, Serving
<1>24. CASE WebStops
  BY <1>24 DEF files, process, WebStops, TypeOK, Mode, Task, WebTls, Certificate,
     Pair, UserPair, Generating, Serving
<1>25. CASE ConnCloses
  BY <1>25 DEF files, process, ConnCloses, TypeOK, Mode, Task, WebTls,
     Certificate, Pair, UserPair, Generating, Serving
<1>26. CASE UNCHANGED vars
  BY <1>26 DEF vars, files, process, TypeOK, Mode, Task, WebTls, Certificate,
     Pair, UserPair, Generating, Serving
<1> QED
  BY <1>1, <1>2, <1>3, <1>4, <1>5, <1>6, <1>7, <1>8, <1>9, <1>10, <1>11, <1>12,
     <1>13, <1>14, <1>15, <1>16, <1>17, <1>18, <1>19, <1>20, <1>21, <1>22, <1>23,
     <1>24, <1>25, <1>26 DEF Next, Main, Environment

LEMMA InDateInit == Init => InDateInv
BY DEF Init, InDateInv, Generating, Serving

LEMMA InDateStep == TypeOK /\ InDateInv /\ PairInv /\ [Next]_vars => InDateInv'
<1> SUFFICES ASSUME TypeOK, InDateInv, PairInv, [Next]_vars PROVE InDateInv'
  OBVIOUS
<1> USE Bounds
<1>1. CASE LoadPersisted
  BY <1>1 DEF files, process, NotAfter, LoadPersisted, Goto, InDateInv, TypeOK, WebTls,
     Certificate, Pair, UserPair, Generating, Serving, Usable, Whole
<1>2. CASE TruncateCert
  BY <1>2 DEF files, process, TruncateCert, Goto, InDateInv, TypeOK, WebTls,
     Certificate, Pair, UserPair, Generating, Serving
<1>3. CASE WriteCert
  BY <1>3 DEF files, process, WriteCert, Goto, InDateInv, TypeOK, WebTls,
     Certificate, Pair, UserPair, Generating, Serving
<1>4. CASE TruncateKey
  BY <1>4 DEF files, process, TruncateKey, Goto, InDateInv, TypeOK, WebTls,
     Certificate, Pair, UserPair, Generating, Serving
<1>5. CASE WriteKey
  BY <1>5 DEF files, process, WriteKey, Goto, InDateInv, TypeOK, WebTls,
     Certificate, Pair, UserPair, Generating, Serving
<1>6. CASE ReadPemFiles
  <2>1. mode' # "self_signed" \/ main' = "down"
    BY <1>6 DEF ReadPemFiles, Exit, Goto, PairInv
  <2> QED
    BY <2>1 DEF InDateInv, Generating, Serving
<1>7. CASE SpawnCtrlC
  BY <1>7 DEF files, process, SpawnCtrlC, InDateInv, TypeOK, WebTls, Certificate,
     Pair, UserPair, Generating, Serving
<1>8. CASE LoadTls
  BY <1>8 DEF files, process, LoadTls, Exit, Goto, InDateInv, TypeOK, WebTls,
     Certificate, Pair, UserPair, Generating, Serving
<1>9. CASE Bind
  BY <1>9 DEF files, process, Bind, Exit, InDateInv, TypeOK, WebTls, Certificate,
     Pair, UserPair, Generating, Serving
<1>10. CASE EnterSelect
  BY <1>10 DEF files, process, EnterSelect, InDateInv, TypeOK, WebTls,
     Certificate, Pair, UserPair, Generating, Serving
<1>11. CASE MainCtrlC
  BY <1>11 DEF files, process, MainCtrlC, InDateInv, TypeOK, WebTls, Certificate,
     Pair, UserPair, Generating, Serving
<1>12. CASE MainEnds
  BY <1>12 DEF files, process, MainEnds, Exit, InDateInv, TypeOK, WebTls,
     Certificate, Pair, UserPair, Generating, Serving
<1>13. CASE \E m \in Mode : Start(m)
  BY <1>13 DEF files, process, Start, InDateInv, TypeOK, WebTls, Certificate,
     Pair, UserPair, Generating, Serving, Mode
<1>14. CASE Kill
  BY <1>14 DEF files, process, Kill, Exit, InDateInv, TypeOK, WebTls, Certificate,
     Pair, UserPair, Generating, Serving
<1>15. CASE WriteFails
  BY <1>15 DEF files, process, WriteFails, Exit, InDateInv, TypeOK, WebTls,
     Certificate, Pair, UserPair, Generating, Serving
<1>16. CASE SigInt
  BY <1>16 DEF files, process, SigInt, Exit, InDateInv, TypeOK, WebTls,
     Certificate, Pair, UserPair, Generating, Serving
<1>17. CASE WebFails
  BY <1>17 DEF files, process, WebFails, InDateInv, TypeOK, WebTls, Certificate,
     Pair, UserPair, Generating, Serving
<1>18. CASE ConnOpens
  BY <1>18 DEF files, process, ConnOpens, InDateInv, TypeOK, WebTls, Certificate,
     Pair, UserPair, Generating, Serving
<1>19. CASE DayPasses
  BY <1>19 DEF files, process, DayPasses, InDateInv, TypeOK, WebTls, Certificate,
     Pair, UserPair, Generating, Serving
<1>20. CASE ArmCtrlC
  BY <1>20 DEF files, process, ArmCtrlC, InDateInv, TypeOK, WebTls, Certificate,
     Pair, UserPair, Generating, Serving
<1>21. CASE CtrlCNotifies
  BY <1>21 DEF files, process, CtrlCNotifies, NotifyWaiters, InDateInv, TypeOK,
     WebTls, Certificate, Pair, UserPair, Generating, Serving
<1>22. CASE WatcherWaits
  BY <1>22 DEF files, process, WatcherWaits, InDateInv, TypeOK, WebTls,
     Certificate, Pair, UserPair, Generating, Serving
<1>23. CASE WatcherRuns
  BY <1>23 DEF files, process, WatcherRuns, InDateInv, TypeOK, WebTls,
     Certificate, Pair, UserPair, Generating, Serving
<1>24. CASE WebStops
  BY <1>24 DEF files, process, WebStops, InDateInv, TypeOK, WebTls, Certificate,
     Pair, UserPair, Generating, Serving
<1>25. CASE ConnCloses
  BY <1>25 DEF files, process, ConnCloses, InDateInv, TypeOK, WebTls, Certificate,
     Pair, UserPair, Generating, Serving
<1>26. CASE UNCHANGED vars
  BY <1>26 DEF vars, files, process, InDateInv, TypeOK, WebTls, Certificate, Pair,
     UserPair, Generating, Serving
<1> QED
  BY <1>1, <1>2, <1>3, <1>4, <1>5, <1>6, <1>7, <1>8, <1>9, <1>10, <1>11, <1>12,
     <1>13, <1>14, <1>15, <1>16, <1>17, <1>18, <1>19, <1>20, <1>21, <1>22, <1>23,
     <1>24, <1>25, <1>26 DEF Next, Main, Environment

LEMMA PairInit == Init => PairInv
BY DEF Init, PairInv, Generating, Whole, KeyErrorNeedsCut

LEMMA PairStep == TypeOK /\ InDateInv /\ PairInv /\ [Next]_vars => PairInv'
<1> SUFFICES ASSUME TypeOK, InDateInv, PairInv, [Next]_vars PROVE PairInv'
  OBVIOUS
<1> USE Bounds
<1>1. CASE LoadPersisted
  <2>0. UNCHANGED <<cert_pem, key_pem, exit, mode, cut>>
    BY <1>1 DEF LoadPersisted, Goto, files
  <2>1. CASE Usable(cert_pem, key_pem)
    <3>1. main' = "start" /\ web_tls' = [cert |-> cert_pem, key |-> key_pem, since |-> now]
      BY <1>1, <2>1 DEF LoadPersisted, Goto
    <3>2. main = "load_persisted" /\ (cert_pem.pair # key_pem => cut)
      BY <1>1, <2>1 DEF LoadPersisted, Usable, PairInv
    <3>3. (Matching(web_tls) \/ cut)'
      BY <3>1, <3>2, <2>0 DEF Matching
    <3> QED
      BY <3>1, <3>2, <3>3, <2>0 DEF PairInv, KeyErrorNeedsCut, Generating, Whole
  <2>2. CASE ~Usable(cert_pem, key_pem)
    <3>1. last_pair' \in Pair
      BY <1>1, <2>2 DEF LoadPersisted, TypeOK, Pair
    <3>2. /\ main' = "truncate_cert"
          /\ web_tls'.key = last_pair' /\ web_tls'.cert.pair = last_pair'
      BY <1>1, <2>2 DEF LoadPersisted, Goto
    <3>3. main = "load_persisted"
      BY <1>1 DEF LoadPersisted
    <3>4. mode' = "self_signed"
      BY <1>1, <2>0, <3>3 DEF PairInv
    <3> QED
      BY <2>0, <3>1, <3>2, <3>3, <3>4 DEF PairInv, KeyErrorNeedsCut, Generating, Whole
  <2> QED
    BY <2>1, <2>2
<1>2. CASE TruncateCert
  BY <1>2 DEF files, process, TruncateCert, Goto, PairInv, KeyErrorNeedsCut,
     TypeOK, InDateInv, WebTls, Certificate, Pair, UserPair, Generating, Serving,
     Whole, Matching
<1>3. CASE WriteCert
  BY <1>3 DEF files, process, WriteCert, Goto, PairInv, KeyErrorNeedsCut, TypeOK,
     InDateInv, WebTls, Certificate, Pair, UserPair, Generating, Serving, Whole,
     Matching
<1>4. CASE TruncateKey
  BY <1>4 DEF files, process, TruncateKey, Goto, PairInv, KeyErrorNeedsCut,
     TypeOK, InDateInv, WebTls, Certificate, Pair, UserPair, Generating, Serving,
     Whole, Matching
<1>5. CASE WriteKey
  BY <1>5 DEF files, process, WriteKey, Goto, PairInv, KeyErrorNeedsCut, TypeOK,
     InDateInv, WebTls, Certificate, Pair, UserPair, Generating, Serving, Whole,
     Matching
<1>6. CASE ReadPemFiles
  <2>1. CASE Exit("io")
    BY <1>6, <2>1, ExitPair DEF ReadPemFiles, How
  <2>2. CASE ~Exit("io")
    <3>1. main' = "start" /\ mode' = "pem" /\ main = "read_pem"
      BY <1>6, <2>2 DEF ReadPemFiles, Goto, PairInv
    <3>2. UNCHANGED <<cert_pem, key_pem, exit, cut>>
      BY <1>6, <2>2 DEF ReadPemFiles, Goto, files
    <3> QED
      BY <3>1, <3>2 DEF PairInv, KeyErrorNeedsCut, Generating, Whole
  <2> QED
    BY <2>1, <2>2
<1>7. CASE SpawnCtrlC
  BY <1>7 DEF files, process, SpawnCtrlC, PairInv, KeyErrorNeedsCut, TypeOK,
     InDateInv, WebTls, Certificate, Pair, UserPair, Generating, Serving, Whole,
     Matching
<1>8. CASE LoadTls
  BY <1>8 DEF files, process, LoadTls, Exit, Goto, PairInv, KeyErrorNeedsCut,
     TypeOK, InDateInv, WebTls, Certificate, Pair, UserPair, Generating, Serving,
     Whole, Matching
<1>9. CASE Bind
  BY <1>9 DEF files, process, Bind, Exit, PairInv, KeyErrorNeedsCut, TypeOK,
     InDateInv, WebTls, Certificate, Pair, UserPair, Generating, Serving, Whole,
     Matching
<1>10. CASE EnterSelect
  BY <1>10 DEF files, process, EnterSelect, PairInv, KeyErrorNeedsCut, TypeOK,
     InDateInv, WebTls, Certificate, Pair, UserPair, Generating, Serving, Whole,
     Matching
<1>11. CASE MainCtrlC
  BY <1>11 DEF files, process, MainCtrlC, PairInv, KeyErrorNeedsCut, TypeOK,
     InDateInv, WebTls, Certificate, Pair, UserPair, Generating, Serving, Whole,
     Matching
<1>12. CASE MainEnds
  BY <1>12 DEF files, process, MainEnds, Exit, PairInv, KeyErrorNeedsCut, TypeOK,
     InDateInv, WebTls, Certificate, Pair, UserPair, Generating, Serving, Whole,
     Matching
<1>13. CASE \E m \in Mode : Start(m)
  BY <1>13 DEF files, process, Start, PairInv, KeyErrorNeedsCut, TypeOK,
     InDateInv, WebTls, Certificate, Pair, UserPair, Generating, Serving, Whole,
     Matching, Mode
<1>14. CASE Kill
  BY <1>14 DEF files, process, Kill, Exit, PairInv, KeyErrorNeedsCut, TypeOK,
     InDateInv, WebTls, Certificate, Pair, UserPair, Generating, Serving, Whole,
     Matching
<1>15. CASE WriteFails
  BY <1>15 DEF files, process, WriteFails, Exit, PairInv, KeyErrorNeedsCut,
     TypeOK, InDateInv, WebTls, Certificate, Pair, UserPair, Generating, Serving,
     Whole, Matching
<1>16. CASE SigInt
  <2>1. CASE Exit("killed")
    BY <1>16, <2>1, ExitPair DEF SigInt, How
  <2>2. CASE ~Exit("killed")
    BY <1>16, <2>2 DEF files, SigInt, PairInv, KeyErrorNeedsCut, Generating,
       Whole, Matching
  <2> QED
    BY <2>1, <2>2
<1>17. CASE WebFails
  BY <1>17 DEF files, process, WebFails, PairInv, KeyErrorNeedsCut, TypeOK,
     InDateInv, WebTls, Certificate, Pair, UserPair, Generating, Serving, Whole,
     Matching
<1>18. CASE ConnOpens
  BY <1>18 DEF files, process, ConnOpens, PairInv, KeyErrorNeedsCut, TypeOK,
     InDateInv, WebTls, Certificate, Pair, UserPair, Generating, Serving, Whole,
     Matching
<1>19. CASE DayPasses
  BY <1>19 DEF files, process, DayPasses, PairInv, KeyErrorNeedsCut, TypeOK,
     InDateInv, WebTls, Certificate, Pair, UserPair, Generating, Serving, Whole,
     Matching
<1>20. CASE ArmCtrlC
  BY <1>20 DEF files, process, ArmCtrlC, PairInv, KeyErrorNeedsCut, TypeOK,
     InDateInv, WebTls, Certificate, Pair, UserPair, Generating, Serving, Whole,
     Matching
<1>21. CASE CtrlCNotifies
  BY <1>21 DEF files, process, CtrlCNotifies, NotifyWaiters, PairInv,
     KeyErrorNeedsCut, TypeOK, InDateInv, WebTls, Certificate, Pair, UserPair,
     Generating, Serving, Whole, Matching
<1>22. CASE WatcherWaits
  BY <1>22 DEF files, process, WatcherWaits, PairInv, KeyErrorNeedsCut, TypeOK,
     InDateInv, WebTls, Certificate, Pair, UserPair, Generating, Serving, Whole,
     Matching
<1>23. CASE WatcherRuns
  BY <1>23 DEF files, process, WatcherRuns, PairInv, KeyErrorNeedsCut, TypeOK,
     InDateInv, WebTls, Certificate, Pair, UserPair, Generating, Serving, Whole,
     Matching
<1>24. CASE WebStops
  BY <1>24 DEF files, process, WebStops, PairInv, KeyErrorNeedsCut, TypeOK,
     InDateInv, WebTls, Certificate, Pair, UserPair, Generating, Serving, Whole,
     Matching
<1>25. CASE ConnCloses
  BY <1>25 DEF files, process, ConnCloses, PairInv, KeyErrorNeedsCut, TypeOK,
     InDateInv, WebTls, Certificate, Pair, UserPair, Generating, Serving, Whole,
     Matching
<1>26. CASE UNCHANGED vars
  BY <1>26 DEF vars, files, process, PairInv, KeyErrorNeedsCut, TypeOK, InDateInv,
     WebTls, Certificate, Pair, UserPair, Generating, Serving, Whole, Matching
<1> QED
  BY <1>1, <1>2, <1>3, <1>4, <1>5, <1>6, <1>7, <1>8, <1>9, <1>10, <1>11, <1>12,
     <1>13, <1>14, <1>15, <1>16, <1>17, <1>18, <1>19, <1>20, <1>21, <1>22, <1>23,
     <1>24, <1>25, <1>26 DEF Next, Main, Environment

LEMMA KeptInit == Init => KeptInv
BY DEF Init, KeptInv, Serving

LEMMA KeptStep == PairInv /\ KeptInv /\ [Next]_vars => KeptInv'
<1> SUFFICES ASSUME PairInv, KeptInv, [Next]_vars PROVE KeptInv'
  OBVIOUS
<1>1. CASE LoadPersisted
  BY <1>1 DEF LoadPersisted, Goto, files, KeptInv, Serving
<1>2. CASE TruncateCert \/ WriteCert \/ TruncateKey
  BY <1>2 DEF TruncateCert, WriteCert, TruncateKey, Goto, KeptInv, Serving
<1>3. CASE WriteKey
  BY <1>3 DEF WriteKey, Goto, PairInv, KeptInv
<1>4. CASE ReadPemFiles
  <2>1. mode' # "self_signed" \/ main' = "down"
    BY <1>4 DEF ReadPemFiles, Exit, Goto, PairInv
  <2> QED
    BY <2>1 DEF KeptInv, Serving
<1>5. CASE SpawnCtrlC \/ LoadTls \/ Bind \/ EnterSelect \/ MainCtrlC \/ MainEnds
  BY <1>5 DEF SpawnCtrlC, LoadTls, Bind, EnterSelect, MainCtrlC, MainEnds, Goto, Exit,
     files, KeptInv, Serving
<1>6. CASE Environment
  BY <1>6 DEF Environment, Start, Kill, WriteFails, SigInt, WebFails, ConnOpens,
     DayPasses, Exit, files, process, KeptInv, Serving
<1>7. CASE ArmCtrlC \/ CtrlCNotifies \/ WatcherWaits \/ WatcherRuns
  BY <1>7 DEF ArmCtrlC, CtrlCNotifies, WatcherWaits, WatcherRuns, files, KeptInv, Serving
<1>8. CASE WebStops \/ ConnCloses
  BY <1>8 DEF WebStops, ConnCloses, files, KeptInv, Serving
<1>9. CASE UNCHANGED vars
  BY <1>9 DEF vars, files, process, KeptInv, Serving
<1> QED
  BY <1>1, <1>2, <1>3, <1>4, <1>5, <1>6, <1>7, <1>8, <1>9 DEF Next, Main

\* A web task that stopped on plain HTTP has waited for its connections, and no new
\* one is accepted.
DrainInv ==
  /\ conns \in Nat
  /\ main = "down" => web = "none"
  /\ mode = "no_tls" /\ web = "ok" => conns = 0

LEMMA DrainStep == DrainInv /\ [Next]_vars => DrainInv'
<1> SUFFICES ASSUME DrainInv, [Next]_vars PROVE DrainInv'
  OBVIOUS
<1>1. CASE Main
  BY <1>1 DEF Main, LoadPersisted, TruncateCert, WriteCert, TruncateKey, WriteKey,
     ReadPemFiles, SpawnCtrlC, LoadTls, Bind, EnterSelect, MainCtrlC, MainEnds, Goto,
     Exit, DrainInv
<1>2. CASE Environment
  <2>1. CASE \E m \in Mode : Start(m)
    BY <2>1 DEF Start, DrainInv
  <2>2. CASE Kill \/ WriteFails \/ SigInt \/ WebFails \/ ConnOpens \/ DayPasses
    BY <2>2 DEF Kill, WriteFails, SigInt, WebFails, ConnOpens, DayPasses, process, Exit,
       DrainInv
  <2> QED
    BY <1>2, <2>1, <2>2 DEF Environment
<1>3. CASE ArmCtrlC \/ CtrlCNotifies \/ WatcherWaits \/ WatcherRuns
  BY <1>3 DEF ArmCtrlC, CtrlCNotifies, WatcherWaits, WatcherRuns, DrainInv
<1>4. CASE WebStops \/ ConnCloses
  BY <1>4 DEF WebStops, ConnCloses, DrainInv
<1>5. CASE UNCHANGED vars
  BY <1>5 DEF vars, process, DrainInv
<1> QED
  BY <1>1, <1>2, <1>3, <1>4, <1>5 DEF Next

LEMMA Invariant == Spec => [](TypeOK /\ InDateInv /\ PairInv /\ KeptInv)
<1>1. Init => TypeOK /\ InDateInv /\ PairInv /\ KeptInv
  BY TypeInit, InDateInit, PairInit, KeptInit
<1>2. TypeOK /\ InDateInv /\ PairInv /\ KeptInv /\ [Next]_vars
      => (TypeOK /\ InDateInv /\ PairInv /\ KeptInv)'
  BY TypeStep, InDateStep, PairStep, KeptStep
<1> QED
  BY <1>1, <1>2, PTL DEF files, process, Spec
--------------------------------------------------------------------------------
\* The variables of main.rs and certs.rs keep their types.
THEOREM TypeCorrect == Spec => []TypeOK
BY Invariant, PTL

\* Wherever generate is cut short, the next start heals it, but for one place.
THEOREM KeyErrors == Spec => []KeyErrorNeedsCut
<1>1. PairInv => KeyErrorNeedsCut
  BY DEF PairInv
<1> QED
  BY <1>1, Invariant, PTL

\* Within the slack of its start a server offers no expired certificate.
THEOREM InDate == Spec => []ServedInDate
<1>1. TypeOK /\ InDateInv => ServedInDate
  BY Bounds DEF InDateInv, ServedInDate, TypeOK, WebTls, Certificate, Pair,
     UserPair, Serving
<1> QED
  BY <1>1, Invariant, PTL

\* A server runs only with the pair that the files hold, whatever failed before.
THEOREM Kept == Spec => []ServedIsKept
<1>1. KeptInv => ServedIsKept
  BY DEF KeptInv, ServedIsKept
<1> QED
  BY <1>1, Invariant, PTL

\* Ctrl-C cuts no answer on plain HTTP.
THEOREM Drained == Spec => CtrlCCutsNoAnswer
<1>1. Init => DrainInv
  BY DEF Init, DrainInv
<1>2. /\ DrainInv /\ [Next]_vars
      => [main # "down" /\ main' = "down" /\ exit' = "ok" /\ mode = "no_tls"
          => web = "err" \/ conns = 0]_vars
  <2> SUFFICES ASSUME DrainInv, Next, main # "down", main' = "down", exit' = "ok"
               PROVE  WebDone
    BY DEF DrainInv, WebDone, vars, process
  <2>1. CASE Main
    BY <2>1 DEF Main, LoadPersisted, TruncateCert, WriteCert, TruncateKey, WriteKey,
       ReadPemFiles, SpawnCtrlC, LoadTls, Bind, EnterSelect, MainCtrlC, MainEnds, Goto,
       Exit
  <2>2. CASE Environment
    BY <2>2 DEF Environment, Start, Kill, WriteFails, SigInt, WebFails, ConnOpens,
       DayPasses, process, Exit
  <2>3. CASE ArmCtrlC \/ CtrlCNotifies \/ WatcherWaits \/ WatcherRuns \/ WebStops \/ ConnCloses
    BY <2>3 DEF ArmCtrlC, CtrlCNotifies, WatcherWaits, WatcherRuns, WebStops,
       ConnCloses
  <2> QED
    BY <2>1, <2>2, <2>3 DEF Next
<1> QED
  BY <1>1, <1>2, DrainStep, PTL DEF Spec, CtrlCCutsNoAnswer
================================================================================
