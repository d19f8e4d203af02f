----------------------------- MODULE StripOwnership -----------------------------
(****************************************************************************)
(* What the session system promises about the mixer's input strips, with no *)
(* threads, ports or allocator: a stream owns no strips or a set of strips  *)
(* of its own, gets it in one piece, and keeps it until its session ends.   *)
(*                                                                          *)
(* A stream of a session that has ended may still claim strips: its PCM can *)
(* be under way when the session is torn down.  PidSessions implements this *)
(* specification.                                                           *)
(****************************************************************************)
CONSTANTS Stream, Strip

VARIABLES
  strips,  \* what each stream plays on
  ended    \* streams whose session is over

vars == <<strips, ended>>

Free == Strip \ UNION {strips[k] : k \in Stream}

Init ==
  /\ strips = [k \in Stream |-> {}]
  /\ ended = {}

Claim(k) ==
  /\ strips[k] = {}
  /\ \E S \in (SUBSET Free) \ {{}} : strips' = [strips EXCEPT ![k] = S]
  /\ UNCHANGED ended

\* Streams that have ended give up their strips, several of them at once when
\* their session is forgotten as a whole.
Release ==
  /\ \E K \in SUBSET ended :
       strips' = [k \in Stream |-> IF k \in K THEN {} ELSE strips[k]]
  /\ UNCHANGED ended

\* A session ends, with all its streams.
End ==
  /\ ended' \in SUBSET Stream
  /\ ended \subseteq ended'
  /\ UNCHANGED strips

Next == (\E k \in Stream : Claim(k)) \/ Release \/ End

Spec == Init /\ [][Next]_vars
================================================================================
