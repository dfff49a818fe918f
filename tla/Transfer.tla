------------------------------ MODULE Transfer ------------------------------
(***************************************************************************)
(* What a caller of ZSTDS::File.compress or ZSTDS::File.decompress is      *)
(* promised, whatever the buffers: the codec is fed the bytes of the       *)
(* source in order, each once; the destination receives the bytes of the   *)
(* codec in order, each once; success is reported only when everything the *)
(* codec made has been delivered; and nothing moves after the outcome.     *)
(***************************************************************************)
EXTENDS Naturals, Sequences

VARIABLES
  taken,      \* source bytes the codec has taken, by position in the source
  out,        \* how many bytes the codec has handed out
  delivered,  \* bytes the destination has received, by number
  outcome     \* "running", "ok" or "failed"

vars == <<taken, out, delivered, outcome>>

\* The next count numbers after those of a sequence 1, 2, 3, ...
Extended(s, count) == s \o [i \in 1 .. count |-> Len(s) + i]

Init ==
  /\ taken = <<>>
  /\ out = 0
  /\ delivered = <<>>
  /\ outcome = "running"

\* One codec call, and the flush of the destination buffer it filled.
Call ==
  /\ outcome = "running"
  /\ out' >= out /\ out' \in Nat
  /\ Len(taken') >= Len(taken)
  /\ taken' = Extended(taken, Len(taken') - Len(taken))
  /\ Len(delivered') \in Len(delivered) .. out'
  /\ delivered' = Extended(delivered, Len(delivered') - Len(delivered))
  /\ outcome' \in {"running", "failed"}

\* The last bytes are delivered and the call succeeds.
Succeed ==
  /\ outcome = "running"
  /\ Len(delivered') = out
  /\ delivered' = Extended(delivered, out - Len(delivered))
  /\ outcome' = "ok"
  /\ UNCHANGED <<taken, out>>

\* Some of the bytes may be delivered before the call is known to fail.
Fail ==
  /\ outcome = "running"
  /\ Len(delivered') \in Len(delivered) .. out
  /\ delivered' = Extended(delivered, Len(delivered') - Len(delivered))
  /\ outcome' = "failed"
  /\ UNCHANGED <<taken, out>>

Next == Call \/ Succeed \/ Fail

Spec == Init /\ [][Next]_vars
=============================================================================
