----------------------------- MODULE AtomicObject -----------------------------
(***************************************************************************)
(* What the transactional store promises its callers: one stored value,    *)
(* calls that change it at a single instant, an error that means nothing   *)
(* changed, and power losses that forget the call but never the value.     *)
(***************************************************************************)
CONSTANTS Values, NoVal

VARIABLES
  stored,   \* what a boot at this moment would find
  phase,    \* "idle", "open": a call that has not taken effect, "applied": one that has
  new       \* what the call under way stores (NoVal: it deletes)

vars == <<stored, phase, new>>

Init == stored = NoVal /\ phase = "idle" /\ new = NoVal

Begin(v) == phase = "idle" /\ phase' = "open" /\ new' = v /\ UNCHANGED stored

\* The instant the call takes effect.
Apply == phase = "open" /\ phase' = "applied" /\ stored' = new /\ UNCHANGED new

Finish == phase' = "idle" /\ new' = NoVal /\ UNCHANGED stored

ReturnOk    == phase = "applied" /\ Finish
ReturnError == phase = "open" /\ Finish
PowerLoss   == phase # "idle" /\ Finish

Next ==
  \/ \E v \in Values \cup {NoVal} : Begin(v)
  \/ Apply \/ ReturnOk \/ ReturnError \/ PowerLoss

Spec == Init /\ [][Next]_vars
===============================================================================
