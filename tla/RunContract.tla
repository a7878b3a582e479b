----------------------------- MODULE RunContract -----------------------------
(***************************************************************************)
(* What one migration run promises to the rest of the system, with the     *)
(* pipeline left out: it works until it stops or pauses for a reviewer;    *)
(* it touches GitHub at most once, as its last step, and if approval is    *)
(* required only after a yes; a no ends it.                                *)
(***************************************************************************)
VARIABLES stage,       \* "running", "awaiting" a decision, or "ended"
          gated,       \* must a reviewer approve this run?
          decision,    \* what the reviewer said
          published    \* is there a branch of this run on GitHub?

vars == <<stage, gated, decision, published>>

Init ==
  /\ stage = "running"
  /\ gated \in BOOLEAN
  /\ decision = "none"
  /\ published = FALSE

Pause ==
  /\ stage = "running"
  /\ gated /\ decision = "none"
  /\ stage' = "awaiting"
  /\ UNCHANGED <<gated, decision, published>>

Approve ==
  /\ stage = "awaiting"
  /\ stage' = "running"
  /\ decision' = "approved"
  /\ UNCHANGED <<gated, published>>

Reject ==
  /\ stage = "awaiting"
  /\ stage' = "ended"
  /\ decision' = "rejected"
  /\ UNCHANGED <<gated, published>>

End(publishes) ==
  /\ stage = "running"
  /\ publishes => (gated => decision = "approved")
  /\ stage' = "ended"
  /\ published' = publishes
  /\ UNCHANGED <<gated, decision>>

Next == Pause \/ Approve \/ Reject \/ \E publishes \in BOOLEAN : End(publishes)

Safety == Init /\ [][Next]_vars

\* A running run gets somewhere; a reviewer may take for ever.
Spec == Safety /\ WF_vars(Pause \/ \E publishes \in BOOLEAN : End(publishes))
=============================================================================
