------------------------- MODULE VisibilityIntents -------------------------
(***************************************************************************)
(* What the data manager promises the callers of setEnabled() about one    *)
(* layer (lifecycle.js, the comments "newest-intent-wins" and "absolute    *)
(* intent"): every request is answered once; only the newest one is ever   *)
(* granted, and then the layer is as it asked; while the newest is pending *)
(* the layer counts as being what it asks for.                             *)
(***************************************************************************)
EXTENDS Integers, Sequences

CONSTANT Requests

VARIABLES
    asked,      \* what was asked for, oldest first; a teardown asks for OFF
    answers,    \* "pending", "granted", "declined" or, for a teardown, "none"
    closed,     \* the layer is being torn down, or gone
    effective,  \* what the layer counts as
    visible     \* what the layer is

intentVars == <<asked, answers, closed, effective, visible>>

Init ==
    /\ asked = <<>>
    /\ answers = <<>>
    /\ closed = FALSE
    /\ effective = FALSE
    /\ visible = FALSE

Ask(want) ==
    /\ ~closed
    /\ asked' = Append(asked, want)
    /\ answers' = Append(answers, "pending")
    /\ effective' = want
    /\ UNCHANGED <<closed, visible>>

Grant(r) ==
    /\ ~closed
    /\ r = Len(asked)
    /\ answers[r] = "pending"
    /\ answers' = [answers EXCEPT ![r] = "granted"]
    /\ effective' = asked[r]
    /\ visible' = asked[r]
    /\ UNCHANGED <<asked, closed>>

\* A request that did not come about leaves the layer in either state, but it
\* does not hide a newer one.
Decline(r) ==
    /\ answers[r] = "pending"
    /\ answers' = [answers EXCEPT ![r] = "declined"]
    /\ r < Len(asked) /\ ~closed => effective' = effective
    /\ {effective', visible'} \subseteq BOOLEAN
    /\ UNCHANGED <<asked, closed>>

\* The layer is torn down; a teardown that fails gives the layer back, with
\* nothing pending.
Close ==
    /\ ~closed
    /\ closed' = TRUE
    /\ asked' = Append(asked, FALSE)
    /\ answers' = Append(answers, "none")
    /\ effective' = FALSE
    /\ UNCHANGED visible

CloseStep ==
    /\ closed
    /\ closed' \in BOOLEAN
    /\ closed' \/ \A r \in DOMAIN answers : answers[r] # "pending"
    /\ {effective', visible'} \subseteq BOOLEAN
    /\ UNCHANGED <<asked, answers>>

Next ==
    \/ \E want \in BOOLEAN : Ask(want)
    \/ \E r \in DOMAIN answers : Grant(r) \/ Decline(r)
    \/ Close
    \/ CloseStep

Spec == Init /\ [][Next]_intentVars

Pending(r) == r \in DOMAIN answers /\ answers[r] = "pending"

\* Every request is answered.
Answered == \A r \in Requests : Pending(r) ~> ~Pending(r)
=============================================================================
