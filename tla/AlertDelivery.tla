--------------------------- MODULE AlertDelivery ---------------------------
(***************************************************************************)
(* What the alert engine promises about a notice, one alert on one channel *)
(* (alerts.rs, "Alert engine" and alert_deliveries of migration 0002): once *)
(* it is owed it is told or given up, it is told only when the channel     *)
(* heard it, and after that the channel does not hear it again.            *)
(***************************************************************************)
CONSTANT Notices

VARIABLES
    fate,   \* "none", "owed", "told" or "given up"
    heard   \* the notices their channel has received

noticeVars == <<fate, heard>>

Init ==
    /\ fate = [n \in Notices |-> "none"]
    /\ heard = {}

Owe(n) ==
    /\ fate[n] = "none"
    /\ fate' = [fate EXCEPT ![n] = "owed"]
    /\ UNCHANGED heard

\* The channel may receive a notice more than once, as long as it is owed.
Hear(n) ==
    /\ fate[n] = "owed"
    /\ heard' = heard \cup {n}
    /\ UNCHANGED fate

Tell(n) ==
    /\ fate[n] = "owed"
    /\ n \in heard
    /\ fate' = [fate EXCEPT ![n] = "told"]
    /\ UNCHANGED heard

GiveUp(n) ==
    /\ fate[n] = "owed"
    /\ fate' = [fate EXCEPT ![n] = "given up"]
    /\ UNCHANGED heard

Next == \E n \in Notices : Owe(n) \/ Hear(n) \/ Tell(n) \/ GiveUp(n)

Spec == Init /\ [][Next]_noticeVars

\* Every notice that is owed is told or given up in the end.
Settles ==
    \A n \in Notices : fate[n] = "owed" ~> fate[n] \in {"told", "given up"}
=============================================================================
