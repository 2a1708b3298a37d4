-------------------------- MODULE CanonicalMirror --------------------------
(***************************************************************************)
(* What the graph write plane promises about the mirror (graphw.rs:1-12,   *)
(* "PostgreSQL is canonical" and "graph updates are NEVER lost"), with the *)
(* limits the code has: a fact is copied only once it is known; a tracked  *)
(* fact is owed to the copy from the step on that makes it canonical; it   *)
(* is struck off when it has been copied, or when its handler is lost, and *)
(* then it is on record as lost; only a sweep takes facts out of the copy, *)
(* and they are on record as swept.                                        *)
(***************************************************************************)
CONSTANTS
    Facts,    \* what the two stores hold
    Tracked   \* the facts whose copy is promised

VARIABLES
    canon,   \* the facts of the canonical store
    known,   \* the facts that were canonical once or are announced
    copy,    \* the facts of the mirror
    owed,    \* tracked facts that somebody will still copy
    lost,    \* tracked facts whose handler stopped
    swept    \* facts a sweep took out of the copy

mirrorVars == <<canon, known, copy, owed, lost, swept>>

Init ==
    /\ canon \subseteq Facts \ Tracked
    /\ known = canon
    /\ copy = {}
    /\ owed = {}
    /\ lost = {}
    /\ swept = {}

\* Rows are written: what is tracked and new among them is owed or was copied
\* ahead of them.
Commit ==
    /\ canon \subseteq canon' /\ canon' \subseteq Facts
    /\ known' = known \cup canon'
    /\ owed \subseteq owed' /\ owed' \subseteq owed \cup (Tracked \cap canon')
    /\ Tracked \cap (canon' \ canon) \subseteq owed' \cup copy \cup swept
    /\ UNCHANGED <<copy, lost, swept>>

\* Copies of known facts are taken on, or facts are announced with their copies.
TakeOn ==
    /\ known \subseteq known' /\ known' \subseteq Facts
    /\ owed \subseteq owed' /\ owed' \subseteq owed \cup (Tracked \cap known')
    /\ Tracked \cap (known' \ known) \subseteq owed'
    /\ UNCHANGED <<canon, copy, lost, swept>>

Deliver ==
    /\ copy \subseteq copy' /\ copy' \subseteq copy \cup known
    /\ UNCHANGED <<canon, known, owed, lost, swept>>

\* What is struck off has been copied.
Settle ==
    /\ owed' \subseteq owed
    /\ owed \ owed' \subseteq copy \cup swept
    /\ UNCHANGED <<canon, known, copy, lost, swept>>

\* Handlers stop; what they owed may be owed by others as well.
Lose ==
    /\ lost \subseteq lost' /\ lost' \subseteq lost \cup owed
    /\ owed' \subseteq owed
    /\ owed \ owed' \subseteq lost'
    /\ UNCHANGED <<canon, known, copy, swept>>

Sweep ==
    /\ copy' \subseteq copy
    /\ swept' = swept \cup (copy \ copy')
    /\ UNCHANGED <<canon, known, owed, lost>>

Delete ==
    /\ canon' \subseteq canon
    /\ UNCHANGED <<known, copy, owed, lost, swept>>

Next == Commit \/ TakeOn \/ Deliver \/ Settle \/ Lose \/ Sweep \/ Delete

Spec == Init /\ [][Next]_mirrorVars
=============================================================================
