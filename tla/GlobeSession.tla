---------------------------- MODULE GlobeSession ----------------------------
(***************************************************************************)
(* One mount of the globe page: the ordered start and stop of              *)
(* createApplication (application.js), the data phase that registers the   *)
(* layer and asks for it (gev-boot/application.ts), and the page that       *)
(* starts, uses and destroys it (GlobeV2.tsx).  A phase stands for all      *)
(* that its constructor acquires; the cleanup of a phase other than data    *)
(* does not fail.                                                          *)
(***************************************************************************)
EXTENDS LayerLifecycle

VARIABLES
    status,      \* what the application publishes
    at,          \* where initialize() and cleanup() are
    built,       \* phases whose constructor was called
    held,        \* phases with a cleanup to run
    aborted,     \* controller.signal
    destroying,  \* destroy() was called
    errors       \* a cleanup failed

appVars == <<status, at, built, held, aborted, destroying, errors>>
vars == <<layerVars, appVars>>

START_ORDER == <<"scene", "controls", "data", "tools">>
STOP_ORDER == <<"tools", "controls", "data", "scene">>
Components == {START_ORDER[i] : i \in DOMAIN START_ORDER}

TypeOK ==
    /\ LayerTypeOK
    /\ status \in {"starting", "ready", "failed", "destroying", "destroyed"}
    /\ at \in {"constructing", "running", "cleaning", "over"}
    /\ built \in 1 .. Len(START_ORDER)
    /\ held \subseteq Components
    /\ {aborted, destroying, errors} \subseteq BOOLEAN

\* The page has called start(), and the scene is under construction.
Init ==
    /\ LayerInit
    /\ status = "starting"
    /\ at = "constructing"
    /\ built = 1
    /\ held = {"scene"}
    /\ aborted = FALSE
    /\ destroying = FALSE
    /\ errors = FALSE

\* createData registers the layer and asks for it, without waiting.
CreateData ==
    /\ layer' = [Registered EXCEPT !.epoch = 1, !.wanted = TRUE, !.queued = 1]
    /\ intents' = <<[want |-> TRUE, answer |-> "pending"]>>
    /\ chain' = <<1>>
    /\ UNCHANGED <<turn, teardown, timers, updating, orphans, on, faults>>

\* A constructor returns; an aborted start ends in the cleanup, any other goes
\* on to the next phase.
PhaseBuilt ==
    /\ at = "constructing"
    /\ IF aborted
       THEN at' = "cleaning" /\ UNCHANGED <<status, built, held, layerVars>>
       ELSE IF built = Len(START_ORDER)
       THEN /\ at' = "running"
            /\ status' = "ready"
            /\ UNCHANGED <<built, held, layerVars>>
       ELSE /\ built' = built + 1
            /\ held' = held \cup {START_ORDER[built + 1]}
            /\ status' = "starting"
            /\ UNCHANGED at
            /\ IF START_ORDER[built + 1] = "data" THEN CreateData ELSE UNCHANGED layerVars
    /\ UNCHANGED <<aborted, destroying, errors>>

\* A constructor throws: the signal is aborted and everything is cleaned up.
\* createData does not, past its defer().
PhaseFails ==
    /\ at = "constructing" /\ START_ORDER[built] # "data"
    /\ faults < MaxFaults
    /\ faults' = faults + 1
    /\ aborted' = TRUE
    /\ at' = "cleaning"
    /\ UNCHANGED <<layer, intents, chain, turn, teardown, timers, updating, orphans, on>>
    /\ UNCHANGED <<status, built, held, destroying, errors>>

\* The page goes away and calls destroy(), which awaits a start under way.
Destroy ==
    /\ ~destroying
    /\ destroying' = TRUE
    /\ aborted' = TRUE
    /\ status' = "destroying"
    /\ at' = IF at = "running" THEN "cleaning" ELSE at
    /\ UNCHANGED <<layerVars, built, held, errors>>

\* The component that is cleaned up next.
Due == STOP_ORDER[CHOOSE i \in DOMAIN STOP_ORDER :
             /\ STOP_ORDER[i] \in held
             /\ \A j \in 1 .. i - 1 : STOP_ORDER[j] \notin held]

\* The data phase ends when destroyLayer has, and has failed if the layer is
\* still there; the others end at once.
Cleanup ==
    /\ at = "cleaning" /\ held # {}
    /\ IF Due # "data"
       THEN held' = held \ {Due} /\ UNCHANGED <<layerVars, errors>>
       ELSE IF teardown = "no"
       THEN BeginDestroy /\ UNCHANGED <<held, errors>>
       ELSE /\ teardown \in {"done", "failed"}
            /\ held' = held \ {"data"}
            /\ errors' = (errors \/ layer.present)
            /\ UNCHANGED layerVars
    /\ UNCHANGED <<status, at, built, aborted, destroying>>

\* Mutant of CleanupEnds: a cleanup that failed does not end.
CleanupEndsClean ==
    /\ at = "cleaning" /\ held = {} /\ ~errors
    /\ at' = "over"
    /\ status' = IF destroying THEN "destroyed" ELSE "failed"
    /\ UNCHANGED <<layerVars, built, held, aborted, destroying, errors>>

CleanupEnds ==
    /\ at = "cleaning" /\ held = {}
    /\ at' = "over"
    /\ status' = IF destroying /\ ~errors THEN "destroyed" ELSE "failed"
    /\ UNCHANGED <<layerVars, built, held, aborted, destroying, errors>>

\* destroy() after a start that failed finds its cleanup done.
DestroyEnds ==
    /\ at = "over" /\ status = "destroying"
    /\ status' = IF errors THEN "failed" ELSE "destroyed"
    /\ UNCHANGED <<layerVars, at, built, held, aborted, destroying, errors>>

AppStep == PhaseBuilt \/ Cleanup \/ CleanupEnds \/ DestroyEnds

\* The rail of the page calls setEnabled() while the page is up.
UserRequest ==
    at = "running" /\ (\E want \in BOOLEAN : Request(want)) /\ UNCHANGED appVars

\* What runs in the layer by itself.
TurnRuns == TurnStep /\ UNCHANGED appVars
CleanupSettles == StraySettles /\ UNCHANGED appVars
TeardownRuns == TeardownStep /\ UNCHANGED appVars
RefreshRuns == (Tick \/ RefreshSettles) /\ UNCHANGED appVars

Next ==
    \/ UserRequest
    \/ TurnRuns
    \/ CleanupSettles
    \/ RefreshRuns
    \/ TeardownRuns
    \/ AppStep
    \/ PhaseFails
    \/ Destroy

Spec == Init /\ [][Next]_vars

\* What is queued as a microtask runs, and what the module and the constructors
\* were asked for settles: they are requests with a timeout.
Fairness ==
    /\ WF_vars(TurnRuns)
    /\ WF_vars(CleanupSettles)
    /\ WF_vars(TeardownRuns)
    /\ WF_vars(AppStep)

FairSpec == Spec /\ Fairness

-----------------------------------------------------------------------------
\* Properties of a session.

\* When the page has left and the application says it is destroyed, no timer of
\* the layer runs, its module is off and no turn is under way or queued: nothing
\* draws into a viewer that is gone.
DestroyedIsSilent ==
    status = "destroyed" => timers = 0 /\ ~on /\ turn.pc = "idle" /\ chain = <<>>

\* destroy() ends, wherever it finds the start, the layer and its turns.
DestroyEndsEventually == destroying ~> status \in {"destroyed", "failed"}
=============================================================================
