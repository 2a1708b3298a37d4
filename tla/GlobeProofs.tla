----------------------------- MODULE GlobeProofs -----------------------------
(***************************************************************************)
(* Proofs about GlobeSession: its types, the refresh timers of the layer,  *)
(* that a layer which is OFF draws nothing, and that a session which was   *)
(* destroyed leaves nothing behind.                                        *)
(***************************************************************************)
EXTENDS GlobeSession, SequenceTheorems, TLAPS

-----------------------------------------------------------------------------
\* Writing the entry of the layer.

\* m is the entry l with other presentation: what the turns may rewrite.
Kin(l, m) ==
    /\ m \in Entry
    /\ m.present = l.present /\ m.destroying = l.destroying /\ m.epoch = l.epoch

LEMMA StoppedEntry ==
    ASSUME NEW l \in Entry
    PROVE  Kin(l, Stopped(l)) /\ ~Stopped(l).timer /\ Stopped(l).enabled = l.enabled
  BY DEF Stopped, Kin, Entry

LEMMA PresentedEntry ==
    ASSUME NEW l \in Entry
    PROVE  /\ Kin(l, Presented(l))
           /\ Presented(l).timer = l.timer /\ Presented(l).enabled = l.enabled
  <1> DEFINE state == IF l.enabled THEN "enabled" ELSE "disabled"
  <1>1. state \in Phases
    BY DEF Phases
  <1> HIDE DEF state
  <1>2. Presented(l) = [l EXCEPT !.state = state]
    BY DEF Presented, state
  <1> QED BY <1>1, <1>2 DEF Kin, Entry

LEMMA TransitEntry ==
    ASSUME NEW l \in Entry
    PROVE  /\ Kin(l, Transit(l))
           /\ Transit(l).timer = l.timer /\ Transit(l).enabled = l.enabled
  <1> DEFINE state == IF l.wanted THEN "enabling" ELSE "disabling"
  <1>1. state \in Phases
    BY DEF Phases
  <1> HIDE DEF state
  <1>2. Transit(l) = [l EXCEPT !.state = state]
    BY DEF Transit, state
  <1> QED BY <1>1, <1>2 DEF Kin, Entry

LEMMA AdoptionEntry ==
    ASSUME NEW l \in Entry, NEW e \in Epochs
    PROVE  LET m == [l EXCEPT !.adoption = e]
           IN  Kin(l, m) /\ m.timer = l.timer /\ m.enabled = l.enabled
  BY DEF Kin, Entry

LEMMA SettledEntry ==
    ASSUME NEW l \in Entry
    PROVE  /\ Kin(l, Settled(l))
           /\ Settled(l).timer = l.timer /\ Settled(l).enabled = l.enabled
  <1>1. 0 \in Epochs /\ l.epoch \in Epochs
    BY LayerAssumption DEF Epochs, Entry
  <1>2. CASE turn.epoch = l.epoch
    <2>1. Settled(l) = [Presented(l) EXCEPT !.adoption = 0]
      BY <1>2 DEF Settled
    <2> QED BY <1>1, <2>1, PresentedEntry, AdoptionEntry DEF Kin
  <1>3. CASE turn.epoch # l.epoch
    <2>1. Settled(l) = [Transit(l) EXCEPT !.adoption = l.epoch]
      BY <1>3 DEF Settled
    <2> QED BY <1>1, <2>1, TransitEntry, AdoptionEntry DEF Kin
  <1> QED BY <1>2, <1>3

LEMMA ConfirmedEntry ==
    ASSUME NEW l \in Entry, NEW enabled \in BOOLEAN
    PROVE  /\ Kin(l, Confirmed(l, enabled))
           /\ Confirmed(l, enabled).timer = l.timer
           /\ Confirmed(l, enabled).enabled = enabled
  BY DEF Confirmed, Kin, Entry

LEMMA DoubtfulEntry ==
    ASSUME NEW l \in Entry
    PROVE  /\ Kin(l, Doubtful(l))
           /\ Doubtful(l).timer = l.timer /\ Doubtful(l).enabled = TRUE
  BY DEF Doubtful, Kin, Entry

\* An entry may be written when it arms no timer besides the one there is, and
\* none in a layer that is off.
Writable(l, arms) ==
    /\ Kin(layer, l)
    /\ l.timer => layer.timer /\ l.enabled
    /\ arms => ~l.timer /\ l.enabled

LEMMA WriteSets ==
    ASSUME layer \in Entry, TimersAccounted, NEW l \in Entry, NEW arms \in BOOLEAN,
           l.timer => layer.timer /\ l.enabled, arms => ~l.timer /\ l.enabled,
           Write(l, arms)
    PROVE  /\ Kin(l, layer') /\ layer'.enabled = l.enabled
           /\ layer'.timer = (l.timer \/ arms)
           /\ TimersAccounted' /\ timers' \in Nat
  <1>1. l.timer \in BOOLEAN /\ layer.timer \in BOOLEAN
    BY DEF Entry
  <1>2. /\ Kin(l, layer') /\ layer'.enabled = l.enabled
        /\ layer'.timer = (l.timer \/ arms)
    BY DEF Write, Kin, Entry
  <1>3. timers' = (IF layer'.timer THEN 1 ELSE 0)
    BY <1>1, <1>2 DEF Write, TimersAccounted
  <1> QED BY <1>2, <1>3 DEF TimersAccounted

-----------------------------------------------------------------------------
\* The end of a turn.

Answers == {"granted", "declined"}

LEMMA AnswerKeeps ==
    ASSUME intents \in Seq(Intent), NEW e, NEW answer \in Answers,
           intents' = [intents EXCEPT ![e].answer = answer]
    PROVE  /\ intents' \in Seq(Intent) /\ Len(intents') = Len(intents)
           /\ \A i \in DOMAIN intents : intents'[i].want = intents[i].want
  <1> DEFINE row == [intents[e] EXCEPT !.answer = answer]
  <1>1. CASE e \in DOMAIN intents
    <2>0. intents[e] \in Intent
      BY <1>1
    <2>1. row \in Intent /\ row.want = intents[e].want
      BY <2>0 DEF Intent, Answers
    <2>2. intents' = [intents EXCEPT ![e] = row]
      OBVIOUS
    <2> HIDE DEF row
    <2> QED BY <1>1, <2>1, <2>2
  <1>2. CASE e \notin DOMAIN intents
    <2>1. intents' = intents
      BY <1>2
    <2> QED BY <2>1
  <1> QED BY <1>1, <1>2

LEMMA NoTurnType == NoTurn \in Turn
  BY LayerAssumption DEF NoTurn, Turn, Epochs

LEMMA EndTurnSets ==
    ASSUME LayerTypeOK, TimersAccounted, NEW e, NEW l, NEW answer \in Answers,
           NEW arms \in BOOLEAN, Writable(l, arms), EndTurn(e, l, answer, arms)
    PROVE  /\ Kin(layer, layer') /\ layer'.enabled = l.enabled
           /\ TimersAccounted' /\ timers' \in Nat
           /\ turn' = NoTurn /\ turn' \in Turn /\ orphans' \in Nat
           /\ intents' \in Seq(Intent) /\ Len(intents') = Len(intents)
  <1> DEFINE queued == IF l.queued = e THEN 0 ELSE l.queued
             m == [l EXCEPT !.queued = queued]
  <1>0. l \in Entry /\ Kin(layer, l)
    BY DEF Writable, Kin
  <1>1. queued \in Epochs
    BY <1>0, LayerAssumption DEF Entry, Epochs
  <1>2. Write(m, arms)
    BY DEF EndTurn
  <1> HIDE DEF queued
  <1>3. m \in Entry /\ Kin(layer, m) /\ m.timer = l.timer /\ m.enabled = l.enabled
    BY <1>0, <1>1 DEF Kin, Entry
  <1> HIDE DEF m
  <1>4. /\ Kin(layer, layer') /\ layer'.enabled = l.enabled
        /\ TimersAccounted' /\ timers' \in Nat
    <2>1. layer \in Entry
      BY DEF LayerTypeOK
    <2> QED BY <1>2, <1>3, <2>1, WriteSets DEF Writable, Kin
  <1>5. orphans' \in Nat
    BY DEF EndTurn, LayerTypeOK
  <1>6. intents' \in Seq(Intent) /\ Len(intents') = Len(intents)
    BY AnswerKeeps DEF EndTurn, LayerTypeOK
  <1> QED BY <1>4, <1>5, <1>6, NoTurnType DEF EndTurn
-----------------------------------------------------------------------------
\* The invariant of the layer, and its turns.

\* A turn that is queued is one that was asked for.
ChainShape ==
    /\ \A i \in DOMAIN chain : chain[i] \in DOMAIN intents
    /\ Len(chain) <= Len(intents)

\* The cleanup of an enable has stopped the timer.
CleanupShape == turn.pc \in {"cancelDisable", "failDisable"} => ~layer.timer

\* A turn that has not called the module yet finds it off in a layer that is.
OffShape == turn.pc \in {"idle", "adopt", "guard"} /\ ~layer.enabled => ~on

LayerShape ==
    /\ LayerTypeOK
    /\ ChainShape
    /\ TimersAccounted
    /\ CleanupShape
    /\ OffShape

\* What a turn leaves alone.
TurnFrame ==
    /\ Kin(layer, layer') /\ teardown' = teardown
    /\ Len(intents') = Len(intents)
    /\ chain' = chain \/ (chain # <<>> /\ chain' = Tail(chain))

TurnDone == LayerShape' /\ TurnFrame

LEMMA BoundsOfTheLayer == MaxRequests \in Nat \ {0} /\ MaxFaults \in Nat
  BY LayerAssumption

\* How a call of the module settles.
LEMMA CallSettles ==
    ASSUME LayerTypeOK, NEW leaves \in BOOLEAN,
           Works(leaves) \/ Refuses(leaves) \/ Aborts(leaves) \/ Idles
    PROVE  on' \in BOOLEAN /\ faults' \in 0 .. MaxFaults
  BY BoundsOfTheLayer DEF LayerTypeOK, Works, Refuses, Aborts, Idles

\* The queue of turns is left alone, or its first turn has started.
ChainStep == chain' = chain \/ (chain # <<>> /\ chain' = Tail(chain))

LEMMA ChainMoves ==
    ASSUME LayerShape, ChainStep, Len(intents') = Len(intents), intents' \in Seq(Intent)
    PROVE  /\ chain' \in Seq(Epochs \ {0}) /\ Len(chain') <= MaxRequests
           /\ ChainShape'
  <1>1. /\ chain \in Seq(Epochs \ {0}) /\ Len(chain) <= MaxRequests /\ Len(intents) \in Nat
        /\ Len(chain) <= Len(intents) /\ Len(chain) \in Nat
        /\ \A i \in DOMAIN chain : chain[i] \in DOMAIN intents
        /\ DOMAIN intents' = DOMAIN intents
    <2>1. LayerTypeOK /\ ChainShape /\ intents \in Seq(Intent)
      BY DEF LayerShape, LayerTypeOK
    <2>2. DOMAIN intents = 1 .. Len(intents) /\ DOMAIN intents' = 1 .. Len(intents')
      BY <2>1
    <2> QED BY <2>1, <2>2 DEF LayerTypeOK, ChainShape
  <1>2. CASE chain' = chain
    BY <1>1, <1>2 DEF ChainShape
  <1>3. CASE chain # <<>> /\ chain' = Tail(chain)
    <2>1. /\ chain' \in Seq(Epochs \ {0}) /\ Len(chain') = Len(chain) - 1
          /\ \A i \in 1 .. Len(chain') : chain'[i] = chain[i + 1]
      BY <1>1, <1>3
    <2>2. Len(chain') <= MaxRequests /\ Len(chain') <= Len(intents')
      BY <1>1, <2>1, BoundsOfTheLayer
    <2>3. ASSUME NEW i \in DOMAIN chain' PROVE chain'[i] \in DOMAIN intents'
      <3>1. i \in 1 .. Len(chain') /\ i + 1 \in DOMAIN chain
        BY <1>1, <2>1
      <3> QED BY <1>1, <2>1, <3>1
    <2> QED BY <2>1, <2>2, <2>3 DEF ChainShape
  <1> QED BY <1>2, <1>3 DEF ChainStep

LEMMA WriteSame ==
    ASSUME LayerShape, UNCHANGED <<layer, timers>>
    PROVE  Write(layer, FALSE) /\ Writable(layer, FALSE)
  BY DEF LayerShape, LayerTypeOK, TimersAccounted, Write, Writable, Kin

\* A turn goes on to its next await.
LEMMA GoesOn ==
    ASSUME LayerShape, NEW l, Writable(l, FALSE), Write(l, FALSE),
           turn' \in Turn, UNCHANGED <<intents, orphans, teardown>>, ChainStep,
           updating' \in BOOLEAN, on' \in BOOLEAN, faults' \in 0 .. MaxFaults,
           turn'.pc \in {"cancelDisable", "failDisable"} => ~l.timer,
           turn'.pc \in {"idle", "adopt", "guard"} /\ ~l.enabled => ~on'
    PROVE  TurnDone
  <1>0. LayerTypeOK /\ layer \in Entry /\ TimersAccounted /\ l \in Entry
    BY DEF LayerShape, LayerTypeOK, Writable, Kin
  <1>1. /\ Kin(layer, layer') /\ layer'.enabled = l.enabled /\ layer'.timer = l.timer
        /\ TimersAccounted' /\ timers' \in Nat
    <2>1. Kin(layer, l) /\ (l.timer => layer.timer /\ l.enabled) /\ FALSE \in BOOLEAN
      BY DEF Writable
    <2>2. /\ Kin(l, layer') /\ layer'.enabled = l.enabled
          /\ layer'.timer = (l.timer \/ FALSE)
          /\ TimersAccounted' /\ timers' \in Nat
      BY <1>0, <2>1, WriteSets
    <2>3. l.timer \in BOOLEAN
      BY <1>0 DEF Entry
    <2> QED BY <2>1, <2>2, <2>3 DEF Kin
  <1>2. chain' \in Seq(Epochs \ {0}) /\ Len(chain') <= MaxRequests /\ ChainShape'
    BY <1>0, ChainMoves DEF LayerTypeOK
  <1>3. LayerTypeOK'
    BY <1>0, <1>1, <1>2 DEF LayerTypeOK, Kin
  <1>4. CleanupShape' /\ OffShape'
    BY <1>1 DEF CleanupShape, OffShape
  <1> QED BY <1>1, <1>2, <1>3, <1>4 DEF TurnDone, LayerShape, TurnFrame, ChainStep

\* A turn that ends leaves the layer on, or its module off.
LEMMA Ends ==
    ASSUME LayerShape, NEW e, NEW l, NEW answer \in Answers, NEW arms \in BOOLEAN,
           Writable(l, arms), EndTurn(e, l, answer, arms),
           UNCHANGED teardown, updating' \in BOOLEAN, ChainStep,
           on' \in BOOLEAN, faults' \in 0 .. MaxFaults,
           ~l.enabled => ~on'
    PROVE  TurnDone
  <1>0. LayerTypeOK /\ TimersAccounted
    BY DEF LayerShape
  <1>1. /\ Kin(layer, layer') /\ layer'.enabled = l.enabled
        /\ TimersAccounted' /\ timers' \in Nat
        /\ turn' = NoTurn /\ turn' \in Turn /\ orphans' \in Nat
        /\ intents' \in Seq(Intent) /\ Len(intents') = Len(intents)
    BY <1>0, EndTurnSets
  <1>2. chain' \in Seq(Epochs \ {0}) /\ Len(chain') <= MaxRequests /\ ChainShape'
    BY <1>1, ChainMoves
  <1>3. LayerTypeOK'
    BY <1>0, <1>1, <1>2 DEF LayerTypeOK, Kin
  <1>4. CleanupShape' /\ OffShape'
    BY <1>1 DEF CleanupShape, OffShape, NoTurn
  <1> QED BY <1>1, <1>2, <1>3, <1>4 DEF TurnDone, LayerShape, TurnFrame, ChainStep

\* The entries a turn may end with.
LEMMA Endings ==
    ASSUME LayerShape
    PROVE  /\ Writable(layer, FALSE)
           /\ Writable(Presented(layer), FALSE)
           /\ Writable(Settled(layer), FALSE)
           /\ Writable(Stopped(layer), FALSE)
           /\ Writable(Settled(Doubtful(layer)), FALSE) /\ Settled(Doubtful(layer)).enabled
           /\ Writable(Settled(Confirmed(layer, TRUE)), FALSE)
           /\ Settled(Confirmed(layer, TRUE)).enabled
           /\ Writable(Stopped(Settled(Confirmed(layer, FALSE))), FALSE)
           /\ Writable(Settled(Stopped(Confirmed(layer, FALSE))), FALSE)
           /\ Writable(Stopped(Settled(Confirmed(layer, TRUE))), TRUE)
           /\ Stopped(Settled(Confirmed(layer, TRUE))).enabled
           /\ ~layer.timer => Writable(Settled(Confirmed(layer, FALSE)), FALSE)
           /\ Presented(layer).enabled = layer.enabled
           /\ Settled(layer).enabled = layer.enabled
           /\ Stopped(layer).enabled = layer.enabled
           /\ ~Stopped(layer).timer
  <1>0. /\ layer \in Entry /\ (layer.timer => layer.enabled)
        /\ TRUE \in BOOLEAN /\ FALSE \in BOOLEAN
    BY DEF LayerShape, LayerTypeOK, TimersAccounted
  <1>1. \A l \in Entry : Kin(l, Stopped(l)) /\ ~Stopped(l).timer /\ Stopped(l).enabled = l.enabled
    BY StoppedEntry
  <1>2. \A l \in Entry : /\ Kin(l, Settled(l)) /\ Settled(l).timer = l.timer
                         /\ Settled(l).enabled = l.enabled
    BY SettledEntry
  <1>3. \A l \in Entry : /\ Kin(l, Doubtful(l)) /\ Doubtful(l).timer = l.timer
                         /\ Doubtful(l).enabled
    BY DoubtfulEntry
  <1>4. \A l \in Entry, enabled \in BOOLEAN :
            /\ Kin(l, Confirmed(l, enabled)) /\ Confirmed(l, enabled).timer = l.timer
            /\ Confirmed(l, enabled).enabled = enabled
    BY ConfirmedEntry
  <1>5. Kin(layer, layer) /\ \A l, m, n \in Entry : Kin(l, m) /\ Kin(m, n) => Kin(l, n)
    BY <1>0 DEF Kin
  <1>6. \A l, m : Kin(l, m) => m \in Entry
    BY DEF Kin
  <1>7. /\ Kin(layer, Presented(layer)) /\ Presented(layer).timer = layer.timer
        /\ Presented(layer).enabled = layer.enabled
    BY <1>0, PresentedEntry
  <1>8. /\ Writable(layer, FALSE) /\ Writable(Presented(layer), FALSE)
        /\ Writable(Settled(layer), FALSE) /\ Writable(Stopped(layer), FALSE)
    BY <1>0, <1>1, <1>2, <1>5, <1>7 DEF Writable
  <1>9. Writable(Settled(Doubtful(layer)), FALSE) /\ Settled(Doubtful(layer)).enabled
    BY <1>0, <1>2, <1>3, <1>5, <1>6 DEF Writable
  <1>10. /\ Writable(Settled(Confirmed(layer, TRUE)), FALSE)
         /\ Settled(Confirmed(layer, TRUE)).enabled
    BY <1>0, <1>2, <1>4, <1>5, <1>6 DEF Writable
  <1>11. /\ Kin(layer, Settled(Confirmed(layer, FALSE)))
         /\ Settled(Confirmed(layer, FALSE)).timer = layer.timer
    BY <1>0, <1>2, <1>4, <1>5, <1>6
  <1>12. Writable(Stopped(Settled(Confirmed(layer, FALSE))), FALSE)
    BY <1>0, <1>1, <1>5, <1>6, <1>11 DEF Writable
  <1>13. ~layer.timer => Writable(Settled(Confirmed(layer, FALSE)), FALSE)
    BY <1>11 DEF Writable
  <1>14. Writable(Settled(Stopped(Confirmed(layer, FALSE))), FALSE)
    <2>1. Kin(layer, Stopped(Confirmed(layer, FALSE))) /\ ~Stopped(Confirmed(layer, FALSE)).timer
      BY <1>0, <1>1, <1>4, <1>5, <1>6
    <2> QED BY <1>0, <1>2, <1>5, <1>6, <2>1 DEF Writable
  <1>15. /\ Writable(Stopped(Settled(Confirmed(layer, TRUE))), TRUE)
         /\ Stopped(Settled(Confirmed(layer, TRUE))).enabled
    <2>1. Kin(layer, Settled(Confirmed(layer, TRUE)))
      BY <1>10 DEF Writable
    <2> QED BY <1>0, <1>1, <1>5, <1>6, <1>10, <2>1 DEF Writable
  <1> QED BY <1>1, <1>0, <1>2, <1>7, <1>8, <1>9, <1>10, <1>12, <1>13, <1>14, <1>15
\* The steps of a turn, with what it reads.
TurnHere ==
    /\ LayerShape /\ LayerTypeOK /\ turn \in Turn /\ layer \in Entry /\ on \in BOOLEAN
    /\ updating \in BOOLEAN

LEMMA ShapeHere == LayerShape => TurnHere
  BY DEF LayerShape, LayerTypeOK, TurnHere

\* A turn that calls the module and leaves the entry.
LEMMA CallsOn ==
    ASSUME LayerShape, NEW pc \in {"compEnable", "compDisable", "enable", "update"},
           Goto(pc), UNCHANGED <<layer, timers>>, TurnOnly,
           on' \in BOOLEAN, faults' \in 0 .. MaxFaults
    PROVE  TurnDone
  <1>0. TurnHere
    BY ShapeHere
  <1>1. turn' \in Turn /\ turn'.pc = pc
    BY <1>0 DEF TurnHere, Goto, Turn
  <1>2. Write(layer, FALSE) /\ Writable(layer, FALSE)
    BY WriteSame
  <1> QED BY <1>0, <1>1, <1>2, GoesOn DEF Goto, TurnOnly, ChainStep, TurnHere

LEMMA StartTurnDone == ASSUME LayerShape, StartTurn PROVE TurnDone
  <1> DEFINE e == Head(chain)
             started == [NoTurn EXCEPT !.epoch = e, !.want = intents[e].want]
  <1>0. /\ TurnHere /\ turn.pc = "idle" /\ ChainStep /\ UNCHANGED <<teardown, updating, on, faults>>
        /\ faults' \in 0 .. MaxFaults /\ on' \in BOOLEAN /\ updating' \in BOOLEAN
        /\ (~layer.enabled => ~on)
    BY ShapeHere DEF StartTurn, ChainStep, TurnHere, LayerTypeOK, LayerShape, OffShape
  <1>1. CASE EndTurn(e, layer, "declined", FALSE)
    BY <1>0, <1>1, Endings, Ends DEF Answers
  <1>2. CASE EndTurn(e, IF layer.state \in {"enabling", "disabling"}
                        THEN Presented(layer) ELSE layer, "granted", FALSE)
    <2>1. CASE EndTurn(e, Presented(layer), "granted", FALSE)
      BY <1>0, <2>1, Endings, Ends DEF Answers
    <2>2. CASE EndTurn(e, layer, "granted", FALSE)
      BY <1>0, <2>2, Endings, Ends DEF Answers
    <2> QED BY <1>2, <2>1, <2>2
  <1>3. e \in Epochs /\ intents[e].want \in BOOLEAN
    <2>1. /\ chain \in Seq(Epochs \ {0}) /\ chain # <<>> /\ intents \in Seq(Intent)
          /\ \A i \in DOMAIN chain : chain[i] \in DOMAIN intents
      BY DEF LayerShape, LayerTypeOK, ChainShape, StartTurn
    <2>2. 1 \in DOMAIN chain /\ e = chain[1] /\ e \in Epochs
      BY <2>1
    <2>3. intents[e] \in Intent
      BY <2>1, <2>2
    <2> QED BY <2>2, <2>3 DEF Intent
  <1>4. CASE /\ turn' = [started EXCEPT !.pc = "adopt"]
             /\ UNCHANGED <<layer, timers, intents, orphans>>
    <2>1. turn' \in Turn /\ turn'.pc = "adopt"
      BY <1>3, <1>4, NoTurnType DEF Turn, NoTurn
    <2> QED BY <1>0, <1>4, <2>1, WriteSame, GoesOn
  <1>5. CASE /\ turn' = [started EXCEPT !.pc = "guard"]
             /\ Write([layer EXCEPT !.adoption = 0], FALSE)
             /\ UNCHANGED <<intents, orphans>>
    <2> DEFINE l == [layer EXCEPT !.adoption = 0]
    <2>1. turn' \in Turn /\ turn'.pc = "guard"
      BY <1>3, <1>5, NoTurnType DEF Turn, NoTurn
    <2>2. Kin(layer, l) /\ l.timer = layer.timer /\ l.enabled = layer.enabled
      BY <1>0, AdoptionEntry, BoundsOfTheLayer DEF TurnHere, Epochs
    <2> HIDE DEF l
    <2>3. Writable(l, FALSE)
      BY <2>2 DEF LayerShape, TimersAccounted, Writable
    <2>4. Write(l, FALSE)
      BY <1>5 DEF l
    <2> QED BY <1>0, <1>5, <2>1, <2>2, <2>3, <2>4, GoesOn
  <1> QED BY <1>1, <1>2, <1>4, <1>5 DEF StartTurn

LEMMA AdoptDone == ASSUME LayerShape, Adopt PROVE TurnDone
  <1>0. /\ TurnHere /\ turn.pc = "adopt" /\ ChainStep /\ UNCHANGED <<teardown, updating, on, faults>>
        /\ faults' \in 0 .. MaxFaults /\ on' \in BOOLEAN /\ updating' \in BOOLEAN
        /\ (~layer.enabled => ~on)
    BY ShapeHere DEF Adopt, Idles, TurnOnly, ChainStep, TurnHere, LayerTypeOK, LayerShape, OffShape
  <1>1. CASE EndTurn(turn.epoch, Settled(layer), "granted", FALSE)
    BY <1>0, <1>1, Endings, Ends DEF Answers
  <1>2. CASE EndTurn(turn.epoch,
                [Transit(layer) EXCEPT !.adoption = IF @ = turn.epoch THEN layer.epoch ELSE @],
                "declined", FALSE)
    <2> DEFINE t == Transit(layer)
               adoption == IF t.adoption = turn.epoch THEN layer.epoch ELSE t.adoption
               l == [t EXCEPT !.adoption = adoption]
    <2>1. EndTurn(turn.epoch, l, "declined", FALSE)
      BY <1>2
    <2>2. Kin(layer, t) /\ t.timer = layer.timer /\ t.enabled = layer.enabled
      BY <1>0, TransitEntry DEF TurnHere
    <2> HIDE DEF t
    <2>3. adoption \in Epochs
      BY <1>0, <2>2 DEF TurnHere, Kin, Entry
    <2> HIDE DEF adoption
    <2>4. Kin(layer, l) /\ l.timer = layer.timer /\ l.enabled = layer.enabled
      BY <2>2, <2>3, AdoptionEntry DEF Kin
    <2> HIDE DEF l
    <2>5. Writable(l, FALSE)
      BY <2>4 DEF LayerShape, TimersAccounted, Writable
    <2> QED BY <1>0, <2>1, <2>4, <2>5, Ends DEF Answers
  <1> QED BY <1>1, <1>2 DEF Adopt

LEMMA GuardDone == ASSUME LayerShape, Guard PROVE TurnDone
  <1>0. /\ TurnHere /\ turn.pc = "guard" /\ ChainStep /\ UNCHANGED <<chain, teardown, on, faults>>
        /\ faults' \in 0 .. MaxFaults /\ on' \in BOOLEAN
        /\ (~layer.enabled => ~on)
    BY ShapeHere DEF Guard, Idles, ChainStep, TurnHere, LayerTypeOK, LayerShape, OffShape
  <1>1. CASE EndTurn(turn.epoch, layer, "declined", FALSE) /\ UNCHANGED updating
    BY <1>0, <1>1, Endings, Ends DEF Answers, TurnHere
  <1>2. CASE /\ Write([layer EXCEPT !.state = "disabling", !.refreshing = FALSE], FALSE)
             /\ updating' = FALSE
             /\ Goto("disable")
    <2> DEFINE l == [layer EXCEPT !.state = "disabling", !.refreshing = FALSE]
    <2>1. turn' \in Turn /\ turn'.pc = "disable"
      BY <1>0, <1>2 DEF Goto, TurnHere, Turn
    <2>2. Kin(layer, l) /\ l.timer = layer.timer /\ l.enabled = layer.enabled
      BY <1>0 DEF TurnHere, Kin, Entry, Phases
    <2>3. Write(l, FALSE)
      BY <1>2
    <2> HIDE DEF l
    <2>4. Writable(l, FALSE)
      BY <2>2 DEF LayerShape, TimersAccounted, Writable
    <2> QED BY <1>0, <1>2, <2>1, <2>3, <2>4, GoesOn DEF Goto
  <1>3. CASE /\ Write([layer EXCEPT !.state = "enabling", !.uncertain = @ /\ ~layer.initialized],
                      FALSE)
             /\ turn' = [turn EXCEPT !.pc = IF layer.initialized THEN "enable" ELSE "init",
                                     !.listening = TRUE]
             /\ UNCHANGED <<intents, orphans, updating>>
    <2> DEFINE uncertain == layer.uncertain /\ ~layer.initialized
               pc == IF layer.initialized THEN "enable" ELSE "init"
               l == [layer EXCEPT !.state = "enabling", !.uncertain = uncertain]
    <2>1. uncertain \in BOOLEAN /\ pc \in {"enable", "init"}
      OBVIOUS
    <2>2. Write(l, FALSE) /\ turn' = [turn EXCEPT !.pc = pc, !.listening = TRUE]
      BY <1>3
    <2> HIDE DEF uncertain, pc
    <2>3. turn' \in Turn /\ turn'.pc = pc
      BY <1>0, <2>1, <2>2 DEF TurnHere, Turn
    <2>4. Kin(layer, l) /\ l.timer = layer.timer /\ l.enabled = layer.enabled
      BY <1>0, <2>1 DEF TurnHere, Kin, Entry, Phases
    <2> HIDE DEF l
    <2>5. Writable(l, FALSE)
      BY <2>4 DEF LayerShape, TimersAccounted, Writable
    <2> QED BY <1>0, <1>3, <2>1, <2>2, <2>3, <2>5, GoesOn DEF TurnHere
  <1> QED BY <1>1, <1>2, <1>3 DEF Guard
LEMMA DisableDone == ASSUME LayerShape, Disable PROVE TurnDone
  <1>0. TurnHere /\ turn.pc = "disable" /\ TurnOnly /\ ChainStep /\ updating' \in BOOLEAN
    BY ShapeHere DEF Disable, TurnOnly, ChainStep, TurnHere
  <1>1. on' \in BOOLEAN /\ faults' \in 0 .. MaxFaults
    BY <1>0, CallSettles DEF Disable, TurnHere
  <1>2. CASE Goto("compEnable") /\ UNCHANGED <<layer, timers>>
    BY <1>0, <1>1, <1>2, CallsOn
  <1>3. CASE EndTurn(turn.epoch, Settled(Doubtful(layer)), "declined", FALSE)
    BY <1>0, <1>1, <1>3, Endings, Ends DEF Answers, TurnOnly
  <1>4. CASE /\ Works(FALSE)
             /\ EndTurn(turn.epoch, Settled(Stopped(Confirmed(layer, FALSE))), "granted", FALSE)
    BY <1>0, <1>1, <1>4, Endings, Ends DEF Answers, TurnOnly, Works
  <1> QED BY <1>2, <1>3, <1>4 DEF Disable

LEMMA CompEnableDone == ASSUME LayerShape, CompEnable PROVE TurnDone
  <1>0. TurnHere /\ TurnOnly /\ ChainStep /\ updating' \in BOOLEAN
    BY ShapeHere DEF CompEnable, TurnOnly, ChainStep, TurnHere
  <1>1. on' \in BOOLEAN /\ faults' \in 0 .. MaxFaults
    BY <1>0, CallSettles DEF CompEnable, TurnHere
  <1>2. CASE Goto("compDisable") /\ UNCHANGED <<layer, timers>>
    BY <1>0, <1>1, <1>2, CallsOn
  <1>3. CASE EndTurn(turn.epoch, Settled(Confirmed(layer, TRUE)), "declined", FALSE)
    BY <1>0, <1>1, <1>3, Endings, Ends DEF Answers, TurnOnly
  <1> QED BY <1>2, <1>3 DEF CompEnable

LEMMA CompDisableDone == ASSUME LayerShape, CompDisable PROVE TurnDone
  <1>0. TurnHere /\ TurnOnly /\ ChainStep /\ updating' \in BOOLEAN
    BY ShapeHere DEF CompDisable, TurnOnly, ChainStep, TurnHere
  <1>1. on' \in BOOLEAN /\ faults' \in 0 .. MaxFaults
    BY <1>0, CallSettles DEF CompDisable, TurnHere
  <1>2. CASE /\ Works(FALSE)
             /\ EndTurn(turn.epoch, Stopped(Settled(Confirmed(layer, FALSE))), "declined", FALSE)
    BY <1>0, <1>1, <1>2, Endings, Ends DEF Answers, TurnOnly, Works
  <1>3. CASE EndTurn(turn.epoch, Settled(Doubtful(layer)), "declined", FALSE)
    BY <1>0, <1>1, <1>3, Endings, Ends DEF Answers, TurnOnly
  <1> QED BY <1>2, <1>3 DEF CompDisable

\* The cleanups of an enable wait for their disable() with the timer stopped.
LEMMA CleanupDone ==
    ASSUME LayerShape, TurnOnly, on' \in BOOLEAN, faults' \in 0 .. MaxFaults,
           NEW l, Kin(layer, l), l.timer = layer.timer, l.enabled = layer.enabled,
           Cancelled(l) \/ (l = layer /\ Failed)
    PROVE  TurnDone
  <1>0. TurnHere /\ ChainStep /\ updating' \in BOOLEAN /\ l \in Entry
    BY ShapeHere DEF TurnOnly, ChainStep, TurnHere, Kin
  <1>1. Kin(layer, Stopped(l)) /\ ~Stopped(l).timer
    BY <1>0, StoppedEntry DEF Kin
  <1>2. Writable(Stopped(l), FALSE) /\ Write(Stopped(l), FALSE)
    BY <1>1 DEF Writable, Cancelled, Failed
  <1>3. /\ turn' \in Turn /\ turn'.pc \in {"cancelDisable", "failDisable"}
        /\ UNCHANGED <<intents, orphans>>
    BY <1>0 DEF Cancelled, Failed, Goto, TurnHere, Turn
  <1> QED BY <1>0, <1>1, <1>2, <1>3, GoesOn DEF TurnOnly

LEMMA InitializeDone == ASSUME LayerShape, Initialize PROVE TurnDone
  <1>0. TurnHere /\ TurnOnly /\ ChainStep /\ updating' \in BOOLEAN /\ Kin(layer, layer)
    BY ShapeHere DEF Initialize, TurnOnly, ChainStep, TurnHere, Kin
  <1>1. on' \in BOOLEAN /\ faults' \in 0 .. MaxFaults
    BY <1>0, CallSettles DEF Initialize, TurnHere
  <1>2. CASE Cancelled(layer) \/ Failed
    BY <1>0, <1>1, <1>2, CleanupDone
  <1>3. CASE Cancelled([layer EXCEPT !.initialized = TRUE])
    <2> DEFINE l == [layer EXCEPT !.initialized = TRUE]
    <2>1. Kin(layer, l) /\ l.timer = layer.timer /\ l.enabled = layer.enabled
      BY <1>0 DEF TurnHere, Kin, Entry
    <2>2. Cancelled(l)
      BY <1>3
    <2> HIDE DEF l
    <2> QED BY <1>0, <1>1, <2>1, <2>2, CleanupDone
  <1>4. CASE /\ Goto("enable")
             /\ Write([layer EXCEPT !.initialized = TRUE, !.uncertain = FALSE], FALSE)
    <2> DEFINE l == [layer EXCEPT !.initialized = TRUE, !.uncertain = FALSE]
    <2>1. Kin(layer, l) /\ l.timer = layer.timer /\ l.enabled = layer.enabled
      BY <1>0 DEF TurnHere, Kin, Entry
    <2>2. Write(l, FALSE)
      BY <1>4
    <2> HIDE DEF l
    <2>3. Writable(l, FALSE)
      BY <2>1 DEF LayerShape, TimersAccounted, Writable
    <2>4. turn' \in Turn /\ turn'.pc = "enable" /\ UNCHANGED <<intents, orphans>>
      BY <1>0, <1>4 DEF Goto, TurnHere, Turn
    <2> QED BY <1>0, <1>1, <2>2, <2>3, <2>4, GoesOn DEF TurnOnly
  <1> QED BY <1>2, <1>3, <1>4 DEF Initialize, CancelledOrFailed

LEMMA EnableDone == ASSUME LayerShape, Enable PROVE TurnDone
  <1>0. TurnHere /\ TurnOnly /\ Kin(layer, layer)
    BY ShapeHere DEF Enable, TurnHere, Kin
  <1>1. on' \in BOOLEAN /\ faults' \in 0 .. MaxFaults
    BY <1>0, CallSettles DEF Enable, TurnHere
  <1>2. CASE Cancelled(layer) \/ Failed
    BY <1>0, <1>1, <1>2, CleanupDone
  <1>3. CASE Goto("update") /\ UNCHANGED <<layer, timers>>
    BY <1>0, <1>1, <1>3, CallsOn
  <1> QED BY <1>2, <1>3 DEF Enable, CancelledOrFailed

LEMMA UpdateDone == ASSUME LayerShape, Update PROVE TurnDone
  <1>0. TurnHere /\ TurnOnly /\ ChainStep /\ updating' \in BOOLEAN /\ Kin(layer, layer)
    BY ShapeHere DEF Update, TurnOnly, ChainStep, TurnHere, Kin
  <1>1. on' \in BOOLEAN /\ faults' \in 0 .. MaxFaults
    BY <1>0, CallSettles DEF Update, TurnHere
  <1>2. CASE Cancelled(layer) \/ Failed
    BY <1>0, <1>1, <1>2, CleanupDone
  <1>3. CASE EndTurn(turn.epoch, Stopped(Settled(Confirmed(layer, TRUE))), "granted", TRUE)
    BY <1>0, <1>1, <1>3, Endings, Ends DEF Answers, TurnOnly
  <1> QED BY <1>2, <1>3 DEF Update, CancelledOrFailed

LEMMA CleanupSettlesDone == ASSUME LayerShape, CancelDisable \/ FailDisable PROVE TurnDone
  <1>0. /\ TurnHere /\ TurnOnly /\ ChainStep /\ updating' \in BOOLEAN
        /\ turn.pc \in {"cancelDisable", "failDisable"} /\ ~layer.timer
    BY ShapeHere DEF CancelDisable, FailDisable, TurnOnly, ChainStep, TurnHere, LayerShape,
                     CleanupShape
  <1>1. on' \in BOOLEAN /\ faults' \in 0 .. MaxFaults
    BY <1>0, CallSettles DEF CancelDisable, FailDisable, TurnHere
  <1>2. CASE /\ Works(FALSE)
             /\ EndTurn(turn.epoch, Settled(Confirmed(layer, FALSE)), "declined", FALSE)
    BY <1>0, <1>1, <1>2, Endings, Ends DEF Answers, TurnOnly, Works
  <1>3. CASE EndTurn(turn.epoch, Settled(Doubtful(layer)), "declined", FALSE)
    BY <1>0, <1>1, <1>3, Endings, Ends DEF Answers, TurnOnly
  <1> QED BY <1>2, <1>3 DEF CancelDisable, FailDisable

LEMMA TurnStepDone == ASSUME LayerShape, TurnStep PROVE TurnDone
  BY StartTurnDone, AdoptDone, GuardDone, DisableDone, CompEnableDone, CompDisableDone,
     InitializeDone, EnableDone, UpdateDone, CleanupSettlesDone DEF TurnStep
-----------------------------------------------------------------------------
\* What else happens to the layer.

\* A step apart from the turns: the turn and the queue stay where they are.
Beside ==
    /\ Kin(layer, layer') /\ layer'.enabled = layer.enabled
    /\ turn'.pc = turn.pc /\ chain' = chain /\ Len(intents') = Len(intents)
    /\ teardown' = teardown

LEMMA StrayDone == ASSUME LayerShape, StraySettles PROVE LayerShape' /\ Beside
  <1>0. TurnHere /\ LayerTypeOK /\ ChainShape /\ TimersAccounted /\ CleanupShape /\ OffShape
    BY ShapeHere DEF LayerShape
  <1>1. on' \in BOOLEAN /\ faults' \in 0 .. MaxFaults /\ (on' => on)
    <2>1. on' \in BOOLEAN /\ faults' \in 0 .. MaxFaults
      BY <1>0, CallSettles DEF StraySettles
    <2> QED BY <1>0, <2>1 DEF StraySettles, Works, Refuses, TurnHere
  <1>2. turn' \in Turn /\ turn'.pc = turn.pc /\ orphans' \in Nat
    <2>1. CASE turn' = [turn EXCEPT !.stray = FALSE] /\ UNCHANGED orphans
      <3>1. turn' \in Turn /\ turn'.pc = turn.pc
        BY <1>0, <2>1 DEF TurnHere, Turn
      <3> QED BY <1>0, <2>1, <3>1 DEF LayerTypeOK
    <2>2. CASE orphans > 0 /\ orphans' = orphans - 1 /\ UNCHANGED turn
      BY <1>0, <2>2 DEF TurnHere, LayerTypeOK
    <2> QED BY <2>1, <2>2 DEF StraySettles
  <1>3. UNCHANGED <<layer, intents, chain, teardown, timers, updating>>
    BY DEF StraySettles
  <1>4. LayerTypeOK'
    BY <1>0, <1>1, <1>2, <1>3 DEF LayerTypeOK
  <1>5. ChainShape' /\ TimersAccounted' /\ CleanupShape' /\ OffShape'
    BY <1>0, <1>1, <1>2, <1>3 DEF ChainShape, TimersAccounted, CleanupShape, OffShape
  <1> QED BY <1>0, <1>2, <1>3, <1>4, <1>5 DEF LayerShape, Beside, Kin, TurnHere

LEMMA RefreshDone == ASSUME LayerShape, Tick \/ RefreshSettles PROVE LayerShape' /\ Beside
  <1>0. TurnHere /\ LayerTypeOK /\ ChainShape /\ TimersAccounted /\ CleanupShape /\ OffShape
    BY ShapeHere DEF LayerShape
  <1>1. /\ Kin(layer, layer') /\ layer'.enabled = layer.enabled /\ layer'.timer = layer.timer
        /\ updating' \in BOOLEAN
    <2>1. CASE Tick
      BY <1>0, <2>1 DEF Tick, Kin, Entry, TurnHere
    <2>2. CASE RefreshSettles
      <3> DEFINE refreshing == layer.refreshing /\ ~(layer.present /\ ~layer.destroying /\ layer.enabled)
      <3>1. refreshing \in BOOLEAN
        OBVIOUS
      <3>2. layer' = [layer EXCEPT !.refreshing = refreshing] /\ updating' = FALSE
        BY <2>2 DEF RefreshSettles
      <3> HIDE DEF refreshing
      <3> QED BY <1>0, <3>1, <3>2 DEF Kin, Entry, TurnHere
    <2> QED BY <2>1, <2>2
  <1>2. UNCHANGED <<intents, chain, turn, teardown, timers, orphans, on, faults>>
    BY DEF Tick, RefreshSettles
  <1>3. LayerTypeOK'
    BY <1>0, <1>1, <1>2 DEF LayerTypeOK, Kin
  <1>4. ChainShape' /\ TimersAccounted' /\ CleanupShape' /\ OffShape'
    BY <1>0, <1>1, <1>2 DEF ChainShape, TimersAccounted, CleanupShape, OffShape
  <1> QED BY <1>0, <1>1, <1>2, <1>3, <1>4 DEF LayerShape, Beside

LEMMA SupersedeSets ==
    ASSUME LayerShape, NEW want \in BOOLEAN, NEW l \in Entry, l.epoch = layer.epoch,
           l.timer = layer.timer, l.enabled = layer.enabled, Len(intents) <= MaxRequests,
           Supersede(want, l)
    PROVE  /\ layer' \in Entry /\ layer'.epoch = layer.epoch + 1
           /\ layer'.present = l.present /\ layer'.destroying = l.destroying
           /\ layer'.enabled = layer.enabled /\ (layer'.timer => layer.timer)
           /\ TimersAccounted' /\ timers' \in Nat
           /\ turn' \in Turn /\ turn'.pc = turn.pc
  <1>0. TurnHere /\ LayerTypeOK /\ TimersAccounted
    BY ShapeHere DEF LayerShape
  <1> DEFINE fires == turn.listening /\ ~turn.aborted
             next == l.epoch + 1
             renewed == [l EXCEPT !.epoch = next, !.wanted = want, !.queued = next]
             m == IF fires THEN Stopped(renewed) ELSE renewed
  <1>1. next \in Epochs /\ next = layer.epoch + 1
    BY <1>0, BoundsOfTheLayer DEF LayerTypeOK, Entry, Epochs
  <1>2. Write(m, FALSE)
    BY <1>1 DEF Supersede
  <1>3. turn' \in Turn /\ turn'.pc = turn.pc
    <2>1. CASE turn' = turn
      BY <1>0, <2>1 DEF TurnHere
    <2>2. CASE turn' = [turn EXCEPT !.aborted = TRUE, !.stray = @ \/ fires]
      <3> DEFINE stray == turn.stray \/ fires
      <3>1. stray \in BOOLEAN
        OBVIOUS
      <3>2. turn' = [turn EXCEPT !.aborted = TRUE, !.stray = stray]
        BY <2>2
      <3> HIDE DEF stray
      <3> QED BY <1>0, <3>1, <3>2 DEF TurnHere, Turn
    <2> QED BY <2>1, <2>2 DEF Supersede
  <1>4. fires \in BOOLEAN
    OBVIOUS
  <1> HIDE DEF fires, next
  <1>5. /\ renewed \in Entry /\ renewed.epoch = next /\ renewed.present = l.present
        /\ renewed.destroying = l.destroying /\ renewed.enabled = l.enabled
        /\ renewed.timer = l.timer
    BY <1>1 DEF Entry
  <1> HIDE DEF renewed
  <1>6. /\ m \in Entry /\ m.epoch = next /\ m.present = l.present
        /\ m.destroying = l.destroying /\ m.enabled = l.enabled
        /\ (m.timer => l.timer)
    BY <1>5, StoppedEntry DEF Kin
  <1> HIDE DEF m
  <1>7. (m.timer => layer.timer /\ m.enabled) /\ m.timer \in BOOLEAN /\ FALSE \in BOOLEAN
    BY <1>0, <1>6 DEF TimersAccounted, Entry
  <1>8. /\ Kin(m, layer') /\ layer'.enabled = m.enabled /\ layer'.timer = (m.timer \/ FALSE)
        /\ TimersAccounted' /\ timers' \in Nat
    BY <1>0, <1>2, <1>6, <1>7, WriteSets DEF TurnHere
  <1>9. layer'.timer => layer.timer
    BY <1>7, <1>8
  <1> QED BY <1>1, <1>3, <1>6, <1>8, <1>9 DEF Kin

LEMMA AppendIntent ==
    ASSUME LayerShape, NEW row \in Intent, intents' = Append(intents, row)
    PROVE  /\ intents' \in Seq(Intent) /\ Len(intents') = Len(intents) + 1
           /\ Len(intents) \in Nat /\ DOMAIN intents \subseteq DOMAIN intents'
           /\ Len(intents) + 1 \in DOMAIN intents'
  <1>1. intents \in Seq(Intent)
    BY DEF LayerShape, LayerTypeOK
  <1> QED BY <1>1

LEMMA RequestDone ==
    ASSUME LayerShape, NEW want \in BOOLEAN, Request(want)
    PROVE  /\ LayerShape'
           /\ layer.present /\ ~layer.destroying
           /\ layer'.present /\ ~layer'.destroying /\ layer'.enabled = layer.enabled
           /\ teardown' = teardown /\ Len(intents') <= MaxRequests
  <1>0. TurnHere /\ LayerTypeOK /\ ChainShape /\ TimersAccounted /\ CleanupShape /\ OffShape
    BY ShapeHere DEF LayerShape
  <1>1. /\ Len(intents) \in Nat /\ Len(intents) < MaxRequests /\ Len(intents) <= MaxRequests
        /\ layer.epoch = Len(intents)
    BY <1>0, BoundsOfTheLayer DEF Request, LayerTypeOK
  <1>2. /\ layer' \in Entry /\ layer'.epoch = layer.epoch + 1
        /\ layer'.present = layer.present /\ layer'.destroying = layer.destroying
        /\ layer'.enabled = layer.enabled /\ (layer'.timer => layer.timer)
        /\ TimersAccounted' /\ timers' \in Nat
        /\ turn' \in Turn /\ turn'.pc = turn.pc
    <2>1. Supersede(want, layer) /\ layer \in Entry
      BY <1>0 DEF Request, TurnHere
    <2> QED BY <1>1, <2>1, SupersedeSets
  <1>3. /\ intents' \in Seq(Intent) /\ Len(intents') = Len(intents) + 1
        /\ DOMAIN intents \subseteq DOMAIN intents'
        /\ Len(intents) + 1 \in DOMAIN intents'
    <2>1. [want |-> want, answer |-> "pending"] \in Intent
      BY DEF Intent
    <2> QED BY <2>1, AppendIntent DEF Request
  <1>4. /\ chain' \in Seq(Epochs \ {0}) /\ Len(chain') = Len(chain) + 1 /\ Len(chain) \in Nat
        /\ \A i \in DOMAIN chain' : \/ i \in DOMAIN chain /\ chain'[i] = chain[i]
                                 \/ chain'[i] = Len(intents) + 1
    <2>1. chain \in Seq(Epochs \ {0}) /\ Len(intents) + 1 \in Epochs \ {0}
      BY <1>0, <1>1, BoundsOfTheLayer DEF LayerTypeOK, Epochs
    <2>2. chain' = Append(chain, Len(intents) + 1)
      BY <1>1 DEF Request
    <2> QED BY <2>1, <2>2
  <1>5. ChainShape' /\ Len(chain') <= MaxRequests
    <2>1. Len(chain') <= Len(intents') /\ Len(chain') <= MaxRequests
      BY <1>0, <1>1, <1>3, <1>4, BoundsOfTheLayer DEF ChainShape
    <2>2. \A i \in DOMAIN chain' : chain'[i] \in DOMAIN intents'
      BY <1>0, <1>3, <1>4 DEF ChainShape
    <2> QED BY <2>1, <2>2 DEF ChainShape
  <1>6. LayerTypeOK'
    BY <1>0, <1>1, <1>2, <1>3, <1>4, <1>5 DEF LayerTypeOK, Request
  <1>7. CleanupShape' /\ OffShape'
    BY <1>0, <1>2 DEF CleanupShape, OffShape, Request
  <1>8. Len(intents') <= MaxRequests
    BY <1>1, <1>3, BoundsOfTheLayer
  <1> QED BY <1>2, <1>5, <1>6, <1>7, <1>8 DEF LayerShape, Request
-----------------------------------------------------------------------------
\* The teardown.

LEMMA BeginDestroyDone ==
    ASSUME LayerShape, BeginDestroy, Len(intents) <= MaxRequests
    PROVE  /\ LayerShape'
           /\ layer'.present /\ layer'.destroying /\ teardown' = "drain"
  <1> DEFINE l == [layer EXCEPT !.destroying = TRUE, !.refreshing = FALSE]
  <1>0. TurnHere /\ LayerTypeOK /\ ChainShape /\ TimersAccounted /\ CleanupShape /\ OffShape
    BY ShapeHere DEF LayerShape
  <1>1. /\ l \in Entry /\ l.epoch = layer.epoch /\ l.timer = layer.timer
        /\ l.enabled = layer.enabled /\ l.present = layer.present /\ l.destroying
    BY <1>0 DEF TurnHere, Entry
  <1>2. Supersede(FALSE, l) /\ FALSE \in BOOLEAN
    BY DEF BeginDestroy
  <1> HIDE DEF l
  <1>3. /\ layer' \in Entry /\ layer'.epoch = layer.epoch + 1
        /\ layer'.present = l.present /\ layer'.destroying = l.destroying
        /\ layer'.enabled = layer.enabled /\ (layer'.timer => layer.timer)
        /\ TimersAccounted' /\ timers' \in Nat
        /\ turn' \in Turn /\ turn'.pc = turn.pc
    BY <1>1, <1>2, SupersedeSets
  <1>4. /\ intents' \in Seq(Intent) /\ Len(intents') = Len(intents) + 1
        /\ Len(intents) \in Nat /\ DOMAIN intents \subseteq DOMAIN intents'
    <2>1. [want |-> FALSE, answer |-> "none"] \in Intent
      BY DEF Intent
    <2> QED BY <2>1, AppendIntent DEF BeginDestroy
  <1>5. /\ UNCHANGED <<chain, orphans, on, faults>> /\ updating' = FALSE
        /\ teardown' = "drain" /\ layer.present
    BY DEF BeginDestroy
  <1>6. LayerTypeOK'
    BY <1>0, <1>3, <1>4, <1>5 DEF LayerTypeOK
  <1>7. ChainShape'
    <2>1. Len(chain) \in Nat
      BY <1>0 DEF LayerTypeOK
    <2> QED BY <1>0, <1>4, <1>5, <2>1 DEF ChainShape
  <1>8. CleanupShape' /\ OffShape'
    BY <1>0, <1>3, <1>5 DEF CleanupShape, OffShape
  <1> QED BY <1>1, <1>3, <1>5, <1>6, <1>7, <1>8 DEF LayerShape

LEMMA TeardownWrites ==
    ASSUME LayerShape, NEW l \in Entry, l.epoch = layer.epoch,
           l.timer => layer.timer /\ l.enabled, Write(l, FALSE),
           UNCHANGED <<intents, chain, turn, updating, orphans>>,
           teardown' \in {"disable", "destroy", "done", "failed"},
           on' \in BOOLEAN, faults' \in 0 .. MaxFaults,
           ~l.enabled => ~on' \/ (l.enabled = layer.enabled /\ (on' => on))
    PROVE  LayerShape' /\ Kin(l, layer') /\ layer'.enabled = l.enabled
  <1>0. TurnHere /\ LayerTypeOK /\ ChainShape /\ TimersAccounted /\ CleanupShape /\ OffShape
    BY ShapeHere DEF LayerShape
  <1>1. l.timer \in BOOLEAN /\ FALSE \in BOOLEAN
    BY DEF Entry
  <1>2. /\ Kin(l, layer') /\ layer'.enabled = l.enabled /\ layer'.timer = (l.timer \/ FALSE)
        /\ TimersAccounted' /\ timers' \in Nat
    BY <1>0, <1>1, WriteSets DEF TurnHere
  <1>3. layer'.timer => layer.timer
    BY <1>1, <1>2
  <1>4. LayerTypeOK'
    BY <1>0, <1>2 DEF LayerTypeOK, Kin
  <1>5. ChainShape'
    BY <1>0 DEF ChainShape
  <1>6. CleanupShape' /\ OffShape'
    BY <1>0, <1>2, <1>3 DEF CleanupShape, OffShape
  <1> QED BY <1>2, <1>4, <1>5, <1>6 DEF LayerShape

LEMMA DrainedDone ==
    ASSUME LayerShape, Drained
    PROVE  /\ LayerShape' /\ Kin(layer, layer') /\ layer'.enabled = layer.enabled
           /\ turn.pc = "idle" /\ chain = <<>> /\ UNCHANGED <<turn, chain>>
           /\ teardown' = IF layer.enabled THEN "disable" ELSE "destroy"
  <1> DEFINE l == [layer EXCEPT !.queued = 0]
  <1>0. TurnHere /\ LayerTypeOK /\ (layer.timer => layer.enabled)
    BY ShapeHere DEF LayerShape, TimersAccounted
  <1>1. l \in Entry /\ Kin(layer, l) /\ l.timer = layer.timer /\ l.enabled = layer.enabled
    BY <1>0, BoundsOfTheLayer DEF TurnHere, Entry, Kin, Epochs
  <1>2. Write(l, FALSE)
    BY DEF Drained
  <1> HIDE DEF l
  <1>3. /\ UNCHANGED <<intents, chain, turn, updating, orphans, on, faults>>
        /\ on' \in BOOLEAN /\ faults' \in 0 .. MaxFaults
        /\ teardown' = IF layer.enabled THEN "disable" ELSE "destroy"
        /\ turn.pc = "idle" /\ chain = <<>>
    BY <1>0 DEF Drained, Idles, LayerTypeOK
  <1>4. teardown' \in {"disable", "destroy", "done", "failed"}
    BY <1>3
  <1>5. LayerShape' /\ Kin(l, layer') /\ layer'.enabled = l.enabled
    BY <1>0, <1>1, <1>2, <1>3, <1>4, TeardownWrites DEF Kin
  <1> QED BY <1>1, <1>3, <1>5 DEF Kin

LEMMA GiveBackDone ==
    ASSUME LayerShape, GiveBack, UNCHANGED <<intents, chain, turn, updating, orphans>>
    PROVE  LayerShape' /\ layer'.present = layer.present /\ teardown' = "failed"
  <1> DEFINE m == [layer EXCEPT !.destroying = FALSE, !.wanted = layer.enabled]
  <1>0. TurnHere /\ LayerTypeOK /\ (layer.timer => layer.enabled)
    BY ShapeHere DEF LayerShape, TimersAccounted
  <1>1. /\ m \in Entry /\ m.epoch = layer.epoch /\ m.present = layer.present
        /\ m.timer = layer.timer /\ m.enabled = layer.enabled
    BY <1>0 DEF TurnHere, Entry
  <1>2. Write(Presented(m), FALSE) /\ teardown' = "failed" /\ Refuses(FALSE)
    BY DEF GiveBack
  <1> HIDE DEF m
  <1> DEFINE l == Presented(m)
  <1>3. /\ l \in Entry /\ l.epoch = layer.epoch /\ l.present = layer.present
        /\ l.timer = layer.timer /\ l.enabled = layer.enabled
    BY <1>1, PresentedEntry DEF Kin
  <1> HIDE DEF l
  <1>4. on' \in BOOLEAN /\ faults' \in 0 .. MaxFaults /\ (on' => on)
    <2>1. on' \in BOOLEAN /\ faults' \in 0 .. MaxFaults
      BY <1>0, <1>2, CallSettles
    <2> QED BY <1>0, <1>2, <2>1 DEF Refuses, TurnHere
  <1>5. LayerShape' /\ Kin(l, layer')
    BY <1>0, <1>2, <1>3, <1>4, TeardownWrites DEF l
  <1> QED BY <1>2, <1>3, <1>5 DEF Kin

LEMMA TeardownDisableDone ==
    ASSUME LayerShape, TeardownDisable
    PROVE  /\ LayerShape' /\ UNCHANGED <<turn, chain>> /\ layer'.present = layer.present
           /\ \/ teardown' = "failed"
              \/ /\ teardown' = "destroy" /\ ~layer'.enabled
                 /\ layer'.destroying = layer.destroying
  <1>0. TurnHere /\ LayerTypeOK /\ UNCHANGED <<intents, chain, turn, updating, orphans>>
    BY ShapeHere DEF LayerShape, TeardownDisable
  <1>1. CASE GiveBack
    BY <1>0, <1>1, GiveBackDone
  <1>2. CASE /\ Works(FALSE)
             /\ teardown' = "destroy"
             /\ Write(Stopped([layer EXCEPT !.enabled = FALSE]), FALSE)
    <2> DEFINE m == [layer EXCEPT !.enabled = FALSE]
    <2>1. /\ m \in Entry /\ m.epoch = layer.epoch /\ m.present = layer.present
          /\ m.destroying = layer.destroying /\ m.enabled = FALSE
      BY <1>0 DEF TurnHere, Entry
    <2>2. Write(Stopped(m), FALSE)
      BY <1>2
    <2> HIDE DEF m
    <2> DEFINE l == Stopped(m)
    <2>3. /\ l \in Entry /\ l.epoch = layer.epoch /\ l.present = layer.present
          /\ l.destroying = layer.destroying /\ l.enabled = FALSE /\ ~l.timer
      BY <2>1, StoppedEntry DEF Kin
    <2> HIDE DEF l
    <2>4. on' = FALSE /\ on' \in BOOLEAN /\ faults' \in 0 .. MaxFaults
      BY <1>0, <1>2, CallSettles DEF Works
    <2>5. LayerShape' /\ Kin(l, layer') /\ layer'.enabled = l.enabled
      BY <1>0, <1>2, <2>2, <2>3, <2>4, TeardownWrites DEF l
    <2> QED BY <1>0, <1>2, <2>3, <2>5 DEF Kin
  <1> QED BY <1>1, <1>2 DEF TeardownDisable

LEMMA TeardownDestroyDone ==
    ASSUME LayerShape, TeardownDestroy
    PROVE  /\ LayerShape' /\ UNCHANGED <<turn, chain>>
           /\ \/ teardown' = "failed" /\ layer'.present = layer.present
              \/ /\ teardown' = "done" /\ layer'.enabled = layer.enabled
                 /\ ~layer'.present
  <1>0. /\ TurnHere /\ LayerTypeOK /\ UNCHANGED <<intents, chain, turn, updating, orphans>>
        /\ (layer.timer => layer.enabled)
    BY ShapeHere DEF LayerShape, TeardownDestroy, TimersAccounted
  <1>1. CASE GiveBack
    BY <1>0, <1>1, GiveBackDone
  <1>2. CASE /\ Idles
             /\ teardown' = "done"
             /\ Write([layer EXCEPT !.present = FALSE], FALSE)
    <2> DEFINE l == [layer EXCEPT !.present = FALSE]
    <2>1. /\ l \in Entry /\ l.epoch = layer.epoch /\ l.present = FALSE
          /\ l.timer = layer.timer /\ l.enabled = layer.enabled
      BY <1>0 DEF TurnHere, Entry
    <2>2. Write(l, FALSE)
      BY <1>2
    <2> HIDE DEF l
    <2>3. on' = on /\ on' \in BOOLEAN /\ faults' \in 0 .. MaxFaults
      BY <1>0, <1>2, CallSettles DEF Idles, TurnHere
    <2>4. LayerShape' /\ Kin(l, layer') /\ layer'.enabled = l.enabled
      BY <1>0, <1>2, <2>1, <2>2, <2>3, TeardownWrites
    <2> QED BY <1>0, <1>2, <2>1, <2>4 DEF Kin
  <1> QED BY <1>1, <1>2 DEF TeardownDestroy
-----------------------------------------------------------------------------
\* The session: what holds of the layer before it exists, while it is torn
\* down, and when the session is over.

PristineShape ==
    built < 3 =>
        /\ "data" \notin held /\ teardown = "no"
        /\ ~layer.present /\ ~layer.enabled
        /\ turn.pc = "idle" /\ chain = <<>>

TeardownShape ==
    /\ teardown = "no" => ~layer.destroying /\ Len(intents) <= MaxRequests
    /\ teardown \in {"drain", "disable", "destroy"} => layer.present /\ layer.destroying
    /\ teardown \in {"disable", "destroy", "done"} => turn.pc = "idle" /\ chain = <<>>
    /\ teardown \in {"destroy", "done"} => ~layer.enabled
    /\ teardown = "done" => ~layer.present
    /\ teardown = "failed" => layer.present

EndShape ==
    /\ built >= 3 /\ "data" \notin held => teardown = "done" \/ (teardown = "failed" /\ errors)
    /\ at = "over" => held = {}
    /\ status = "destroyed" => at = "over" /\ ~errors

AppTypeOK ==
    /\ status \in {"starting", "ready", "failed", "destroying", "destroyed"}
    /\ at \in {"constructing", "running", "cleaning", "over"}
    /\ built \in 1 .. Len(START_ORDER)
    /\ held \subseteq Components
    /\ {aborted, destroying, errors} \subseteq BOOLEAN

SessionInv ==
    /\ AppTypeOK
    /\ LayerShape
    /\ PristineShape
    /\ TeardownShape
    /\ EndShape

LEMMA Orders ==
    /\ Len(START_ORDER) = 4 /\ DOMAIN START_ORDER = 1 .. 4
    /\ START_ORDER[1] = "scene" /\ START_ORDER[2] = "controls"
    /\ START_ORDER[3] = "data" /\ START_ORDER[4] = "tools"
    /\ Components = {"scene", "controls", "data", "tools"}
  BY DEF START_ORDER, Components

LEMMA RegisteredType ==
    /\ Registered \in Entry
    /\ Registered.present = TRUE /\ Registered.destroying = FALSE /\ Registered.enabled = FALSE
    /\ Registered.timer = FALSE /\ Registered.epoch = 0
  BY BoundsOfTheLayer DEF Registered, Entry, Epochs, Phases

LEMMA SessionInit == Init => SessionInv
  <1> SUFFICES ASSUME Init PROVE SessionInv
    OBVIOUS
  <1>1. /\ layer \in Entry /\ ~layer.present /\ ~layer.enabled /\ ~layer.timer
        /\ layer.epoch = 0 /\ ~layer.destroying
    <2>1. layer = [Registered EXCEPT !.present = FALSE]
      BY DEF Init, LayerInit
    <2> QED BY <2>1, RegisteredType DEF Entry
  <1>2. LayerTypeOK
    <2>1. /\ turn = NoTurn /\ intents = <<>> /\ chain = <<>> /\ teardown = "no"
          /\ timers = 0 /\ updating = FALSE /\ orphans = 0 /\ on = FALSE /\ faults = 0
      BY DEF Init, LayerInit
    <2>2. /\ intents \in Seq(Intent) /\ Len(intents) = 0
          /\ chain \in Seq(Epochs \ {0}) /\ Len(chain) = 0
      BY <2>1
    <2>3. updating \in BOOLEAN /\ on \in BOOLEAN /\ turn \in Turn
      BY <2>1, NoTurnType
    <2>4. /\ timers \in Nat /\ orphans \in Nat /\ faults \in 0 .. MaxFaults
          /\ Len(chain) <= MaxRequests /\ Len(intents) = layer.epoch
      BY <1>1, <2>1, <2>2, BoundsOfTheLayer
    <2>5. teardown \in {"no", "drain", "disable", "destroy", "done", "failed"}
      BY <2>1
    <2> QED BY <1>1, <2>2, <2>3, <2>4, <2>5 DEF LayerTypeOK
  <1>3. turn.pc = "idle" /\ chain = <<>> /\ intents = <<>> /\ timers = 0 /\ on = FALSE /\ teardown = "no"
    BY DEF Init, LayerInit, NoTurn
  <1>4. ChainShape /\ TimersAccounted /\ CleanupShape /\ OffShape
    BY <1>1, <1>3 DEF ChainShape, TimersAccounted, CleanupShape, OffShape
  <1>5. AppTypeOK
    <2>1. /\ status = "starting" /\ at = "constructing" /\ built = 1 /\ held = {"scene"}
          /\ aborted = FALSE /\ destroying = FALSE /\ errors = FALSE
      BY DEF Init
    <2>2. {aborted, destroying, errors} \subseteq BOOLEAN
      BY <2>1
    <2> QED BY <2>1, <2>2, Orders DEF AppTypeOK
  <1>6. PristineShape /\ TeardownShape /\ EndShape
    BY <1>1, <1>3, BoundsOfTheLayer DEF Init, PristineShape, TeardownShape, EndShape
  <1> QED BY <1>2, <1>4, <1>5, <1>6 DEF SessionInv, LayerShape

\* A turn does nothing when none runs and none is queued.
LEMMA TurnStepNeeds == TurnStep => turn.pc # "idle" \/ chain # <<>>
  BY DEF TurnStep, StartTurn, Adopt, Guard, Disable, CompEnable, CompDisable, Initialize,
         Enable, Update, CancelDisable, FailDisable

\* The steps of the layer by itself.
LEMMA LayerRuns ==
    ASSUME SessionInv, TurnRuns \/ CleanupSettles \/ RefreshRuns \/ TeardownRuns \/ UserRequest
    PROVE  SessionInv'
  <1>0. /\ AppTypeOK /\ LayerShape /\ PristineShape /\ TeardownShape /\ EndShape
        /\ UNCHANGED appVars /\ AppTypeOK'
    BY DEF SessionInv, TurnRuns, CleanupSettles, RefreshRuns, TeardownRuns, UserRequest,
           appVars, AppTypeOK
  <1> USE DEF appVars
  <1>1. CASE TurnRuns
    <2>1. LayerShape' /\ TurnFrame /\ (turn.pc # "idle" \/ chain # <<>>)
      BY <1>0, <1>1, TurnStepDone, TurnStepNeeds DEF TurnRuns, TurnDone
    <2>2. PristineShape' /\ TeardownShape' /\ EndShape'
      BY <1>0, <2>1 DEF PristineShape, TeardownShape, EndShape, TurnFrame, Kin
    <2> QED BY <1>0, <2>1, <2>2 DEF SessionInv
  <1>2. CASE CleanupSettles \/ RefreshRuns
    <2>1. LayerShape' /\ Beside
      BY <1>0, <1>2, StrayDone, RefreshDone DEF CleanupSettles, RefreshRuns
    <2>2. PristineShape' /\ TeardownShape' /\ EndShape'
      BY <1>0, <2>1 DEF PristineShape, TeardownShape, EndShape, Beside, Kin
    <2> QED BY <1>0, <2>1, <2>2 DEF SessionInv
  <1>3. CASE TeardownRuns
    <2>1. CASE Drained
      <3>1. /\ LayerShape' /\ Kin(layer, layer') /\ layer'.enabled = layer.enabled
            /\ turn.pc = "idle" /\ chain = <<>> /\ UNCHANGED <<turn, chain>>
            /\ teardown' = (IF layer.enabled THEN "disable" ELSE "destroy") /\ teardown = "drain"
        BY <1>0, <2>1, DrainedDone DEF Drained
      <3>2. PristineShape' /\ TeardownShape' /\ EndShape'
        BY <1>0, <3>1 DEF PristineShape, TeardownShape, EndShape, Kin
      <3> QED BY <1>0, <3>1, <3>2 DEF SessionInv
    <2>2. CASE TeardownDisable
      <3>1. teardown = "disable" /\ teardown' \in {"failed", "destroy"}
        BY <1>0, <2>2, TeardownDisableDone DEF TeardownDisable
      <3>2. LayerShape' /\ PristineShape' /\ TeardownShape' /\ EndShape'
        BY <1>0, <2>2, <3>1, TeardownDisableDone DEF PristineShape, TeardownShape, EndShape
      <3> QED BY <1>0, <3>2 DEF SessionInv
    <2>3. CASE TeardownDestroy
      <3>1. teardown = "destroy" /\ teardown' \in {"failed", "done"}
        BY <1>0, <2>3, TeardownDestroyDone DEF TeardownDestroy
      <3>2. LayerShape' /\ PristineShape' /\ TeardownShape' /\ EndShape'
        BY <1>0, <2>3, <3>1, TeardownDestroyDone DEF PristineShape, TeardownShape, EndShape
      <3> QED BY <1>0, <3>2 DEF SessionInv
    <2> QED BY <1>3, <2>1, <2>2, <2>3 DEF TeardownRuns, TeardownStep
  <1>4. CASE UserRequest
    <2>1. PICK want \in BOOLEAN : Request(want)
      BY <1>4 DEF UserRequest
    <2>2. /\ LayerShape'
          /\ layer.present /\ ~layer.destroying
          /\ layer'.present /\ ~layer'.destroying /\ layer'.enabled = layer.enabled
          /\ teardown' = teardown /\ Len(intents') <= MaxRequests
      BY <1>0, <2>1, RequestDone
    <2>3. PristineShape' /\ TeardownShape' /\ EndShape'
      BY <1>0, <2>2 DEF PristineShape, TeardownShape, EndShape
    <2> QED BY <1>0, <2>2, <2>3 DEF SessionInv
  <1> QED BY <1>1, <1>2, <1>3, <1>4

\* The layer when its phase is built.
LEMMA CreateDataDone ==
    ASSUME LayerShape, CreateData, turn.pc = "idle", ~layer.enabled
    PROVE  /\ LayerShape'
           /\ layer'.present /\ ~layer'.destroying /\ teardown' = teardown
           /\ Len(intents') <= MaxRequests
  <1>0. TurnHere /\ LayerTypeOK /\ timers = 0 /\ ~on
    BY ShapeHere DEF LayerShape, TimersAccounted, OffShape
  <1>1. /\ layer' \in Entry /\ layer'.present /\ ~layer'.destroying /\ ~layer'.enabled
        /\ ~layer'.timer /\ layer'.epoch = 1
    <2>1. /\ layer' = [Registered EXCEPT !.epoch = 1, !.wanted = TRUE, !.queued = 1]
          /\ 1 \in Epochs
      BY BoundsOfTheLayer DEF CreateData, Epochs
    <2> QED BY <2>1, RegisteredType DEF Entry
  <1>2. /\ intents' \in Seq(Intent) /\ Len(intents') = 1 /\ DOMAIN intents' = 1 .. 1
    <2> DEFINE row == [want |-> TRUE, answer |-> "pending"]
    <2>1. row \in Intent /\ intents' = <<row>>
      BY DEF Intent, CreateData
    <2> HIDE DEF row
    <2> QED BY <2>1
  <1>3. /\ chain' \in Seq(Epochs \ {0}) /\ Len(chain') = 1 /\ DOMAIN chain' = 1 .. 1
        /\ chain'[1] = 1
    <2>1. 1 \in Epochs \ {0} /\ chain' = <<1>>
      BY BoundsOfTheLayer DEF Epochs, CreateData
    <2> QED BY <2>1
  <1>4. UNCHANGED <<turn, teardown, timers, updating, orphans, on, faults>>
    BY DEF CreateData
  <1>5. LayerTypeOK'
    BY <1>0, <1>1, <1>2, <1>3, <1>4, BoundsOfTheLayer DEF LayerTypeOK
  <1>6. ChainShape'
    BY <1>2, <1>3 DEF ChainShape
  <1>7. TimersAccounted' /\ CleanupShape' /\ OffShape'
    BY <1>0, <1>1, <1>4 DEF TimersAccounted, CleanupShape, OffShape
  <1> QED BY <1>1, <1>2, <1>4, <1>5, <1>6, <1>7, BoundsOfTheLayer DEF LayerShape
\* The application's own steps.
LEMMA AppTypes == SessionInv /\ [Next]_vars => AppTypeOK'
  <1> SUFFICES ASSUME SessionInv, [Next]_vars PROVE AppTypeOK'
    OBVIOUS
  <1>0. /\ AppTypeOK /\ aborted \in BOOLEAN /\ destroying \in BOOLEAN /\ errors \in BOOLEAN
    BY DEF SessionInv, AppTypeOK
  <1>1. CASE UNCHANGED appVars
    BY <1>0, <1>1 DEF appVars, AppTypeOK
  <1>2. CASE PhaseBuilt
    <2>1. built' \in 1 .. Len(START_ORDER)
      BY <1>0, <1>2, Orders DEF PhaseBuilt, AppTypeOK
    <2>2. held' \subseteq Components
      <3>1. CASE held' = held
        BY <1>0, <3>1 DEF AppTypeOK
      <3>2. CASE built # Len(START_ORDER) /\ held' = held \cup {START_ORDER[built + 1]}
        <4>1. built + 1 \in DOMAIN START_ORDER
          BY <1>0, <3>2, Orders DEF AppTypeOK
        <4>2. START_ORDER[built + 1] \in Components
          BY <4>1 DEF Components
        <4> QED BY <1>0, <3>2, <4>2 DEF AppTypeOK
      <3> QED BY <1>2, <3>1, <3>2 DEF PhaseBuilt
    <2>3. /\ status' \in {"starting", "ready", "failed", "destroying", "destroyed"}
          /\ at' \in {"constructing", "running", "cleaning", "over"}
          /\ UNCHANGED <<aborted, destroying, errors>>
      BY <1>0, <1>2 DEF PhaseBuilt, AppTypeOK
    <2> QED BY <1>0, <2>1, <2>2, <2>3 DEF AppTypeOK
  <1>3. CASE PhaseFails
    BY <1>0, <1>3 DEF PhaseFails, AppTypeOK
  <1>4. CASE Destroy
    BY <1>0, <1>4 DEF Destroy, AppTypeOK
  <1>5. CASE Cleanup
    <2>1. held' \subseteq held /\ errors' \in BOOLEAN
      BY <1>0, <1>5 DEF Cleanup
    <2>2. UNCHANGED <<status, at, built, aborted, destroying>>
      BY <1>5 DEF Cleanup
    <2> QED BY <1>0, <2>1, <2>2 DEF AppTypeOK
  <1>6. CASE CleanupEnds \/ DestroyEnds
    BY <1>0, <1>6 DEF CleanupEnds, DestroyEnds, AppTypeOK
  <1> QED BY <1>1, <1>2, <1>3, <1>4, <1>5, <1>6
       DEF Next, AppStep, UserRequest, TurnRuns, CleanupSettles, RefreshRuns, TeardownRuns,
           vars, appVars

\* Steps of the application that leave the layer alone.
LEMMA LayerStays ==
    ASSUME SessionInv, UNCHANGED layerVars
    PROVE  LayerShape' /\ TeardownShape'
  <1>1. LayerTypeOK' /\ ChainShape'
    BY DEF SessionInv, LayerShape, layerVars, LayerTypeOK, ChainShape
  <1>2. TimersAccounted' /\ CleanupShape' /\ OffShape' /\ TeardownShape'
    BY DEF SessionInv, LayerShape, layerVars, TimersAccounted, CleanupShape, OffShape,
           TeardownShape
  <1> QED BY <1>1, <1>2 DEF LayerShape

LEMMA PhaseBuiltDone == ASSUME SessionInv, AppTypeOK', PhaseBuilt PROVE SessionInv'
  <1>0. /\ AppTypeOK /\ LayerShape /\ PristineShape /\ TeardownShape /\ EndShape
        /\ built \in 1 .. 4 /\ at = "constructing" /\ UNCHANGED errors
        /\ status # "destroyed"
    BY Orders DEF SessionInv, AppTypeOK, PhaseBuilt, EndShape
  <1>1. CASE UNCHANGED <<built, held, layerVars>> /\ at' # "over" /\ status' \in {status, "ready"}
    <2>1. LayerShape' /\ TeardownShape'
      BY <1>1, LayerStays
    <2>2. PristineShape' /\ EndShape'
      BY <1>0, <1>1 DEF layerVars, PristineShape, EndShape
    <2> QED BY <2>1, <2>2 DEF SessionInv
  <1>2. CASE /\ built # 4 /\ built' = built + 1 /\ START_ORDER[built + 1] # "data"
             /\ held' = held \cup {START_ORDER[built + 1]}
             /\ UNCHANGED <<at, layerVars>> /\ status' = "starting"
    <2>1. LayerShape' /\ TeardownShape'
      BY <1>2, LayerStays
    <2>2. built # 2 /\ (built' < 3 <=> built < 3) /\ (built' >= 3 <=> built >= 3)
      BY <1>0, <1>2, Orders
    <2>3. "data" \in held' <=> "data" \in held
      BY <1>2
    <2>4. PristineShape' /\ EndShape'
      BY <1>0, <1>2, <2>2, <2>3 DEF layerVars, PristineShape, EndShape
    <2> QED BY <2>1, <2>4 DEF SessionInv
  <1>3. CASE /\ built # 4 /\ built' = built + 1 /\ START_ORDER[built + 1] = "data"
             /\ held' = held \cup {START_ORDER[built + 1]}
             /\ UNCHANGED at /\ status' = "starting" /\ CreateData
    <2>1. built = 2 /\ built' = 3
      BY <1>0, <1>3, Orders
    <2>2. turn.pc = "idle" /\ ~layer.enabled /\ teardown = "no"
      BY <1>0, <2>1 DEF PristineShape
    <2>3. /\ LayerShape' /\ layer'.present /\ ~layer'.destroying /\ teardown' = "no"
          /\ Len(intents') <= MaxRequests
      BY <1>0, <1>3, <2>2, CreateDataDone
    <2>4. "data" \in held'
      BY <1>3
    <2>5. PristineShape' /\ TeardownShape' /\ EndShape'
      BY <1>0, <1>3, <2>1, <2>3, <2>4 DEF PristineShape, TeardownShape, EndShape
    <2> QED BY <2>3, <2>5 DEF SessionInv
  <1> QED BY <1>0, <1>1, <1>2, <1>3, Orders DEF PhaseBuilt

LEMMA PhaseFailsDone == ASSUME SessionInv, AppTypeOK', PhaseFails PROVE SessionInv'
  <1>0. /\ LayerShape /\ PristineShape /\ TeardownShape /\ EndShape /\ status # "destroyed"
        /\ UNCHANGED <<layer, intents, chain, turn, teardown, timers, updating, orphans, on>>
        /\ UNCHANGED <<status, built, held, errors>> /\ at' = "cleaning"
    BY DEF SessionInv, PhaseFails, EndShape
  <1>1. faults' \in 0 .. MaxFaults
    BY <1>0, BoundsOfTheLayer DEF PhaseFails, LayerShape, LayerTypeOK
  <1>2. LayerTypeOK' /\ ChainShape'
    BY <1>0, <1>1 DEF LayerShape, LayerTypeOK, ChainShape
  <1>3. TimersAccounted' /\ CleanupShape' /\ OffShape'
    BY <1>0 DEF LayerShape, TimersAccounted, CleanupShape, OffShape
  <1>4. PristineShape' /\ TeardownShape' /\ EndShape'
    BY <1>0 DEF PristineShape, TeardownShape, EndShape
  <1> QED BY <1>2, <1>3, <1>4 DEF SessionInv, LayerShape

\* destroy() and the two ends of a cleanup.
LEMMA EndsDone ==
    ASSUME SessionInv, AppTypeOK', Destroy \/ CleanupEnds \/ DestroyEnds PROVE SessionInv'
  <1>0. /\ PristineShape /\ EndShape /\ UNCHANGED <<layerVars, built, held, errors>>
    BY DEF SessionInv, Destroy, CleanupEnds, DestroyEnds
  <1>1. LayerShape' /\ TeardownShape'
    BY <1>0, LayerStays
  <1>2. PristineShape'
    BY <1>0 DEF layerVars, PristineShape
  <1>3. /\ at' = "over" => held' = {}
        /\ status' = "destroyed" => at' = "over" /\ ~errors'
    <2>1. CASE Destroy
      BY <1>0, <2>1 DEF Destroy, EndShape
    <2>2. CASE CleanupEnds
      BY <1>0, <2>2 DEF CleanupEnds
    <2>3. CASE DestroyEnds
      BY <1>0, <2>3 DEF DestroyEnds, EndShape
    <2> QED BY <2>1, <2>2, <2>3
  <1>4. EndShape'
    BY <1>0, <1>3 DEF layerVars, EndShape
  <1> QED BY <1>1, <1>2, <1>4 DEF SessionInv

LEMMA CleanupKeeps == ASSUME SessionInv, AppTypeOK', Cleanup PROVE SessionInv'
  <1>0. /\ AppTypeOK /\ LayerShape /\ PristineShape /\ TeardownShape /\ EndShape
        /\ UNCHANGED <<status, at, built>> /\ at = "cleaning" /\ status # "destroyed"
        /\ errors \in BOOLEAN
    BY DEF SessionInv, Cleanup, EndShape, AppTypeOK
  <1>1. CASE Due # "data" /\ held' = held \ {Due} /\ UNCHANGED <<layerVars, errors>>
    <2>1. LayerShape' /\ TeardownShape'
      BY <1>1, LayerStays
    <2>2. "data" \in held' <=> "data" \in held
      BY <1>1
    <2>3. PristineShape' /\ EndShape'
      BY <1>0, <1>1, <2>2 DEF layerVars, PristineShape, EndShape
    <2> QED BY <2>1, <2>3 DEF SessionInv
  <1>2. CASE teardown = "no" /\ BeginDestroy /\ UNCHANGED <<held, errors>>
    <2>1. LayerShape' /\ layer'.present /\ layer'.destroying /\ teardown' = "drain"
      BY <1>0, <1>2, BeginDestroyDone DEF TeardownShape
    <2>2. ~(built < 3)
      BY <1>0, <1>2 DEF PristineShape, BeginDestroy
    <2>3. PristineShape' /\ TeardownShape'
      BY <1>0, <2>1, <2>2 DEF PristineShape, TeardownShape
    <2>4. built >= 3 => "data" \in held
      BY <1>0, <1>2 DEF EndShape
    <2>5. EndShape'
      BY <1>0, <1>2, <2>4 DEF EndShape
    <2> QED BY <2>1, <2>3, <2>5 DEF SessionInv
  <1>3. CASE /\ teardown \in {"done", "failed"} /\ held' = held \ {"data"}
             /\ errors' = (errors \/ layer.present) /\ UNCHANGED layerVars
    <2>1. LayerShape' /\ TeardownShape'
      BY <1>3, LayerStays
    <2>2. teardown = "failed" => errors'
      BY <1>0, <1>3 DEF TeardownShape
    <2>3. PristineShape'
      BY <1>0, <1>3 DEF layerVars, PristineShape
    <2>4. EndShape'
      BY <1>0, <1>3, <2>2 DEF layerVars, EndShape
    <2> QED BY <2>1, <2>3, <2>4 DEF SessionInv
  <1> QED BY <1>1, <1>2, <1>3 DEF Cleanup

LEMMA SessionStep == SessionInv /\ [Next]_vars => SessionInv'
  <1> SUFFICES ASSUME SessionInv, [Next]_vars PROVE SessionInv'
    OBVIOUS
  <1>1. AppTypeOK'
    BY AppTypes
  <1>2. CASE UNCHANGED vars
    <2>1. UNCHANGED layerVars /\ UNCHANGED appVars
      BY <1>2 DEF vars
    <2>2. LayerShape' /\ TeardownShape'
      BY <2>1, LayerStays
    <2>3. PristineShape' /\ EndShape'
      BY <2>1 DEF layerVars, appVars, PristineShape, EndShape, SessionInv
    <2> QED BY <1>1, <2>2, <2>3 DEF SessionInv
  <1>3. CASE UserRequest \/ TurnRuns \/ CleanupSettles \/ RefreshRuns \/ TeardownRuns
    BY <1>3, LayerRuns
  <1>4. CASE AppStep
    BY <1>1, <1>4, PhaseBuiltDone, CleanupKeeps, EndsDone DEF AppStep
  <1>5. CASE PhaseFails
    BY <1>1, <1>5, PhaseFailsDone
  <1>6. CASE Destroy
    BY <1>1, <1>6, EndsDone
  <1> QED BY <1>2, <1>3, <1>4, <1>5, <1>6 DEF Next

LEMMA Inductive == Spec => []SessionInv
  BY SessionInit, SessionStep, PTL DEF Spec

-----------------------------------------------------------------------------
\* What the invariant gives.

\* The entry, the turn, the queue and the application keep their types: no
\* settlement of a call of the module, in any order, leaves a field undefined.
THEOREM GlobeTypes == Spec => []TypeOK
  <1>1. SessionInv => TypeOK
    BY DEF SessionInv, AppTypeOK, LayerShape, TypeOK
  <1> QED BY <1>1, Inductive, PTL

\* _startUpdateInterval() and every settlement of a turn: for any number of
\* requests and refused calls, at most one interval of the layer runs, it is the
\* one the entry holds, and it runs only while the layer is on.
THEOREM TimersStayAccounted == Spec => []TimersAccounted
  <1>1. SessionInv => TimersAccounted
    BY DEF SessionInv, LayerShape
  <1> QED BY <1>1, Inductive, PTL

\* _doToggle: between turns, a layer that is off has its module off, whatever was
\* aborted, compensated or refused on the way.
THEOREM OffStaysOff == Spec => []OffIsOff
  <1>1. SessionInv => OffIsOff
    BY DEF SessionInv, LayerShape, OffShape, OffIsOff
  <1> QED BY <1>1, Inductive, PTL

\* destroy() of application.js and destroyLayer(): when the application says it
\* is destroyed, the layer has no timer, no turn and no queue, and its module is
\* off, from wherever destroy() found it.
THEOREM DestroyedStaysSilent == Spec => []DestroyedIsSilent
  <1>1. ASSUME SessionInv, status = "destroyed"
        PROVE  timers = 0 /\ ~on /\ turn.pc = "idle" /\ chain = <<>>
    <2>0. /\ AppTypeOK /\ LayerShape /\ PristineShape /\ TeardownShape /\ EndShape
      BY <1>1 DEF SessionInv
    <2>1. held = {} /\ ~errors /\ built \in Nat
      BY <1>1, <2>0, Orders DEF EndShape, AppTypeOK
    <2>2. built < 3 \/ teardown = "done"
      BY <2>0, <2>1 DEF EndShape
    <2>3. turn.pc = "idle" /\ chain = <<>> /\ ~layer.enabled
      BY <2>0, <2>2 DEF PristineShape, TeardownShape
    <2>4. ~on /\ timers = 0
      BY <2>0, <2>3 DEF LayerShape, OffShape, TimersAccounted
    <2> QED BY <2>3, <2>4
  <1>2. SessionInv => DestroyedIsSilent
    BY <1>1 DEF DestroyedIsSilent
  <1> QED BY <1>2, Inductive, PTL
=============================================================================
