--------------------------- MODULE StartdHandlers ---------------------------
(***************************************************************************)
(* What has to be followed handler by handler, because StartdProofs!Effect *)
(* says nothing of it.  First VacateOnlyAsked: the vacate channel, the     *)
(* max-vacate timers and the vacating mark of an activation.  Then, for    *)
(* StartdRecords, which record each handler that claims or releases a slot *)
(* queues for the store.                                                   *)
(***************************************************************************)
EXTENDS StartdSafety

-----------------------------------------------------------------------------
(* VacateOnlyAsked. *)

\* An activation with a vacate message or a running max-vacate timer has been
\* asked to vacate.  The timer is in it because its message comes later.
Asked(a) == a.vacateCh # "empty" \/ a.esc > 0 => a.vacating

VacateInv == \A n \in Name : activations[n] # 0 => Asked(acts[activations[n]])

\* Whatever was asked in acts is asked in heap.
Keeps(heap) == \A g \in Gen : Asked(acts[g]) => Asked(heap[g])

\* One activation is written.
LEMMA KeepsWritten ==
  ASSUME TypeOK, NEW g \in Gen, NEW b, Asked(acts[g]) => Asked(b)
  PROVE  Keeps([acts EXCEPT ![g] = b])
<1>1. acts \in [Gen -> Acts]
  BY DEF TypeOK, ActTypes
<1> DEFINE heap == [acts EXCEPT ![g] = b]
<1>2. heap[g] = b /\ \A k \in Gen \ {g} : heap[k] = acts[k]
  BY <1>1
<1> HIDE DEF heap
<1>3. Keeps(heap)
  BY <1>2, Zenon DEF Keeps
<1>4. QED
  BY <1>3 DEF heap

\* A step that leaves the activations map alone.
LEMMA VacateStays ==
  ASSUME TypeOK, VacateInv, activations' = activations, Keeps(acts')
  PROVE  VacateInv'
<1>1. \A n \in Name : activations[n] # 0 => activations[n] \in Gen
  BY DEF TypeOK, ActTypes
<1>2. QED
  BY <1>1 DEF VacateInv, Keeps, Asked

\* A step that ends the activation of slot n, whatever it writes there: no other
\* slot has that activation (NoWedge).
LEMMA VacateEnds ==
  ASSUME TypeOK, NoWedge, VacateInv, NEW n \in Name, NEW heap \in [Gen -> Acts], NEW b,
         Keeps(heap), activations' = [activations EXCEPT ![n] = 0],
         acts' = IF activations[n] = 0 THEN heap ELSE [heap EXCEPT ![activations[n]] = b]
  PROVE  VacateInv'
<1> SUFFICES ASSUME NEW m \in Name, activations'[m] # 0
             PROVE  Asked(acts'[activations'[m]])
  BY DEF VacateInv, Asked
<1>1. activations \in [Name -> Gen \cup {0}]
  BY DEF TypeOK, ActTypes
<1>2. m # n /\ activations'[m] = activations[m] /\ activations[m] \in Gen
  BY <1>1
<1>3. activations[m] # activations[n]
  BY <1>1, <1>2 DEF NoWedge
<1>4. acts'[activations[m]] = heap[activations[m]]
  BY <1>2, <1>3
<1>5. Asked(heap[activations[m]])
  BY <1>2, Zenon DEF VacateInv, Keeps
<1>6. QED
  BY <1>2, <1>4, <1>5

\* releaseSlot and its killActivation.
LEMMA VacateReleased ==
  ASSUME TypeOK, NoWedge, VacateInv, NEW n \in Name, NEW heap \in [Gen -> Acts], Keeps(heap),
         NEW loops, releaseSlot(n, heap, loops)
  PROVE  VacateInv'
<1>1. /\ activations' = [activations EXCEPT ![n] = 0]
      /\ acts' = IF activations[n] = 0 THEN heap
                 ELSE [heap EXCEPT ![activations[n]] = kill(heap[activations[n]])]
  BY DEF releaseSlot, killActivation
<1>2. QED
  BY <1>1, VacateEnds, Zenon

\* Nothing happens to the activations.
LEMMA VacateUntouched ==
  ASSUME TypeOK, VacateInv, activations' = activations, acts' = acts
  PROVE  VacateInv'
BY VacateStays DEF Keeps

\* Claiming.
LEMMA VacateClaiming ==
  ASSUME TypeOK, NoWedge, VacateInv, Claiming
  PROVE  VacateInv'
<1>1. acts \in [Gen -> Acts] /\ Keeps(acts)
  BY DEF TypeOK, ActTypes, Keeps
<1>2. ASSUME NEW id \in Id, doMatchInfo(id)
      PROVE  VacateInv'
  BY <1>2, VacateUntouched DEF doMatchInfo, actVars
<1>3. ASSUME NEW id \in Id, doReleaseByClaimID(id)
      PROVE  VacateInv'
  <2>1. PICK n \in findSlotByClaimID(id) : releaseSlot(n, acts, alives)
    BY <1>3 DEF doReleaseByClaimID
  <2>2. n \in Name
    BY Found
  <2>3. QED
    BY <1>1, <2>1, <2>2, VacateReleased
<1>4. ASSUME NEW id \in Id, NEW ad \in JobAds, doRequestClaim(id, ad)
      PROVE  VacateInv'
  <2>1. UNCHANGED actVars
    BY <1>4, Zenon DEF doRequestClaim
  <2>2. QED
    BY <2>1, VacateUntouched DEF actVars
<1>5. ASSUME NEW t \in timers, matchTimerFires(t) \/ doMatchTimeout(t)
      PROVE  VacateInv'
  <2>1. UNCHANGED actVars
    BY <1>5, Zenon DEF matchTimerFires, doMatchTimeout
  <2>2. QED
    BY <2>1, VacateUntouched DEF actVars
<1>6. ASSUME NEW l \in alives, aliveLoopGivesUp(l)
      PROVE  VacateInv'
  BY <1>6, VacateUntouched DEF aliveLoopGivesUp, actVars
<1>7. ASSUME NEW l \in alives, doReleaseSlot(l)
      PROVE  VacateInv'
  <2>1. CASE releaseSlot(l.slot, acts, alives \ {l})
    <3>1. l.slot \in Name
      BY DEF TypeOK, TimerTypes, AliveLoops
    <3>2. QED
      BY <1>1, <2>1, <3>1, VacateReleased
  <2>2. CASE UNCHANGED actVars
    BY <2>2, VacateUntouched DEF actVars
  <2>3. QED
    BY <1>7, <2>1, <2>2 DEF doReleaseSlot
<1>8. QED
  BY <1>2, <1>3, <1>4, <1>5, <1>6, <1>7 DEF Claiming

\* A goroutine leaves the activation a as b: it may empty the vacate channel, and
\* writes neither the marks of a vacate nor the starter's address.
Tame(a, b) ==
  /\ b.vacateCh = a.vacateCh \/ b.vacateCh = "empty"
  /\ b.esc = a.esc /\ b.vacating = a.vacating /\ b.addr = a.addr

\* Every goroutine of an activation is tame.
LEMMA GoroutineTame ==
  ASSUME TypeOK, NEW g \in Gen,
         Supervise(g) \/ Reply(g) \/ reapStarter(g) \/ backstopFires(g)
  PROVE  \E b : actStep(g, b) /\ Tame(acts[g], b)
<1> DEFINE a == acts[g]
           Moves == \E b : actStep(g, b) /\ Tame(a, b)
<1>1. a \in Acts
  BY DEF TypeOK, ActTypes
<1>2. ASSUME NEW b, actStep(g, b), Tame(a, b)
      PROVE  Moves
  BY <1>2, Zenon
<1> SUFFICES Moves
  OBVIOUS
<1> HIDE DEF Moves
<1>3. CASE handlerPasses(g)
  <2>1. actStep(g, [a EXCEPT !.hand = "done"])
    BY <1>3 DEF handlerPasses
  <2>2. Tame(a, [a EXCEPT !.hand = "done"])
    BY <1>1 DEF Acts, Tame
  <2>3. QED
    BY <1>2, <2>1, <2>2, Zenon
<1>4. CASE handlerFails(g)
  <2>1. actStep(g, [a EXCEPT !.hand = "exit"])
    BY <1>4 DEF handlerFails
  <2>2. Tame(a, [a EXCEPT !.hand = "exit"])
    BY <1>1 DEF Acts, Tame
  <2>3. QED
    BY <1>2, <2>1, <2>2, Zenon
<1>5. ASSUME NEW s, actStep(g, [a EXCEPT !.sup = s])
      PROVE  Moves
  <2>1. Tame(a, [a EXCEPT !.sup = s])
    BY <1>1 DEF Acts, Tame
  <2>2. QED
    BY <1>2, <1>5, <2>1, Zenon
<1>6. CASE supConnects(g) \/ supReadsHello(g) \/ supReadsFinal(g)
  BY <1>5, <1>6 DEF supConnects, supReadsHello, supReadsFinal
<1>7. ASSUME NEW s, actStep(g, [a EXCEPT !.sup = s,
                                         !.vacateCh = IF Closed(g) THEN "empty" ELSE @])
      PROVE  Moves
  <2>1. Tame(a, [a EXCEPT !.sup = s, !.vacateCh = IF Closed(g) THEN "empty" ELSE @])
    BY <1>1 DEF Acts, Tame
  <2>2. QED
    BY <1>2, <1>7, <2>1, Zenon
<1>8. CASE supGivesUp(g) \/ supExits(g)
  BY <1>7, <1>8, Zenon DEF supGivesUp, supExits
<1>9. CASE supRelays(g)
  <2>1. actStep(g, [a EXCEPT !.vacateCh = "empty"])
    BY <1>9 DEF supRelays
  <2>2. Tame(a, [a EXCEPT !.vacateCh = "empty"])
    BY <1>1 DEF Acts, Tame
  <2>3. QED
    BY <1>2, <2>1, <2>2, Zenon
<1>10. CASE reapStarter(g)
  <2>1. actStep(g, [a EXCEPT !.reap = "exit", !.backstop = FALSE])
    BY <1>10 DEF reapStarter
  <2>2. Tame(a, [a EXCEPT !.reap = "exit", !.backstop = FALSE])
    BY <1>1 DEF Acts, Tame
  <2>3. QED
    BY <1>2, <2>1, <2>2, Zenon
<1>11. CASE backstopFires(g)
  <2>1. actStep(g, [a EXCEPT !.backstop = FALSE])
    BY <1>11 DEF backstopFires
  <2>2. Tame(a, [a EXCEPT !.backstop = FALSE])
    BY <1>1 DEF Acts, Tame
  <2>3. QED
    BY <1>2, <2>1, <2>2, Zenon
<1>12. QED
  BY <1>3, <1>4, <1>6, <1>8, <1>9, <1>10, <1>11 DEF Supervise, Reply

\* A goroutine of activation g moves: it never fills the vacate channel.
LEMMA VacateGoroutine ==
  ASSUME TypeOK, VacateInv, NEW g \in Gen,
         Supervise(g) \/ Reply(g) \/ reapStarter(g) \/ backstopFires(g)
  PROVE  VacateInv'
<1>1. PICK b : actStep(g, b) /\ Tame(acts[g], b)
  BY GoroutineTame
<1>2. Asked(acts[g]) => Asked(b)
  BY <1>1, Zenon DEF Tame, Asked
<1>3. Keeps([acts EXCEPT ![g] = b])
  BY <1>2, KeepsWritten
<1>4. acts' = [acts EXCEPT ![g] = b] /\ activations' = activations
  BY <1>1 DEF actStep
<1>5. QED
  BY <1>3, <1>4, VacateStays

\* The loop takes an event of activation g.
LEMMA VacateTake ==
  ASSUME TypeOK, NoWedge, VacateInv, NEW g \in Gen, Take(g)
  PROVE  VacateInv'
<1> DEFINE a == acts[g]
           n == a.slot
           h == activations[n]
           Moved(b) == [acts EXCEPT ![g] = b]
<1>1. acts \in [Gen -> Acts] /\ a \in Acts /\ n \in Name /\ h \in Gen \cup {0}
  BY DEF TypeOK, ActTypes, Acts
<1>2. ASSUME NEW b \in Acts, b.vacateCh = a.vacateCh, b.esc = a.esc, b.vacating = a.vacating
      PROVE  Moved(b) \in [Gen -> Acts] /\ Keeps(Moved(b))
  <2>1. Asked(a) => Asked(b)
    BY <1>2, Zenon DEF Asked
  <2>2. QED
    BY <1>1, <2>1, KeepsWritten, Zenon
<1>3. ASSUME NEW s \in {"serve", "reported", "done"}
      PROVE  LET heap == [acts EXCEPT ![g].sup = s] IN heap \in [Gen -> Acts] /\ Keeps(heap)
  <2> DEFINE b == [a EXCEPT !.sup = s]
  <2>1. b \in Acts /\ b.vacateCh = a.vacateCh /\ b.esc = a.esc /\ b.vacating = a.vacating
    BY <1>1 DEF Acts
  <2>2. [acts EXCEPT ![g].sup = s] = Moved(b)
    BY <1>1
  <2> HIDE DEF b
  <2>3. QED
    BY <1>2, <2>1, <2>2
<1>4. CASE doStarterHello(g)
  <2> DEFINE heap == [acts EXCEPT ![g].sup = "serve"]
             c == [heap[h] EXCEPT !.addr = g]
  <2>1. heap \in [Gen -> Acts] /\ Keeps(heap)
    BY <1>3
  <2>2. activations' = activations
    BY <1>4, Zenon DEF doStarterHello
  <2>3. acts' = heap \/ (h # 0 /\ acts' = [heap EXCEPT ![h].addr = g])
    BY <1>4, Zenon DEF doStarterHello
  <2>4. CASE acts' = heap
    BY <2>1, <2>2, <2>4, VacateStays
  <2>5. CASE h # 0 /\ acts' = [heap EXCEPT ![h].addr = g]
    <3> HIDE DEF heap
    <3>1. h \in Gen /\ heap[h] \in Acts
      BY <1>1, <2>1, <2>5
    <3>2. /\ c.vacateCh = heap[h].vacateCh /\ c.esc = heap[h].esc
          /\ c.vacating = heap[h].vacating
      BY <3>1, Zenon DEF Acts
    <3>3. acts'[h] = c /\ \A k \in Gen \ {h} : acts'[k] = heap[k]
      BY <2>1, <2>5, <3>1
    <3> HIDE DEF c
    <3>4. Asked(heap[h]) => Asked(c)
      BY <3>2, Zenon DEF Asked
    <3>5. Keeps(acts')
      BY <2>1, <3>3, <3>4, Zenon DEF Keeps
    <3>6. QED
      BY <2>2, <3>5, VacateStays
  <2>6. QED
    BY <2>3, <2>4, <2>5
<1>5. CASE doStarterFinal(g)
  BY <1>3, <1>5, VacateStays DEF doStarterFinal
<1>6. ASSUME NEW heap \in [Gen -> Acts], Keeps(heap), doStarterExited(n, heap)
      PROVE  VacateInv'
  <2>1. /\ activations' = [activations EXCEPT ![n] = 0]
        /\ acts' = IF activations[n] = 0 THEN heap
                   ELSE [heap EXCEPT ![activations[n]] = retire(heap[activations[n]])]
    BY <1>6, Zenon DEF doStarterExited
  <2>2. QED
    BY <1>1, <1>6, <2>1, VacateEnds, Zenon
<1>7. CASE supExited(g)
  BY <1>3, <1>6, <1>7, Zenon DEF supExited
<1>8. CASE reaperExited(g)
  <2> DEFINE b == [a EXCEPT !.reap = "done"]
  <2>1. b \in Acts /\ b.vacateCh = a.vacateCh /\ b.esc = a.esc /\ b.vacating = a.vacating
    BY <1>1 DEF Acts
  <2>2. doStarterExited(n, Moved(b))
    BY <1>8 DEF reaperExited
  <2> HIDE DEF b
  <2>3. QED
    BY <1>2, <1>6, <2>1, <2>2
<1>9. CASE handlerExited(g)
  <2> DEFINE b == [a EXCEPT !.hand = "done"]
  <2>1. b \in Acts /\ b.vacateCh = a.vacateCh /\ b.esc = a.esc /\ b.vacating = a.vacating
    BY <1>1 DEF Acts
  <2>2. doStarterExited(n, Moved(b))
    BY <1>9 DEF handlerExited
  <2> HIDE DEF b
  <2>3. QED
    BY <1>2, <1>6, <2>1, <2>2
<1>10. CASE doAdoptFailed(g)
  <2> DEFINE heap == [acts EXCEPT ![g].sup = "done"]
  <2>1. heap \in [Gen -> Acts] /\ Keeps(heap)
    BY <1>3
  <2>2. \/ acts' = heap /\ activations' = activations
        \/ /\ h # 0 /\ activations' = [activations EXCEPT ![n] = 0]
           /\ acts' = [heap EXCEPT ![h] = retire(heap[h])]
        \/ releaseSlot(n, heap, alives)
    BY <1>10, Zenon DEF doAdoptFailed
  <2> HIDE DEF heap
  <2>3. CASE acts' = heap /\ activations' = activations
    BY <2>1, <2>3, VacateStays
  <2>4. CASE /\ h # 0 /\ activations' = [activations EXCEPT ![n] = 0]
             /\ acts' = [heap EXCEPT ![h] = retire(heap[h])]
    BY <1>1, <2>1, <2>4, VacateEnds, Zenon
  <2>5. CASE releaseSlot(n, heap, alives)
    BY <1>1, <2>1, <2>5, VacateReleased
  <2>6. QED
    BY <2>2, <2>3, <2>4, <2>5
<1>11. QED
  BY <1>4, <1>5, <1>7, <1>8, <1>9, <1>10 DEF Take

\* evVacate sets the mark with the message and the timer.
LEMMA VacateAsked ==
  ASSUME TypeOK, VacateInv, NEW h \in Deact, doVacate(h)
  PROVE  VacateInv'
<1> DEFINE g == activations[deacts[h].slot]
           hard == deacts[h].hard
           timed == ~hard /\ phase = "up"
           a == acts[g]
           b == [a EXCEPT !.vacating = TRUE,
                          !.vacateCh = offer(a.vacateCh, IF hard THEN "hard" ELSE "soft"),
                          !.esc = IF timed THEN a.esc + 1 ELSE a.esc]
<1>1. activations' = activations
  BY Zenon DEF doVacate
<1>2. CASE g = 0
  <2>1. acts' = acts
    BY <1>2 DEF doVacate
  <2>2. QED
    BY <1>1, <2>1, VacateUntouched
<1>3. CASE g # 0
  <2>1. g \in Gen /\ acts \in [Gen -> Acts] /\ a \in Acts
    BY <1>3 DEF TypeOK, ActTypes, DeactTypes, Handlers
  <2>2. acts' = [acts EXCEPT ![g] = b]
    BY <1>3, <2>1, Zenon DEF doVacate, Acts
  <2>3. b.vacating = TRUE
    BY <2>1, Zenon DEF Acts
  <2> HIDE DEF b
  <2>4. Asked(b)
    BY <2>3, Zenon DEF Asked
  <2>5. Keeps(acts')
    BY <2>1, <2>2, <2>4, KeepsWritten, Zenon
  <2>6. QED
    BY <1>1, <2>5, VacateStays
<1>4. QED
  BY <1>2, <1>3

\* evVacateEscalate writes only to the activation whose timer has elapsed, which
\* was therefore asked.  Without the gen guard this step fails.
LEMMA VacateEscalated ==
  ASSUME TypeOK, VacateInv, NEW g \in Gen, doVacateEscalate(g)
  PROVE  VacateInv'
<1> DEFINE a == acts[g]
           low == [a EXCEPT !.esc = a.esc - 1]
           b == [low EXCEPT !.vacateCh = offer(a.vacateCh, "hard")]
<1>1. activations' = activations /\ a.esc > 0
  BY DEF doVacateEscalate
<1>2. acts \in [Gen -> Acts] /\ a \in Acts
  BY DEF TypeOK, ActTypes
<1>3. acts' = [acts EXCEPT ![g] = low] \/ acts' = [acts EXCEPT ![g] = b]
  BY <1>2, Zenon DEF doVacateEscalate, Acts
<1>4. low.vacating = a.vacating /\ b.vacating = a.vacating
  BY <1>2 DEF Acts
<1>5. Asked(a) => a.vacating
  BY <1>1, Zenon DEF Asked
<1> HIDE DEF low, b
<1>6. (Asked(a) => Asked(low)) /\ (Asked(a) => Asked(b))
  BY <1>4, <1>5, Zenon DEF Asked
<1>7. Keeps(acts')
  BY <1>3, <1>6, KeepsWritten
<1>8. QED
  BY <1>1, <1>7, VacateStays

\* A new activation has not been asked, and has no timer of its predecessors.
LEMMA VacateActivated ==
  ASSUME TypeOK, VacateInv, NEW id \in Id, NEW ad \in JobAds, doActivateClaim(id, ad)
  PROVE  VacateInv'
<1>1. PICK n \in findSlotByClaimID(id) :
        /\ acts' = [acts EXCEPT ![gen + 1] = NewAct(n, FALSE, 0)]
        /\ activations' = [activations EXCEPT ![n] = gen + 1]
  BY Zenon DEF doActivateClaim
<1> DEFINE b == NewAct(n, FALSE, 0)
<1>2. Asked(b)
  BY DEF NewAct, Asked
<1>3. gen < MaxGen /\ gen \in 0..MaxGen
  BY DEF doActivateClaim, TypeOK, ActTypes
<1>4. gen + 1 \in Gen
  BY <1>3, StartdAssumption DEF Gen
<1>5. acts \in [Gen -> Acts] /\ activations \in [Name -> Gen \cup {0}] /\ n \in Name
  BY Found DEF TypeOK, ActTypes
<1> HIDE DEF b
<1>6. acts'[gen + 1] = b /\ \A g \in Gen \ {gen + 1} : acts'[g] = acts[g]
  BY <1>1, <1>4, <1>5 DEF b
<1>7. ASSUME NEW m \in Name, activations'[m] # 0
      PROVE  Asked(acts'[activations'[m]])
  <2>1. CASE activations'[m] = gen + 1
    BY <1>2, <1>6, <2>1
  <2>2. CASE activations'[m] # gen + 1
    <3>1. activations'[m] = activations[m] /\ activations[m] \in Gen \ {gen + 1}
      BY <1>1, <1>5, <1>7, <2>2
    <3>2. Asked(acts[activations[m]])
      BY <1>7, <3>1 DEF VacateInv
    <3>3. QED
      BY <1>6, <3>1, <3>2
  <2>3. QED
    BY <2>1, <2>2
<1>8. QED
  BY <1>7 DEF VacateInv, Asked

\* Everything else that an activation, its starter or a handler does.
LEMMA VacateActivating ==
  ASSUME TypeOK, NoWedge, VacateInv, Activating
  PROVE  VacateInv'
<1>1. ASSUME NEW g \in Gen, starterExits(g) \/ starterAbandoned(g) \/ starterKilled(g)
      PROVE  VacateInv'
  BY <1>1, VacateUntouched DEF starterExits, starterAbandoned, starterKilled
<1>2. ASSUME NEW h \in Deact,
             \/ deactivateReplyFails(h)
             \/ \E id \in Id, command \in {"graceful", "forcibly", "job_done"} :
                  doDeactivate(h, id, command)
      PROVE  VacateInv'
  <2>1. UNCHANGED actVars
    BY <1>2, Zenon DEF deactivateReplyFails, doDeactivate
  <2>2. QED
    BY <2>1, VacateUntouched DEF actVars
<1>3. QED
  BY <1>1, <1>2, VacateActivated, VacateGoroutine, VacateTake, VacateEscalated, VacateAsked
  DEF Activating

\* Stop cancels supervisors and touches nothing else of an activation; the end of
\* the process forgets them, and a restart builds them anew.
LEMMA VacateRestarting ==
  ASSUME TypeOK, VacateInv, Restarting
  PROVE  VacateInv'
<1>1. CASE Stop
  <2>1. /\ activations' = activations
        /\ acts' = [g \in Gen |-> [acts[g] EXCEPT !.cancelled = acts[g].sup # "none"]]
    BY <1>1 DEF Stop
  <2>2. ASSUME NEW g \in Gen
        PROVE  /\ acts'[g].vacateCh = acts[g].vacateCh /\ acts'[g].esc = acts[g].esc
               /\ acts'[g].vacating = acts[g].vacating
    <3>1. acts[g] \in Acts
      BY DEF TypeOK, ActTypes
    <3>2. acts'[g] = [acts[g] EXCEPT !.cancelled = acts[g].sup # "none"]
      BY <2>1, Zenon
    <3>3. QED
      BY <3>1, <3>2 DEF Acts
  <2>3. Keeps(acts')
    BY <2>2, Zenon DEF Keeps, Asked
  <2>4. QED
    BY <2>1, <2>3, VacateStays
<1>2. CASE loopReturns
  BY <1>2, VacateUntouched DEF loopReturns, actVars
<1>3. CASE cleanExit \/ crash
  <2>1. activations' = [n \in Name |-> 0]
    BY <1>3 DEF cleanExit, crash, processEnds
  <2>2. QED
    BY <2>1 DEF VacateInv
<1>4. ASSUME NEW minted \in PrimeOutcomes, NEW lost \in ImportFailures, restart(minted, lost)
      PROVE  VacateInv'
  <2>1. TypeOK'
    BY <1>4, RestartIsRestart
  <2>2. ASSUME NEW g \in Gen
        PROVE  acts'[g] = NoAct \/ \E n, addr : acts'[g] = NewAct(n, TRUE, addr)
    BY <1>4, Zenon DEF restart
  <2>3. \A g \in Gen : Asked(acts'[g])
    <3>1. Asked(NoAct) /\ \A n, addr : Asked(NewAct(n, TRUE, addr))
      BY DEF NoAct, NewAct, Asked
    <3>2. QED
      BY <2>2, <3>1, Zenon
  <2>4. \A n \in Name : activations'[n] # 0 => activations'[n] \in Gen
    BY <2>1 DEF TypeOK, ActTypes
  <2>5. QED
    BY <2>3, <2>4 DEF VacateInv, Asked
<1>5. QED
  BY <1>1, <1>2, <1>3, <1>4 DEF Restarting

\* No activation is told to vacate unless a DEACTIVATE_CLAIM was carried out on it
\* (doVacateEscalate's gen guard), with any number of activations, timers and
\* restarts.
THEOREM NeverVacatedUnasked == Spec => []VacateOnlyAsked
<1>1. Init => VacateInv
  BY DEF Init, VacateInv
<1>2. TypeOK /\ NoWedge /\ VacateInv /\ [Next]_vars => VacateInv'
  <2> SUFFICES ASSUME TypeOK, NoWedge, VacateInv, [Next]_vars
               PROVE  VacateInv'
    OBVIOUS
  <2>1. CASE Persisting
    BY <2>1, VacateUntouched, Zenon DEF Persisting, persisterFlushes, persisterCommits, actVars
  <2>2. CASE UNCHANGED vars
    BY <2>2, VacateUntouched DEF vars, actVars
  <2>3. QED
    BY <2>1, <2>2, VacateClaiming, VacateActivating, VacateRestarting DEF Next
<1>3. VacateInv => VacateOnlyAsked
  BY Zenon DEF VacateInv, Asked, VacateOnlyAsked
<1>4. QED
  BY <1>1, <1>2, <1>3, TypeCorrect, NeverWedged, PTL DEF Spec

-----------------------------------------------------------------------------
(* What PersistedCurrent rests on: slots and records. *)

\* An activation in the map is that of a Busy claim.  Without this an exit could
\* take the activation away and leave the record as it was (doStarterExited and
\* doAdoptFailed persist only when they idle a Busy claim).
HeldBusy(n) ==
  activations[n] # 0 =>
    /\ slots[n].live /\ slots[n].state = "Claimed"
    /\ slots[n].activity = "Busy" /\ slots[n].claim.state = "ClaimedBusy"

\* The sub-ids that dynamic slots will get are free.
Free(n) == n[2] > dslotSeq => ~slots[n].live

Grounded(n) == HeldBusy(n) /\ Free(n)

\* A record of slot n that re-adoption turns back into what it was taken from: a
\* configured slot's resources are not recorded, and a starter is recorded only
\* for a Busy claim, and its address only with it.
Sound(n, r) ==
  /\ ~IsDynamic(n) => r.res = NoResources
  /\ r.starter # 0 => r.activity = "Busy" /\ StarterMode = "process"
  /\ r.starter = 0 => r.addr = 0

SoundRecords == \A n \in Name : \A r \in RecordsAt(n) : Sound(n, r)

GroundInv == (\A n \in Name : Grounded(n)) /\ SoundRecords

\* Records stay sound.
LEMMA SoundStays ==
  ASSUME \A n \in Name : Grounded(n)', SoundRecords, DiskStep
  PROVE  GroundInv'
<1> SUFFICES ASSUME NEW n \in Name, NEW r \in RecordsAt(n)'
             PROVE  Sound(n, r)
  BY DEF GroundInv, SoundRecords, Sound
<1>1. CASE r \in RecordsAt(n)
  BY <1>1 DEF SoundRecords
<1>2. CASE r = NoRecord
  BY <1>2 DEF Sound, NoRecord
<1>3. CASE r = RecordOf(n)'
  <2>1. activations'[n] # 0 => slots'[n].activity = "Busy"
    BY DEF Grounded, HeldBusy
  <2>2. QED
    BY <1>3, <2>1 DEF Sound, RecordOf
<1>4. QED
  BY <1>1, <1>2, <1>3 DEF DiskStep

\* It holds at first.
LEMMA InitGround == Init => GroundInv
<1> SUFFICES ASSUME Init
             PROVE  GroundInv
  OBVIOUS
<1>1. ASSUME NEW n \in Name
      PROVE  Grounded(n)
  <2>1. activations[n] = 0
    BY DEF Init
  <2>2. Free(n)
    BY InitAgrees DEF ClaimsAgree, Free
  <2>3. QED
    BY <2>1, <2>2 DEF Grounded, HeldBusy
<1>2. ASSUME NEW n \in Name, NEW r \in RecordsAt(n)
      PROVE  Sound(n, r)
  BY DEF Init, P!Empty, RecordsAt, Sound, NoRecord
<1>3. QED
  BY <1>1, <1>2 DEF GroundInv, SoundRecords

\* A slot that keeps its control state and its activation.
LEMMA GroundKept ==
  ASSUME NEW n \in Name, Grounded(n), activations'[n] = activations[n], dslotSeq' = dslotSeq,
         \/ slots'[n] = slots[n]
         \/ SameState(slots'[n], slots[n]) \/ SameClaim(slots'[n], slots[n])
  PROVE  Grounded(n)'
BY DEF Grounded, HeldBusy, Free, SameState, SameClaim

\* A slot that is left without an activation.
LEMMA GroundIdle ==
  ASSUME NEW n \in Name, Grounded(n), activations'[n] = 0, dslotSeq' = dslotSeq,
         slots'[n].live => slots[n].live
  PROVE  Grounded(n)'
BY DEF Grounded, HeldBusy, Free

\* The activation of slot n ends, and no other slot changes its control state.
LEMMA GroundEnds ==
  ASSUME TypeOK, GroundInv, NEW n \in Name, activations' = [activations EXCEPT ![n] = 0],
         dslotSeq' = dslotSeq, DiskStep, slots'[n].live => slots[n].live,
         \A m \in Name \ {n} : \/ SameState(slots'[m], slots[m])
                               \/ SameClaim(slots'[m], slots[m])
  PROVE  GroundInv'
<1>1. SoundRecords /\ \A m \in Name : Grounded(m)
  BY DEF GroundInv
<1>2. activations'[n] = 0 /\ \A m \in Name \ {n} : activations'[m] = activations[m]
  BY DEF TypeOK, ActTypes
<1>3. \A m \in Name : Grounded(m)'
  BY <1>1, <1>2, GroundKept, GroundIdle, Zenon
<1>4. QED
  BY <1>1, <1>3, SoundStays

\* A slot that is not Claimed changes, and no other changes its control state.
LEMMA GroundUnclaimed ==
  ASSUME TypeOK, GroundInv, NEW n \in Name, slots[n].state # "Claimed",
         activations' = activations, dslotSeq' = dslotSeq, DiskStep,
         slots'[n].live => slots[n].live,
         \A m \in Name \ {n} : slots'[m] = slots[m] \/ SameClaim(slots'[m], slots[m])
  PROVE  GroundInv'
<1>1. SoundRecords /\ \A m \in Name : Grounded(m)
  BY DEF GroundInv
<1>2. activations[n] = 0
  BY <1>1 DEF Grounded, HeldBusy
<1>3. \A m \in Name : Grounded(m)'
  BY <1>1, <1>2, GroundKept, GroundIdle, Zenon
<1>4. QED
  BY <1>1, <1>3, SoundStays

\* A slot is claimed: it had no activation.
LEMMA GroundAccepted ==
  ASSUME TypeOK, TypeOK', GroundInv, NEW n \in Name, NEW id \in Id, AcceptedStep(n, id)
  PROVE  GroundInv'
<1>1. SoundRecords /\ \A m \in Name : HeldBusy(m) /\ Free(m)
  BY DEF GroundInv, Grounded
<1>2. /\ DiskStep /\ activations' = activations
      /\ \A m \in Name \ {n} : SameClaim(slots'[m], slots[m])
  BY DEF AcceptedStep, Unmoved
<1>3. \A m \in Name : m[2] \in Nat /\ dslotSeq \in Nat /\ dslotSeq' \in Nat
  BY SubIds DEF TypeOK, ClaimTypes
<1>4. /\ \/ slots[n].live /\ slots[n].claim.state = "Unclaimed" /\ dslotSeq' = dslotSeq
         \/ n[2] = dslotSeq + 1 /\ dslotSeq' = dslotSeq + 1
      /\ slots'[n].live
  BY DEF AcceptedStep
<1>5. activations[n] = 0 /\ ~(n[2] > dslotSeq')
  BY <1>1, <1>3, <1>4 DEF HeldBusy, Free
<1>6. Grounded(n)'
  BY <1>2, <1>5 DEF Grounded, HeldBusy, Free
<1>7. ASSUME NEW m \in Name \ {n}
      PROVE  Grounded(m)'
  <2>1. HeldBusy(m)'
    BY <1>1, <1>2 DEF HeldBusy, SameClaim
  <2>2. m[2] > dslotSeq' => m[2] > dslotSeq
    BY <1>3, <1>4
  <2>3. QED
    BY <1>1, <1>2, <2>1, <2>2 DEF Grounded, Free, SameClaim
<1>8. QED
  BY <1>1, <1>2, <1>6, <1>7, SoundStays

\* A claim is activated.
LEMMA GroundActivated ==
  ASSUME TypeOK, GroundInv, NEW n \in Name, ActivatedStep(n)
  PROVE  GroundInv'
<1>1. SoundRecords /\ \A m \in Name : Grounded(m)
  BY DEF GroundInv
<1>2. /\ DiskStep /\ activations' = [activations EXCEPT ![n] = gen + 1]
      /\ \A m \in Name \ {n} : slots'[m] = slots[m]
      /\ slots[n].live /\ slots'[n].live /\ slots'[n].state = "Claimed"
      /\ slots'[n].activity = "Busy" /\ slots'[n].claim.state = "ClaimedBusy"
      /\ dslotSeq' = dslotSeq
  BY Zenon DEF ActivatedStep
<1>3. Grounded(n)'
  BY <1>1, <1>2 DEF Grounded, HeldBusy, Free
<1>4. \A m \in Name \ {n} : activations'[m] = activations[m]
  BY <1>2 DEF TypeOK, ActTypes
<1>5. \A m \in Name : Grounded(m)'
  BY <1>1, <1>2, <1>3, <1>4, GroundKept, Zenon
<1>6. QED
  BY <1>1, <1>2, <1>5, SoundStays

\* The startd is rebuilt.
LEMMA GroundRestarts ==
  ASSUME TypeOK, TypeOK', GroundInv, NEW adopted \in SUBSET ClaimedOnRecord,
         RestartStep(adopted)
  PROVE  GroundInv'
<1>1. ASSUME NEW n \in Name
      PROVE  Grounded(n)'
  <2>1. AdoptedSlot(slots'[n], n, ClaimedOnRecord, adopted)
    BY DEF RestartStep
  <2>2. activations'[n] = IF n \in adopted /\ store[n].activity = "Busy"
                          THEN store[n].starter ELSE 0
    BY DEF RestartStep
  <2>3. HeldBusy(n)'
    BY <2>1, <2>2 DEF AdoptedSlot, HeldBusy
  <2>4. \A d \in ClaimedOnRecord : d[2] <= dslotSeq'
    BY DEF RestartStep
  <2>5. dslotSeq' \in Nat /\ n[2] \in Nat /\ (n \in ConfigSlots => n[2] = 0)
    BY SubIds DEF TypeOK, ClaimTypes
  <2>6. n \in ConfigSlots \cup ClaimedOnRecord => ~(n[2] > dslotSeq')
    BY <2>4, <2>5
  <2>7. QED
    BY <2>1, <2>3, <2>6 DEF AdoptedSlot, Grounded, Free
<1>2. DiskStep
  BY DEF RestartStep, DiskStep
<1>3. QED
  BY <1>1, <1>2, SoundStays DEF GroundInv

\* Every effect keeps it.
LEMMA GroundNext ==
  ASSUME TypeOK, TypeOK', GroundInv, Effect
  PROVE  GroundInv'
<1>1. ASSUME activations' = activations, dslotSeq' = dslotSeq, DiskStep,
             \/ slots' = slots
             \/ \A n \in Name : slots'[n] = slots[n] \/ SameState(slots'[n], slots[n])
      PROVE  GroundInv'
  BY <1>1, GroundKept, SoundStays DEF GroundInv
<1>2. CASE Quiet \/ RejectedStep \/ GivesUpStep \/ StopStep \/ \E n \in Name : DroppedStep(n)
  BY <1>1, <1>2 DEF Quiet, RejectedStep, GivesUpStep, StopStep, DroppedStep, Unmoved
<1>3. ASSUME NEW n \in Name, NEW loops, ReleasedStep(n, loops)
      PROVE  GroundInv'
  BY <1>3, GroundEnds, Zenon DEF ReleasedStep, GivenUp
<1>4. ASSUME NEW n \in Name, EndedStep(n)
      PROVE  GroundInv'
  <2>1. slots'[n].live = slots[n].live
    BY <1>4, Zenon DEF EndedStep, SameState
  <2>2. QED
    BY <1>4, <2>1, GroundEnds, Zenon DEF EndedStep
<1>5. ASSUME NEW l \in alives, LeaseLostStep(l)
      PROVE  GroundInv'
  <2>1. l.slot \in Name
    BY DEF TypeOK, TimerTypes, AliveLoops
  <2>2. QED
    BY <1>1, <1>3, <1>5, <2>1 DEF LeaseLostStep, Unmoved
<1>6. ASSUME NEW n \in Name, MatchedStep(n)
      PROVE  GroundInv'
  BY <1>6, GroundUnclaimed DEF MatchedStep, Unmoved
<1>7. ASSUME NEW n \in Name, TimeoutStep(n)
      PROVE  GroundInv'
  BY <1>1, <1>7, GroundUnclaimed DEF TimeoutStep, Unmoved, GivenUp
<1>8. CASE DownStep
  <2>1. \A n \in Name : activations'[n] = 0 /\ ~slots'[n].live
    BY <1>8, NoSlotAgrees DEF DownStep
  <2>2. (\A n \in Name : Grounded(n)') /\ DiskStep
    BY <1>8, <2>1 DEF Grounded, HeldBusy, Free, DownStep, DiskStep
  <2>3. QED
    BY <2>2, SoundStays DEF GroundInv
<1>9. CASE UNCHANGED <<claimVars, timerVars, actVars, deactVars, diskVars>>
  BY <1>1, <1>9, Frames DEF claimVars, actVars
<1>10. QED
  BY <1>2, <1>3, <1>4, <1>5, <1>6, <1>7, <1>8, <1>9, GroundAccepted, GroundActivated,
     GroundRestarts DEF Effect

-----------------------------------------------------------------------------
(* The newest record of a slot. *)

\* Slot n keeps its activation, and the activation its starter's address.
KeepsAct(n) ==
  /\ activations'[n] = activations[n]
  /\ activations[n] # 0 => acts'[activations[n]].addr = acts[activations[n]].addr

\* Nothing changes of what persistSlot would write of slot n.
SameRecord(n) ==
  /\ slots'[n].claim.id = slots[n].claim.id /\ slots'[n].state = slots[n].state
  /\ slots'[n].activity = slots[n].activity
  /\ IsDynamic(n) => slots'[n].res = slots[n].res
  /\ KeepsAct(n)

\* If slot n is Claimed after the step, its record has been queued or was right
\* already.
Settled(n) ==
  slots'[n].state = "Claimed" =>
    /\ slots'[n].claim.id # 0
    /\ HasStore => \/ pending'[n] = RecordOf(n)'
                   \/ /\ slots[n].state = "Claimed" /\ RecordOf(n)' = RecordOf(n)
                      /\ Latest(n)' = Latest(n)

\* persistSlot skips a slot without a claim id, so a Claimed slot must have one;
\* and a startd that is down has nothing queued that could overtake its store.
RecordInv ==
  /\ \A n \in Name : slots[n].state = "Claimed" => slots[n].claim.id # 0
  /\ phase = "down" => \A n \in Name : pending[n] = NoRecord /\ batch[n] = NoRecord
  /\ PersistedCurrent

\* A step of a process that is and stays there.
Recorded == phase # "down" /\ phase' # "down" /\ \A n \in Name : Settled(n)

\* Such a step keeps the invariant.
LEMMA RecordedKeeps ==
  ASSUME RecordInv, Recorded
  PROVE  RecordInv'
<1>1. ASSUME NEW n \in Name, slots'[n].state = "Claimed"
      PROVE  slots'[n].claim.id # 0 /\ (HasStore => Latest(n)' = RecordOf(n)')
  <2>1. Settled(n) /\ slots'[n].claim.id # 0
    BY <1>1 DEF Recorded, Settled
  <2>2. CASE pending'[n] = RecordOf(n)'
    <3>1. RecordOf(n)'.state = "Claimed" /\ NoRecord.state = "Unclaimed"
      BY <1>1 DEF RecordOf, NoRecord
    <3>2. pending'[n] # NoRecord
      BY <2>2, <3>1
    <3>3. QED
      BY <2>1, <2>2, <3>2 DEF Latest
  <2>3. CASE /\ slots[n].state = "Claimed" /\ RecordOf(n)' = RecordOf(n)
             /\ Latest(n)' = Latest(n)
    BY <2>1, <2>3 DEF RecordInv, PersistedCurrent, Recorded
  <2>4. QED
    BY <1>1, <2>1, <2>2, <2>3 DEF Settled
<1>2. QED
  BY <1>1 DEF RecordInv, PersistedCurrent, Recorded

\* The record of a slot that keeps what it is about.
LEMMA RecordKept ==
  ASSUME NEW n \in Name, SameRecord(n)
  PROVE  RecordOf(n)' = RecordOf(n)
BY DEF SameRecord, KeepsAct, RecordOf

\* persistSlot is called for the slots of S: the others must keep their records.
LEMMA Queued ==
  ASSUME RecordInv, NEW S \in SUBSET Name, persistSlots(S), batch' = batch,
         \A n \in S : slots'[n].state = "Claimed" => slots'[n].claim.id # 0,
         \A n \in Name \ S : slots'[n].state = "Claimed" => SameRecord(n) /\ store'[n] = store[n]
  PROVE  \A n \in Name : Settled(n)
<1> DEFINE T == {m \in S : HasStore /\ slots'[m].claim.id # 0}
<1>1. pending' = [k \in Name |-> IF k \in T THEN RecordOf(k)' ELSE pending[k]]
  BY DEF persistSlots, P!put
<1>2. ASSUME NEW n \in S
      PROVE  Settled(n)
  BY <1>1, <1>2 DEF Settled
<1>3. ASSUME NEW n \in Name \ S, slots'[n].state = "Claimed"
      PROVE  Settled(n)
  <2>1. SameRecord(n) /\ store'[n] = store[n] /\ pending'[n] = pending[n]
    BY <1>1, <1>3
  <2>2. RecordOf(n)' = RecordOf(n)
    BY <2>1, RecordKept
  <2>3. slots[n].state = "Claimed" /\ slots'[n].claim.id = slots[n].claim.id
    BY <1>3, <2>1 DEF SameRecord
  <2>4. QED
    BY <2>1, <2>2, <2>3 DEF Settled, RecordInv, Latest
<1>4. QED
  BY <1>2, <1>3 DEF Settled

\* The disk is left alone: every slot must keep its record.
LEMMA NothingQueued ==
  ASSUME RecordInv, UNCHANGED diskVars,
         \A n \in Name : slots'[n].state = "Claimed" => SameRecord(n)
  PROVE  \A n \in Name : Settled(n)
<1> SUFFICES ASSUME NEW n \in Name, slots'[n].state = "Claimed"
             PROVE  Settled(n)
  BY DEF Settled
<1>1. SameRecord(n) /\ RecordOf(n)' = RecordOf(n)
  BY RecordKept
<1>2. slots[n].state = "Claimed" /\ slots'[n].claim.id = slots[n].claim.id
  BY <1>1 DEF SameRecord
<1>3. QED
  BY <1>1, <1>2 DEF Settled, RecordInv, Latest, diskVars

\* A handler writes slot n only, and ends in persistSlot.
LEMMA SlotQueued ==
  ASSUME RecordInv, NEW n \in Name, persistSlots({n}), batch' = batch, store' = store,
         slots'[n].state = "Claimed" => slots'[n].claim.id # 0,
         \A m \in Name \ {n} : slots'[m] = slots[m] /\ KeepsAct(m)
  PROVE  \A m \in Name : Settled(m)
<1>1. \A m \in Name \ {n} : SameRecord(m)
  BY DEF SameRecord
<1>2. QED
  BY <1>1, Queued

\* No slot and no address changes.
LEMMA SlotsKept ==
  ASSUME RecordInv, UNCHANGED diskVars, \A m \in Name : slots'[m] = slots[m] /\ KeepsAct(m)
  PROVE  \A m \in Name : Settled(m)
BY NothingQueued DEF SameRecord

\* Nothing of it changes at all.
LEMMA RecordUntouched ==
  ASSUME RecordInv, UNCHANGED <<slots, activations, acts, diskVars, phase>>
  PROVE  RecordInv'
BY DEF RecordInv, PersistedCurrent, Latest, RecordOf, diskVars

-----------------------------------------------------------------------------
(* Claiming. *)

\* The activations and their addresses are left alone.
LEMMA ActsKept ==
  ASSUME UNCHANGED actVars
  PROVE  \A m \in Name : KeepsAct(m)
BY DEF actVars, KeepsAct

\* refreshPSlotChildren writes the partitionable slot only.
LEMMA RefreshWritesParent ==
  ASSUME NEW ss, SlotMap(ss), NEW p \in Name, NEW m \in Name \ {p}
  PROVE  refreshPSlotChildren(ss, p)[m] = ss[m]
BY DEF refreshPSlotChildren, SlotMap

\* MATCH_INFO.
LEMMA MatchInfoRecorded ==
  ASSUME TypeOK, RecordInv, NEW id \in Id, doMatchInfo(id)
  PROVE  Recorded
<1>1. PICK n \in findSlotByClaimID(id) :
        /\ slots' = [slots EXCEPT ![n] = SetStateActivity(@, "Matched", "Idle")]
        /\ UNCHANGED <<actVars, batch, store, lifeVars>>
        /\ persistSlots({n})
  BY Zenon DEF doMatchInfo
<1>2. n \in Name /\ SlotMap(slots) /\ IsSlot(slots[n])
  BY Found
<1> DEFINE t == SetStateActivity(slots[n], "Matched", "Idle")
<1>3. t.state = "Matched"
  BY <1>2, SetStateActivitySets, Zenon DEF SlotStates
<1>4. slots' = [slots EXCEPT ![n] = t]
  BY <1>1
<1> HIDE DEF t
<1>5. slots'[n] = t /\ \A m \in Name \ {n} : slots'[m] = slots[m]
  BY <1>2, <1>4 DEF SlotMap
<1>6. \A m \in Name : Settled(m)
  BY <1>1, <1>2, <1>3, <1>5, ActsKept, SlotQueued, Zenon
<1>7. QED
  BY <1>1, <1>6, Zenon DEF Recorded, doMatchInfo, Running, lifeVars

\* A match timer's event.
LEMMA MatchTimeoutRecorded ==
  ASSUME TypeOK, RecordInv, NEW t \in timers, doMatchTimeout(t)
  PROVE  Recorded
<1> DEFINE n == t.slot
           due == timeoutDue(t)
<1>1. /\ UNCHANGED <<actVars, batch, store, lifeVars>>
      /\ persistSlots(IF due THEN {n} ELSE {})
      /\ \/ ~due /\ slots' = slots
         \/ /\ due /\ seq < MaxId
            /\ \E minted \in MintOutcomes :
                  slots' = [slots EXCEPT ![n] = unclaimSlot(@, minted)]
  BY DEF doMatchTimeout
<1>2. n \in Name /\ SlotMap(slots) /\ IsSlot(slots[n]) /\ ClaimTypes
  BY DEF TypeOK, TimerTypes, Timers, ClaimTypes, SlotMap
<1>3. \A m \in Name : Settled(m)
  <2>1. CASE ~due
    <3>1. persistSlots({}) /\ slots' = slots
      BY <1>1, <2>1
    <3>2. \A m \in Name : SameRecord(m)
      BY <1>1, <3>1, ActsKept DEF SameRecord
    <3>3. QED
      BY <1>1, <3>1, <3>2, Queued
  <2>2. CASE due
    <3>1. PICK minted \in MintOutcomes : slots' = [slots EXCEPT ![n] = unclaimSlot(@, minted)]
      BY <1>1, <2>2
    <3>2. minted \in BOOLEAN /\ seq < MaxId /\ persistSlots({n})
      BY <1>1, <2>2, Zenon DEF MintOutcomes
    <3> DEFINE u == unclaimSlot(slots[n], minted)
    <3>3. u.state = "Unclaimed"
      BY <1>2, <3>2, UnclaimedSlot
    <3>4. slots' = [slots EXCEPT ![n] = u]
      BY <3>1
    <3> HIDE DEF u
    <3>5. slots'[n] = u /\ \A m \in Name \ {n} : slots'[m] = slots[m]
      BY <1>2, <3>4 DEF SlotMap
    <3>6. QED
      BY <1>1, <1>2, <3>2, <3>3, <3>5, ActsKept, SlotQueued, Zenon
  <2>3. QED
    BY <2>1, <2>2
<1>4. QED
  BY <1>1, <1>3 DEF Recorded, doMatchTimeout, Running, lifeVars

\* A carved slot is queued, and so is the slot it is carved from.
LEMMA CarveRecorded ==
  ASSUME TypeOK, RecordInv, NEW ad \in JobAds, NEW p \in Name, IsPartitionable(p),
         seq < MaxId, doRequestClaimPSlot(p, ad), UNCHANGED <<actVars, batch, store>>
  PROVE  \A m \in Name : Settled(m)
<1> DEFINE req == requestedResources(ad)
           d == <<p[1], dslotSeq + 1>>
           new == [NewSlot(req) EXCEPT !.claim = Minted(seq + 1)]
           t == AcceptClaim(new)
           q == [slots[p] EXCEPT !.res = Carve(slots[p].res, req)]
           cut == [[slots EXCEPT ![d] = t] EXCEPT ![p] = q]
<1>1. persistSlots({d, p}) /\ dslotSeq < MaxDSlots
  BY DEF doRequestClaimPSlot
<1>2. d \in Name /\ d # p /\ seq + 1 \in Id
  <2>1. Partitionable /\ ~IsDynamic(p) /\ dslotSeq \in 0..MaxDSlots /\ seq \in 0..MaxId
    BY DEF IsPartitionable, TypeOK, ClaimTypes
  <2>2. p = <<1, 0>>
    BY <2>1 DEF Name, ConfigSlots, DSlots, IsDynamic
  <2>3. dslotSeq + 1 \in 1..MaxDSlots /\ seq + 1 \in Id
    BY <1>1, <2>1, StartdAssumption DEF Id
  <2>4. QED
    BY <2>1, <2>2, <2>3 DEF Name, DSlots
<1>3. SlotMap(slots) /\ IsSlot(slots[p])
  BY DEF TypeOK, ClaimTypes, SlotMap
<1>4. IsSlot(new) /\ new.claim.id = seq + 1
  <2>1. Minted(seq + 1) \in Claims(Id, Gen)
    BY <1>2, ClaimsBuilt
  <2>2. IsSlot(new) /\ new.claim = Minted(seq + 1)
    BY <2>1, SlotsBuilt, Zenon
  <2>3. QED
    BY <2>2 DEF Minted
<1> HIDE DEF new, req, d
<1>5. IsSlot(t) /\ t.claim.id = seq + 1
  BY <1>4, AcceptedSlot, Zenon
<1> HIDE DEF t
<1>6. IsSlot(q) /\ SameClaim(q, slots[p])
  BY <1>3, DivisionKeeps, Zenon
<1> HIDE DEF q
<1>7. SlotMap(cut) /\ cut[d] = t /\ cut[p] = q /\ \A m \in Name \ {d, p} : cut[m] = slots[m]
  BY <1>2, <1>3, <1>5, <1>6, Zenon DEF SlotMap
<1>8. slots' = refreshPSlotChildren(cut, p)
  <2>1. [slots EXCEPT ![d] = t, ![p].res = Carve(@, req)] = cut
    BY <1>2, <1>3, Zenon DEF SlotMap, q
  <2>2. QED
    BY <2>1 DEF doRequestClaimPSlot, t, new, req, d
<1> HIDE DEF cut
<1>9. /\ SameClaim(slots'[p], slots[p]) /\ slots'[d] = t
      /\ \A m \in Name \ {d, p} : slots'[m] = slots[m]
  <2>1. SameClaim(slots'[p], cut[p])
    BY <1>7, <1>8, RefreshKeeps
  <2>2. \A m \in Name \ {p} : slots'[m] = cut[m]
    BY <1>7, <1>8, RefreshWritesParent
  <2>3. QED
    BY <1>2, <1>6, <1>7, <2>1, <2>2 DEF SameClaim
<1>10. slots'[d].claim.id # 0 /\ (slots'[p].state = "Claimed" => slots'[p].claim.id # 0)
  BY <1>2, <1>5, <1>9 DEF SameClaim, RecordInv, Id
<1>11. \A m \in Name \ {d, p} : SameRecord(m)
  BY <1>9, ActsKept DEF SameRecord
<1>12. QED
  BY <1>1, <1>2, <1>10, <1>11, Queued

\* REQUEST_CLAIM.
LEMMA RequestRecorded ==
  ASSUME TypeOK, RecordInv, NEW id \in Id, NEW ad \in JobAds, doRequestClaim(id, ad)
  PROVE  Recorded
<1>1. PICK n \in findSlotByClaimID(id) :
        /\ UNCHANGED <<actVars, batch, store, lifeVars>>
        /\ \/ slots' = [slots EXCEPT ![n] = AcceptClaim(@)] /\ persistSlots({n})
           \/ IsPartitionable(n) /\ seq < MaxId /\ doRequestClaimPSlot(n, ad)
           \/ slots' = slots /\ pending' = pending
  BY Zenon DEF doRequestClaim, claimVars
<1>2. n \in Name /\ SlotMap(slots) /\ IsSlot(slots[n]) /\ slots[n].claim.id = id
  BY Found
<1> SUFFICES \A m \in Name : Settled(m)
  <2>1. Running
    BY Zenon DEF doRequestClaim
  <2>2. phase' = phase
    BY <1>1 DEF lifeVars
  <2>3. QED
    BY <2>1, <2>2 DEF Recorded, Running
<1>3. \A m \in Name : KeepsAct(m)
  BY <1>1, ActsKept
<1>4. CASE slots' = [slots EXCEPT ![n] = AcceptClaim(@)] /\ persistSlots({n})
  <2> DEFINE t == AcceptClaim(slots[n])
  <2>1. t.claim.id = id
    BY <1>2, AcceptedSlot, Zenon
  <2>2. slots' = [slots EXCEPT ![n] = t]
    BY <1>4
  <2> HIDE DEF t
  <2>3. slots'[n] = t /\ \A m \in Name \ {n} : slots'[m] = slots[m]
    BY <1>2, <2>2 DEF SlotMap
  <2>4. slots'[n].claim.id # 0
    BY <2>1, <2>3 DEF Id
  <2>5. QED
    BY <1>1, <1>2, <1>3, <1>4, <2>3, <2>4, SlotQueued, Zenon
<1>5. CASE IsPartitionable(n) /\ seq < MaxId /\ doRequestClaimPSlot(n, ad)
  BY <1>1, <1>2, <1>5, CarveRecorded
<1>6. CASE slots' = slots /\ pending' = pending
  BY <1>1, <1>3, <1>6, SlotsKept DEF diskVars
<1>7. QED
  BY <1>1, <1>4, <1>5, <1>6

-----------------------------------------------------------------------------
(* The end of a claim and of an activation. *)

\* heap is acts with no address changed.
SameAddrs(heap) == \A g \in Gen : heap[g].addr = acts[g].addr

\* The activation of slot n ends: no other slot has it (NoWedge).
LEMMA OthersKeepAct ==
  ASSUME TypeOK, NoWedge, NEW n \in Name, NEW heap \in [Gen -> Acts], SameAddrs(heap), NEW b,
         activations' = [activations EXCEPT ![n] = 0],
         acts' = IF activations[n] = 0 THEN heap ELSE [heap EXCEPT ![activations[n]] = b]
  PROVE  \A m \in Name \ {n} : KeepsAct(m)
<1> SUFFICES ASSUME NEW m \in Name \ {n}
             PROVE  KeepsAct(m)
  OBVIOUS
<1>1. activations \in [Name -> Gen \cup {0}] /\ activations'[m] = activations[m]
  BY DEF TypeOK, ActTypes
<1>2. ASSUME activations[m] # 0
      PROVE  acts'[activations[m]].addr = acts[activations[m]].addr
  <2>1. activations[m] \in Gen /\ activations[m] # activations[n]
    BY <1>1, <1>2 DEF NoWedge
  <2>2. acts'[activations[m]] = heap[activations[m]]
    BY <2>1
  <2>3. QED
    BY <2>1, <2>2 DEF SameAddrs
<1>3. QED
  BY <1>1, <1>2 DEF KeepsAct

\* The addresses are kept and the map is left alone.
LEMMA AddrsKept ==
  ASSUME TypeOK, activations' = activations, SameAddrs(acts')
  PROVE  \A m \in Name : KeepsAct(m)
<1>1. activations \in [Name -> Gen \cup {0}]
  BY DEF TypeOK, ActTypes
<1>2. QED
  BY <1>1 DEF SameAddrs, KeepsAct

\* One activation is written, and not its address.
LEMMA AddrWritten ==
  ASSUME TypeOK, NEW g \in Gen, NEW b \in Acts, b.addr = acts[g].addr
  PROVE  [acts EXCEPT ![g] = b] \in [Gen -> Acts] /\ SameAddrs([acts EXCEPT ![g] = b])
<1>1. acts \in [Gen -> Acts]
  BY DEF TypeOK, ActTypes
<1>2. QED
  BY <1>1 DEF SameAddrs

\* destroyDSlot deletes the record of a slot that is gone, and queues its parent's.
LEMMA DestroyRecorded ==
  ASSUME TypeOK, RecordInv, NEW n \in Name, IsDynamic(n), destroyDSlot(n),
         \A m \in Name \ {n} : KeepsAct(m)
  PROVE  \A m \in Name : Settled(m)
<1> DEFINE p == ParentName(n)
           q == [slots[p] EXCEPT !.res = Restore(slots[p].res, slots[n].res, FullRes(p))]
           one == [slots EXCEPT ![n] = NoSlot]
           cut == [one EXCEPT ![p] = q]
<1>1. p \in Name /\ p # n
  BY Parent
<1>2. SlotMap(slots) /\ IsSlot(slots[p])
  BY <1>1 DEF TypeOK, ClaimTypes, SlotMap
<1>3. IsSlot(NoSlot)
  BY ClaimsBuilt, SlotsBuilt, Zenon
<1>4. IsSlot(q) /\ SameClaim(q, slots[p])
  BY <1>2, DivisionKeeps, Zenon
<1>5. slots' = refreshPSlotChildren(cut, p)
  <2>1. [slots EXCEPT ![n] = NoSlot, ![p].res = Restore(@, slots[n].res, FullRes(p))] = cut
    BY <1>1, <1>2, Zenon DEF SlotMap
  <2>2. QED
    BY <2>1 DEF destroyDSlot
<1>6. persistSlots({p}) /\ batch' = batch /\ \A m \in Name \ {n} : store'[m] = store[m]
  <2>1. RecordMap(store)
    BY DEF TypeOK, DiskTypes
  <2>2. store' = store \/ store' = [store EXCEPT ![n] = NoRecord]
    BY DEF destroyDSlot, P!Delete
  <2>3. QED
    BY <2>1, <2>2 DEF destroyDSlot, RecordMap
<1> HIDE DEF q, p
<1>7. SlotMap(cut) /\ cut[n] = NoSlot /\ cut[p] = q /\ \A m \in Name \ {n, p} : cut[m] = slots[m]
  BY <1>1, <1>2, <1>3, <1>4, Zenon DEF SlotMap
<1> HIDE DEF cut
<1>8. SameClaim(slots'[p], slots[p])
  BY <1>1, <1>4, <1>5, <1>7, RefreshKeeps, SMTT(20) DEF SameClaim
<1>9. slots'[n] = NoSlot /\ \A m \in Name \ {n, p} : slots'[m] = slots[m]
  BY <1>1, <1>5, <1>7, RefreshWritesParent
<1>10. slots'[p].state = "Claimed" => slots'[p].claim.id # 0
  BY <1>1, <1>8, Zenon DEF SameClaim, RecordInv
<1>11. slots'[n].state # "Claimed"
  BY <1>9 DEF NoSlot, NewSlot
<1>12. \A m \in Name \ {p} : slots'[m].state = "Claimed" => SameRecord(m) /\ store'[m] = store[m]
  BY <1>6, <1>9, <1>11, Zenon DEF SameRecord
<1>13. QED
  BY <1>1, <1>6, <1>10, <1>12, Queued

\* releaseSlot.
LEMMA ReleaseRecorded ==
  ASSUME TypeOK, NoWedge, RecordInv, NEW n \in Name, NEW heap \in [Gen -> Acts],
         SameAddrs(heap), NEW loops, Running, releaseSlot(n, heap, loops)
  PROVE  Recorded
<1>1. /\ activations' = [activations EXCEPT ![n] = 0]
      /\ acts' = IF activations[n] = 0 THEN heap
                 ELSE [heap EXCEPT ![activations[n]] = kill(heap[activations[n]])]
      /\ phase' = phase
  BY DEF releaseSlot, killActivation, lifeVars
<1>2. \A m \in Name \ {n} : KeepsAct(m)
  BY <1>1, OthersKeepAct, Zenon
<1> SUFFICES \A m \in Name : Settled(m)
  BY <1>1 DEF Recorded, Running
<1>3. CASE IsDynamic(n) /\ destroyDSlot(n)
  BY <1>2, <1>3, DestroyRecorded
<1>4. CASE ~(IsDynamic(n) /\ destroyDSlot(n))
  <2>1. /\ seq < MaxId /\ persistSlots({n}) /\ batch' = batch /\ store' = store
        /\ \E minted \in MintOutcomes : slots' = [slots EXCEPT ![n] = unclaimSlot(@, minted)]
    BY <1>4, Zenon DEF releaseSlot
  <2>2. PICK minted \in MintOutcomes : slots' = [slots EXCEPT ![n] = unclaimSlot(@, minted)]
    BY <2>1, Zenon
  <2>3. minted \in BOOLEAN
    BY Zenon DEF MintOutcomes
  <2>4. SlotMap(slots) /\ IsSlot(slots[n]) /\ ClaimTypes
    BY DEF TypeOK, ClaimTypes, SlotMap
  <2> DEFINE u == unclaimSlot(slots[n], minted)
  <2>5. u.state = "Unclaimed"
    BY <2>1, <2>3, <2>4, UnclaimedSlot
  <2>6. slots' = [slots EXCEPT ![n] = u]
    BY <2>2
  <2> HIDE DEF u
  <2>7. slots'[n] = u /\ \A m \in Name \ {n} : slots'[m] = slots[m]
    BY <2>4, <2>6 DEF SlotMap
  <2>8. QED
    BY <1>2, <2>1, <2>5, <2>7, SlotQueued
<1>5. QED
  BY <1>3, <1>4

\* Claiming keeps the records current.
LEMMA RecordClaiming ==
  ASSUME TypeOK, NoWedge, RecordInv, Claiming
  PROVE  RecordInv'
<1>1. acts \in [Gen -> Acts] /\ SameAddrs(acts)
  BY DEF TypeOK, ActTypes, SameAddrs
<1>2. ASSUME NEW t \in timers, matchTimerFires(t)
      PROVE  RecordInv'
  BY <1>2, RecordUntouched DEF matchTimerFires, claimVars, actVars, lifeVars
<1>3. ASSUME NEW l \in alives, aliveLoopGivesUp(l)
      PROVE  RecordInv'
  BY <1>3, RecordUntouched DEF aliveLoopGivesUp, claimVars, actVars, lifeVars
<1>4. ASSUME NEW id \in Id, doReleaseByClaimID(id)
      PROVE  Recorded
  <2>1. PICK n \in findSlotByClaimID(id) : releaseSlot(n, acts, alives)
    BY <1>4 DEF doReleaseByClaimID
  <2>2. n \in Name /\ Running
    BY <1>4, Found DEF doReleaseByClaimID
  <2>3. QED
    BY <1>1, <2>1, <2>2, ReleaseRecorded
<1>5. ASSUME NEW l \in alives, doReleaseSlot(l)
      PROVE  RecordInv'
  <2>1. CASE releaseSlot(l.slot, acts, alives \ {l})
    <3>1. l.slot \in Name /\ Running
      BY <1>5 DEF TypeOK, TimerTypes, AliveLoops, doReleaseSlot
    <3>2. QED
      BY <1>1, <2>1, <3>1, ReleaseRecorded, RecordedKeeps
  <2>2. CASE UNCHANGED <<claimVars, actVars, diskVars, lifeVars>>
    BY <2>2, RecordUntouched DEF claimVars, actVars, lifeVars
  <2>3. QED
    BY <1>5, <2>1, <2>2 DEF doReleaseSlot
<1>6. QED
  BY <1>2, <1>3, <1>4, <1>5, MatchInfoRecorded, MatchTimeoutRecorded, RequestRecorded,
     RecordedKeeps DEF Claiming
=============================================================================
