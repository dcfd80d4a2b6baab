---------------------------- MODULE StartdRecords ----------------------------
(***************************************************************************)
(* PersistedCurrent, for every value of the constants: the handlers of an  *)
(* activation, the persister, the end and the restart of the process.      *)
(* Claiming and releasing are in StartdHandlers.                           *)
(***************************************************************************)
EXTENDS StartdHandlers

-----------------------------------------------------------------------------
(* Activation. *)

\* ACTIVATE_CLAIM: the new activation is none of the other slots'.
LEMMA ActivateRecorded ==
  ASSUME TypeOK, OneSlotPerStarter, RecordInv, NEW id \in Id, NEW ad \in JobAds,
         doActivateClaim(id, ad)
  PROVE  Recorded
<1>1. PICK n \in findSlotByClaimID(id) :
        /\ acts' = [acts EXCEPT ![gen + 1] = NewAct(n, FALSE, 0)]
        /\ activations' = [activations EXCEPT ![n] = gen + 1]
        /\ slots' = [slots EXCEPT ![n] = SetBusy(@)]
        /\ UNCHANGED <<batch, store, lifeVars>>
        /\ persistSlots({n})
  BY Zenon DEF doActivateClaim
<1>2. n \in Name /\ SlotMap(slots) /\ IsSlot(slots[n]) /\ slots[n].claim.id = id
  BY Found
<1>3. Running /\ gen \in 0..MaxGen
  BY DEF doActivateClaim, TypeOK, ActTypes
<1>4. ASSUME NEW m \in Name \ {n}
      PROVE  KeepsAct(m)
  <2>1. /\ activations \in [Name -> Gen \cup {0}] /\ acts \in [Gen -> Acts]
        /\ activations'[m] = activations[m]
    BY <1>1 DEF TypeOK, ActTypes
  <2>2. ASSUME activations[m] # 0
        PROVE  acts'[activations[m]] = acts[activations[m]]
    <3>1. activations[m] \in Gen
      BY <2>1, <2>2
    <3>2. activations[m] <= gen
      BY <3>1 DEF OneSlotPerStarter, Refers
    <3>3. activations[m] # gen + 1
      BY <1>3, <3>1, <3>2 DEF Gen
    <3>4. QED
      BY <1>1, <2>1, <3>1, <3>3
  <2>3. QED
    BY <2>1, <2>2 DEF KeepsAct
<1> DEFINE t == SetBusy(slots[n])
<1>5. t.claim.id = id
  BY <1>2, BusySlot, Zenon
<1>6. slots' = [slots EXCEPT ![n] = t]
  BY <1>1
<1> HIDE DEF t
<1>7. slots'[n] = t /\ \A m \in Name \ {n} : slots'[m] = slots[m]
  BY <1>2, <1>6 DEF SlotMap
<1>8. slots'[n].claim.id # 0
  BY <1>5, <1>7 DEF Id
<1>9. \A m \in Name : Settled(m)
  BY <1>1, <1>2, <1>4, <1>7, <1>8, SlotQueued
<1>10. QED
  BY <1>1, <1>3, <1>9 DEF Recorded, Running, lifeVars

\* The loop or a goroutine writes neither slots nor addresses.
LEMMA AddrsRecorded ==
  ASSUME TypeOK, RecordInv, Running, slots' = slots, phase' = phase, activations' = activations,
         UNCHANGED diskVars, SameAddrs(acts')
  PROVE  Recorded
<1>1. \A m \in Name : Settled(m)
  BY AddrsKept, SlotsKept
<1>2. QED
  BY <1>1 DEF Recorded, Running

\* Goroutines do not.
LEMMA GoroutineRecorded ==
  ASSUME TypeOK, RecordInv, NEW g \in Gen,
         Supervise(g) \/ Reply(g) \/ reapStarter(g) \/ backstopFires(g)
  PROVE  Recorded
<1>1. PICK b : actStep(g, b) /\ Tame(acts[g], b)
  BY GoroutineTame
<1>2. /\ Running /\ acts' = [acts EXCEPT ![g] = b] /\ slots' = slots /\ phase' = phase
      /\ activations' = activations /\ UNCHANGED diskVars
  BY <1>1 DEF actStep, claimVars, lifeVars
<1>3. SameAddrs(acts')
  BY <1>1, <1>2 DEF SameAddrs, Tame, TypeOK, ActTypes
<1>4. QED
  BY <1>2, <1>3, AddrsRecorded

\* evVacate does not.
LEMMA VacateRecorded ==
  ASSUME TypeOK, RecordInv, NEW h \in Deact, doVacate(h)
  PROVE  Recorded
<1>1. /\ Running /\ slots' = slots /\ phase' = phase
      /\ activations' = activations /\ UNCHANGED diskVars
  BY Zenon DEF doVacate, claimVars, lifeVars
<1>2. ASSUME NEW k \in Gen
      PROVE  acts'[k].addr = acts[k].addr
  <2>1. acts \in [Gen -> Acts] /\ acts[k] \in Acts
    BY DEF TypeOK, ActTypes
  <2>2. QED
    BY <2>1, Zenon DEF doVacate, Acts
<1>3. QED
  BY <1>1, <1>2, AddrsRecorded DEF SameAddrs

\* evVacateEscalate does not.
LEMMA EscalateRecorded ==
  ASSUME TypeOK, RecordInv, NEW g \in Gen, doVacateEscalate(g)
  PROVE  Recorded
<1>1. /\ Running /\ slots' = slots /\ phase' = phase
      /\ activations' = activations /\ UNCHANGED diskVars
  BY Zenon DEF doVacateEscalate, claimVars, lifeVars
<1>2. ASSUME NEW k \in Gen
      PROVE  acts'[k].addr = acts[k].addr
  <2>1. acts \in [Gen -> Acts] /\ acts[k] \in Acts
    BY DEF TypeOK, ActTypes
  <2>2. QED
    BY <2>1, Zenon DEF doVacateEscalate, Acts
<1>3. QED
  BY <1>1, <1>2, AddrsRecorded DEF SameAddrs

\* The supervisor's control state is moved on.
LEMMA SupWritten ==
  ASSUME TypeOK, NEW g \in Gen, NEW s \in {"serve", "reported", "done"}
  PROVE  [acts EXCEPT ![g].sup = s] \in [Gen -> Acts] /\ SameAddrs([acts EXCEPT ![g].sup = s])
<1> DEFINE b == [acts[g] EXCEPT !.sup = s]
<1>1. acts \in [Gen -> Acts] /\ acts[g] \in Acts
  BY DEF TypeOK, ActTypes
<1>2. b \in Acts /\ b.addr = acts[g].addr
  BY <1>1 DEF Acts
<1>3. [acts EXCEPT ![g].sup = s] = [acts EXCEPT ![g] = b]
  BY <1>1
<1> HIDE DEF b
<1>4. QED
  BY <1>2, <1>3, AddrWritten

\* The address of slot n's activation is written, and that of no other.
LEMMA OneAddrWritten ==
  ASSUME TypeOK, NoWedge, NEW n \in Name, activations[n] \in Gen, NEW heap \in [Gen -> Acts],
         SameAddrs(heap), NEW g, activations' = activations,
         acts' = [heap EXCEPT ![activations[n]].addr = g]
  PROVE  \A m \in Name \ {n} : KeepsAct(m)
<1> SUFFICES ASSUME NEW m \in Name \ {n}, activations[m] # 0
             PROVE  acts'[activations[m]].addr = acts[activations[m]].addr
  BY DEF KeepsAct
<1>1. activations[m] \in Gen /\ activations[m] # activations[n]
  BY DEF NoWedge, TypeOK, ActTypes
<1>2. acts'[activations[m]] = heap[activations[m]]
  BY <1>1
<1>3. QED
  BY <1>1, <1>2 DEF SameAddrs

\* evStarterHello: an address that changes is that of a Busy claim's starter, whose
\* slot is in the live set, so its record is queued.
LEMMA HelloRecorded ==
  ASSUME TypeOK, NoWedge, GroundInv, RecordInv, NEW g \in Gen, doStarterHello(g)
  PROVE  Recorded
<1> DEFINE n == acts[g].slot
           heap == [acts EXCEPT ![g].sup = "serve"]
           changed == activations[n] # 0 /\ acts[activations[n]].addr # g
<1>1. /\ Running /\ slots' = slots /\ phase' = phase /\ activations' = activations
      /\ batch' = batch /\ store' = store
  BY Zenon DEF doStarterHello, claimVars, lifeVars
<1>2. /\ acts' = IF changed THEN [heap EXCEPT ![activations[n]].addr = g] ELSE heap
      /\ persistSlots(IF changed /\ slots[n].live THEN {n} ELSE {})
  BY Zenon DEF doStarterHello
<1>3. heap \in [Gen -> Acts] /\ SameAddrs(heap)
  BY SupWritten, Zenon
<1>4. n \in Name /\ activations[n] \in Gen \cup {0}
  BY DEF TypeOK, ActTypes, Acts
<1> HIDE DEF heap, n
<1> SUFFICES \A m \in Name : Settled(m)
  BY <1>1 DEF Recorded, Running
<1>5. CASE ~changed
  <2>1. acts' = heap /\ persistSlots({})
    BY <1>2, <1>5, Zenon
  <2>2. \A m \in Name : KeepsAct(m)
    BY <1>1, <1>3, <2>1, AddrsKept
  <2>3. \A m \in Name : SameRecord(m)
    BY <1>1, <2>2 DEF SameRecord
  <2>4. QED
    BY <1>1, <2>1, <2>3, Queued
<1>6. CASE changed
  <2>1. slots[n].live /\ slots[n].state = "Claimed"
    BY <1>4, <1>6, Zenon DEF GroundInv, Grounded, HeldBusy
  <2>2. persistSlots({n}) /\ acts' = [heap EXCEPT ![activations[n]].addr = g]
    BY <1>2, <1>6, <2>1, Zenon
  <2>3. \A m \in Name \ {n} : KeepsAct(m)
    BY <1>1, <1>3, <1>4, <1>6, <2>2, OneAddrWritten, Zenon
  <2>4. slots'[n].claim.id # 0
    BY <1>1, <1>4, <2>1 DEF RecordInv
  <2>5. QED
    BY <1>1, <1>4, <2>2, <2>3, <2>4, SlotQueued
<1>7. QED
  BY <1>5, <1>6, Zenon

\* evStarterFinal: the report is not part of the record.
LEMMA FinalRecorded ==
  ASSUME TypeOK, RecordInv, NEW g \in Gen, doStarterFinal(g)
  PROVE  Recorded
<1> DEFINE n == acts[g].slot
           heap == [acts EXCEPT ![g].sup = "reported"]
           t == SetFinal(slots[n], g)
<1>1. /\ Running /\ phase' = phase /\ activations' = activations /\ UNCHANGED diskVars
      /\ acts' = heap
      /\ slots' = slots \/ slots' = [slots EXCEPT ![n] = t]
  BY DEF doStarterFinal, lifeVars
<1>2. n \in Name /\ SlotMap(slots) /\ IsSlot(slots[n])
  BY DEF TypeOK, ActTypes, Acts, ClaimTypes, SlotMap
<1>3. SameAddrs(heap)
  BY SupWritten, Zenon
<1> HIDE DEF heap
<1>4. \A m \in Name : KeepsAct(m)
  BY <1>1, <1>3, AddrsKept
<1>5. /\ t.claim.id = slots[n].claim.id /\ t.state = slots[n].state
      /\ t.activity = slots[n].activity
  BY <1>2, SetFinalKeeps
<1>6. t.res = slots[n].res
  BY <1>2 DEF SetFinal, IsSlot, Slots
<1> HIDE DEF t
<1>7. \A m \in Name : slots'[m] = slots[m] \/ (m = n /\ slots'[m] = t)
  BY <1>1, <1>2 DEF SlotMap
<1>8. \A m \in Name : SameRecord(m)
  BY <1>4, <1>5, <1>6, <1>7, Zenon DEF SameRecord
<1>9. \A m \in Name : Settled(m)
  BY <1>1, <1>8, NothingQueued
<1>10. QED
  BY <1>1, <1>9 DEF Recorded, Running

\* An activation that ends is that of a Busy claim, which is made Idle and queued.
LEMMA IdledRecorded ==
  ASSUME TypeOK, NoWedge, GroundInv, RecordInv, NEW n \in Name, activations[n] # 0,
         NEW heap \in [Gen -> Acts], SameAddrs(heap), NEW b,
         activations' = [activations EXCEPT ![n] = 0],
         acts' = [heap EXCEPT ![activations[n]] = b],
         NEW s, IsSlot(s), s.claim.id = slots[n].claim.id,
         slots' = [slots EXCEPT ![n] = SetIdle(s)],
         persistSlots({n}), batch' = batch, store' = store
  PROVE  \A m \in Name : Settled(m)
<1> DEFINE t == SetIdle(s)
<1>1. slots[n].state = "Claimed" /\ SlotMap(slots)
  BY DEF GroundInv, Grounded, HeldBusy, TypeOK, ClaimTypes
<1>2. t.claim.id = slots[n].claim.id
  BY IdleSlot, Zenon
<1> HIDE DEF t
<1>3. slots'[n] = t /\ \A m \in Name \ {n} : slots'[m] = slots[m]
  BY <1>1 DEF SlotMap, t
<1>4. slots'[n].claim.id # 0
  BY <1>1, <1>2, <1>3 DEF RecordInv
<1>5. \A m \in Name \ {n} : KeepsAct(m)
  BY OthersKeepAct, Zenon
<1>6. QED
  BY <1>3, <1>4, <1>5, SlotQueued

\* evStarterExited.
LEMMA ExitedRecorded ==
  ASSUME TypeOK, NoWedge, GroundInv, RecordInv, NEW n \in Name, NEW heap \in [Gen -> Acts],
         SameAddrs(heap), doStarterExited(n, heap)
  PROVE  Recorded
<1> DEFINE g == activations[n]
           idles == g # 0 /\ slots[n].live /\ slots[n].claim.state = "ClaimedBusy"
<1>1. /\ Running /\ phase' = phase /\ batch' = batch /\ store' = store
      /\ activations' = [activations EXCEPT ![n] = 0]
  BY Zenon DEF doStarterExited, lifeVars
<1>2. /\ acts' = IF g = 0 THEN heap ELSE [heap EXCEPT ![g] = retire(heap[g])]
      /\ slots' = IF idles THEN [slots EXCEPT ![n] = SetIdle(slots[n])] ELSE slots
      /\ persistSlots(IF idles THEN {n} ELSE {})
  BY Zenon DEF doStarterExited
<1> SUFFICES \A m \in Name : Settled(m)
  BY <1>1 DEF Recorded, Running
<1>3. CASE g = 0
  <2>1. acts' = heap /\ slots' = slots /\ persistSlots({})
    BY <1>2, <1>3, Zenon
  <2>2. activations' = activations
    BY <1>1, <1>3 DEF TypeOK, ActTypes
  <2>3. \A m \in Name : KeepsAct(m)
    BY <2>1, <2>2, AddrsKept
  <2>4. \A m \in Name : SameRecord(m)
    BY <2>1, <2>3 DEF SameRecord
  <2>5. QED
    BY <1>1, <2>1, <2>4, Queued
<1>4. CASE g # 0
  <2>1. idles
    BY <1>4, Zenon DEF GroundInv, Grounded, HeldBusy
  <2>2. /\ acts' = [heap EXCEPT ![g] = retire(heap[g])]
        /\ slots' = [slots EXCEPT ![n] = SetIdle(slots[n])] /\ persistSlots({n})
    BY <1>2, <1>4, <2>1, Zenon
  <2>3. IsSlot(slots[n])
    BY DEF TypeOK, ClaimTypes, SlotMap
  <2>4. QED
    BY <1>1, <1>4, <2>2, <2>3, IdledRecorded, Zenon
<1>5. QED
  BY <1>3, <1>4

\* The three goroutines that submit it.
LEMMA ExitEventRecorded ==
  ASSUME TypeOK, NoWedge, GroundInv, RecordInv, NEW g \in Gen,
         supExited(g) \/ reaperExited(g) \/ handlerExited(g)
  PROVE  Recorded
<1> DEFINE a == acts[g]
<1>1. a \in Acts /\ a.slot \in Name
  BY DEF TypeOK, ActTypes, Acts
<1>2. CASE supExited(g)
  <2>1. doStarterExited(a.slot, [acts EXCEPT ![g].sup = "done"])
    BY <1>2 DEF supExited
  <2>2. QED
    BY <1>1, <2>1, SupWritten, ExitedRecorded, Zenon
<1>3. ASSUME NEW b \in Acts, b.addr = a.addr, doStarterExited(a.slot, [acts EXCEPT ![g] = b])
      PROVE  Recorded
  BY <1>1, <1>3, AddrWritten, ExitedRecorded
<1>4. CASE reaperExited(g)
  <2> DEFINE b == [a EXCEPT !.reap = "done"]
  <2>1. b \in Acts /\ b.addr = a.addr
    BY <1>1 DEF Acts
  <2>2. doStarterExited(a.slot, [acts EXCEPT ![g] = b])
    BY <1>4 DEF reaperExited
  <2> HIDE DEF b
  <2>3. QED
    BY <1>3, <2>1, <2>2
<1>5. CASE handlerExited(g)
  <2> DEFINE b == [a EXCEPT !.hand = "done"]
  <2>1. b \in Acts /\ b.addr = a.addr
    BY <1>1 DEF Acts
  <2>2. doStarterExited(a.slot, [acts EXCEPT ![g] = b])
    BY <1>5 DEF handlerExited
  <2> HIDE DEF b
  <2>3. QED
    BY <1>3, <2>1, <2>2
<1>6. QED
  BY <1>2, <1>4, <1>5

\* evAdoptFailed.
LEMMA AdoptFailedRecorded ==
  ASSUME TypeOK, NoWedge, GroundInv, RecordInv, NEW g \in Gen, doAdoptFailed(g)
  PROVE  Recorded
<1> DEFINE n == acts[g].slot
           h == activations[n]
           heap == [acts EXCEPT ![g].sup = "done"]
           busy == slots[n].claim.state = "ClaimedBusy"
           Nothing == /\ acts' = heap /\ slots' = slots /\ activations' = activations
                      /\ UNCHANGED diskVars /\ phase' = phase
           Applied == /\ h # 0 /\ activations' = [activations EXCEPT ![n] = 0]
                      /\ acts' = [heap EXCEPT ![h] = retire(heap[h])]
                      /\ slots' = IF busy
                                  THEN [slots EXCEPT ![n] = SetIdle(SetFinal(slots[n], h))]
                                  ELSE slots
                      /\ batch' = batch /\ store' = store /\ phase' = phase
                      /\ persistSlots(IF busy THEN {n} ELSE {})
<1>1. Running /\ (Nothing \/ Applied \/ releaseSlot(n, heap, alives))
  BY Zenon DEF doAdoptFailed, claimVars, lifeVars
<1>2. heap \in [Gen -> Acts] /\ SameAddrs(heap)
  BY SupWritten, Zenon
<1>3. n \in Name /\ h \in Gen \cup {0} /\ IsSlot(slots[n])
  BY DEF TypeOK, ActTypes, Acts, ClaimTypes, SlotMap
<1> HIDE DEF heap, n
<1>4. CASE Nothing
  BY <1>1, <1>2, <1>4, AddrsRecorded
<1>5. CASE Applied
  <2>1. busy
    BY <1>3, <1>5, Zenon DEF GroundInv, Grounded, HeldBusy
  <2>2. /\ slots' = [slots EXCEPT ![n] = SetIdle(SetFinal(slots[n], h))] /\ persistSlots({n})
        /\ batch' = batch /\ store' = store /\ phase' = phase
    BY <1>5, <2>1, Zenon
  <2>3. IsSlot(SetFinal(slots[n], h)) /\ SetFinal(slots[n], h).claim.id = slots[n].claim.id
    BY <1>3, <1>5, SetFinalKeeps
  <2>4. \A m \in Name : Settled(m)
    BY <1>2, <1>3, <1>5, <2>2, <2>3, IdledRecorded, Zenon
  <2>5. QED
    BY <1>1, <2>2, <2>4 DEF Recorded, Running
<1>6. CASE releaseSlot(n, heap, alives)
  BY <1>1, <1>2, <1>3, <1>6, ReleaseRecorded
<1>7. QED
  BY <1>1, <1>4, <1>5, <1>6

\* Activation and deactivation keep the records current.
LEMMA RecordActivating ==
  ASSUME TypeOK, WedgeInv, GroundInv, RecordInv, Activating
  PROVE  RecordInv'
<1>1. NoWedge /\ OneSlotPerStarter
  BY DEF WedgeInv
<1>2. ASSUME NEW g \in Gen, starterExits(g) \/ starterAbandoned(g) \/ starterKilled(g)
      PROVE  RecordInv'
  <2>1. UNCHANGED <<claimVars, activations, acts, diskVars, lifeVars>>
    BY <1>2, Zenon DEF starterExits, starterAbandoned, starterKilled
  <2>2. QED
    BY <2>1, RecordUntouched DEF claimVars, lifeVars
<1>3. ASSUME NEW h \in Deact,
             \/ deactivateReplyFails(h)
             \/ \E id \in Id, command \in {"graceful", "forcibly", "job_done"} :
                  doDeactivate(h, id, command)
      PROVE  RecordInv'
  <2>1. UNCHANGED <<claimVars, actVars, diskVars, lifeVars>>
    BY <1>3, Zenon DEF deactivateReplyFails, doDeactivate
  <2>2. QED
    BY <2>1, RecordUntouched DEF claimVars, actVars, lifeVars
<1>4. ASSUME NEW g \in Gen, Take(g)
      PROVE  Recorded
  BY <1>1, <1>4, HelloRecorded, FinalRecorded, ExitEventRecorded, AdoptFailedRecorded DEF Take
<1>5. QED
  BY <1>1, <1>2, <1>3, <1>4, ActivateRecorded, GoroutineRecorded, VacateRecorded,
     EscalateRecorded, RecordedKeeps DEF Activating

-----------------------------------------------------------------------------
(* The persister, and the end and the restart of the process. *)

\* Without failing Puts a record moves towards the store and overtakes none.
LEMMA RecordPersisting ==
  ASSUME TypeOK, RecordInv, "put" \notin Env, Persisting
  PROVE  RecordInv'
<1>1. /\ UNCHANGED <<claimVars, actVars, lifeVars>> /\ phase # "down"
      /\ P!flush \/ \E n \in Name : P!commit(n, TRUE)
  BY Zenon DEF Persisting, persisterFlushes, persisterCommits
<1>2. RecordMap(pending) /\ RecordMap(batch) /\ RecordMap(store)
  BY DEF TypeOK, DiskTypes
<1>3. ASSUME NEW m \in Name
      PROVE  Latest(m)' = Latest(m)
  <2>1. CASE P!flush
    BY <2>1 DEF P!flush, P!Empty, Latest
  <2>2. ASSUME NEW n \in Name, P!commit(n, TRUE)
        PROVE  Latest(m)' = Latest(m)
    BY <1>2, <2>2, Zenon DEF P!commit, Latest, RecordMap
  <2>3. QED
    BY <1>1, <2>1, <2>2, Zenon
<1>4. slots' = slots /\ phase' = phase /\ activations' = activations /\ acts' = acts
  BY <1>1 DEF claimVars, actVars, lifeVars
<1>5. \A m \in Name : RecordOf(m)' = RecordOf(m)
  BY <1>4 DEF RecordOf
<1>6. QED
  BY <1>1, <1>3, <1>4, <1>5 DEF RecordInv, PersistedCurrent

\* Stop, and the end of the process.
LEMMA RecordEnds ==
  ASSUME TypeOK, RecordInv, Stop \/ loopReturns \/ cleanExit \/ crash
  PROVE  RecordInv'
<1>1. CASE Stop
  <2>1. /\ slots' = slots /\ activations' = activations /\ UNCHANGED diskVars
        /\ phase # "down" /\ phase' # "down"
        /\ acts' = [g \in Gen |-> [acts[g] EXCEPT !.cancelled = acts[g].sup # "none"]]
    BY <1>1 DEF Stop, claimVars
  <2>2. ASSUME NEW g \in Gen
        PROVE  acts'[g].addr = acts[g].addr
    <3>1. acts[g] \in Acts
      BY DEF TypeOK, ActTypes
    <3>2. acts'[g] = [acts[g] EXCEPT !.cancelled = acts[g].sup # "none"]
      BY <2>1, Zenon
    <3>3. QED
      BY <3>1, <3>2 DEF Acts
  <2>3. \A m \in Name : Settled(m)
    BY <2>1, <2>2, AddrsKept, SlotsKept DEF SameAddrs
  <2>4. QED
    BY <2>1, <2>3, RecordedKeeps DEF Recorded
<1>2. CASE loopReturns
  <2>1. /\ slots' = slots /\ UNCHANGED <<actVars, diskVars>>
        /\ phase # "down" /\ phase' # "down"
    BY <1>2 DEF loopReturns, claimVars
  <2>2. \A m \in Name : Settled(m)
    BY <2>1, ActsKept, SlotsKept
  <2>3. QED
    BY <2>1, <2>2, RecordedKeeps DEF Recorded
<1>3. CASE cleanExit \/ crash
  <2>1. /\ phase' = "down" /\ slots' = [n \in Name |-> NoSlot]
        /\ pending' = P!Empty /\ batch' = P!Empty
    BY <1>3 DEF cleanExit, crash, processEnds
  <2>2. \A n \in Name : slots'[n].state # "Claimed"
    BY <2>1 DEF NoSlot, NewSlot
  <2>3. \A n \in Name : pending'[n] = NoRecord /\ batch'[n] = NoRecord
    BY <2>1 DEF P!Empty
  <2>4. QED
    BY <2>1, <2>2, <2>3 DEF RecordInv, PersistedCurrent
<1>4. QED
  BY <1>1, <1>2, <1>3

\* reconstructDSlot gives a dynamic slot the resources on record.
LEMMA AdoptedRes ==
  ASSUME NEW minted, NEW lost, restart(minted, lost),
         NEW n \in ClaimedOnRecord \ lost, IsDynamic(n)
  PROVE  slots'[n].res = store[n].res
<1> DEFINE claimed == ClaimedOnRecord
           adopted == claimed \ lost
           primed(m) == [NewSlot(carvedRes(m, claimed)) EXCEPT
                           !.claim = IF m \in minted THEN Minted(seq + m[1]) ELSE NoClaim]
           built(m) == IF m \in ConfigSlots THEN primed(m)
                       ELSE IF m \in claimed THEN NewSlot(store[m].res)
                       ELSE NoSlot
           new(m) == IF m \in adopted
                     THEN AdoptClaim(built(m), store[m].id, store[m].activity = "Busy")
                     ELSE built(m)
           ss == [m \in Name |-> new(m)]
<1>1. slots' = AdoptedSlots(minted, claimed, adopted)
  BY Zenon DEF restart, ClaimedOnRecord
<1>2. slots' = IF Partitionable THEN refreshPSlotChildren(ss, <<1, 0>>) ELSE ss
  BY <1>1 DEF AdoptedSlots
<1>3. n \in Name /\ n \notin ConfigSlots /\ n # <<1, 0>>
  BY DEF ClaimedOnRecord, IsDynamic, ConfigSlots
<1>4. ss[n] = AdoptClaim(NewSlot(store[n].res), store[n].id, store[n].activity = "Busy")
  BY <1>3
<1> HIDE DEF ss
<1>5. ss = [m \in Name |-> ss[m]]
  BY DEF ss
<1>6. refreshPSlotChildren(ss, <<1, 0>>)[n] = ss[n]
  BY <1>3, <1>5 DEF refreshPSlotChildren
<1>7. slots'[n] = ss[n]
  BY <1>2, <1>6
<1>8. QED
  BY <1>4, <1>7 DEF AdoptClaim, SetClaimState, NewSlot

\* A re-adopted activation has the address on record: no other record names its
\* starter.
LEMMA AdoptedAddr ==
  ASSUME TypeOK, OneSlotPerStarter, NEW minted, NEW lost, restart(minted, lost),
         NEW n \in ClaimedOnRecord \ lost, store[n].activity = "Busy", store[n].starter # 0
  PROVE  acts'[store[n].starter].addr = store[n].addr
<1> DEFINE g == store[n].starter
           busy == {m \in ClaimedOnRecord \ lost :
                      store[m].activity = "Busy" /\ store[m].starter # 0}
           holder == CHOOSE m \in busy : store[m].starter = g
<1>1. n \in busy /\ n \in Name /\ busy \subseteq Name
  BY DEF ClaimedOnRecord
<1>2. g \in Gen
  BY <1>1 DEF TypeOK, DiskTypes, RecordMap, IsRecord, Records
<1>3. acts' = [k \in Gen |->
                 IF \E m \in busy : store[m].starter = k
                 THEN LET m == CHOOSE m \in busy : store[m].starter = k
                      IN  NewAct(m, TRUE, store[m].addr)
                 ELSE NoAct]
  BY DEF restart, ClaimedOnRecord
<1>4. holder \in busy /\ store[holder].starter = g
  BY <1>1
<1>5. acts'[g] = NewAct(holder, TRUE, store[holder].addr)
  BY <1>1, <1>2, <1>3, Zenon
<1> HIDE DEF busy, holder
<1>6. \A m \in Name : store[m].starter = g => Refers(m, g)
  BY DEF Refers, RecordsAt
<1>7. holder = n
  BY <1>1, <1>2, <1>4, <1>6 DEF OneSlotPerStarter
<1>8. NewAct(n, TRUE, store[n].addr).addr = store[n].addr
  BY DEF NewAct
<1>9. QED
  BY <1>5, <1>7, <1>8, Zenon

\* A record of slot n, field by field.
LEMMA RecordFields ==
  ASSUME NEW r, IsRecord(r)
  PROVE  r = [id |-> r.id, state |-> r.state, activity |-> r.activity, res |-> r.res,
              starter |-> r.starter, addr |-> r.addr]
BY DEF IsRecord, Records

\* New, prime and Adopt: each claim that is re-adopted is as its record says.
LEMMA RecordRestarts ==
  ASSUME TypeOK, OneSlotPerStarter, GroundInv, RecordInv,
         NEW minted \in PrimeOutcomes, NEW lost \in ImportFailures, restart(minted, lost)
  PROVE  RecordInv'
<1>1. PICK adopted \in SUBSET ClaimedOnRecord : RestartStep(adopted)
  BY RestartIsRestart
<1>2. ASSUME NEW n \in Name, slots'[n].state = "Claimed"
      PROVE  /\ n \in ClaimedOnRecord \ lost /\ slots'[n].claim.id = store[n].id
             /\ slots'[n].activity = store[n].activity
             /\ activations'[n] = IF store[n].activity = "Busy" THEN store[n].starter ELSE 0
  <2>1. AdoptedSlot(slots'[n], n, ClaimedOnRecord, adopted)
    BY <1>1 DEF RestartStep
  <2>2. n \in adopted
    BY <1>2, <2>1 DEF AdoptedSlot
  <2>3. store[n].activity \in {"Idle", "Busy"}
    BY DEF TypeOK, DiskTypes, RecordMap, IsRecord, Records
  <2>4. n \in ClaimedOnRecord \ lost
    <3>1. aliveCancels'[n] = store[n].id /\ store[n].id # 0
      BY <1>1, <2>2 DEF RestartStep, ClaimedOnRecord
    <3>2. aliveCancels' = [m \in Name |-> IF m \in ClaimedOnRecord \ lost
                                          THEN store[m].id ELSE 0]
      BY Zenon DEF restart, ClaimedOnRecord
    <3>3. QED
      BY <3>1, <3>2
  <2>5. QED
    BY <1>1, <2>1, <2>2, <2>3, <2>4 DEF AdoptedSlot, RestartStep
<1>3. ASSUME NEW n \in Name, slots'[n].state = "Claimed"
      PROVE  RecordOf(n)' = store[n] /\ slots'[n].claim.id # 0
  <2>1. Sound(n, store[n]) /\ IsRecord(store[n])
    BY DEF GroundInv, SoundRecords, RecordsAt, TypeOK, DiskTypes, RecordMap
  <2>2. store[n].id # 0 /\ store[n].state = "Claimed"
    BY <1>2, <1>3 DEF ClaimedOnRecord
  <2>3. store[n].res = IF IsDynamic(n) THEN slots'[n].res ELSE NoResources
    BY <1>2, <1>3, <2>1, AdoptedRes DEF Sound
  <2>4. activations'[n] = store[n].starter
    BY <1>2, <1>3, <2>1 DEF Sound
  <2>5. store[n].starter # 0 =>
          StarterMode = "process" /\ acts'[store[n].starter].addr = store[n].addr
    BY <1>2, <1>3, <2>1, AdoptedAddr DEF Sound
  <2>6. store[n].starter = 0 => store[n].addr = 0
    BY <2>1 DEF Sound
  <2>7. QED
    BY <1>2, <1>3, <2>1, <2>2, <2>3, <2>4, <2>5, <2>6, RecordFields DEF RecordOf
<1>4. phase = "down" /\ phase' = "up" /\ UNCHANGED diskVars
  BY Zenon DEF restart
<1>5. \A n \in Name : Latest(n)' = store[n]
  BY <1>4 DEF RecordInv, Latest, diskVars
<1>6. QED
  BY <1>3, <1>4, <1>5 DEF RecordInv, PersistedCurrent

-----------------------------------------------------------------------------
\* Every claim is recoverable as it stands, whatever is minted, carved, activated,
\* vacated, killed, stopped and crashed, as long as no Put fails: the newest record
\* of a Claimed slot says of it what the loop knows.
THEOREM RecordsCurrent == "put" \notin Env /\ Spec => []PersistedCurrent
<1> DEFINE Works == "put" \notin Env
           Inv == WedgeInv /\ GroundInv /\ (Works => RecordInv)
<1>1. Init => Inv
  <2>1. ASSUME Init
        PROVE  RecordInv
    <3>1. \A n \in Name : slots[n].state = "Unclaimed"
      BY <2>1 DEF Init, NewSlot, NoSlot
    <3>2. phase = "up"
      BY <2>1 DEF Init
    <3>3. QED
      BY <3>1, <3>2 DEF RecordInv, PersistedCurrent
  <2>2. QED
    BY <2>1, InitWedge, InitGround
<1>2. TypeOK /\ Inv /\ [Next]_vars => Inv'
  <2> SUFFICES ASSUME TypeOK, Inv, [Next]_vars
               PROVE  Inv'
    OBVIOUS
  <2>1. TypeOK' /\ Effect
    BY Stutter, NextEffect DEF Effect
  <2>2. WedgeInv' /\ GroundInv'
    BY <2>1, WedgeNext, GroundNext
  <2>3. ASSUME Works
        PROVE  RecordInv'
    <3>1. NoWedge /\ OneSlotPerStarter /\ RecordInv
      BY <2>3 DEF WedgeInv
    <3>2. CASE UNCHANGED vars
      BY <3>1, <3>2, RecordUntouched DEF vars, claimVars, actVars, lifeVars
    <3>3. CASE Restarting
      BY <3>1, <3>3, RecordEnds, RecordRestarts DEF Restarting
    <3>4. QED
      BY <2>3, <3>1, <3>2, <3>3, RecordClaiming, RecordActivating, RecordPersisting DEF Next
  <2>4. QED
    BY <2>2, <2>3
<1>3. Inv /\ Works => PersistedCurrent
  BY DEF RecordInv
<1>4. Works => Works'
  OBVIOUS
<1> HIDE DEF Inv, Works
<1>5. Works /\ Spec => []PersistedCurrent
  BY <1>1, <1>2, <1>3, <1>4, TypeCorrect, PTL DEF Spec
<1>6. QED
  BY <1>5 DEF Works
=============================================================================
