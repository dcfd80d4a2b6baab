---------------------------- MODULE StartdProofs ----------------------------
(***************************************************************************)
(* Proofs about the startd, for every machine, number of slots, starter    *)
(* mode, set of faults and bound.                                          *)
(***************************************************************************)
EXTENDS Startd, TLAPS

-----------------------------------------------------------------------------
(* Slots. *)

\* Two slots agree on all but resources and children.
SameClaim(s, t) ==
  s.live = t.live /\ s.state = t.state /\ s.activity = t.activity /\ s.claim = t.claim

\* The claims that are built from nothing are claims.
LEMMA ClaimsBuilt ==
  /\ NoClaim \in Claims(Id, Gen)
  /\ \A id \in Id : Minted(id) \in Claims(Id, Gen)
BY DEF NoClaim, Minted, Claims, ClaimStates

\* The slots that are built from nothing are slots.
LEMMA SlotsBuilt ==
  ASSUME NEW res, NEW cl \in Claims(Id, Gen)
  PROVE  /\ IsSlot([NewSlot(res) EXCEPT !.claim = cl])
         /\ [NewSlot(res) EXCEPT !.claim = cl].claim = cl
         /\ [NewSlot(res) EXCEPT !.claim = cl].live
         /\ [NewSlot(res) EXCEPT !.claim = cl].state = "Unclaimed"
         /\ [NewSlot(res) EXCEPT !.claim = cl].activity = "Idle"
         /\ IsSlot(NewSlot(res))
         /\ SameClaim(NewSlot(res), [NewSlot(res) EXCEPT !.claim = NoClaim])
         /\ IsSlot(NoSlot) /\ ~NoSlot.live /\ NoSlot.claim = NoClaim
         /\ NoSlot.state = "Unclaimed" /\ NoSlot.activity = "Idle"
BY Zenon DEF IsSlot, Slots, NewSlot, NoSlot, NoClaim, Claims, SlotStates, ClaimStates, SameClaim

\* SetClaimState sets what it is given and nothing else.
LEMMA SetClaimStateSets ==
  ASSUME NEW s, IsSlot(s), NEW cl \in Claims(Id, Gen), NEW state \in SlotStates,
         NEW activity \in {"Idle", "Busy"}
  PROVE  LET t == SetClaimState(s, cl, state, activity) IN
         /\ IsSlot(t) /\ t.live = s.live
         /\ t.claim = cl /\ t.state = state /\ t.activity = activity
BY Zenon DEF IsSlot, Slots, SetClaimState

\* SetStateActivity keeps the claim.
LEMMA SetStateActivitySets ==
  ASSUME NEW s, IsSlot(s), NEW state \in SlotStates, NEW activity \in {"Idle", "Busy"}
  PROVE  LET t == SetStateActivity(s, state, activity) IN
         /\ IsSlot(t) /\ t.live = s.live
         /\ t.claim = s.claim /\ t.state = state /\ t.activity = activity
BY Zenon DEF IsSlot, Slots, SetStateActivity

\* Moving a claim to another state keeps its id.
LEMMA ClaimMoves ==
  ASSUME NEW cl \in Claims(Id, Gen), NEW state \in ClaimStates
  PROVE  /\ [cl EXCEPT !.state = state] \in Claims(Id, Gen)
         /\ [cl EXCEPT !.state = state].id = cl.id
         /\ [cl EXCEPT !.state = state].state = state
BY DEF Claims

\* A slot's claim is a claim.
LEMMA SlotClaim ==
  ASSUME NEW s, IsSlot(s)
  PROVE  /\ s.claim \in Claims(Id, Gen) /\ s.claim.id \in Id \cup {0}
         /\ s.claim.state \in ClaimStates
         /\ s.state \in SlotStates /\ s.activity \in {"Idle", "Busy"} /\ s.live \in BOOLEAN
BY DEF IsSlot, Slots, Claims

\* What AcceptClaim makes of a slot.
LEMMA AcceptedSlot ==
  ASSUME NEW s, IsSlot(s)
  PROVE  LET t == AcceptClaim(s) IN
         /\ IsSlot(t) /\ t.live = s.live /\ t.state = "Claimed" /\ t.activity = "Idle"
         /\ t.claim.id = s.claim.id /\ t.claim.state = "ClaimedIdle"
BY Zenon DEF IsSlot, Slots, Claims, ClaimStates, SlotStates, SetClaimState, AcceptClaim

\* What SetBusy makes of it.
LEMMA BusySlot ==
  ASSUME NEW s, IsSlot(s)
  PROVE  LET t == SetBusy(s) IN
         /\ IsSlot(t) /\ t.live = s.live /\ t.state = "Claimed" /\ t.activity = "Busy"
         /\ t.claim.id = s.claim.id /\ t.claim.state = "ClaimedBusy"
BY Zenon DEF IsSlot, Slots, Claims, ClaimStates, SlotStates, SetClaimState, SetBusy

\* What SetIdle makes of it.
LEMMA IdleSlot ==
  ASSUME NEW s, IsSlot(s)
  PROVE  LET t == SetIdle(s) IN
         /\ IsSlot(t) /\ t.live = s.live /\ t.state = "Claimed" /\ t.activity = "Idle"
         /\ t.claim.id = s.claim.id /\ t.claim.state = "ClaimedIdle"
BY Zenon DEF IsSlot, Slots, Claims, ClaimStates, SlotStates, SetClaimState, SetIdle

\* What AdoptClaim makes of it when the record says Busy.
LEMMA AdoptedBusy ==
  ASSUME NEW s, IsSlot(s), NEW id \in Id
  PROVE  LET t == AdoptClaim(s, id, TRUE) IN
         /\ IsSlot(t) /\ t.live = s.live /\ t.state = "Claimed" /\ t.activity = "Busy"
         /\ t.claim.id = id /\ t.claim.state = "ClaimedBusy"
BY Zenon DEF IsSlot, Slots, Claims, ClaimStates, SlotStates, SetClaimState, AdoptClaim, Minted

\* And when it does not.
LEMMA AdoptedIdle ==
  ASSUME NEW s, IsSlot(s), NEW id \in Id
  PROVE  LET t == AdoptClaim(s, id, FALSE) IN
         /\ IsSlot(t) /\ t.live = s.live /\ t.state = "Claimed" /\ t.activity = "Idle"
         /\ t.claim.id = id /\ t.claim.state = "ClaimedIdle"
BY Zenon DEF IsSlot, Slots, Claims, ClaimStates, SlotStates, SetClaimState, AdoptClaim, Minted

\* A Final report leaves the rest of the slot alone.
LEMMA SetFinalKeeps ==
  ASSUME NEW s, IsSlot(s), NEW g \in Gen
  PROVE  LET t == SetFinal(s, g) IN
         /\ IsSlot(t) /\ t.live = s.live /\ t.state = s.state /\ t.activity = s.activity
         /\ t.claim.id = s.claim.id /\ t.claim.state = s.claim.state
BY DEF IsSlot, Slots, SetFinal, Claims

\* Changing the children leaves the claim alone.
LEMMA ChildrenKeep ==
  ASSUME NEW s, IsSlot(s), NEW ids \in SUBSET Id
  PROVE  IsSlot(SetChildClaimIds(s, ids)) /\ SameClaim(SetChildClaimIds(s, ids), s)
BY DEF IsSlot, Slots, SetChildClaimIds, SameClaim

\* Changing the resources does too.
LEMMA DivisionKeeps ==
  ASSUME NEW s, IsSlot(s), NEW res
  PROVE  IsSlot([s EXCEPT !.res = res]) /\ SameClaim([s EXCEPT !.res = res], s)
BY DEF IsSlot, Slots, SameClaim

\* Replacing one slot of the map.
LEMMA SlotMapUpdate ==
  ASSUME NEW f, SlotMap(f), NEW n \in Name, NEW s, IsSlot(s)
  PROVE  LET h == [f EXCEPT ![n] = s] IN
         /\ SlotMap(h) /\ h[n] = s
         /\ \A m \in Name \ {n} : h[m] = f[m]
BY DEF SlotMap

\* What unclaimSlot makes of a slot.
LEMMA UnclaimedSlot ==
  ASSUME ClaimTypes, seq < MaxId, NEW s, IsSlot(s), NEW minted \in BOOLEAN
  PROVE  LET t == unclaimSlot(s, minted) IN
         /\ IsSlot(t) /\ t.live = s.live /\ t.state = "Unclaimed" /\ t.activity = "Idle"
         /\ t.claim = IF minted THEN Minted(seq + 1) ELSE s.claim
<1>1. seq + 1 \in Id
  BY StartdAssumption DEF ClaimTypes, Id
<1>2. "Unclaimed" \in SlotStates
  BY DEF SlotStates
<1>3. Minted(seq + 1) \in Claims(Id, Gen)
  BY <1>1, ClaimsBuilt
<1>4. CASE minted
  BY <1>2, <1>3, <1>4, Zenon DEF unclaimSlot, SetClaimState, IsSlot, Slots
<1>5. CASE ~minted
  BY <1>2, <1>5, Zenon DEF unclaimSlot, SetStateActivity, IsSlot, Slots
<1>6. QED
  BY <1>4, <1>5

\* Recomputing ChildClaimIds leaves every claim alone.
LEMMA RefreshKeeps ==
  ASSUME NEW ss, SlotMap(ss), NEW p \in Name
  PROVE  LET r == refreshPSlotChildren(ss, p) IN
         SlotMap(r) /\ \A m \in Name : SameClaim(r[m], ss[m])
<1> DEFINE children == {d \in DSlots : ss[d].live /\ ParentName(d) = p /\ ss[d].claim.id # 0}
           ids == {ss[d].claim.id : d \in children}
<1>1. ids \in SUBSET Id
  <2>1. \A d \in DSlots : ss[d].claim.id \in Id \cup {0}
    BY SlotClaim DEF SlotMap, Name
  <2>2. QED
    BY <2>1
<1>2. IsSlot(ss[p])
  BY DEF SlotMap
<1>3. IsSlot(SetChildClaimIds(ss[p], ids)) /\ SameClaim(SetChildClaimIds(ss[p], ids), ss[p])
  BY <1>1, <1>2, ChildrenKeep, Zenon
<1>4. refreshPSlotChildren(ss, p) = [ss EXCEPT ![p] = SetChildClaimIds(ss[p], ids)]
  BY DEF refreshPSlotChildren
<1> HIDE DEF ids
<1>5. /\ SlotMap(refreshPSlotChildren(ss, p))
      /\ refreshPSlotChildren(ss, p)[p] = SetChildClaimIds(ss[p], ids)
      /\ \A m \in Name \ {p} : refreshPSlotChildren(ss, p)[m] = ss[m]
  BY <1>3, <1>4 DEF SlotMap
<1>6. QED
  BY <1>3, <1>5 DEF SameClaim

-----------------------------------------------------------------------------
(* What the helpers of the loop do. *)

\* A dynamic slot's parent is another slot of the startd.
LEMMA Parent ==
  ASSUME NEW n \in Name, IsDynamic(n)
  PROVE  n \in DSlots /\ ParentName(n) \in Name /\ ParentName(n) # n
BY DEF Name, ConfigSlots, DSlots, IsDynamic, ParentName

\* A queued record is the one that was queued before or the slot's new one.
LEMMA Persisted ==
  ASSUME ClaimTypes', ActTypes', RecordMap(pending), NEW S \in SUBSET Name, persistSlots(S)
  PROVE  /\ RecordMap(pending)'
         /\ \A n \in Name : pending'[n] = pending[n] \/ (HasStore /\ pending'[n] = RecordOf(n)')
<1> DEFINE T == {m \in S : HasStore /\ slots'[m].claim.id # 0}
           new == [n \in T |-> RecordOf(n)']
<1>1. pending' = [k \in Name |-> IF k \in T THEN RecordOf(k)' ELSE pending[k]]
  BY DEF persistSlots, P!put
<1>2. ASSUME NEW n \in Name
      PROVE  IsRecord(RecordOf(n)')
  <2>1. IsSlot(slots[n])'
    BY DEF ClaimTypes, SlotMap
  <2>2. /\ slots'[n].claim.id \in Id \cup {0} /\ slots'[n].state \in SlotStates
        /\ slots'[n].activity \in {"Idle", "Busy"}
    BY <2>1 DEF IsSlot, Slots, Claims
  <2>3. /\ activations'[n] \in Gen \cup {0}
        /\ activations'[n] # 0 => acts'[activations'[n]].addr \in Gen \cup {0}
    BY DEF ActTypes, Acts
  <2>4. QED
    BY <2>2, <2>3 DEF RecordOf, IsRecord, Records
<1>3. QED
  BY <1>1, <1>2 DEF RecordMap

\* The match timer's bookkeeping is well typed.
LEMMA MatchTimers ==
  ASSUME TimerTypes, NEW n \in Name, NEW id \in Id, cancelMatchTimer(n) \/ startMatchTimer(n, id)
  PROVE  matchCancels' \in [Name -> Id \cup {0}] /\ timers' \subseteq Timers
<1>1. [slot |-> n, claim |-> id, fired |-> FALSE] \in Timers
  BY DEF Timers
<1>2. CASE cancelMatchTimer(n)
  BY <1>2 DEF TimerTypes, cancelMatchTimer
<1>3. CASE startMatchTimer(n, id)
  BY <1>1, <1>3, Zenon DEF TimerTypes, startMatchTimer
<1>4. QED
  BY <1>2, <1>3

\* The ALIVE loops after one is started.
LEMMA AliveLoopStarted ==
  ASSUME TimerTypes, NEW n \in Name, NEW id \in Id, startAliveLoop(n, id)
  PROVE  aliveCancels' \in [Name -> Id \cup {0}] /\ alives' \subseteq AliveLoops
<1>1. [slot |-> n, claim |-> id, release |-> FALSE] \in AliveLoops
  BY DEF AliveLoops
<1>2. QED
  BY <1>1, Zenon DEF TimerTypes, startAliveLoop

\* The ALIVE loops after one is cancelled.
LEMMA AliveLoopCancelled ==
  ASSUME TimerTypes, NEW n \in Name, NEW loops \in SUBSET alives, cancelAliveLoop(n, loops)
  PROVE  aliveCancels' \in [Name -> Id \cup {0}] /\ alives' \subseteq AliveLoops
BY DEF TimerTypes, cancelAliveLoop

\* Retiring an activation keeps its slot and its supervisor.
LEMMA Retired ==
  ASSUME NEW act \in Acts
  PROVE  /\ retire(act) \in Acts
         /\ retire(act).slot = act.slot /\ retire(act).sup = act.sup
BY Zenon DEF retire, Acts

\* Killing an activation keeps its slot and its supervisor.
LEMMA KilledAct ==
  ASSUME NEW act \in Acts
  PROVE  kill(act) \in Acts /\ kill(act).slot = act.slot /\ kill(act).sup = act.sup
<1> DEFINE dying == [act EXCEPT !.vacateCh = offer(act.vacateCh, "hard"),
                                !.backstop = (act.reap = "wait")]
<1>1. offer(act.vacateCh, "hard") \in {"empty", "soft", "hard"}
  BY DEF offer, Acts
<1>2. dying \in Acts /\ dying.slot = act.slot /\ dying.sup = act.sup
  BY <1>1, Zenon DEF Acts
<1>3. kill(act) = retire(dying)
  BY DEF kill, Acts
<1> HIDE DEF dying
<1>4. QED
  BY <1>2, <1>3, Retired

\* Killing an activation takes it from the map and leaves slots and supervisors
\* of all activations as they are.
LEMMA Killed ==
  ASSUME ActTypes, NEW n \in Name, NEW heap \in [Gen -> Acts], killActivation(n, heap)
  PROVE  /\ activations' = [activations EXCEPT ![n] = 0]
         /\ activations' \in [Name -> Gen \cup {0}] /\ acts' \in [Gen -> Acts]
         /\ \A g \in Gen : acts'[g].slot = heap[g].slot /\ acts'[g].sup = heap[g].sup
<1> DEFINE g == activations[n]
<1>1. activations' = [activations EXCEPT ![n] = 0] /\ activations' \in [Name -> Gen \cup {0}]
  BY DEF killActivation, ActTypes
<1>2. CASE g = 0
  BY <1>1, <1>2 DEF killActivation
<1>3. CASE g # 0
  <2>1. g \in Gen /\ heap[g] \in Acts
    BY <1>3 DEF ActTypes
  <2>2. acts' = [heap EXCEPT ![g] = kill(heap[g])]
    BY <1>3 DEF killActivation
  <2>3. /\ kill(heap[g]) \in Acts /\ kill(heap[g]).slot = heap[g].slot
        /\ kill(heap[g]).sup = heap[g].sup
    BY <2>1, KilledAct
  <2>4. QED
    BY <1>1, <2>1, <2>2, <2>3
<1>4. QED
  BY <1>2, <1>3

\* The records of slot m on their way to the store and in it.
RecordsAt(m) == {pending[m], batch[m], store[m]}

\* Records move to the store or are deleted, and a new one is the slot's present.
DiskStep ==
  \A m \in Name : \A r \in RecordsAt(m)' :
    r \in RecordsAt(m) \/ r = NoRecord \/ (HasStore /\ r = RecordOf(m)')

\* Slot n has been given up, and no other slot's claim has been touched.
GivenUp(n) ==
  /\ \A m \in Name \ {n} : SameClaim(slots'[m], slots[m])
  /\ slots'[n].state = "Unclaimed" /\ slots'[n].activity = "Idle"
  /\ slots'[n].claim.state = "Unclaimed" \/ "mint" \in Env
  /\ slots'[n].live => slots[n].live

\* The placeholders for no record, no activation and no handler are well typed.
LEMMA NothingIsTyped == IsRecord(NoRecord) /\ NoAct \in Acts /\ IdleHandler \in Handlers
<1>1. <<1, 0>> \in Name
  BY StartdAssumption DEF Name, ConfigSlots, NumStaticSlots, Kinds
<1>2. 0 \in 0..MaxEsc
  BY StartdAssumption
<1>3. QED
  BY <1>1, <1>2
  DEF NoRecord, IsRecord, Records, SlotStates, NoAct, Acts, IdleHandler, Handlers

\* destroyDSlot takes the slot's claim away and touches no other.
LEMMA Destroyed ==
  ASSUME TypeOK, ActTypes', NEW n \in Name, IsDynamic(n), destroyDSlot(n)
  PROVE  ClaimTypes' /\ DiskTypes' /\ DiskStep /\ GivenUp(n)
<1> DEFINE p == ParentName(n)
           r == Restore(slots[p].res, slots[n].res, FullRes(p))
           one == [slots EXCEPT ![n] = NoSlot]
           cut == [one EXCEPT ![p] = [slots[p] EXCEPT !.res = r]]
<1>1. p \in Name /\ p # n
  BY Parent
<1>2. SlotMap(slots) /\ IsSlot(slots[p])
  BY <1>1 DEF TypeOK, ClaimTypes, SlotMap
<1>3. IsSlot(NoSlot) /\ ~NoSlot.live /\ NoSlot.claim = NoClaim /\ NoSlot.state = "Unclaimed"
      /\ NoSlot.activity = "Idle"
  BY SlotsBuilt, ClaimsBuilt, Zenon
<1>4. IsSlot([slots[p] EXCEPT !.res = r]) /\ SameClaim([slots[p] EXCEPT !.res = r], slots[p])
  BY <1>2, DivisionKeeps, Zenon
<1>5. SlotMap(one) /\ one[n] = NoSlot /\ \A m \in Name \ {n} : one[m] = slots[m]
  BY <1>2, <1>3 DEF SlotMap
<1>6. /\ SlotMap(cut) /\ cut[n] = NoSlot
      /\ \A m \in Name \ {n} : SameClaim(cut[m], slots[m])
  BY <1>1, <1>4, <1>5, Zenon DEF SlotMap, SameClaim
<1>7. slots' = refreshPSlotChildren(cut, p)
  <2>1. [slots EXCEPT ![n] = NoSlot, ![p].res = Restore(@, slots[n].res, FullRes(p))] = cut
    BY <1>1, <1>2, Zenon DEF SlotMap
  <2>2. QED
    BY <2>1 DEF destroyDSlot
<1> HIDE DEF cut
<1>8. SlotMap(slots') /\ \A m \in Name : SameClaim(slots'[m], cut[m])
  BY <1>1, <1>6, <1>7, RefreshKeeps, Zenon
<1>9. ClaimTypes'
  BY <1>8 DEF destroyDSlot, ClaimTypes, TypeOK, SlotMap
<1>10. persistSlots({p}) /\ {p} \in SUBSET Name /\ RecordMap(pending)
  BY <1>1 DEF destroyDSlot, TypeOK, DiskTypes
<1>11. /\ RecordMap(pending)'
       /\ \A m \in Name : pending'[m] = pending[m] \/ (HasStore /\ pending'[m] = RecordOf(m)')
  BY <1>9, <1>10, Persisted
<1>12. RecordMap(store)' /\ \A m \in Name : store'[m] = store[m] \/ store'[m] = NoRecord
  BY NothingIsTyped DEF destroyDSlot, P!Delete, TypeOK, DiskTypes, RecordMap
<1>13. batch' = batch /\ RecordMap(batch)'
  BY DEF destroyDSlot, TypeOK, DiskTypes, RecordMap
<1>14. GivenUp(n)
  BY <1>3, <1>6, <1>8 DEF GivenUp, SameClaim, NoClaim
<1>15. QED
  BY <1>9, <1>11, <1>12, <1>13, <1>14 DEF DiskTypes, DiskStep, RecordsAt

\* releaseSlot gives the slot up and takes its activation from the map.
LEMMA Released ==
  ASSUME TypeOK, NEW n \in Name, NEW heap \in [Gen -> Acts], NEW loops \in SUBSET alives,
         releaseSlot(n, heap, loops)
  PROVE  /\ TypeOK' /\ DiskStep /\ GivenUp(n)
         /\ activations' = [activations EXCEPT ![n] = 0]
         /\ \A g \in Gen : acts'[g].slot = heap[g].slot /\ acts'[g].sup = heap[g].sup
<1>1. /\ activations' = [activations EXCEPT ![n] = 0]
      /\ activations' \in [Name -> Gen \cup {0}] /\ acts' \in [Gen -> Acts]
      /\ \A g \in Gen : acts'[g].slot = heap[g].slot /\ acts'[g].sup = heap[g].sup
  BY Killed DEF TypeOK, releaseSlot
<1>2. ActTypes' /\ DeactTypes' /\ LifeTypes'
  BY <1>1 DEF TypeOK, ActTypes, DeactTypes, LifeTypes, releaseSlot, deactVars, lifeVars
<1>3. TimerTypes'
  <2>1. matchCancels' \in [Name -> Id \cup {0}] /\ timers' \subseteq Timers
    BY DEF TypeOK, TimerTypes, releaseSlot, cancelMatchTimer
  <2>2. aliveCancels' \in [Name -> Id \cup {0}] /\ alives' \subseteq AliveLoops
    BY AliveLoopCancelled DEF TypeOK, releaseSlot
  <2>3. QED
    BY <2>1, <2>2 DEF TimerTypes
<1>4. CASE IsDynamic(n)
  <2>1. destroyDSlot(n)
    BY <1>4 DEF releaseSlot
  <2>2. QED
    BY <1>1, <1>2, <1>3, <1>4, <2>1, Destroyed DEF TypeOK
<1>5. CASE ~IsDynamic(n)
  <2>1. /\ seq < MaxId /\ seq' = seq + 1 /\ persistSlots({n})
        /\ dslotSeq' = dslotSeq /\ batch' = batch /\ store' = store
    BY <1>5 DEF releaseSlot
  <2>2. PICK minted \in MintOutcomes : slots' = [slots EXCEPT ![n] = unclaimSlot(@, minted)]
    BY <1>5 DEF releaseSlot
  <2>3. minted \in BOOLEAN /\ (minted \/ "mint" \in Env)
    BY Zenon DEF MintOutcomes
  <2>4. SlotMap(slots) /\ IsSlot(slots[n]) /\ ClaimTypes
    BY DEF TypeOK, ClaimTypes, SlotMap
  <2> DEFINE t == unclaimSlot(slots[n], minted)
  <2>5. /\ IsSlot(t) /\ t.live = slots[n].live /\ t.state = "Unclaimed" /\ t.activity = "Idle"
        /\ t.claim = IF minted THEN Minted(seq + 1) ELSE slots[n].claim
    BY <2>1, <2>3, <2>4, UnclaimedSlot
  <2>6. slots' = [slots EXCEPT ![n] = t]
    BY <2>2, <2>4 DEF SlotMap
  <2> HIDE DEF t
  <2>7. SlotMap(slots') /\ slots'[n] = t /\ \A m \in Name \ {n} : slots'[m] = slots[m]
    BY <2>4, <2>5, <2>6 DEF SlotMap
  <2>8. ClaimTypes'
    BY <2>1, <2>7, StartdAssumption DEF TypeOK, ClaimTypes, SlotMap
  <2>9. /\ RecordMap(pending)'
        /\ \A m \in Name : pending'[m] = pending[m] \/ (HasStore /\ pending'[m] = RecordOf(m)')
    <3>1. {n} \in SUBSET Name /\ RecordMap(pending)
      BY DEF TypeOK, DiskTypes
    <3>2. QED
      BY <1>2, <2>1, <2>8, <3>1, Persisted
  <2>10. GivenUp(n)
    BY <2>3, <2>5, <2>7 DEF GivenUp, SameClaim, Minted
  <2>11. DiskTypes' /\ DiskStep
    BY <2>1, <2>9 DEF DiskTypes, DiskStep, RecordsAt, TypeOK, RecordMap
  <2>12. QED
    BY <1>1, <1>2, <1>3, <2>8, <2>10, <2>11 DEF TypeOK
<1>6. QED
  BY <1>4, <1>5

-----------------------------------------------------------------------------
(* Steps that are only about goroutines, timers and the disk. *)

\* Two slots agree on their control state and on the claim's id and state.
SameState(s, t) ==
  /\ s.live = t.live /\ s.state = t.state /\ s.activity = t.activity
  /\ s.claim.id = t.claim.id /\ s.claim.state = t.claim.state

\* No supervisor starts, ends or changes its slot.
SupervisorsStay ==
  \A g \in Gen : /\ acts'[g].slot = acts[g].slot
                 /\ acts'[g].sup = "none" <=> acts[g].sup = "none"
                 /\ acts'[g].sup = "done" => acts[g].sup = "done"

\* The step leaves claims, leases and the activations map alone.
Quiet ==
  /\ \A n \in Name : SameState(slots'[n], slots[n])
  /\ activations' = activations /\ gen' = gen /\ dslotSeq' = dslotSeq
  /\ aliveCancels' = aliveCancels /\ alives' = alives /\ phase' = phase
  /\ SupervisorsStay /\ DiskStep

\* A goroutine of activation g moves.
LEMMA ActSteps ==
  ASSUME TypeOK, NEW g \in Gen, NEW act \in Acts, actStep(g, act),
         act.slot = acts[g].slot, act.sup = "none" <=> acts[g].sup = "none",
         act.sup = "done" => acts[g].sup = "done", starters' \in [Gen -> StarterStates]
  PROVE  TypeOK' /\ Quiet
<1> USE DEF TypeOK, actStep, claimVars, timerVars, actVars, deactVars, diskVars, lifeVars
<1>1. ActTypes'
  BY Zenon DEF ActTypes
<1>2. ClaimTypes' /\ TimerTypes' /\ DeactTypes' /\ DiskTypes' /\ LifeTypes'
  BY DEF ClaimTypes, TimerTypes, DeactTypes, DiskTypes, LifeTypes, RecordMap, SlotMap
<1>3. SupervisorsStay
  BY DEF SupervisorsStay, ActTypes
<1>4. QED
  BY <1>1, <1>2, <1>3 DEF Quiet, SameState, DiskStep, RecordsAt

\* Every step of Supervise and Reply, the reaper and the backstop.
LEMMA GoroutineSteps ==
  ASSUME TypeOK, NEW g \in Gen,
         Supervise(g) \/ Reply(g) \/ reapStarter(g) \/ backstopFires(g)
  PROVE  TypeOK' /\ Quiet
<1> DEFINE a == acts[g]
<1>1. a \in Acts /\ starters \in [Gen -> StarterStates]
  BY DEF TypeOK, ActTypes
<1>2. ASSUME NEW st \in StarterStates
      PROVE  [starters EXCEPT ![g] = st] \in [Gen -> StarterStates]
  BY <1>1
<1>3. "vacating" \in StarterStates /\ "lost" \in StarterStates
  BY DEF StarterStates
<1>4. CASE handlerPasses(g)
  <2> DEFINE b == [a EXCEPT !.hand = "done"]
  <2>1. /\ b \in Acts /\ b.slot = a.slot
        /\ (b.sup = "none" <=> a.sup = "none") /\ (b.sup = "done" => a.sup = "done")
    BY <1>1, <1>4 DEF handlerPasses, Acts
  <2>2. actStep(g, b) /\ starters' = starters
    BY <1>4 DEF handlerPasses
  <2> HIDE DEF b
  <2>3. QED
    BY <1>1, <2>1, <2>2, ActSteps
<1>5. CASE handlerFails(g)
  <2> DEFINE b == [a EXCEPT !.hand = "exit"]
  <2>1. /\ b \in Acts /\ b.slot = a.slot
        /\ (b.sup = "none" <=> a.sup = "none") /\ (b.sup = "done" => a.sup = "done")
    BY <1>1, <1>5 DEF handlerFails, Acts
  <2>2. actStep(g, b) /\ starters' = starters
    BY <1>5 DEF handlerFails
  <2> HIDE DEF b
  <2>3. QED
    BY <1>1, <2>1, <2>2, ActSteps
<1>6. CASE supConnects(g)
  <2> DEFINE b == [a EXCEPT !.sup = "greet"]
  <2>1. /\ b \in Acts /\ b.slot = a.slot
        /\ (b.sup = "none" <=> a.sup = "none") /\ (b.sup = "done" => a.sup = "done")
    BY <1>1, <1>6 DEF supConnects, Acts
  <2>2. actStep(g, b) /\ starters' \in [Gen -> StarterStates]
    <3>1. starters[g] \in StarterStates /\ "running" \in StarterStates
      BY <1>1 DEF StarterStates
    <3>2. QED
      BY <1>1, <1>2, <1>6, <3>1 DEF supConnects
  <2> HIDE DEF b
  <2>3. QED
    BY <1>1, <2>1, <2>2, ActSteps
<1>7. CASE supGivesUp(g)
  <2> DEFINE b == [a EXCEPT !.sup = IF a.adopted THEN "giveup" ELSE "exit",
                            !.vacateCh = IF Closed(g) THEN "empty" ELSE @]
  <2>1. /\ b \in Acts /\ b.slot = a.slot
        /\ (b.sup = "none" <=> a.sup = "none") /\ (b.sup = "done" => a.sup = "done")
    BY <1>1, <1>7, Zenon DEF supGivesUp, Acts
  <2>2. actStep(g, b) /\ starters' = starters
    BY <1>7 DEF supGivesUp
  <2> HIDE DEF b
  <2>3. QED
    BY <1>1, <2>1, <2>2, ActSteps
<1>8. CASE supReadsHello(g)
  <2> DEFINE b == [a EXCEPT !.sup = "hello"]
  <2>1. /\ b \in Acts /\ b.slot = a.slot
        /\ (b.sup = "none" <=> a.sup = "none") /\ (b.sup = "done" => a.sup = "done")
    BY <1>1, <1>8 DEF supReadsHello, Acts
  <2>2. actStep(g, b) /\ starters' = starters
    BY <1>8 DEF supReadsHello
  <2> HIDE DEF b
  <2>3. QED
    BY <1>1, <2>1, <2>2, ActSteps
<1>9. CASE supReadsFinal(g)
  <2> DEFINE b == [a EXCEPT !.sup = "final"]
  <2>1. /\ b \in Acts /\ b.slot = a.slot
        /\ (b.sup = "none" <=> a.sup = "none") /\ (b.sup = "done" => a.sup = "done")
    BY <1>1, <1>9 DEF supReadsFinal, Acts
  <2>2. actStep(g, b) /\ starters' = starters
    BY <1>9 DEF supReadsFinal
  <2> HIDE DEF b
  <2>3. QED
    BY <1>1, <2>1, <2>2, ActSteps
<1>10. CASE supExits(g)
  <2> DEFINE b == [a EXCEPT !.sup = "exit", !.vacateCh = IF Closed(g) THEN "empty" ELSE @]
  <2>1. /\ b \in Acts /\ b.slot = a.slot
        /\ (b.sup = "none" <=> a.sup = "none") /\ (b.sup = "done" => a.sup = "done")
    BY <1>1, <1>10, Zenon DEF supExits, Acts, Serving
  <2>2. actStep(g, b) /\ starters' = starters
    BY <1>10 DEF supExits
  <2> HIDE DEF b
  <2>3. QED
    BY <1>1, <2>1, <2>2, ActSteps
<1>11. CASE reapStarter(g)
  <2> DEFINE b == [a EXCEPT !.reap = "exit", !.backstop = FALSE]
  <2>1. /\ b \in Acts /\ b.slot = a.slot
        /\ (b.sup = "none" <=> a.sup = "none") /\ (b.sup = "done" => a.sup = "done")
    <3>1. b \in Acts
      BY <1>1, Zenon DEF Acts
    <3>2. b.slot = a.slot /\ b.sup = a.sup
      BY <1>1 DEF Acts
    <3>3. QED
      BY <3>1, <3>2
  <2>2. actStep(g, b) /\ starters' = starters
    BY <1>11 DEF reapStarter
  <2> HIDE DEF b
  <2>3. QED
    BY <1>1, <2>1, <2>2, ActSteps
<1>12. CASE supRelays(g)
  <2> DEFINE b == [a EXCEPT !.vacateCh = "empty"]
  <2>1. b \in Acts /\ b.slot = a.slot /\ b.sup = a.sup
    BY <1>1 DEF Acts
  <2>2. actStep(g, b) /\ starters' \in [Gen -> StarterStates]
    BY <1>1, <1>2, <1>3, <1>12 DEF supRelays
  <2> HIDE DEF b
  <2>3. QED
    BY <2>1, <2>2, ActSteps
<1>13. CASE backstopFires(g)
  <2> DEFINE b == [a EXCEPT !.backstop = FALSE]
  <2>1. b \in Acts /\ b.slot = a.slot /\ b.sup = a.sup
    BY <1>1, Zenon DEF Acts
  <2>2. actStep(g, b) /\ starters' \in [Gen -> StarterStates]
    BY <1>1, <1>2, <1>3, <1>13 DEF backstopFires
  <2> HIDE DEF b
  <2>3. QED
    BY <2>1, <2>2, ActSteps
<1>14. QED
  BY <1>4, <1>5, <1>6, <1>7, <1>8, <1>9, <1>10, <1>11, <1>12, <1>13 DEF Supervise, Reply

\* What a step does not touch keeps its type.
LEMMA Frames ==
  ASSUME TypeOK
  PROVE  /\ slots' = slots /\ seq' = seq /\ dslotSeq' = dslotSeq => ClaimTypes'
         /\ UNCHANGED timerVars => TimerTypes'
         /\ UNCHANGED actVars => ActTypes'
         /\ UNCHANGED deactVars => DeactTypes'
         /\ UNCHANGED diskVars => DiskTypes' /\ DiskStep
         /\ UNCHANGED lifeVars => LifeTypes'
         /\ slots' = slots => \A n \in Name : SameState(slots'[n], slots[n])
         /\ acts' = acts => SupervisorsStay
BY DEF TypeOK, ClaimTypes, TimerTypes, ActTypes, DeactTypes, DiskTypes, LifeTypes, SlotMap,
       RecordMap, timerVars, actVars, deactVars, diskVars, lifeVars, DiskStep, RecordsAt,
       SupervisorsStay, SameState

\* A match timer elapses.
LEMMA TimerFires ==
  ASSUME TypeOK, NEW t \in timers, matchTimerFires(t)
  PROVE  TypeOK' /\ Quiet
<1>1. TimerTypes'
  <2>1. [t EXCEPT !.fired = TRUE] \in Timers
    BY Zenon DEF TypeOK, TimerTypes, Timers
  <2>2. QED
    BY <2>1, Zenon DEF TypeOK, TimerTypes, matchTimerFires
<1>2. UNCHANGED <<claimVars, aliveCancels, alives, actVars, deactVars, diskVars, lifeVars>>
  BY DEF matchTimerFires
<1>3. QED
  BY <1>1, <1>2, Frames
  DEF TypeOK, Quiet, claimVars, actVars, lifeVars

\* A starter ends.
LEMMA StarterEnds ==
  ASSUME TypeOK, NEW g \in Gen, starterExits(g) \/ starterAbandoned(g) \/ starterKilled(g)
  PROVE  TypeOK' /\ Quiet
<1>1. starters' \in [Gen -> StarterStates]
  BY DEF TypeOK, ActTypes, starterExits, starterAbandoned, starterKilled, StarterStates
<1>2. UNCHANGED <<claimVars, timerVars, activations, gen, acts, deactVars, diskVars, lifeVars>>
  BY DEF starterExits, starterAbandoned, starterKilled
<1>3. ActTypes'
  BY <1>1, <1>2 DEF TypeOK, ActTypes
<1>4. QED
  BY <1>2, <1>3, Frames
  DEF TypeOK, Quiet, claimVars, timerVars, lifeVars

\* A DEACTIVATE_CLAIM handler moves.
LEMMA HandlerMoves ==
  ASSUME TypeOK, NEW h \in Deact,
         \/ deactivateReplyFails(h)
         \/ \E id \in Id, command \in {"graceful", "forcibly", "job_done"} :
              doDeactivate(h, id, command)
  PROVE  TypeOK' /\ Quiet
<1>1. UNCHANGED <<claimVars, timerVars, actVars, diskVars, lifeVars>>
  BY DEF deactivateReplyFails, doDeactivate
<1>2. DeactTypes'
  <2>1. CASE deactivateReplyFails(h)
    BY <2>1, NothingIsTyped DEF deactivateReplyFails, TypeOK, DeactTypes
  <2>2. ASSUME NEW id \in Id, NEW command \in {"graceful", "forcibly", "job_done"},
               doDeactivate(h, id, command)
        PROVE  DeactTypes'
    <3>1. PICK n \in findSlotByClaimID(id) :
            \/ /\ deferredDeactivate' = [deferredDeactivate EXCEPT ![n] = h]
               /\ deacts' = [deacts EXCEPT ![h] = [pc |-> "wait", slot |-> n, hard |-> FALSE]]
            \/ /\ deacts' = [deacts EXCEPT ![h] =
                               [pc |-> "vacate", slot |-> n, hard |-> command = "forcibly"]]
               /\ UNCHANGED deferredDeactivate
      BY <2>2 DEF doDeactivate
    <3>2. n \in Name
      BY DEF findSlotByClaimID
    <3>3. /\ [pc |-> "wait", slot |-> n, hard |-> FALSE] \in Handlers
          /\ [pc |-> "vacate", slot |-> n, hard |-> command = "forcibly"] \in Handlers
      BY <3>2 DEF Handlers
    <3>4. QED
      BY <3>1, <3>2, <3>3, Zenon DEF TypeOK, DeactTypes
  <2>3. QED
    BY <2>1, <2>2
<1>3. QED
  BY <1>1, <1>2, Frames DEF TypeOK, Quiet, claimVars, timerVars, actVars, lifeVars

\* Replacing one activation by one with the same slot and supervisor state.
LEMMA ActReplaced ==
  ASSUME NEW heap \in [Gen -> Acts], NEW g \in Gen, NEW b \in Acts,
         b.slot = heap[g].slot, b.sup = heap[g].sup
  PROVE  /\ [heap EXCEPT ![g] = b] \in [Gen -> Acts]
         /\ \A h \in Gen : /\ [heap EXCEPT ![g] = b][h].slot = heap[h].slot
                           /\ [heap EXCEPT ![g] = b][h].sup = heap[h].sup
OBVIOUS

\* evVacate.
LEMMA Vacates ==
  ASSUME TypeOK, NEW h \in Deact, doVacate(h)
  PROVE  TypeOK' /\ Quiet
<1> DEFINE g == activations[deacts[h].slot]
           hard == deacts[h].hard
           timed == ~hard /\ phase = "up"
           a == acts[g]
           b == [a EXCEPT !.vacating = TRUE,
                          !.vacateCh = offer(a.vacateCh, IF hard THEN "hard" ELSE "soft"),
                          !.esc = IF timed THEN a.esc + 1 ELSE a.esc]
<1>1. UNCHANGED <<claimVars, timerVars, activations, gen, starters, deferredDeactivate,
                  diskVars, lifeVars>>
  BY Zenon DEF doVacate
<1>2. DeactTypes'
  BY NothingIsTyped DEF doVacate, TypeOK, DeactTypes
<1>3. acts' \in [Gen -> Acts] /\ SupervisorsStay
  <2>1. CASE g = 0
    <3>1. acts' = acts
      BY <2>1 DEF doVacate
    <3>2. QED
      BY <3>1, Frames DEF TypeOK, ActTypes
  <2>2. CASE g # 0
    <3>1. g \in Gen /\ acts \in [Gen -> Acts] /\ a \in Acts
      BY <2>2 DEF TypeOK, ActTypes, DeactTypes, Handlers
    <3>2. timed => a.esc < MaxEsc
      BY <2>2, Zenon DEF doVacate
    <3>3. a.esc \in 0..MaxEsc /\ a.vacateCh \in {"empty", "soft", "hard"}
      BY <3>1 DEF Acts
    <3>4. /\ (IF timed THEN a.esc + 1 ELSE a.esc) \in 0..MaxEsc
          /\ offer(a.vacateCh, IF hard THEN "hard" ELSE "soft") \in {"empty", "soft", "hard"}
      <4>1. (IF timed THEN a.esc + 1 ELSE a.esc) \in 0..MaxEsc
        <5> HIDE DEF timed, a
        <5>1. QED
          BY <3>2, <3>3, StartdAssumption
      <4>2. QED
        BY <3>3, <4>1 DEF offer
    <3>5. acts' = [acts EXCEPT ![g] = b]
      BY <2>2, <3>1, Zenon DEF doVacate, Acts
    <3> HIDE DEF timed, a
    <3>6. b \in Acts /\ b.slot = a.slot /\ b.sup = a.sup
      BY <3>1, <3>4, Zenon DEF Acts
    <3> HIDE DEF b
    <3>7. b.slot = acts[g].slot /\ b.sup = acts[g].sup
      BY <3>6 DEF a
    <3>8. QED
      BY <3>1, <3>5, <3>6, <3>7, ActReplaced, Zenon DEF SupervisorsStay
  <2>3. QED
    BY <2>1, <2>2
<1>4. ActTypes'
  BY <1>1, <1>3 DEF TypeOK, ActTypes
<1>5. QED
  BY <1>1, <1>2, <1>3, <1>4, Frames DEF TypeOK, Quiet, claimVars, timerVars, lifeVars

\* evVacateEscalate.
LEMMA Escalates ==
  ASSUME TypeOK, NEW g \in Gen, doVacateEscalate(g)
  PROVE  TypeOK' /\ Quiet
<1> DEFINE a == acts[g]
           low == [a EXCEPT !.esc = a.esc - 1]
           b == [low EXCEPT !.vacateCh = offer(a.vacateCh, "hard")]
<1>1. /\ UNCHANGED <<claimVars, timerVars, activations, gen, starters, deactVars, diskVars,
                     lifeVars>>
      /\ a.esc > 0
  BY DEF doVacateEscalate
<1>2. acts \in [Gen -> Acts] /\ a \in Acts
  BY DEF TypeOK, ActTypes
<1>3. a.esc - 1 \in 0..MaxEsc /\ offer(a.vacateCh, "hard") \in {"empty", "soft", "hard"}
  BY <1>1, <1>2, StartdAssumption DEF Acts, offer
<1>4. acts' = [acts EXCEPT ![g] = low] \/ acts' = [acts EXCEPT ![g] = b]
  BY <1>2, Zenon DEF doVacateEscalate, Acts
<1> HIDE DEF a
<1>5. low \in Acts /\ low.slot = a.slot /\ low.sup = a.sup
  BY <1>2, <1>3 DEF Acts
<1> HIDE DEF low
<1>6. b \in Acts /\ b.slot = a.slot /\ b.sup = a.sup
  BY <1>3, <1>5 DEF Acts
<1> HIDE DEF b
<1>7. a = acts[g]
  BY DEF a
<1>8. acts' \in [Gen -> Acts] /\ SupervisorsStay
  BY <1>2, <1>4, <1>5, <1>6, <1>7, ActReplaced DEF SupervisorsStay
<1>9. ActTypes'
  BY <1>1, <1>8 DEF TypeOK, ActTypes
<1>10. QED
  BY <1>1, <1>8, <1>9, Frames DEF TypeOK, Quiet, claimVars, timerVars, lifeVars

\* evStarterHello: the address is recorded and the record queued.
LEMMA HelloTaken ==
  ASSUME TypeOK, NEW g \in Gen, doStarterHello(g)
  PROVE  TypeOK' /\ Quiet
<1> DEFINE n == acts[g].slot
           h == activations[n]
           a == acts[g]
           heap == [acts EXCEPT ![g] = [a EXCEPT !.sup = "serve"]]
           c == heap[h]
           S == IF h # 0 /\ acts[h].addr # g /\ slots[n].live THEN {n} ELSE {}
<1>1. /\ UNCHANGED <<claimVars, timerVars, activations, gen, starters, deactVars, batch, store,
                     lifeVars>>
      /\ a.sup = "hello" /\ persistSlots(S)
  BY DEF doStarterHello
<1>2. acts \in [Gen -> Acts] /\ a \in Acts /\ n \in Name /\ h \in Gen \cup {0}
  BY DEF TypeOK, ActTypes, Acts
<1>3. [acts EXCEPT ![g].sup = "serve"] = heap
  BY <1>2
<1>4. /\ heap \in [Gen -> Acts]
      /\ \A k \in Gen : /\ heap[k].slot = acts[k].slot
                        /\ heap[k].sup = (IF k = g THEN "serve" ELSE acts[k].sup)
  BY <1>2 DEF Acts
<1>5. acts' = heap \/ (h # 0 /\ acts' = [heap EXCEPT ![h] = [c EXCEPT !.addr = g]])
  BY <1>3, <1>4 DEF doStarterHello
<1> HIDE DEF heap
<1>6. ASSUME NEW act \in Acts
      PROVE  LET b == [act EXCEPT !.addr = g] IN
             b \in Acts /\ b.slot = act.slot /\ b.sup = act.sup
  BY DEF Acts
<1>7. /\ acts' \in [Gen -> Acts]
      /\ \A k \in Gen : acts'[k].slot = heap[k].slot /\ acts'[k].sup = heap[k].sup
  <2>1. CASE acts' = heap
    BY <1>4, <2>1
  <2>2. CASE h # 0 /\ acts' = [heap EXCEPT ![h] = [c EXCEPT !.addr = g]]
    <3> DEFINE b == [c EXCEPT !.addr = g]
    <3>1. h \in Gen /\ c \in Acts /\ c = heap[h]
      BY <1>2, <1>4, <2>2
    <3>2. b \in Acts /\ b.slot = c.slot /\ b.sup = c.sup
      BY <1>6, <3>1
    <3>3. acts' = [heap EXCEPT ![h] = b]
      BY <2>2
    <3> HIDE DEF b, c, h
    <3>4. QED
      BY <1>4, <3>1, <3>2, <3>3, ActReplaced
  <2>3. QED
    BY <1>5, <2>1, <2>2
<1>8. SupervisorsStay
  BY <1>1, <1>4, <1>7 DEF SupervisorsStay
<1>9. ActTypes' /\ ClaimTypes'
  BY <1>1, <1>7, Frames DEF TypeOK, ActTypes, claimVars
<1>10. S \in SUBSET Name /\ RecordMap(pending)
  BY <1>2 DEF TypeOK, DiskTypes
<1> HIDE DEF S
<1>11. /\ RecordMap(pending)'
       /\ \A m \in Name : pending'[m] = pending[m] \/ (HasStore /\ pending'[m] = RecordOf(m)')
  BY <1>1, <1>9, <1>10, Persisted
<1>12. DiskTypes' /\ DiskStep
  BY <1>1, <1>11 DEF TypeOK, DiskTypes, DiskStep, RecordsAt, RecordMap
<1>13. QED
  BY <1>1, <1>8, <1>9, <1>12, Frames, Zenon DEF TypeOK, Quiet, claimVars, timerVars, lifeVars

\* evStarterFinal: only the claim's report changes.
LEMMA FinalTaken ==
  ASSUME TypeOK, NEW g \in Gen, doStarterFinal(g)
  PROVE  TypeOK' /\ Quiet
<1> DEFINE n == acts[g].slot
           a == acts[g]
<1>1. /\ UNCHANGED <<seq, dslotSeq, timerVars, activations, gen, starters, deactVars, diskVars,
                     lifeVars>>
      /\ acts' = [acts EXCEPT ![g] = [a EXCEPT !.sup = "reported"]] /\ a.sup = "final"
  BY DEF doStarterFinal, TypeOK, ActTypes
<1>2. acts \in [Gen -> Acts] /\ a \in Acts /\ n \in Name /\ SlotMap(slots) /\ IsSlot(slots[n])
  BY DEF TypeOK, ActTypes, Acts, ClaimTypes, SlotMap
<1>3. ActTypes' /\ SupervisorsStay
  BY <1>1, <1>2 DEF TypeOK, ActTypes, Acts, SupervisorsStay
<1> DEFINE t == SetFinal(slots[n], g)
<1>4. IsSlot(t) /\ SameState(t, slots[n])
  BY <1>2, SetFinalKeeps DEF SameState
<1>5. slots' = slots \/ slots' = [slots EXCEPT ![n] = t]
  BY DEF doStarterFinal
<1> HIDE DEF t
<1>6. SlotMap(slots') /\ \A m \in Name : SameState(slots'[m], slots[m])
  BY <1>2, <1>4, <1>5 DEF SlotMap, SameState
<1>7. ClaimTypes'
  BY <1>1, <1>6 DEF TypeOK, ClaimTypes, SlotMap
<1>8. QED
  BY <1>1, <1>3, <1>6, <1>7, Frames DEF TypeOK, Quiet, timerVars, lifeVars

\* The persister's goroutine.
LEMMA PersisterSteps ==
  ASSUME TypeOK, Persisting
  PROVE  TypeOK' /\ Quiet
<1>1. DiskTypes' /\ DiskStep
  <2>1. CASE persisterFlushes
    BY <2>1, NothingIsTyped
    DEF persisterFlushes, P!flush, P!Empty, TypeOK, DiskTypes, RecordMap, DiskStep, RecordsAt
  <2>2. ASSUME NEW n \in Name, NEW ok \in BOOLEAN, persisterCommits(n, ok)
        PROVE  DiskTypes' /\ DiskStep
    BY <2>2, NothingIsTyped, Zenon
    DEF persisterCommits, P!commit, TypeOK, DiskTypes, RecordMap, DiskStep, RecordsAt
  <2>3. QED
    BY <2>1, <2>2 DEF Persisting
<1>2. UNCHANGED <<claimVars, timerVars, actVars, deactVars, lifeVars>>
  BY DEF Persisting, persisterFlushes, persisterCommits
<1>3. QED
  BY <1>1, <1>2, Frames DEF TypeOK, Quiet, claimVars, timerVars, actVars, lifeVars

-----------------------------------------------------------------------------
(* Steps that change a claim. *)

\* A slot found by its claim id.
LEMMA Found ==
  ASSUME TypeOK, NEW id, NEW n \in findSlotByClaimID(id)
  PROVE  /\ n \in Name /\ slots[n].live /\ slots[n].claim.id = id
         /\ SlotMap(slots) /\ IsSlot(slots[n])
BY DEF TypeOK, ClaimTypes, SlotMap, findSlotByClaimID

\* What the disk looks like after a handler that ends in persistSlot.
LEMMA DiskAfterPersist ==
  ASSUME TypeOK, ClaimTypes', ActTypes', NEW S \in SUBSET Name, persistSlots(S),
         batch' = batch, store' = store
  PROVE  DiskTypes' /\ DiskStep
<1>1. RecordMap(pending)
  BY DEF TypeOK, DiskTypes
<1>2. /\ RecordMap(pending)'
      /\ \A m \in Name : pending'[m] = pending[m] \/ (HasStore /\ pending'[m] = RecordOf(m)')
  BY <1>1, Persisted
<1>3. QED
  BY <1>2 DEF TypeOK, DiskTypes, DiskStep, RecordsAt, RecordMap

\* The state of the goroutines and leases that the claim handlers leave alone.
Unmoved ==
  /\ activations' = activations /\ gen' = gen /\ acts' = acts /\ phase' = phase
  /\ DiskStep

\* MATCH_INFO moves an Unclaimed slot to Matched.
MatchedStep(n) ==
  /\ \A m \in Name \ {n} : slots'[m] = slots[m]
  /\ slots[n].live /\ slots[n].state = "Unclaimed" /\ slots[n].claim.state = "Unclaimed"
  /\ slots'[n].live /\ slots'[n].state = "Matched" /\ slots'[n].activity = "Idle"
  /\ slots'[n].claim = slots[n].claim
  /\ aliveCancels' = aliveCancels /\ alives' = alives /\ dslotSeq' = dslotSeq /\ Unmoved

\* doMatchInfo does that.
LEMMA MatchInfoStep ==
  ASSUME TypeOK, NEW id \in Id, doMatchInfo(id)
  PROVE  TypeOK' /\ \E n \in Name : MatchedStep(n)
<1>1. PICK n \in findSlotByClaimID(id) :
        /\ slots[n].claim.state = "Unclaimed"
        /\ slots[n].state = "Unclaimed"
        /\ slots' = [slots EXCEPT ![n] = SetStateActivity(@, "Matched", "Idle")]
        /\ startMatchTimer(n, id)
        /\ UNCHANGED <<seq, dslotSeq, aliveCancels, alives, actVars, deactVars, batch, store,
                       lifeVars>>
        /\ persistSlots({n})
  BY Zenon DEF doMatchInfo
<1>2. /\ n \in Name /\ slots[n].live /\ slots[n].claim.id = id
      /\ SlotMap(slots) /\ IsSlot(slots[n])
  BY Found
<1> DEFINE t == SetStateActivity(slots[n], "Matched", "Idle")
<1>3. /\ IsSlot(t) /\ t.live = slots[n].live
      /\ t.claim = slots[n].claim /\ t.state = "Matched" /\ t.activity = "Idle"
  BY <1>2, SetStateActivitySets, Zenon DEF SlotStates
<1>4. slots' = [slots EXCEPT ![n] = t]
  BY <1>1
<1> HIDE DEF t
<1>5. SlotMap(slots') /\ slots'[n] = t /\ \A m \in Name \ {n} : slots'[m] = slots[m]
  BY <1>2, <1>3, <1>4 DEF SlotMap
<1>6. ClaimTypes'
  BY <1>1, <1>5 DEF TypeOK, ClaimTypes, SlotMap
<1>7. TimerTypes'
  BY <1>1, <1>2, MatchTimers, Zenon DEF TypeOK, TimerTypes
<1>8. ActTypes' /\ DeactTypes' /\ LifeTypes'
  BY <1>1, Frames, Zenon DEF TypeOK
<1>9. DiskTypes' /\ DiskStep
  BY <1>1, <1>2, <1>6, <1>8, DiskAfterPersist, Zenon
<1>10. MatchedStep(n)
  BY <1>1, <1>2, <1>3, <1>5, <1>9, Zenon DEF MatchedStep, Unmoved, actVars, lifeVars
<1>11. QED
  BY <1>2, <1>6, <1>7, <1>8, <1>9, <1>10 DEF TypeOK

\* A match timer's event gives a Matched slot up or changes no slot.
TimeoutStep(n) ==
  /\ \/ \A m \in Name : slots'[m] = slots[m]
     \/ slots[n].state = "Matched" /\ GivenUp(n)
  /\ aliveCancels' = aliveCancels /\ alives' = alives /\ dslotSeq' = dslotSeq /\ Unmoved

\* doMatchTimeout does that.
LEMMA MatchTimeoutStep ==
  ASSUME TypeOK, NEW t \in timers, doMatchTimeout(t)
  PROVE  TypeOK' /\ \E n \in Name : TimeoutStep(n)
<1> DEFINE n == t.slot
           due == timeoutDue(t)
           S == IF due THEN {n} ELSE {}
<1>1. /\ timers' = timers \ {t} /\ matchCancels' = [matchCancels EXCEPT ![n] = 0]
      /\ UNCHANGED <<dslotSeq, aliveCancels, alives, actVars, deactVars, batch, store, lifeVars>>
      /\ persistSlots(S)
      /\ \/ ~due /\ UNCHANGED <<slots, seq>>
         \/ /\ due /\ seq < MaxId
            /\ \E minted \in MintOutcomes :
                  slots' = [slots EXCEPT ![n] = unclaimSlot(@, minted)]
            /\ seq' = seq + 1
  BY DEF doMatchTimeout
<1>2. n \in Name /\ SlotMap(slots) /\ IsSlot(slots[n]) /\ ClaimTypes
  BY DEF TypeOK, TimerTypes, Timers, ClaimTypes, SlotMap
<1>3. /\ ClaimTypes'
      /\ \/ \A m \in Name : slots'[m] = slots[m]
         \/ slots[n].state = "Matched" /\ GivenUp(n)
  <2>1. CASE ~due
    BY <1>1, <2>1, Frames
  <2>2. CASE due
    <3>1. PICK minted \in MintOutcomes : slots' = [slots EXCEPT ![n] = unclaimSlot(@, minted)]
      BY <1>1, <2>2
    <3>2. minted \in BOOLEAN /\ (minted \/ "mint" \in Env) /\ seq < MaxId /\ seq' = seq + 1
      BY <1>1, <2>2, Zenon DEF MintOutcomes
    <3> DEFINE u == unclaimSlot(slots[n], minted)
    <3>3. /\ IsSlot(u) /\ u.live = slots[n].live /\ u.state = "Unclaimed" /\ u.activity = "Idle"
          /\ u.claim = IF minted THEN Minted(seq + 1) ELSE slots[n].claim
      BY <1>2, <3>2, UnclaimedSlot
    <3>4. slots' = [slots EXCEPT ![n] = u]
      BY <3>1
    <3> HIDE DEF u
    <3>5. SlotMap(slots') /\ slots'[n] = u /\ \A m \in Name \ {n} : slots'[m] = slots[m]
      BY <1>2, <3>3, <3>4 DEF SlotMap
    <3>6. ClaimTypes'
      BY <1>1, <3>2, <3>5, StartdAssumption DEF TypeOK, ClaimTypes, SlotMap
    <3>7. GivenUp(n)
      <4>1. u.claim.state = "Unclaimed" \/ "mint" \in Env
        BY <3>2, <3>3 DEF Minted
      <4>2. QED
        BY <3>3, <3>5, <4>1 DEF GivenUp, SameClaim
    <3>8. QED
      BY <2>2, <3>6, <3>7 DEF timeoutDue
  <2>3. QED
    BY <2>1, <2>2
<1>4. TimerTypes'
  BY <1>1, <1>2 DEF TypeOK, TimerTypes
<1>5. ActTypes' /\ DeactTypes' /\ LifeTypes'
  BY <1>1, Frames DEF TypeOK
<1>6. S \in SUBSET Name
  BY <1>2
<1> HIDE DEF S
<1>7. DiskTypes' /\ DiskStep
  BY <1>1, <1>3, <1>5, <1>6, DiskAfterPersist
<1>8. TimeoutStep(n)
  BY <1>1, <1>3, <1>7 DEF TimeoutStep, Unmoved, actVars, lifeVars
<1>9. QED
  BY <1>2, <1>3, <1>4, <1>5, <1>7, <1>8, Zenon DEF TypeOK

\* Slot n is claimed under id, with an ALIVE loop of its own: it had no owner,
\* and was found by its claim or is the next dynamic slot.
AcceptedStep(n, id) ==
  /\ \A m \in Name \ {n} : SameClaim(slots'[m], slots[m])
  /\ slots'[n].live /\ slots'[n].state = "Claimed" /\ slots'[n].activity = "Idle"
  /\ slots'[n].claim.id = id /\ slots'[n].claim.state = "ClaimedIdle"
  /\ startAliveLoop(n, id) /\ Unmoved
  /\ \/ slots[n].live /\ slots[n].claim.state = "Unclaimed" /\ dslotSeq' = dslotSeq
     \/ n[2] = dslotSeq + 1 /\ dslotSeq' = dslotSeq + 1

\* The request is turned down.
RejectedStep ==
  /\ slots' = slots /\ aliveCancels' = aliveCancels /\ alives' = alives
  /\ dslotSeq' = dslotSeq /\ Unmoved

\* A static slot accepts.
LEMMA StaticAccepted ==
  ASSUME TypeOK, NEW id \in Id, NEW n \in findSlotByClaimID(id), ActTypes', TimerTypes',
         slots[n].claim.state = "Unclaimed",
         slots' = [slots EXCEPT ![n] = AcceptClaim(@)], startAliveLoop(n, id),
         UNCHANGED <<seq, dslotSeq, actVars, batch, store, lifeVars>>, persistSlots({n})
  PROVE  ClaimTypes' /\ DiskTypes' /\ AcceptedStep(n, id)
<1>1. /\ n \in Name /\ slots[n].live /\ slots[n].claim.id = id
      /\ SlotMap(slots) /\ IsSlot(slots[n])
  BY Found
<1> DEFINE t == AcceptClaim(slots[n])
<1>2. /\ IsSlot(t) /\ t.live = slots[n].live /\ t.state = "Claimed" /\ t.activity = "Idle"
      /\ t.claim.id = id /\ t.claim.state = "ClaimedIdle"
  BY <1>1, AcceptedSlot, Zenon
<1>3. slots' = [slots EXCEPT ![n] = t]
  OBVIOUS
<1> HIDE DEF t
<1>4. SlotMap(slots') /\ slots'[n] = t /\ \A m \in Name \ {n} : slots'[m] = slots[m]
  BY <1>1, <1>2, <1>3 DEF SlotMap
<1>5. ClaimTypes'
  BY <1>4 DEF TypeOK, ClaimTypes, SlotMap
<1>6. DiskTypes' /\ DiskStep
  BY <1>1, <1>5, DiskAfterPersist
<1>7. QED
  BY <1>1, <1>2, <1>4, <1>5, <1>6, Zenon DEF AcceptedStep, SameClaim, Unmoved, actVars, lifeVars

\* A partitionable slot is carved.
LEMMA DynamicAccepted ==
  ASSUME TypeOK, NEW ad \in JobAds, NEW p \in Name, IsPartitionable(p), ActTypes', TimerTypes',
         seq < MaxId, seq' = seq + 1, doRequestClaimPSlot(p, ad),
         UNCHANGED <<actVars, batch, store, lifeVars>>
  PROVE  ClaimTypes' /\ DiskTypes' /\ \E d \in Name : AcceptedStep(d, seq + 1)
<1> DEFINE req == requestedResources(ad)
           d == <<p[1], dslotSeq + 1>>
           new == [NewSlot(req) EXCEPT !.claim = Minted(seq + 1)]
           t == AcceptClaim(new)
           one == [slots EXCEPT ![d] = t]
           cut == [one EXCEPT ![p] = [slots[p] EXCEPT !.res = Carve(slots[p].res, req)]]
<1>1. dslotSeq < MaxDSlots /\ dslotSeq' = dslotSeq + 1 /\ startAliveLoop(d, seq + 1)
      /\ persistSlots({d, p})
  BY DEF doRequestClaimPSlot
<1>2. p = <<1, 0>> /\ d \in DSlots /\ d \in Name /\ d # p /\ seq + 1 \in Id /\ d[2] = dslotSeq + 1
  <2>1. Partitionable /\ ~IsDynamic(p) /\ dslotSeq \in 0..MaxDSlots /\ seq \in 0..MaxId
    BY DEF IsPartitionable, TypeOK, ClaimTypes
  <2>2. p = <<1, 0>>
    BY <2>1 DEF Name, ConfigSlots, DSlots, IsDynamic
  <2>3. dslotSeq + 1 \in 1..MaxDSlots /\ seq + 1 \in Id
    BY <1>1, <2>1, StartdAssumption DEF Id
  <2>4. d = <<1, dslotSeq + 1>>
    BY <2>2
  <2>5. QED
    BY <2>1, <2>2, <2>3, <2>4, SMTT(20) DEF Name, DSlots
<1>3. SlotMap(slots) /\ IsSlot(slots[p])
  BY DEF TypeOK, ClaimTypes, SlotMap
<1>4. IsSlot(new) /\ new.live /\ new.claim.id = seq + 1
  <2>1. Minted(seq + 1) \in Claims(Id, Gen)
    BY <1>2, ClaimsBuilt
  <2>2. IsSlot(new) /\ new.live /\ new.claim = Minted(seq + 1)
    BY <2>1, SlotsBuilt, Zenon
  <2>3. QED
    BY <2>2 DEF Minted
<1> HIDE DEF new, req, d
<1>5. /\ IsSlot(t) /\ t.live /\ t.state = "Claimed" /\ t.activity = "Idle"
      /\ t.claim.id = seq + 1 /\ t.claim.state = "ClaimedIdle"
  BY <1>4, AcceptedSlot, Zenon
<1> HIDE DEF t
<1>6. /\ IsSlot([slots[p] EXCEPT !.res = Carve(slots[p].res, req)])
      /\ SameClaim([slots[p] EXCEPT !.res = Carve(slots[p].res, req)], slots[p])
  BY <1>3, DivisionKeeps, Zenon
<1>7. SlotMap(one) /\ one[d] = t /\ \A m \in Name \ {d} : one[m] = slots[m]
  BY <1>2, <1>3, <1>5 DEF SlotMap
<1>8. SlotMap(cut) /\ cut[d] = t /\ \A m \in Name \ {d} : SameClaim(cut[m], slots[m])
  BY <1>2, <1>6, <1>7, Zenon DEF SlotMap, SameClaim
<1>9. slots' = refreshPSlotChildren(cut, p)
  <2>1. [slots EXCEPT ![d] = t, ![p].res = Carve(@, req)] = cut
    BY <1>2, <1>3, Zenon DEF SlotMap
  <2>2. QED
    BY <2>1 DEF doRequestClaimPSlot, t, new, req, d
<1> HIDE DEF cut
<1>10. SlotMap(slots') /\ \A m \in Name : SameClaim(slots'[m], cut[m])
  BY <1>8, <1>9, RefreshKeeps, Zenon
<1>11. ClaimTypes'
  BY <1>1, <1>2, <1>10, StartdAssumption DEF TypeOK, ClaimTypes, SlotMap, Id
<1>12. DiskTypes' /\ DiskStep
  <2>1. {d, p} \in SUBSET Name
    BY <1>2
  <2>2. QED
    BY <1>1, <1>11, <2>1, DiskAfterPersist
<1>13. AcceptedStep(d, seq + 1)
  <2>1. \A m \in Name \ {d} : SameClaim(slots'[m], slots[m])
    BY <1>8, <1>10, Zenon DEF SameClaim
  <2>2. SameClaim(slots'[d], t)
    BY <1>2, <1>8, <1>10, Zenon
  <2>3. d[2] = dslotSeq + 1
    BY <1>2
  <2>4. Unmoved
    BY <1>12 DEF Unmoved, actVars, lifeVars
  <2>5. QED
    BY <1>1, <1>5, <2>1, <2>2, <2>3, <2>4, Zenon DEF AcceptedStep, SameClaim
<1>14. QED
  BY <1>2, <1>11, <1>12, <1>13

\* doRequestClaim accepts on the slot or on a new dynamic slot, or rejects.
LEMMA RequestStep ==
  ASSUME TypeOK, NEW id \in Id, NEW ad \in JobAds, doRequestClaim(id, ad)
  PROVE  /\ TypeOK'
         /\ RejectedStep \/ \E n \in Name, i \in Id : AcceptedStep(n, i)
<1> DEFINE willing(n) == Requirements(slots[n].res, ad)
           carves(n) == /\ willing(n) /\ IsPartitionable(n)
                        /\ CanCarve(slots[n].res, requestedResources(ad))
<1>1. PICK n \in findSlotByClaimID(id) :
        /\ slots[n].claim.state = "Unclaimed"
        /\ cancelMatchTimer(n)
        /\ UNCHANGED <<actVars, deactVars, batch, store, lifeVars>>
        /\ \/ /\ slots' = [slots EXCEPT ![n] = AcceptClaim(@)]
              /\ startAliveLoop(n, id)
              /\ UNCHANGED <<seq, dslotSeq>>
              /\ persistSlots({n})
           \/ /\ IsPartitionable(n) /\ seq < MaxId
              /\ seq' = seq + 1
              /\ doRequestClaimPSlot(n, ad)
           \/ /\ seq < MaxId
              /\ seq' = seq + 1
              /\ UNCHANGED <<slots, dslotSeq, aliveCancels, alives, pending>>
           \/ UNCHANGED <<claimVars, aliveCancels, alives, pending>>
  BY Zenon DEF doRequestClaim
<1>2. n \in Name /\ SlotMap(slots)
  BY Found
<1>3. matchCancels' \in [Name -> Id \cup {0}] /\ timers' \subseteq Timers
  BY <1>1, <1>2, MatchTimers, Zenon DEF TypeOK
<1>4. ActTypes' /\ DeactTypes' /\ LifeTypes'
  BY <1>1, Frames, Zenon DEF TypeOK
<1>5. CASE /\ slots' = [slots EXCEPT ![n] = AcceptClaim(@)]
           /\ startAliveLoop(n, id)
           /\ UNCHANGED <<seq, dslotSeq>>
           /\ persistSlots({n})
  <2>1. TimerTypes'
    BY <1>2, <1>3, <1>5, AliveLoopStarted DEF TypeOK, TimerTypes
  <2>2. ClaimTypes' /\ DiskTypes' /\ AcceptedStep(n, id)
    BY <1>1, <1>4, <1>5, <2>1, StaticAccepted, Zenon
  <2>3. QED
    BY <1>2, <1>4, <2>1, <2>2 DEF TypeOK
<1>6. CASE /\ IsPartitionable(n) /\ seq < MaxId
           /\ seq' = seq + 1
           /\ doRequestClaimPSlot(n, ad)
  <2> DEFINE d == <<n[1], dslotSeq + 1>>
  <2>1. seq + 1 \in Id /\ d \in Name /\ startAliveLoop(d, seq + 1)
    <3>1. /\ Partitionable /\ ~IsDynamic(n) /\ dslotSeq \in 0..MaxDSlots /\ seq \in 0..MaxId
          /\ dslotSeq < MaxDSlots /\ startAliveLoop(d, seq + 1)
      BY <1>6 DEF IsPartitionable, TypeOK, ClaimTypes, doRequestClaimPSlot
    <3>2. n = <<1, 0>>
      BY <1>2, <3>1, SMTT(60) DEF Name, ConfigSlots, DSlots, IsDynamic
    <3>3. dslotSeq + 1 \in 1..MaxDSlots /\ seq + 1 \in Id
      BY <1>6, <3>1, StartdAssumption DEF Id
    <3>4. QED
      BY <3>1, <3>2, <3>3 DEF Name, DSlots
  <2> HIDE DEF d
  <2>2. TimerTypes'
    BY <1>3, <2>1, AliveLoopStarted DEF TypeOK, TimerTypes
  <2>3. ClaimTypes' /\ DiskTypes' /\ \E e \in Name : AcceptedStep(e, seq + 1)
    BY <1>1, <1>2, <1>4, <1>6, <2>2, DynamicAccepted, Zenon
  <2>4. QED
    BY <1>4, <2>1, <2>2, <2>3 DEF TypeOK
<1>7. CASE \/ /\ seq < MaxId
              /\ seq' = seq + 1
              /\ UNCHANGED <<slots, dslotSeq, aliveCancels, alives, pending>>
           \/ UNCHANGED <<claimVars, aliveCancels, alives, pending>>
  <2>1. /\ slots' = slots /\ dslotSeq' = dslotSeq /\ aliveCancels' = aliveCancels
        /\ alives' = alives /\ UNCHANGED diskVars
    BY <1>1, <1>7, Zenon DEF claimVars, diskVars
  <2>2. seq' \in 0..MaxId
    BY <1>7, StartdAssumption DEF TypeOK, ClaimTypes, claimVars
  <2>3. ClaimTypes' /\ TimerTypes'
    BY <1>3, <2>1, <2>2 DEF TypeOK, ClaimTypes, TimerTypes, SlotMap
  <2>4. DiskTypes' /\ DiskStep
    BY <2>1, Frames
  <2>5. RejectedStep
    BY <1>1, <2>1, <2>4 DEF RejectedStep, Unmoved, actVars, lifeVars
  <2>6. QED
    BY <1>4, <2>3, <2>4, <2>5 DEF TypeOK
<1>8. QED
  BY <1>1, <1>5, <1>6, <1>7, Zenon

-----------------------------------------------------------------------------
(* Steps that change the activations map. *)

\* At most the supervisors of slot n end, and no activation changes its slot.
EndsOnly(n) ==
  \A g \in Gen : /\ acts'[g].slot = acts[g].slot
                 /\ acts'[g].sup = "none" <=> acts[g].sup = "none"
                 /\ acts'[g].sup = "done" /\ acts[g].sup # "done" => acts[g].slot = n

\* Slot n is released; loops are the ALIVE loops before its own is cancelled.
ReleasedStep(n, loops) ==
  /\ GivenUp(n) /\ DiskStep /\ EndsOnly(n) /\ cancelAliveLoop(n, loops)
  /\ activations' = [activations EXCEPT ![n] = 0]
  /\ gen' = gen /\ dslotSeq' = dslotSeq /\ phase' = phase

\* releaseSlot with the caller's changes to acts.
LEMMA ReleaseStep ==
  ASSUME TypeOK, NEW n \in Name, NEW heap \in [Gen -> Acts], NEW loops \in SUBSET alives,
         releaseSlot(n, heap, loops),
         \A g \in Gen : /\ heap[g].slot = acts[g].slot
                        /\ heap[g].sup = "none" <=> acts[g].sup = "none"
                        /\ heap[g].sup = "done" /\ acts[g].sup # "done" => acts[g].slot = n
  PROVE  TypeOK' /\ ReleasedStep(n, loops)
<1>1. /\ TypeOK' /\ DiskStep /\ GivenUp(n)
      /\ activations' = [activations EXCEPT ![n] = 0]
      /\ \A g \in Gen : acts'[g].slot = heap[g].slot /\ acts'[g].sup = heap[g].sup
  BY Released, Zenon
<1>2. cancelAliveLoop(n, loops) /\ gen' = gen /\ phase' = phase /\ dslotSeq' = dslotSeq
  BY DEF releaseSlot, destroyDSlot, lifeVars
<1>3. EndsOnly(n)
  BY <1>1, Zenon DEF EndsOnly
<1>4. QED
  BY <1>1, <1>2, <1>3, Zenon DEF ReleasedStep

\* RELEASE_CLAIM.
LEMMA ReleaseCommandStep ==
  ASSUME TypeOK, NEW id \in Id, doReleaseByClaimID(id)
  PROVE  TypeOK' /\ \E n \in Name : ReleasedStep(n, alives)
<1>1. PICK n \in findSlotByClaimID(id) : releaseSlot(n, acts, alives)
  BY DEF doReleaseByClaimID
<1>2. n \in Name /\ acts \in [Gen -> Acts]
  BY Found DEF TypeOK, ActTypes
<1>3. QED
  BY <1>1, <1>2, ReleaseStep

\* The ALIVE loop's event: a release, or nothing but the end of the loop.
LeaseLostStep(l) ==
  /\ l.release
  /\ \/ ReleasedStep(l.slot, alives \ {l})
     \/ /\ ~slots[l.slot].live /\ alives' = alives \ {l} /\ aliveCancels' = aliveCancels
        /\ slots' = slots /\ dslotSeq' = dslotSeq /\ Unmoved

\* doReleaseSlot does that.
LEMMA ReleaseEventStep ==
  ASSUME TypeOK, NEW l \in alives, doReleaseSlot(l)
  PROVE  TypeOK' /\ LeaseLostStep(l)
<1>1. l.slot \in Name /\ acts \in [Gen -> Acts] /\ l.release
  BY DEF TypeOK, TimerTypes, AliveLoops, ActTypes, doReleaseSlot
<1>2. CASE releaseSlot(l.slot, acts, alives \ {l})
  <2>1. alives \ {l} \in SUBSET alives
    OBVIOUS
  <2>2. QED
    BY <1>1, <1>2, <2>1, ReleaseStep, Zenon DEF LeaseLostStep
<1>3. CASE /\ ~slots[l.slot].live
           /\ alives' = alives \ {l}
           /\ UNCHANGED <<claimVars, matchCancels, timers, aliveCancels, actVars, deactVars,
                          diskVars, lifeVars>>
  <2>1. TimerTypes'
    BY <1>3 DEF TypeOK, TimerTypes
  <2>2. QED
    BY <1>1, <1>3, <2>1, Frames, Zenon
    DEF TypeOK, LeaseLostStep, Unmoved, claimVars, actVars, lifeVars
<1>4. QED
  BY <1>2, <1>3, Zenon DEF doReleaseSlot

\* An ALIVE loop gives up: its event is on its way.
GivesUpStep ==
  /\ \E l \in alives :
       ~l.release /\ alives' = (alives \ {l}) \cup {[l EXCEPT !.release = TRUE]}
  /\ slots' = slots /\ aliveCancels' = aliveCancels /\ dslotSeq' = dslotSeq /\ Unmoved

\* aliveLoopGivesUp does that.
LEMMA AliveStep ==
  ASSUME TypeOK, NEW l \in alives, aliveLoopGivesUp(l)
  PROVE  TypeOK' /\ GivesUpStep
<1>1. TimerTypes'
  <2>1. [l EXCEPT !.release = TRUE] \in AliveLoops
    BY Zenon DEF TypeOK, TimerTypes, AliveLoops
  <2>2. QED
    BY <2>1, Zenon DEF TypeOK, TimerTypes, aliveLoopGivesUp
<1>2. /\ UNCHANGED <<claimVars, aliveCancels, actVars, deactVars, diskVars, lifeVars>>
      /\ ~l.release /\ alives' = (alives \ {l}) \cup {[l EXCEPT !.release = TRUE]}
  BY DEF aliveLoopGivesUp
<1>3. QED
  BY <1>1, <1>2, Frames DEF TypeOK, GivesUpStep, Unmoved, claimVars, actVars, lifeVars

\* Slot n, claimed and idle, is activated with a new starter.
ActivatedStep(n) ==
  /\ \A m \in Name \ {n} : slots'[m] = slots[m]
  /\ slots[n].live /\ slots[n].claim.state = "ClaimedIdle"
  /\ slots'[n].live /\ slots'[n].state = "Claimed" /\ slots'[n].activity = "Busy"
  /\ slots'[n].claim.id = slots[n].claim.id /\ slots'[n].claim.state = "ClaimedBusy"
  /\ gen + 1 \in Gen /\ gen' = gen + 1
  /\ activations' = [activations EXCEPT ![n] = gen + 1]
  /\ acts'[gen + 1].slot = n /\ acts'[gen + 1].sup = "connect"
  /\ \A g \in Gen \ {gen + 1} : acts'[g] = acts[g]
  /\ aliveCancels' = aliveCancels /\ alives' = alives /\ dslotSeq' = dslotSeq
  /\ phase' = phase /\ DiskStep

\* A new activation is well typed.
LEMMA NewActTyped ==
  ASSUME NEW n \in Name, NEW adopted \in BOOLEAN, NEW addr \in Gen \cup {0}
  PROVE  LET act == NewAct(n, adopted, addr) IN
         act \in Acts /\ act.slot = n /\ act.sup = "connect"
<1>1. 0 \in 0..MaxEsc
  BY StartdAssumption
<1>2. QED
  BY <1>1 DEF NewAct, Acts

\* doActivateClaim does that.
LEMMA ActivateStep ==
  ASSUME TypeOK, NEW id \in Id, NEW ad \in JobAds, doActivateClaim(id, ad)
  PROVE  TypeOK' /\ \E n \in Name : ActivatedStep(n)
<1>1. PICK n \in findSlotByClaimID(id) :
        /\ slots[n].claim.state = "ClaimedIdle"
        /\ gen' = gen + 1
        /\ acts' = [acts EXCEPT ![gen + 1] = NewAct(n, FALSE, 0)]
        /\ activations' = [activations EXCEPT ![n] = gen + 1]
        /\ starters' = [starters EXCEPT ![gen + 1] =
                          IF StarterMode = "process" THEN "starting" ELSE "running"]
        /\ slots' = [slots EXCEPT ![n] = SetBusy(@)]
        /\ UNCHANGED <<seq, dslotSeq, timerVars, deactVars, batch, store, lifeVars>>
        /\ persistSlots({n})
  BY Zenon DEF doActivateClaim
<1>2. n \in Name /\ slots[n].live /\ SlotMap(slots) /\ IsSlot(slots[n])
  BY Found
<1>3. gen + 1 \in Gen /\ gen + 1 \in 0..MaxGen
  <2>1. gen < MaxGen
    BY DEF doActivateClaim
  <2>2. gen \in 0..MaxGen
    BY DEF TypeOK, ActTypes
  <2>3. QED
    BY <2>1, <2>2, StartdAssumption DEF Gen
<1> DEFINE t == SetBusy(slots[n])
<1>4. /\ IsSlot(t) /\ t.live = slots[n].live /\ t.state = "Claimed" /\ t.activity = "Busy"
      /\ t.claim.id = slots[n].claim.id /\ t.claim.state = "ClaimedBusy"
  BY <1>2, BusySlot, Zenon
<1>5. slots' = [slots EXCEPT ![n] = t]
  BY <1>1, Zenon
<1> HIDE DEF t
<1>6. SlotMap(slots') /\ slots'[n] = t /\ \A m \in Name \ {n} : slots'[m] = slots[m]
  BY <1>2, <1>4, <1>5 DEF SlotMap
<1>7. ClaimTypes'
  BY <1>1, <1>6 DEF TypeOK, ClaimTypes, SlotMap
<1>8. /\ NewAct(n, FALSE, 0) \in Acts /\ NewAct(n, FALSE, 0).slot = n
      /\ NewAct(n, FALSE, 0).sup = "connect"
  BY <1>2, NewActTyped, Zenon
<1>9. ActTypes'
  BY <1>1, <1>2, <1>3, <1>8, Zenon DEF TypeOK, ActTypes, StarterStates
<1>10. TimerTypes' /\ DeactTypes' /\ LifeTypes'
  BY <1>1, Frames DEF TypeOK
<1>11. DiskTypes' /\ DiskStep
  BY <1>1, <1>2, <1>7, <1>9, DiskAfterPersist, Zenon
<1>12. acts \in [Gen -> Acts]
  BY DEF TypeOK, ActTypes
<1>13. ActivatedStep(n)
  BY <1>1, <1>2, <1>3, <1>4, <1>6, <1>8, <1>11, <1>12, Zenon
  DEF ActivatedStep, timerVars, lifeVars
<1>14. QED
  BY <1>2, <1>7, <1>9, <1>10, <1>11, <1>13 DEF TypeOK

\* The activation of slot n ends; a Busy claim becomes Idle.
EndedStep(n) ==
  /\ \A m \in Name \ {n} : SameState(slots'[m], slots[m])
  /\ \/ /\ slots[n].claim.state = "ClaimedBusy" /\ activations[n] # 0
        /\ slots'[n].live = slots[n].live /\ slots'[n].state = "Claimed"
        /\ slots'[n].activity = "Idle" /\ slots'[n].claim.state = "ClaimedIdle"
        /\ slots'[n].claim.id = slots[n].claim.id
     \/ /\ SameState(slots'[n], slots[n])
        /\ activations[n] = 0 \/ ~slots[n].live \/ slots[n].claim.state # "ClaimedBusy"
  /\ activations' = [activations EXCEPT ![n] = 0] /\ gen' = gen
  /\ aliveCancels' = aliveCancels /\ alives' = alives /\ dslotSeq' = dslotSeq
  /\ phase' = phase /\ DiskStep /\ EndsOnly(n)

\* doStarterExited does that, whichever goroutine submitted the event.
LEMMA ExitedStep ==
  ASSUME TypeOK, NEW n \in Name, NEW heap \in [Gen -> Acts], doStarterExited(n, heap),
         \A g \in Gen : /\ heap[g].slot = acts[g].slot
                        /\ heap[g].sup = "none" <=> acts[g].sup = "none"
                        /\ heap[g].sup = "done" /\ acts[g].sup # "done" => acts[g].slot = n
  PROVE  TypeOK' /\ EndedStep(n)
<1> DEFINE g == activations[n]
           idles == g # 0 /\ slots[n].live /\ slots[n].claim.state = "ClaimedBusy"
           S == IF idles THEN {n} ELSE {}
           t == SetIdle(slots[n])
<1>1. /\ activations' = [activations EXCEPT ![n] = 0]
      /\ acts' = IF g = 0 THEN heap ELSE [heap EXCEPT ![g] = retire(@)]
      /\ releaseDeferredDeactivate(n)
      /\ slots' = IF idles THEN [slots EXCEPT ![n] = t] ELSE slots
      /\ UNCHANGED <<seq, dslotSeq, timerVars, gen, starters, batch, store, lifeVars>>
      /\ persistSlots(S)
  BY Zenon DEF doStarterExited
<1>2. g \in Gen \cup {0} /\ SlotMap(slots) /\ IsSlot(slots[n])
  BY DEF TypeOK, ActTypes, ClaimTypes, SlotMap
<1>3. /\ acts' \in [Gen -> Acts]
      /\ \A k \in Gen : acts'[k].slot = heap[k].slot /\ acts'[k].sup = heap[k].sup
  <2>1. CASE g = 0
    BY <1>1, <2>1, Zenon
  <2>2. CASE g # 0
    <3>1. g \in Gen /\ heap[g] \in Acts /\ acts' = [heap EXCEPT ![g] = retire(heap[g])]
      BY <1>1, <1>2, <2>2, Zenon
    <3>2. /\ retire(heap[g]) \in Acts /\ retire(heap[g]).slot = heap[g].slot
          /\ retire(heap[g]).sup = heap[g].sup
      BY <3>1, Retired
    <3>3. QED
      BY <3>1, <3>2, ActReplaced, Zenon
  <2>3. QED
    BY <2>1, <2>2, Zenon
<1>4. ActTypes' /\ EndsOnly(n)
  <2>1. ActTypes'
    BY <1>1, <1>3, Zenon DEF TypeOK, ActTypes
  <2>2. EndsOnly(n)
    BY <1>3 DEF EndsOnly
  <2>3. QED
    BY <2>1, <2>2
<1>5. DeactTypes'
  <2>1. deferredDeactivate[n] \in Deact \cup {0}
    BY DEF TypeOK, DeactTypes
  <2>2. QED
    BY <1>1, <2>1, NothingIsTyped, Zenon DEF TypeOK, DeactTypes, releaseDeferredDeactivate
<1>6. /\ IsSlot(t) /\ t.live = slots[n].live /\ t.state = "Claimed" /\ t.activity = "Idle"
      /\ t.claim.id = slots[n].claim.id /\ t.claim.state = "ClaimedIdle"
  BY <1>2, IdleSlot, Zenon
<1> HIDE DEF t
<1>7. /\ SlotMap(slots') /\ \A m \in Name \ {n} : slots'[m] = slots[m]
      /\ slots'[n] = IF idles THEN t ELSE slots[n]
  BY <1>1, <1>2, <1>6 DEF SlotMap
<1>8. ClaimTypes'
  BY <1>1, <1>7 DEF TypeOK, ClaimTypes, SlotMap
<1>9. TimerTypes' /\ LifeTypes'
  BY <1>1, Frames, Zenon DEF TypeOK
<1>10. S \in SUBSET Name
  OBVIOUS
<1> HIDE DEF S
<1>11. DiskTypes' /\ DiskStep
  BY <1>1, <1>4, <1>8, <1>10, DiskAfterPersist, Zenon
<1>12. EndedStep(n)
  BY <1>1, <1>4, <1>6, <1>7, <1>11, Zenon DEF EndedStep, SameState, timerVars, lifeVars
<1>13. QED
  BY <1>4, <1>5, <1>8, <1>9, <1>11, <1>12 DEF TypeOK

\* evStarterExited from the supervisor, the reaper or the command handler.
LEMMA ExitEventStep ==
  ASSUME TypeOK, NEW g \in Gen, supExited(g) \/ reaperExited(g) \/ handlerExited(g)
  PROVE  TypeOK' /\ \E n \in Name : EndedStep(n)
<1> DEFINE n == acts[g].slot
           a == acts[g]
<1>1. acts \in [Gen -> Acts] /\ a \in Acts /\ n \in Name
  BY DEF TypeOK, ActTypes, Acts
<1>2. CASE supExited(g)
  <2> DEFINE heap == [acts EXCEPT ![g] = [a EXCEPT !.sup = "done"]]
  <2>1. doStarterExited(n, heap) /\ a.sup = "exit"
    BY <1>1, <1>2 DEF supExited
  <2>2. /\ heap \in [Gen -> Acts]
        /\ \A k \in Gen : /\ heap[k].slot = acts[k].slot
                          /\ heap[k].sup = IF k = g THEN "done" ELSE acts[k].sup
    BY <1>1 DEF Acts
  <2> HIDE DEF heap
  <2>3. QED
    BY <1>1, <2>1, <2>2, ExitedStep
<1>3. CASE reaperExited(g)
  <2> DEFINE heap == [acts EXCEPT ![g] = [a EXCEPT !.reap = "done"]]
  <2>1. doStarterExited(n, heap)
    BY <1>1, <1>3 DEF reaperExited
  <2>2. /\ heap \in [Gen -> Acts]
        /\ \A k \in Gen : heap[k].slot = acts[k].slot /\ heap[k].sup = acts[k].sup
    BY <1>1 DEF Acts
  <2> HIDE DEF heap
  <2>3. QED
    BY <1>1, <2>1, <2>2, ExitedStep
<1>4. CASE handlerExited(g)
  <2> DEFINE heap == [acts EXCEPT ![g] = [a EXCEPT !.hand = "done"]]
  <2>1. doStarterExited(n, heap)
    BY <1>1, <1>4 DEF handlerExited
  <2>2. /\ heap \in [Gen -> Acts]
        /\ \A k \in Gen : heap[k].slot = acts[k].slot /\ heap[k].sup = acts[k].sup
    BY <1>1 DEF Acts
  <2> HIDE DEF heap
  <2>3. QED
    BY <1>1, <2>1, <2>2, ExitedStep
<1>5. QED
  BY <1>2, <1>3, <1>4

\* An adopted supervisor that gave up on a slot without an activation.
DroppedStep(n) ==
  /\ activations[n] = 0 /\ EndsOnly(n)
  /\ slots' = slots /\ activations' = activations /\ gen' = gen
  /\ aliveCancels' = aliveCancels /\ alives' = alives /\ dslotSeq' = dslotSeq
  /\ phase' = phase /\ DiskStep

\* evAdoptFailed: nothing, the job's outcome applied, or the claim released.
LEMMA AdoptFailedStep ==
  ASSUME TypeOK, NEW g \in Gen, doAdoptFailed(g)
  PROVE  TypeOK' /\ \E n \in Name : DroppedStep(n) \/ EndedStep(n) \/ ReleasedStep(n, alives)
<1> DEFINE n == acts[g].slot
           h == activations[n]
           a == acts[g]
           heap == [acts EXCEPT ![g] = [a EXCEPT !.sup = "done"]]
           busy == slots[n].claim.state = "ClaimedBusy"
           S == IF busy THEN {n} ELSE {}
           t == SetIdle(SetFinal(slots[n], h))
<1>1. /\ acts \in [Gen -> Acts] /\ a \in Acts /\ n \in Name /\ h \in Gen \cup {0}
      /\ SlotMap(slots) /\ IsSlot(slots[n])
  BY DEF TypeOK, ActTypes, Acts, ClaimTypes, SlotMap
<1>2. [acts EXCEPT ![g].sup = "done"] = heap /\ a.sup = "giveup"
  BY <1>1 DEF doAdoptFailed
<1>3. /\ heap \in [Gen -> Acts]
      /\ \A k \in Gen : /\ heap[k].slot = acts[k].slot
                        /\ heap[k].sup = IF k = g THEN "done" ELSE acts[k].sup
  BY <1>1 DEF Acts
<1>4. \A k \in Gen : /\ heap[k].slot = acts[k].slot
                     /\ heap[k].sup = "none" <=> acts[k].sup = "none"
                     /\ heap[k].sup = "done" /\ acts[k].sup # "done" => acts[k].slot = n
  BY <1>2, <1>3
<1>5. \/ /\ h = 0
         /\ acts' = heap
         /\ UNCHANGED <<claimVars, timerVars, activations, gen, starters, deactVars, diskVars,
                        lifeVars>>
      \/ /\ h # 0
         /\ activations' = [activations EXCEPT ![n] = 0]
         /\ acts' = [heap EXCEPT ![h] = retire(@)]
         /\ slots' = IF busy THEN [slots EXCEPT ![n] = t] ELSE slots
         /\ UNCHANGED <<seq, dslotSeq, timerVars, gen, starters, deactVars, batch, store,
                        lifeVars>>
         /\ persistSlots(S)
      \/ releaseSlot(n, heap, alives)
  BY <1>2, Zenon DEF doAdoptFailed
<1> HIDE DEF heap
<1>6. CASE /\ h = 0
           /\ acts' = heap
           /\ UNCHANGED <<claimVars, timerVars, activations, gen, starters, deactVars, diskVars,
                          lifeVars>>
  <2>1. ActTypes' /\ EndsOnly(n)
    BY <1>2, <1>3, <1>6 DEF TypeOK, ActTypes, EndsOnly
  <2>2. DroppedStep(n)
    BY <1>6, <2>1, Frames, Zenon DEF DroppedStep, claimVars, timerVars, lifeVars
  <2>3. QED
    BY <1>1, <1>6, <2>1, <2>2, Frames, Zenon DEF TypeOK, claimVars
<1>7. CASE /\ h # 0
           /\ activations' = [activations EXCEPT ![n] = 0]
           /\ acts' = [heap EXCEPT ![h] = retire(@)]
           /\ slots' = IF busy THEN [slots EXCEPT ![n] = t] ELSE slots
           /\ UNCHANGED <<seq, dslotSeq, timerVars, gen, starters, deactVars, batch, store,
                          lifeVars>>
           /\ persistSlots(S)
  <2>1. h \in Gen /\ heap[h] \in Acts /\ acts' = [heap EXCEPT ![h] = retire(heap[h])]
    BY <1>1, <1>3, <1>7, Zenon
  <2>2. /\ retire(heap[h]) \in Acts /\ retire(heap[h]).slot = heap[h].slot
        /\ retire(heap[h]).sup = heap[h].sup
    BY <2>1, Retired, Zenon
  <2>3. /\ acts' \in [Gen -> Acts]
        /\ \A k \in Gen : acts'[k].slot = heap[k].slot /\ acts'[k].sup = heap[k].sup
    BY <1>3, <2>1, <2>2, ActReplaced, Zenon
  <2>4. ActTypes' /\ EndsOnly(n)
    <3>1. ActTypes'
      BY <1>1, <1>7, <2>3, Zenon DEF TypeOK, ActTypes
    <3>2. EndsOnly(n)
      BY <1>4, <2>3 DEF EndsOnly
    <3>3. QED
      BY <3>1, <3>2
  <2>5. /\ IsSlot(SetFinal(slots[n], h)) /\ SetFinal(slots[n], h).live = slots[n].live
        /\ SetFinal(slots[n], h).claim.id = slots[n].claim.id
    BY <1>1, <2>1, SetFinalKeeps, Zenon
  <2>6. /\ IsSlot(t) /\ t.live = slots[n].live /\ t.state = "Claimed" /\ t.activity = "Idle"
        /\ t.claim.id = slots[n].claim.id /\ t.claim.state = "ClaimedIdle"
    BY <2>5, IdleSlot, Zenon
  <2> HIDE DEF t
  <2>7. /\ SlotMap(slots') /\ \A m \in Name \ {n} : slots'[m] = slots[m]
        /\ slots'[n] = IF busy THEN t ELSE slots[n]
    BY <1>1, <1>7, <2>6, Zenon DEF SlotMap
  <2>8. ClaimTypes'
    BY <1>7, <2>7, Zenon DEF TypeOK, ClaimTypes, SlotMap
  <2>9. TimerTypes' /\ DeactTypes' /\ LifeTypes'
    BY <1>7, Frames, Zenon DEF TypeOK
  <2>10. S \in SUBSET Name
    BY <1>1
  <2> HIDE DEF S
  <2>11. DiskTypes' /\ DiskStep
    BY <1>7, <2>4, <2>8, <2>10, DiskAfterPersist, Zenon
  <2>12. EndedStep(n)
    BY <1>7, <2>4, <2>6, <2>7, <2>11, Zenon DEF EndedStep, SameState, timerVars, lifeVars
  <2>13. QED
    BY <1>1, <2>4, <2>8, <2>9, <2>11, <2>12, Zenon DEF TypeOK
<1>8. CASE releaseSlot(n, heap, alives)
  <2>1. alives \in SUBSET alives
    OBVIOUS
  <2>2. QED
    BY <1>1, <1>3, <1>4, <1>8, <2>1, ReleaseStep, Zenon
<1>9. QED
  BY <1>5, <1>6, <1>7, <1>8, Zenon

-----------------------------------------------------------------------------
(* Stop, crash and restart. *)

\* Stop drops the ALIVE loops that have not submitted their event.
StopStep ==
  /\ slots' = slots /\ activations' = activations /\ gen' = gen /\ dslotSeq' = dslotSeq
  /\ aliveCancels' = aliveCancels /\ alives' = {l \in alives : l.release}
  /\ phase' # "up" /\ SupervisorsStay /\ DiskStep

\* Stop does that.
LEMMA StopIsStop ==
  ASSUME TypeOK, Stop
  PROVE  TypeOK' /\ StopStep
<1>1. /\ phase' = "stopping" /\ timers' = {t \in timers : t.fired}
      /\ alives' = {l \in alives : l.release}
      /\ acts' = [g \in Gen |-> [acts[g] EXCEPT !.cancelled = acts[g].sup # "none"]]
      /\ UNCHANGED <<claimVars, matchCancels, aliveCancels, activations, gen, starters, deactVars,
                     diskVars, restarts>>
  BY DEF Stop
<1>2. ASSUME NEW a \in Acts
      PROVE  LET b == [a EXCEPT !.cancelled = a.sup # "none"] IN
             b \in Acts /\ b.slot = a.slot /\ b.sup = a.sup
  BY Zenon DEF Acts
<1>3. acts \in [Gen -> Acts]
  BY DEF TypeOK, ActTypes
<1>4. acts' \in [Gen -> Acts] /\ SupervisorsStay
  BY <1>1, <1>2, <1>3, Zenon DEF SupervisorsStay
<1>5. ActTypes' /\ TimerTypes' /\ LifeTypes'
  BY <1>1, <1>4 DEF TypeOK, ActTypes, TimerTypes, LifeTypes
<1>6. QED
  BY <1>1, <1>4, <1>5, Frames DEF TypeOK, StopStep, claimVars

\* The process is gone.
DownStep ==
  /\ phase' = "down" /\ gen' = gen
  /\ slots' = [n \in Name |-> NoSlot]
  /\ activations' = [n \in Name |-> 0] /\ acts' = [g \in Gen |-> NoAct]
  /\ alives' = {} /\ dslotSeq' = 0
  /\ \A m \in Name : RecordsAt(m)' \subseteq RecordsAt(m) \cup {NoRecord}

\* processEnds does that.
LEMMA ProcessEndsIsDown ==
  ASSUME TypeOK, processEnds
  PROVE  TypeOK' /\ DownStep
<1>1. ClaimTypes'
  <2>1. IsSlot(NoSlot)
    BY ClaimsBuilt, SlotsBuilt, Zenon
  <2>2. SlotMap(slots')
    BY <2>1 DEF processEnds, SlotMap
  <2>3. QED
    BY <2>2, StartdAssumption, SMTT(60) DEF processEnds, TypeOK, ClaimTypes
<1>2. TimerTypes' /\ DeactTypes' /\ LifeTypes'
  BY NothingIsTyped DEF processEnds, TypeOK, TimerTypes, DeactTypes, LifeTypes
<1>3. ActTypes'
  BY NothingIsTyped DEF processEnds, TypeOK, ActTypes, StarterStates
<1>4. DiskTypes'
  BY NothingIsTyped DEF processEnds, TypeOK, DiskTypes, RecordMap, P!Empty
<1>5. DownStep
  BY Zenon DEF processEnds, DownStep, RecordsAt, P!Empty
<1>6. QED
  BY <1>1, <1>2, <1>3, <1>4, <1>5 DEF TypeOK

\* loopReturns changes the phase only.
LEMMA LoopReturnsStep ==
  ASSUME TypeOK, loopReturns
  PROVE  /\ TypeOK' /\ phase' # "up"
         /\ UNCHANGED <<claimVars, timerVars, actVars, deactVars, diskVars>>
BY Frames DEF loopReturns, TypeOK, LifeTypes, claimVars

\* The slots whose records say Claimed.
ClaimedOnRecord == {n \in Name : store[n].id # 0 /\ store[n].state = "Claimed"}

\* What re-adoption makes of slot n.
AdoptedSlot(s, n, claimed, adopted) ==
  /\ s.live <=> n \in ConfigSlots \cup claimed
  /\ n \in adopted =>
       /\ s.state = "Claimed" /\ s.claim.id = store[n].id
       /\ store[n].activity = "Busy" => s.activity = "Busy" /\ s.claim.state = "ClaimedBusy"
       /\ store[n].activity # "Busy" => s.activity = "Idle" /\ s.claim.state = "ClaimedIdle"
  /\ n \notin adopted =>
       s.state = "Unclaimed" /\ s.activity = "Idle" /\ s.claim.state = "Unclaimed"

\* AdoptedSlots does that for every slot.
LEMMA AdoptedSlotsTyped ==
  ASSUME TypeOK, NEW minted \in SUBSET ConfigSlots, NEW adopted \in SUBSET ClaimedOnRecord,
         seq + NumConfigured <= MaxId
  PROVE  LET ss == AdoptedSlots(minted, ClaimedOnRecord, adopted) IN
         /\ SlotMap(ss)
         /\ \A n \in Name : AdoptedSlot(ss[n], n, ClaimedOnRecord, adopted)
<1> DEFINE claimed == ClaimedOnRecord
           cl(n) == IF n \in minted THEN Minted(seq + n[1]) ELSE NoClaim
           primed(n) == [NewSlot(carvedRes(n, claimed)) EXCEPT !.claim = cl(n)]
           built(n) == IF n \in ConfigSlots THEN primed(n)
                       ELSE IF n \in claimed THEN NewSlot(store[n].res)
                       ELSE NoSlot
           new(n) == IF n \in adopted
                     THEN AdoptClaim(built(n), store[n].id, store[n].activity = "Busy")
                     ELSE built(n)
           ss == [n \in Name |-> new(n)]
<1>1. ASSUME NEW n \in ConfigSlots
      PROVE  cl(n) \in Claims(Id, Gen) /\ cl(n).state = "Unclaimed"
  <2>1. NoClaim \in Claims(Id, Gen) /\ NoClaim.state = "Unclaimed"
    BY ClaimsBuilt DEF NoClaim
  <2>2. seq \in 0..MaxId
    BY DEF TypeOK, ClaimTypes
  <2>3. NumConfigured \in Nat /\ n[1] \in 1..NumConfigured
    BY StartdAssumption DEF ConfigSlots, NumConfigured, NumStaticSlots, Kinds
  <2>4. seq + n[1] \in Id
    BY <2>2, <2>3, StartdAssumption DEF Id
  <2>5. Minted(seq + n[1]) \in Claims(Id, Gen) /\ Minted(seq + n[1]).state = "Unclaimed"
    BY <2>4, ClaimsBuilt DEF Minted
  <2>6. QED
    BY <2>1, <2>5
<1>2. ASSUME NEW n \in Name
      PROVE  /\ IsSlot(built(n)) /\ (built(n).live <=> n \in ConfigSlots \cup claimed)
             /\ built(n).state = "Unclaimed" /\ built(n).activity = "Idle"
             /\ built(n).claim.state = "Unclaimed"
  <2>1. CASE n \in ConfigSlots
    <3> HIDE DEF cl
    <3>1. built(n) = primed(n)
      BY <2>1
    <3>2. IsSlot(primed(n)) /\ primed(n).claim = cl(n) /\ primed(n).live
          /\ primed(n).state = "Unclaimed" /\ primed(n).activity = "Idle"
      <4>1. cl(n) \in Claims(Id, Gen)
        BY <1>1, <2>1
      <4>2. QED
        BY <4>1, SlotsBuilt, Zenon
    <3>3. QED
      BY <1>1, <2>1, <3>1, <3>2
  <2>2. CASE n \notin ConfigSlots /\ n \in claimed
    <3>1. built(n) = NewSlot(store[n].res)
      BY <2>2
    <3>2. IsSlot(NewSlot(store[n].res))
      BY ClaimsBuilt, SlotsBuilt, Zenon
    <3>3. QED
      BY <2>2, <3>1, <3>2 DEF NewSlot, NoClaim
  <2>3. CASE n \notin ConfigSlots /\ n \notin claimed
    <3>1. built(n) = NoSlot
      BY <2>3
    <3>2. IsSlot(NoSlot) /\ ~NoSlot.live /\ NoSlot.claim = NoClaim
          /\ NoSlot.state = "Unclaimed" /\ NoSlot.activity = "Idle"
      BY ClaimsBuilt, SlotsBuilt, Zenon
    <3>3. QED
      BY <2>3, <3>1, <3>2 DEF NoClaim
  <2>4. QED
    BY <2>1, <2>2, <2>3
<1> HIDE DEF built
<1>3. ASSUME NEW n \in Name
      PROVE  IsSlot(new(n)) /\ AdoptedSlot(new(n), n, claimed, adopted)
  <2>1. CASE n \in adopted
    <3> DEFINE id == store[n].id
               s == built(n)
    <3>1. id \in Id
      BY <2>1, Zenon DEF ClaimedOnRecord, TypeOK, DiskTypes, RecordMap, IsRecord, Records
    <3>2. IsSlot(s)
      BY <1>2
    <3>3. CASE store[n].activity = "Busy"
      <4> DEFINE t == AdoptClaim(s, id, TRUE)
      <4>1. new(n) = t
        BY <2>1, <3>3 DEF AdoptClaim
      <4> HIDE DEF s, id, new
      <4>2. /\ IsSlot(t) /\ t.live = s.live /\ t.state = "Claimed" /\ t.claim.id = id
            /\ t.activity = "Busy" /\ t.claim.state = "ClaimedBusy"
        BY <3>1, <3>2, AdoptedBusy, ZenonT(40)
      <4> HIDE DEF t
      <4>3. QED
        BY <1>2, <2>1, <3>3, <4>1, <4>2 DEF AdoptedSlot, s, id
    <3>4. CASE store[n].activity # "Busy"
      <4> DEFINE t == AdoptClaim(s, id, FALSE)
      <4>1. new(n) = t
        BY <2>1, <3>4 DEF AdoptClaim
      <4> HIDE DEF s, id, new
      <4>2. /\ IsSlot(t) /\ t.live = s.live /\ t.state = "Claimed" /\ t.claim.id = id
            /\ t.activity = "Idle" /\ t.claim.state = "ClaimedIdle"
        BY <3>1, <3>2, AdoptedIdle, ZenonT(40)
      <4> HIDE DEF t
      <4>3. QED
        BY <1>2, <2>1, <3>4, <4>1, <4>2 DEF AdoptedSlot, s, id
    <3>5. QED
      BY <3>3, <3>4, Zenon
  <2>2. CASE n \notin adopted
    BY <1>2, <2>2, Zenon DEF AdoptedSlot
  <2>3. QED
    BY <2>1, <2>2, Zenon
<1>4. SlotMap(ss) /\ \A n \in Name : ss[n] = new(n)
  BY <1>3, Zenon DEF SlotMap
<1>5. AdoptedSlots(minted, claimed, adopted) =
        IF Partitionable THEN refreshPSlotChildren(ss, <<1, 0>>) ELSE ss
  BY DEF AdoptedSlots, built
<1> HIDE DEF ss, new
<1>6. CASE ~Partitionable
  BY <1>3, <1>4, <1>5, <1>6
<1>7. CASE Partitionable
  <2> DEFINE r == refreshPSlotChildren(ss, <<1, 0>>)
  <2>1. <<1, 0>> \in Name
    BY <1>7 DEF Name, ConfigSlots
  <2>2. SlotMap(r) /\ \A m \in Name : SameClaim(r[m], ss[m])
    BY <1>4, <2>1, RefreshKeeps
  <2>3. AdoptedSlots(minted, claimed, adopted) = r
    BY <1>5, <1>7
  <2> HIDE DEF r
  <2>4. ASSUME NEW n \in Name
        PROVE  AdoptedSlot(r[n], n, claimed, adopted)
    <3>1. AdoptedSlot(ss[n], n, claimed, adopted)
      BY <1>3, <1>4
    <3>2. SameClaim(r[n], ss[n])
      BY <2>2
    <3>3. QED
      BY <3>1, <3>2, SMTT(60) DEF AdoptedSlot, SameClaim
  <2>5. QED
    BY <2>2, <2>3, <2>4
<1>8. QED
  BY <1>6, <1>7

\* The startd is rebuilt from its store; adopted are the records it takes over.
RestartStep(adopted) ==
  /\ \A n \in Name : AdoptedSlot(slots'[n], n, ClaimedOnRecord, adopted)
  /\ \A d \in ClaimedOnRecord : d[2] <= dslotSeq'
  /\ aliveCancels' = [n \in Name |-> IF n \in adopted THEN store[n].id ELSE 0]
  /\ alives' = {[slot |-> n, claim |-> store[n].id, release |-> FALSE] : n \in adopted}
  /\ activations' = [n \in Name |-> IF n \in adopted /\ store[n].activity = "Busy"
                                    THEN store[n].starter ELSE 0]
  /\ \A g \in Gen : \/ /\ acts'[g].slot \in Name /\ activations'[acts'[g].slot] = g
                       /\ acts'[g].sup = "connect"
                    \/ /\ \A n \in Name : activations'[n] # g
                       /\ acts'[g] = NoAct
  /\ phase' = "up" /\ gen' = gen
  /\ \A m \in Name : RecordsAt(m)' = RecordsAt(m)

\* restart does that.
LEMMA RestartIsRestart ==
  ASSUME TypeOK, NEW minted \in PrimeOutcomes, NEW lost \in ImportFailures, restart(minted, lost)
  PROVE  TypeOK' /\ \E adopted \in SUBSET ClaimedOnRecord : RestartStep(adopted)
<1> DEFINE adopted == ClaimedOnRecord \ lost
           busy == {n \in adopted : store[n].activity = "Busy" /\ store[n].starter # 0}
           holder(g) == CHOOSE m \in busy : store[m].starter = g
           new(g) == IF \E n \in busy : store[n].starter = g
                     THEN NewAct(holder(g), TRUE, store[holder(g)].addr)
                     ELSE NoAct
<1>1. /\ restarts < MaxRestarts /\ seq + NumConfigured <= MaxId
      /\ phase' = "up" /\ restarts' = restarts + 1
      /\ slots' = AdoptedSlots(minted, ClaimedOnRecord, adopted)
      /\ seq' = seq + NumConfigured
      /\ dslotSeq' \in {m \in 0..MaxDSlots : /\ \A d \in ClaimedOnRecord : d[2] <= m
                                             /\ m = 0 \/ <<1, m>> \in ClaimedOnRecord}
      /\ aliveCancels' = [n \in Name |-> IF n \in adopted THEN store[n].id ELSE 0]
      /\ alives' = {[slot |-> n, claim |-> store[n].id, release |-> FALSE] : n \in adopted}
      /\ activations' = [n \in Name |-> IF n \in busy THEN store[n].starter ELSE 0]
      /\ acts' = [g \in Gen |-> new(g)]
      /\ UNCHANGED <<gen, matchCancels, timers, starters, deactVars, diskVars>>
  BY Zenon DEF restart, ClaimedOnRecord
<1>2. minted \in SUBSET ConfigSlots /\ adopted \in SUBSET ClaimedOnRecord
  BY DEF PrimeOutcomes
<1>3. ASSUME NEW n \in Name
      PROVE  /\ store[n].id \in Id \cup {0} /\ store[n].starter \in Gen \cup {0}
             /\ store[n].addr \in Gen \cup {0}
             /\ n \in ClaimedOnRecord => store[n].id \in Id
  BY DEF TypeOK, DiskTypes, RecordMap, IsRecord, Records, ClaimedOnRecord
<1>4. ClaimedOnRecord \subseteq Name /\ busy \subseteq adopted
  BY DEF ClaimedOnRecord
<1> HIDE DEF adopted
<1>5. SlotMap(slots') /\ \A n \in Name : AdoptedSlot(slots'[n], n, ClaimedOnRecord, adopted)
  BY <1>1, <1>2, AdoptedSlotsTyped, Zenon
<1>6. NumConfigured \in Nat
  BY StartdAssumption DEF NumConfigured, NumStaticSlots, Kinds
<1>7. ClaimTypes'
  <2>1. seq' \in 0..MaxId
    <3>1. seq \in 0..MaxId
      BY DEF TypeOK, ClaimTypes
    <3>2. QED
      <4>1. seq' = seq + NumConfigured /\ seq + NumConfigured <= MaxId
        BY <1>1, Zenon
      <4>2. QED
        BY <1>6, <3>1, <4>1, StartdAssumption
  <2>2. dslotSeq' \in 0..MaxDSlots
    BY <1>1, Zenon
  <2>3. QED
    BY <1>5, <2>1, <2>2 DEF ClaimTypes, SlotMap
<1>8. TimerTypes'
  <2>1. \A n \in adopted : [slot |-> n, claim |-> store[n].id, release |-> FALSE] \in AliveLoops
    BY <1>2, <1>3, <1>4 DEF AliveLoops
  <2>2. QED
    BY <1>1, <1>3, <2>1, Zenon DEF TypeOK, TimerTypes
<1>9. ASSUME NEW g \in Gen
      PROVE  /\ new(g) \in Acts
             /\ \/ /\ new(g).slot \in busy /\ store[new(g).slot].starter = g
                   /\ new(g).sup = "connect"
                \/ new(g) = NoAct /\ \A n \in busy : store[n].starter # g
  <2>1. CASE \E n \in busy : store[n].starter = g
    <3>1. holder(g) \in busy /\ store[holder(g)].starter = g
      BY <2>1
    <3> HIDE DEF holder, busy
    <3>2. holder(g) \in Name /\ store[holder(g)].addr \in Gen \cup {0} /\ TRUE \in BOOLEAN
      BY <1>2, <1>3, <1>4, <3>1
    <3>3. /\ NewAct(holder(g), TRUE, store[holder(g)].addr) \in Acts
          /\ NewAct(holder(g), TRUE, store[holder(g)].addr).slot = holder(g)
          /\ NewAct(holder(g), TRUE, store[holder(g)].addr).sup = "connect"
      BY <3>2, NewActTyped, Zenon
    <3>4. QED
      BY <2>1, <3>1, <3>3, Zenon
  <2>2. CASE ~\E n \in busy : store[n].starter = g
    BY <2>2, NothingIsTyped, Zenon
  <2>3. QED
    BY <2>1, <2>2, Zenon
<1> HIDE DEF new
<1>10. acts' \in [Gen -> Acts]
  BY <1>1, <1>9, Zenon
<1>11. ActTypes'
  BY <1>1, <1>3, <1>10, Zenon DEF TypeOK, ActTypes
<1>12. DeactTypes' /\ DiskTypes'
  BY <1>1, Frames, Zenon DEF TypeOK
<1>13. LifeTypes'
  <2>1. restarts < MaxRestarts /\ phase' = "up" /\ restarts' = restarts + 1
    BY <1>1, Zenon
  <2>2. restarts \in 0..MaxRestarts
    BY DEF TypeOK, LifeTypes
  <2>3. QED
    BY <2>1, <2>2, StartdAssumption DEF LifeTypes
<1>14. activations' = [n \in Name |-> IF n \in adopted /\ store[n].activity = "Busy"
                                     THEN store[n].starter ELSE 0]
  BY <1>1, Zenon
<1>15. ASSUME NEW g \in Gen
       PROVE  \/ /\ acts'[g].slot \in Name /\ activations'[acts'[g].slot] = g
                 /\ acts'[g].sup = "connect"
              \/ /\ \A n \in Name : activations'[n] # g
                 /\ acts'[g] = NoAct
  <2>1. acts'[g] = new(g) /\ g # 0
    <3>1. acts' = [k \in Gen |-> new(k)]
      BY <1>1, Zenon
    <3>2. QED
      BY <3>1 DEF Gen
  <2> HIDE DEF busy
  <2>2. CASE new(g).slot \in busy /\ store[new(g).slot].starter = g /\ new(g).sup = "connect"
    <3>1. new(g).slot \in Name
      BY <1>2, <1>4, <2>2
    <3>2. activations'[new(g).slot] = g
      <4>1. activations' = [n \in Name |-> IF n \in busy THEN store[n].starter ELSE 0]
        BY <1>1, Zenon
      <4>2. QED
        BY <2>2, <3>1, <4>1
    <3>3. QED
      BY <2>1, <2>2, <3>1, <3>2, Zenon
  <2>3. CASE new(g) = NoAct /\ \A n \in busy : store[n].starter # g
    BY <1>1, <2>1, <2>3, Zenon
  <2>4. QED
    BY <1>9, <2>2, <2>3, Zenon
<1>16. RestartStep(adopted)
  <2>1. \A d \in ClaimedOnRecord : d[2] <= dslotSeq'
    <3>1. dslotSeq' \in {m \in 0..MaxDSlots : /\ \A d \in ClaimedOnRecord : d[2] <= m
                                              /\ m = 0 \/ <<1, m>> \in ClaimedOnRecord}
      BY <1>1, Zenon
    <3>2. QED
      BY <3>1, Zenon
  <2>2. \A m \in Name : RecordsAt(m)' = RecordsAt(m)
    BY <1>1, Zenon DEF RecordsAt, diskVars
  <2>3. phase' = "up" /\ gen' = gen
    BY <1>1, Zenon
  <2>4. /\ aliveCancels' = [n \in Name |-> IF n \in adopted THEN store[n].id ELSE 0]
        /\ alives' = {[slot |-> n, claim |-> store[n].id, release |-> FALSE] : n \in adopted}
    BY <1>1, Zenon
  <2>5. QED
    BY <1>5, <1>14, <1>15, <2>1, <2>2, <2>3, <2>4, Zenon DEF RestartStep
<1>17. QED
  BY <1>2, <1>7, <1>8, <1>11, <1>12, <1>13, <1>16 DEF TypeOK

-----------------------------------------------------------------------------
(* Type correctness. *)

\* The startd starts well typed.
LEMMA InitTypeOK == Init => TypeOK
<1> SUFFICES ASSUME Init
             PROVE  TypeOK
  OBVIOUS
<1>1. PICK minted \in PrimeOutcomes :
        slots = [n \in Name |->
                   IF n \in ConfigSlots
                   THEN [NewSlot(FullRes(n)) EXCEPT
                           !.claim = IF n \in minted THEN Minted(n[1]) ELSE NoClaim]
                   ELSE NoSlot]
  BY Zenon DEF Init
<1>2. NumConfigured \in Nat
  BY StartdAssumption DEF NumConfigured, NumStaticSlots, Kinds
<1> DEFINE cl(n) == IF n \in minted THEN Minted(n[1]) ELSE NoClaim
<1>3. ASSUME NEW n \in ConfigSlots
      PROVE  cl(n) \in Claims(Id, Gen)
  <2>1. n[1] \in Id
    BY <1>2, StartdAssumption DEF ConfigSlots, NumConfigured, Id
  <2>2. QED
    BY <2>1, ClaimsBuilt
<1> HIDE DEF cl
<1>4. ASSUME NEW n \in Name
      PROVE  IsSlot(slots[n])
  <2>1. slots[n] = IF n \in ConfigSlots THEN [NewSlot(FullRes(n)) EXCEPT !.claim = cl(n)]
                   ELSE NoSlot
    BY <1>1 DEF cl
  <2>2. CASE n \in ConfigSlots
    <3>1. cl(n) \in Claims(Id, Gen)
      BY <1>3, <2>2
    <3>2. IsSlot([NewSlot(FullRes(n)) EXCEPT !.claim = cl(n)])
      BY <3>1, SlotsBuilt, Zenon
    <3>3. QED
      BY <2>1, <2>2, <3>2
  <2>3. CASE n \notin ConfigSlots
    BY <2>1, <2>3, ClaimsBuilt, SlotsBuilt, Zenon
  <2>4. QED
    BY <2>2, <2>3
<1>5. SlotMap(slots)
  BY <1>1, <1>4 DEF SlotMap
<1>6. ClaimTypes
  BY <1>2, <1>5, StartdAssumption DEF Init, ClaimTypes
<1>7. TimerTypes /\ DeactTypes /\ LifeTypes
  BY NothingIsTyped, StartdAssumption DEF Init, TimerTypes, DeactTypes, LifeTypes
<1>8. ActTypes
  BY NothingIsTyped, StartdAssumption DEF Init, ActTypes, StarterStates
<1>9. DiskTypes
  BY NothingIsTyped DEF Init, DiskTypes, RecordMap, P!Empty
<1>10. QED
  BY <1>6, <1>7, <1>8, <1>9 DEF TypeOK

\* What a step of the startd does, whatever the handler: every step of Next has
\* one of these effects.
Effect ==
  \/ Quiet
  \/ \E n \in Name : MatchedStep(n) \/ TimeoutStep(n)
  \/ RejectedStep \/ \E n \in Name, id \in Id : AcceptedStep(n, id)
  \/ \E n \in Name : ReleasedStep(n, alives)
  \/ \E l \in alives : LeaseLostStep(l)
  \/ GivesUpStep
  \/ \E n \in Name : ActivatedStep(n) \/ EndedStep(n) \/ DroppedStep(n)
  \/ StopStep
  \/ phase' # "up" /\ UNCHANGED <<claimVars, timerVars, actVars, deactVars, diskVars>>
  \/ DownStep
  \/ \E adopted \in SUBSET ClaimedOnRecord : RestartStep(adopted)

\* Every step keeps the types and has one of those effects.
LEMMA NextEffect ==
  ASSUME TypeOK, Next
  PROVE  TypeOK' /\ Effect
<1>1. ASSUME Claiming
      PROVE  TypeOK' /\ Effect
  <2>1. ASSUME NEW id \in Id, doMatchInfo(id)
        PROVE  TypeOK' /\ Effect
    BY <2>1, MatchInfoStep DEF Effect
  <2>2. ASSUME NEW id \in Id, doReleaseByClaimID(id)
        PROVE  TypeOK' /\ Effect
    BY <2>2, ReleaseCommandStep DEF Effect
  <2>3. ASSUME NEW id \in Id, NEW ad \in JobAds, doRequestClaim(id, ad)
        PROVE  TypeOK' /\ Effect
    BY <2>3, RequestStep DEF Effect
  <2>4. ASSUME NEW t \in timers, matchTimerFires(t)
        PROVE  TypeOK' /\ Effect
    BY <2>4, TimerFires DEF Effect
  <2>5. ASSUME NEW t \in timers, doMatchTimeout(t)
        PROVE  TypeOK' /\ Effect
    BY <2>5, MatchTimeoutStep DEF Effect
  <2>6. ASSUME NEW l \in alives, aliveLoopGivesUp(l)
        PROVE  TypeOK' /\ Effect
    BY <2>6, AliveStep DEF Effect
  <2>7. ASSUME NEW l \in alives, doReleaseSlot(l)
        PROVE  TypeOK' /\ Effect
    BY <2>7, ReleaseEventStep DEF Effect
  <2>8. QED
    BY <1>1, <2>1, <2>2, <2>3, <2>4, <2>5, <2>6, <2>7 DEF Claiming
<1>2. ASSUME Activating
      PROVE  TypeOK' /\ Effect
  <2>1. ASSUME NEW id \in Id, NEW ad \in JobAds, doActivateClaim(id, ad)
        PROVE  TypeOK' /\ Effect
    BY <2>1, ActivateStep DEF Effect
  <2>2. ASSUME NEW g \in Gen, Supervise(g) \/ Reply(g) \/ reapStarter(g) \/ backstopFires(g)
        PROVE  TypeOK' /\ Effect
    BY <2>2, GoroutineSteps DEF Effect
  <2>3. ASSUME NEW g \in Gen, Take(g)
        PROVE  TypeOK' /\ Effect
    <3>1. CASE doStarterHello(g)
      BY <3>1, HelloTaken DEF Effect
    <3>2. CASE doStarterFinal(g)
      BY <3>2, FinalTaken DEF Effect
    <3>3. CASE doAdoptFailed(g)
      BY <3>3, AdoptFailedStep DEF Effect
    <3>4. CASE supExited(g) \/ reaperExited(g) \/ handlerExited(g)
      BY <3>4, ExitEventStep DEF Effect
    <3>5. QED
      BY <2>3, <3>1, <3>2, <3>3, <3>4 DEF Take
  <2>4. ASSUME NEW g \in Gen, doVacateEscalate(g)
        PROVE  TypeOK' /\ Effect
    BY <2>4, Escalates DEF Effect
  <2>5. ASSUME NEW g \in Gen, starterExits(g) \/ starterAbandoned(g) \/ starterKilled(g)
        PROVE  TypeOK' /\ Effect
    BY <2>5, StarterEnds DEF Effect
  <2>6. ASSUME NEW h \in Deact,
               \/ deactivateReplyFails(h)
               \/ \E id \in Id, command \in {"graceful", "forcibly", "job_done"} :
                    doDeactivate(h, id, command)
        PROVE  TypeOK' /\ Effect
    BY <2>6, HandlerMoves DEF Effect
  <2>7. ASSUME NEW h \in Deact, doVacate(h)
        PROVE  TypeOK' /\ Effect
    BY <2>7, Vacates DEF Effect
  <2>8. QED
    BY <1>2, <2>1, <2>2, <2>3, <2>4, <2>5, <2>6, <2>7 DEF Activating
<1>3. ASSUME Persisting
      PROVE  TypeOK' /\ Effect
  BY <1>3, PersisterSteps DEF Effect
<1>4. ASSUME Restarting
      PROVE  TypeOK' /\ Effect
  <2>1. CASE Stop
    BY <2>1, StopIsStop DEF Effect
  <2>2. CASE loopReturns
    BY <2>2, LoopReturnsStep DEF Effect
  <2>3. CASE cleanExit \/ crash
    BY <2>3, ProcessEndsIsDown DEF Effect, cleanExit, crash
  <2>4. ASSUME NEW minted \in PrimeOutcomes, NEW lost \in ImportFailures, restart(minted, lost)
        PROVE  TypeOK' /\ Effect
    BY <2>4, RestartIsRestart DEF Effect
  <2>5. QED
    BY <1>4, <2>1, <2>2, <2>3, <2>4 DEF Restarting
<1>5. QED
  BY <1>1, <1>2, <1>3, <1>4 DEF Next

\* A step that changes nothing is Quiet.
LEMMA Stutter ==
  ASSUME TypeOK, UNCHANGED vars
  PROVE  TypeOK' /\ Quiet
BY Frames DEF vars, claimVars, timerVars, actVars, deactVars, diskVars, lifeVars, TypeOK, Quiet

\* Type correctness, for every machine, number of slots, mode, set of faults and
\* bound: no handler, crash or re-adoption leaves a slot, claim, timer,
\* activation or record half written.
THEOREM TypeCorrect == Spec => []TypeOK
<1>1. TypeOK /\ [Next]_vars => TypeOK'
  BY NextEffect, Stutter
<1>2. QED
  BY <1>1, InitTypeOK, PTL DEF Spec
=============================================================================
