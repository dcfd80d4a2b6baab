---------------------------- MODULE StartdDivision ----------------------------
(***************************************************************************)
(* How the steps divide the machine.  A step either leaves the division    *)
(* alone, carves a dynamic slot, destroys one, ends the process or         *)
(* rebuilds everything from the store (Divisions); that the partitionable  *)
(* slot lists its children is proved kind by kind.  Then what sums of one  *)
(* resource over slots or records come to.                                 *)
(***************************************************************************)
EXTENDS StartdProperties, StartdProofs, FiniteSetTheorems, WellFoundedInduction

-----------------------------------------------------------------------------
(* The kinds of steps, as the resources see them. *)

\* Two slots agree on their resources and children.
SameDivision(t, s) == t.live = s.live /\ t.res = s.res /\ t.children = s.children

\* A dynamic slot is never offered: it is carved for a claim and ends with it.
\* One whose session could not be imported has no claim id.
DynAt(s) == s.state # "Matched" /\ (s.claim.id # 0 => s.claim.state # "Unclaimed")

DynInv == \A d \in DSlots : DynAt(slots[d])

\* The claims of the live dynamic slots of ss.
ClaimsOf(ss) == {ss[d].claim.id : d \in {e \in DSlots : ss[e].live}} \ {0}

\* The step leaves the division of the machine alone.
DividedStep ==
  /\ dslotSeq' = dslotSeq
  /\ \A n \in Name : SameDivision(slots'[n], slots[n])
  /\ \A d \in DSlots : slots'[d].claim.id = slots[d].claim.id /\ DynAt(slots'[d])

\* Dynamic slot d is carved from p.
CarvedStep(p, d, req) ==
  /\ p \in ConfigSlots /\ IsPartitionable(p) /\ CanCarve(slots[p].res, req)
  /\ d \in DSlots /\ d[2] = dslotSeq + 1 /\ dslotSeq' = dslotSeq + 1
  /\ slots'[d].res = req /\ slots'[d].live /\ DynAt(slots'[d])
  /\ \A e \in DSlots \ {d} : slots'[e] = slots[e]
  /\ slots'[p].res = Carve(slots[p].res, req) /\ slots'[p].live = slots[p].live
  /\ slots'[p].children = ClaimsOf(slots')

\* Dynamic slot d is destroyed, and p takes its resources back.
DestroyedStep(p, d) ==
  /\ p \in ConfigSlots /\ IsPartitionable(p)
  /\ d \in DSlots /\ dslotSeq' = dslotSeq
  /\ slots'[d] = NoSlot
  /\ \A e \in DSlots \ {d} : slots'[e] = slots[e]
  /\ slots'[p].res = Restore(slots[p].res, slots[d].res, FullRes(p))
  /\ slots'[p].live = slots[p].live
  /\ slots'[p].children = ClaimsOf(slots')

\* The startd is rebuilt: every dynamic slot on record is there, and the
\* configured slots have what is left.
RebuiltStep ==
  /\ \A n \in ConfigSlots :
       slots'[n].live /\ slots'[n].res = carvedRes(n, ClaimedOnRecord)
  /\ \A d \in DSlots :
       /\ slots'[d].res = IF d \in ClaimedOnRecord THEN store[d].res ELSE NoResources
       /\ d \in ClaimedOnRecord => d[2] <= dslotSeq'
       /\ DynAt(slots'[d])
  /\ Partitionable => slots'[<<1, 0>>].children = ClaimsOf(slots')
  /\ restarts' > restarts

\* What a slot operation does to the resources: nothing.
LEMMA OperationsKeepDivision ==
  ASSUME NEW s, IsSlot(s)
  PROVE  /\ \A cl, state, activity : SameDivision(SetClaimState(s, cl, state, activity), s)
         /\ \A state, activity : SameDivision(SetStateActivity(s, state, activity), s)
         /\ \A g : SameDivision(SetFinal(s, g), s)
         /\ SameDivision(AcceptClaim(s), s) /\ SameDivision(SetBusy(s), s)
         /\ SameDivision(SetIdle(s), s)
         /\ \A minted : SameDivision(unclaimSlot(s, minted), s)
         /\ \A id, busy : SameDivision(AdoptClaim(s, id, busy), s)
<1>1. \A cl, state, activity : SameDivision(SetClaimState(s, cl, state, activity), s)
  BY DEF IsSlot, Slots, SetClaimState, SameDivision
<1>2. \A state, activity : SameDivision(SetStateActivity(s, state, activity), s)
  BY DEF IsSlot, Slots, SetStateActivity, SameDivision
<1>3. \A g : SameDivision(SetFinal(s, g), s)
  BY DEF IsSlot, Slots, SetFinal, SameDivision
<1>4. QED
  BY <1>1, <1>2, <1>3, Zenon DEF AcceptClaim, SetBusy, SetIdle, unclaimSlot, AdoptClaim

\* The configured and the dynamic slots are different slots, and a partitionable
\* slot is the only one.
LEMMA SlotNames ==
  /\ \A n \in Name : IsDynamic(n) <=> n \in DSlots
  /\ \A n \in Name : n \in ConfigSlots <=> ~IsDynamic(n)
  /\ \A n \in ConfigSlots : n \in Name /\ n \notin DSlots
  /\ \A d \in DSlots : d \in Name /\ Partitionable /\ ParentName(d) = <<1, 0>>
  /\ Partitionable => ConfigSlots = {<<1, 0>>}
<1>1. \A n \in ConfigSlots : n[2] = 0
  BY DEF ConfigSlots
<1>2. \A d \in DSlots : d[2] > 0 /\ Partitionable /\ ParentName(d) = <<1, 0>>
  BY DEF DSlots, ParentName
<1>3. QED
  BY <1>1, <1>2 DEF Name, IsDynamic, ConfigSlots

\* One slot is written and keeps its resources.
LEMMA SlotWritten ==
  ASSUME TypeOK, DynInv, NEW n \in Name, NEW t, SameDivision(t, slots[n]),
         n \in DSlots => t.claim.id = slots[n].claim.id /\ DynAt(t),
         slots' = [slots EXCEPT ![n] = t], dslotSeq' = dslotSeq
  PROVE  DividedStep
<1>1. slots = [m \in Name |-> slots[m]]
  BY DEF TypeOK, ClaimTypes, SlotMap
<1>2. slots'[n] = t /\ \A m \in Name \ {n} : slots'[m] = slots[m]
  BY <1>1
<1>3. \A m \in Name : SameDivision(slots'[m], slots[m])
  BY <1>2, Zenon DEF SameDivision
<1>4. \A d \in DSlots : slots'[d].claim.id = slots[d].claim.id /\ DynAt(slots'[d])
  BY <1>2, SlotNames, Zenon DEF DynInv
<1>5. QED
  BY <1>3, <1>4 DEF DividedStep

\* No slot is written.
LEMMA SlotsUntouched ==
  ASSUME DynInv, slots' = slots, dslotSeq' = dslotSeq
  PROVE  DividedStep
BY Zenon DEF DividedStep, SameDivision, DynInv, DynAt

\* refreshPSlotChildren lists the claims of the live dynamic slots and touches
\* nothing else.
LEMMA RefreshLists ==
  ASSUME NEW ss, SlotMap(ss), Partitionable
  PROVE  LET p == <<1, 0>>
             r == refreshPSlotChildren(ss, p)
         IN  /\ r[p].children = ClaimsOf(r)
             /\ r[p].res = ss[p].res /\ r[p].live = ss[p].live
             /\ \A d \in DSlots : r[d] = ss[d]
<1> DEFINE p == <<1, 0>>
           children == {d \in DSlots : ss[d].live /\ ParentName(d) = p /\ ss[d].claim.id # 0}
           ids == {ss[d].claim.id : d \in children}
           r == refreshPSlotChildren(ss, p)
<1>1. p \in Name /\ \A d \in DSlots : d \in Name /\ d # p /\ ParentName(d) = p
  BY SlotNames
<1>2. r = [ss EXCEPT ![p] = SetChildClaimIds(ss[p], ids)]
  BY DEF refreshPSlotChildren
<1>3. ids = ClaimsOf(ss)
  BY <1>1 DEF ClaimsOf
<1>4. ss = [m \in Name |-> ss[m]] /\ IsSlot(ss[p])
  BY <1>1 DEF SlotMap
<1> HIDE DEF ids, r, p
<1>5. r[p] = SetChildClaimIds(ss[p], ids) /\ \A d \in DSlots : r[d] = ss[d]
  BY <1>1, <1>2, <1>4
<1>6. r[p].children = ids /\ r[p].res = ss[p].res /\ r[p].live = ss[p].live
  BY <1>4, <1>5 DEF SetChildClaimIds, IsSlot, Slots
<1>7. ClaimsOf(r) = ClaimsOf(ss)
  BY <1>5 DEF ClaimsOf
<1>8. QED
  BY <1>3, <1>5, <1>6, <1>7 DEF r, p

\* unclaimSlot gives up a slot that is not dynamic.
LEMMA UnclaimedDivision ==
  ASSUME TypeOK, DynInv, NEW n \in Name, n \notin DSlots, dslotSeq' = dslotSeq,
         NEW minted, slots' = [slots EXCEPT ![n] = unclaimSlot(@, minted)]
  PROVE  DividedStep
<1> DEFINE t == unclaimSlot(slots[n], minted)
<1>1. IsSlot(slots[n]) /\ slots = [m \in Name |-> slots[m]]
  BY DEF TypeOK, ClaimTypes, SlotMap
<1>2. SameDivision(t, slots[n])
  BY <1>1, OperationsKeepDivision, Zenon
<1>3. slots' = [slots EXCEPT ![n] = t]
  BY <1>1
<1> HIDE DEF t
<1>4. QED
  BY <1>2, <1>3, SlotWritten, Zenon

\* MATCH_INFO: the slot it finds has a claim nobody owns, so it is not dynamic.
LEMMA MatchInfoDivision ==
  ASSUME TypeOK, DynInv, NEW id \in Id, doMatchInfo(id)
  PROVE  DividedStep
<1>1. PICK n \in findSlotByClaimID(id) :
        /\ slots[n].claim.state = "Unclaimed"
        /\ slots' = [slots EXCEPT ![n] = SetStateActivity(@, "Matched", "Idle")]
        /\ dslotSeq' = dslotSeq
  BY Zenon DEF doMatchInfo
<1>2. n \in Name /\ slots[n].claim.id = id /\ SlotMap(slots) /\ IsSlot(slots[n])
  BY Found
<1>3. id # 0
  BY StartdAssumption DEF Id
<1>4. n \notin DSlots
  BY <1>1, <1>2, <1>3, Zenon DEF DynInv, DynAt
<1> DEFINE t == SetStateActivity(slots[n], "Matched", "Idle")
<1>5. SameDivision(t, slots[n])
  BY <1>2, OperationsKeepDivision, Zenon
<1>6. slots' = [slots EXCEPT ![n] = t]
  BY <1>1, <1>2 DEF SlotMap
<1> HIDE DEF t
<1>7. QED
  BY <1>1, <1>2, <1>4, <1>5, <1>6, SlotWritten, Zenon

\* A match timer's event: a dynamic slot is never Matched.
LEMMA MatchTimeoutDivision ==
  ASSUME TypeOK, DynInv, NEW t \in timers, doMatchTimeout(t)
  PROVE  DividedStep
<1>1. t.slot \in Name
  BY DEF TypeOK, TimerTypes, Timers
<1>2. dslotSeq' = dslotSeq
  BY DEF doMatchTimeout
<1>3. CASE slots' = slots
  BY <1>2, <1>3, SlotsUntouched
<1>4. CASE /\ timeoutDue(t)
           /\ \E minted \in MintOutcomes :
                slots' = [slots EXCEPT ![t.slot] = unclaimSlot(@, minted)]
  <2>1. t.slot \notin DSlots
    BY <1>4, Zenon DEF timeoutDue, DynInv, DynAt
  <2>2. QED
    BY <1>1, <1>2, <1>4, <2>1, UnclaimedDivision, Zenon
<1>5. QED
  BY <1>3, <1>4, Zenon DEF doMatchTimeout

\* doRequestClaimPSlot carves.
LEMMA CarveDivision ==
  ASSUME TypeOK, NEW ad \in JobAds, NEW p \in Name, IsPartitionable(p), seq < MaxId,
         doRequestClaimPSlot(p, ad)
  PROVE  \E d \in DSlots : CarvedStep(p, d, requestedResources(ad))
<1> DEFINE req == requestedResources(ad)
           d == <<p[1], dslotSeq + 1>>
           new == [NewSlot(req) EXCEPT !.claim = Minted(seq + 1)]
           t == AcceptClaim(new)
           one == [slots EXCEPT ![d] = t]
           q == [slots[p] EXCEPT !.res = Carve(slots[p].res, req)]
           cut == [one EXCEPT ![p] = q]
<1>1. /\ CanCarve(slots[p].res, req) /\ dslotSeq < MaxDSlots /\ dslotSeq' = dslotSeq + 1
  BY DEF doRequestClaimPSlot
<1>2. p = <<1, 0>> /\ Partitionable /\ p \in ConfigSlots
  BY SlotNames DEF IsPartitionable
<1>3. d = <<1, dslotSeq + 1>> /\ d \in DSlots /\ d[2] = dslotSeq + 1
  BY <1>1, <1>2, StartdAssumption DEF DSlots, TypeOK, ClaimTypes
<1>4. d # p /\ d \in Name
  BY <1>2, <1>3, SlotNames
<1>5. seq + 1 \in Id
  BY StartdAssumption DEF TypeOK, ClaimTypes, Id
<1>6. slots = [m \in Name |-> slots[m]] /\ SlotMap(slots) /\ IsSlot(slots[p])
  BY DEF TypeOK, ClaimTypes, SlotMap
<1>7. IsSlot(new) /\ new.live /\ new.res = req
  <2>1. Minted(seq + 1) \in Claims(Id, Gen)
    BY <1>5, ClaimsBuilt
  <2>2. IsSlot(new) /\ new.live
    BY <2>1, SlotsBuilt, Zenon
  <2>3. new.res = req
    BY DEF NewSlot
  <2>4. QED
    BY <2>2, <2>3
<1> HIDE DEF new, req, d
<1>8. /\ IsSlot(t) /\ t.live /\ t.state = "Claimed" /\ t.claim.state = "ClaimedIdle"
      /\ t.res = req
  <2>1. IsSlot(t) /\ t.live = new.live /\ t.state = "Claimed" /\ t.claim.state = "ClaimedIdle"
    BY <1>7, AcceptedSlot, Zenon
  <2>2. SameDivision(t, new)
    BY <1>7, OperationsKeepDivision, Zenon
  <2>3. QED
    BY <1>7, <2>1, <2>2 DEF SameDivision
<1> HIDE DEF t
<1>9. DynAt(t)
  BY <1>8 DEF DynAt
<1>10. IsSlot(q) /\ q.res = Carve(slots[p].res, req) /\ q.live = slots[p].live
  BY <1>6 DEF IsSlot, Slots
<1> HIDE DEF q
<1>11. /\ SlotMap(cut) /\ cut[d] = t /\ cut[p] = q
       /\ \A m \in Name \ {d, p} : cut[m] = slots[m]
  BY <1>4, <1>6, <1>8, <1>10, Zenon DEF SlotMap
<1>12. slots' = refreshPSlotChildren(cut, <<1, 0>>)
  <2>1. [slots EXCEPT ![d] = t, ![p].res = Carve(@, req)] = cut
    BY <1>4, <1>6, Zenon DEF q
  <2>2. QED
    BY <1>2, <2>1 DEF doRequestClaimPSlot, t, new, req, d
<1> HIDE DEF cut
<1>13. /\ slots'[p].children = ClaimsOf(slots')
       /\ slots'[p].res = q.res /\ slots'[p].live = q.live
       /\ \A e \in DSlots : slots'[e] = cut[e]
  BY <1>2, <1>11, <1>12, RefreshLists
<1>14. \A e \in DSlots \ {d} : slots'[e] = slots[e]
  BY <1>2, <1>11, <1>13, SlotNames
<1>15. slots'[d] = t
  BY <1>3, <1>11, <1>13
<1>16. CarvedStep(p, d, req)
  BY <1>1, <1>2, <1>3, <1>8, <1>9, <1>10, <1>13, <1>14, <1>15, Zenon DEF CarvedStep
<1>17. QED
  BY <1>3, <1>16 DEF req

\* REQUEST_CLAIM.
LEMMA RequestDivision ==
  ASSUME TypeOK, DynInv, NEW id \in Id, NEW ad \in JobAds, doRequestClaim(id, ad)
  PROVE  \/ DividedStep
         \/ \E p \in ConfigSlots, d \in DSlots : CarvedStep(p, d, requestedResources(ad))
<1>1. PICK n \in findSlotByClaimID(id) :
        \/ /\ ~IsPartitionable(n)
           /\ slots' = [slots EXCEPT ![n] = AcceptClaim(@)] /\ dslotSeq' = dslotSeq
        \/ IsPartitionable(n) /\ seq < MaxId /\ doRequestClaimPSlot(n, ad)
        \/ slots' = slots /\ dslotSeq' = dslotSeq
  BY Zenon DEF doRequestClaim, claimVars
<1>2. n \in Name /\ slots[n].claim.id = id /\ SlotMap(slots) /\ IsSlot(slots[n])
  BY Found
<1>3. CASE slots' = [slots EXCEPT ![n] = AcceptClaim(@)] /\ dslotSeq' = dslotSeq
  <2> DEFINE t == AcceptClaim(slots[n])
  <2>1. SameDivision(t, slots[n])
    BY <1>2, OperationsKeepDivision, Zenon
  <2>2. t.state = "Claimed" /\ t.claim.id = slots[n].claim.id /\ t.claim.state = "ClaimedIdle"
    BY <1>2, AcceptedSlot, Zenon
  <2>3. slots' = [slots EXCEPT ![n] = t]
    BY <1>2, <1>3 DEF SlotMap
  <2> HIDE DEF t
  <2>4. DynAt(t)
    BY <2>2 DEF DynAt
  <2>5. QED
    BY <1>2, <1>3, <2>1, <2>2, <2>3, <2>4, SlotWritten, Zenon
<1>4. CASE IsPartitionable(n) /\ seq < MaxId /\ doRequestClaimPSlot(n, ad)
  <2>1. n \in ConfigSlots
    BY <1>2, <1>4, SlotNames DEF IsPartitionable
  <2>2. QED
    BY <1>2, <1>4, <2>1, CarveDivision
<1>5. CASE slots' = slots /\ dslotSeq' = dslotSeq
  BY <1>5, SlotsUntouched
<1>6. QED
  BY <1>1, <1>3, <1>4, <1>5

\* destroyDSlot destroys.
LEMMA DestroyDivision ==
  ASSUME TypeOK, NEW n \in Name, IsDynamic(n), destroyDSlot(n)
  PROVE  \E p \in ConfigSlots : DestroyedStep(p, n)
<1> DEFINE p == ParentName(n)
           res == Restore(slots[p].res, slots[n].res, FullRes(p))
           one == [slots EXCEPT ![n] = NoSlot]
           q == [slots[p] EXCEPT !.res = res]
           cut == [one EXCEPT ![p] = q]
<1>1. n \in DSlots /\ p = <<1, 0>> /\ Partitionable /\ p \in ConfigSlots /\ p \in Name /\ p # n
  BY SlotNames
<1>2. IsPartitionable(p)
  BY <1>1, SlotNames DEF IsPartitionable
<1>3. slots = [m \in Name |-> slots[m]] /\ SlotMap(slots) /\ IsSlot(slots[p])
  BY <1>1 DEF TypeOK, ClaimTypes, SlotMap
<1>4. IsSlot(NoSlot)
  BY ClaimsBuilt, SlotsBuilt, Zenon
<1>5. IsSlot(q) /\ q.res = res /\ q.live = slots[p].live
  BY <1>3 DEF IsSlot, Slots
<1> HIDE DEF q
<1>6. /\ SlotMap(cut) /\ cut[n] = NoSlot /\ cut[p] = q
      /\ \A m \in Name \ {n, p} : cut[m] = slots[m]
  BY <1>1, <1>3, <1>4, <1>5, Zenon DEF SlotMap
<1>7. slots' = refreshPSlotChildren(cut, <<1, 0>>) /\ dslotSeq' = dslotSeq
  <2>1. [slots EXCEPT ![n] = NoSlot, ![p].res = Restore(@, slots[n].res, FullRes(p))] = cut
    BY <1>1, <1>3, Zenon DEF q
  <2>2. QED
    BY <1>1, <2>1 DEF destroyDSlot
<1> HIDE DEF cut, p, res
<1>8. /\ slots'[p].children = ClaimsOf(slots')
      /\ slots'[p].res = q.res /\ slots'[p].live = q.live
      /\ \A e \in DSlots : slots'[e] = cut[e]
  BY <1>1, <1>6, <1>7, RefreshLists
<1>9. slots'[n] = NoSlot /\ \A e \in DSlots \ {n} : slots'[e] = slots[e]
  BY <1>1, <1>6, <1>8, SlotNames
<1>10. DestroyedStep(p, n)
  BY <1>1, <1>2, <1>5, <1>7, <1>8, <1>9, Zenon DEF DestroyedStep, res
<1>11. QED
  BY <1>1, <1>10

\* releaseSlot.
LEMMA ReleaseDivision ==
  ASSUME TypeOK, DynInv, NEW n \in Name, NEW heap, NEW loops, releaseSlot(n, heap, loops)
  PROVE  DividedStep \/ \E p \in ConfigSlots, d \in DSlots : DestroyedStep(p, d)
<1>1. CASE IsDynamic(n) /\ destroyDSlot(n)
  BY <1>1, DestroyDivision, SlotNames
<1>2. CASE /\ ~IsDynamic(n) /\ dslotSeq' = dslotSeq
           /\ \E minted \in MintOutcomes : slots' = [slots EXCEPT ![n] = unclaimSlot(@, minted)]
  <2>1. n \notin DSlots
    BY <1>2, SlotNames
  <2>2. QED
    BY <1>2, <2>1, UnclaimedDivision, Zenon
<1>3. QED
  BY <1>1, <1>2, Zenon DEF releaseSlot

\* A slot is written by SetBusy, SetIdle or SetFinal.
LEMMA ActivityDivision ==
  ASSUME TypeOK, DynInv, NEW n \in Name, NEW t, slots' = [slots EXCEPT ![n] = t],
         SameDivision(t, slots[n]), t.claim.id = slots[n].claim.id,
         \/ t.state = "Claimed" /\ t.claim.state # "Unclaimed"
         \/ t.state = slots[n].state /\ t.claim.state = slots[n].claim.state,
         dslotSeq' = dslotSeq
  PROVE  DividedStep
<1>1. n \in DSlots => DynAt(t)
  BY DEF DynInv, DynAt
<1>2. QED
  BY <1>1, SlotWritten, Zenon

\* evStarterExited idles a busy slot or writes none.
LEMMA ExitedDivision ==
  ASSUME TypeOK, DynInv, NEW n \in Name, NEW heap, doStarterExited(n, heap)
  PROVE  DividedStep
<1>1. dslotSeq' = dslotSeq
  BY DEF doStarterExited
<1>2. slots' = slots \/ slots' = [slots EXCEPT ![n] = SetIdle(@)]
  BY Zenon DEF doStarterExited
<1>3. CASE slots' = slots
  BY <1>1, <1>3, SlotsUntouched
<1>4. CASE slots' = [slots EXCEPT ![n] = SetIdle(@)]
  <2> DEFINE t == SetIdle(slots[n])
  <2>1. IsSlot(slots[n]) /\ SlotMap(slots)
    BY DEF TypeOK, ClaimTypes, SlotMap
  <2>2. t.state = "Claimed" /\ t.claim.id = slots[n].claim.id /\ t.claim.state = "ClaimedIdle"
    BY <2>1, IdleSlot, Zenon
  <2>3. SameDivision(t, slots[n])
    BY <2>1, OperationsKeepDivision, Zenon
  <2>4. slots' = [slots EXCEPT ![n] = t]
    BY <1>4, <2>1 DEF SlotMap
  <2> HIDE DEF t
  <2>5. QED
    BY <1>1, <2>2, <2>3, <2>4, ActivityDivision, Zenon
<1>5. QED
  BY <1>2, <1>3, <1>4

\* The loop takes an event of activation g.
LEMMA TakeDivision ==
  ASSUME TypeOK, DynInv, NEW g \in Gen, Take(g)
  PROVE  DividedStep \/ \E p \in ConfigSlots, d \in DSlots : DestroyedStep(p, d)
<1> DEFINE n == acts[g].slot
<1>1. n \in Name
  BY DEF TypeOK, ActTypes, Acts
<1>2. IsSlot(slots[n]) /\ SlotMap(slots)
  BY <1>1 DEF TypeOK, ClaimTypes, SlotMap
<1>3. CASE doStarterHello(g)
  BY <1>3, SlotsUntouched, Zenon DEF doStarterHello, claimVars
<1>4. ASSUME NEW h \in Gen
      PROVE  LET t == SetFinal(slots[n], h) IN
             /\ SameDivision(t, slots[n]) /\ t.claim.id = slots[n].claim.id
             /\ t.state = slots[n].state /\ t.claim.state = slots[n].claim.state /\ IsSlot(t)
  BY <1>2, SetFinalKeeps, OperationsKeepDivision, Zenon
<1>5. CASE doStarterFinal(g)
  <2>1. dslotSeq' = dslotSeq
    BY <1>5 DEF doStarterFinal
  <2>2. slots' = slots \/ slots' = [slots EXCEPT ![n] = SetFinal(@, g)]
    BY <1>5, Zenon DEF doStarterFinal
  <2>3. CASE slots' = slots
    BY <2>1, <2>3, SlotsUntouched
  <2>4. CASE slots' = [slots EXCEPT ![n] = SetFinal(@, g)]
    <3> DEFINE t == SetFinal(slots[n], g)
    <3>1. slots' = [slots EXCEPT ![n] = t]
      BY <1>2, <2>4 DEF SlotMap
    <3>2. /\ SameDivision(t, slots[n]) /\ t.claim.id = slots[n].claim.id
          /\ t.state = slots[n].state /\ t.claim.state = slots[n].claim.state
      BY <1>4, Zenon
    <3> HIDE DEF t
    <3>3. QED
      BY <1>1, <2>1, <3>1, <3>2, ActivityDivision, Zenon
  <2>5. QED
    BY <2>2, <2>3, <2>4
<1>6. CASE supExited(g) \/ reaperExited(g) \/ handlerExited(g)
  BY <1>1, <1>6, ExitedDivision, Zenon DEF supExited, reaperExited, handlerExited
<1>7. CASE doAdoptFailed(g)
  <2> DEFINE h == activations[n]
  <2>1. \/ slots' = slots /\ dslotSeq' = dslotSeq
        \/ h # 0 /\ slots' = [slots EXCEPT ![n] = SetIdle(SetFinal(@, h))] /\ dslotSeq' = dslotSeq
        \/ \E heap : releaseSlot(n, heap, alives)
    BY <1>7, Zenon DEF doAdoptFailed, claimVars
  <2>2. CASE slots' = slots /\ dslotSeq' = dslotSeq
    BY <2>2, SlotsUntouched
  <2>3. CASE /\ h # 0 /\ slots' = [slots EXCEPT ![n] = SetIdle(SetFinal(@, h))]
             /\ dslotSeq' = dslotSeq
    <3> DEFINE s == SetFinal(slots[n], h)
               t == SetIdle(s)
    <3>1. h \in Gen
      BY <1>1, <2>3 DEF TypeOK, ActTypes
    <3>2. SameDivision(s, slots[n]) /\ s.claim.id = slots[n].claim.id /\ IsSlot(s)
      BY <1>4, <3>1, Zenon
    <3>3. slots' = [slots EXCEPT ![n] = t]
      BY <1>2, <2>3 DEF SlotMap
    <3> HIDE DEF s
    <3>4. t.state = "Claimed" /\ t.claim.id = s.claim.id /\ t.claim.state = "ClaimedIdle"
      BY <3>2, IdleSlot, Zenon
    <3>5. SameDivision(t, s)
      BY <3>2, OperationsKeepDivision, Zenon
    <3> HIDE DEF t
    <3>6. SameDivision(t, slots[n])
      BY <3>2, <3>5 DEF SameDivision
    <3>7. QED
      BY <1>1, <2>3, <3>2, <3>3, <3>4, <3>6, ActivityDivision, Zenon
  <2>4. CASE \E heap : releaseSlot(n, heap, alives)
    BY <1>1, <2>4, ReleaseDivision
  <2>5. QED
    BY <2>1, <2>2, <2>3, <2>4
<1>8. QED
  BY <1>3, <1>5, <1>6, <1>7 DEF Take

\* ACTIVATE_CLAIM.
LEMMA ActivateDivision ==
  ASSUME TypeOK, DynInv, NEW id \in Id, NEW ad \in JobAds, doActivateClaim(id, ad)
  PROVE  DividedStep
<1>1. PICK n \in findSlotByClaimID(id) :
        slots' = [slots EXCEPT ![n] = SetBusy(@)] /\ dslotSeq' = dslotSeq
  BY Zenon DEF doActivateClaim
<1>2. n \in Name /\ SlotMap(slots) /\ IsSlot(slots[n])
  BY Found
<1> DEFINE t == SetBusy(slots[n])
<1>3. t.state = "Claimed" /\ t.claim.id = slots[n].claim.id /\ t.claim.state = "ClaimedBusy"
  BY <1>2, BusySlot, Zenon
<1>4. SameDivision(t, slots[n])
  BY <1>2, OperationsKeepDivision, Zenon
<1>5. slots' = [slots EXCEPT ![n] = t]
  BY <1>1, <1>2 DEF SlotMap
<1> HIDE DEF t
<1>6. QED
  BY <1>1, <1>2, <1>3, <1>4, <1>5, ActivityDivision, Zenon

\* New, prime and Adopt rebuild the slots.
LEMMA RestartDivision ==
  ASSUME TypeOK, NEW minted \in PrimeOutcomes, NEW lost \in ImportFailures, restart(minted, lost)
  PROVE  RebuiltStep
<1> DEFINE claimed == ClaimedOnRecord
           adopted == claimed \ lost
           cl(n) == IF n \in minted THEN Minted(seq + n[1]) ELSE NoClaim
           primed(n) == [NewSlot(carvedRes(n, claimed)) EXCEPT !.claim = cl(n)]
           built(n) == IF n \in ConfigSlots THEN primed(n)
                       ELSE IF n \in claimed THEN NewSlot(store[n].res)
                       ELSE NoSlot
           new(n) == IF n \in adopted
                     THEN AdoptClaim(built(n), store[n].id, store[n].activity = "Busy")
                     ELSE built(n)
           ss == [n \in Name |-> new(n)]
<1>1. /\ seq + NumConfigured <= MaxId
      /\ slots' = AdoptedSlots(minted, claimed, adopted)
      /\ \A d \in claimed : d[2] <= dslotSeq'
      /\ restarts' = restarts + 1
  BY DEF restart, ClaimedOnRecord
<1>2. restarts' > restarts
  BY <1>1 DEF TypeOK, LifeTypes
<1>3. ASSUME NEW n \in ConfigSlots
      PROVE  IsSlot(built(n)) /\ built(n).live /\ built(n).res = carvedRes(n, claimed)
  <2>1. NumConfigured \in Nat /\ n[1] \in 1..NumConfigured
    BY StartdAssumption DEF ConfigSlots, NumConfigured, NumStaticSlots, Kinds
  <2>2. seq + n[1] \in Id
    BY <1>1, <2>1, StartdAssumption DEF Id, TypeOK, ClaimTypes
  <2>3. cl(n) \in Claims(Id, Gen)
    BY <2>2, ClaimsBuilt
  <2> HIDE DEF cl
  <2>4. IsSlot(primed(n)) /\ primed(n).live
    BY <2>3, SlotsBuilt, Zenon
  <2>5. primed(n).res = carvedRes(n, claimed)
    BY DEF NewSlot
  <2>6. built(n) = primed(n)
    BY <1>3
  <2>7. QED
    BY <2>4, <2>5, <2>6
<1>4. ASSUME NEW d \in DSlots
      PROVE  /\ IsSlot(built(d)) /\ built(d).claim.id = 0 /\ built(d).state = "Unclaimed"
             /\ built(d).res = IF d \in claimed THEN store[d].res ELSE NoResources
  <2>1. d \notin ConfigSlots
    BY SlotNames
  <2>2. IsSlot(NewSlot(store[d].res)) /\ IsSlot(NoSlot)
    BY ClaimsBuilt, SlotsBuilt, Zenon
  <2>3. \A res : /\ NewSlot(res).claim.id = 0 /\ NewSlot(res).state = "Unclaimed"
                 /\ NewSlot(res).res = res
    BY DEF NewSlot, NoClaim
  <2>4. NoSlot.claim.id = 0 /\ NoSlot.state = "Unclaimed" /\ NoSlot.res = NoResources
    BY DEF NoSlot, NewSlot, NoClaim
  <2>5. QED
    BY <2>1, <2>2, <2>3, <2>4
<1> HIDE DEF built
<1>5. ASSUME NEW n \in Name
      PROVE  IsSlot(built(n)) /\ SameDivision(new(n), built(n))
  <2>1. IsSlot(built(n))
    BY <1>3, <1>4 DEF Name
  <2> DEFINE s == built(n)
             busy == store[n].activity = "Busy"
             a == AdoptClaim(s, store[n].id, busy)
  <2>2. new(n) = a \/ new(n) = s
    OBVIOUS
  <2>3. SameDivision(s, s)
    BY DEF SameDivision
  <2> HIDE DEF s, busy, new
  <2>4. SameDivision(a, s)
    BY <2>1, OperationsKeepDivision, Zenon DEF s
  <2> HIDE DEF a
  <2>5. QED
    BY <2>1, <2>2, <2>3, <2>4 DEF s
<1>6. ASSUME NEW n \in Name
      PROVE  AdoptedSlot(slots'[n], n, claimed, adopted) /\ SlotMap(slots')
  <2>1. minted \in SUBSET ConfigSlots
    BY Zenon DEF PrimeOutcomes
  <2>2. QED
    BY <1>1, <2>1, AdoptedSlotsTyped
<1>7. slots' = IF Partitionable THEN refreshPSlotChildren(ss, <<1, 0>>) ELSE ss
  BY <1>1 DEF AdoptedSlots, built
<1>8. SlotMap(ss) /\ \A n \in Name : ss[n] = new(n)
  <2>1. ASSUME NEW n \in Name
        PROVE  IsSlot(new(n))
    <3>1. CASE n \in adopted
      <4> DEFINE id == store[n].id
                 s == built(n)
      <4>1. id \in Id
        BY <3>1, Zenon DEF ClaimedOnRecord, TypeOK, DiskTypes, RecordMap, IsRecord, Records
      <4>2. IsSlot(s)
        BY <1>5
      <4>3. IsSlot(AdoptClaim(s, id, TRUE)) /\ IsSlot(AdoptClaim(s, id, FALSE))
        <5> HIDE DEF s, id
        <5>1. QED
          BY <4>1, <4>2, AdoptedBusy, AdoptedIdle, ZenonT(40)
      <4>4. new(n) = AdoptClaim(s, id, TRUE) \/ new(n) = AdoptClaim(s, id, FALSE)
        BY <3>1 DEF AdoptClaim
      <4>5. QED
        BY <4>3, <4>4, Zenon
    <3>2. CASE n \notin adopted
      BY <1>5, <3>2
    <3>3. QED
      BY <3>1, <3>2
  <2> HIDE DEF new
  <2>2. QED
    BY <2>1, Zenon DEF SlotMap
<1>9. /\ \A n \in ConfigSlots : slots'[n].live = ss[n].live /\ slots'[n].res = ss[n].res
      /\ \A d \in DSlots : slots'[d] = ss[d]
      /\ Partitionable => slots'[<<1, 0>>].children = ClaimsOf(slots')
  <2> HIDE DEF ss
  <2>1. CASE Partitionable
    BY <1>7, <1>8, <2>1, RefreshLists, SlotNames
  <2>2. CASE ~Partitionable
    BY <1>7, <2>2
  <2>3. QED
    BY <2>1, <2>2
<1> HIDE DEF ss
<1>10. ASSUME NEW n \in ConfigSlots
       PROVE  slots'[n].live /\ slots'[n].res = carvedRes(n, claimed)
  <2>1. n \in Name
    BY SlotNames
  <2>2. QED
    BY <1>3, <1>5, <1>8, <1>9, <2>1, Zenon DEF SameDivision
<1>11. ASSUME NEW d \in DSlots
       PROVE  /\ slots'[d].res = IF d \in claimed THEN store[d].res ELSE NoResources
              /\ DynAt(slots'[d])
  <2>1. d \in Name /\ slots'[d] = new(d)
    BY <1>8, <1>9, SlotNames
  <2>2. slots'[d].res = built(d).res
    BY <1>5, <2>1, Zenon DEF SameDivision
  <2>3. CASE d \in adopted
    <3>1. slots'[d].state = "Claimed" /\ slots'[d].claim.state \in {"ClaimedBusy", "ClaimedIdle"}
      BY <1>6, <2>1, <2>3 DEF AdoptedSlot
    <3>2. QED
      BY <1>4, <2>2, <3>1 DEF DynAt
  <2>4. CASE d \notin adopted
    <3>1. slots'[d] = built(d)
      BY <2>1, <2>4
    <3>2. QED
      BY <1>4, <3>1 DEF DynAt
  <2>5. QED
    BY <2>3, <2>4
<1>12. QED
  BY <1>1, <1>2, <1>9, <1>10, <1>11, Zenon DEF RebuiltStep

\* Every step is of one of those kinds.
LEMMA Divisions ==
  ASSUME TypeOK, DynInv, Next
  PROVE  \/ DividedStep
         \/ \E p \in ConfigSlots, d \in DSlots, ad \in JobAds :
              CarvedStep(p, d, requestedResources(ad))
         \/ \E p \in ConfigSlots, d \in DSlots : DestroyedStep(p, d)
         \/ DownStep \/ RebuiltStep
<1> DEFINE Kinded == \/ DividedStep
                     \/ \E p \in ConfigSlots, d \in DSlots, ad \in JobAds :
                          CarvedStep(p, d, requestedResources(ad))
                     \/ \E p \in ConfigSlots, d \in DSlots : DestroyedStep(p, d)
                     \/ DownStep \/ RebuiltStep
<1>1. UNCHANGED claimVars => DividedStep
  BY SlotsUntouched DEF claimVars
<1>2. ASSUME Claiming
      PROVE  Kinded
  <2>1. ASSUME NEW id \in Id, doMatchInfo(id)
        PROVE  Kinded
    BY <2>1, MatchInfoDivision
  <2>2. ASSUME NEW id \in Id, doReleaseByClaimID(id)
        PROVE  Kinded
    <3>1. PICK n \in findSlotByClaimID(id) : releaseSlot(n, acts, alives)
      BY <2>2 DEF doReleaseByClaimID
    <3>2. n \in Name
      BY Found
    <3>3. QED
      BY <3>1, <3>2, ReleaseDivision, Zenon
  <2>3. ASSUME NEW id \in Id, NEW ad \in JobAds, doRequestClaim(id, ad)
        PROVE  Kinded
    BY <2>3, RequestDivision, Zenon
  <2>4. ASSUME NEW t \in timers, matchTimerFires(t)
        PROVE  Kinded
    BY <1>1, <2>4 DEF matchTimerFires
  <2>5. ASSUME NEW t \in timers, doMatchTimeout(t)
        PROVE  Kinded
    BY <2>5, MatchTimeoutDivision
  <2>6. ASSUME NEW l \in alives, aliveLoopGivesUp(l)
        PROVE  Kinded
    BY <1>1, <2>6 DEF aliveLoopGivesUp
  <2>7. ASSUME NEW l \in alives, doReleaseSlot(l)
        PROVE  Kinded
    <3>1. CASE releaseSlot(l.slot, acts, alives \ {l})
      <4>1. l.slot \in Name
        BY DEF TypeOK, TimerTypes, AliveLoops
      <4>2. QED
        BY <3>1, <4>1, ReleaseDivision, Zenon
    <3>2. CASE UNCHANGED claimVars
      BY <1>1, <3>2
    <3>3. QED
      BY <2>7, <3>1, <3>2, Zenon DEF doReleaseSlot
  <2> HIDE DEF Kinded
  <2>8. QED
    BY <1>2, <2>1, <2>2, <2>3, <2>4, <2>5, <2>6, <2>7 DEF Claiming
<1>3. ASSUME Activating
      PROVE  Kinded
  <2>1. ASSUME NEW id \in Id, NEW ad \in JobAds, doActivateClaim(id, ad)
        PROVE  Kinded
    BY <2>1, ActivateDivision
  <2>2. ASSUME NEW g \in Gen, Take(g)
        PROVE  Kinded
    BY <2>2, TakeDivision
  <2>3. ASSUME NEW g \in Gen,
               \/ Supervise(g) \/ Reply(g) \/ reapStarter(g) \/ backstopFires(g)
               \/ doVacateEscalate(g) \/ starterExits(g) \/ starterAbandoned(g)
               \/ starterKilled(g)
        PROVE  Kinded
    <3>1. UNCHANGED claimVars
      BY <2>3, Zenon
      DEF Supervise, Reply, reapStarter, backstopFires, doVacateEscalate, starterExits,
          starterAbandoned, starterKilled, handlerPasses, handlerFails, supConnects, supGivesUp,
          supReadsHello, supReadsFinal, supExits, supRelays, actStep
    <3>2. QED
      BY <1>1, <3>1
  <2>4. ASSUME NEW h \in Deact,
               \/ deactivateReplyFails(h) \/ doVacate(h)
               \/ \E id \in Id, command \in {"graceful", "forcibly", "job_done"} :
                    doDeactivate(h, id, command)
        PROVE  Kinded
    <3>1. UNCHANGED claimVars
      BY <2>4, Zenon DEF deactivateReplyFails, doVacate, doDeactivate
    <3>2. QED
      BY <1>1, <3>1
  <2> HIDE DEF Kinded
  <2>5. QED
    BY <1>3, <2>1, <2>2, <2>3, <2>4 DEF Activating
<1>4. ASSUME Persisting
      PROVE  Kinded
  BY <1>1, <1>4, Zenon DEF Persisting, persisterFlushes, persisterCommits
<1>5. ASSUME Restarting
      PROVE  Kinded
  <2>1. CASE Stop \/ loopReturns
    BY <1>1, <2>1, Zenon DEF Stop, loopReturns
  <2>2. CASE cleanExit \/ crash
    BY <2>2, ProcessEndsIsDown DEF cleanExit, crash
  <2>3. ASSUME NEW minted \in PrimeOutcomes, NEW lost \in ImportFailures, restart(minted, lost)
        PROVE  Kinded
    BY <2>3, RestartDivision
  <2> HIDE DEF Kinded
  <2>4. QED
    BY <1>5, <2>1, <2>2, <2>3 DEF Restarting
<1> HIDE DEF Kinded
<1>6. Kinded
  BY <1>2, <1>3, <1>4, <1>5 DEF Next
<1>7. QED
  BY <1>6 DEF Kinded

-----------------------------------------------------------------------------
(* ChildrenExact. *)

\* The partitionable slot lists the claims of its dynamic slots.
Listed == Partitionable /\ slots[<<1, 0>>].live => slots[<<1, 0>>].children = ClaimsOf(slots)

\* A slot that is not there is not offered, and has nothing.
LEMMA NothingThere == DynAt(NoSlot) /\ ~NoSlot.live /\ NoSlot.res = NoResources
BY DEF DynAt, NoSlot, NewSlot, NoClaim

\* At first there is no dynamic slot.
LEMMA InitListed == Init => DynInv /\ Listed
<1> SUFFICES ASSUME Init PROVE DynInv /\ Listed
  OBVIOUS
<1>1. PICK minted \in PrimeOutcomes :
        slots = [n \in Name |->
                   IF n \in ConfigSlots
                   THEN [NewSlot(FullRes(n)) EXCEPT
                           !.claim = IF n \in minted THEN Minted(n[1]) ELSE NoClaim]
                   ELSE NoSlot]
  BY Zenon DEF Init
<1>2. \A d \in DSlots : slots[d] = NoSlot
  BY <1>1, SlotNames
<1>3. ClaimsOf(slots) = {}
  BY <1>2, NothingThere DEF ClaimsOf
<1>4. Partitionable => slots[<<1, 0>>].children = {}
  BY <1>1, SlotNames DEF NewSlot
<1>5. QED
  BY <1>2, <1>3, <1>4, NothingThere DEF DynInv, Listed

\* Every step keeps the list exact.
LEMMA ListedNext ==
  ASSUME TypeOK, DynInv, Listed, [Next]_vars
  PROVE  DynInv' /\ Listed'
<1> DEFINE p == <<1, 0>>
<1>1. Partitionable => p \in Name /\ p \in ConfigSlots
  BY SlotNames
<1>2. CASE DividedStep
  <2>1. DynInv'
    BY <1>2 DEF DividedStep, DynInv
  <2>2. ClaimsOf(slots') = ClaimsOf(slots)
    <3>1. \A d \in DSlots : slots'[d].claim.id = slots[d].claim.id /\ slots'[d].live = slots[d].live
      BY <1>2, SlotNames, Zenon DEF DividedStep, SameDivision
    <3>2. QED
      BY <3>1 DEF ClaimsOf
  <2>3. Listed'
    BY <1>1, <1>2, <2>2 DEF DividedStep, SameDivision, Listed
  <2>4. QED
    BY <2>1, <2>3
<1>3. ASSUME NEW q \in ConfigSlots, NEW d \in DSlots, NEW ad \in JobAds,
             CarvedStep(q, d, requestedResources(ad))
      PROVE  DynInv' /\ Listed'
  <2>1. DynInv'
    BY <1>3, Zenon DEF CarvedStep, DynInv
  <2>2. q = p
    BY <1>3, SlotNames
  <2>3. QED
    BY <1>3, <2>1, <2>2 DEF CarvedStep, Listed
<1>4. ASSUME NEW q \in ConfigSlots, NEW d \in DSlots, DestroyedStep(q, d)
      PROVE  DynInv' /\ Listed'
  <2>1. DynInv'
    BY <1>4, NothingThere, Zenon DEF DestroyedStep, DynInv
  <2>2. q = p
    BY <1>4, SlotNames
  <2>3. QED
    BY <1>4, <2>1, <2>2 DEF DestroyedStep, Listed
<1>5. CASE DownStep
  <2>1. \A n \in Name : slots'[n] = NoSlot
    BY <1>5 DEF DownStep
  <2>2. QED
    BY <1>1, <2>1, NothingThere, SlotNames DEF DynInv, Listed
<1>6. CASE RebuiltStep
  BY <1>6 DEF RebuiltStep, DynInv, Listed
<1>7. CASE UNCHANGED vars
  <2>1. DividedStep
    BY <1>7, SlotsUntouched DEF vars, claimVars
  <2>2. QED
    BY <1>2, <2>1
<1>8. QED
  BY <1>2, <1>3, <1>4, <1>5, <1>6, <1>7, Divisions, Zenon

\* ChildClaimIds lists the claims of the live dynamic slots, no more and no less,
\* whatever is carved, destroyed, lost or rebuilt, with any number of dynamic
\* slots, failing mints and imports, crashes and restarts.  Not every handler
\* that gives a claim up refreshes the list: doMatchTimeout does not, and is
\* harmless because a dynamic slot is never Matched (DynInv).
THEOREM ChildrenCorrect == Spec => []ChildrenExact
<1>1. Listed => ChildrenExact
  BY SlotNames DEF Listed, ChildrenExact, ClaimsOf, IsPartitionable
<1>2. QED
  BY <1>1, InitListed, ListedNext, TypeCorrect, PTL DEF Spec

-----------------------------------------------------------------------------
(* Sums of one resource over a finite set of slots or records.  The library  *)
(* defines MapThenSumSet by a recursive function that removes an arbitrary   *)
(* element at a time; it is shown that this function exists, that its value  *)
(* does not depend on the element removed first, and what a change of one    *)
(* summand does to it.  Each induction over a finite set takes a smallest    *)
(* counterexample.                                                           *)

\* The sum of resource k over the slots or records f[d], for the d of S.
SumRes(f, k, S) == MapThenSumSet(LAMBDA d : f[d].res[k], S)

\* The element MapThenSumSet removes first.
Pick(s) == CHOOSE x \in s : TRUE

\* g is the table of the partial sums over the subsets of S.
Table(f, k, S, g) ==
  g = [s \in SUBSET S |-> IF s = {} THEN 0 ELSE f[Pick(s)].res[k] + g[s \ {Pick(s)}]]

\* Among sets of subsets of a finite set there is a smallest one.
LEMMA Smallest ==
  ASSUME NEW S, IsFiniteSet(S), NEW Bad \in SUBSET SUBSET S, Bad # {}
  PROVE  \E T \in Bad : \A U \in Bad : U \subseteq T => U = T
<1>1. IsWellFoundedOn(StrictSubsetOrdering(S), FiniteSubsetsOf(S))
  BY FS_StrictSubsetOrderingWellFounded
<1>2. Bad \subseteq FiniteSubsetsOf(S)
  BY FS_Subset DEF FiniteSubsetsOf
<1>3. PICK T \in Bad : \A U \in Bad : <<U, T>> \notin StrictSubsetOrdering(S)
  BY <1>1, <1>2, WFMin, Zenon
<1>4. QED
  BY <1>3, Zenon DEF StrictSubsetOrdering

\* The element picked from a nonempty set is in it.
LEMMA Picked ==
  ASSUME NEW s, s # {}
  PROVE  Pick(s) \in s
BY DEF Pick

\* The sum is the last entry of a table.
LEMMA SumIsTable ==
  ASSUME NEW f, NEW k, NEW S
  PROVE  SumRes(f, k, S) = (CHOOSE g : Table(f, k, S, g))[S]
BY Zenon DEF SumRes, MapThenSumSet, MapThenFoldSet, Table, Pick

\* The entries of a table.
LEMMA TableEntry ==
  ASSUME NEW f, NEW k, NEW S, NEW g, Table(f, k, S, g), NEW s \in SUBSET S
  PROVE  g[s] = IF s = {} THEN 0 ELSE f[Pick(s)].res[k] + g[s \ {Pick(s)}]
BY Zenon DEF Table

\* Two tables agree where both are defined.
LEMMA TablesAgree ==
  ASSUME NEW f, NEW k, NEW S, NEW g, Table(f, k, S, g), NEW R, NEW h, Table(f, k, R, h),
         NEW s \in SUBSET S, s \in SUBSET R, IsFiniteSet(s)
  PROVE  g[s] = h[s]
<1> DEFINE Bad == {t \in SUBSET s : g[t] # h[t]}
<1> SUFFICES ASSUME Bad # {} PROVE FALSE
  OBVIOUS
<1>0. Bad \in SUBSET SUBSET s
  OBVIOUS
<1>1. PICK t \in Bad : \A u \in Bad : u \subseteq t => u = t
  <2> HIDE DEF Bad
  <2>1. QED
    BY <1>0, Smallest
<1>2. t \in SUBSET S /\ t \in SUBSET R /\ t \in SUBSET s
  OBVIOUS
<1>3. CASE t = {}
  BY <1>1, <1>2, <1>3, TableEntry, Zenon
<1>4. CASE t # {}
  <2>1. Pick(t) \in t
    BY <1>4, Picked
  <2>2. g[t \ {Pick(t)}] = h[t \ {Pick(t)}]
    BY <1>1, <2>1
  <2>3. g[t] = f[Pick(t)].res[k] + g[t \ {Pick(t)}] /\ h[t] = f[Pick(t)].res[k] + h[t \ {Pick(t)}]
    BY <1>2, <1>4, TableEntry
  <2>4. QED
    BY <1>1, <2>2, <2>3
<1>5. QED
  BY <1>3, <1>4

\* Every finite set has a table.
LEMMA TableExists ==
  ASSUME NEW f, NEW k, NEW S, IsFiniteSet(S)
  PROVE  \E g : Table(f, k, S, g)
<1> DEFINE Bad == {t \in SUBSET S : ~\E g : Table(f, k, t, g)}
<1> SUFFICES ASSUME Bad # {} PROVE FALSE
  OBVIOUS
<1>0. Bad \in SUBSET SUBSET S
  OBVIOUS
<1>1. PICK T \in Bad : \A u \in Bad : u \subseteq T => u = T
  <2> HIDE DEF Bad
  <2>1. QED
    BY <1>0, Smallest
<1> DEFINE Part(s) == (CHOOSE g : Table(f, k, s, g))
           Value(s) == Part(s)[s]
           Entry(s) == IF s = {} THEN 0 ELSE f[Pick(s)].res[k] + Value(s \ {Pick(s)})
           G == [s \in SUBSET T |-> Entry(s)]
<1>2. \A s \in SUBSET T : s # T => Table(f, k, s, Part(s))
  BY <1>1
<1> HIDE DEF Part
<1>3. ASSUME NEW s \in SUBSET T, s # T
      PROVE  Value(s) = Entry(s)
  <2>1. Table(f, k, s, Part(s))
    BY <1>2, <1>3
  <2>2. CASE s = {}
    BY <2>1, <2>2, TableEntry, Zenon
  <2>3. CASE s # {}
    <3>1. Pick(s) \in s
      BY <2>3, Picked
    <3> DEFINE r == s \ {Pick(s)}
    <3>2. r \in SUBSET T /\ r # T /\ r \in SUBSET s
      BY <1>3, <3>1
    <3>3. Table(f, k, r, Part(r))
      BY <1>2, <3>2
    <3>4. IsFiniteSet(r)
      BY <1>1, <3>2, FS_Subset
    <3> HIDE DEF r
    <3>5. Part(s)[r] = Part(r)[r]
      BY <2>1, <3>2, <3>3, <3>4, TablesAgree
    <3>6. Part(s)[s] = f[Pick(s)].res[k] + Part(s)[r]
      BY <2>1, <2>3, TableEntry DEF r
    <3>7. QED
      BY <2>3, <3>5, <3>6 DEF r
  <2>4. QED
    BY <2>2, <2>3
<1> HIDE DEF Value
<1>4. ASSUME NEW s \in SUBSET T
      PROVE  G[s] = IF s = {} THEN 0 ELSE f[Pick(s)].res[k] + G[s \ {Pick(s)}]
  <2>1. CASE s = {}
    BY <2>1
  <2>2. CASE s # {}
    <3>1. Pick(s) \in s
      BY <2>2, Picked
    <3> DEFINE r == s \ {Pick(s)}
    <3>2. r \in SUBSET T /\ r # T
      BY <3>1
    <3>3. Value(r) = Entry(r)
      BY <1>3, <3>2, Zenon
    <3>4. G[r] = Entry(r)
      BY <3>2
    <3>5. G[s] = f[Pick(s)].res[k] + Value(r)
      BY <2>2
    <3> HIDE DEF G, r, Entry
    <3>6. QED
      BY <2>2, <3>3, <3>4, <3>5 DEF r
  <2>3. QED
    BY <2>1, <2>2
<1>5. G = [s \in SUBSET T |-> G[s]]
  OBVIOUS
<1> HIDE DEF G
<1>6. Table(f, k, T, G)
  BY <1>4, <1>5, Zenon DEF Table
<1>7. QED
  BY <1>1, <1>6

\* The empty sum, and the sum of a nonempty set.
LEMMA SumStep ==
  ASSUME NEW f, NEW k, NEW S, IsFiniteSet(S)
  PROVE  /\ S = {} => SumRes(f, k, S) = 0
         /\ S # {} => /\ Pick(S) \in S
                      /\ SumRes(f, k, S) =
                           f[Pick(S)].res[k] + SumRes(f, k, S \ {Pick(S)})
<1> DEFINE g == CHOOSE g : Table(f, k, S, g)
<1>1. Table(f, k, S, g)
  BY TableExists
<1>2. SumRes(f, k, S) = g[S]
  BY SumIsTable
<1> HIDE DEF g
<1>3. g[S] = IF S = {} THEN 0 ELSE f[Pick(S)].res[k] + g[S \ {Pick(S)}]
  BY <1>1, TableEntry
<1>4. CASE S # {}
  <2> DEFINE R == S \ {Pick(S)}
             h == CHOOSE h : Table(f, k, R, h)
  <2>1. R \in SUBSET S /\ IsFiniteSet(R)
    BY FS_Subset
  <2> HIDE DEF R
  <2>2. Table(f, k, R, h)
    BY <2>1, TableExists
  <2>3. SumRes(f, k, R) = h[R]
    BY SumIsTable
  <2> HIDE DEF h
  <2>4. g[R] = h[R]
    BY <1>1, <2>1, <2>2, TablesAgree
  <2>5. QED
    BY <1>2, <1>3, <1>4, <2>3, <2>4, Picked DEF R
<1>5. QED
  BY <1>2, <1>3, <1>4

\* A sum of integers is an integer, and of naturals a natural.
LEMMA SumType ==
  ASSUME NEW f, NEW k, NEW S, IsFiniteSet(S), \A d \in S : f[d].res[k] \in Int
  PROVE  /\ SumRes(f, k, S) \in Int
         /\ (\A d \in S : f[d].res[k] >= 0) => SumRes(f, k, S) >= 0
<1> DEFINE Natural == \A d \in S : f[d].res[k] >= 0
           Good(T) == SumRes(f, k, T) \in Int /\ (Natural => SumRes(f, k, T) >= 0)
           Bad == {T \in SUBSET S : ~Good(T)}
<1> SUFFICES ASSUME Bad # {} PROVE FALSE
  OBVIOUS
<1>1. Bad \in SUBSET SUBSET S
  OBVIOUS
<1>2. PICK T \in Bad : \A u \in Bad : u \subseteq T => u = T
  <2> HIDE DEF Bad
  <2>1. QED
    BY <1>1, Smallest
<1>3. T \in SUBSET S /\ ~Good(T) /\ IsFiniteSet(T)
  BY FS_Subset
<1>4. T # {}
  <2>1. SumRes(f, k, T) = 0 => Good(T)
    OBVIOUS
  <2> HIDE DEF Good, Bad
  <2>2. QED
    BY <1>3, <2>1, SumStep, Zenon
<1>5. /\ Pick(T) \in T
      /\ SumRes(f, k, T) = f[Pick(T)].res[k] + SumRes(f, k, T \ {Pick(T)})
  BY <1>3, <1>4, SumStep
<1>6. Good(T \ {Pick(T)})
  BY <1>2, <1>5
<1>7. QED
  BY <1>3, <1>5, <1>6, SMTT(20)

\* Any element may be taken out of a sum first.
LEMMA SumRemove ==
  ASSUME NEW f, NEW k, NEW S, IsFiniteSet(S), \A d \in S : f[d].res[k] \in Int
  PROVE  \A x \in S : SumRes(f, k, S) = f[x].res[k] + SumRes(f, k, S \ {x})
<1> DEFINE Good(T) == \A x \in T : SumRes(f, k, T) = f[x].res[k] + SumRes(f, k, T \ {x})
           Bad == {T \in SUBSET S : ~Good(T)}
<1> SUFFICES ASSUME Bad # {} PROVE FALSE
  OBVIOUS
<1>1. Bad \in SUBSET SUBSET S
  OBVIOUS
<1>2. PICK T \in Bad : \A u \in Bad : u \subseteq T => u = T
  <2> HIDE DEF Bad
  <2>1. QED
    BY <1>1, Smallest
<1>3. T \in SUBSET S /\ IsFiniteSet(T)
  BY FS_Subset
<1>4. PICK x \in T : SumRes(f, k, T) # f[x].res[k] + SumRes(f, k, T \ {x})
  BY <1>2, Zenon
<1> DEFINE y == Pick(T)
<1>5. y \in T /\ SumRes(f, k, T) = f[y].res[k] + SumRes(f, k, T \ {y})
  BY <1>3, SumStep, Zenon
<1> HIDE DEF y
<1>6. x # y
  BY <1>4, <1>5, Zenon
<1>7. Good(T \ {x}) /\ Good(T \ {y})
  BY <1>2, <1>5, SMTT(20)
<1>8. /\ SumRes(f, k, T \ {x}) = f[y].res[k] + SumRes(f, k, (T \ {x}) \ {y})
      /\ SumRes(f, k, T \ {y}) = f[x].res[k] + SumRes(f, k, (T \ {y}) \ {x})
  BY <1>5, <1>6, <1>7, Zenon
<1>9. (T \ {x}) \ {y} = (T \ {y}) \ {x}
  OBVIOUS
<1>10. SumRes(f, k, (T \ {x}) \ {y}) \in Int
  <2> DEFINE R == (T \ {x}) \ {y}
  <2>1. IsFiniteSet(R) /\ \A d \in R : f[d].res[k] \in Int
    BY <1>3, FS_Subset
  <2> HIDE DEF R
  <2>2. SumRes(f, k, R) \in Int
    BY <2>1, SumType
  <2>3. QED
    BY <2>2 DEF R
<1>11. f[x].res[k] \in Int /\ f[y].res[k] \in Int
  BY <1>3, <1>5
<1> HIDE DEF Good, Bad
<1>12. QED
  <2> DEFINE both == SumRes(f, k, (T \ {x}) \ {y})
  <2>1. /\ SumRes(f, k, T \ {x}) = f[y].res[k] + both
        /\ SumRes(f, k, T \ {y}) = f[x].res[k] + both
    BY <1>8, <1>9, Zenon
  <2>2. both \in Int
    BY <1>10
  <2> HIDE DEF both
  <2>3. SumRes(f, k, T) = f[x].res[k] + (f[y].res[k] + both)
    BY <1>5, <1>11, <2>1, <2>2, SMTT(20)
  <2>4. QED
    BY <1>4, <2>1, <2>3

\* A sum depends on its summands only.
LEMMA SumCongruent ==
  ASSUME NEW f, NEW h, NEW k, NEW S, IsFiniteSet(S),
         \A d \in S : f[d].res[k] = h[d].res[k]
  PROVE  SumRes(f, k, S) = SumRes(h, k, S)
<1> DEFINE Bad == {T \in SUBSET S : SumRes(f, k, T) # SumRes(h, k, T)}
<1> SUFFICES ASSUME Bad # {} PROVE FALSE
  OBVIOUS
<1>1. Bad \in SUBSET SUBSET S
  OBVIOUS
<1>2. PICK T \in Bad : \A u \in Bad : u \subseteq T => u = T
  <2> HIDE DEF Bad
  <2>1. QED
    BY <1>1, Smallest
<1>3. T \in SUBSET S /\ IsFiniteSet(T) /\ SumRes(f, k, T) # SumRes(h, k, T)
  BY FS_Subset
<1>4. T # {}
  BY <1>3, SumStep, Zenon
<1>5. /\ Pick(T) \in T
      /\ SumRes(f, k, T) = f[Pick(T)].res[k] + SumRes(f, k, T \ {Pick(T)})
      /\ SumRes(h, k, T) = h[Pick(T)].res[k] + SumRes(h, k, T \ {Pick(T)})
  BY <1>3, <1>4, SumStep, SMTT(20)
<1>6. SumRes(f, k, T \ {Pick(T)}) = SumRes(h, k, T \ {Pick(T)})
  BY <1>2, <1>5, SMTT(20)
<1>7. QED
  BY <1>3, <1>5, <1>6

\* Summands that are 0 may be left out.
LEMMA SumZeros ==
  ASSUME NEW f, NEW k, NEW S, IsFiniteSet(S), NEW A \in SUBSET S,
         \A d \in S : f[d].res[k] \in Int, \A d \in S \ A : f[d].res[k] = 0
  PROVE  SumRes(f, k, S) = SumRes(f, k, A)
<1> DEFINE Bad == {T \in SUBSET S : A \subseteq T /\ SumRes(f, k, T) # SumRes(f, k, A)}
<1> SUFFICES ASSUME Bad # {} PROVE FALSE
  OBVIOUS
<1>1. Bad \in SUBSET SUBSET S
  OBVIOUS
<1>2. PICK T \in Bad : \A u \in Bad : u \subseteq T => u = T
  <2> HIDE DEF Bad
  <2>1. QED
    BY <1>1, Smallest
<1>3. T \in SUBSET S /\ A \subseteq T /\ IsFiniteSet(T) /\ SumRes(f, k, T) # SumRes(f, k, A)
  BY FS_Subset
<1>4. PICK x \in T : x \notin A
  <2> HIDE DEF Bad
  <2>1. T # A
    BY <1>3
  <2>2. QED
    BY <1>3, <2>1
<1>5. SumRes(f, k, T) = f[x].res[k] + SumRes(f, k, T \ {x})
  BY <1>3, SumRemove, SMTT(20)
<1>6. f[x].res[k] = 0
  BY <1>3, <1>4
<1>7. SumRes(f, k, T \ {x}) = SumRes(f, k, A)
  BY <1>2, <1>3, <1>4, SMTT(20)
<1>8. SumRes(f, k, T \ {x}) \in Int
  <2> DEFINE R == T \ {x}
  <2>1. IsFiniteSet(R) /\ \A d \in R : f[d].res[k] \in Int
    BY <1>3, FS_Subset
  <2> HIDE DEF R
  <2>2. SumRes(f, k, R) \in Int
    BY <2>1, SumType
  <2>3. QED
    BY <2>2 DEF R
<1>9. QED
  BY <1>3, <1>5, <1>6, <1>7, <1>8

\* One summand changes.
LEMMA SumChange ==
  ASSUME NEW f, NEW h, NEW k, NEW S, IsFiniteSet(S), NEW x \in S,
         \A d \in S : f[d].res[k] \in Int, h[x].res[k] \in Int,
         \A d \in S \ {x} : h[d].res[k] = f[d].res[k]
  PROVE  SumRes(h, k, S) = SumRes(f, k, S) - f[x].res[k] + h[x].res[k]
<1> DEFINE R == S \ {x}
<1>1. /\ IsFiniteSet(R) /\ \A d \in R : f[d].res[k] \in Int
      /\ \A d \in R : f[d].res[k] = h[d].res[k]
      /\ \A d \in S : h[d].res[k] \in Int
  BY FS_Subset
<1>2. /\ SumRes(f, k, S) = f[x].res[k] + SumRes(f, k, R)
      /\ SumRes(h, k, S) = h[x].res[k] + SumRes(h, k, R)
  BY <1>1, SumRemove, SMTT(20)
<1> HIDE DEF R
<1>3. SumRes(f, k, R) = SumRes(h, k, R) /\ SumRes(f, k, R) \in Int
  BY <1>1, SumCongruent, SumType, SMTT(20)
<1>4. QED
  BY <1>1, <1>2, <1>3, SMTT(20)

\* A summand is at most the sum, when none is negative.
LEMMA SumBound ==
  ASSUME NEW f, NEW k, NEW S, IsFiniteSet(S), NEW x \in S,
         \A d \in S : f[d].res[k] \in Int /\ f[d].res[k] >= 0
  PROVE  f[x].res[k] <= SumRes(f, k, S)
<1> DEFINE R == S \ {x}
<1>1. /\ IsFiniteSet(R) /\ \A d \in R : f[d].res[k] \in Int
      /\ \A d \in R : f[d].res[k] >= 0
  BY FS_Subset
<1>2. SumRes(f, k, S) = f[x].res[k] + SumRes(f, k, R)
  BY SumRemove
<1> HIDE DEF R
<1>3. SumRes(f, k, R) \in Int /\ SumRes(f, k, R) >= 0
  BY <1>1, SumType
<1>4. QED
  BY <1>2, <1>3
=============================================================================
