---------------------------- MODULE StartdSafety ----------------------------
(***************************************************************************)
(* Safety of the startd, for every machine, number of slots, set of faults *)
(* and bound.  Each invariant is strengthened until it is inductive, and   *)
(* its preservation is proved effect by effect (StartdProofs!Effect), not  *)
(* action by action.                                                       *)
(***************************************************************************)
EXTENDS StartdProperties, StartdProofs

-----------------------------------------------------------------------------
(* NoWedge. *)

\* Something at slot n refers to starter g: a record on its way to the store or
\* in it, the activations map, or a supervisor.
Refers(n, g) ==
  \/ \E r \in RecordsAt(n) : r.starter = g
  \/ activations[n] = g
  \/ acts[g].sup # "none" /\ acts[g].slot = n

\* A starter number is used for one slot only, and not before it is spawned.
\* Without this two records could name one starter, and a restart would give
\* one activation to two slots.
OneSlotPerStarter ==
  \A g \in Gen : \A n \in Name : Refers(n, g) =>
    g <= gen /\ \A m \in Name : Refers(m, g) => m = n

WedgeInv == NoWedge /\ OneSlotPerStarter

\* A step that spawns nothing, drops activations and ends only supervisors of
\* slots without an activation keeps the invariant.
LEMMA FewerReferences ==
  ASSUME TypeOK, TypeOK', WedgeInv, gen' = gen,
         \A n \in Name, g \in Gen : Refers(n, g)' => Refers(n, g),
         \A n \in Name : activations'[n] # 0 =>
           /\ activations'[n] = activations[n]
           /\ LET a == acts'[activations[n]] IN
              /\ a.slot = acts[activations[n]].slot
              /\ a.sup \notin {"none", "done"}
  PROVE  WedgeInv'
<1>1. NoWedge'
  BY DEF WedgeInv, NoWedge
<1>2. OneSlotPerStarter'
  BY DEF WedgeInv, OneSlotPerStarter
<1>3. QED
  BY <1>1, <1>2 DEF WedgeInv

\* The references that remain after a step that writes only present records.
LEMMA ReferencesKept ==
  ASSUME TypeOK, TypeOK', DiskStep,
         \A n \in Name : activations'[n] # 0 => activations'[n] = activations[n],
         \A g \in Gen : /\ acts'[g].slot = acts[g].slot
                        /\ acts'[g].sup = "none" <=> acts[g].sup = "none"
  PROVE  \A n \in Name, g \in Gen : Refers(n, g)' => Refers(n, g)
<1> SUFFICES ASSUME NEW n \in Name, NEW g \in Gen, Refers(n, g)'
             PROVE  Refers(n, g)
  OBVIOUS
<1>1. g # 0
  BY DEF Gen
<1>2. CASE \E r \in RecordsAt(n)' : r.starter = g
  <2>1. PICK r \in RecordsAt(n)' : r.starter = g
    BY <1>2
  <2>2. CASE r \in RecordsAt(n)
    BY <2>1, <2>2 DEF Refers
  <2>3. CASE r = NoRecord
    BY <1>1, <2>1, <2>3 DEF NoRecord
  <2>4. CASE r = RecordOf(n)'
    <3>1. activations'[n] = g
      BY <1>1, <2>1, <2>4 DEF RecordOf
    <3>2. QED
      BY <1>1, <3>1 DEF Refers
  <2>5. QED
    BY <2>2, <2>3, <2>4 DEF DiskStep
<1>3. CASE activations'[n] = g
  BY <1>1, <1>3 DEF Refers
<1>4. CASE acts'[g].sup # "none" /\ acts'[g].slot = n
  BY <1>4 DEF Refers
<1>5. QED
  BY <1>2, <1>3, <1>4 DEF Refers

\* The startd starts without references.
LEMMA InitWedge == Init => WedgeInv
<1> SUFFICES ASSUME Init
             PROVE  WedgeInv
  OBVIOUS
<1>1. NoWedge
  BY DEF Init, NoWedge
<1>2. ASSUME NEW n \in Name, NEW g \in Gen
      PROVE  ~Refers(n, g)
  <2>1. g # 0
    BY DEF Gen
  <2>2. RecordsAt(n) = {NoRecord}
    BY DEF Init, P!Empty, RecordsAt
  <2>3. activations[n] = 0 /\ acts[g].sup = "none"
    BY DEF Init, NoAct
  <2>4. QED
    BY <2>1, <2>2, <2>3 DEF Refers, NoRecord
<1>3. QED
  BY <1>1, <1>2 DEF WedgeInv, OneSlotPerStarter

\* Steps that leave the activations map and the supervisors alone.
LEMMA WedgeStays ==
  ASSUME TypeOK, TypeOK', WedgeInv, activations' = activations, gen' = gen, SupervisorsStay,
         DiskStep
  PROVE  WedgeInv'
<1>1. \A g \in Gen : /\ acts'[g].slot = acts[g].slot
                     /\ acts'[g].sup = "none" <=> acts[g].sup = "none"
  BY DEF SupervisorsStay
<1>2. \A n \in Name, g \in Gen : Refers(n, g)' => Refers(n, g)
  BY <1>1, ReferencesKept
<1>3. ASSUME NEW n \in Name, activations'[n] # 0
      PROVE  /\ activations'[n] = activations[n]
             /\ acts'[activations[n]].slot = acts[activations[n]].slot
             /\ acts'[activations[n]].sup \notin {"none", "done"}
  <2>1. activations[n] \in Gen
    BY <1>3 DEF TypeOK, ActTypes
  <2>2. QED
    BY <1>3, <2>1 DEF SupervisorsStay, WedgeInv, NoWedge
<1>4. QED
  BY <1>2, <1>3, FewerReferences

\* Steps that end the activation of slot n, and supervisors of slot n only.
LEMMA WedgeEnds ==
  ASSUME TypeOK, TypeOK', WedgeInv, NEW n \in Name, gen' = gen, EndsOnly(n), DiskStep,
         activations' = [activations EXCEPT ![n] = 0]
  PROVE  WedgeInv'
<1>1. \A g \in Gen : /\ acts'[g].slot = acts[g].slot
                     /\ acts'[g].sup = "none" <=> acts[g].sup = "none"
  BY DEF EndsOnly
<1>2. activations \in [Name -> Gen \cup {0}]
  BY DEF TypeOK, ActTypes
<1>3. \A m \in Name : activations'[m] # 0 => activations'[m] = activations[m] /\ m # n
  BY <1>2
<1>4. \A m \in Name, g \in Gen : Refers(m, g)' => Refers(m, g)
  BY <1>1, <1>3, ReferencesKept
<1>5. ASSUME NEW m \in Name, activations'[m] # 0
      PROVE  /\ activations'[m] = activations[m]
             /\ acts'[activations[m]].slot = acts[activations[m]].slot
             /\ acts'[activations[m]].sup \notin {"none", "done"}
  <2>1. activations[m] \in Gen /\ m # n /\ activations'[m] = activations[m]
    BY <1>2, <1>3, <1>5
  <2>2. /\ acts[activations[m]].slot = m
        /\ acts[activations[m]].sup \notin {"none", "done"}
    BY <1>5, <2>1 DEF WedgeInv, NoWedge
  <2>3. QED
    BY <2>1, <2>2 DEF EndsOnly
<1>6. QED
  BY <1>4, <1>5, FewerReferences

\* ACTIVATE_CLAIM takes a starter number nobody refers to.
LEMMA WedgeActivates ==
  ASSUME TypeOK, TypeOK', WedgeInv, NEW n \in Name, ActivatedStep(n)
  PROVE  WedgeInv'
<1> DEFINE new == gen + 1
<1>1. /\ new \in Gen /\ gen' = new /\ activations' = [activations EXCEPT ![n] = new]
      /\ acts'[new].slot = n /\ acts'[new].sup = "connect"
      /\ \A g \in Gen \ {new} : acts'[g] = acts[g]
      /\ DiskStep
  BY DEF ActivatedStep
<1>2. /\ activations \in [Name -> Gen \cup {0}]
      /\ gen \in Nat /\ new # 0 /\ ~(new <= gen) /\ gen <= new
  BY DEF TypeOK, ActTypes
<1> HIDE DEF new
<1>3. \A m \in Name : activations[m] # new
  BY <1>1, <1>2 DEF WedgeInv, OneSlotPerStarter, Refers
<1>4. NoWedge'
  <2> SUFFICES ASSUME NEW m \in Name, activations'[m] # 0
               PROVE  /\ acts'[activations'[m]].slot = m
                      /\ acts'[activations'[m]].sup \notin {"none", "done"}
    BY DEF NoWedge
  <2>1. CASE m = n
    BY <1>1, <1>2, <2>1
  <2>2. CASE m # n
    <3>1. activations'[m] = activations[m] /\ activations[m] \in Gen \ {new}
      BY <1>1, <1>2, <1>3, <2>2
    <3>2. QED
      BY <1>1, <3>1 DEF WedgeInv, NoWedge
  <2>3. QED
    BY <2>1, <2>2
<1>5. ASSUME NEW m \in Name, NEW g \in Gen, Refers(m, g)'
      PROVE  (g = new /\ m = n) \/ (g # new /\ Refers(m, g))
  <2>1. g # 0
    BY DEF Gen
  <2>2. activations'[m] = g => (g = new /\ m = n) \/ (g # new /\ Refers(m, g))
    BY <1>1, <1>2, <1>3 DEF Refers
  <2>3. CASE \E r \in RecordsAt(m)' : r.starter = g
    <3>1. PICK r \in RecordsAt(m)' : r.starter = g
      BY <2>3
    <3>2. CASE r \in RecordsAt(m)
      <4>1. Refers(m, g)
        BY <3>1, <3>2 DEF Refers
      <4>2. QED
        BY <1>2, <4>1 DEF WedgeInv, OneSlotPerStarter
    <3>3. CASE r = NoRecord
      BY <2>1, <3>1, <3>3 DEF NoRecord
    <3>4. CASE r = RecordOf(m)'
      BY <2>1, <2>2, <3>1, <3>4 DEF RecordOf
    <3>5. QED
      BY <1>1, <3>2, <3>3, <3>4 DEF DiskStep
  <2>4. CASE acts'[g].sup # "none" /\ acts'[g].slot = m
    BY <1>1, <2>4 DEF Refers
  <2>5. QED
    BY <1>5, <2>2, <2>3, <2>4 DEF Refers
<1>6. OneSlotPerStarter'
  <2> SUFFICES ASSUME NEW g \in Gen, NEW m \in Name, Refers(m, g)'
               PROVE  g <= gen' /\ \A k \in Name : Refers(k, g)' => k = m
    BY DEF OneSlotPerStarter
  <2>1. g \in Nat
    BY DEF Gen
  <2>2. CASE g = new
    <3>1. m = n /\ \A k \in Name : Refers(k, g)' => k = n
      BY <1>5, <2>2
    <3>2. QED
      BY <1>1, <2>1, <2>2, <3>1
  <2>3. CASE g # new
    <3>1. Refers(m, g) /\ \A k \in Name : Refers(k, g)' => Refers(k, g)
      BY <1>5, <2>3
    <3>2. g <= gen /\ \A k \in Name : Refers(k, g) => k = m
      BY <3>1 DEF WedgeInv, OneSlotPerStarter
    <3>3. QED
      BY <1>1, <1>2, <2>1, <3>1, <3>2 DEF new
  <2>4. QED
    BY <2>2, <2>3
<1>7. QED
  BY <1>4, <1>6 DEF WedgeInv

\* After a restart the references are those of the records.
LEMMA WedgeRestarts ==
  ASSUME TypeOK, TypeOK', WedgeInv, NEW adopted \in SUBSET ClaimedOnRecord, RestartStep(adopted)
  PROVE  WedgeInv'
<1>1. /\ activations' = [n \in Name |-> IF n \in adopted /\ store[n].activity = "Busy"
                                        THEN store[n].starter ELSE 0]
      /\ gen' = gen /\ \A m \in Name : RecordsAt(m)' = RecordsAt(m)
  BY DEF RestartStep
<1>2. ASSUME NEW g \in Gen
      PROVE  \/ /\ acts'[g].slot \in Name /\ activations'[acts'[g].slot] = g
                /\ acts'[g].sup = "connect"
             \/ /\ \A n \in Name : activations'[n] # g
                /\ acts'[g].sup = "none"
  <2>1. \/ /\ acts'[g].slot \in Name /\ activations'[acts'[g].slot] = g
           /\ acts'[g].sup = "connect"
        \/ /\ \A n \in Name : activations'[n] # g
           /\ acts'[g] = NoAct
    BY Zenon DEF RestartStep
  <2>2. NoAct.sup = "none"
    BY DEF NoAct
  <2>3. QED
    BY <2>1, <2>2
<1>3. ASSUME NEW n \in Name, NEW g \in Gen, activations'[n] = g
      PROVE  Refers(n, g)
  <2>1. store[n].starter = g
    BY <1>1, <1>3 DEF Gen
  <2>2. QED
    BY <2>1 DEF Refers, RecordsAt
<1>4. ASSUME NEW n \in Name, NEW g \in Gen, Refers(n, g)'
      PROVE  Refers(n, g)
  <2>1. CASE \E r \in RecordsAt(n)' : r.starter = g
    BY <1>1, <2>1 DEF Refers
  <2>2. CASE activations'[n] = g
    BY <1>3, <2>2
  <2>3. CASE acts'[g].sup # "none" /\ acts'[g].slot = n
    BY <1>2, <1>3, <2>3
  <2>4. QED
    BY <1>4, <2>1, <2>2, <2>3 DEF Refers
<1>5. OneSlotPerStarter'
  BY <1>1, <1>4 DEF WedgeInv, OneSlotPerStarter
<1>6. NoWedge'
  <2> SUFFICES ASSUME NEW n \in Name, activations'[n] # 0
               PROVE  /\ acts'[activations'[n]].slot = n
                      /\ acts'[activations'[n]].sup \notin {"none", "done"}
    BY DEF NoWedge
  <2> DEFINE g == activations'[n]
  <2>1. g \in Gen
    BY DEF TypeOK, ActTypes
  <2>2. Refers(n, g)
    BY <1>3, <2>1
  <2>3. /\ acts'[g].slot \in Name /\ activations'[acts'[g].slot] = g
        /\ acts'[g].sup = "connect"
    BY <1>2, <2>1
  <2>4. Refers(acts'[g].slot, g)
    BY <1>3, <2>1, <2>3
  <2>5. acts'[g].slot = n
    BY <2>1, <2>2, <2>3, <2>4 DEF WedgeInv, OneSlotPerStarter
  <2>6. QED
    BY <2>3, <2>5
<1>7. QED
  BY <1>5, <1>6 DEF WedgeInv

\* The end of the process leaves the references of the records.
LEMMA WedgeDown ==
  ASSUME TypeOK, TypeOK', WedgeInv, DownStep
  PROVE  WedgeInv'
<1>1. /\ gen' = gen /\ \A n \in Name : activations'[n] = 0
      /\ \A g \in Gen : acts'[g].sup = "none"
      /\ \A m \in Name : RecordsAt(m)' \subseteq RecordsAt(m) \cup {NoRecord}
  BY DEF DownStep, NoAct
<1>2. ASSUME NEW n \in Name, NEW g \in Gen, Refers(n, g)'
      PROVE  Refers(n, g)
  <2>1. g # 0 /\ NoRecord.starter = 0
    BY DEF Gen, NoRecord
  <2>2. PICK r \in RecordsAt(n)' : r.starter = g
    BY <1>1, <1>2, <2>1 DEF Refers
  <2>3. r \in RecordsAt(n)
    BY <1>1, <2>1, <2>2
  <2>4. QED
    BY <2>2, <2>3 DEF Refers
<1>3. QED
  BY <1>1, <1>2, FewerReferences

\* Every effect keeps the invariant.
LEMMA WedgeNext ==
  ASSUME TypeOK, TypeOK', WedgeInv, Effect
  PROVE  WedgeInv'
<1>1. CASE Quiet \/ StopStep
  BY <1>1, WedgeStays DEF Quiet, StopStep
<1>2. ASSUME Unmoved
      PROVE  WedgeInv'
  BY <1>2, Frames, WedgeStays DEF Unmoved
<1>3. CASE UNCHANGED <<claimVars, timerVars, actVars, deactVars, diskVars>>
  BY <1>3, Frames, WedgeStays DEF actVars
<1>4. ASSUME NEW n \in Name, MatchedStep(n) \/ TimeoutStep(n)
      PROVE  WedgeInv'
  BY <1>2, <1>4 DEF MatchedStep, TimeoutStep
<1>5. ASSUME NEW n \in Name, NEW id \in Id, AcceptedStep(n, id)
      PROVE  WedgeInv'
  BY <1>2, <1>5 DEF AcceptedStep
<1>6. CASE RejectedStep \/ GivesUpStep
  BY <1>2, <1>6 DEF RejectedStep, GivesUpStep
<1>7. ASSUME NEW n \in Name, NEW loops, ReleasedStep(n, loops)
      PROVE  WedgeInv'
  BY <1>7, WedgeEnds, Zenon DEF ReleasedStep
<1>8. ASSUME NEW l \in alives, LeaseLostStep(l)
      PROVE  WedgeInv'
  <2>1. l.slot \in Name
    BY DEF TypeOK, TimerTypes, AliveLoops
  <2>2. QED
    BY <1>2, <1>7, <1>8, <2>1 DEF LeaseLostStep
<1>9. ASSUME NEW n \in Name, EndedStep(n)
      PROVE  WedgeInv'
  BY <1>9, WedgeEnds, Zenon DEF EndedStep
<1>10. ASSUME NEW n \in Name, DroppedStep(n)
       PROVE  WedgeInv'
  <2>1. activations' = [activations EXCEPT ![n] = 0]
    BY <1>10 DEF DroppedStep, TypeOK, ActTypes
  <2>2. QED
    BY <1>10, <2>1, WedgeEnds, Zenon DEF DroppedStep
<1>11. QED
  BY <1>1, <1>3, <1>4, <1>5, <1>6, <1>7, <1>8, <1>9, <1>10, WedgeActivates, WedgeDown,
     WedgeRestarts DEF Effect

\* No slot is ever wedged in Busy, through activations, stale exits, kills,
\* crashes and re-adoptions: an activation in the map is the slot's own and its
\* supervisor still owes the loop the event that ends it.
THEOREM NeverWedged == Spec => []NoWedge
<1>1. TypeOK /\ WedgeInv /\ [Next]_vars => WedgeInv'
  <2>1. TypeOK /\ UNCHANGED vars => TypeOK' /\ Effect
    BY Stutter DEF Effect
  <2>2. TypeOK /\ [Next]_vars => TypeOK' /\ Effect
    BY <2>1, NextEffect
  <2>3. QED
    BY <2>2, WedgeNext
<1>2. WedgeInv => NoWedge
  BY DEF WedgeInv
<1>3. QED
  BY <1>1, <1>2, InitWedge, TypeCorrect, PTL DEF Spec

-----------------------------------------------------------------------------
(* Slots and their claims. *)

\* Minting does not fail.  When it does in unclaimSlot, the slot is Unclaimed
\* with a claim that is still accepted, and neither property below holds.
MintWorks == "mint" \notin Env

\* A slot and its claim agree, a slot that is not live carries no claim, and the
\* sub-ids that dynamic slots will get are free.
Agrees(s) ==
  /\ s.state # "Claimed" => s.activity = "Idle" /\ s.claim.state = "Unclaimed"
  /\ s.state = "Claimed" => s.claim.state # "Unclaimed" /\ s.live

ClaimsAgree ==
  \A n \in Name : Agrees(slots[n]) /\ (n[2] > dslotSeq => ~slots[n].live)

\* The sub-id of a slot name.
LEMMA SubIds ==
  ASSUME NEW n \in Name
  PROVE  n[2] \in Nat /\ (n \in ConfigSlots => n[2] = 0)
BY DEF Name, ConfigSlots, DSlots

\* An unbuilt slot agrees with itself.
LEMMA NoSlotAgrees == Agrees(NoSlot) /\ ~NoSlot.live
BY DEF Agrees, NoSlot, NewSlot, NoClaim

\* Slots start Unclaimed.
LEMMA InitAgrees == Init => ClaimsAgree
<1> SUFFICES ASSUME Init, NEW n \in Name
             PROVE  Agrees(slots[n]) /\ (n[2] > dslotSeq => ~slots[n].live)
  BY DEF ClaimsAgree
<1>1. PICK minted \in PrimeOutcomes :
        slots = [m \in Name |->
                   IF m \in ConfigSlots
                   THEN [NewSlot(FullRes(m)) EXCEPT
                           !.claim = IF m \in minted THEN Minted(m[1]) ELSE NoClaim]
                   ELSE NoSlot]
  BY Zenon DEF Init
<1>2. CASE n \in ConfigSlots
  <2>1. /\ slots[n].state = "Unclaimed" /\ slots[n].activity = "Idle"
        /\ slots[n].claim.state = "Unclaimed"
    BY <1>1, <1>2 DEF NewSlot, Minted, NoClaim
  <2>2. n[2] = 0 /\ dslotSeq = 0
    BY <1>2, SubIds DEF Init
  <2>3. QED
    BY <2>1, <2>2 DEF Agrees
<1>3. CASE n \notin ConfigSlots
  BY <1>1, <1>3, NoSlotAgrees
<1>4. QED
  BY <1>2, <1>3

\* Slots that keep their state go on agreeing.
LEMMA AgreesStays ==
  ASSUME NEW s, NEW t, SameState(s, t) \/ SameClaim(s, t), Agrees(t)
  PROVE  Agrees(s) /\ s.live = t.live
BY DEF SameState, SameClaim, Agrees

\* Every effect keeps slots and claims in agreement.
LEMMA AgreesNext ==
  ASSUME MintWorks, TypeOK, TypeOK', ClaimsAgree, Effect
  PROVE  ClaimsAgree'
<1>1. ASSUME NEW n \in Name
      PROVE  n[2] \in Nat /\ Agrees(slots[n]) /\ (n[2] > dslotSeq => ~slots[n].live)
  BY SubIds DEF ClaimsAgree
<1>2. ASSUME \A n \in Name : SameState(slots'[n], slots[n]), dslotSeq' = dslotSeq
      PROVE  ClaimsAgree'
  BY <1>1, <1>2, AgreesStays DEF ClaimsAgree
<1>3. ASSUME slots' = slots, dslotSeq' = dslotSeq
      PROVE  ClaimsAgree'
  BY <1>1, <1>3 DEF ClaimsAgree
<1>4. ASSUME NEW n \in Name, GivenUp(n), dslotSeq' = dslotSeq
      PROVE  ClaimsAgree'
  <2>1. Agrees(slots'[n]) /\ (slots'[n].live => slots[n].live)
    BY <1>4 DEF GivenUp, MintWorks, Agrees
  <2>2. \A m \in Name \ {n} : Agrees(slots'[m]) /\ slots'[m].live = slots[m].live
    BY <1>1, <1>4, AgreesStays DEF GivenUp
  <2>3. QED
    BY <1>1, <1>4, <2>1, <2>2 DEF ClaimsAgree
<1>5. ASSUME NEW n \in Name, MatchedStep(n)
      PROVE  ClaimsAgree'
  <2>1. Agrees(slots'[n]) /\ slots[n].live
    BY <1>5 DEF MatchedStep, Agrees
  <2>2. QED
    BY <1>1, <1>5, <2>1 DEF MatchedStep, ClaimsAgree
<1>6. ASSUME NEW n \in Name, TimeoutStep(n)
      PROVE  ClaimsAgree'
  <2>1. CASE \A m \in Name : slots'[m] = slots[m]
    BY <1>1, <1>6, <2>1 DEF TimeoutStep, ClaimsAgree
  <2>2. CASE GivenUp(n)
    BY <1>4, <1>6, <2>2 DEF TimeoutStep
  <2>3. QED
    BY <1>6, <2>1, <2>2 DEF TimeoutStep
<1>7. ASSUME NEW n \in Name, NEW id \in Id, AcceptedStep(n, id)
      PROVE  ClaimsAgree'
  <2>1. Agrees(slots'[n]) /\ slots'[n].live
    BY <1>7 DEF AcceptedStep, Agrees
  <2>2. \A m \in Name \ {n} : Agrees(slots'[m]) /\ slots'[m].live = slots[m].live
    BY <1>1, <1>7, AgreesStays DEF AcceptedStep
  <2>3. dslotSeq \in Nat
    BY DEF TypeOK, ClaimTypes
  <2>4. CASE slots[n].live /\ dslotSeq' = dslotSeq
    BY <1>1, <2>1, <2>2, <2>4 DEF ClaimsAgree
  <2>5. CASE n[2] = dslotSeq + 1 /\ dslotSeq' = dslotSeq + 1
    BY <1>1, <2>1, <2>2, <2>3, <2>5 DEF ClaimsAgree
  <2>6. QED
    BY <1>7, <2>4, <2>5 DEF AcceptedStep
<1>8. ASSUME NEW l \in alives, LeaseLostStep(l)
      PROVE  ClaimsAgree'
  <2>1. l.slot \in Name
    BY DEF TypeOK, TimerTypes, AliveLoops
  <2>2. QED
    BY <1>3, <1>4, <1>8, <2>1 DEF LeaseLostStep, ReleasedStep
<1>9. ASSUME NEW n \in Name, ActivatedStep(n)
      PROVE  ClaimsAgree'
  <2>1. Agrees(slots'[n]) /\ slots[n].live
    BY <1>9 DEF ActivatedStep, Agrees
  <2>2. QED
    BY <1>1, <1>9, <2>1 DEF ActivatedStep, ClaimsAgree
<1>10. ASSUME NEW n \in Name, EndedStep(n)
       PROVE  ClaimsAgree'
  <2>1. Agrees(slots'[n]) /\ slots'[n].live = slots[n].live
    BY <1>1, <1>10 DEF EndedStep, Agrees, SameState
  <2>2. \A m \in Name \ {n} : Agrees(slots'[m]) /\ slots'[m].live = slots[m].live
    BY <1>1, <1>10, AgreesStays DEF EndedStep
  <2>3. QED
    BY <1>1, <1>10, <2>1, <2>2 DEF EndedStep, ClaimsAgree
<1>11. CASE DownStep
  BY <1>11, NoSlotAgrees DEF DownStep, ClaimsAgree
<1>12. ASSUME NEW adopted \in SUBSET ClaimedOnRecord, RestartStep(adopted)
       PROVE  ClaimsAgree'
  <2> SUFFICES ASSUME NEW n \in Name
               PROVE  Agrees(slots'[n]) /\ (n[2] > dslotSeq' => ~slots'[n].live)
    BY DEF ClaimsAgree
  <2>1. AdoptedSlot(slots'[n], n, ClaimedOnRecord, adopted) /\ dslotSeq' \in Nat
    <3>1. AdoptedSlot(slots'[n], n, ClaimedOnRecord, adopted)
      BY <1>12, Zenon DEF RestartStep
    <3>2. dslotSeq' \in Nat
      BY DEF TypeOK, ClaimTypes
    <3>3. QED
      BY <3>1, <3>2
  <2>2. Agrees(slots'[n])
    BY <2>1 DEF AdoptedSlot, Agrees
  <2>3. n \in ClaimedOnRecord => n[2] <= dslotSeq'
    BY <1>12, Zenon DEF RestartStep
  <2>4. slots'[n].live => n[2] = 0 \/ n[2] <= dslotSeq'
    BY <2>1, <2>3, SubIds DEF AdoptedSlot
  <2>5. QED
    BY <1>1, <2>1, <2>2, <2>4
<1>13. QED
  BY <1>2, <1>3, <1>4, <1>5, <1>6, <1>7, <1>8, <1>9, <1>10, <1>11, <1>12
  DEF Effect, Quiet, RejectedStep, ReleasedStep, GivesUpStep, DroppedStep, StopStep, claimVars

-----------------------------------------------------------------------------
(* BusyIffActivation. *)

\* A Busy slot's record names its starter.  A goroutine starter has no socket to
\* record, so a startd of that mode with a store re-adopts Busy claims without
\* an activation.
Redialable == StarterMode = "process" \/ ~HasStore

\* The part of the invariant about slot n.
BusyAt(n) ==
  /\ slots[n].activity = "Busy" <=> slots[n].claim.state = "ClaimedBusy"
  /\ slots[n].claim.state = "ClaimedBusy" <=> activations[n] # 0

\* Every Busy record names a starter: without this a restart could adopt a Busy
\* claim and have no activation for it.
BusyInv ==
  /\ \A n \in Name : BusyAt(n)
  /\ \A n \in Name : \A r \in RecordsAt(n) : r.activity = "Busy" => r.starter # 0

\* The invariant holds at first.
LEMMA InitBusy == Init => BusyInv
<1> SUFFICES ASSUME Init, NEW n \in Name
             PROVE  /\ BusyAt(n)
                    /\ \A r \in RecordsAt(n) : r.activity = "Busy" => r.starter # 0
  BY DEF BusyInv
<1>1. activations[n] = 0
  BY DEF Init
<1>2. slots[n].activity = "Idle" /\ slots[n].claim.state = "Unclaimed"
  BY DEF Init, NewSlot, NoSlot, Minted, NoClaim
<1>3. RecordsAt(n) = {NoRecord}
  BY DEF Init, P!Empty, RecordsAt
<1>4. QED
  BY <1>1, <1>2, <1>3 DEF BusyAt, NoRecord

\* A handler that leaves every slot in order also leaves every record in order.
LEMMA BusyRecords ==
  ASSUME Redialable, TypeOK', BusyInv, DiskStep, \A n \in Name : BusyAt(n)'
  PROVE  BusyInv'
<1> SUFFICES ASSUME NEW n \in Name, NEW r \in RecordsAt(n)', r.activity = "Busy"
             PROVE  r.starter # 0
  BY DEF BusyInv
<1>1. CASE r \in RecordsAt(n)
  BY <1>1 DEF BusyInv
<1>2. CASE r = NoRecord
  BY <1>2 DEF NoRecord
<1>3. CASE HasStore /\ r = RecordOf(n)'
  <2>1. slots'[n].activity = "Busy"
    BY <1>3 DEF RecordOf
  <2>2. activations'[n] # 0
    BY <2>1 DEF BusyAt
  <2>3. QED
    BY <1>3, <2>2 DEF RecordOf, Redialable
<1>4. QED
  BY <1>1, <1>2, <1>3 DEF DiskStep

\* Every effect keeps the invariant.
LEMMA BusyNext ==
  ASSUME MintWorks, Redialable, TypeOK, TypeOK', ClaimsAgree, BusyInv, Effect
  PROVE  BusyInv'
<1>1. ASSUME NEW n \in Name
      PROVE  BusyAt(n) /\ Agrees(slots[n]) /\ (n[2] > dslotSeq => ~slots[n].live)
  BY DEF BusyInv, ClaimsAgree
<1>2. activations \in [Name -> Gen \cup {0}]
  BY DEF TypeOK, ActTypes
<1>3. ASSUME NEW n \in Name, SameState(slots'[n], slots[n]) \/ SameClaim(slots'[n], slots[n]),
             activations'[n] = activations[n]
      PROVE  BusyAt(n)'
  BY <1>1, <1>3 DEF BusyAt, SameState, SameClaim
<1>4. ASSUME \A n \in Name : SameState(slots'[n], slots[n]), activations' = activations, DiskStep
      PROVE  BusyInv'
  BY <1>3, <1>4, BusyRecords
<1>5. ASSUME slots' = slots, activations' = activations, DiskStep
      PROVE  BusyInv'
  BY <1>1, <1>5, BusyRecords DEF BusyAt
<1>6. ASSUME NEW n \in Name, GivenUp(n), activations'[n] = 0
      PROVE  BusyAt(n)'
  BY <1>6 DEF GivenUp, MintWorks, BusyAt
<1>7. ASSUME NEW n \in Name, NEW loops, ReleasedStep(n, loops)
      PROVE  BusyInv'
  <2>1. BusyAt(n)'
    BY <1>2, <1>6, <1>7 DEF ReleasedStep
  <2>2. ASSUME NEW m \in Name \ {n}
        PROVE  BusyAt(m)'
    BY <1>2, <1>3, <1>7 DEF ReleasedStep, GivenUp
  <2>3. QED
    BY <1>7, <2>1, <2>2, BusyRecords DEF ReleasedStep
<1>8. ASSUME NEW n \in Name, MatchedStep(n)
      PROVE  BusyInv'
  <2>1. BusyAt(n)'
    BY <1>1, <1>8 DEF MatchedStep, Unmoved, BusyAt
  <2>2. ASSUME NEW m \in Name \ {n}
        PROVE  BusyAt(m)'
    BY <1>1, <1>8 DEF MatchedStep, Unmoved, BusyAt
  <2>3. QED
    BY <1>8, <2>1, <2>2, BusyRecords DEF MatchedStep, Unmoved
<1>9. ASSUME NEW n \in Name, TimeoutStep(n)
      PROVE  BusyInv'
  <2>1. DiskStep /\ activations' = activations
    BY <1>9 DEF TimeoutStep, Unmoved
  <2>2. CASE \A m \in Name : slots'[m] = slots[m]
    BY <1>1, <2>1, <2>2, BusyRecords DEF BusyAt
  <2>3. CASE slots[n].state = "Matched" /\ GivenUp(n)
    <3>1. activations[n] = 0
      BY <1>1, <2>3 DEF Agrees, BusyAt
    <3>2. BusyAt(n)'
      BY <1>6, <2>1, <2>3, <3>1
    <3>3. ASSUME NEW m \in Name \ {n}
          PROVE  BusyAt(m)'
      BY <1>3, <2>1, <2>3 DEF GivenUp
    <3>4. QED
      BY <2>1, <3>2, <3>3, BusyRecords
  <2>4. QED
    BY <1>9, <2>2, <2>3 DEF TimeoutStep
<1>10. ASSUME NEW n \in Name, NEW id \in Id, AcceptedStep(n, id)
       PROVE  BusyInv'
  <2>1. DiskStep /\ activations' = activations
    BY <1>10 DEF AcceptedStep, Unmoved
  <2>2. slots[n].claim.state = "Unclaimed"
    <3>1. n[2] \in Nat /\ dslotSeq \in Nat
      BY SubIds DEF TypeOK, ClaimTypes
    <3>2. CASE n[2] = dslotSeq + 1
      BY <1>1, <3>1, <3>2 DEF Agrees
    <3>3. QED
      BY <1>10, <3>2 DEF AcceptedStep
  <2>3. BusyAt(n)'
    BY <1>1, <1>10, <2>1, <2>2 DEF AcceptedStep, BusyAt
  <2>4. ASSUME NEW m \in Name \ {n}
        PROVE  BusyAt(m)'
    BY <1>3, <1>10, <2>1 DEF AcceptedStep
  <2>5. QED
    BY <2>1, <2>3, <2>4, BusyRecords
<1>11. ASSUME NEW l \in alives, LeaseLostStep(l)
       PROVE  BusyInv'
  <2>1. l.slot \in Name
    BY DEF TypeOK, TimerTypes, AliveLoops
  <2>2. QED
    BY <1>5, <1>7, <1>11, <2>1 DEF LeaseLostStep, Unmoved
<1>12. ASSUME NEW n \in Name, ActivatedStep(n)
       PROVE  BusyInv'
  <2>1. /\ DiskStep /\ activations' = [activations EXCEPT ![n] = gen + 1] /\ gen + 1 # 0
        /\ slots'[n].activity = "Busy" /\ slots'[n].claim.state = "ClaimedBusy"
        /\ \A m \in Name \ {n} : slots'[m] = slots[m]
    BY <1>12, SMTT(60) DEF ActivatedStep, Gen
  <2>2. BusyAt(n)'
    BY <1>2, <2>1 DEF BusyAt
  <2>3. ASSUME NEW m \in Name \ {n}
        PROVE  BusyAt(m)'
    BY <1>1, <1>2, <2>1 DEF BusyAt
  <2>4. QED
    BY <2>1, <2>2, <2>3, BusyRecords
<1>13. ASSUME NEW n \in Name, EndedStep(n)
       PROVE  BusyInv'
  <2>1. DiskStep /\ activations' = [activations EXCEPT ![n] = 0]
    BY <1>13 DEF EndedStep
  <2>2. BusyAt(n)'
    <3>1. slots'[n].activity # "Busy" /\ slots'[n].claim.state # "ClaimedBusy"
      BY <1>1, <1>13 DEF EndedStep, SameState, BusyAt, Agrees
    <3>2. QED
      BY <1>2, <2>1, <3>1 DEF BusyAt
  <2>3. ASSUME NEW m \in Name \ {n}
        PROVE  BusyAt(m)'
    BY <1>2, <1>3, <1>13, <2>1 DEF EndedStep
  <2>4. QED
    BY <2>1, <2>2, <2>3, BusyRecords
<1>14. CASE DownStep
  <2>1. \A n \in Name : BusyAt(n)'
    BY <1>14 DEF DownStep, BusyAt, NoSlot, NewSlot, NoClaim
  <2>2. \A n \in Name : \A r \in RecordsAt(n)' : r.activity = "Busy" => r.starter # 0
    BY <1>14 DEF DownStep, BusyInv, NoRecord
  <2>3. QED
    BY <2>1, <2>2 DEF BusyInv
<1>15. ASSUME NEW adopted \in SUBSET ClaimedOnRecord, RestartStep(adopted)
       PROVE  BusyInv'
  <2>1. ASSUME NEW n \in Name
        PROVE  BusyAt(n)'
    <3>1. AdoptedSlot(slots'[n], n, ClaimedOnRecord, adopted)
      BY <1>15 DEF RestartStep
    <3>2. activations'[n] = IF n \in adopted /\ store[n].activity = "Busy"
                            THEN store[n].starter ELSE 0
      BY <1>15 DEF RestartStep
    <3>3. store[n].activity = "Busy" => store[n].starter # 0
      BY DEF BusyInv, RecordsAt
    <3>4. QED
      BY <3>1, <3>2, <3>3 DEF AdoptedSlot, BusyAt
  <2>2. \A n \in Name : \A r \in RecordsAt(n)' : r.activity = "Busy" => r.starter # 0
    BY <1>15 DEF RestartStep, BusyInv
  <2>3. QED
    BY <2>1, <2>2 DEF BusyInv
<1>16. CASE UNCHANGED <<claimVars, timerVars, actVars, deactVars, diskVars>>
  BY <1>5, <1>16, Frames DEF claimVars, actVars
<1>17. QED
  BY <1>4, <1>5, <1>7, <1>8, <1>9, <1>10, <1>11, <1>12, <1>13, <1>14, <1>15, <1>16
  DEF Effect, Quiet, RejectedStep, GivesUpStep, DroppedStep, StopStep, Unmoved

\* A slot's activity, its claim and the activations map never disagree, through
\* stale exits, kills, crashes and re-adoptions, as long as claim ids can be
\* minted and a Busy record names a starter.
THEOREM BusyCorrect == MintWorks /\ Redialable /\ Spec => []BusyIffActivation
<1> DEFINE Inv == MintWorks /\ Redialable => ClaimsAgree /\ BusyInv
<1>1. Init => Inv
  BY InitAgrees, InitBusy
<1>2. TypeOK /\ Inv /\ [Next]_vars => Inv'
  <2>1. TypeOK /\ UNCHANGED vars => TypeOK' /\ Effect
    BY Stutter DEF Effect
  <2>2. TypeOK /\ [Next]_vars => TypeOK' /\ Effect
    BY <2>1, NextEffect
  <2>3. QED
    BY <2>2, AgreesNext, BusyNext
<1>3. Inv /\ MintWorks /\ Redialable => BusyIffActivation
  BY DEF BusyInv, BusyAt, BusyIffActivation
<1>4. MintWorks /\ Redialable => (MintWorks /\ Redialable)'
  BY DEF MintWorks, Redialable
<1> HIDE DEF Inv
<1>5. QED
  BY <1>1, <1>2, <1>3, <1>4, TypeCorrect, PTL DEF Spec

-----------------------------------------------------------------------------
(* LeaseExact. *)

\* Slot n is Claimed only under a loop's claim.
Answerable(n) ==
  phase = "up" /\ slots[n].state = "Claimed" =>
    \E l \in alives : l.slot = n /\ l.claim = slots[n].claim.id

\* A loop that has not given up is about its slot's present claim, and is the
\* one its slot can cancel: without this, releaseSlot would leave it running.
OfPresentClaim(l) ==
  ~l.release => /\ slots[l.slot].state = "Claimed" /\ slots[l.slot].claim.id = l.claim
                /\ aliveCancels[l.slot] = l.claim

LeaseInv ==
  /\ \A n \in Name : Answerable(n)
  /\ \A l \in alives : OfPresentClaim(l)

\* Slots that stay Claimed under the same id, or that were not and are not
\* Claimed, and loops that only end by giving up, are no danger.
SameLease(n) ==
  /\ slots'[n].state = "Claimed" <=> slots[n].state = "Claimed"
  /\ slots[n].state = "Claimed" => slots'[n].claim.id = slots[n].claim.id

\* The invariant holds at first.
LEMMA InitLease == Init => LeaseInv
<1> SUFFICES ASSUME Init
             PROVE  LeaseInv
  OBVIOUS
<1>1. \A n \in Name : slots[n].state = "Unclaimed"
  BY DEF Init, NewSlot, NoSlot
<1>2. alives = {}
  BY DEF Init
<1>3. QED
  BY <1>1, <1>2 DEF LeaseInv, Answerable, OfPresentClaim

\* A step that leaves leases alone.
LEMMA LeaseStays ==
  ASSUME TypeOK, LeaseInv, alives' = alives, aliveCancels' = aliveCancels, phase' = phase,
         \A n \in Name : SameLease(n)
  PROVE  LeaseInv'
<1>1. \A l \in alives : l.slot \in Name
  BY DEF TypeOK, TimerTypes, AliveLoops
<1>2. ASSUME NEW n \in Name
      PROVE  Answerable(n)'
  BY Zenon DEF LeaseInv, Answerable, SameLease
<1>3. ASSUME NEW l \in alives
      PROVE  OfPresentClaim(l)'
  BY <1>1 DEF LeaseInv, OfPresentClaim, SameLease
<1>4. QED
  BY <1>2, <1>3 DEF LeaseInv

\* A release takes the slot's loop with it.
LEMMA LeaseReleased ==
  ASSUME TypeOK, LeaseInv, NEW n \in Name, NEW loops \in SUBSET alives, ReleasedStep(n, loops),
         \A l \in alives \ loops : l.slot = n
  PROVE  LeaseInv'
<1>1. /\ alives' = {l \in loops : l.release \/ l.slot # n \/ l.claim # aliveCancels[n]}
      /\ aliveCancels' = [aliveCancels EXCEPT ![n] = 0]
      /\ slots'[n].state = "Unclaimed" /\ phase' = phase
      /\ \A m \in Name \ {n} : SameClaim(slots'[m], slots[m])
  BY DEF ReleasedStep, cancelAliveLoop, GivenUp
<1>2. aliveCancels \in [Name -> Id \cup {0}] /\ \A l \in alives : l.slot \in Name
  BY DEF TypeOK, TimerTypes, AliveLoops
<1>3. ASSUME NEW m \in Name
      PROVE  Answerable(m)'
  <2>1. CASE m = n
    BY <1>1, <2>1 DEF Answerable
  <2>2. CASE m # n
    <3>1. SameClaim(slots'[m], slots[m]) /\ phase' = phase
      BY <1>1, <2>2
    <3>2. \A l \in alives : l.slot = m => l \in alives'
      BY <1>1, <2>2
    <3>3. Answerable(m)
      BY DEF LeaseInv
    <3>4. QED
      BY <3>1, <3>2, <3>3, Zenon DEF Answerable, SameClaim
  <2>3. QED
    BY <2>1, <2>2
<1>4. ASSUME NEW l \in alives'
      PROVE  OfPresentClaim(l)'
  <2>1. l \in alives /\ OfPresentClaim(l) /\ l.slot \in Name
    BY <1>1, <1>2 DEF LeaseInv
  <2>2. CASE l.slot = n
    BY <1>1, <2>1, <2>2 DEF OfPresentClaim
  <2>3. CASE l.slot # n
    BY <1>1, <1>2, <2>1, <2>3 DEF OfPresentClaim, SameClaim
  <2>4. QED
    BY <2>2, <2>3
<1>5. QED
  BY <1>3, <1>4 DEF LeaseInv

\* A slot that is claimed gets a loop of its own and had none.
LEMMA LeaseAccepted ==
  ASSUME TypeOK, ClaimsAgree, LeaseInv, NEW n \in Name, NEW id \in Id, AcceptedStep(n, id)
  PROVE  LeaseInv'
<1> DEFINE new == [slot |-> n, claim |-> id, release |-> FALSE]
<1>1. /\ alives' = alives \cup {l \in {new} : phase = "up"}
      /\ aliveCancels' = [aliveCancels EXCEPT ![n] = id]
      /\ slots'[n].state = "Claimed" /\ slots'[n].claim.id = id /\ phase' = phase
      /\ \A m \in Name \ {n} : SameClaim(slots'[m], slots[m])
  BY Zenon DEF AcceptedStep, startAliveLoop, Unmoved
<1>2. new.slot = n /\ new.claim = id
  OBVIOUS
<1> HIDE DEF new
<1>3. aliveCancels \in [Name -> Id \cup {0}] /\ \A l \in alives : l.slot \in Name
  BY DEF TypeOK, TimerTypes, AliveLoops
<1>4. slots[n].state # "Claimed"
  <2>1. n[2] \in Nat /\ dslotSeq \in Nat
    BY SubIds DEF TypeOK, ClaimTypes
  <2>2. CASE n[2] = dslotSeq + 1
    BY <2>1, <2>2 DEF ClaimsAgree, Agrees
  <2>3. CASE slots[n].claim.state = "Unclaimed"
    BY <2>3 DEF ClaimsAgree, Agrees
  <2>4. QED
    BY <2>2, <2>3 DEF AcceptedStep
<1>5. ASSUME NEW m \in Name
      PROVE  Answerable(m)'
  <2>1. CASE m = n
    <3>1. phase = "up" => new \in alives'
      BY <1>1
    <3>2. QED
      BY <1>1, <1>2, <2>1, <3>1 DEF Answerable
  <2>2. CASE m # n
    <3>1. SameClaim(slots'[m], slots[m]) /\ alives \subseteq alives' /\ phase' = phase
      BY <1>1, <2>2
    <3>2. Answerable(m)
      BY DEF LeaseInv
    <3>3. QED
      BY <3>1, <3>2, Zenon DEF Answerable, SameClaim
  <2>3. QED
    BY <2>1, <2>2
<1>6. ASSUME NEW l \in alives'
      PROVE  OfPresentClaim(l)'
  <2>1. CASE l = new
    BY <1>1, <1>2, <1>3, <2>1 DEF OfPresentClaim
  <2>2. CASE l \in alives
    <3>1. OfPresentClaim(l) /\ l.slot \in Name
      BY <1>3, <2>2 DEF LeaseInv
    <3>2. CASE l.slot = n
      BY <1>4, <3>1, <3>2 DEF OfPresentClaim
    <3>3. CASE l.slot # n
      BY <1>1, <1>3, <3>1, <3>3 DEF OfPresentClaim, SameClaim
    <3>4. QED
      BY <3>2, <3>3
  <2>3. QED
    BY <1>1, <2>1, <2>2
<1>7. QED
  BY <1>5, <1>6 DEF LeaseInv

\* A loop that gives up still answers for its claim until the loop takes its
\* event; the event then releases the slot or finds it gone.
LEMMA LeaseLoops ==
  ASSUME TypeOK, ClaimsAgree, LeaseInv,
         GivesUpStep \/ \E l \in alives : LeaseLostStep(l)
  PROVE  LeaseInv'
<1>1. \A l \in alives : l.slot \in Name /\ l \in AliveLoops
  BY DEF TypeOK, TimerTypes, AliveLoops
<1>2. CASE GivesUpStep
  <2>1. PICK l \in alives :
          ~l.release /\ alives' = (alives \ {l}) \cup {[l EXCEPT !.release = TRUE]}
    BY <1>2 DEF GivesUpStep
  <2>2. slots' = slots /\ aliveCancels' = aliveCancels /\ phase' = phase
    BY <1>2 DEF GivesUpStep, Unmoved
  <2> DEFINE r == [l EXCEPT !.release = TRUE]
  <2>3. r.slot = l.slot /\ r.claim = l.claim /\ r.release
    BY <1>1 DEF AliveLoops
  <2> HIDE DEF r
  <2>4. alives' = (alives \ {l}) \cup {r}
    BY <2>1 DEF r
  <2>5. ASSUME NEW n \in Name
        PROVE  Answerable(n)'
    BY <2>2, <2>3, <2>4 DEF Answerable, LeaseInv
  <2>6. ASSUME NEW k \in alives'
        PROVE  OfPresentClaim(k)'
    BY <2>2, <2>3, <2>4 DEF OfPresentClaim, LeaseInv
  <2>7. QED
    BY <2>5, <2>6 DEF LeaseInv
<1>3. ASSUME NEW l \in alives, ReleasedStep(l.slot, alives \ {l})
      PROVE  LeaseInv'
  <2>1. alives \ {l} \in SUBSET alives /\ \A k \in alives \ (alives \ {l}) : k.slot = l.slot
    OBVIOUS
  <2>2. QED
    BY <1>1, <1>3, <2>1, LeaseReleased
<1>4. ASSUME NEW l \in alives, ~slots[l.slot].live, alives' = alives \ {l},
             aliveCancels' = aliveCancels, slots' = slots, phase' = phase
      PROVE  LeaseInv'
  <2>1. slots[l.slot].state # "Claimed"
    BY <1>1, <1>4 DEF ClaimsAgree, Agrees
  <2>2. ASSUME NEW n \in Name
        PROVE  Answerable(n)'
    BY <1>4, <2>1 DEF Answerable, LeaseInv
  <2>3. ASSUME NEW k \in alives'
        PROVE  OfPresentClaim(k)'
    BY <1>4 DEF OfPresentClaim, LeaseInv
  <2>4. QED
    BY <2>2, <2>3 DEF LeaseInv
<1>5. QED
  BY <1>2, <1>3, <1>4, Zenon DEF LeaseLostStep, Unmoved

\* Stop drops loops, and after it nobody answers; a restart begins afresh.
LEMMA LeaseLife ==
  ASSUME TypeOK, LeaseInv,
         \/ StopStep \/ DownStep
         \/ phase' # "up" /\ UNCHANGED <<claimVars, timerVars, actVars, deactVars, diskVars>>
         \/ \E adopted \in SUBSET ClaimedOnRecord : RestartStep(adopted)
  PROVE  LeaseInv'
<1>1. CASE StopStep
  BY <1>1 DEF StopStep, LeaseInv, Answerable, OfPresentClaim
<1>2. CASE DownStep
  BY <1>2, Zenon DEF DownStep, LeaseInv, Answerable, OfPresentClaim
<1>3. CASE phase' # "up" /\ UNCHANGED <<claimVars, timerVars, actVars, deactVars, diskVars>>
  BY <1>3 DEF LeaseInv, Answerable, OfPresentClaim, claimVars, timerVars
<1>4. ASSUME NEW adopted \in SUBSET ClaimedOnRecord, RestartStep(adopted)
      PROVE  LeaseInv'
  <2> DEFINE new(n) == [slot |-> n, claim |-> store[n].id, release |-> FALSE]
  <2>1. adopted \subseteq Name
    BY DEF ClaimedOnRecord
  <2>2. /\ alives' = {new(n) : n \in adopted}
        /\ aliveCancels' = [n \in Name |-> IF n \in adopted THEN store[n].id ELSE 0]
    BY <1>4, Zenon DEF RestartStep
  <2>3. ASSUME NEW n \in Name
        PROVE  /\ n \in adopted => slots'[n].state = "Claimed" /\ slots'[n].claim.id = store[n].id
               /\ n \notin adopted => slots'[n].state = "Unclaimed"
    BY <1>4, Zenon DEF RestartStep, AdoptedSlot
  <2>4. ASSUME NEW n \in Name
        PROVE  Answerable(n)'
    <3>1. n \in adopted => new(n) \in alives'
      BY <2>2, Zenon
    <3>2. QED
      BY <2>3, <3>1, Zenon DEF Answerable
  <2>5. ASSUME NEW l \in alives'
        PROVE  OfPresentClaim(l)'
    <3>1. PICK n \in adopted : l = new(n)
      BY <2>2
    <3>2. QED
      BY <2>1, <2>2, <2>3, <3>1 DEF OfPresentClaim
  <2>6. QED
    BY <2>4, <2>5 DEF LeaseInv
<1>5. QED
  BY <1>1, <1>2, <1>3, <1>4

\* Every effect keeps the invariant.
LEMMA LeaseNext ==
  ASSUME TypeOK, ClaimsAgree, LeaseInv, Effect
  PROVE  LeaseInv'
<1>1. \A n \in Name : Agrees(slots[n])
  BY DEF ClaimsAgree
<1>2. CASE Quiet
  BY <1>2, LeaseStays, Zenon DEF Quiet, SameLease, SameState
<1>3. ASSUME slots' = slots, alives' = alives, aliveCancels' = aliveCancels, phase' = phase
      PROVE  LeaseInv'
  BY <1>3, LeaseStays DEF SameLease
<1>4. ASSUME NEW n \in Name, MatchedStep(n)
      PROVE  LeaseInv'
  BY <1>4, LeaseStays DEF MatchedStep, Unmoved, SameLease
<1>5. ASSUME NEW n \in Name, TimeoutStep(n)
      PROVE  LeaseInv'
  BY <1>5, LeaseStays DEF TimeoutStep, Unmoved, SameLease, GivenUp, SameClaim
<1>6. ASSUME NEW n \in Name, ReleasedStep(n, alives)
      PROVE  LeaseInv'
  BY <1>6, LeaseReleased
<1>7. ASSUME NEW n \in Name, ActivatedStep(n)
      PROVE  LeaseInv'
  BY <1>1, <1>7, LeaseStays, SMTT(60) DEF ActivatedStep, SameLease, Agrees
<1>8. ASSUME NEW n \in Name, EndedStep(n)
      PROVE  LeaseInv'
  BY <1>1, <1>8, LeaseStays, Zenon DEF EndedStep, SameLease, Agrees, SameState
<1>9. QED
  BY <1>2, <1>3, <1>4, <1>5, <1>6, <1>7, <1>8, LeaseAccepted, LeaseLoops, LeaseLife
  DEF Effect, RejectedStep, DroppedStep, Unmoved

\* While the startd is up every claim has a lease that can expire, and no ALIVE
\* loop outlives the claim it is about without having given up: through
\* releases, lost leases, Stop and re-adoption, as long as claim ids can be
\* minted.
THEOREM LeaseCorrect == MintWorks /\ Spec => []LeaseExact
<1> DEFINE Inv == MintWorks => ClaimsAgree /\ LeaseInv
<1>1. Init => Inv
  BY InitAgrees, InitLease
<1>2. TypeOK /\ Inv /\ [Next]_vars => Inv'
  <2>1. TypeOK /\ UNCHANGED vars => TypeOK' /\ Effect
    BY Stutter DEF Effect
  <2>2. TypeOK /\ [Next]_vars => TypeOK' /\ Effect
    BY <2>1, NextEffect
  <2>3. QED
    BY <2>2, AgreesNext, LeaseNext
<1>3. Inv /\ MintWorks => LeaseExact
  BY DEF LeaseInv, Answerable, OfPresentClaim, LeaseExact
<1>4. MintWorks => MintWorks'
  BY DEF MintWorks
<1> HIDE DEF Inv
<1>5. QED
  BY <1>1, <1>2, <1>3, <1>4, TypeCorrect, PTL DEF Spec
=============================================================================
