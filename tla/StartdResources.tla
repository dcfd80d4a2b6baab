--------------------------- MODULE StartdResources ---------------------------
(***************************************************************************)
(* The resources of the machine: whatever is carved, given back, recorded  *)
(* and carved again from the records, they add up.                         *)
(***************************************************************************)
EXTENDS StartdDivision

-----------------------------------------------------------------------------
(* Conservation. *)

\* No ad asks for a negative amount of anything.
RequestsNatural == \A ad \in JobAds : requestedResources(ad) \in [Kinds -> Nat]

Amounts == [Kinds -> Nat]

\* A dynamic slot has what it was carved with, and the next one has nothing yet.
Carvings ==
  /\ \A n \in Name : slots[n].res \in Resources
  /\ \A d \in DSlots : /\ slots[d].res \in Amounts
                       /\ d[2] > dslotSeq => slots[d].res = NoResources

\* So does every record, wherever it is on its way to the store.
RecordedAmounts == \A m \in Name : \A r \in RecordsAt(m) : r.res \in Amounts

Balanced ==
  Partitionable /\ slots[<<1, 0>>].live =>
    \A k \in Kinds : slots[<<1, 0>>].res[k] + SumRes(slots, k, DSlots) = Total[k]

\* There are finitely many dynamic slots.
LEMMA FewDSlots == IsFiniteSet(DSlots)
<1>1. CASE ~Partitionable
  BY <1>1, FS_EmptySet DEF DSlots
<1>2. CASE Partitionable
  <2> DEFINE f == [i \in 1..MaxDSlots |-> <<1, i>>]
  <2>1. IsFiniteSet(1..MaxDSlots)
    BY FS_Interval, StartdAssumption
  <2>2. f \in Surjection(1..MaxDSlots, DSlots)
    BY <1>2 DEF Surjection, DSlots
  <2>3. QED
    BY <2>1, <2>2, FS_Surjection
<1>3. QED
  BY <1>1, <1>2

\* What the machine or its static division has of a resource is not negative.
LEMMA FullResNatural == \A n \in ConfigSlots : FullRes(n) \in Amounts
<1>1. CASE Partitionable
  BY <1>1, StartdAssumption DEF FullRes, Amounts
<1>2. CASE ~Partitionable
  <2> DEFINE num == NumStaticSlots(Total, NumSlots)
  <2>1. num \in Nat \ {0}
    BY StartdAssumption DEF NumStaticSlots, Kinds
  <2>2. \A k \in Kinds : Total[k] \in Nat
    BY StartdAssumption
  <2> HIDE DEF num
  <2>3. \A k \in Kinds : Total[k] \div num \in Nat /\ Total[k] % num \in Nat
    BY <2>1, <2>2
  <2>4. \A i : splitResources(Total, num, i) \in Amounts
    BY <2>3 DEF splitResources, Amounts
  <2>5. QED
    BY <1>2, <2>4 DEF FullRes, num
<1>3. QED
  BY <1>1, <1>2

\* A record is an old one, none, or the slot's present one.
LEMMA RecordsMove ==
  ASSUME TypeOK, [Next]_vars
  PROVE  \A m \in Name : \A r \in RecordsAt(m)' :
           r \in RecordsAt(m) \/ r = NoRecord \/ r = RecordOf(m)'
<1> DEFINE Moves == \A m \in Name : \A r \in RecordsAt(m)' :
                      r \in RecordsAt(m) \/ r = NoRecord \/ r = RecordOf(m)'
<1>1. DiskStep => Moves
  BY Zenon DEF DiskStep
<1>2. DownStep => Moves
  BY DEF DownStep
<1>3. \A adopted : RestartStep(adopted) => Moves
  BY Zenon DEF RestartStep
<1>4. UNCHANGED diskVars => Moves
  BY Zenon DEF diskVars, RecordsAt
<1>5. CASE UNCHANGED vars
  BY <1>4, <1>5 DEF vars
<1>6. CASE Next
  <2>1. Effect
    BY <1>6, NextEffect
  <2>2. Quiet \/ RejectedStep \/ GivesUpStep \/ StopStep => DiskStep
    BY Zenon DEF Quiet, RejectedStep, GivesUpStep, StopStep, Unmoved
  <2>3. \A n : MatchedStep(n) \/ TimeoutStep(n) => DiskStep
    BY Zenon DEF MatchedStep, TimeoutStep, Unmoved
  <2>4. \A n, id : AcceptedStep(n, id) => DiskStep
    BY Zenon DEF AcceptedStep, Unmoved
  <2>5. \A n, loops : ReleasedStep(n, loops) => DiskStep
    BY Zenon DEF ReleasedStep
  <2>6. \A l : LeaseLostStep(l) => DiskStep
    BY <2>5, Zenon DEF LeaseLostStep, Unmoved
  <2>7. \A n : ActivatedStep(n) \/ EndedStep(n) \/ DroppedStep(n) => DiskStep
    BY Zenon DEF ActivatedStep, EndedStep, DroppedStep
  <2> SUFFICES Moves
    OBVIOUS
  <2> HIDE DEF Moves
  <2>8. CASE Quiet \/ RejectedStep \/ GivesUpStep \/ StopStep
    BY <1>1, <2>2, <2>8
  <2>9. ASSUME NEW n \in Name,
               \/ MatchedStep(n) \/ TimeoutStep(n) \/ ReleasedStep(n, alives)
               \/ ActivatedStep(n) \/ EndedStep(n) \/ DroppedStep(n)
        PROVE  Moves
    BY <1>1, <2>3, <2>5, <2>7, <2>9, Zenon
  <2>10. ASSUME NEW n \in Name, NEW id \in Id, AcceptedStep(n, id)
         PROVE  Moves
    BY <1>1, <2>4, <2>10, Zenon
  <2>11. ASSUME NEW l \in alives, LeaseLostStep(l)
         PROVE  Moves
    BY <1>1, <2>6, <2>11, Zenon
  <2>12. CASE UNCHANGED <<claimVars, timerVars, actVars, deactVars, diskVars>>
    BY <1>4, <2>12
  <2>13. CASE DownStep
    BY <1>2, <2>13
  <2>14. ASSUME NEW adopted \in SUBSET ClaimedOnRecord, RestartStep(adopted)
         PROVE  Moves
    BY <1>3, <2>14, Zenon
  <2>15. QED
    BY <2>1, <2>8, <2>9, <2>10, <2>11, <2>12, <2>13, <2>14, Zenon DEF Effect
<1>7. QED
  BY <1>5, <1>6

\* At first the machine is undivided.
LEMMA InitBalanced == Init => Carvings /\ RecordedAmounts /\ Balanced
<1> SUFFICES ASSUME Init PROVE Carvings /\ RecordedAmounts /\ Balanced
  OBVIOUS
<1>1. PICK minted \in PrimeOutcomes :
        slots = [n \in Name |->
                   IF n \in ConfigSlots
                   THEN [NewSlot(FullRes(n)) EXCEPT
                           !.claim = IF n \in minted THEN Minted(n[1]) ELSE NoClaim]
                   ELSE NoSlot]
  BY Zenon DEF Init
<1>2. NoResources \in Amounts /\ NoResources \in Resources /\ \A k \in Kinds : NoResources[k] = 0
  BY DEF NoResources, Amounts, Resources
<1>3. \A d \in DSlots : slots[d].res = NoResources
  BY <1>1, NothingThere, SlotNames
<1>4. \A n \in ConfigSlots : slots[n].res = FullRes(n) /\ FullRes(n) \in Resources
  <2>1. \A n \in ConfigSlots : slots[n].res = FullRes(n)
    BY <1>1, SlotNames DEF NewSlot
  <2>2. \A n \in ConfigSlots : FullRes(n) \in Amounts
    BY FullResNatural
  <2>3. QED
    BY <2>1, <2>2 DEF Amounts, Resources
<1>5. Carvings
  BY <1>2, <1>3, <1>4 DEF Carvings, Name
<1>6. RecordedAmounts
  <2>1. NoRecord.res = NoResources
    BY DEF NoRecord
  <2>2. \A m \in Name : pending[m] = NoRecord /\ batch[m] = NoRecord /\ store[m] = NoRecord
    BY DEF Init, P!Empty
  <2>3. QED
    BY <1>2, <2>1, <2>2, Zenon DEF RecordedAmounts, RecordsAt
<1>7. ASSUME Partitionable, NEW k \in Kinds
      PROVE  slots[<<1, 0>>].res[k] + SumRes(slots, k, DSlots) = Total[k]
  <2>1. slots[<<1, 0>>].res = Total
    BY <1>4, <1>7, SlotNames DEF FullRes
  <2>2. SumRes(slots, k, DSlots) = 0
    <3>1. \A d \in DSlots : slots[d].res[k] \in Int /\ slots[d].res[k] = 0
      BY <1>2, <1>3
    <3>2. SumRes(slots, k, DSlots) = SumRes(slots, k, {})
      BY <3>1, FewDSlots, SumZeros
    <3>3. SumRes(slots, k, {}) = 0
      BY FS_EmptySet, SumStep
    <3>4. QED
      BY <3>2, <3>3
  <2>3. QED
    BY <2>1, <2>2, StartdAssumption
<1>8. QED
  BY <1>5, <1>6, <1>7 DEF Balanced

\* The amounts of the dynamic slots are integers, before and after.
LEMMA CarvedAmounts ==
  ASSUME Carvings
  PROVE  /\ IsFiniteSet(DSlots)
         /\ \A d \in DSlots, k \in Kinds : slots[d].res[k] \in Int /\ slots[d].res[k] >= 0
         /\ \A n \in Name, k \in Kinds : slots[n].res[k] \in Int
<1>1. \A r \in Amounts : \A k \in Kinds : r[k] \in Int /\ r[k] >= 0
  BY DEF Amounts
<1>2. \A r \in Resources : \A k \in Kinds : r[k] \in Int
  BY DEF Resources
<1>3. QED
  BY <1>1, <1>2, FewDSlots, Zenon DEF Carvings

\* A step that leaves the division alone.
LEMMA DividedBalance ==
  ASSUME Carvings, Balanced, DividedStep
  PROVE  Carvings' /\ Balanced'
<1>1. \A n \in Name : slots'[n].live = slots[n].live /\ slots'[n].res = slots[n].res
  BY DEF DividedStep, SameDivision
<1>2. dslotSeq' = dslotSeq /\ \A d \in DSlots : d \in Name
  BY SlotNames DEF DividedStep
<1>3. Carvings'
  BY <1>1, <1>2, Zenon DEF Carvings
<1>4. \A k \in Kinds : SumRes(slots', k, DSlots) = SumRes(slots, k, DSlots)
  <2>1. TAKE k \in Kinds
  <2>2. \A d \in DSlots : slots'[d].res[k] = slots[d].res[k]
    BY <1>1, <1>2
  <2>3. QED
    BY <2>2, FewDSlots, SumCongruent
<1>5. Partitionable => <<1, 0>> \in Name
  BY SlotNames
<1>6. QED
  BY <1>1, <1>3, <1>4, <1>5 DEF Balanced

\* A dynamic slot is carved: what it gets is what the partitionable slot loses.
LEMMA CarvedBalance ==
  ASSUME TypeOK, Carvings, Balanced, NEW p \in ConfigSlots, NEW d \in DSlots, NEW req \in Amounts,
         CarvedStep(p, d, req)
  PROVE  Carvings' /\ Balanced'
<1>1. p = <<1, 0>> /\ p \in Name /\ d \in Name /\ p \notin DSlots /\ ConfigSlots = {p}
  BY SlotNames
<1>2. /\ slots'[d].res = req /\ slots'[p].res = Carve(slots[p].res, req)
      /\ slots'[p].live = slots[p].live /\ dslotSeq' = dslotSeq + 1 /\ d[2] = dslotSeq + 1
      /\ \A e \in DSlots \ {d} : slots'[e] = slots[e]
  BY DEF CarvedStep
<1>3. dslotSeq \in Int
  BY DEF TypeOK, ClaimTypes
<1>4. slots[d].res = NoResources
  BY <1>2, <1>3 DEF Carvings
<1>5. \A k \in Kinds : req[k] \in Int /\ slots'[p].res[k] = slots[p].res[k] - req[k]
  BY <1>2 DEF Carve, Amounts
<1>6. slots'[p].res \in Resources /\ req \in Resources
  BY <1>1, <1>2, <1>5, CarvedAmounts DEF Carve, Resources, Amounts
<1>7. Carvings'
  <2>1. \A e \in DSlots : e[2] \in Int
    BY DEF DSlots
  <2>2. \A e \in DSlots \ {d} : slots'[e].res \in Amounts /\ slots'[e].res \in Resources
    BY <1>2, SlotNames DEF Carvings
  <2>3. \A e \in DSlots : e[2] > dslotSeq' => e # d /\ e[2] > dslotSeq
    BY <1>2, <1>3, <2>1
  <2>4. \A e \in DSlots : e[2] > dslotSeq' => slots'[e].res = NoResources
    BY <1>2, <2>3 DEF Carvings
  <2>5. QED
    BY <1>1, <1>2, <1>6, <2>2, <2>4 DEF Carvings, Name
<1>8. \A k \in Kinds : SumRes(slots', k, DSlots) = SumRes(slots, k, DSlots) + req[k]
  <2>1. TAKE k \in Kinds
  <2>2. slots[d].res[k] = 0
    BY <1>4 DEF NoResources
  <2>3. SumRes(slots', k, DSlots) = SumRes(slots, k, DSlots) - slots[d].res[k] + slots'[d].res[k]
    BY <1>2, <1>5, CarvedAmounts, SumChange
  <2>4. SumRes(slots, k, DSlots) \in Int
    BY CarvedAmounts, SumType
  <2>5. QED
    BY <1>2, <1>5, <2>2, <2>3, <2>4
<1>9. Balanced'
  <2> SUFFICES ASSUME slots[p].live, Partitionable, NEW k \in Kinds
               PROVE  slots'[p].res[k] + SumRes(slots', k, DSlots) = Total[k]
    BY <1>1, <1>2 DEF Balanced
  <2>1. slots[p].res[k] + SumRes(slots, k, DSlots) = Total[k]
    BY <1>1 DEF Balanced
  <2>2. SumRes(slots, k, DSlots) \in Int /\ slots[p].res[k] \in Int
    BY <1>1, CarvedAmounts, SumType
  <2>3. QED
    BY <1>5, <1>8, <2>1, <2>2
<1>10. QED
  BY <1>7, <1>9

\* A dynamic slot is destroyed: the clamp of Restore never cuts anything off,
\* because what the other dynamic slots hold is not negative.
LEMMA DestroyedBalance ==
  ASSUME Carvings, Balanced, NEW p \in ConfigSlots, NEW d \in DSlots, DestroyedStep(p, d)
  PROVE  Carvings' /\ Balanced'
<1>1. p = <<1, 0>> /\ p \in Name /\ d \in Name /\ p \notin DSlots /\ ConfigSlots = {p}
  BY SlotNames
<1>2. /\ slots'[d] = NoSlot /\ slots'[p].res = Restore(slots[p].res, slots[d].res, FullRes(p))
      /\ slots'[p].live = slots[p].live /\ dslotSeq' = dslotSeq
      /\ \A e \in DSlots \ {d} : slots'[e] = slots[e]
  BY DEF DestroyedStep
<1>3. slots'[d].res = NoResources
  BY <1>2, NothingThere
<1>4. NoResources \in Amounts /\ NoResources \in Resources /\ \A k \in Kinds : NoResources[k] = 0
  BY DEF NoResources, Amounts, Resources
<1>5. FullRes(p) = Total /\ \A k \in Kinds : Total[k] \in Int
  BY SlotNames, StartdAssumption DEF FullRes
<1>6. \A k \in Kinds : slots[p].res[k] \in Int /\ slots[d].res[k] \in Int
  BY <1>1, CarvedAmounts
<1>7. slots'[p].res \in Resources
  BY <1>2, <1>5, <1>6 DEF Restore, Resources
<1>8. Carvings'
  <2>1. \A e \in DSlots \ {d} : slots'[e].res \in Amounts /\ slots'[e].res \in Resources
    BY <1>2, SlotNames DEF Carvings
  <2>2. \A e \in DSlots : e[2] > dslotSeq' => slots'[e].res = NoResources
    BY <1>2, <1>3 DEF Carvings
  <2>3. QED
    BY <1>1, <1>3, <1>4, <1>7, <2>1, <2>2 DEF Carvings, Name
<1>9. Balanced'
  <2> SUFFICES ASSUME slots[p].live, Partitionable, NEW k \in Kinds
               PROVE  slots'[p].res[k] + SumRes(slots', k, DSlots) = Total[k]
    BY <1>1, <1>2 DEF Balanced
  <2>1. slots[p].res[k] + SumRes(slots, k, DSlots) = Total[k]
    BY <1>1 DEF Balanced
  <2>2. SumRes(slots, k, DSlots) \in Int
    BY CarvedAmounts, SumType
  <2>3. slots[d].res[k] <= SumRes(slots, k, DSlots)
    BY CarvedAmounts, SumBound
  <2>4. slots'[p].res[k] = slots[p].res[k] + slots[d].res[k]
    <3>1. slots[p].res[k] \in Int /\ slots[d].res[k] \in Int /\ Total[k] \in Int
      BY <1>5, <1>6
    <3>2. slots'[p].res[k] = IF slots[p].res[k] + slots[d].res[k] > Total[k]
                             THEN Total[k] ELSE slots[p].res[k] + slots[d].res[k]
      BY <1>2, <1>5 DEF Restore
    <3>3. QED
      BY <2>1, <2>2, <2>3, <3>1, <3>2
  <2>5. SumRes(slots', k, DSlots) = SumRes(slots, k, DSlots) - slots[d].res[k] + slots'[d].res[k]
    BY <1>2, <1>3, <1>4, CarvedAmounts, SumChange
  <2>6. QED
    BY <1>3, <1>4, <1>6, <2>1, <2>2, <2>4, <2>5
<1>10. QED
  BY <1>8, <1>9

\* The startd is rebuilt: the partitionable slot has what the records leave.
LEMMA RebuiltBalance ==
  ASSUME RecordedAmounts, RebuiltStep, dslotSeq' \in Int
  PROVE  /\ Carvings' /\ Balanced'
         /\ ~Partitionable =>
              \A n \in Name : \A k \in Kinds : slots'[n].res[k] = FullRes(n)[k]
<1> DEFINE on(p) == {d \in ClaimedOnRecord : IsDynamic(d) /\ ParentName(d) = p}
<1>1. NoResources \in Amounts /\ NoResources \in Resources /\ \A k \in Kinds : NoResources[k] = 0
  BY DEF NoResources, Amounts, Resources
<1>2. \A d \in DSlots : store[d].res \in Amounts
  BY SlotNames DEF RecordedAmounts, RecordsAt
<1>3. /\ \A n \in ConfigSlots : slots'[n].live /\ slots'[n].res = carvedRes(n, ClaimedOnRecord)
      /\ \A d \in DSlots :
           /\ slots'[d].res = IF d \in ClaimedOnRecord THEN store[d].res ELSE NoResources
           /\ d \in ClaimedOnRecord => d[2] <= dslotSeq'
  BY DEF RebuiltStep
<1>4. \A n : on(n) \subseteq DSlots
  BY SlotNames DEF ClaimedOnRecord
<1>5. \A n : IsFiniteSet(on(n))
  BY <1>4, FewDSlots, FS_Subset
<1>6. \A d \in DSlots, k \in Kinds : store[d].res[k] \in Int
  BY <1>2 DEF Amounts
<1>7. \A n \in ConfigSlots, k \in Kinds :
        /\ SumRes(store, k, on(n)) \in Int
        /\ slots'[n].res[k] = FullRes(n)[k] - SumRes(store, k, on(n))
  <2>1. TAKE n \in ConfigSlots, k \in Kinds
  <2>2. slots'[n].res = carvedRes(n, ClaimedOnRecord)
    BY <1>3
  <2>3. SumRes(store, k, on(n)) \in Int
    BY <1>4, <1>5, <1>6, SumType, Zenon
  <2>4. QED
    BY <2>2, <2>3, Zenon DEF carvedRes, SumRes
<1>8. \A n \in ConfigSlots : slots'[n].res \in Resources
  <2>1. TAKE n \in ConfigSlots
  <2>2. DOMAIN slots'[n].res = Kinds /\ slots'[n].res = [k \in Kinds |-> slots'[n].res[k]]
    BY <1>3, Zenon DEF carvedRes
  <2>3. \A k \in Kinds : FullRes(n)[k] \in Int
    BY FullResNatural DEF Amounts
  <2> HIDE DEF on
  <2>4. \A k \in Kinds : slots'[n].res[k] \in Int
    BY <1>7, <2>3
  <2>5. QED
    BY <2>2, <2>4 DEF Resources
<1>9. Carvings'
  <2>1. \A d \in DSlots : slots'[d].res \in Amounts
    BY <1>1, <1>2, <1>3
  <2>2. Amounts \subseteq Resources
    BY DEF Amounts, Resources
  <2>3. \A d \in DSlots : d[2] \in Int
    BY DEF DSlots
  <2>4. \A d \in DSlots : d[2] > dslotSeq' => slots'[d].res = NoResources
    BY <1>3, <2>3
  <2>5. QED
    BY <1>8, <2>1, <2>2, <2>4 DEF Carvings, Name
<1>10. ASSUME Partitionable, NEW k \in Kinds
       PROVE  slots'[<<1, 0>>].res[k] + SumRes(slots', k, DSlots) = Total[k]
  <2> DEFINE p == <<1, 0>>
  <2>1. p \in ConfigSlots /\ FullRes(p) = Total /\ Total[k] \in Int
    BY <1>10, SlotNames, StartdAssumption DEF FullRes
  <2>2. on(p) = {d \in DSlots : d \in ClaimedOnRecord}
    BY SlotNames DEF ClaimedOnRecord
  <2> HIDE DEF on, p
  <2>3. \A d \in DSlots : slots'[d].res[k] \in Int /\ (d \in on(p) => slots'[d].res[k] = store[d].res[k])
    BY <1>1, <1>3, <1>6, <2>2
  <2>4. \A d \in DSlots \ on(p) : slots'[d].res[k] = 0
    BY <1>1, <1>3, <2>2
  <2>5. SumRes(slots', k, DSlots) = SumRes(slots', k, on(p))
    BY <1>4, <2>3, <2>4, FewDSlots, SumZeros
  <2>6. SumRes(slots', k, on(p)) = SumRes(store, k, on(p))
    BY <1>4, <1>5, <2>3, SumCongruent
  <2>7. QED
    BY <1>7, <2>1, <2>5, <2>6 DEF p
<1>11. ASSUME ~Partitionable, NEW n \in Name
       PROVE  \A k \in Kinds : slots'[n].res[k] = FullRes(n)[k]
  <2>1. n \in ConfigSlots /\ on(n) = {}
    BY <1>4, <1>11 DEF DSlots, Name
  <2>2. TAKE k \in Kinds
  <2>3. SumRes(store, k, on(n)) = 0
    BY <1>5, <2>1, SumStep, Zenon
  <2>4. FullRes(n)[k] \in Int
    BY <2>1, FullResNatural DEF Amounts
  <2>5. QED
    BY <1>7, <2>1, <2>3, <2>4
<1>12. Balanced'
  BY <1>10 DEF Balanced
<1>13. QED
  BY <1>9, <1>11, <1>12

\* The records stay amounts: a new one holds what its slot has.
LEMMA AmountsRecorded ==
  ASSUME TypeOK, [Next]_vars, RecordedAmounts, Carvings'
  PROVE  RecordedAmounts'
<1>1. NoResources \in Amounts /\ NoRecord.res = NoResources
  BY DEF NoResources, Amounts, NoRecord
<1>2. \A m \in Name : RecordOf(m)'.res = IF IsDynamic(m) THEN slots'[m].res ELSE NoResources
  BY DEF RecordOf
<1>3. \A m \in Name : RecordOf(m)'.res \in Amounts
  BY <1>1, <1>2, SlotNames DEF Carvings
<1>4. QED
  BY <1>1, <1>3, RecordsMove, Zenon DEF RecordedAmounts

\* Every step keeps the balance.
LEMMA BalancedNext ==
  ASSUME RequestsNatural, TypeOK, DynInv, Carvings, RecordedAmounts, Balanced, [Next]_vars
  PROVE  Carvings' /\ RecordedAmounts' /\ Balanced'
<1>1. CASE DividedStep
  BY <1>1, DividedBalance, AmountsRecorded
<1>2. ASSUME NEW p \in ConfigSlots, NEW d \in DSlots, NEW ad \in JobAds,
             CarvedStep(p, d, requestedResources(ad))
      PROVE  Carvings' /\ RecordedAmounts' /\ Balanced'
  <2>1. requestedResources(ad) \in Amounts
    BY DEF RequestsNatural, Amounts
  <2>2. Carvings' /\ Balanced'
    BY <1>2, <2>1, CarvedBalance
  <2>3. QED
    BY <2>2, AmountsRecorded
<1>3. ASSUME NEW p \in ConfigSlots, NEW d \in DSlots, DestroyedStep(p, d)
      PROVE  Carvings' /\ RecordedAmounts' /\ Balanced'
  BY <1>3, DestroyedBalance, AmountsRecorded
<1>4. CASE DownStep
  <2>1. \A n \in Name : slots'[n] = NoSlot
    BY <1>4 DEF DownStep
  <2>2. NoResources \in Amounts /\ NoResources \in Resources
    BY DEF NoResources, Amounts, Resources
  <2>3. Carvings'
    BY <2>1, <2>2, NothingThere, SlotNames DEF Carvings
  <2>4. Balanced'
    BY <2>1, NothingThere, SlotNames DEF Balanced
  <2>5. QED
    BY <2>3, <2>4, AmountsRecorded
<1>5. CASE RebuiltStep
  <2>1. CASE UNCHANGED vars
    BY <2>1, SlotsUntouched, DividedBalance, AmountsRecorded DEF vars, claimVars
  <2>2. CASE Next
    <3>1. dslotSeq' \in Int
      BY <2>2, NextEffect DEF TypeOK, ClaimTypes
    <3>2. QED
      BY <1>5, <3>1, RebuiltBalance, AmountsRecorded
  <2>3. QED
    BY <2>1, <2>2
<1>6. CASE UNCHANGED vars
  <2>1. DividedStep
    BY <1>6, SlotsUntouched DEF vars, claimVars
  <2>2. QED
    BY <1>1, <2>1
<1>7. QED
  BY <1>1, <1>2, <1>3, <1>4, <1>5, <1>6, Divisions, Zenon

\* When no job ad asks for a negative amount, what is left in the partitionable
\* slot and what its dynamic slots hold always add up to the machine: through
\* any number of carves and destructions (Carve, Restore), records that are
\* late, lost or stale, crashes, and restarts that carve the recorded slots
\* again (reconstructDSlot).  In particular the clamp in Restore never cuts
\* anything off.
THEOREM ResourcesConserved == RequestsNatural /\ Spec => []Conservation
<1> DEFINE Inv == RequestsNatural => Carvings /\ RecordedAmounts /\ Balanced
<1>1. Init => Inv
  BY InitBalanced
<1>2. TypeOK /\ DynInv /\ Inv /\ [Next]_vars => Inv'
  BY BalancedNext
<1>3. RequestsNatural /\ Inv => Conservation
  <2> SUFFICES ASSUME Balanced, NEW p \in ConfigSlots, IsPartitionable(p), slots[p].live,
                      NEW k \in Kinds
               PROVE  slots[p].res[k] + SumRes(slots, k, DSlots) = FullRes(p)[k]
    BY Zenon DEF Conservation, SumRes
  <2>1. Partitionable /\ p = <<1, 0>>
    BY SlotNames DEF IsPartitionable
  <2>2. QED
    BY <2>1 DEF Balanced, FullRes
<1>4. TypeOK /\ DynInv /\ Listed /\ [Next]_vars => DynInv' /\ Listed'
  BY ListedNext
<1>5. RequestsNatural => RequestsNatural'
  BY DEF RequestsNatural
<1> HIDE DEF Inv
<1>6. QED
  BY <1>1, <1>2, <1>3, <1>4, <1>5, InitListed, TypeCorrect, PTL DEF Spec

-----------------------------------------------------------------------------
(* NotOvercommitted. *)

\* Only restart counts restarts.
LEMMA RestartsGrow ==
  ASSUME Next
  PROVE  restarts' = restarts \/ restarts' = restarts + 1
<1>1. Claiming => restarts' = restarts
  BY Zenon
  DEF Claiming, doMatchInfo, doReleaseByClaimID, releaseSlot, doRequestClaim, matchTimerFires,
      doMatchTimeout, aliveLoopGivesUp, doReleaseSlot, lifeVars
<1>2. \A g \in Gen : Take(g) => restarts' = restarts
  BY Zenon
  DEF Take, doStarterHello, doStarterFinal, doAdoptFailed, releaseSlot, supExited,
      reaperExited, handlerExited, doStarterExited, lifeVars
<1>3. \A g \in Gen : Supervise(g) \/ Reply(g) => restarts' = restarts
  BY Zenon
  DEF Supervise, Reply, supConnects, supGivesUp, supReadsHello, supReadsFinal, supExits,
      supRelays, handlerPasses, handlerFails, actStep, lifeVars
<1>4. \A g \in Gen : \/ reapStarter(g) \/ backstopFires(g) \/ doVacateEscalate(g)
                     \/ starterExits(g) \/ starterAbandoned(g) \/ starterKilled(g)
                     => restarts' = restarts
  BY Zenon
  DEF reapStarter, backstopFires, doVacateEscalate, starterExits, starterAbandoned,
      starterKilled, actStep, lifeVars
<1>5. \A h \in Deact : \/ deactivateReplyFails(h) \/ doVacate(h)
                       \/ \E id, command : doDeactivate(h, id, command)
                       => restarts' = restarts
  BY Zenon DEF deactivateReplyFails, doVacate, doDeactivate, lifeVars
<1>6. \A id \in Id, ad \in JobAds : doActivateClaim(id, ad) => restarts' = restarts
  BY Zenon DEF doActivateClaim, lifeVars
<1>7. Activating => restarts' = restarts
  BY <1>2, <1>3, <1>4, <1>5, <1>6, Zenon DEF Activating
<1>8. Persisting => restarts' = restarts
  BY Zenon DEF Persisting, persisterFlushes, persisterCommits, lifeVars
<1>9. Restarting => restarts' = restarts \/ restarts' = restarts + 1
  BY Zenon DEF Restarting, Stop, loopReturns, cleanExit, crash, processEnds, restart
<1>10. QED
  BY <1>1, <1>7, <1>8, <1>9 DEF Next

\* No configured slot has been promised beyond what it has.
Solvent == \A n \in ConfigSlots : \A k \in Kinds : slots[n].res[k] >= 0

\* Every step of a startd that has not restarted keeps the slots solvent.  A
\* restarted one carves the recorded slots without a check (reconstructDSlot),
\* so a partitionable slot may then be promised twice.
LEMMA SolventNext ==
  ASSUME RequestsNatural, TypeOK, DynInv, Carvings, RecordedAmounts, Next, TypeOK',
         (Partitionable => restarts = 0) => Solvent, Partitionable => restarts' = 0
  PROVE  Solvent'
<1>1. restarts \in Nat /\ restarts' \in Nat /\ dslotSeq' \in Int
  BY StartdAssumption DEF TypeOK, LifeTypes, ClaimTypes
<1>2. (Partitionable => restarts = 0) /\ Solvent
  BY <1>1, RestartsGrow
<1>3. CASE DividedStep
  BY <1>2, <1>3, SlotNames DEF Solvent, DividedStep, SameDivision
<1>4. ASSUME NEW p \in ConfigSlots, NEW d \in DSlots, NEW ad \in JobAds,
             CarvedStep(p, d, requestedResources(ad))
      PROVE  Solvent'
  <2> DEFINE req == requestedResources(ad)
  <2>1. ConfigSlots = {p} /\ p \in Name
    BY SlotNames
  <2>2. /\ CanCarve(slots[p].res, req) /\ slots'[p].res = Carve(slots[p].res, req)
        /\ req \in Amounts
    BY <1>4, Zenon DEF CarvedStep, RequestsNatural, Amounts
  <2> HIDE DEF req
  <2>3. \A k \in Kinds : slots[p].res[k] \in Int
    BY <2>1, CarvedAmounts
  <2>4. QED
    BY <2>1, <2>2, <2>3 DEF Solvent, CanCarve, Carve, Amounts
<1>5. ASSUME NEW p \in ConfigSlots, NEW d \in DSlots, DestroyedStep(p, d)
      PROVE  Solvent'
  <2>1. ConfigSlots = {p} /\ p \in Name
    BY SlotNames
  <2>2. slots'[p].res = Restore(slots[p].res, slots[d].res, FullRes(p))
    BY <1>5 DEF DestroyedStep
  <2>3. \A k \in Kinds : FullRes(p)[k] \in Int /\ FullRes(p)[k] >= 0
    BY FullResNatural DEF Amounts
  <2>4. \A k \in Kinds : /\ slots[p].res[k] \in Int /\ slots[p].res[k] >= 0
                         /\ slots[d].res[k] \in Int /\ slots[d].res[k] >= 0
    BY <1>2, <2>1, CarvedAmounts DEF Solvent
  <2>5. QED
    BY <2>1, <2>2, <2>3, <2>4, SMTT(20) DEF Solvent, Restore
<1>6. CASE DownStep
  BY <1>6, NothingThere, SlotNames DEF DownStep, Solvent, NoResources
<1>7. CASE RebuiltStep
  <2>1. ~Partitionable
    BY <1>1, <1>2, <1>7 DEF RebuiltStep
  <2>2. \A n \in ConfigSlots : \A k \in Kinds : slots'[n].res[k] = FullRes(n)[k]
    BY <1>1, <1>7, <2>1, SlotNames, RebuiltBalance
  <2>3. QED
    BY <2>2, FullResNatural DEF Solvent, Amounts
<1>8. QED
  BY <1>3, <1>4, <1>5, <1>6, <1>7, Divisions, Zenon

\* When no job ad asks for a negative amount, no slot is ever promised beyond
\* what it has: static slots never, a partitionable slot and its dynamic slots
\* until the startd first restarts (doRequestClaimPSlot's CanCarve).
THEOREM NeverOvercommitted ==
  RequestsNatural /\ Spec => []((Partitionable => restarts = 0) => NotOvercommitted)
<1> DEFINE Inv == RequestsNatural => Carvings /\ RecordedAmounts /\ Balanced
           Sol == RequestsNatural => ((Partitionable => restarts = 0) => Solvent)
           Goal == (Partitionable => restarts = 0) => NotOvercommitted
<1>1. Init => Inv
  BY InitBalanced
<1>2. TypeOK /\ DynInv /\ Inv /\ [Next]_vars => Inv'
  BY BalancedNext
<1>3. Init => Sol
  <2> SUFFICES ASSUME Init PROVE Solvent
    OBVIOUS
  <2>1. PICK minted \in PrimeOutcomes :
          slots = [n \in Name |->
                     IF n \in ConfigSlots
                     THEN [NewSlot(FullRes(n)) EXCEPT
                             !.claim = IF n \in minted THEN Minted(n[1]) ELSE NoClaim]
                     ELSE NoSlot]
    BY Zenon DEF Init
  <2>2. \A n \in ConfigSlots : slots[n].res = FullRes(n)
    BY <2>1, SlotNames DEF NewSlot
  <2>3. QED
    BY <2>2, FullResNatural DEF Solvent, Amounts
<1>4. TypeOK /\ TypeOK' /\ DynInv /\ Inv /\ Sol /\ [Next]_vars => Sol'
  <2>1. TypeOK /\ TypeOK' /\ DynInv /\ Inv /\ Sol /\ Next => Sol'
    BY SolventNext DEF RequestsNatural
  <2>2. Sol /\ UNCHANGED vars => Sol'
    BY DEF vars, claimVars, lifeVars, Solvent, RequestsNatural
  <2>3. QED
    BY <2>1, <2>2
<1>5. RequestsNatural /\ Inv /\ Sol => Goal
  <2>1. Carvings => \A d \in DSlots : \A k \in Kinds : slots[d].res[k] >= 0
    BY CarvedAmounts
  <2>2. QED
    BY <2>1 DEF NotOvercommitted, Solvent, Name
<1>6. TypeOK /\ DynInv /\ Listed /\ [Next]_vars => DynInv' /\ Listed'
  BY ListedNext
<1>7. RequestsNatural => RequestsNatural'
  BY DEF RequestsNatural
<1> HIDE DEF Inv, Sol, Goal
<1>8. RequestsNatural /\ Spec => []Goal
  BY <1>1, <1>2, <1>3, <1>4, <1>5, <1>6, <1>7, InitListed, TypeCorrect, PTL DEF Spec
<1>9. QED
  BY <1>8 DEF Goal
=============================================================================
