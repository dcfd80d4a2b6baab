-------------------------------- MODULE Slot --------------------------------
(***************************************************************************)
(* The data the startd's event loop works on, as pure operators: resource  *)
(* quantities and their division (internal/slot/slot.go), a slot and the   *)
(* claim it carries (slot.go, internal/claim/claim.go), and the evaluation *)
(* of a slot's Requirements against a request or job ad.                   *)
(*                                                                         *)
(* A ClassAd is a record whose fields are the attributes it defines, so    *)
(* "undefined" is a name outside its DOMAIN.  Field Start holds the value  *)
(* of the START expression for the ad; the schedd's _condor_Request*       *)
(* overrides are the fields condor_Request*.                               *)
(*                                                                         *)
(* A slot name <<N, 0>> is slotN@host and <<N, M>> is slotN_M@host.  A     *)
(* claim id is a positive number in minting order; 0 is "no claim".        *)
(*                                                                         *)
(* Here and in the other modules a definition named Op_Variant is a        *)
(* deliberately wrong version of Op; it is used by no other definition and *)
(* shows that a property of a run would notice that mistake.               *)
(***************************************************************************)
EXTENDS Integers, FiniteSets

Kinds == {"Cpus", "Memory", "Disk"}

Resources == [Kinds -> Int]

NoResources == [k \in Kinds |-> 0]

-----------------------------------------------------------------------------
(* Dividing resources. *)

CanCarve_CpusOnly(res, req) == req["Cpus"] <= res["Cpus"]

\* A request fits in what is left of a slot.
CanCarve(res, req) == \A k \in Kinds : req[k] <= res[k]

Carve(res, req) == [k \in Kinds |-> res[k] - req[k]]

Restore_ForgetsDisk(res, req, full) ==
  [k \in Kinds |-> IF k = "Disk" THEN res[k]
                   ELSE IF res[k] + req[k] > full[k] THEN full[k] ELSE res[k] + req[k]]

\* Give req back, clamped at the slot's undivided allocation.
Restore(res, req, full) ==
  [k \in Kinds |-> IF res[k] + req[k] > full[k] THEN full[k] ELSE res[k] + req[k]]

\* The share of static slot i of n: integer division, slot 1 takes the rest.
splitResources(total, n, i) ==
  [k \in Kinds |-> total[k] \div n + (IF i = 1 THEN total[k] % n ELSE 0)]

\* NUM_SLOTS, never more than there are Cpus.
NumStaticSlots(total, wanted) ==
  IF wanted > total["Cpus"] /\ total["Cpus"] > 0 THEN total["Cpus"] ELSE wanted

-----------------------------------------------------------------------------
(* Request and job ads. *)

RequestAttr == [Cpus |-> "RequestCpus", Memory |-> "RequestMemory", Disk |-> "RequestDisk"]

OverrideAttr == [Cpus |-> "condor_RequestCpus", Memory |-> "condor_RequestMemory",
                 Disk |-> "condor_RequestDisk"]

\* WithinResourceLimits: every resource is positive and the ad's request for it
\* is defined and fits.  An undefined request makes the expression undefined.
WithinResourceLimits(res, ad) ==
  \A k \in Kinds : /\ res[k] > 0
                   /\ RequestAttr[k] \in DOMAIN ad
                   /\ ad[RequestAttr[k]] <= res[k]

\* Requirements of the slot's MatchAd (START && WithinResourceLimits), whatever
\* state the slot is in.
Requirements(res, ad) == ad.Start /\ WithinResourceLimits(res, ad)

\* What a dynamic slot is carved with: the schedd's override, else the job's
\* request, else 0; never less than one Cpu.
requestedResources(ad) ==
  LET geti(k) == IF OverrideAttr[k] \in DOMAIN ad THEN ad[OverrideAttr[k]]
                 ELSE IF RequestAttr[k] \in DOMAIN ad THEN ad[RequestAttr[k]]
                 ELSE 0
  IN  [k \in Kinds |-> IF k = "Cpus" /\ geti(k) < 1 THEN 1 ELSE geti(k)]

-----------------------------------------------------------------------------
(* Claims and slots. *)

SlotStates == {"Unclaimed", "Matched", "Claimed"}

ClaimStates == {"Unclaimed", "ClaimedIdle", "ClaimedBusy"}

\* final is the starter whose Final report the claim holds (0: none).
Claims(Id, Starter) == [id : Id \cup {0}, state : ClaimStates, final : Starter \cup {0}]

NoClaim == [id |-> 0, state |-> "Unclaimed", final |-> 0]

\* A freshly minted claim.
Minted(id) == [id |-> id, state |-> "Unclaimed", final |-> 0]

IsClaimed(cl) == cl.state \in {"ClaimedIdle", "ClaimedBusy"}

\* live: the slot is in byName and LiveSlots.  res: what is left of it.
\* children: ChildClaimIds.
Slots(Id, Starter, Res) ==
  [live : BOOLEAN, state : SlotStates, activity : {"Idle", "Busy"}, res : Res,
   claim : Claims(Id, Starter), children : SUBSET Id]

\* A slot as it is built: Unclaimed, Idle and without a claim.
NewSlot(res) ==
  [live |-> TRUE, state |-> "Unclaimed", activity |-> "Idle", res |-> res,
   claim |-> NoClaim, children |-> {}]

NoSlot == [NewSlot(NoResources) EXCEPT !.live = FALSE]

SetStateActivity_Swapped(s, state, activity) ==
  [s EXCEPT !.state = activity, !.activity = state]

SetStateActivity(s, state, activity) == [s EXCEPT !.state = state, !.activity = activity]

SetClaimState(s, cl, state, activity) ==
  [s EXCEPT !.claim = cl, !.state = state, !.activity = activity]

\* Accept the slot's claim and move the slot to Claimed/Idle.
AcceptClaim(s) ==
  SetClaimState(s, [s.claim EXCEPT !.state = "ClaimedIdle"], "Claimed", "Idle")

\* SetBusy and SetIdle on the claim, with the slot's activity beside them.
SetBusy(s) ==
  SetClaimState(s, [s.claim EXCEPT !.state = "ClaimedBusy"], "Claimed", "Busy")

SetIdle_ClaimOnly(s) == [s EXCEPT !.claim.state = "ClaimedIdle"]

SetIdle(s) ==
  SetClaimState(s, [s.claim EXCEPT !.state = "ClaimedIdle"], "Claimed", "Idle")

AdoptClaim_AlwaysIdle(s, id, busy) ==
  SetClaimState(s, [Minted(id) EXCEPT !.state = "ClaimedIdle"],
                "Claimed", IF busy THEN "Busy" ELSE "Idle")

\* Keep a starter's Final report on the claim.
SetFinal(s, starter) == [s EXCEPT !.claim.final = starter]

SetChildClaimIds(s, ids) == [s EXCEPT !.children = ids]

\* A Claimed slot rebuilt from its record by re-adoption.
AdoptClaim(s, id, busy) ==
  SetClaimState(s, [Minted(id) EXCEPT !.state = IF busy THEN "ClaimedBusy" ELSE "ClaimedIdle"],
                "Claimed", IF busy THEN "Busy" ELSE "Idle")
=============================================================================
