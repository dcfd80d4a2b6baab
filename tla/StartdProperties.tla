-------------------------- MODULE StartdProperties --------------------------
(***************************************************************************)
(* What the startd is expected to keep true.  The last section states what *)
(* comments of the source say and the code does not always do.             *)
(***************************************************************************)
EXTENDS Startd

-----------------------------------------------------------------------------
(* Slots, claims and activations agree. *)

\* A slot's activity, its claim's state and its entry in the activations map are
\* three records of one fact, kept in different objects by different handlers:
\* Busy exactly when an activation is registered (doActivateClaim,
\* doStarterExited, doAdoptFailed, releaseSlot, doAdopt).
BusyIffActivation ==
  \A n \in Name :
    /\ slots[n].activity = "Busy" <=> slots[n].claim.state = "ClaimedBusy"
    /\ slots[n].claim.state = "ClaimedBusy" <=> activations[n] # 0

\* No slot is wedged in Busy: a registered activation belongs to its slot and its
\* supervisor has yet to submit the event that ends it (superviseStarter leaves
\* only through evStarterExited or evAdoptFailed).
NoWedge ==
  \A n \in Name : activations[n] # 0 =>
    /\ acts[activations[n]].slot = n
    /\ acts[activations[n]].sup \notin {"none", "done"}

\* A slot is Claimed exactly while an ALIVE loop is answerable for its present
\* claim: a claim without a loop would never expire, and a loop without a claim
\* would release somebody else's (startAliveLoop, aliveLoop, releaseSlot,
\* doAdopt).
LeaseExact ==
  /\ phase = "up" =>
       \A n \in Name : slots[n].state = "Claimed" =>
         \E l \in alives : l.slot = n /\ l.claim = slots[n].claim.id
  /\ \A l \in alives : ~l.release =>
       slots[l.slot].state = "Claimed" /\ slots[l.slot].claim.id = l.claim

\* An activation is told to vacate only when a DEACTIVATE_CLAIM was carried out
\* on that activation: a max-vacate timer left over from an earlier activation of
\* the slot never reaches it (doVacateEscalate's gen guard).
VacateOnlyAsked ==
  \A n \in Name :
    activations[n] # 0 /\ acts[activations[n]].vacateCh # "empty" =>
      acts[activations[n]].vacating

-----------------------------------------------------------------------------
(* Resources of a partitionable slot. *)

\* Carving, destroying, clamping and re-adoption neither create nor lose
\* resources: what is left in a partitionable slot and what its dynamic slots
\* hold add up to the machine (Carve, Restore, reconstructDSlot).
Conservation ==
  \A p \in ConfigSlots : IsPartitionable(p) /\ slots[p].live =>
    \A k \in Kinds :
      slots[p].res[k] + MapThenSumSet(LAMBDA d : slots[d].res[k], DSlots) = FullRes(p)[k]

\* A partitionable slot never promises more than the machine has
\* (doRequestClaimPSlot's CanCarve).
NotOvercommitted ==
  \A n \in Name : \A k \in Kinds : slots[n].res[k] >= 0

\* ChildClaimIds lists the claims of the live dynamic slots, no more and no less
\* (refreshPSlotChildren after every carve, destroy and re-adoption).
ChildrenExact ==
  \A p \in ConfigSlots : IsPartitionable(p) /\ slots[p].live =>
    slots[p].children = {slots[d].claim.id : d \in {e \in DSlots : slots[e].live}} \ {0}

-----------------------------------------------------------------------------
(* Persistence. *)

\* The record a restart would find for slot n once the persister has drained.
Latest(n) ==
  IF pending[n] # NoRecord THEN pending[n]
  ELSE IF batch[n] # NoRecord THEN batch[n]
  ELSE store[n]

\* Every claim is recoverable as it stands: each handler that changes what a
\* record says of a Claimed slot also queues the new record, and no record that
\* is older than another overtakes it on the way to the store (persistSlot,
\* persister.put, flush, commit).
PersistedCurrent ==
  HasStore /\ phase # "down" =>
    \A n \in Name : slots[n].state = "Claimed" => Latest(n) = RecordOf(n)

\* Where a claim id is in its life.  A stopped startd owns what its store says.
Life(id) ==
  LET at == {n \in Name : slots[n].live /\ slots[n].claim.id = id} IN
  IF id > seq THEN "unminted"
  ELSE IF \E n \in at : IsClaimed(slots[n].claim) THEN "owned"
  ELSE IF at # {} THEN "offered"
  ELSE IF phase = "down" /\ \E n \in Name : store[n].id = id /\ store[n].state = "Claimed"
       THEN "owned"
  ELSE "retired"

Lifecycle == INSTANCE ClaimLifecycle WITH life <- [id \in Id |-> Life(id)]

\* A startd with static slots implements ClaimLifecycle: in particular a released
\* or timed-out claim id is never honoured again and an accepted one survives Stop
\* and restart (unclaimSlot, doMatchTimeout, Stop, doAdopt).  It is not stated for
\* dynamic slots: destroyDSlot deletes the record at once, a put of it that is
\* still pending or in the batch writes it again, and doAdopt then rebuilds the
\* destroyed slot with the claim id that was released.
ClaimLifecycleSpec == Lifecycle!Spec

-----------------------------------------------------------------------------
(* What must eventually happen (under Fairness). *)

\* A Matched slot does not stay reserved for ever: it is claimed, released or
\* timed out, also when a stale evMatchTimeout has dropped the canceller of the
\* timer that is running now (startMatchTimer, doMatchTimeout).  It is stated for
\* requests that the slot accepts: doRequestClaim cancels the timer before it
\* evaluates Requirements, and a rejected request leaves the slot Matched.
MatchResolved ==
  \A n \in Name : slots[n].state = "Matched" ~> slots[n].state # "Matched" \/ seq = MaxId

\* Once its ALIVE loop has given up on a claim, the slot gives the claim up
\* (aliveLoop, evReleaseSlot).
LeaseLossReleases ==
  \A n \in Name, id \in Id :
    [slot |-> n, claim |-> id, release |-> TRUE] \in alives
      ~> slots[n].claim.id # id \/ seq = MaxId

\* The death of a starter is always noticed, whoever killed it: its activation
\* ends and the slot can be activated again (reapStarter, superviseStarter).
DeathNoticed ==
  \A g \in Gen :
    activations[acts[g].slot] = g /\ starters[g] \in {"exited", "lost"}
      ~> activations[acts[g].slot] # g

StarterOf(g) == INSTANCE StarterLife WITH life <- starters[g]

\* What the startd assumes of its starters is what StarterLife.tla says, no more:
\* in particular nothing the startd does brings back, or kills, a starter that has
\* been reaped (superviseStarter, the backstop of killActivation, reapStarter).
StartersLive ==
  /\ \A g \in Gen : StarterOf(g)!Init
  /\ [][\A g \in Gen : [StarterOf(g)!Next]_(starters[g])]_starters
  /\ \A g \in Gen : StarterOf(g)!Fairness

\* A hard vacate that was accepted by the vacate channel ends the activation
\* (doVacate, doVacateEscalate, superviseStarter).
HardVacateEnds ==
  \A g \in Gen :
    activations[acts[g].slot] = g /\ acts[g].vacateCh = "hard" ~> activations[acts[g].slot] # g

\* A 413 reply that was stashed is sent, also when the claim is released or the
\* starter is killed meanwhile (releaseDeferredDeactivate), one handler at a time.
DeferredAnswered ==
  \A h \in Deact : deacts[h].pc = "wait" ~> deacts[h].pc # "wait"

-----------------------------------------------------------------------------
(* What comments say and the code does not always do. *)

\* The loop takes an evStarterExited that a goroutine of g submitted.
ExitTaken(g) ==
  \/ acts[g].sup = "exit" /\ acts'[g].sup = "done"
  \/ acts[g].reap = "exit" /\ acts'[g].reap = "done"
  \/ acts[g].hand = "exit" /\ acts'[g].hand = "done"

\* activate.go:754, "Idempotent: a second Exited for the same activation (or one
\* racing a release) finds no activation record and no-ops": it never ends
\* another activation.
ExitedIsIdempotent ==
  [][\A g \in Gen : ExitTaken(g) /\ activations[acts[g].slot] # g =>
       UNCHANGED <<slots, activations>>]_vars

\* startd.go:464, "Stop deliberately does NOT vacate or kill running starters ...
\* it keeps the job running when the startd exits and waits ... to be redialed":
\* the activation of a running, connected starter stays on record through Stop.
StopKeepsJobs ==
  [][\A n \in Name : LET g == activations[n] IN
       phase = "stopping" /\ g # 0 /\ acts[g].addr = g /\ starters[g] = "running"
       /\ slots'[n].claim.id = slots[n].claim.id
         => activations'[n] = g]_vars
=============================================================================
