------------------------------- MODULE Startd -------------------------------
(***************************************************************************)
(* The startd: one event loop that owns every slot, claim and activation   *)
(* (internal/startd/startd.go, claim.go, activate.go, adopt.go), the       *)
(* goroutines that submit events to it, the starters it spawns, and the    *)
(* durable store it is rebuilt from after a restart.                       *)
(*                                                                         *)
(* An event handler is one atomic step, as the loop runs it.  An event     *)
(* that a goroutine has submitted is that goroutine's control state        *)
(* ("fired", "release", "exit", ...) until the loop takes it: a goroutine  *)
(* submits at most one event it does not have to wait for, and the order   *)
(* in which the loop takes the events of different goroutines is free.     *)
(* A command's arrival and its handling are one step, since the command    *)
(* handlers read no loop state before they submit.                         *)
(*                                                                         *)
(* An activation object outlives its entry in the activations map: its     *)
(* supervisor, its reaper, its ACTIVATE_CLAIM handler and its timers hold  *)
(* it.  acts is the heap of those objects.  An activation and the starter  *)
(* it runs share one number, gen for a fresh one; a redialled starter's    *)
(* activation takes the number of the starter (the code numbers it afresh, *)
(* in a process where no older number is left).                            *)
(***************************************************************************)
EXTENDS Slot, Functions, FiniteSetsExt

CONSTANTS
  Partitionable,  \* one partitionable slot, or NumSlots static slots
  NumSlots,       \* NUM_SLOTS
  Total,          \* the machine's resources
  JobAds,         \* request and job ads the schedds send
  StarterMode,    \* STARTER_MODE: "goroutine" or "process"
  HasStore,       \* the claim store could be opened
  Env,            \* what the environment does besides sending claim commands:
                  \*   "match"   the negotiator sends MATCH_INFO
                  \*   "lease"   ALIVE fails or is disowned for a whole lease
                  \*   "mint", "import", "put"  minting a claim id, importing a
                  \*             session, writing a record may fail
                  \*   "kill9"   a process starter may be killed
                  \*   "stop", "crash"  the startd is stopped, or dies
  MaxId,          \* bound: claim ids minted
  MaxDSlots,      \* bound: highest dynamic-slot sub-id
  MaxGen,         \* bound: starters spawned
  MaxDeact,       \* bound: DEACTIVATE_CLAIM handlers at a time
  MaxEsc,         \* bound: escalation timers running for one activation
  MaxRestarts     \* bound: restarts of the startd

ConfigSlots ==
  IF Partitionable THEN {<<1, 0>>}
  ELSE {<<i, 0>> : i \in 1..NumStaticSlots(Total, NumSlots)}

DSlots == IF Partitionable THEN {<<1, i>> : i \in 1..MaxDSlots} ELSE {}

Name == ConfigSlots \cup DSlots
Id == 1..MaxId
Gen == 1..MaxGen
Deact == 1..MaxDeact

IsDynamic(n) == n[2] > 0
IsPartitionable(n) == Partitionable /\ ~IsDynamic(n)
ParentName(n) == <<n[1], 0>>

\* The undivided allocation of a configured slot.
FullRes(n) ==
  IF Partitionable THEN Total
  ELSE splitResources(Total, NumStaticSlots(Total, NumSlots), n[1])

NumConfigured == IF Partitionable THEN 1 ELSE NumStaticSlots(Total, NumSlots)

ASSUME StartdAssumption ==
  /\ Partitionable \in BOOLEAN /\ HasStore \in BOOLEAN
  /\ NumSlots \in Nat \ {0}
  /\ Total \in [Kinds -> Nat \ {0}]
  /\ \A ad \in JobAds : requestedResources(ad) \in Resources
  /\ StarterMode \in {"goroutine", "process"}
  /\ Env \subseteq {"match", "lease", "mint", "import", "put", "kill9", "stop", "crash"}
  /\ MaxId \in Nat /\ MaxDSlots \in Nat /\ MaxGen \in Nat
  /\ MaxDeact \in Nat /\ MaxEsc \in Nat /\ MaxRestarts \in Nat
  /\ NumConfigured <= MaxId

VARIABLES
  phase,               \* "up", "stopping" (Stop cancelled the loop), "drain", "down"
  restarts,            \* restarts so far
  slots,               \* byName / LiveSlots, and each slot's claim
  seq, dslotSeq,       \* Minter.seq, Core.dslotSeq
  matchCancels,        \* slot -> claim id of the match timer it can cancel (0: none)
  timers,              \* the match-timer goroutines
  aliveCancels,        \* slot -> claim id of the ALIVE loop it can cancel (0: none)
  alives,              \* the ALIVE-loop goroutines
  activations,         \* slot -> gen of its activation (0: none)
  gen,                 \* activationGen
  acts,                \* the activation objects and the goroutines that hold them
  starters,            \* the starters
  deferredDeactivate,  \* slot -> handler whose 413 reply is stashed (0: none)
  deacts,              \* the DEACTIVATE_CLAIM handler goroutines
  pending, batch, store

claimVars == <<slots, seq, dslotSeq>>
timerVars == <<matchCancels, timers, aliveCancels, alives>>
actVars == <<activations, gen, acts, starters>>
deactVars == <<deferredDeactivate, deacts>>
diskVars == <<pending, batch, store>>
lifeVars == <<phase, restarts>>
vars == <<claimVars, timerVars, actVars, deactVars, diskVars, lifeVars>>

-----------------------------------------------------------------------------
(* Types. *)

\* persist.Record: starter stands for the starter's socket, pid, sandbox and job
\* (0: no socket recorded), addr for its command address.
Records(Res) ==
  [id : Id \cup {0}, state : SlotStates, activity : {"Idle", "Busy"}, res : Res,
   starter : Gen \cup {0}, addr : Gen \cup {0}]

NoRecord ==
  [id |-> 0, state |-> "Unclaimed", activity |-> "Idle", res |-> NoResources,
   starter |-> 0, addr |-> 0]

P == INSTANCE Persister WITH Key <- Name

Timers == [slot : Name, claim : Id, fired : BOOLEAN]

AliveLoops == [slot : Name, claim : Id, release : BOOLEAN]

\* sup, reap and hand are the control states of superviseStarter, reapStarter
\* and the tail of handleActivateClaim.  The supervisor waits for the starter's
\* Hello in "greet"; "hello", "final", "exit" and "giveup" are its submitted
\* evStarterHello, evStarterFinal, evStarterExited and evAdoptFailed.
\* esc counts the soft-vacate escalation timers running for the activation.
Acts ==
  [slot : Name, adopted : BOOLEAN, addr : Gen \cup {0},
   vacating : BOOLEAN, vacateCh : {"empty", "soft", "hard"}, cancelled : BOOLEAN,
   sup : {"none", "connect", "greet", "hello", "serve", "final", "reported", "exit", "giveup",
          "done"},
   reap : {"none", "wait", "exit", "done"}, hand : {"none", "reply", "exit", "done"},
   esc : 0..MaxEsc, backstop : BOOLEAN]

NoAct ==
  [slot |-> <<1, 0>>, adopted |-> FALSE, addr |-> 0,
   vacating |-> FALSE, vacateCh |-> "empty", cancelled |-> FALSE,
   sup |-> "none", reap |-> "none", hand |-> "none", esc |-> 0, backstop |-> FALSE]

\* "starting" is a process that waits for the startd to dial it; "vacating" has
\* been told to hard-vacate; "exited" ran to its end and left its .exit marker;
\* "lost" ended without one.
StarterStates == {"none", "starting", "running", "vacating", "exited", "lost"}

Handlers == [pc : {"idle", "vacate", "wait"}, slot : Name, hard : BOOLEAN]

IdleHandler == [pc |-> "idle", slot |-> <<1, 0>>, hard |-> FALSE]

IsSlot(s) == s \in Slots(Id, Gen, {s.res})

SlotMap(f) == f = [n \in Name |-> f[n]] /\ \A n \in Name : IsSlot(f[n])

IsRecord(r) == r \in Records({r.res})

RecordMap(f) == f = [n \in Name |-> f[n]] /\ \A n \in Name : IsRecord(f[n])

ClaimTypes ==
  /\ SlotMap(slots)
  /\ seq \in 0..MaxId /\ dslotSeq \in 0..MaxDSlots

TimerTypes ==
  /\ matchCancels \in [Name -> Id \cup {0}] /\ timers \subseteq Timers
  /\ aliveCancels \in [Name -> Id \cup {0}] /\ alives \subseteq AliveLoops

ActTypes ==
  /\ activations \in [Name -> Gen \cup {0}] /\ gen \in 0..MaxGen
  /\ acts \in [Gen -> Acts] /\ starters \in [Gen -> StarterStates]

DeactTypes ==
  /\ deferredDeactivate \in [Name -> Deact \cup {0}] /\ deacts \in [Deact -> Handlers]

DiskTypes == RecordMap(pending) /\ RecordMap(batch) /\ RecordMap(store)

LifeTypes == phase \in {"up", "stopping", "drain", "down"} /\ restarts \in 0..MaxRestarts

\* Every variable keeps its type: no handler leaves a slot, claim, activation or
\* record half written.  The quantities of resources are left to Conservation
\* and NotOvercommitted.
TypeOK ==
  ClaimTypes /\ TimerTypes /\ ActTypes /\ DeactTypes /\ DiskTypes /\ LifeTypes

-----------------------------------------------------------------------------
(* Helpers of the loop. *)

\* The loop is handling events.  After Stop has cancelled its context it may
\* still pick queued events before it sees the cancellation.
Running == phase \in {"up", "stopping"}

findSlotByClaimID(id) == {n \in Name : slots[n].live /\ slots[n].claim.id = id}

\* Whether Mint succeeds.
MintOutcomes == IF "mint" \in Env THEN BOOLEAN ELSE {TRUE}

RecordOf(n) ==
  LET spawned == activations[n] # 0 /\ StarterMode = "process" IN
  [id |-> slots[n].claim.id, state |-> slots[n].state, activity |-> slots[n].activity,
   res |-> IF IsDynamic(n) THEN slots[n].res ELSE NoResources,
   starter |-> IF spawned THEN activations[n] ELSE 0,
   addr |-> IF spawned THEN acts[activations[n]].addr ELSE 0]

persistSlots_ConfiguredOnly(S) ==
  P!put([n \in {m \in S : HasStore /\ slots'[m].claim.id # 0 /\ ~IsDynamic(m)} |->
           RecordOf(n)'])

\* persistSlot for every slot of S, in the state the handler leaves behind.
persistSlots(S) ==
  P!put([n \in {m \in S : HasStore /\ slots'[m].claim.id # 0} |-> RecordOf(n)'])

cancelMatchTimer(n) ==
  /\ timers' = {t \in timers : t.fired \/ t.slot # n \/ t.claim # matchCancels[n]}
  /\ matchCancels' = [matchCancels EXCEPT ![n] = 0]

\* A timer started on a cancelled context never fires.
startMatchTimer(n, id) ==
  /\ timers' = {t \in timers : t.fired \/ t.slot # n \/ t.claim # matchCancels[n]}
                \cup {t \in {[slot |-> n, claim |-> id, fired |-> FALSE]} : phase = "up"}
  /\ matchCancels' = [matchCancels EXCEPT ![n] = id]

startAliveLoop_NoCancel(n, id) ==
  /\ alives' = alives \cup {l \in {[slot |-> n, claim |-> id, release |-> FALSE]} : phase = "up"}
  /\ UNCHANGED aliveCancels

startAliveLoop(n, id) ==
  /\ alives' = alives \cup {l \in {[slot |-> n, claim |-> id, release |-> FALSE]} : phase = "up"}
  /\ aliveCancels' = [aliveCancels EXCEPT ![n] = id]

cancelAliveLoop_Forgets(n, loops) ==
  /\ alives' = loops
  /\ aliveCancels' = [aliveCancels EXCEPT ![n] = 0]

\* Stop the ALIVE loop of slot n; loops is the set of loops before that.  A loop
\* that has already submitted its release is past the cancellation.
cancelAliveLoop(n, loops) ==
  /\ alives' = {l \in loops : l.release \/ l.slot # n \/ l.claim # aliveCancels[n]}
  /\ aliveCancels' = [aliveCancels EXCEPT ![n] = 0]

refreshPSlotChildren_OnlyAdds(ss, p) ==
  [ss EXCEPT ![p].children = @ \cup ({ss[d].claim.id : d \in DSlots} \ {0})]

refreshPSlotChildren(ss, p) ==
  LET children == {d \in DSlots : ss[d].live /\ ParentName(d) = p /\ ss[d].claim.id # 0}
  IN  [ss EXCEPT ![p] = SetChildClaimIds(@, {ss[d].claim.id : d \in children})]

unclaimSlot_SameId(s, minted) == SetClaimState(s, Minted(s.claim.id), "Unclaimed", "Idle")

\* Back to Unclaimed with a fresh claim; a failed Mint keeps the old claim.
unclaimSlot(s, minted) ==
  IF minted THEN SetClaimState(s, Minted(seq + 1), "Unclaimed", "Idle")
  ELSE SetStateActivity(s, "Unclaimed", "Idle")

\* The non-blocking send on an activation's one-place vacate channel.
offer(ch, msg) == IF ch = "empty" THEN msg ELSE ch

\* An activation leaves the map: its context is cancelled, and the fields that
\* are only reached through the map are cleared, as is the vacate channel once
\* its supervisor has stopped reading it.
retire(act) ==
  [act EXCEPT !.cancelled = TRUE, !.addr = 0, !.vacating = FALSE,
              !.vacateCh = IF act.sup \in {"exit", "giveup", "done"} THEN "empty" ELSE @]

\* A killed activation is told to hard-vacate.  The SIGKILL backstop waits for
\* the reaper, so an adopted activation has none.
kill(act) ==
  retire([act EXCEPT !.vacateCh = offer(@, "hard"), !.backstop = (act.reap = "wait")])

\* Kill the activation of slot n; heap is acts before that.
killActivation(n, heap) ==
  LET g == activations[n] IN
  /\ activations' = [activations EXCEPT ![n] = 0]
  /\ acts' = IF g = 0 THEN heap ELSE [heap EXCEPT ![g] = kill(@)]

\* Drop a dynamic slot: from the live set, from the store (but not from the
\* persister's queue), its resources going back to the parent.
destroyDSlot(n) ==
  LET p == ParentName(n)
      cut == [slots EXCEPT ![n] = NoSlot, ![p].res = Restore(@, slots[n].res, FullRes(p))]
  IN  /\ slots' = refreshPSlotChildren(cut, p)
      /\ IF HasStore THEN P!Delete(n) ELSE UNCHANGED store
      /\ persistSlots({p})
      /\ UNCHANGED <<seq, dslotSeq, batch>>

\* Release slot n; heap and loops are acts and alives as the caller leaves them.
releaseSlot(n, heap, loops) ==
  /\ cancelMatchTimer(n)
  /\ cancelAliveLoop(n, loops)
  /\ killActivation(n, heap)
  /\ UNCHANGED <<gen, starters, deactVars, lifeVars>>
  /\ \/ IsDynamic(n) /\ destroyDSlot(n)
     \/ /\ ~IsDynamic(n) /\ seq < MaxId
        /\ \E minted \in MintOutcomes :
              slots' = [slots EXCEPT ![n] = unclaimSlot(@, minted)]
        /\ seq' = seq + 1
        /\ persistSlots({n})
        /\ UNCHANGED <<dslotSeq, batch, store>>

releaseDeferredDeactivate_NoWake(n) ==
  /\ deferredDeactivate' = [deferredDeactivate EXCEPT ![n] = 0]
  /\ UNCHANGED deacts

\* Unblock the handler whose 413 reply is stashed for slot n.
releaseDeferredDeactivate(n) ==
  LET h == deferredDeactivate[n] IN
  /\ deferredDeactivate' = [deferredDeactivate EXCEPT ![n] = 0]
  /\ deacts' = IF h = 0 THEN deacts ELSE [deacts EXCEPT ![h] = IdleHandler]

-----------------------------------------------------------------------------
(* Claiming: MATCH_INFO, the match timer, REQUEST_CLAIM, the ALIVE lease and *)
(* RELEASE_CLAIM (claim.go).                                                 *)

doMatchInfo(id) ==
  /\ Running /\ "match" \in Env
  /\ \E n \in findSlotByClaimID(id) :
       /\ slots[n].claim.state = "Unclaimed"
       /\ slots[n].state = "Unclaimed"
       /\ slots' = [slots EXCEPT ![n] = SetStateActivity(@, "Matched", "Idle")]
       /\ startMatchTimer(n, id)
       /\ UNCHANGED <<seq, dslotSeq, aliveCancels, alives, actVars, deactVars, batch, store,
                      lifeVars>>
       /\ persistSlots({n})

\* MATCH_TIMEOUT elapses and the timer goroutine submits its event.
matchTimerFires(t) ==
  /\ Running /\ t \in timers /\ ~t.fired
  /\ timers' = (timers \ {t}) \cup {[t EXCEPT !.fired = TRUE]}
  /\ UNCHANGED <<claimVars, matchCancels, aliveCancels, alives, actVars, deactVars, diskVars,
                 lifeVars>>

timeoutDue_IfArmed(t) ==
  slots[t.slot].state = "Matched" /\ slots[t.slot].claim.id = t.claim /\ matchCancels[t.slot] # 0

\* The slot is still Matched under the claim the timer was started for.
timeoutDue(t) == slots[t.slot].state = "Matched" /\ slots[t.slot].claim.id = t.claim

\* The slot's canceller is dropped before the event is checked for staleness.
doMatchTimeout(t) ==
  LET n == t.slot
      due == timeoutDue(t)
  IN  /\ Running /\ t \in timers /\ t.fired /\ slots[n].live
      /\ timers' = timers \ {t}
      /\ matchCancels' = [matchCancels EXCEPT ![n] = 0]
      /\ \/ ~due /\ UNCHANGED <<slots, seq>>
         \/ /\ due /\ seq < MaxId
            /\ \E minted \in MintOutcomes :
                  slots' = [slots EXCEPT ![n] = unclaimSlot(@, minted)]
            /\ seq' = seq + 1
      /\ UNCHANGED <<dslotSeq, aliveCancels, alives, actVars, deactVars, batch, store, lifeVars>>
      /\ persistSlots(IF due THEN {n} ELSE {})

\* REQUEST_CLAIM on a partitionable slot p that satisfies the ad: carve a
\* dynamic slot, claimed by the schedd; p keeps its own claim and state.
doRequestClaimPSlot(p, ad) ==
  LET req == requestedResources(ad)
      d == <<p[1], dslotSeq + 1>>
      dslot == AcceptClaim([NewSlot(req) EXCEPT !.claim = Minted(seq + 1)])
      cut == [slots EXCEPT ![d] = dslot, ![p].res = Carve(@, req)]
  IN  /\ CanCarve(slots[p].res, req)
      /\ dslotSeq < MaxDSlots
      /\ dslotSeq' = dslotSeq + 1
      /\ slots' = refreshPSlotChildren(cut, p)
      /\ startAliveLoop(d, seq + 1)
      /\ persistSlots({d, p})

\* REQUEST_CLAIM.  The match timer is cancelled before the Requirements are
\* evaluated, so a rejection leaves it cancelled.
doRequestClaim(id, ad) ==
  /\ Running
  /\ \E n \in findSlotByClaimID(id) :
       LET willing == Requirements(slots[n].res, ad)
           carves == /\ willing /\ IsPartitionable(n)
                     /\ CanCarve(slots[n].res, requestedResources(ad))
       IN  /\ slots[n].claim.state = "Unclaimed"
           /\ cancelMatchTimer(n)
           /\ UNCHANGED <<actVars, deactVars, batch, store, lifeVars>>
           /\ \/ /\ willing /\ ~IsPartitionable(n)
                 /\ slots' = [slots EXCEPT ![n] = AcceptClaim(@)]
                 /\ startAliveLoop(n, id)
                 /\ UNCHANGED <<seq, dslotSeq>>
                 /\ persistSlots({n})
              \/ /\ carves /\ seq < MaxId
                 /\ seq' = seq + 1
                 /\ doRequestClaimPSlot(n, ad)
              \/ /\ carves /\ "mint" \in Env /\ seq < MaxId
                 /\ seq' = seq + 1
                 /\ UNCHANGED <<slots, dslotSeq, aliveCancels, alives, pending>>
              \/ /\ ~willing \/ (IsPartitionable(n) /\ ~carves)
                 /\ UNCHANGED <<claimVars, aliveCancels, alives, pending>>

doReleaseByClaimID(id) ==
  /\ Running
  /\ \E n \in findSlotByClaimID(id) : releaseSlot(n, acts, alives)

\* The schedd has forgotten the claim, or no ALIVE has got through for a whole
\* lease: the loop submits evReleaseSlot and ends.
aliveLoopGivesUp(l) ==
  /\ Running /\ "lease" \in Env /\ l \in alives /\ ~l.release
  /\ alives' = (alives \ {l}) \cup {[l EXCEPT !.release = TRUE]}
  /\ UNCHANGED <<claimVars, matchCancels, timers, aliveCancels, actVars, deactVars, diskVars,
                 lifeVars>>

doReleaseSlot_UnlessClaimed(l) ==
  /\ Running /\ l \in alives /\ l.release
  /\ alives' = alives \ {l}
  /\ UNCHANGED <<claimVars, matchCancels, timers, aliveCancels, actVars, deactVars,
                 diskVars, lifeVars>>

\* evReleaseSlot names the slot only: it releases whatever claim is there.
doReleaseSlot(l) ==
  /\ Running /\ l \in alives /\ l.release
  /\ \/ slots[l.slot].live /\ releaseSlot(l.slot, acts, alives \ {l})
     \/ /\ ~slots[l.slot].live
        /\ alives' = alives \ {l}
        /\ UNCHANGED <<claimVars, matchCancels, timers, aliveCancels, actVars, deactVars,
                       diskVars, lifeVars>>

-----------------------------------------------------------------------------
(* Activation: ACTIVATE_CLAIM and the goroutines of one starter (activate.go). *)

Alive_IfKilled(st) == starters[st] \in {"starting", "running", "vacating", "lost"}

\* The starter has not ended: cmd.Wait has not returned.
Alive(st) == starters[st] \in {"starting", "running", "vacating"}

NewAct(n, adopted, addr) ==
  [slot |-> n, adopted |-> adopted, addr |-> addr,
   vacating |-> FALSE, vacateCh |-> "empty", cancelled |-> phase = "stopping",
   sup |-> "connect", reap |-> IF StarterMode = "process" /\ ~adopted THEN "wait" ELSE "none",
   hand |-> IF adopted THEN "none" ELSE "reply", esc |-> 0, backstop |-> FALSE]

\* A starter that cannot be spawned rejects the command before anything is
\* installed, like a job ad that does not match.
doActivateClaim(id, ad) ==
  /\ Running /\ gen < MaxGen
  /\ \E n \in findSlotByClaimID(id) :
       /\ slots[n].claim.state = "ClaimedIdle"
       /\ "JobUniverse" \in DOMAIN ad
       /\ Requirements(slots[n].res, ad)
       /\ gen' = gen + 1
       /\ acts' = [acts EXCEPT ![gen + 1] = NewAct(n, FALSE, 0)]
       /\ activations' = [activations EXCEPT ![n] = gen + 1]
       /\ starters' = [starters EXCEPT ![gen + 1] =
                         IF StarterMode = "process" THEN "starting" ELSE "running"]
       /\ slots' = [slots EXCEPT ![n] = SetBusy(@)]
       /\ UNCHANGED <<seq, dslotSeq, timerVars, deactVars, batch, store, lifeVars>>
       /\ persistSlots({n})

\* One goroutine of activation g moves; nothing else changes.
actStep(g, act) ==
  /\ Running
  /\ acts' = [acts EXCEPT ![g] = act]
  /\ UNCHANGED <<claimVars, timerVars, activations, gen, deactVars, diskVars, lifeVars>>

\* The transport of g is closed exactly when g has left the activations map.
Closed(g) == activations[acts[g].slot] # g

\* handleActivateClaim has written its OK reply and passed the syscall conn.
handlerPasses(g) ==
  /\ acts[g].hand = "reply" /\ ~Closed(g)
  /\ actStep(g, [acts[g] EXCEPT !.hand = "done"])
  /\ UNCHANGED starters

\* The reply could not be written, or the transport refused the conn.
handlerFails(g) ==
  /\ acts[g].hand = "reply"
  /\ actStep(g, [acts[g] EXCEPT !.hand = "exit"])
  /\ UNCHANGED starters

\* Connect and, for a fresh process starter, the Activate message and the
\* hand-over of the conn that handlerPasses stashed.
supConnects(g) ==
  LET act == acts[g] IN
  /\ act.sup = "connect" /\ ~act.cancelled /\ Alive(g)
  /\ StarterMode = "process" /\ ~act.adopted => act.hand = "done"
  /\ actStep(g, [act EXCEPT !.sup = "greet"])
  /\ starters' = [starters EXCEPT ![g] = IF @ = "starting" THEN "running" ELSE @]

supGivesUp_Silently(g) ==
  /\ acts[g].sup = "connect"
  /\ acts[g].cancelled \/ ~Alive(g) \/ StarterMode = "process"
  /\ actStep(g, [acts[g] EXCEPT !.sup = "done"])
  /\ UNCHANGED starters

\* A dial that times out, a dead starter or a cancelled context.  Goroutine
\* mode has no dial.
supGivesUp(g) ==
  LET act == acts[g] IN
  /\ act.sup = "connect"
  /\ act.cancelled \/ ~Alive(g) \/ StarterMode = "process"
  /\ actStep(g, [act EXCEPT !.sup = IF act.adopted THEN "giveup" ELSE "exit",
                             !.vacateCh = IF Closed(g) THEN "empty" ELSE @])
  /\ UNCHANGED starters

Serving_UntilFinal(act) == act.sup \in {"greet", "serve"}

\* The supervisor's select loop: before the Hello, after it, after the Final.
Serving(act) == act.sup \in {"greet", "serve", "reported"}

supReadsHello(g) ==
  LET act == acts[g] IN
  /\ act.sup = "greet"
  /\ actStep(g, [act EXCEPT !.sup = "hello"])
  /\ UNCHANGED starters

\* A starter reports Final when its job has ended, and then still has the output
\* to transfer; one that fails early sends it without a Hello.
supReadsFinal(g) ==
  LET act == acts[g] IN
  /\ act.sup \in {"greet", "serve"}
  /\ actStep(g, [act EXCEPT !.sup = "final"])
  /\ UNCHANGED starters

\* Exited read, the control channel broken, or the context cancelled.
supExits(g) ==
  LET act == acts[g] IN
  /\ Serving(act) /\ (act.cancelled \/ ~Alive(g))
  /\ actStep(g, [act EXCEPT !.sup = "exit", !.vacateCh = IF Closed(g) THEN "empty" ELSE @])
  /\ UNCHANGED starters

\* Relay one vacate message.  Once the activation is cancelled the write races
\* the close of the transport.
supRelays(g) ==
  LET act == acts[g] IN
  /\ Serving(act) /\ act.vacateCh # "empty"
  /\ actStep(g, [act EXCEPT !.vacateCh = "empty"])
  /\ \/ /\ act.vacateCh = "hard" /\ starters[g] = "running"
        /\ starters' = [starters EXCEPT ![g] = "vacating"]
     \/ /\ act.vacateCh = "hard" /\ starters[g] = "running" => act.cancelled
        /\ UNCHANGED starters

reapStarter(g) ==
  LET act == acts[g] IN
  /\ act.reap = "wait" /\ ~Alive(g)
  /\ actStep(g, [act EXCEPT !.reap = "exit", !.backstop = FALSE])
  /\ UNCHANGED starters

backstopFires_Reaped(g) ==
  /\ acts[g].backstop
  /\ actStep(g, [acts[g] EXCEPT !.backstop = FALSE])
  /\ starters' = [starters EXCEPT ![g] = "lost"]

\* KILLING_TIMEOUT after a kill, the starter not reaped: SIGKILL.
backstopFires(g) ==
  LET act == acts[g] IN
  /\ act.backstop
  /\ actStep(g, [act EXCEPT !.backstop = FALSE])
  /\ starters' = [starters EXCEPT ![g] = IF Alive(g) THEN "lost" ELSE @]

\* evStarterHello: record the starter's address and pid on the slot's activation.
doStarterHello(g) ==
  LET n == acts[g].slot
      h == activations[n]
      heap == [acts EXCEPT ![g].sup = "serve"]
      changed == h # 0 /\ acts[h].addr # g
  IN  /\ Running /\ acts[g].sup = "hello"
      /\ acts' = IF changed THEN [heap EXCEPT ![h].addr = g] ELSE heap
      /\ UNCHANGED <<claimVars, timerVars, activations, gen, starters, deactVars, batch, store,
                     lifeVars>>
      /\ persistSlots(IF changed /\ slots[n].live THEN {n} ELSE {})

\* evStarterFinal: keep the report on the slot's claim, if it is claimed.
doStarterFinal(g) ==
  LET n == acts[g].slot IN
  /\ Running /\ acts[g].sup = "final"
  /\ acts' = [acts EXCEPT ![g].sup = "reported"]
  /\ slots' = IF slots[n].live /\ IsClaimed(slots[n].claim)
              THEN [slots EXCEPT ![n] = SetFinal(@, g)]
              ELSE slots
  /\ UNCHANGED <<seq, dslotSeq, timerVars, activations, gen, starters, deactVars, diskVars,
                 lifeVars>>

\* evStarterExited for slot n: wind down whatever activation the slot has now.
\* heap is acts with the submitting goroutine moved on.
doStarterExited(n, heap) ==
  LET g == activations[n]
      idles == g # 0 /\ slots[n].live /\ slots[n].claim.state = "ClaimedBusy"
  IN  /\ Running
      /\ activations' = [activations EXCEPT ![n] = 0]
      /\ acts' = IF g = 0 THEN heap ELSE [heap EXCEPT ![g] = retire(@)]
      /\ releaseDeferredDeactivate(n)
      /\ slots' = IF idles THEN [slots EXCEPT ![n] = SetIdle(@)] ELSE slots
      /\ UNCHANGED <<seq, dslotSeq, timerVars, gen, starters, batch, store, lifeVars>>
      /\ persistSlots(IF idles THEN {n} ELSE {})

\* The three goroutines of an activation that submit evStarterExited.
supExited(g) ==
  /\ acts[g].sup = "exit"
  /\ doStarterExited(acts[g].slot, [acts EXCEPT ![g].sup = "done"])

reaperExited(g) ==
  /\ acts[g].reap = "exit"
  /\ doStarterExited(acts[g].slot, [acts EXCEPT ![g].reap = "done"])

handlerExited(g) ==
  /\ acts[g].hand = "exit"
  /\ doStarterExited(acts[g].slot, [acts EXCEPT ![g].hand = "done"])

\* evAdoptFailed: with the starter's .exit marker the job's outcome is applied
\* and the claim kept; without it the claim is released.  The code also drops an
\* activation whose slot is gone; there is none (HeldBusy in StartdHandlers.tla).
doAdoptFailed(g) ==
  LET n == acts[g].slot
      h == activations[n]
      heap == [acts EXCEPT ![g].sup = "done"]
      marker == starters[h] = "exited"
      busy == slots[n].claim.state = "ClaimedBusy"
  IN  /\ Running /\ acts[g].sup = "giveup"
      /\ \/ /\ h = 0
            /\ acts' = heap
            /\ UNCHANGED <<claimVars, timerVars, activations, gen, starters, deactVars, diskVars,
                           lifeVars>>
         \/ /\ h # 0 /\ marker
            /\ activations' = [activations EXCEPT ![n] = 0]
            /\ acts' = [heap EXCEPT ![h] = retire(@)]
            /\ slots' = IF busy
                        THEN [slots EXCEPT ![n] = SetIdle(SetFinal(@, h))]
                        ELSE slots
            /\ UNCHANGED <<seq, dslotSeq, timerVars, gen, starters, deactVars, batch, store,
                           lifeVars>>
            /\ persistSlots(IF busy THEN {n} ELSE {})
         \/ /\ h # 0 /\ ~marker
            /\ releaseSlot(n, heap, alives)

-----------------------------------------------------------------------------
(* DEACTIVATE_CLAIM (activate.go). *)

\* doDeactivate and the reply: 413 for a running starter is stashed until the
\* starter is reaped; 403 (and 561) and 404 go on to submit evVacate.
doDeactivate(h, id, command) ==
  /\ Running /\ deacts[h].pc = "idle"
  /\ \E n \in findSlotByClaimID(id) :
       \/ /\ command = "job_done" /\ activations[n] # 0
          /\ deferredDeactivate' = [deferredDeactivate EXCEPT ![n] = h]
          /\ deacts' = [deacts EXCEPT ![h] = [pc |-> "wait", slot |-> n, hard |-> FALSE]]
       \/ /\ command # "job_done"
          /\ deacts' = [deacts EXCEPT ![h] =
                           [pc |-> "vacate", slot |-> n, hard |-> command = "forcibly"]]
          /\ UNCHANGED deferredDeactivate
  /\ UNCHANGED <<claimVars, timerVars, actVars, diskVars, lifeVars>>

\* The reply could not be flushed: the handler returns without vacating.
deactivateReplyFails(h) ==
  /\ Running /\ deacts[h].pc = "vacate"
  /\ deacts' = [deacts EXCEPT ![h] = IdleHandler]
  /\ UNCHANGED <<claimVars, timerVars, actVars, deferredDeactivate, diskVars, lifeVars>>

doVacate(h) ==
  LET g == activations[deacts[h].slot]
      hard == deacts[h].hard
      timed == ~hard /\ phase = "up"
  IN  /\ Running /\ deacts[h].pc = "vacate"
      /\ g # 0 /\ timed => acts[g].esc < MaxEsc
      /\ deacts' = [deacts EXCEPT ![h] = IdleHandler]
      /\ acts' = IF g = 0 THEN acts
                 ELSE [acts EXCEPT ![g].vacating = TRUE,
                                   ![g].vacateCh = offer(@, IF hard THEN "hard" ELSE "soft"),
                                   ![g].esc = IF timed THEN @ + 1 ELSE @]
      /\ UNCHANGED <<claimVars, timerVars, activations, gen, starters, deferredDeactivate,
                     diskVars, lifeVars>>

doVacateEscalate_AnyGen(g) ==
  LET h == activations[acts[g].slot]
      heap == [acts EXCEPT ![g].esc = @ - 1]
  IN  /\ Running /\ acts[g].esc > 0
      /\ acts' = IF h # 0 THEN [heap EXCEPT ![h].vacateCh = offer(@, "hard")] ELSE heap
      /\ UNCHANGED <<claimVars, timerVars, activations, gen, starters, deactVars, diskVars,
                     lifeVars>>

\* A max-vacate timer of activation g elapses; its event names the slot and g,
\* and is ignored unless g is still the slot's activation.
doVacateEscalate(g) ==
  LET h == activations[acts[g].slot]
      heap == [acts EXCEPT ![g].esc = @ - 1]
  IN  /\ Running /\ acts[g].esc > 0
      /\ acts' = IF h = g THEN [heap EXCEPT ![h].vacateCh = offer(@, "hard")] ELSE heap
      /\ UNCHANGED <<claimVars, timerVars, activations, gen, starters, deactVars, diskVars,
                     lifeVars>>

-----------------------------------------------------------------------------
(* Starters, as far as the startd can tell them apart. *)

\* The job ends, by itself or because it was vacated, and the starter exits.
starterExits(st) ==
  /\ starters[st] \in {"running", "vacating"}
  /\ starters' = [starters EXCEPT ![st] = "exited"]
  /\ UNCHANGED <<claimVars, timerVars, activations, gen, acts, deactVars, diskVars, lifeVars>>

\* Nobody has dialled a new process within its accept timeout: it leaves without
\* a marker.
starterAbandoned(st) ==
  /\ starters[st] = "starting"
  /\ starters' = [starters EXCEPT ![st] = "lost"]
  /\ UNCHANGED <<claimVars, timerVars, activations, gen, acts, deactVars, diskVars, lifeVars>>

\* A process starter is killed from outside.
starterKilled(st) ==
  /\ "kill9" \in Env /\ StarterMode = "process"
  /\ Alive(st)
  /\ starters' = [starters EXCEPT ![st] = "lost"]
  /\ UNCHANGED <<claimVars, timerVars, activations, gen, acts, deactVars, diskVars, lifeVars>>

-----------------------------------------------------------------------------
(* The persister's goroutine. *)

persisterFlushes ==
  /\ phase # "down" /\ P!flush
  /\ UNCHANGED <<claimVars, timerVars, actVars, deactVars, lifeVars>>

persisterCommits(n, ok) ==
  /\ phase # "down" /\ P!commit(n, ok)
  /\ ok \/ "put" \in Env
  /\ UNCHANGED <<claimVars, timerVars, actVars, deactVars, lifeVars>>

-----------------------------------------------------------------------------
(* Stop, crash and restart (startd.go, adopt.go, cmd/startd/main.go). *)

\* Stop cancels the loop's context, from which those of the match timers, the
\* ALIVE loops and the supervisors derive.  Events already submitted remain.
Stop ==
  /\ "stop" \in Env /\ restarts < MaxRestarts
  /\ phase = "up" /\ phase' = "stopping"
  /\ timers' = {t \in timers : t.fired}
  /\ alives' = {l \in alives : l.release}
  /\ acts' = [g \in Gen |-> [acts[g] EXCEPT !.cancelled = acts[g].sup # "none"]]
  /\ UNCHANGED <<claimVars, matchCancels, aliveCancels, activations, gen, starters, deactVars,
                 diskVars, restarts>>

\* The loop's select picks ctx.Done.
loopReturns ==
  /\ phase = "stopping" /\ phase' = "drain"
  /\ UNCHANGED <<claimVars, timerVars, actVars, deactVars, diskVars, restarts>>

\* The process is gone, and with it everything but the starters that are
\* processes of their own and the store.
processEnds ==
  /\ phase' = "down"
  /\ slots' = [n \in Name |-> NoSlot]
  /\ dslotSeq' = 0
  /\ matchCancels' = [n \in Name |-> 0] /\ timers' = {}
  /\ aliveCancels' = [n \in Name |-> 0] /\ alives' = {}
  /\ activations' = [n \in Name |-> 0] /\ acts' = [g \in Gen |-> NoAct]
  /\ starters' = [st \in Gen |-> IF Alive(st) /\ StarterMode = "goroutine" THEN "lost"
                                 ELSE starters[st]]
  /\ deferredDeactivate' = [n \in Name |-> 0]
  /\ deacts' = [h \in Deact |-> IdleHandler]
  /\ pending' = P!Empty /\ batch' = P!Empty
  /\ UNCHANGED <<seq, gen, store, restarts>>

\* Stop has waited for the persister's last flush.
cleanExit == phase = "drain" /\ P!Drained /\ processEnds

crash ==
  /\ "crash" \in Env /\ restarts < MaxRestarts
  /\ phase # "down" /\ processEnds

carvedRes_NoCarve(p, claimed) == FullRes(p)

\* What is left of configured slot p once the dynamic slots on record have been
\* carved out of it, without a check (reconstructDSlot).
carvedRes(p, claimed) ==
  LET dslots == {d \in claimed : IsDynamic(d) /\ ParentName(d) = p} IN
  [k \in Kinds |-> FullRes(p)[k] - MapThenSumSet(LAMBDA d : store[d].res[k], dslots)]

\* The slots prime and doAdopt build: configured slots with a fresh claim
\* (minted: those whose Mint succeeded), dynamic slots recreated from their
\* records, and the claims of the records in adopted.
AdoptedSlots(minted, claimed, adopted) ==
  LET primed(n) == [NewSlot(carvedRes(n, claimed)) EXCEPT
                      !.claim = IF n \in minted THEN Minted(seq + n[1]) ELSE NoClaim]
      built(n) == IF n \in ConfigSlots THEN primed(n)
                  ELSE IF n \in claimed THEN NewSlot(store[n].res)
                  ELSE NoSlot
      ss == [n \in Name |-> IF n \in adopted
                            THEN AdoptClaim(built(n), store[n].id, store[n].activity = "Busy")
                            ELSE built(n)]
  IN  IF Partitionable THEN refreshPSlotChildren(ss, <<1, 0>>) ELSE ss

\* The configured slots whose initial Mint succeeds.
PrimeOutcomes == IF "mint" \in Env THEN SUBSET ConfigSlots ELSE {ConfigSlots}

\* The sets of records whose session may fail to be imported.
ImportFailures == IF "import" \in Env THEN SUBSET Name ELSE {{}}

\* New, prime, Start and Adopt.  Commands are served only after Adopt, so the
\* reconstruction is one step; lost is the set of records whose session import
\* fails.
restart(minted, lost) ==
  LET claimed == {n \in Name : store[n].id # 0 /\ store[n].state = "Claimed"}
      adopted == claimed \ lost
      busy == {n \in adopted : store[n].activity = "Busy" /\ store[n].starter # 0}
  IN  /\ phase = "down" /\ restarts < MaxRestarts
      /\ seq + NumConfigured <= MaxId
      /\ lost \subseteq claimed
      /\ phase' = "up"
      /\ restarts' = restarts + 1
      /\ slots' = AdoptedSlots(minted, claimed, adopted)
      /\ seq' = seq + NumConfigured
      /\ dslotSeq' \in {m \in 0..MaxDSlots : /\ \A d \in claimed : d[2] <= m
                                             /\ m = 0 \/ <<1, m>> \in claimed}
      /\ aliveCancels' = [n \in Name |-> IF n \in adopted THEN store[n].id ELSE 0]
      /\ alives' = {[slot |-> n, claim |-> store[n].id, release |-> FALSE] : n \in adopted}
      /\ activations' = [n \in Name |-> IF n \in busy THEN store[n].starter ELSE 0]
      /\ acts' = [g \in Gen |->
                    IF \E n \in busy : store[n].starter = g
                    THEN LET n == CHOOSE m \in busy : store[m].starter = g
                         IN  NewAct(n, TRUE, store[n].addr)
                    ELSE NoAct]
      /\ UNCHANGED <<gen, matchCancels, timers, starters, deactVars, diskVars>>

-----------------------------------------------------------------------------
Init ==
  /\ phase = "up" /\ restarts = 0
  /\ \E minted \in PrimeOutcomes :
       slots = [n \in Name |->
                  IF n \in ConfigSlots
                  THEN [NewSlot(FullRes(n)) EXCEPT
                          !.claim = IF n \in minted THEN Minted(n[1]) ELSE NoClaim]
                  ELSE NoSlot]
  /\ seq = NumConfigured /\ dslotSeq = 0
  /\ matchCancels = [n \in Name |-> 0] /\ timers = {}
  /\ aliveCancels = [n \in Name |-> 0] /\ alives = {}
  /\ activations = [n \in Name |-> 0] /\ gen = 0
  /\ acts = [g \in Gen |-> NoAct] /\ starters = [st \in Gen |-> "none"]
  /\ deferredDeactivate = [n \in Name |-> 0] /\ deacts = [h \in Deact |-> IdleHandler]
  /\ pending = P!Empty /\ batch = P!Empty /\ store = P!Empty

Claiming ==
  \/ \E id \in Id : doMatchInfo(id) \/ doReleaseByClaimID(id)
  \/ \E id \in Id, ad \in JobAds : doRequestClaim(id, ad)
  \/ \E t \in timers : matchTimerFires(t) \/ doMatchTimeout(t)
  \/ \E l \in alives : aliveLoopGivesUp(l) \/ doReleaseSlot(l)

\* superviseStarter for activation g.
Supervise(g) ==
  \/ supConnects(g) \/ supGivesUp(g) \/ supReadsHello(g) \/ supReadsFinal(g)
  \/ supExits(g) \/ supRelays(g)

\* The tail of handleActivateClaim for activation g.
Reply(g) == handlerPasses(g) \/ handlerFails(g)

\* The loop takes an event that a goroutine of activation g has submitted.
Take(g) ==
  \/ doStarterHello(g) \/ doStarterFinal(g) \/ doAdoptFailed(g)
  \/ supExited(g) \/ reaperExited(g) \/ handlerExited(g)

Activating ==
  \/ \E id \in Id, ad \in JobAds : doActivateClaim(id, ad)
  \/ \E g \in Gen : \/ Supervise(g) \/ Reply(g) \/ Take(g)
                    \/ reapStarter(g) \/ backstopFires(g) \/ doVacateEscalate(g)
                    \/ starterExits(g) \/ starterAbandoned(g) \/ starterKilled(g)
  \/ \E h \in Deact, id \in Id, command \in {"graceful", "forcibly", "job_done"} :
       doDeactivate(h, id, command)
  \/ \E h \in Deact : deactivateReplyFails(h) \/ doVacate(h)

Persisting ==
  \/ persisterFlushes
  \/ \E n \in Name, ok \in BOOLEAN : persisterCommits(n, ok)

Restarting ==
  \/ Stop \/ loopReturns \/ cleanExit \/ crash
  \/ \E minted \in PrimeOutcomes, lost \in ImportFailures : restart(minted, lost)

Next == Claiming \/ Activating \/ Persisting \/ Restarting

Spec == Init /\ [][Next]_vars

\* A starter exits once it has been told to hard-vacate, or once the schedd says
\* that its job is done (413 is sent to a starter that is already exiting).
exitsWhenTold(g) ==
  /\ \/ starters[g] = "vacating"
     \/ \E h \in Deact : deacts[h].pc = "wait" /\ deacts[h].slot = acts[g].slot
  /\ starterExits(g)

\* Goroutines run, timers elapse and the loop takes what has been submitted.
\* Nothing is assumed of the schedd and the negotiator, and a job may run for ever.
Fairness ==
  /\ WF_vars(\E t \in timers : matchTimerFires(t))
  /\ WF_vars(\E t \in timers : doMatchTimeout(t))
  /\ WF_vars(\E l \in alives : doReleaseSlot(l))
  /\ \A g \in Gen : /\ WF_vars(Supervise(g)) /\ WF_vars(Reply(g)) /\ WF_vars(Take(g))
                    /\ WF_vars(reapStarter(g)) /\ WF_vars(exitsWhenTold(g))
                    /\ WF_vars(starterAbandoned(g))

FairSpec == Spec /\ Fairness
=============================================================================
