# A TLA+ development of the golang-ep execution point

golang-ep is an HTCondor execution point in Go: a `condor_startd` that offers a
machine's slots to a pool, hands them to schedds under claims and runs their jobs,
and a `condor_starter` that runs one job. This directory holds TLA+ modules of its
claim, activation and restart machinery and of the starter with its control channel,
the TLC configurations that check them on small instances, and TLAPS proofs that hold
for every size.

## 1. The system

### Parts, their state and their operations

| part | source | state | operations |
|---|---|---|---|
| event loop | `internal/startd/startd.go` | the event channel, `byName`, `activations`, cancellers; the loop is the only writer | `Submit`, `loop`, `handle`, `Start`, `Stop` |
| claiming | `internal/startd/claim.go` | match timers, ALIVE loops, dynamic-slot counter | MATCH_INFO, match timeout, REQUEST_CLAIM (static and partitionable), ALIVE, RELEASE_CLAIM |
| activation | `internal/startd/activate.go` | activation objects, stashed 413 replies | ACTIVATE_CLAIM, DEACTIVATE_CLAIM 403/404/413/561, supervisor, reaper, vacate escalation, SIGKILL backstop |
| re-adoption | `internal/startd/adopt.go` | rebuilt from the store | `doAdopt`, `reconstructDSlot`, `doAdoptFailed`, the `.exit` marker |
| slots | `internal/slot/slot.go` | state, activity, remaining resources, claim, `ChildClaimIds` | `Carve`, `Restore`, `CanCarve`, `MatchAd`, state setters |
| claims | `internal/claim/claim.go` | id, state, final report, lease | `Mint`, `Accept`, `SetBusy`, `SetIdle`, `SetFinal`, `Adopt` |
| persister and store | `startd.go`, `internal/persist/store.go` | pending map, batch being written, collection on disk | `put`, `flush`, `commit`, `Delete`, `stop` |
| starter process | `cmd/starter/main.go` | the `.exit` marker | first accept, signals, `OnFinal`, exit |
| starter run | `internal/starter/starter.go`, `exec.go` | phase of `Run`, `ctrlCh`, the job's process group, syscall connection | Activate, set-up syscalls, monitor loop, vacate, `finalize` |
| control transports | `transport_unix.go`, `transport_inproc.go` | Unix connections, the relay's two goroutines, the syscall connection on its way | dial, accept, `manage`, `pumpOutbound`, gap lease, `PassSyscallConn`, `FinishActivation`, `Close` |
| starter command server | `command_server.go` | the reconnect session, `reconnectCh` | CA_RECONNECT_JOB hand-off, `acceptReconnect` |
| advertiser, file transfer, wire readers, authorization | `internal/advertise`, `internal/starter/transfer.go`, `internal/adwire`, `cmd/startd/authz.go` | none that another part reads | I/O |

### How the parts interact

Command handlers, timers, ALIVE loops, supervisors and reapers run in goroutines of
their own and talk to the loop through events. Nearly every event names only a
*slot*, so what it is applied to is whatever claim or activation the slot has when
the loop takes it. The loop replies through channels; a DEACTIVATE_CLAIM handler
replies to its peer first and submits the vacate afterwards. A process starter
outlives the startd: a restarted startd rebuilds its claims from the store and dials
the starters' sockets again.

Between the supervisor and `Run` lies a chain of goroutines and buffers: supervisor,
Unix connection, `manage`, pipe, control reader, `ctrlCh`, `Run`; and back through
`pumpOutbound`. When the startd goes away the relay keeps the chain's starter half
alive for the gap lease. The ACTIVATE_CLAIM connection travels beside it, as a pointer
through a channel or as a descriptor through the Unix socket, and becomes `Run`'s
syscall connection; a shadow that lost it brings another one to the command server.

### What is hard here

Late events meeting newer claims and activations; two or three goroutines reporting
one end; timers that outlive what they were started for; a one-place vacate channel;
records queued behind a synchronous delete; Stop, which cancels the loop and the
supervisors at once; crashes between a transition and its record; resource
accounting over carve, destroy and re-adoption; a control channel that breaks at any
point and may come back; a connection that several goroutines may close, or none; a
wind-down that must end although startd or shadow do not answer. `PROJECT.json` lists these hazards
with the line where each one bites and the properties that would notice.

## 2. The modules

| module | models | notes |
|---|---|---|
| `Slot` | `slot.go`, `claim/claim.go`, `requestedResources` | pure operators: resources, ads, slots, claims |
| `Persister` | `persister` and `Store` | three variables, `put`, `flush`, `commit`, `Delete` |
| `Startd` | the loop with its goroutines, the starters as the startd sees them, Stop, crash and restart | extends `Slot`, instantiates `Persister` |
| `ClaimLifecycle` | what a startd with static slots promises about a claim id | abstract specification, no code of its own |
| `StartdProperties` | the properties, and the refinement mapping to `ClaimLifecycle` | |
| `MCStartd` | machines and ads for TLC | |
| `StartdProofs` | type correctness and the effect of each action | TLAPS |
| `StartdSafety` | slot, claim, activation and lease stay in step | TLAPS |
| `StartdHandlers` | only what was asked to vacate is vacated; the records that claiming and releasing queue | TLAPS |
| `StartdRecords` | the newest record of a claim is right | TLAPS |
| `StartdDivision` | how the steps divide the machine; the list of children; sums of a resource | TLAPS |
| `StartdResources` | the resources add up and are never overcommitted | TLAPS |
| `StarterRun` | `Run`, its control reader, the job's process group, the reconnect hand-off | `starter.go`, `exec.go`, `command_server.go` |
| `Relay` | the Unix connections and the relay of a process starter | `transport_unix.go` |
| `Handoff` | the way of the syscall connection, in both modes | `transport_inproc.go`, `transport_unix.go` |
| `Starter` | one activation from both sides: supervisor, loop, the three modules above, the starter's main | extends `StarterRun`, `Relay`, `Handoff` |
| `StarterLife` | what the startd may rely on about a starter | abstract specification, no code of its own |
| `StarterProperties` | the properties, and the refinement mapping to `StarterLife` | |
| `StarterProofs` | what `Run` leaves behind; type correctness | TLAPS |
| `StarterChannel` | what arrives over the control channel, and in which order | TLAPS |

`Startd` has many activations and keeps of each starter one word, which moves as
`StarterLife` says (checked as `StartersLive`). `Starter` has one activation in full
and implements `StarterLife` (checked as `StarterLifeSpec`, its safety part proved). So
what `Startd` assumes of its starters is what the starter does.

A definition named `Op_Variant` is a deliberately wrong `Op`. No other definition
uses it; it records a mistake that some property is known to notice.

### State of `Startd`

| variable | code |
|---|---|
| `slots` | `Core.byName` with `LiveSlots`; each slot's state, activity, resources, claim and `ChildClaimIds` |
| `seq`, `dslotSeq` | `Minter.seq`, `Core.dslotSeq` |
| `matchCancels`, `aliveCancels` | the canceller maps, each holding the claim id of the goroutine it would cancel |
| `timers`, `alives` | the match-timer and ALIVE goroutines; `fired`, `release`: the event is submitted |
| `activations`, `gen`, `acts` | `Core.activations`, `activationGen`, and the heap of activation objects, which outlive their map entry |
| `starters` | each starter: waiting to be dialled, running, told to hard-vacate, ended with or without a marker |
| `deferredDeactivate`, `deacts` | stashed 413 replies, and the DEACTIVATE_CLAIM handlers |
| `pending`, `batch`, `store` | the persister and the store |
| `phase`, `restarts` | running, Stop under way, draining, down |

### Actions of `Startd`

A loop handler is one action with the handler's name, and it includes the trailing
`persistSlot`. The supervisor is `supConnects`, `supGivesUp`, `supReadsHello`,
`supReadsFinal`, `supExits`, `supRelays`; its submitted events are taken by
`doStarterHello`, `doStarterFinal`, `supExited` and `doAdoptFailed`. The reaper is
`reapStarter` and `reaperExited`; the tail of `handleActivateClaim` is
`handlerPasses`, `handlerFails`, `handlerExited`. `Stop`, `loopReturns`, `cleanExit`,
`crash` and `restart` are the life of the process.

### State and actions of `Starter`

| variables | code |
|---|---|
| `pc`, `vacated`, `report`, `late`, `onFinal` | what `Run` is blocked in, and what it knows of the outcome |
| `ctx`, `pipe`, `ctrlCh`, `ctrlOpen` | `Run`'s context, the control pipe, the channel behind its reader |
| `job`, `strays`, `signal` | the job's process group: leader, other members, strongest signal sent |
| `session`, `reconnectCh`, `handlers`, `peer`, `socket`, `streams` | command server, its handlers, the shadow being accepted, `sysSt`, the open connections |
| `dialled`, `conns`, `accepted`, `current`, `manage`, `pump`, `target`, `expired` | the Unix connections, and the relay's two goroutines |
| `mode`, `handler`, `refs`, `closed` | STARTER_MODE, the tail of ACTIVATE_CLAIM, and who holds the syscall connection |
| `sup`, `adopted`, `mapped`, `heard`, `told`, `armed`, `gaps` | the supervisor and what the loop knows of the activation |
| `proc`, `marker` | the starter's process and its `.exit` marker |

`sup...` are the steps of `superviseStarter`; `loop...` what the event loop does to the
activation; `startdLeaves` and `startdReturns` a stop or crash and the re-adoption;
`relay...` the goroutines `manage` and `pumpOutbound`; `run...` the goroutine of `Run`,
whose steps in `StarterRun` are named after the function, the syscall or the case of the
select they model. A syscall of `Run` is one step that ends it, as success or failure.

### Modelling decisions


- **Events without a queue.** An event a goroutine has submitted is that goroutine's
  control state until the loop takes it. A goroutine's events are taken in the order
  it submitted them; events of different goroutines in any order, as goroutines that
  race for one channel can produce. A command arrives and is handled in one step,
  because its handler reads no loop state before it submits. Events that `Submit`
  drops when the channel is full are not modelled.
- **After Stop** the loop's `select` may still take events before it sees the
  cancellation. So handlers are enabled in phase `stopping`, and timers and loops
  started there never fire.
- **Activation numbers.** An activation and its starter share a number. A re-adopted
  activation takes its starter's number where the code counts afresh in a new process.
- **Claim ids** are numbers in minting order and never repeat, also over restarts,
  since the code's ids contain the process's birth time beside the sequence number.
- **Ads** are records. A missing attribute makes Requirements undefined, which counts
  as a rejection, as in the code.
- **The conversion of a record** to its ClassAd and back keeps every field the model
  has, so a record is stored as it is.
- **`Adopt` is one step**, because commands are served only after it.
- **A starter that was never dialled** ends without a marker (`starterAbandoned`); a
  starter that ran leaves one unless it is killed, which also stands for a marker that
  could not be written.
- **A message of `Run`** is sent when the other end of the pipe reads it, as with
  `net.Pipe`; a Unix connection buffers `SockCap` messages each way.
- **Closing.** What the startd wrote before it hung up can still be read; what was
  written to it is gone. A connection that `readConn` gives up is left open, as in the
  code. `pumpOutbound` picks the connection for a message under the lock (`target`) and
  writes later: in between the connection may break and another one be accepted.
- **`finalize`** may run out of time at any point; cedar's writes fail once their context
  has ended.
- **The startd's reader goroutine** is taken together with the supervisor: a message it
  has read ahead is still in the connection.
- **A vacate** is sent on at most once per kind (`told`).
- **Writing the marker** succeeds. Suspend and Continue are left out: no startd sends
  them.
- **Left out because no property depends on it**: lease arithmetic (an ALIVE loop may
  give up at any time when `"lease"` is in `Env`), update ads, the schedd's identity,
  the advertising at the end of handlers, changes of configuration over a restart.

## 3. What the runs check

The runs of the startd use `MCStartd`, those of the starter `StarterProperties`. An idle
startd, and a starter that has ended, are legitimate final states, so deadlock is not
checked. `Env` names what the environment may do besides the usual commands.

| run | instance | properties |
|---|---|---|
| `matching` | two static slots, 4 claim ids | `TypeOK`, `LeaseExact`, `ClaimLifecycleSpec`, `MatchResolved`, `LeaseLossReleases` |
| `activation` | one slot, one process starter that may be killed | `BusyIffActivation`, `NoWedge`, `DeathNoticed`, `HardVacateEnds`, `DeferredAnswered`, `StartersLive` |
| `reactivation` | one slot, two process starters, one escalation timer each | `VacateOnlyAsked` |
| `carving` | partitionable, up to three dynamic slots in turn, two at a time, with the persister under way and failing mints | `Conservation`, `NotOvercommitted`, `ChildrenExact`, `PersistedCurrent` |
| `restart` | a process starter, Stop at any point, one restart | `PersistedCurrent`, `BusyIffActivation`, `NoWedge`, `ClaimLifecycleSpec` |
| `restart_pslot` | dynamic slots carved and destroyed in turn, a crash at any point, lost leases, failing writes and imports | `Conservation`, `ChildrenExact`, `LeaseExact` |
| `startd_gap` | one activation, both modes; a startd that dies at any point and may redial, hard vacates, updates | `TypeOK`, `GapKeepsJob`, `HeldInFlight`, `FinalFirst`, `StarterLifeSpec`, `AbandonedStarterEnds`, `JobEndNoticed`, `ReattachAnswered` |
| `wind_down` | one activation, both modes; releases, signals, lost descriptors | `NoStray`, `MarkerTruthful`, `ConnReleased` |
| `reconnect` | a process starter, two shadows that reconnect, soft vacates | `SyscallSocket`, `NoLeakedStream`, `HandoffAnswered` |

The passing runs show that slot, claim and activation stay in step although events
address slots by name, that resources add up, that each claim has exactly its own
lease, that the records keep up with the claims, and that a static slot's claim id, once
retired, is never honoured again over clean restarts. On the starter's side they show that a gap
alone never costs a job its life, that nothing of the job and no connection is left
behind on any way out, that the reports agree with what happened, and that every wait
ends.

After a *crash* a claim that had just been released may come back from the store; this is
why `restart` has no crash. Of a *dynamic* slot a released claim may come back even after
a clean Stop, which is why `ClaimLifecycleSpec` is stated and checked for static slots
only. The comment at `claim.go:624` has `destroyDSlot` drop the slot from the persistent
store; it does, but a record of the slot that is still pending, or in the batch being
written, is stored after the delete, and the next startd rebuilds the slot as Claimed
with the old id. `restart_pslot` contains such slots, and shows that the resources and
the list of children count them like any other.

The other runs show where a comment promises more than the code does. Each has an
entry under `findings` that quotes the comment.

| run | property | what TLC finds |
|---|---|---|
| `stale_exit` | `ExitedIsIdempotent` | the second Exited of an activation ends the slot's next one |
| `stop_race` | `StopKeepsJobs` | during Stop a running job's slot is recorded as Idle |
| `orphaned_job` | `KillEndsJob` | after a release the relay takes the closed channel for a startd gap; the backstop kills the starter and not the job |

### Bounds

`MaxId`, `MaxDSlots`, `MaxGen`, `MaxDeact`, `MaxEsc` and `MaxRestarts` are guards of
the actions that would exceed them. Interference needs an old and a new owner of one
slot: two claim ids or two starters suffice for that, three or four ids let a slot be
released and claimed again afterwards, and one restart with a record of each kind
covers re-adoption. The agreement of slot, claim and activation with several slots and
starters, and in goroutine mode, is left to the proofs. `MatchResolved` and
`LeaseLossReleases` are stated up to the exhaustion of `MaxId`, since a release mints an
id. `carving` uses a job whose
override exceeds its request, so that `CanCarve` is what rejects it. `matching` uses
only acceptable jobs: `doRequestClaim` cancels the match timer before it evaluates
Requirements, so a rejected request leaves its slot Matched with no timer and
`MatchResolved` would not hold. In `restart_pslot` two dynamic slots fit; three are
rebuilt together only when one of them had been destroyed and its record was still
under way, and the parent's remainder is then negative and still adds up.

In the starter's runs `CtrlCap` (8 in the code) and `SockCap` are 1: one message more
than a buffer holds is enough for its writer to block, and a chain of five one-place
buffers already holds more messages than the startd sends. `MaxGaps` is 1 and `MaxDials`
one more than it: a first connection and one redial. Two shadows compete for the
one-place `reconnectCh`. The safety properties are proved for all values.

### Fairness

`Startd!FairSpec` assumes weak fairness of what the Go scheduler and the operating system
deliver: match timers fire, the loop takes what was submitted, supervisors, reapers
and ACTIVATE_CLAIM handlers make progress, an undialled starter times out. It assumes
that a starter ends once it was told to hard-vacate, which is `StarterLife`, or
once the schedd has said that the job is done, 413 being sent to a starter that is
already exiting. Nothing is assumed of schedds, negotiator or lease failures, and a
job may run for ever.

`Starter!FairSpec` assumes that goroutines run and timers elapse; that a job ends once it
was sent SIGKILL; that a shadow answers a syscall or its connection breaks, since `Run`'s
syscalls have no timeout of their own before `finalize` (with a shadow that does neither,
a starter in `register_job_info` hears no vacate, and `StarterLifeSpec` would not hold); and strong fairness of the
monitor loop's cases other than the ticker, since Go's select chooses at random among
those that are ready. Nothing is assumed of the job, of vacates, or of the startd's
coming back. `StarterLifeSpec` counts a starter as told to vacate once it has its syscall
connection: before that `Run` waits in `SyscallConn` and takes no control message.

## 4. What is proved

### The startd

The constants are assumed to be what `StartdAssumption` says: natural bounds, positive
resources, integer requests, and enough ids for the configured slots. Mint failures,
kills, crashes, any number of slots and restarts are covered unless excluded below.

- `StartdProofs!TypeCorrect`: `Spec => []TypeOK`. Every action has a lemma that gives
  `TypeOK'` and the action's *effect*, a short relation on the variables the safety
  proofs look at. `NextEffect` says that every step is one of these effects.
- `StartdSafety!NeverWedged`: `Spec => []NoWedge`. `NoWedge` alone is not inductive:
  after a restart two records that name one starter would give it two slots and one
  supervisor. The invariant adds `OneSlotPerStarter`: a starter is referred to by at
  most one slot among `activations`, `pending`, `batch` and `store`.
- `StartdSafety!BusyCorrect`: `BusyIffActivation`, assuming that mints succeed and
  that either starters are processes or there is no store. Both assumptions are
  needed: a failed mint leaves a claimed claim on an unclaimed slot, and a Busy record
  of a goroutine starter, which names no socket, is adopted as Busy with nothing running.
  The invariant adds that every Busy record names
  a starter to redial.
- `StartdSafety!LeaseCorrect`: `LeaseExact`, assuming that mints succeed. The invariant
  adds that a loop which has not given up, and the canceller of a slot, belong to the
  slot's present claim, so that a release stops the right loop.
- `StartdHandlers!NeverVacatedUnasked`: `VacateOnlyAsked`, without assumptions. The
  invariant `VacateInv` adds the max-vacate timers: a timer's message comes later than
  the request it belongs to, so an activation with a timer must already be vacating. That
  a message does not reach a later activation of the slot rests on `NoWedge`.
- `StartdRecords!RecordsCurrent`: `PersistedCurrent`, assuming that no Put fails, with
  crashes, failing mints and failing imports. The assumption is needed: a Put that fails
  is logged and not repeated, and its record is gone. Three things make the invariant
  inductive. `HeldBusy`: an activation in the map belongs to a live slot with a Busy
  claim; otherwise `doStarterExited` and `doStarterHello` could change a record without
  queueing it. `SoundRecords`: a record names a starter only for a Busy claim and its
  address only with the starter, so that re-adoption gives back what was recorded; with
  `OneSlotPerStarter` the address is also the right starter's. And a Claimed slot has a
  claim id, without which `persistSlot` skips it.
- `StartdDivision!ChildrenCorrect`: `ChildrenExact`, without assumptions. `DynInv` is
  needed for it: a match timeout mints a new claim and does not refresh the list, which is
  harmless only because a dynamic slot is never Matched.
- `StartdResources!ResourcesConserved`: `Conservation`, assuming that no job ad asks for
  a negative amount (`RequestsNatural`). The assumption is needed: `requestedResources`
  raises only Cpus, and a dynamic slot with a negative amount of Memory would make
  `Restore`'s clamp swallow what another one gives back. The invariant adds that the
  dynamic slots and all records, on whatever way to the store, hold natural amounts
  (`Carvings`, `RecordedAmounts`), and that the next dynamic slot holds nothing yet. Then
  the clamp never bites and a restart carves out exactly what it gives to the dynamic
  slots.
- `StartdResources!NeverOvercommitted`: `NotOvercommitted`, under the same assumption, for
  static slots always and for a partitionable slot until the first restart. A restarted
  startd carves the recorded slots without a check, and the record of a destroyed slot may
  still have been under way when the old one died.

The proofs of `StartdSafety` go effect by effect. `VacateOnlyAsked` is about fields the
effects do not mention and is proved action by action, and so is which record a handler
queues (`Settled`). The resources have effects of their own: a step leaves the division
of the machine alone, carves, destroys, ends the process or rebuilds (`Divisions`).
`StartdDivision` also proves what is needed of the library's `MapThenSumSet`: that its
recursive function exists, and what one changed summand or summands of zero do to the sum. Each of its inductions takes a smallest set that is a
counterexample, from the library's theorem that strict inclusion of finite sets is
well-founded.

### The starter

The constants are assumed to be what `RunAssumption`, `RelayAssumption` and
`GapsAssumption` say: natural capacities and bounds, and names that differ. The proofs
first say once what a step does to each group of variables (`StepKinds` for `Run`,
`RelayKinds` for the connections, `HandoffMoves` for the syscall connection,
`StartdMoves`, `ProcSteps`); each invariant is then shown over these few kinds.

- `StarterProofs!NothingLeft` and `MarkerCorrect`: `NoStray` and `MarkerTruthful`. The
  invariant `OutcomeInv` says for every place of `Run` whether there is a job, whether its
  group has been killed, and what the reason may be.
- `SyscallsAreHeard` and `NoStreamLeaks`: `SyscallSocket` and `NoLeakedStream`, from
  `SocketInv`, which says of each shadow whose hands its connection is in between offer,
  ack and reply.
- `TypeCorrect`: `TypeOK`, from `RelayInv` (connections are accepted in the order of the
  dials, the relay serves one that was accepted, and the pump has picked a connection
  only while it holds a message).
- `StarterChannel!GapIsHarmless`: `GapKeepsJob`. `GapInv` adds that while nothing was told to vacate no
  vacate is anywhere in the chain, and that the pipe of a running process starter is
  closed only by the lease or by `Run` itself.
- `FlightIsSafe`: `HeldInFlight`. `HandInv` adds that a starter whose descriptor is in
  flight has sent nothing, and that what was sent on its connection is on its way.
- `OutcomeComesFirst`: `FinalFirst`. `OrderInv` says that Run, pump, connection and
  supervisor hold the messages in the order in which they were sent, so that an Exited has
  a Final before it, read or still to be read.
- `StarterLifeImplemented`: the detailed starter's steps are steps of `StarterLife`
  or stutters, under the mapping `Phase`.

### Only model-checked

Liveness, and with it the fairness part of both refinements; the refinement of
`ClaimLifecycle` by static slots; `NotOvercommitted` of a partitionable slot after a
restart, which does not hold (`carving`, where it is checked, has no restart).

## 5. Not modelled

- Lease lengths and ALIVE periods: an ALIVE loop may give up at any time, which contains
  whatever the arithmetic does.
- The bound of the event queue. `Submit` drops what does not fit and nothing repeats it,
  so a dropped evStarterExited wedges its slot; every property here is about a queue that
  is not full.
- The contents of ads, job arguments, environment and messages, and their encoding. The
  code that builds them is sequential and keeps no state.
- File transfer: a sequential exchange with the shadow through a library. `Run` is told
  that it succeeded or failed, and that is in `StarterRun`.
- Advertising, the ClassAd reader, authorization, resource and version detection: I/O, or
  constants of the model.
- `evStarterUpdate`, `evLocateStarter` and the query commands, which change nothing that
  another part acts on.
- Changes of configuration over a restart.

## 6. Running it

    tlc -workers 2 -config Matching.cfg MCStartd
    tlc -workers 2 -config StartdGap.cfg StarterProperties
    tlapm StartdProofs.tla
    tlapm StartdRecords.tla
    tlapm StartdResources.tla
    tlapm StarterChannel.tla

Each run takes about a minute, each proof module up to twenty.
