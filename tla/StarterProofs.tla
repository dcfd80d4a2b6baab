---------------------------- MODULE StarterProofs ----------------------------
(***************************************************************************)
(* Safety of one activation, for every set of shadows, capacity, number of *)
(* connections and set of faults, in both starter modes.                   *)
(*                                                                         *)
(* Most of the actions of Starter.tla leave Run alone.  StepKinds sorts    *)
(* the steps by what they do to Run's variables, once; each invariant is   *)
(* then shown to be preserved kind by kind.                                *)
(***************************************************************************)
EXTENDS StarterProperties, TLAPS

-----------------------------------------------------------------------------
(* The kinds of steps, as Run sees them. *)

\* Run itself, before its job starts and after it has ended.
Straight ==
  \/ awaitActivate \/ (syscallConn /\ takeSyscallConn) \/ syscallConnFails
  \/ setupStep(Process /\ Shadows # {})
  \/ setupFails \/ startJob \/ (\E m \in Outbound : sends(m)) \/ sendFails \/ finalizeExpires
  \/ tellShadow \/ upload \/ runReturns

\* Run in its monitor loop, and the job.
Monitoring ==
  \/ monitorGivesUp \/ monitorMessage \/ monitorTick \/ reaped \/ jobExits

\* The reconnect handlers, and Run's part in a reconnect.
Reconnecting ==
  \/ monitorReconnect \/ acceptReconnect \/ abandonReconnect
  \/ \E s \in Shadows : handleCACmd(s) \/ handlerGivesUp(s) \/ handlerReplies(s)

Vacates == {"VacateSoft", "VacateHard"}

\* The control reader, and what closes the pipe or cancels the context from
\* outside.
ControlStep ==
  /\ UNCHANGED <<pc, transfer, endVars, jobVars, reconnectVars>>
  /\ \/ UNCHANGED ctrlVars \/ readerEnds
     \/ \E m \in {"Activate", manage} \cup told' : reads(m) /\ m \in Inbound \ {"SyscallConnFollows"}
     \/ /\ UNCHANGED <<ctrlCh, ctrlOpen>> /\ ctx' \in {ctx, TRUE}
        /\ pipe' = pipe \/ (pipe' = FALSE /\ (ctx' \/ expired'))

\* The starter is accepted, exits or is killed.
ProcessStep ==
  /\ proc' # "listening"
  /\ UNCHANGED <<ctrlVars, transfer, endVars, jobVars, peer, socket>>
  /\ \/ /\ pc = "idle" /\ pc' = "activate" /\ proc' = "running" /\ manage' = "read"
        /\ UNCHANGED reconnectVars
     \/ /\ pc' = "killed" \/ (pc' = pc /\ pc \in {"done", "idle"})
        /\ streams' = {} /\ session' = FALSE /\ reconnectCh' = None
        /\ handlers' = [s \in Shadows |-> IF handlers[s] \in {"offered", "acked"} THEN "failed"
                                          ELSE handlers[s]]

\* Run starts with the acceptance of the first connection.
Listening == proc = "listening" => pc = "idle" /\ socket = None

\* The set-up of Run before the job, spelled out.
LEMMA SetupFacts ==
  /\ DOMAIN Setup = {"get_job_info", "register", "prepare"}
  /\ Setup["get_job_info"] = "hello" /\ Setup["register"] = "prepare"
  /\ Setup["prepare"] = "startJob"
BY DEF Setup

\* The syscalls whose result Run only logs, spelled out.
LEMMA ToldFacts ==
  /\ DOMAIN Told = {"register_job_info", "job_termination", "job_exit"}
  /\ Told["register_job_info"] = "monitor" /\ Told["job_termination"] = "job_exit"
  /\ Told["job_exit"] = "final"
BY DEF Told

\* The messages of Run to the startd and what follows each, spelled out.
LEMMA MessageFacts ==
  /\ DOMAIN Message = {"hello", "executing", "rehello", "update", "final", "exited"}
  /\ AfterSend["hello"] = "register" /\ AfterSend["executing"] = "monitor"
  /\ AfterSend["rehello"] = "monitor" /\ AfterSend["update"] = "register_job_info"
  /\ AfterSend["final"] = "exited" /\ AfterSend["exited"] = "return"
  /\ Message["hello"] = "Hello" /\ Message["executing"] = "Hello"
  /\ Message["rehello"] = "Hello" /\ Message["update"] = "Update"
  /\ Message["final"] = "Final" /\ Message["exited"] = "Exited"
BY DEF Message, AfterSend

\* Every step is, for Run and its job, of one of five kinds.
LEMMA StepKinds ==
  ASSUME Listening, Next
  PROVE  Straight \/ Monitoring \/ Reconnecting \/ ControlStep \/ ProcessStep
<1> DEFINE Goal == Straight \/ Monitoring \/ Reconnecting \/ ControlStep \/ ProcessStep
<1>1. UNCHANGED starterVars => Goal
  BY DEF starterVars, ControlStep, runVars
<1>2. \A m \in {"Activate", manage} \cup told' : reads(m) /\ m \in Inbound \ {"SyscallConnFollows"} => Goal
  BY DEF reads, ControlStep
<1>3. Supervise => Goal
  <2>1. supConnects \/ supEnds \/ supReattaches \/ supTakesConn \/ supSendsConn \/ supKeepsCopy
          => UNCHANGED starterVars
    BY Zenon DEF supConnects, supEnds, supReattaches, supTakesConn, supSendsConn, supKeepsCopy
  <2>2. supActivates => Goal
    BY <1>1, <1>2 DEF supActivates, Inbound
  <2>3. ASSUME NEW m \in Outbound, supReads(m)
        PROVE  Goal
    BY <1>1, <2>3 DEF supReads, Straight
  <2>4. QED
    BY <1>1, <2>1, <2>2, <2>3 DEF Supervise
<1>4. handlerPasses \/ startdLeaves \/ startdReturns => Goal
  BY <1>1 DEF handlerPasses, startdLeaves, startdReturns
<1>5. dropsActivation => Goal
  BY Zenon DEF dropsActivation, ControlStep
<1>6. loopWindsDown \/ loopKills => Goal
  BY <1>5 DEF loopWindsDown, loopKills
<1>7. backstopFires => Goal
  <2>1. CASE Up
    BY <2>1 DEF backstopFires, processGone, ProcessStep
  <2>2. CASE ~Up
    BY <2>2 DEF backstopFires, ControlStep
  <2>3. QED
    BY <2>1, <2>2
<1>8. \A m \in Vacates : supVacates(m) => Goal
  BY <1>1, <1>2 DEF supVacates, Inbound, Vacates
<1>9. Manage => Goal
  <2>1. relayServes => Goal
    BY <1>1, <1>2, Zenon DEF relayServes, forwarded
  <2>2. relayLosesConn => Goal
    BY <1>1 DEF relayLosesConn
  <2>3. gapLeaseElapses => Goal
    BY DEF gapLeaseElapses, leaseElapses, ControlStep
  <2>4. QED
    BY <2>1, <2>2, <2>3 DEF Manage
<1>10. relayPumps => Goal
  BY <1>1 DEF relayPumps, Straight
<1>11. Main => Goal
  <2>1. starterAccepts => Goal
    BY DEF starterAccepts, accept, Listening, ProcessStep, reconnectVars
  <2>2. starterAbandoned => Goal
    BY DEF starterAbandoned, Listening, ProcessStep, processGone, runVars
  <2>3. mainExits => Goal
    BY DEF mainExits, ProcessStep, processGone, runVars
  <2>4. runTakesConn \/ runStep \/ runAccepts \/ expire \/ runEnds => Goal
    BY DEF runTakesConn, runStep, runAccepts, expire, runEnds, Straight, Reconnecting
  <2>5. QED
    BY <2>1, <2>2, <2>3, <2>4 DEF Main
<1>12. runMonitors \/ tick \/ jobEnds => Goal
  BY DEF runMonitors, tick, jobEnds, Monitoring, Reconnecting
<1>13. readerStep \/ signalled => Goal
  BY Zenon DEF readerStep, readerEnds, signalled, ControlStep
<1>14. shadowReconnects \/ handlerSteps => Goal
  BY DEF shadowReconnects, handlerSteps, Reconnecting
<1>15. QED
  BY <1>3, <1>4, <1>6, <1>7, <1>8, <1>9, <1>10, <1>11, <1>12, <1>13, <1>14 DEF Next, Vacates

\* A starter that has been accepted is not waiting to be accepted again.
LEMMA ProcMoves ==
  Next /\ proc' = "listening" => proc = "listening"
<1>1. UNCHANGED procVars => UNCHANGED proc
  BY DEF procVars
<1>2. Supervise => UNCHANGED proc
  BY <1>1, Zenon DEF Supervise, supConnects, supEnds, supActivates, supReattaches, supTakesConn,
                     supSendsConn, supKeepsCopy, supReads
<1>3. /\ handlerPasses \/ loopWindsDown \/ loopKills => UNCHANGED proc
      /\ startdLeaves \/ startdReturns => UNCHANGED proc
      /\ \A m : supVacates(m) => UNCHANGED proc
  BY <1>1 DEF handlerPasses, loopWindsDown, loopKills, startdLeaves, startdReturns, supVacates
<1>4. backstopFires => UNCHANGED proc \/ proc' = "lost"
  BY DEF backstopFires
<1>5. Manage \/ relayPumps => UNCHANGED proc
  BY <1>1, Zenon DEF Manage, relayServes, relayLosesConn, gapLeaseElapses, relayPumps
<1>6. Main => UNCHANGED proc \/ proc' # "listening"
  BY <1>1 DEF Main, starterAccepts, starterAbandoned, runTakesConn, runStep, runAccepts, expire,
              runEnds, mainExits
<1>7. runMonitors \/ readerStep \/ tick \/ jobEnds \/ signalled => UNCHANGED proc
  BY <1>1 DEF runMonitors, readerStep, tick, jobEnds, signalled
<1>8. shadowReconnects \/ handlerSteps => UNCHANGED proc
  BY <1>1 DEF shadowReconnects, handlerSteps
<1>9. QED
  BY <1>2, <1>3, <1>4, <1>5, <1>6, <1>7, <1>8 DEF Next

\* Run does not start before ListenStarter has accepted a connection.
LEMMA ListeningNext ==
  ASSUME Listening, [Next]_vars
  PROVE  Listening'
<1>1. CASE UNCHANGED vars
  BY <1>1 DEF Listening, vars, procVars, starterVars, runVars, reconnectVars
<1>2. ASSUME Next, proc' = "listening"
      PROVE  pc' = "idle" /\ socket' = None
  <2>1. pc = "idle" /\ socket = None
    BY <1>2, ProcMoves DEF Listening
  <2>2. Straight => FALSE
    BY <2>1, SetupFacts, ToldFacts, MessageFacts
       DEF Straight, awaitActivate, syscallConn, syscallConnFails, setupStep, setupFails, startJob,
           sends, sendFails, finalizeExpires, tellShadow, upload, runReturns
  <2>3. Monitoring => UNCHANGED <<pc, socket>>
    BY <2>1 DEF Monitoring, monitorGivesUp, monitorMessage, monitorTick, reaped, jobExits, runVars,
                reconnectVars
  <2>4. Reconnecting => UNCHANGED <<pc, socket>>
    BY <2>1 DEF Reconnecting, monitorReconnect, acceptReconnect, abandonReconnect, handleCACmd,
                handlerGivesUp, handlerReplies, runVars
  <2>5. ControlStep => UNCHANGED <<pc, socket>>
    BY DEF ControlStep, reconnectVars
  <2>6. ~ProcessStep
    BY <1>2 DEF ProcessStep
  <2>7. QED
    BY <1>2, <2>1, <2>2, <2>3, <2>4, <2>5, <2>6, StepKinds
<1>3. QED
  BY <1>1, <1>2 DEF Listening

\* A starter begins before Run does.
LEMMA InitListening == Init => Listening
BY DEF Init, RunInit, Listening

-----------------------------------------------------------------------------
(* What Run leaves behind, and what it says of it. *)

BeforeJob == {"idle", "activate", "conn", "get_job_info", "hello", "register", "prepare", "startJob"}

WithJob == {"executing", "monitor", "accept", "rehello", "update", "register_job_info", "reap"}

Finalizing == {"job_exit", "final", "exited"}

\* What reason r says is so.
Truthful(r) ==
  /\ r \in {"not_started", "exec_failed"} => job = None
  /\ r \in {"exited", "hold"} => job = "reaped" /\ ~vacated
  /\ r = "killed" => job # None /\ vacated

\* The reason is fixed when the loop has been left and the job can no longer be
\* told to go; what OnFinal was called with is that reason, and where it has not
\* been called Run never got to its job.
OutcomeInv ==
  /\ pc \in PCs
  /\ NoStray /\ (job = None => ~strays)
  /\ pc \in BeforeJob => job = None
  /\ pc \in WithJob => job # None
  /\ pc \in BeforeJob \cup WithJob => report = None
  /\ pc = "reap" => vacated
  /\ pc \in {"upload", "job_termination"} => report \in {"exited", "hold"}
  /\ pc \in Finalizing => report # None
  /\ onFinal # None => onFinal = report /\ pc \in {"return", "done", "killed"}
  /\ pc \in {"return", "done"} /\ onFinal = None => job = None
  /\ marker # None => pc \in {"done", "killed"}
  /\ Truthful(report) /\ Truthful(marker)

\* No job, no outcome and no marker at first.
LEMMA InitOutcome == Init => OutcomeInv
BY DEF Init, RunInit, OutcomeInv, NoStray, Truthful, PCs, BeforeJob, WithJob, Finalizing, None

\* main writes the marker after Run has returned, from what OnFinal was called with.
MarkerStep ==
  /\ pc = "done" /\ UNCHANGED <<pc, vacated, report, onFinal, jobVars>>
  /\ marker' = IF onFinal = None THEN "not_started" ELSE onFinal

\* Only the end of the starter's main writes the marker.
LEMMA MarkerMoves ==
  Next => marker' = marker \/ MarkerStep
<1>1. UNCHANGED procVars => UNCHANGED marker
  BY DEF procVars
<1>2. Supervise => UNCHANGED marker
  BY <1>1, Zenon DEF Supervise, supConnects, supEnds, supActivates, supReattaches, supTakesConn,
                     supSendsConn, supKeepsCopy, supReads
<1>3. /\ handlerPasses \/ loopWindsDown \/ loopKills => UNCHANGED marker
      /\ startdLeaves \/ startdReturns \/ backstopFires => UNCHANGED marker
      /\ \A m : supVacates(m) => UNCHANGED marker
  BY <1>1 DEF handlerPasses, loopWindsDown, loopKills, startdLeaves, startdReturns, supVacates,
              backstopFires
<1>4. Manage \/ relayPumps => UNCHANGED marker
  BY <1>1, Zenon DEF Manage, relayServes, relayLosesConn, gapLeaseElapses, relayPumps
<1>5. Main => UNCHANGED marker \/ MarkerStep
  BY <1>1 DEF Main, starterAccepts, starterAbandoned, runTakesConn, runStep, runAccepts, expire,
              runEnds, mainExits, MarkerStep, runVars, endVars
<1>6. runMonitors \/ readerStep \/ tick \/ jobEnds \/ signalled => UNCHANGED marker
  BY <1>1 DEF runMonitors, readerStep, tick, jobEnds, signalled
<1>7. shadowReconnects \/ handlerSteps => UNCHANGED marker
  BY <1>1 DEF shadowReconnects, handlerSteps
<1>8. QED
  BY <1>2, <1>3, <1>4, <1>5, <1>6, <1>7 DEF Next

\* A step of Run outside its loop.
LEMMA OutcomeStraight ==
  ASSUME OutcomeInv, Straight, marker' = marker
  PROVE  OutcomeInv'
<1> USE DEF OutcomeInv, NoStray, Truthful, PCs, BeforeJob, WithJob, Finalizing, None, endVars,
            jobVars, ctrlVars
<1> USE SetupFacts, ToldFacts, MessageFacts
<1>1. CASE awaitActivate
  BY <1>1 DEF awaitActivate
<1>2. CASE syscallConn \/ syscallConnFails
  BY <1>2 DEF syscallConn, syscallConnFails
<1>3. CASE setupStep(Process /\ Shadows # {})
  BY <1>3 DEF setupStep
<1>4. CASE setupFails
  BY <1>4 DEF setupFails, finalize
<1>5. CASE startJob
  BY <1>5 DEF startJob, finalize
<1>6. ASSUME sendDone
      PROVE  OutcomeInv'
  BY <1>6 DEF sendDone
<1>7. CASE (\E m \in Outbound : sends(m)) \/ sendFails
  BY <1>6, <1>7 DEF sends, sendFails
<1>8. CASE finalizeExpires
  BY <1>8 DEF finalizeExpires
<1>9. CASE tellShadow
  BY <1>9, SMTT(20) DEF tellShadow
<1>10. CASE upload
  BY <1>10 DEF upload
<1>11. CASE runReturns
  BY <1>11 DEF runReturns, killGroup
<1>12. QED
  BY <1>1, <1>2, <1>3, <1>4, <1>5, <1>7, <1>8, <1>9, <1>10, <1>11, Zenon
  DEF Straight

\* A step of the monitor loop, or of the job.
LEMMA OutcomeMonitoring ==
  ASSUME OutcomeInv, Monitoring, marker' = marker
  PROVE  OutcomeInv'
<1> USE DEF OutcomeInv, NoStray, Truthful, PCs, BeforeJob, WithJob, Finalizing, None, endVars,
            jobVars, ctrlVars
<1> USE SetupFacts, ToldFacts, MessageFacts
<1>1. CASE monitorGivesUp
  BY <1>1 DEF monitorGivesUp, killGroup
<1>2. CASE monitorMessage
  BY <1>2 DEF monitorMessage, killGroup
<1>3. CASE monitorTick
  BY <1>3 DEF monitorTick
<1>4. CASE reaped
  BY <1>4 DEF reaped, jobOver, finalize, killGroup
<1>5. CASE jobExits
  BY <1>5 DEF jobExits, runVars
<1>6. QED
  BY <1>1, <1>2, <1>3, <1>4, <1>5, Zenon DEF Monitoring

\* Every way through Run and finalize keeps job, reason and marker in step.
LEMMA OutcomeNext ==
  ASSUME Listening, OutcomeInv, Next
  PROVE  OutcomeInv'
<1> USE DEF OutcomeInv, NoStray, Truthful, PCs, BeforeJob, WithJob, Finalizing, None, endVars,
            jobVars
<1>1. CASE MarkerStep
  BY <1>1 DEF MarkerStep
<1>2. ASSUME marker' = marker, Reconnecting
      PROVE  OutcomeInv'
  <2>1. CASE monitorReconnect \/ acceptReconnect \/ abandonReconnect
    BY <1>2, <2>1 DEF monitorReconnect, acceptReconnect, abandonReconnect
  <2>2. CASE \E s \in Shadows : handleCACmd(s) \/ handlerGivesUp(s) \/ handlerReplies(s)
    BY <1>2, <2>2, SMTT(20) DEF handleCACmd, handlerGivesUp, handlerReplies, runVars
  <2>3. QED
    BY <1>2, <2>1, <2>2, Zenon DEF Reconnecting
<1>3. ASSUME marker' = marker, ControlStep
      PROVE  OutcomeInv'
  BY <1>3 DEF ControlStep
<1>4. ASSUME marker' = marker, ProcessStep
      PROVE  OutcomeInv'
  BY <1>4 DEF ProcessStep
<1>5. QED
  BY <1>1, <1>2, <1>3, <1>4, StepKinds, MarkerMoves, OutcomeStraight, OutcomeMonitoring, Zenon

\* The outcome is a matter of Run's, the job's and the process's variables alone.
LEMMA OutcomeStutter ==
  ASSUME OutcomeInv, UNCHANGED vars
  PROVE  OutcomeInv'
BY DEF OutcomeInv, NoStray, Truthful, vars, starterVars, runVars, endVars, jobVars, procVars

\* The inductive invariant holds throughout.
LEMMA OutcomeHolds == Spec => []OutcomeInv
<1>1. Listening /\ OutcomeInv /\ [Next]_vars => Listening' /\ OutcomeInv'
  BY ListeningNext, OutcomeNext, OutcomeStutter
<1>2. QED
  BY <1>1, InitListening, InitOutcome, PTL DEF Spec

\* However Run ends, nothing of its job is left that has not been sent a SIGKILL.
THEOREM NothingLeft == Spec => []NoStray
<1>1. OutcomeInv => NoStray
  BY DEF OutcomeInv
<1>2. QED
  BY <1>1, OutcomeHolds, PTL

\* The marker says what happened to the job.
THEOREM MarkerCorrect == Spec => []MarkerTruthful
<1>1. OutcomeInv => MarkerTruthful
  BY DEF OutcomeInv, Truthful, MarkerTruthful
<1>2. QED
  BY <1>1, OutcomeHolds, PTL

-----------------------------------------------------------------------------
(* Reconnecting shadows. *)

\* Each handler's connection is in one place at a time: offered, being accepted,
\* or Run's.
SocketInv ==
  /\ handlers \in [Shadows -> {"idle", "offered", "acked", "success", "failed"}]
  /\ {reconnectCh, peer} \subseteq Shadows \cup {None} /\ socket \in Shadows \cup {First, None}
  /\ SyscallSocket /\ NoLeakedStream
  /\ pc \in {"idle", "activate", "conn"} => socket = None
  /\ pc = "accept" => peer # None /\ (handlers[peer] = "success" => peer \in streams)
  /\ peer # None => pc \in {"accept", "killed"} /\ peer # socket
  /\ socket \in Shadows => handlers[socket] = "success"
  /\ \A s \in Shadows :
       /\ reconnectCh = s => handlers[s] \in {"offered", "failed"}
       /\ peer = s => handlers[s] \in {"acked", "success", "failed"}
       /\ handlers[s] = "acked" /\ s \in streams => s = peer
       /\ handlers[s] = "idle" => s \notin streams

\* No connection is open at first.
LEMMA InitSocket == Init => SocketInv
BY RunAssumption DEF Init, RunInit, SocketInv, SyscallSocket, NoLeakedStream

\* What SocketInv says is unaffected by a step that leaves the connections alone
\* and does not get Run into or out of accepting one.
LEMMA SocketStays ==
  ASSUME SocketInv, UNCHANGED <<reconnectCh, handlers, peer, socket, streams>>,
         pc' = pc \/ pc' = "killed" \/ (pc # "accept" /\ pc' # "accept"),
         pc' \in {"idle", "activate", "conn"} => pc \in {"idle", "activate", "conn"},
         pc = "done" => pc' \in {"done", "killed"}, pc = "killed" => pc' = "killed"
  PROVE  SocketInv'
BY DEF SocketInv, SyscallSocket, NoLeakedStream

\* Run outside its loop: only SyscallConn and Run's return touch the connection.
LEMMA SocketStraight ==
  ASSUME SocketInv, Straight
  PROVE  SocketInv'
<1> USE DEF reconnectVars
<1> USE SetupFacts, ToldFacts, MessageFacts
<1>1. CASE awaitActivate \/ syscallConnFails \/ startJob
  BY <1>1, SocketStays DEF awaitActivate, syscallConnFails, startJob, finalize
<1>2. CASE syscallConn
  BY <1>2, RunAssumption DEF syscallConn, SocketInv, SyscallSocket, NoLeakedStream, First, None
<1>3. CASE setupStep(Process /\ Shadows # {})
  BY <1>3, SocketStays DEF setupStep
<1>4. CASE setupFails
  BY <1>4, SocketStays DEF setupFails, finalize
<1>5. CASE (\E m \in Outbound : sends(m)) \/ sendFails
  BY <1>5, SocketStays DEF sends, sendFails, sendDone
<1>6. CASE finalizeExpires \/ tellShadow \/ upload
  BY <1>6, SocketStays DEF finalizeExpires, tellShadow, upload
<1>7. CASE runReturns
  BY <1>7 DEF runReturns, SocketInv, SyscallSocket, NoLeakedStream
<1>8. QED
  BY <1>1, <1>2, <1>3, <1>4, <1>5, <1>6, <1>7 DEF Straight

\* A reconnect, step by step.
LEMMA SocketReconnecting ==
  ASSUME SocketInv, Reconnecting
  PROVE  SocketInv'
<1> USE DEF SocketInv, SyscallSocket, NoLeakedStream
<1>1. CASE monitorReconnect
  BY <1>1, RunAssumption DEF monitorReconnect
<1>2. CASE acceptReconnect
  BY <1>2, RunAssumption DEF acceptReconnect
<1>3. CASE abandonReconnect
  BY <1>3, RunAssumption DEF abandonReconnect
<1>4. ASSUME NEW s \in Shadows, handleCACmd(s)
      PROVE  SocketInv'
  BY <1>4, RunAssumption DEF handleCACmd, runVars
<1>5. ASSUME NEW s \in Shadows, handlerGivesUp(s)
      PROVE  SocketInv'
  BY <1>5, RunAssumption DEF handlerGivesUp, runVars
<1>6. ASSUME NEW s \in Shadows, handlerReplies(s)
      PROVE  SocketInv'
  BY <1>6, RunAssumption DEF handlerReplies, runVars
<1>7. QED
  BY <1>1, <1>2, <1>3, <1>4, <1>5, <1>6, Zenon DEF Reconnecting

\* Hand-over, reconnect and wind-down keep Run's connections in order.
LEMMA SocketNext ==
  ASSUME Listening, SocketInv, Next
  PROVE  SocketInv'
<1>1. CASE Monitoring
  BY <1>1, SocketStays DEF Monitoring, monitorGivesUp, monitorMessage, monitorTick, reaped, jobOver,
                           finalize, jobExits, runVars, reconnectVars
<1>2. CASE ControlStep
  BY <1>2, SocketStays DEF ControlStep, reconnectVars
<1>3. CASE ProcessStep
  BY <1>3, RunAssumption DEF ProcessStep, SocketInv, SyscallSocket, NoLeakedStream, reconnectVars
<1>4. QED
  BY <1>1, <1>2, <1>3, StepKinds, SocketStraight, SocketReconnecting, SMTT(20)

\* The connections are a matter of the starter's variables alone.
LEMMA SocketStutter ==
  ASSUME SocketInv, UNCHANGED vars
  PROVE  SocketInv'
BY SocketStays DEF vars, starterVars, runVars, reconnectVars

\* Run's connections are always in order (acceptReconnect, handleCACmd).
LEMMA SocketHolds == Spec => []SocketInv
<1>1. Listening /\ SocketInv /\ [Next]_vars => Listening' /\ SocketInv'
  BY ListeningNext, SocketNext, SocketStutter
<1>2. QED
  BY <1>1, InitListening, InitSocket, PTL DEF Spec

\* Run's syscalls go to an open connection that has had its Success, for any
\* number of shadows that reconnect.
THEOREM SyscallsAreHeard == Spec => []SyscallSocket
<1>1. SocketInv => SyscallSocket
  BY DEF SocketInv
<1>2. QED
  BY <1>1, SocketHolds, PTL

\* No connection that a handler left open is lost between handler and Run.
THEOREM NoStreamLeaks == Spec => []NoLeakedStream
<1>1. SocketInv => NoLeakedStream
  BY DEF SocketInv
<1>2. QED
  BY <1>1, SocketHolds, PTL

-----------------------------------------------------------------------------
(* The relay. *)

\* The startd reads a message off its connection.
TakesReply ==
  /\ Connected /\ conns[dialled].toStartd # <<>>
  /\ conns' = [conns EXCEPT ![dialled].toStartd = Tail(@)]
  /\ UNCHANGED <<dialled, accepted, current, manage, pump, target, expired>>

\* The startd writes a last VacateHard and hangs up.
LastWord ==
  /\ CanWrite /\ "VacateHard" \in told'
  /\ conns' = [conns EXCEPT ![dialled].toStarter = Append(@, "VacateHard"),
                            ![dialled].startd = FALSE, ![dialled].toStartd = <<>>]
  /\ UNCHANGED <<dialled, accepted, current, manage, pump, target, expired>>

\* What a step does to the relay and its connections.
RelayStep ==
  \/ UNCHANGED relayVars
  \/ (dial /\ supConnects /\ Process) \/ hangUp \/ LastWord
  \/ (TakesReply /\ Process /\ \E m \in Outbound : supReads(m))
  \/ \E m \in (Inbound \ Vacates) \cup (Vacates \cap told') : write(m)
  \/ accept \/ readConn \/ forwarded \/ (\E broken : connLost(broken)) \/ leaseElapses
  \/ (\E m \in Outbound : pumpTakes(m) /\ sends(m)) \/ pumpPicks \/ pumpOutbound
  \/ relayCloses \/ relayDies

\* Every step does to the connections and the relay one of a few things.
LEMMA RelayKinds ==
  Next => RelayStep
<1> DEFINE Quietly == UNCHANGED relayVars
<1>1. supConnects => RelayStep
  BY DEF supConnects, RelayStep
<1>2. supEnds \/ supTakesConn \/ supKeepsCopy => Quietly
  BY DEF supEnds, supTakesConn, supKeepsCopy
<1>3. supActivates \/ supReattaches \/ supSendsConn => RelayStep
  BY Zenon DEF supActivates, supReattaches, supSendsConn, RelayStep, Inbound, Vacates
<1>4. \A m \in Outbound : supReads(m) => RelayStep
  BY DEF supReads, RelayStep, TakesReply
<1>5. handlerPasses \/ startdReturns => Quietly
  BY DEF handlerPasses, startdReturns
<1>6. loopWindsDown \/ startdLeaves => RelayStep
  BY DEF loopWindsDown, startdLeaves, RelayStep
<1>7. loopKills => RelayStep
  BY Zenon DEF loopKills, RelayStep, LastWord
<1>8. backstopFires => RelayStep
  BY DEF backstopFires, processGone, RelayStep
<1>9. \A m \in Vacates : supVacates(m) => RelayStep
  BY DEF supVacates, RelayStep
<1>10. Manage => RelayStep
  BY Zenon DEF Manage, relayServes, relayLosesConn, gapLeaseElapses, RelayStep
<1>11. relayPumps => RelayStep
  BY DEF relayPumps, RelayStep
<1>12. Main => RelayStep
  BY DEF Main, starterAccepts, starterAbandoned, runTakesConn, runStep, runAccepts, expire, runEnds,
         mainExits, processGone, RelayStep
<1>13. runMonitors \/ readerStep \/ tick \/ jobEnds \/ signalled => Quietly
  BY DEF runMonitors, readerStep, tick, jobEnds, signalled
<1>14. shadowReconnects \/ handlerSteps => Quietly
  BY DEF shadowReconnects, handlerSteps
<1>15. Quietly => RelayStep
  BY DEF RelayStep
<1>16. QED
  BY <1>1, <1>2, <1>3, <1>4, <1>5, <1>6, <1>7, <1>8, <1>9, <1>10, <1>11, <1>12, <1>13, <1>14, <1>15
     DEF Next, Supervise, Vacates

\* The relay's variables have their types, manage starts with the first connection
\* and serves one that there is, and the pump picks a connection only for a message.
RelayInv ==
  /\ RelayTypes
  /\ manage \in Inbound \cup {"read"} => current # 0
  /\ manage = "none" => accepted = 0
  /\ target # 0 => pump \in Outbound

\* Nothing is dialled at first.
LEMMA InitRelay == Init => RelayInv
<1> SUFFICES ASSUME RelayInit PROVE RelayInv
  BY DEF Init
<1>1. NoConn \in Connections
  <2>1. <<>> \in Seq(Inbound) /\ <<>> \in Seq(Outbound)
    OBVIOUS
  <2>2. QED
    BY <2>1, Zenon DEF NoConn, Connections
<1>2. conns \in [Conn -> Connections]
  BY <1>1, Zenon DEF RelayInit
<1>3. /\ dialled = 0 /\ accepted = 0 /\ current = 0
      /\ manage = "none" /\ pump = "none" /\ target = 0 /\ expired = FALSE
  BY DEF RelayInit
<1> HIDE DEF RelayInit
<1>4. /\ dialled \in 0..MaxDials /\ accepted \in 0..dialled /\ current \in 0..accepted
      /\ target \in 0..accepted
  BY <1>3, RelayAssumption
<1>5. QED
  BY <1>2, <1>3, <1>4, Zenon DEF RelayInv, RelayTypes, Inbound

\* A connection with some of its parts replaced.
LEMMA ConnectionParts ==
  ASSUME NEW c \in Connections
  PROVE  /\ c.toStarter \in Seq(Inbound) /\ c.toStartd \in Seq(Outbound)
         /\ \A q \in Seq(Inbound) : [c EXCEPT !.toStarter = q] \in Connections
         /\ \A q \in Seq(Outbound) : [c EXCEPT !.toStartd = q] \in Connections
         /\ [[c EXCEPT !.startd = TRUE] EXCEPT !.starter = TRUE] \in Connections
         /\ [[c EXCEPT !.startd = FALSE] EXCEPT !.toStartd = <<>>] \in Connections
         /\ [[c EXCEPT !.starter = FALSE] EXCEPT !.toStarter = <<>>] \in Connections
<1>1. c.toStarter \in Seq(Inbound) /\ c.toStartd \in Seq(Outbound)
  BY DEF Connections
<1>2. \A q \in Seq(Inbound) : [c EXCEPT !.toStarter = q] \in Connections
  BY DEF Connections
<1>3. \A q \in Seq(Outbound) : [c EXCEPT !.toStartd = q] \in Connections
  BY DEF Connections
<1>4. <<>> \in Seq(Inbound) /\ <<>> \in Seq(Outbound)
  OBVIOUS
<1>5. [[c EXCEPT !.startd = TRUE] EXCEPT !.starter = TRUE] \in Connections
  BY Zenon DEF Connections
<1>6. [[c EXCEPT !.startd = FALSE] EXCEPT !.toStartd = <<>>] \in Connections
  BY <1>4, Zenon DEF Connections
<1>7. [[c EXCEPT !.starter = FALSE] EXCEPT !.toStarter = <<>>] \in Connections
  BY <1>4, Zenon DEF Connections
<1>8. QED
  BY <1>1, <1>2, <1>3, <1>5, <1>6, <1>7

\* Replacing one connection by another keeps their type.
LEMMA ConnReplaced ==
  ASSUME RelayTypes, NEW k \in Conn, NEW e \in Connections, conns' = [conns EXCEPT ![k] = e]
  PROVE  conns' \in [Conn -> Connections]
BY DEF RelayTypes

\* What appending to a queue and taking from it do to its type.
LEMMA QueueTypes ==
  ASSUME NEW S, NEW q \in Seq(S)
  PROVE  /\ \A m \in S : Append(q, m) \in Seq(S)
         /\ q # <<>> => Head(q) \in S /\ Tail(q) \in Seq(S)
         /\ <<>> \in Seq(S)
OBVIOUS

\* Dials, reads, writes, the relay and the closes keep the connections in order.
LEMMA RelayNext ==
  ASSUME RelayInv, RelayStep
  PROVE  RelayInv'
<1>1. ASSUME conns' \in [Conn -> Connections],
             UNCHANGED <<dialled, accepted, current, manage, pump, target, expired>>
      PROVE  RelayInv'
  BY <1>1 DEF RelayInv, RelayTypes
<1>2. \A c \in Conn : conns[c] \in Connections
  BY DEF RelayInv, RelayTypes
<1>3. current # 0 => current \in Conn
  BY RelayAssumption DEF RelayInv, RelayTypes, Conn
<1>4. dialled # 0 => dialled \in Conn
  BY RelayAssumption DEF RelayInv, RelayTypes, Conn
<1>5. ASSUME NEW cs, closeConns(cs)
      PROVE  conns' \in [Conn -> Connections]
  BY <1>2, <1>5, ConnectionParts, Zenon DEF closeConns
<1>6. CASE UNCHANGED relayVars
  BY <1>6 DEF relayVars, RelayInv, RelayTypes
<1>7. CASE dial
  <2>1. dialled + 1 \in Conn
    BY <1>7, RelayAssumption DEF dial, RelayInv, RelayTypes, Conn
  <2>2. conns' = [conns EXCEPT ![dialled + 1] =
                    [[conns[dialled + 1] EXCEPT !.startd = TRUE] EXCEPT !.starter = TRUE]]
    BY <1>2, <1>7, <2>1, Zenon DEF dial
  <2>3. conns' \in [Conn -> Connections]
    BY <1>2, <2>1, <2>2, ConnectionParts, ConnReplaced, Zenon DEF RelayInv
  <2>4. QED
    BY <1>7, <2>3, RelayAssumption DEF dial, RelayInv, RelayTypes
<1>8. CASE hangUp
  <2>1. CASE dialled = 0
    BY <1>1, <1>8, <2>1 DEF hangUp, RelayInv, RelayTypes
  <2>2. CASE dialled # 0
    <3>1. conns' = [conns EXCEPT ![dialled] =
                      [[conns[dialled] EXCEPT !.startd = FALSE] EXCEPT !.toStartd = <<>>]]
      BY <1>4, <1>8, <2>2, Zenon DEF hangUp, RelayInv, RelayTypes
    <3>2. conns' \in [Conn -> Connections]
      BY <1>2, <1>4, <2>2, <3>1, ConnectionParts, ConnReplaced, Zenon DEF RelayInv
    <3>3. QED
      BY <1>1, <1>8, <3>2 DEF hangUp
  <2>3. QED
    BY <2>1, <2>2
<1>9. CASE TakesReply
  <2>1. dialled \in Conn
    BY <1>4, <1>9 DEF TakesReply, Connected, RelayInv, RelayTypes
  <2>2. Tail(conns[dialled].toStartd) \in Seq(Outbound)
    BY <1>2, <1>9, <2>1, ConnectionParts, QueueTypes, Zenon
    DEF TakesReply
  <2>3. conns' = [conns EXCEPT ![dialled] =
                    [conns[dialled] EXCEPT !.toStartd = Tail(conns[dialled].toStartd)]]
    BY <1>9, <2>1, Zenon DEF TakesReply, RelayInv, RelayTypes
  <2>4. conns' \in [Conn -> Connections]
    BY <1>2, <2>1, <2>2, <2>3, ConnectionParts, ConnReplaced, Zenon DEF RelayInv
  <2>5. QED
    BY <1>1, <1>9, <2>4 DEF TakesReply
<1>10. ASSUME NEW m \in Inbound, write(m)
       PROVE  RelayInv'
  <2>1. dialled \in Conn
    BY <1>4, <1>10 DEF write, CanWrite, Connected, RelayInv, RelayTypes
  <2>2. Append(conns[dialled].toStarter, m) \in Seq(Inbound)
    BY <1>2, <2>1, ConnectionParts, QueueTypes, Zenon
  <2>3. conns' = [conns EXCEPT ![dialled] =
                    [conns[dialled] EXCEPT !.toStarter = Append(conns[dialled].toStarter, m)]]
    BY <1>10, <2>1, Zenon DEF write, RelayInv, RelayTypes
  <2>4. conns' \in [Conn -> Connections]
    BY <1>2, <2>1, <2>2, <2>3, ConnectionParts, ConnReplaced, Zenon DEF RelayInv
  <2>5. QED
    BY <1>1, <1>10, <2>4 DEF write
<1>11. CASE LastWord
  <2> DEFINE c == conns[dialled]
             d == [c EXCEPT !.toStarter = Append(c.toStarter, "VacateHard")]
             e == [[d EXCEPT !.startd = FALSE] EXCEPT !.toStartd = <<>>]
  <2>1. dialled \in Conn
    BY <1>4, <1>11 DEF LastWord, CanWrite, Connected, RelayInv, RelayTypes
  <2>2. c \in Connections /\ Append(c.toStarter, "VacateHard") \in Seq(Inbound)
    BY <1>2, <2>1, ConnectionParts, QueueTypes, Zenon DEF Inbound
  <2>3. conns' = [conns EXCEPT ![dialled] = e]
    BY <1>11, <2>1, Zenon DEF LastWord, RelayInv, RelayTypes
  <2>4. d \in Connections
    BY <2>2, ConnectionParts, Zenon
  <2> HIDE DEF d
  <2>5. e \in Connections
    BY <2>4, ConnectionParts, Zenon
  <2> HIDE DEF e
  <2>6. conns' \in [Conn -> Connections]
    BY <2>1, <2>3, <2>5, ConnReplaced, Zenon DEF RelayInv
  <2>7. QED
    BY <1>1, <1>11, <2>6 DEF LastWord
<1>12. CASE accept
  BY <1>12, RelayAssumption DEF accept, RelayInv, RelayTypes, Inbound, Outbound
<1>13. CASE readConn
  <2>1. current \in Conn
    BY <1>3, <1>13 DEF readConn, RelayInv
  <2> DEFINE q == conns[current].toStarter
  <2>2. Head(q) \in Inbound /\ Tail(q) \in Seq(Inbound)
    BY <1>2, <1>13, <2>1, ConnectionParts, QueueTypes, Zenon
    DEF readConn
  <2>3. conns' = [conns EXCEPT ![current] = [conns[current] EXCEPT !.toStarter = Tail(q)]]
    BY <1>13, <2>1, Zenon DEF readConn, RelayInv, RelayTypes
  <2>4. conns' \in [Conn -> Connections]
    BY <1>2, <2>1, <2>2, <2>3, ConnectionParts, ConnReplaced, Zenon DEF RelayInv
  <2>5. QED
    BY <1>13, <2>2, <2>4 DEF readConn, RelayInv, RelayTypes, Inbound
<1>14. CASE forwarded
  BY <1>14 DEF forwarded, RelayInv, RelayTypes
<1>15. ASSUME NEW broken, connLost(broken)
       PROVE  RelayInv'
  BY <1>15 DEF connLost, RelayInv, RelayTypes, Inbound
<1>16. CASE leaseElapses
  BY <1>16 DEF leaseElapses, RelayInv, RelayTypes, Inbound
<1>17. ASSUME NEW m \in Outbound, pumpTakes(m)
       PROVE  RelayInv'
  BY <1>17 DEF pumpTakes, RelayInv, RelayTypes
<1>18. CASE pumpOutbound
  <2>1. target \in Conn /\ pump \in Outbound
    BY <1>18, RelayAssumption DEF pumpOutbound, RelayInv, RelayTypes, Conn
  <2>2. conns' \in [Conn -> Connections]
    <3>1. CASE conns[target].startd
      <4>1. Append(conns[target].toStartd, pump) \in Seq(Outbound)
        BY <1>2, <2>1, ConnectionParts, QueueTypes, Zenon
      <4>2. conns' = [conns EXCEPT ![target] =
                        [conns[target] EXCEPT !.toStartd = Append(conns[target].toStartd, pump)]]
        BY <1>18, <2>1, <3>1, Zenon DEF pumpOutbound, RelayInv, RelayTypes
      <4>3. QED
        BY <1>2, <2>1, <4>1, <4>2, ConnectionParts, ConnReplaced, Zenon DEF RelayInv
    <3>2. CASE ~conns[target].startd
      BY <1>18, <3>2 DEF pumpOutbound, RelayInv, RelayTypes
    <3>3. QED
      BY <3>1, <3>2
  <2>3. QED
    BY <1>18, <2>2 DEF pumpOutbound, RelayInv, RelayTypes
<1>19. CASE relayCloses \/ relayDies
  BY <1>5, <1>19, SMTT(20) DEF relayCloses, relayDies, RelayInv, RelayTypes, Inbound
<1>20. CASE pumpPicks
  BY <1>20 DEF pumpPicks, RelayInv, RelayTypes
<1>21. QED
  BY <1>6, <1>7, <1>8, <1>9, <1>10, <1>11, <1>12, <1>13, <1>14, <1>15, <1>16, <1>17, <1>18, <1>19,
     <1>20
     DEF RelayStep, Inbound, Vacates

\* The relay's invariant is a matter of its own variables.
LEMMA RelayStutter ==
  ASSUME UNCHANGED vars
  PROVE  RelayStep
BY DEF vars, RelayStep

\* The connections and the relay are always in order (manage, reaccept, pumpOutbound).
LEMMA RelayHolds == Spec => []RelayInv
<1>1. RelayInv /\ [Next]_vars => RelayInv'
  BY RelayKinds, RelayStutter, RelayNext
<1>2. QED
  BY <1>1, InitRelay, PTL DEF Spec

-----------------------------------------------------------------------------
(* Type correctness. *)

Control == {"Activate", "VacateSoft", "VacateHard", "Reattach"}

\* What RunTypes says of the control channel.
CtrlTypes ==
  /\ ctx \in BOOLEAN /\ pipe \in BOOLEAN /\ ctrlOpen \in BOOLEAN
  /\ ctrlCh \in Seq(Control) /\ Len(ctrlCh) <= CtrlCap + 1

\* What RunTypes says of the rest, but for pc (OutcomeInv) and the handlers
\* (SocketInv).
RestTypes ==
  /\ transfer \in BOOLEAN /\ vacated \in BOOLEAN /\ late \in BOOLEAN /\ strays \in BOOLEAN
  /\ {report, onFinal} \subseteq {None, "not_started", "exec_failed", "killed", "exited", "hold"}
  /\ job \in {None, "alive", "exited", "reaped"} /\ signal \in {None, "term", "kill"}
  /\ session \in BOOLEAN /\ streams \subseteq Shadows \cup {First}

\* What the control reader and Run do to ctrlCh keeps its type and its bound.
LEMMA CtrlChTypes ==
  ASSUME NEW q \in Seq(Control), Len(q) <= CtrlCap + 1
  PROVE  /\ q # <<>> => Head(q) \in Control /\ Tail(q) \in Seq(Control) /\ Len(Tail(q)) <= CtrlCap + 1
         /\ \A m \in Control : Len(q) <= CtrlCap =>
              Append(q, m) \in Seq(Control) /\ Len(Append(q, m)) <= CtrlCap + 1
         /\ Len(q) > CtrlCap =>
              SubSeq(q, 1, CtrlCap) \in Seq(Control) /\ Len(SubSeq(q, 1, CtrlCap)) <= CtrlCap + 1
BY RunAssumption

\* Every kind of step keeps the control channel's type.
LEMMA CtrlNext ==
  ASSUME CtrlTypes, Straight \/ Monitoring \/ Reconnecting \/ ControlStep \/ ProcessStep
  PROVE  CtrlTypes'
<1>1. ASSUME UNCHANGED ctrlVars
      PROVE  CtrlTypes'
  BY <1>1 DEF ctrlVars, CtrlTypes
<1>2. ASSUME ctrlCh # <<>>, ctrlCh' = Tail(ctrlCh), UNCHANGED <<ctx, pipe, ctrlOpen>>
      PROVE  CtrlTypes'
  BY <1>2, CtrlChTypes DEF CtrlTypes
<1>3. CASE Straight
  <2>1. CASE awaitActivate
    BY <1>1, <1>2, <2>1 DEF awaitActivate, ctrlVars
  <2>2. CASE runReturns
    BY <2>2, Zenon DEF runReturns, CtrlTypes
  <2>3. CASE syscallConn \/ syscallConnFails \/ setupStep(Process /\ Shadows # {}) \/ setupFails
    BY <1>1, <2>3, Zenon DEF syscallConn, syscallConnFails, setupStep, setupFails
  <2>4. CASE startJob \/ (\E m \in Outbound : sends(m)) \/ sendFails \/ finalizeExpires \/ tellShadow
             \/ upload
    BY <1>1, <2>4, Zenon DEF startJob, sends, sendFails, sendDone, finalizeExpires, tellShadow,
                             upload
  <2>5. QED
    BY <1>3, <2>1, <2>2, <2>3, <2>4 DEF Straight
<1>4. CASE Monitoring
  BY <1>1, <1>2, <1>4, Zenon DEF Monitoring, monitorGivesUp, monitorMessage, monitorTick, reaped,
                                 jobOver, jobExits, runVars
<1>5. CASE Reconnecting
  BY <1>1, <1>5, Zenon
  DEF Reconnecting, monitorReconnect, acceptReconnect, abandonReconnect, handleCACmd,
      handlerGivesUp, handlerReplies, runVars
<1>6. CASE ControlStep
  <2>1. CASE readerEnds
    BY <2>1, CtrlChTypes, Zenon DEF readerEnds, CtrlTypes
  <2>2. ASSUME NEW m \in Control, reads(m)
        PROVE  CtrlTypes'
    BY <2>2, CtrlChTypes DEF reads, CtrlTypes
  <2>3. Inbound \ {"SyscallConnFollows"} = Control
    BY DEF Inbound, Control
  <2>4. CASE UNCHANGED <<ctrlCh, ctrlOpen>> /\ ctx' \in {ctx, TRUE} /\ pipe' \in {pipe, FALSE}
    BY <2>4, Zenon DEF CtrlTypes
  <2>5. QED
    BY <1>1, <1>6, <2>1, <2>2, <2>3, <2>4, Zenon DEF ControlStep
<1>7. CASE ProcessStep
  BY <1>1, <1>7 DEF ProcessStep
<1>8. QED
  BY <1>3, <1>4, <1>5, <1>6, <1>7

\* Every kind of step keeps the types of Run's other variables.
LEMMA RestNext ==
  ASSUME RestTypes, Straight \/ Monitoring \/ Reconnecting \/ ControlStep \/ ProcessStep
  PROVE  RestTypes'
<1> USE DEF RestTypes, endVars, jobVars, reconnectVars
<1>1. CASE Straight
  <2>1. CASE awaitActivate \/ syscallConnFails
    BY <2>1 DEF awaitActivate, syscallConnFails
  <2>2. CASE syscallConn
    BY <2>2 DEF syscallConn
  <2>3. CASE setupStep(Process /\ Shadows # {})
    BY <2>3, Zenon DEF setupStep
  <2>4. CASE setupFails \/ startJob
    BY <2>4, Zenon DEF setupFails, startJob, finalize
  <2>5. CASE (\E m \in Outbound : sends(m)) \/ sendFails \/ finalizeExpires \/ tellShadow
    BY <2>5, ZenonT(30) DEF sends, sendFails, sendDone, finalizeExpires, tellShadow
  <2>6. CASE upload \/ runReturns
    BY <2>6, ZenonT(30) DEF upload, runReturns, killGroup
  <2>7. QED
    BY <1>1, <2>1, <2>2, <2>3, <2>4, <2>5, <2>6 DEF Straight
<1>2. CASE Monitoring
  <2>1. CASE monitorGivesUp \/ monitorTick \/ jobExits
    BY <2>1, Zenon DEF monitorGivesUp, monitorTick, jobExits, killGroup, runVars
  <2>2. CASE monitorMessage
    BY <2>2, Zenon DEF monitorMessage, killGroup
  <2>3. CASE reaped
    BY <2>3, Zenon DEF reaped, jobOver, finalize, killGroup
  <2>4. QED
    BY <1>2, <2>1, <2>2, <2>3 DEF Monitoring
<1>3. CASE Reconnecting
  <2>1. Reconnecting =>
          /\ UNCHANGED <<transfer, endVars, jobVars, session>>
          /\ streams' \subseteq streams \cup Shadows
    BY Zenon DEF Reconnecting, monitorReconnect, acceptReconnect, abandonReconnect, handleCACmd,
                 handlerGivesUp, handlerReplies, runVars
  <2>2. QED
    BY <1>3, <2>1
<1>4. CASE ControlStep
  BY <1>4 DEF ControlStep
<1>5. CASE ProcessStep
  BY <1>5, Zenon DEF ProcessStep
<1>6. QED
  BY <1>1, <1>2, <1>3, <1>4, <1>5

\* What a step does to the startd's variables.
StartdTypes ==
  /\ sup \in {"connect", "activate", "finish", "send", "pass", "keep", "reattach", "serve",
              "exit", "away"}
  /\ adopted \in BOOLEAN /\ mapped \in BOOLEAN /\ armed \in BOOLEAN
  /\ heard \in {None, "alive", "Final", "Exited"}
  /\ told \subseteq {"VacateSoft", "VacateHard"} /\ gaps \in 0..MaxGaps

\* Every step keeps the type of the startd's side, and a vacate once sent stays sent.
LEMMA StartdMoves ==
  ASSUME StartdTypes, Next
  PROVE  StartdTypes' /\ told \subseteq told'
<1> DEFINE Goal == StartdTypes' /\ told \subseteq told'
<1>1. UNCHANGED startdVars => Goal
  BY DEF startdVars, StartdTypes
<1>2. ASSUME NEW s, supGoes(s), s \in {"connect", "activate", "finish", "send", "pass", "keep",
                                      "reattach", "serve", "exit", "away"}
      PROVE  Goal
  BY <1>2 DEF supGoes, StartdTypes
<1>3. Supervise => Goal
  <2>1. supConnects \/ supEnds \/ supActivates \/ supReattaches => Goal
    BY <1>2 DEF supConnects, supEnds, supActivates, supReattaches
  <2>2. supTakesConn \/ supSendsConn \/ supKeepsCopy => Goal
    BY <1>2, Zenon DEF supTakesConn, supSendsConn, supKeepsCopy
  <2>3. \A m : supHears(m) => Goal
    BY DEF supHears, StartdTypes
  <2>4. QED
    BY <2>1, <2>2, <2>3 DEF Supervise, supReads
<1>4. handlerPasses => Goal
  BY <1>1 DEF handlerPasses
<1>5. loopWindsDown => Goal
  BY Zenon DEF loopWindsDown, dropsActivation, StartdTypes
<1>6. loopKills => Goal
  <2>1. (Process /\ ~adopted /\ Up) \in BOOLEAN
    OBVIOUS
  <2>2. loopKills => /\ mapped' = FALSE /\ armed' = (Process /\ ~adopted /\ Up)
                     /\ told' = told \/ told' = told \cup {"VacateHard"}
                     /\ UNCHANGED <<sup, adopted, heard, gaps>>
    BY DEF loopKills, dropsActivation
  <2>3. QED
    BY <2>1, <2>2, Zenon DEF StartdTypes
<1>7. backstopFires => Goal
  BY Zenon DEF backstopFires, StartdTypes
<1>8. startdLeaves => Goal
  <2>1. startdLeaves => gaps' \in 0..MaxGaps
    BY GapsAssumption DEF startdLeaves, StartdTypes
  <2>2. startdLeaves => sup' = "away" /\ armed' = FALSE /\ UNCHANGED <<adopted, mapped, heard, told>>
    BY DEF startdLeaves
  <2>3. QED
    BY <2>1, <2>2, Zenon DEF StartdTypes
<1>9. startdReturns => Goal
  BY DEF startdReturns, StartdTypes
<1>10. \A m \in Vacates : supVacates(m) => Goal
  BY DEF supVacates, StartdTypes, Vacates
<1>11. Manage \/ relayPumps => Goal
  BY <1>1, Zenon DEF Manage, relayServes, relayLosesConn, gapLeaseElapses, relayPumps
<1>12. Main => Goal
  BY <1>1 DEF Main, starterAccepts, starterAbandoned, runTakesConn, runStep, runAccepts, expire,
              runEnds, mainExits
<1>13. runMonitors \/ readerStep \/ tick \/ jobEnds \/ signalled => Goal
  BY <1>1 DEF runMonitors, readerStep, tick, jobEnds, signalled
<1>14. shadowReconnects \/ handlerSteps => Goal
  BY <1>1 DEF shadowReconnects, handlerSteps
<1>15. QED
  BY <1>3, <1>4, <1>5, <1>6, <1>7, <1>8, <1>9, <1>10, <1>11, <1>12, <1>13, <1>14 DEF Next, Vacates

\* What a step does to the hand-over.
HandoffStep ==
  \/ UNCHANGED handoffVars
  \/ handlerPasses
  \/ supTakesConn \/ supSendsConn \/ supKeepsCopy
  \/ \E m \in Outbound : supReads(m)
  \/ closeTransport
  \/ startdLeaves
  \/ receiveSyscallConn /\ UNCHANGED starterVars
  \/ receiveFails /\ UNCHANGED starterVars
  \/ syscallConn /\ takeSyscallConn
  \/ /\ refs' \in {refs \ {"flight", "queue", "run"}, refs \ {"run", "queue"}, refs \ {"run"},
                   refs \ {"run", "flight"}}
     /\ closed' \in {closed, TRUE}
     /\ UNCHANGED <<mode, handler>>

\* Every step does to the syscall connection one of a few things.
LEMMA HandoffMoves ==
  Next => HandoffStep
<1> DEFINE Same == UNCHANGED handoffVars
<1>1. Same => HandoffStep
  BY DEF HandoffStep
<1>2. supConnects \/ supEnds \/ supActivates \/ supReattaches => Same
  BY Zenon DEF supConnects, supEnds, supActivates, supReattaches
<1>3. Supervise => HandoffStep
  BY <1>1, <1>2, Zenon DEF Supervise, HandoffStep
<1>4. startdReturns \/ (\E m \in Vacates : supVacates(m)) \/ relayPumps => Same
  BY DEF startdReturns, supVacates, relayPumps
<1>5. loopWindsDown \/ loopKills => HandoffStep
  BY Zenon DEF loopWindsDown, loopKills, dropsActivation, HandoffStep
<1>6. processGone => HandoffStep
  BY DEF processGone, HandoffStep
<1>7. backstopFires => HandoffStep
  BY <1>1, <1>6 DEF backstopFires
<1>8. Manage => HandoffStep
  BY <1>1, Zenon DEF Manage, relayServes, relayLosesConn, gapLeaseElapses, HandoffStep
<1>9. starterAccepts \/ runStep \/ runAccepts \/ expire => Same
  BY DEF starterAccepts, runStep, runAccepts, expire
<1>10. starterAbandoned \/ mainExits => HandoffStep
  BY <1>6 DEF starterAbandoned, mainExits
<1>11. runTakesConn => HandoffStep
  BY <1>1, Zenon DEF runTakesConn, HandoffStep
<1>12. runEnds => HandoffStep
  <2>1. runEnds => /\ refs' \in {refs \ {"run", "queue"}, refs \ {"run"}, refs \ {"run", "flight"}}
                   /\ closed' \in {closed, TRUE} /\ UNCHANGED <<mode, handler>>
    BY Zenon DEF runEnds
  <2>2. QED
    BY <2>1, Zenon DEF HandoffStep
<1>13. Main => HandoffStep
  BY <1>1, <1>9, <1>10, <1>11, <1>12 DEF Main
<1>14. runMonitors \/ readerStep \/ tick \/ jobEnds \/ signalled \/ shadowReconnects \/ handlerSteps
         => Same
  BY DEF runMonitors, readerStep, tick, jobEnds, signalled, shadowReconnects, handlerSteps
<1>15. handlerPasses \/ startdLeaves => HandoffStep
  BY Zenon DEF HandoffStep
<1>16. QED
  BY <1>1, <1>3, <1>4, <1>5, <1>7, <1>8, <1>13, <1>14, <1>15 DEF Next, Vacates

\* Each of these keeps the type of the hand-over's variables.
LEMMA HandoffNext ==
  ASSUME HandoffTypes, HandoffStep
  PROVE  HandoffTypes'
<1> USE DEF HandoffTypes, Holders
<1>1. CASE UNCHANGED handoffVars
  BY <1>1 DEF handoffVars
<1>2. CASE handlerPasses
  BY <1>2, Zenon DEF handlerPasses, passSyscallConn, sendInproc, passFails, moves
<1>3. CASE supTakesConn \/ supSendsConn \/ supKeepsCopy
  <2>1. supTakesConn \/ supSendsConn \/ supKeepsCopy =>
          /\ refs' \subseteq refs \cup {"sending", "flight", "handedOff"}
          /\ UNCHANGED <<mode, handler, closed>>
    BY DEF supTakesConn, supSendsConn, supKeepsCopy, takePending, sendDescriptor, keepCopy, moves,
           handoffVars
  <2>2. QED
    BY <1>3, <2>1, Zenon
<1>4. ASSUME NEW m \in Outbound, supReads(m)
      PROVE  HandoffTypes'
  BY <1>4 DEF supReads, supHears, ReleaseSyscallConn
<1>5. CASE closeTransport
  BY <1>5 DEF closeTransport
<1>6. CASE startdLeaves
  BY <1>6 DEF startdLeaves, startdDies
<1>7. CASE receiveSyscallConn \/ receiveFails
  BY <1>7, Zenon DEF receiveSyscallConn, receiveFails, moves
<1>8. CASE takeSyscallConn
  BY <1>8 DEF takeSyscallConn, moves
<1>9. ASSUME refs' \subseteq refs, closed' \in {closed, TRUE}, UNCHANGED <<mode, handler>>
      PROVE  HandoffTypes'
  BY <1>9, Zenon
<1>10. QED
  BY <1>1, <1>2, <1>3, <1>4, <1>5, <1>6, <1>7, <1>8, <1>9, Zenon
  DEF HandoffStep

\* Every step keeps the type of the process's state.
LEMMA ProcNext ==
  ASSUME proc \in {"listening", "running", "exited", "lost"}, Next
  PROVE  proc' \in {"listening", "running", "exited", "lost"}
<1>1. UNCHANGED procVars => UNCHANGED proc
  BY DEF procVars
<1>2. Supervise => UNCHANGED proc
  BY <1>1, Zenon DEF Supervise, supConnects, supEnds, supActivates, supReattaches, supTakesConn,
                     supSendsConn, supKeepsCopy, supReads
<1>3. /\ handlerPasses \/ loopWindsDown \/ loopKills => UNCHANGED proc
      /\ startdLeaves \/ startdReturns => UNCHANGED proc
      /\ \A m : supVacates(m) => UNCHANGED proc
  BY <1>1 DEF handlerPasses, loopWindsDown, loopKills, startdLeaves, startdReturns, supVacates
<1>4. backstopFires => UNCHANGED proc \/ proc' = "lost"
  BY DEF backstopFires
<1>5. Manage \/ relayPumps => UNCHANGED proc
  BY <1>1, Zenon DEF Manage, relayServes, relayLosesConn, gapLeaseElapses, relayPumps
<1>6. Main => UNCHANGED proc \/ proc' \in {"running", "exited", "lost"}
  BY <1>1 DEF Main, starterAccepts, starterAbandoned, runTakesConn, runStep, runAccepts, expire,
              runEnds, mainExits
<1>7. runMonitors \/ readerStep \/ tick \/ jobEnds \/ signalled => UNCHANGED proc
  BY <1>1 DEF runMonitors, readerStep, tick, jobEnds, signalled
<1>8. shadowReconnects \/ handlerSteps => UNCHANGED proc
  BY <1>1 DEF shadowReconnects, handlerSteps
<1>9. QED
  BY <1>2, <1>3, <1>4, <1>5, <1>6, <1>7, <1>8 DEF Next

\* Every variable of an activation keeps its type, and the control channel holds
\* no more than its capacity and one message in the reader's hand, in both modes
\* and for every capacity, number of connections and set of shadows.
THEOREM TypeCorrect == Spec => []TypeOK
<1> DEFINE MarkerTypes == marker \in {None, "not_started", "exec_failed", "killed", "exited", "hold"}
           ProcTypes == proc \in {"listening", "running", "exited", "lost"}
           Types == CtrlTypes /\ RestTypes /\ StartdTypes /\ HandoffTypes /\ ProcTypes /\ MarkerTypes
<1>1. Init => Types
  <2>1. Init => CtrlTypes /\ RestTypes
    <3>1. <<>> \in Seq(Control) /\ Len(<<>>) <= CtrlCap + 1
      BY RunAssumption
    <3>2. QED
      BY <3>1, Zenon DEF Init, RunInit, CtrlTypes, RestTypes
  <2>2. Init => StartdTypes
    <3>1. 0 \in 0..MaxGaps
      BY GapsAssumption
    <3>2. QED
      BY <3>1, Zenon DEF Init, StartdTypes
  <2>3. Init => HandoffTypes
    BY Zenon DEF Init, HandoffInit, HandoffTypes, Holders
  <2>4. Init => ProcTypes /\ MarkerTypes
    BY DEF Init
  <2>5. QED
    BY <2>1, <2>2, <2>3, <2>4
<1>2. Types /\ Listening /\ [Next]_vars => Types'
  <2> SUFFICES ASSUME Types, Listening, [Next]_vars
               PROVE  Types'
    OBVIOUS
  <2>1. CASE Next
    <3>1. CtrlTypes' /\ RestTypes'
      BY <2>1, StepKinds, CtrlNext, RestNext
    <3>2. StartdTypes' /\ HandoffTypes' /\ ProcTypes'
      BY <2>1, StartdMoves, HandoffMoves, HandoffNext, ProcNext
    <3>3. MarkerTypes'
      <4>1. MarkerStep => MarkerTypes'
        BY DEF MarkerStep, RestTypes
      <4>2. QED
        BY <2>1, <4>1, MarkerMoves
    <3>4. QED
      BY <3>1, <3>2, <3>3
  <2>2. CASE UNCHANGED vars
    <3>1. CtrlTypes' /\ RestTypes'
      BY <2>2, SMTT(20) DEF vars, starterVars, runVars, ctrlVars, endVars, jobVars, reconnectVars, CtrlTypes,
                  RestTypes
    <3>2. StartdTypes' /\ HandoffTypes' /\ ProcTypes' /\ MarkerTypes'
      BY <2>2, SMTT(20) DEF vars, startdVars, handoffVars, procVars, StartdTypes, HandoffTypes
    <3>3. QED
      BY <3>1, <3>2
  <2>3. QED
    BY <2>1, <2>2
<1>3. Types /\ OutcomeInv /\ SocketInv /\ RelayInv => TypeOK
  BY Zenon DEF TypeOK, CtrlTypes, RestTypes, StartdTypes, RunTypes, RelayInv, OutcomeInv, SocketInv, Control
<1> HIDE DEF Types
<1>4. Spec => []Types
  <2>1. Listening /\ [Next]_vars => Listening'
    BY ListeningNext
  <2>2. QED
    BY <1>1, <1>2, <2>1, InitListening, PTL DEF Spec
<1>5. QED
  BY <1>3, <1>4, OutcomeHolds, SocketHolds, RelayHolds, PTL
=============================================================================
