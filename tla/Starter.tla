------------------------------- MODULE Starter -------------------------------
(***************************************************************************)
(* One activation from both sides: the startd's supervisor and transport   *)
(* (internal/startd/activate.go), the hand-over of the syscall connection, *)
(* the relay of a process starter, Run with its job, and the starter's     *)
(* main (cmd/starter/main.go).  The startd may release the claim, stop or  *)
(* crash, come back and redial.                                            *)
(*                                                                         *)
(* Startd.tla models many activations and keeps of each starter only what  *)
(* StarterLife.tla says; this module is what is behind that.               *)
(***************************************************************************)
EXTENDS StarterRun, Relay, Handoff

CONSTANTS
  Env,       \* what else may happen: "VacateSoft", "VacateHard" a vacate request,
             \* "tick" the update ticker, "startd" the startd stops or crashes,
             \* "release" the claim is released, "signal" SIGTERM to the starter,
             \* "descriptor" receiving the descriptor fails
  MaxGaps    \* bound: times the startd is away

ASSUME GapsAssumption == MaxGaps \in Nat

VARIABLES
  sup,      \* superviseStarter
  adopted,  \* the supervisor belongs to a restarted startd
  mapped,   \* the activation is in the startd's activations map
  heard,    \* what this supervisor has read of the starter: None, "alive" (Hello or
            \* Update), "Final" or "Exited"
  told,     \* vacate messages sent on (bound: each of them once)
  armed,    \* the SIGKILL backstop is running
  gaps,     \* times the startd has been away
  proc,     \* the starter: "listening", "running", "exited", "lost"
  marker    \* the .exit marker's reason (None: there is no marker)

startdVars == <<sup, adopted, mapped, heard, told, armed, gaps>>
procVars == <<proc, marker>>
starterVars == <<runVars, jobVars, reconnectVars>>
vars == <<starterVars, relayVars, handoffVars, startdVars, procVars>>

\* Every variable keeps its type; the control channel never holds more than its
\* capacity and one message in the reader's hand.
TypeOK ==
  /\ RunTypes /\ RelayTypes /\ HandoffTypes
  /\ sup \in {"connect", "activate", "finish", "send", "pass", "keep", "reattach", "serve",
              "exit", "away"}
  /\ adopted \in BOOLEAN /\ mapped \in BOOLEAN /\ armed \in BOOLEAN
  /\ heard \in {None, "alive", "Final", "Exited"}
  /\ told \subseteq {"VacateSoft", "VacateHard"} /\ gaps \in 0..MaxGaps
  /\ proc \in {"listening", "running", "exited", "lost"}
  /\ marker \in {None, "not_started", "exec_failed", "killed", "exited", "hold"}

Process == mode = "process"
Up == proc \in {"listening", "running"}

Init ==
  /\ RunInit /\ RelayInit /\ HandoffInit
  /\ pc = IF Process THEN "idle" ELSE "activate"
  /\ proc = IF Process THEN "listening" ELSE "running"
  /\ sup = "connect" /\ adopted = FALSE /\ mapped = TRUE
  /\ heard = None /\ told = {} /\ armed = FALSE /\ gaps = 0 /\ marker = None

-----------------------------------------------------------------------------
(* The startd's supervisor. *)

\* The supervisor moves on to state s; nothing else of the startd changes.
supGoes(s) ==
  /\ sup' = s
  /\ UNCHANGED <<adopted, mapped, heard, told, armed, gaps>>

\* Connect: a no-op in goroutine mode.  A process starter listens from its start
\* until Run returns.
supConnects ==
  /\ sup = "connect" /\ mapped
  /\ supGoes(IF adopted THEN "reattach" ELSE "activate")
  /\ \/ Process /\ Up /\ pc # "done" /\ dial
     \/ ~Process /\ UNCHANGED relayVars
  /\ UNCHANGED <<starterVars, handoffVars, procVars>>

\* The supervisor ends, submitting evStarterExited or evAdoptFailed: the dial
\* timed out, a write failed, the starter hung up or the context was cancelled.
supEnds ==
  /\ \/ sup = "connect" /\ (~mapped \/ Process)
     \/ sup \in {"activate", "reattach"} /\ (~mapped \/ (Process /\ ~CanWrite))
     \/ sup = "activate" /\ ~Process /\ ~pipe
     \/ sup = "finish" /\ ~mapped
     \/ sup = "serve" /\ ~mapped
     \/ sup = "serve" /\ Process /\ ~CanWrite /\ conns[dialled].toStartd = <<>>
     \/ sup = "serve" /\ ~Process /\ ~pipe
  /\ supGoes("exit")
  /\ UNCHANGED <<starterVars, relayVars, handoffVars, procVars>>

supActivates ==
  /\ sup = "activate" /\ mapped
  /\ \/ /\ Process /\ write("Activate") /\ supGoes("finish")
        /\ UNCHANGED starterVars
     \/ /\ ~Process /\ reads("Activate") /\ supGoes("serve")
        /\ UNCHANGED relayVars
  /\ UNCHANGED <<handoffVars, procVars>>

supReattaches ==
  /\ sup = "reattach" /\ mapped
  /\ write("Reattach") /\ supGoes("serve")
  /\ UNCHANGED <<starterVars, handoffVars, procVars>>

\* FinishActivation of a process starter: the message that announces the
\* descriptor is written before the descriptor is sent.
supTakesConn ==
  /\ sup = "finish" /\ takePending /\ supGoes("send")
  /\ UNCHANGED <<starterVars, relayVars, procVars>>

supSendsConn ==
  /\ \/ sup = "send" /\ write("SyscallConnFollows") /\ supGoes("pass") /\ UNCHANGED handoffVars
     \/ sup = "pass" /\ CanWrite /\ sendDescriptor(TRUE) /\ supGoes("keep") /\ UNCHANGED relayVars
     \/ /\ sup \in {"send", "pass"} /\ ~CanWrite
        /\ sendDescriptor(FALSE) /\ supGoes("exit")
        /\ UNCHANGED relayVars
  /\ UNCHANGED <<starterVars, procVars>>

supKeepsCopy ==
  /\ sup = "keep" /\ keepCopy /\ supGoes("serve")
  /\ UNCHANGED <<starterVars, relayVars, procVars>>

\* A message from the starter; the first one releases the startd's copy of the
\* syscall connection.
supHears(m) ==
  /\ heard' = IF m \in {"Final", "Exited"} THEN m ELSE "alive"
  /\ sup' = IF m = "Exited" THEN "exit" ELSE sup
  /\ ReleaseSyscallConn
  /\ UNCHANGED <<adopted, mapped, told, armed, gaps>>

\* In process mode it is read off the connection, in goroutine mode off the pipe
\* as Run sends it.
supReads(m) ==
  /\ sup = "serve" /\ mapped
  /\ supHears(m)
  /\ \/ /\ Process /\ Connected /\ conns[dialled].toStartd # <<>>
        /\ m = Head(conns[dialled].toStartd)
        /\ conns' = [conns EXCEPT ![dialled].toStartd = Tail(@)]
        /\ UNCHANGED <<dialled, accepted, current, manage, pump, target, expired, starterVars>>
     \/ /\ ~Process /\ sends(m)
        /\ UNCHANGED relayVars
  /\ UNCHANGED procVars

\* A vacate request of the loop is sent on.
supVacates(m) ==
  /\ sup = "serve" /\ mapped /\ m \in Env \ told
  /\ told' = told \cup {m}
  /\ \/ Process /\ write(m) /\ UNCHANGED starterVars
     \/ ~Process /\ reads(m) /\ UNCHANGED relayVars
  /\ UNCHANGED <<sup, adopted, mapped, heard, armed, gaps, handoffVars, procVars>>

-----------------------------------------------------------------------------
(* The tail of the ACTIVATE_CLAIM handler, and the event loop. *)

handlerPasses ==
  /\ sup # "away"
  /\ passSyscallConn \/ sendInproc \/ passFails
  /\ UNCHANGED <<starterVars, relayVars, startdVars, procVars>>

\* The activation leaves the map: its context is cancelled, which in goroutine
\* mode is Run's own, and its transport closed.
dropsActivation ==
  /\ mapped /\ mapped' = FALSE
  /\ closeTransport
  /\ IF Process THEN UNCHANGED <<ctx, pipe>> ELSE ctx' = TRUE /\ pipe' = FALSE
  /\ UNCHANGED <<pc, ctrlCh, ctrlOpen, transfer, endVars, jobVars, reconnectVars>>

\* doStarterExited or doAdoptFailed, for whichever goroutine has noticed the end.
loopWindsDown ==
  /\ sup # "away"
  /\ sup = "exit" \/ handler = "failed" \/ (Process /\ ~adopted /\ ~Up)
  /\ dropsActivation /\ hangUp
  /\ UNCHANGED <<sup, adopted, heard, told, armed, gaps, procVars>>

\* killActivation: VacateHard is offered to the supervisor, whose write races the
\* cancellation and the close that follow (in goroutine mode a write that wins is
\* a supVacates).
loopKills ==
  /\ "release" \in Env /\ sup # "away"
  /\ dropsActivation
  /\ armed' = (Process /\ ~adopted /\ Up)
  /\ \/ /\ hangUp /\ UNCHANGED told
     \/ /\ Process /\ sup = "serve" /\ CanWrite
        /\ told' = told \cup {"VacateHard"}
        /\ conns' = [conns EXCEPT ![dialled].toStarter = Append(@, "VacateHard"),
                                  ![dialled].startd = FALSE, ![dialled].toStartd = <<>>]
        /\ UNCHANGED <<dialled, accepted, current, manage, pump, target, expired>>
  /\ UNCHANGED <<sup, adopted, heard, gaps, procVars>>

\* The startd of a process starter stops or crashes, and everything it held is
\* closed.
startdLeaves ==
  /\ "startd" \in Env /\ Process /\ gaps < MaxGaps
  /\ sup # "away" /\ sup' = "away" /\ gaps' = gaps + 1 /\ armed' = FALSE
  /\ startdDies /\ hangUp
  /\ UNCHANGED <<starterVars, adopted, mapped, heard, told, procVars>>

\* It comes back and re-adopts the starter, if that is on record.
startdReturns ==
  /\ sup = "away" /\ mapped
  /\ sup' = "connect" /\ adopted' = TRUE /\ heard' = None
  /\ UNCHANGED <<starterVars, relayVars, handoffVars, mapped, told, armed, gaps, procVars>>

-----------------------------------------------------------------------------
(* The starter. *)

\* The process is gone: every connection of it closes; the job, in a process
\* group of its own, does not notice.
processGone ==
  /\ relayDies
  /\ refs' = refs \ {"flight", "queue", "run"} /\ streams' = {}
  /\ session' = FALSE /\ reconnectCh' = None
  /\ handlers' = [s \in Shadows |-> IF handlers[s] \in {"offered", "acked"} THEN "failed"
                                    ELSE handlers[s]]
  /\ UNCHANGED <<mode, handler, closed, peer, socket>>

\* ListenStarter has accepted the startd's connection: Run starts.
starterAccepts ==
  /\ proc = "listening" /\ proc' = "running"
  /\ accept /\ pc' = "activate"
  /\ UNCHANGED <<ctrlVars, transfer, endVars, jobVars, reconnectVars, handoffVars, startdVars,
                 marker>>

\* Nobody dialled within the accept timeout: the process ends with no marker.
starterAbandoned ==
  /\ proc = "listening" /\ accepted = dialled
  /\ proc' = "lost" /\ processGone
  /\ UNCHANGED <<runVars, jobVars, startdVars, marker>>

\* The relay's two goroutines.  manage accepts, reads and forwards to Run, and
\* receives the descriptor behind SyscallConnFollows itself;
relayServes ==
  /\ proc = "running"
  /\ \/ (accept \/ readConn) /\ UNCHANGED <<starterVars, handoffVars>>
     \/ /\ manage # "SyscallConnFollows" /\ forwarded /\ reads(manage)
        /\ UNCHANGED handoffVars
     \/ /\ manage = "SyscallConnFollows" /\ forwarded /\ receiveSyscallConn
        /\ UNCHANGED starterVars
  /\ UNCHANGED <<startdVars, procVars>>

relayLosesConn_ClosesPipe ==
  /\ proc = "running" /\ manage # "SyscallConnFollows"
  /\ connLost(~pipe) /\ pipe' = FALSE
  /\ UNCHANGED <<pc, ctx, ctrlCh, ctrlOpen, transfer, endVars, jobVars, reconnectVars, handoffVars,
                 startdVars, procVars>>

\* it gives a connection up at its end, or when Run or the descriptor is gone.
relayLosesConn ==
  /\ proc = "running"
  /\ \/ manage # "SyscallConnFollows" /\ connLost(~pipe) /\ UNCHANGED handoffVars
     \/ /\ manage = "SyscallConnFollows" /\ connLost(TRUE) /\ receiveFails
        /\ "descriptor" \in Env \/ ("flight" \notin refs /\ ~conns[current].startd)
  /\ UNCHANGED <<starterVars, startdVars, procVars>>

\* pumpOutbound carries what Run sends.
relayPumps ==
  /\ proc = "running"
  /\ \/ (pumpPicks \/ pumpOutbound) /\ UNCHANGED starterVars
     \/ \E m \in Outbound : pumpTakes(m) /\ sends(m)
  /\ UNCHANGED <<handoffVars, startdVars, procVars>>

gapLeaseElapses_PipeLeftOpen ==
  /\ proc = "running" /\ leaseElapses
  /\ UNCHANGED <<starterVars, handoffVars, startdVars, procVars>>

\* Nobody redials: the control pipe is closed.
gapLeaseElapses ==
  /\ proc = "running" /\ leaseElapses /\ pipe' = FALSE
  /\ UNCHANGED <<pc, ctx, ctrlCh, ctrlOpen, transfer, endVars, jobVars, reconnectVars, handoffVars,
                 startdVars, procVars>>

\* SyscallConn: the connection, or a closed channel or a cancelled context.
runTakesConn ==
  /\ \/ syscallConn /\ takeSyscallConn
     \/ /\ ctx \/ (Process /\ expired /\ "queue" \notin refs) \/ (~Process /\ closed)
        /\ syscallConnFails /\ UNCHANGED handoffVars
  /\ UNCHANGED <<relayVars, startdVars, procVars>>

\* What concerns nobody but Run: its control reader,
readerStep ==
  /\ proc = "running" /\ readerEnds
  /\ UNCHANGED <<relayVars, handoffVars, startdVars, procVars>>

\* the way to the monitor loop and from it (the command server is left out of an
\* instance in which no shadow reconnects),
runStep ==
  /\ proc = "running"
  /\ \/ awaitActivate \/ setupStep(Process /\ Shadows # {}) \/ setupFails \/ startJob
     \/ sendFails \/ tellShadow \/ upload
  /\ UNCHANGED <<relayVars, handoffVars, startdVars, procVars>>

\* and the cases of the monitor's select, but for the ticker.
runMonitors ==
  /\ proc = "running"
  /\ monitorGivesUp \/ monitorMessage \/ reaped \/ monitorReconnect
  /\ UNCHANGED <<relayVars, handoffVars, startdVars, procVars>>

\* Timers: the update ticker, finalizeTimeout, and the job itself.
tick ==
  /\ "tick" \in Env /\ proc = "running" /\ monitorTick
  /\ UNCHANGED <<relayVars, handoffVars, startdVars, procVars>>

expire ==
  /\ proc = "running" /\ finalizeExpires
  /\ UNCHANGED <<relayVars, handoffVars, startdVars, procVars>>

jobEnds ==
  /\ jobExits
  /\ UNCHANGED <<relayVars, handoffVars, startdVars, procVars>>

\* Run returns; its connection and its end of the transport are closed.
runEnds ==
  /\ runReturns
  /\ IF Process
     THEN /\ relayCloses /\ refs' = refs \ ({"run"} \cup IF current = 1 THEN {"flight"} ELSE {})
          /\ UNCHANGED <<closed, proc>>
     ELSE /\ closed' = TRUE /\ refs' = refs \ {"run", "queue"} /\ proc' = "exited"
          /\ UNCHANGED relayVars
  /\ UNCHANGED <<mode, handler, startdVars, marker>>

\* main writes the .exit marker, from OnFinal or as not started, and exits.
mainExits ==
  /\ Process /\ proc = "running" /\ pc = "done"
  /\ marker' = IF onFinal = None THEN "not_started" ELSE onFinal
  /\ proc' = "exited" /\ processGone
  /\ UNCHANGED <<runVars, jobVars, startdVars>>

\* SIGTERM or SIGINT to a process starter cancels Run's context.
signalled ==
  /\ "signal" \in Env /\ Process /\ proc = "running" /\ ~ctx /\ ctx' = TRUE
  /\ UNCHANGED <<pc, pipe, ctrlCh, ctrlOpen, transfer, endVars, jobVars, reconnectVars, relayVars,
                 handoffVars, startdVars, procVars>>

\* KILLING_TIMEOUT after a release: SIGKILL to the starter's pid, not to its job.
backstopFires ==
  /\ armed /\ armed' = FALSE
  /\ IF Up THEN proc' = "lost" /\ pc' = "killed" /\ processGone
     ELSE UNCHANGED <<proc, pc, relayVars, handoffVars, reconnectVars>>
  /\ UNCHANGED <<ctrlVars, transfer, endVars, jobVars, sup, adopted, mapped, heard, told, gaps,
                 marker>>

\* A shadow reconnects.
shadowReconnects ==
  /\ proc = "running" /\ \E s \in Shadows : handleCACmd(s)
  /\ UNCHANGED <<relayVars, handoffVars, startdVars, procVars>>

handlerSteps ==
  /\ proc = "running" /\ \E s \in Shadows : handlerGivesUp(s) \/ handlerReplies(s)
  /\ UNCHANGED <<relayVars, handoffVars, startdVars, procVars>>

runAccepts ==
  /\ proc = "running" /\ (acceptReconnect \/ abandonReconnect)
  /\ UNCHANGED <<relayVars, handoffVars, startdVars, procVars>>

-----------------------------------------------------------------------------
(* The goroutines. *)

Supervise ==
  \/ supConnects \/ supEnds \/ supActivates \/ supReattaches
  \/ supTakesConn \/ supSendsConn \/ supKeepsCopy
  \/ \E m \in Outbound : supReads(m)

Manage == relayServes \/ relayLosesConn \/ gapLeaseElapses

\* The starter's main goroutine, with its timeouts.
Main ==
  \/ starterAccepts \/ starterAbandoned
  \/ runTakesConn \/ runStep \/ runAccepts \/ expire \/ runEnds \/ mainExits

Next ==
  \/ Supervise \/ handlerPasses
  \/ loopWindsDown \/ loopKills \/ backstopFires \/ startdLeaves \/ startdReturns
  \/ \E m \in {"VacateSoft", "VacateHard"} : supVacates(m)
  \/ Manage \/ relayPumps
  \/ Main \/ runMonitors \/ readerStep \/ tick \/ jobEnds \/ signalled
  \/ shadowReconnects \/ handlerSteps

Spec == Init /\ [][Next]_vars

\* Goroutines run, timers elapse, a killed job ends, and a shadow answers a syscall
\* or its connection breaks.  Go's select chooses among its ready cases at random,
\* so the ticker does not keep the monitor loop from its other cases for ever.
\* Nothing is assumed of the job, the ticker, or the startd's coming back.
Fairness ==
  /\ WF_vars(Supervise) /\ WF_vars(handlerPasses) /\ WF_vars(loopWindsDown)
  /\ WF_vars(backstopFires)
  /\ WF_vars(Manage) /\ WF_vars(relayPumps)
  /\ WF_vars(Main) /\ SF_vars(runMonitors) /\ WF_vars(readerStep)
  /\ WF_vars(signal = "kill" /\ jobEnds) /\ WF_vars(handlerSteps)

FairSpec == Spec /\ Fairness
=============================================================================
