----------------------------- MODULE StarterRun -----------------------------
(***************************************************************************)
(* starter.Run (internal/starter/starter.go): the goroutine that runs one  *)
(* job from the startd's Activate to the final report, its control reader, *)
(* the job's process group (exec.go) and, for a process starter, the       *)
(* command server through which a shadow that lost its connection          *)
(* reconnects (command_server.go).                                         *)
(*                                                                         *)
(* pc is what Run is blocked in.  A remote syscall is named after itself   *)
(* and ends when it returns; a message to the startd is sent when the far  *)
(* end of the control pipe reads it, since a write on a net.Pipe waits for *)
(* its reader.  What is on that far end, and how Run comes by its syscall  *)
(* connection, is left to the module that composes this one.               *)
(***************************************************************************)
EXTENDS Naturals, Sequences

CONSTANTS
  Shadows,   \* reconnecting shadows, one CA_RECONNECT_JOB each
  CtrlCap    \* capacity of ctrlCh (8 in the code)

VARIABLES
  pc,           \* where Run is
  ctx,          \* Run's context has been cancelled
  pipe,         \* the control pipe is open
  ctrlCh,       \* control messages read and not yet taken by Run
  ctrlOpen,     \* the control reader has not closed ctrlCh
  transfer,     \* the job uses file transfer
  vacated,      \* the job was told to go
  report,       \* the reason finalize reports ("none" before it is known)
  late,         \* finalizeTimeout has elapsed
  onFinal,      \* what OnFinal was called with ("none": not called)
  job,          \* leader of the job's process group
  strays,       \* the group has other members alive
  signal,       \* strongest signal sent to the group
  session,      \* the command server serves the job's reconnect session
  reconnectCh,  \* handoff offered to Run (None: the channel is empty)
  handlers,     \* the handleCACmd goroutines
  peer,         \* the shadow Run is accepting
  socket,       \* sysSt: the connection Run's syscalls go to
  streams       \* the connections to shadows that are open here

ctrlVars == <<ctx, pipe, ctrlCh, ctrlOpen>>
endVars == <<vacated, report, late, onFinal>>
runVars == <<pc, ctrlVars, transfer, endVars>>
jobVars == <<job, strays, signal>>
reconnectVars == <<session, reconnectCh, handlers, peer, socket, streams>>

None == "none"

\* The connection of the shadow that activated the claim.
First == "first"

ASSUME RunAssumption ==
  CtrlCap \in Nat /\ None \notin Shadows /\ First \notin Shadows

\* What Run does before the job starts, and what follows: get_job_info, the two
\* calls register_starter_info and get_sec_session_info, the input transfer and
\* begin_execution.  Calls that fail alike with nothing between them are one.
Setup ==
  [get_job_info |-> "hello", register |-> "prepare", prepare |-> "startJob"]

\* Messages to the startd, by the place Run sends them from, and what follows.
Message ==
  [hello |-> "Hello", executing |-> "Hello", rehello |-> "Hello", update |-> "Update",
   final |-> "Final", exited |-> "Exited"]

AfterSend ==
  [hello |-> "register", executing |-> "monitor", rehello |-> "monitor",
   update |-> "register_job_info", final |-> "exited", exited |-> "return"]

\* The syscalls whose result Run only logs, and what follows.
Told ==
  [register_job_info |-> "monitor", job_termination |-> "job_exit", job_exit |-> "final"]

PCs ==
  {"idle", "activate", "conn", "startJob", "monitor", "accept", "reap", "upload", "return",
   "done", "killed"} \cup DOMAIN Setup \cup DOMAIN Message \cup DOMAIN Told

RunTypes ==
  /\ pc \in PCs /\ ctx \in BOOLEAN /\ pipe \in BOOLEAN
  /\ ctrlCh \in Seq({"Activate", "VacateSoft", "VacateHard", "Reattach"})
  /\ Len(ctrlCh) <= CtrlCap + 1 /\ ctrlOpen \in BOOLEAN
  /\ transfer \in BOOLEAN /\ vacated \in BOOLEAN /\ late \in BOOLEAN
  /\ {report, onFinal} \subseteq {None, "not_started", "exec_failed", "killed", "exited", "hold"}
  /\ job \in {None, "alive", "exited", "reaped"} /\ strays \in BOOLEAN
  /\ signal \in {None, "term", "kill"}
  /\ session \in BOOLEAN /\ reconnectCh \in Shadows \cup {None} /\ peer \in Shadows \cup {None}
  /\ handlers \in [Shadows -> {"idle", "offered", "acked", "success", "failed"}]
  /\ socket \in Shadows \cup {First, None} /\ streams \subseteq Shadows \cup {First}

RunInit ==
  /\ ctx = FALSE /\ pipe = TRUE /\ ctrlCh = <<>> /\ ctrlOpen = TRUE
  /\ transfer = FALSE /\ vacated = FALSE /\ report = None /\ late = FALSE /\ onFinal = None
  /\ job = None /\ strays = FALSE /\ signal = None
  /\ session = FALSE /\ reconnectCh = None /\ peer = None
  /\ handlers = [s \in Shadows |-> "idle"] /\ socket = None /\ streams = {}

-----------------------------------------------------------------------------
(* The control reader. *)

reads_Unbounded(m) ==
  /\ pipe /\ ctrlOpen
  /\ ctrlCh' = Append(ctrlCh, m)
  /\ UNCHANGED <<pc, ctx, pipe, ctrlOpen, transfer, endVars, jobVars, reconnectVars>>

\* It reads message m from the pipe.  The last of CtrlCap + 1 messages is the
\* one it holds while ctrlCh is full; until Run takes one it reads no other.
reads(m) ==
  /\ pipe /\ ctrlOpen /\ Len(ctrlCh) <= CtrlCap
  /\ ctrlCh' = Append(ctrlCh, m)
  /\ UNCHANGED <<pc, ctx, pipe, ctrlOpen, transfer, endVars, jobVars, reconnectVars>>

\* A failed read or a cancelled context closes ctrlCh; a message that did not fit
\* is dropped with the latter.
readerEnds ==
  /\ ctrlOpen /\ pc # "idle"
  /\ ctx \/ (~pipe /\ Len(ctrlCh) <= CtrlCap)
  /\ ctrlOpen' = FALSE
  /\ ctrlCh' = IF Len(ctrlCh) > CtrlCap THEN SubSeq(ctrlCh, 1, CtrlCap) ELSE ctrlCh
  /\ UNCHANGED <<pc, ctx, pipe, transfer, endVars, jobVars, reconnectVars>>

ctrlClosed == ~ctrlOpen /\ ctrlCh = <<>>

-----------------------------------------------------------------------------
(* Run: before the job. *)

\* Any first message but Activate ends the run, as do a closed channel and a
\* cancelled context; finalize is not reached.
awaitActivate ==
  /\ pc = "activate"
  /\ \/ /\ ctrlCh # <<>>
        /\ pc' = IF Head(ctrlCh) = "Activate" THEN "conn" ELSE "return"
        /\ ctrlCh' = Tail(ctrlCh)
     \/ /\ ctrlClosed \/ ctx
        /\ pc' = "return"
        /\ UNCHANGED ctrlCh
  /\ UNCHANGED <<ctx, pipe, ctrlOpen, transfer, endVars, jobVars, reconnectVars>>

syscallConn ==
  /\ pc = "conn" /\ pc' = "get_job_info"
  /\ socket' = First /\ streams' = streams \cup {First}
  /\ UNCHANGED <<ctrlVars, transfer, endVars, jobVars, session, reconnectCh, handlers,
                 peer>>

syscallConnFails ==
  /\ pc = "conn" /\ pc' = "return"
  /\ UNCHANGED <<ctrlVars, transfer, endVars, jobVars, reconnectVars>>

\* A syscall of the set-up, or the input transfer, succeeds.  A shadow may decline
\* get_sec_session_info: then none can reconnect, and a job that is to transfer
\* files fails (setupFails).  There is a command server in process mode
\* (commands), unless it could not bind its port.
setupStep(commands) ==
  /\ pc \in DOMAIN Setup /\ pc' = Setup[pc]
  /\ IF pc = "register" THEN session' \in {FALSE, commands} ELSE UNCHANGED session
  /\ IF pc = "prepare" THEN transfer' \in BOOLEAN ELSE UNCHANGED transfer
  /\ UNCHANGED <<ctrlVars, endVars, jobVars, reconnectCh, handlers, peer, socket, streams>>

finalize_ExitedFirst(reason, jobExit) ==
  /\ report' = reason
  /\ pc' = IF jobExit THEN "job_exit" ELSE "exited"

\* finalize: its reason, and whether job_exit is sent.
finalize(reason, jobExit) ==
  /\ report' = reason
  /\ pc' = IF jobExit THEN "job_exit" ELSE "final"

setupFails ==
  /\ pc \in DOMAIN Setup
  /\ finalize("not_started", pc # "get_job_info")
  /\ UNCHANGED <<ctrlVars, transfer, vacated, late, onFinal, jobVars, reconnectVars>>

\* The job becomes the leader of a process group, in which it starts others.
startJob ==
  /\ pc = "startJob"
  /\ \/ /\ pc' = "executing" /\ job' = "alive" /\ strays' = TRUE
        /\ UNCHANGED report
     \/ /\ finalize("exec_failed", TRUE)
        /\ UNCHANGED <<job, strays>>
  /\ UNCHANGED <<ctrlVars, transfer, vacated, late, onFinal, signal, reconnectVars>>

-----------------------------------------------------------------------------
(* Messages to the startd, and syscalls whose failure is only logged. *)

sendDone ==
  /\ pc \in DOMAIN Message /\ pc' = AfterSend[pc]
  /\ onFinal' = IF pc = "exited" THEN report ELSE onFinal
  /\ UNCHANGED <<ctrlVars, transfer, vacated, report, late, jobVars, reconnectVars>>

\* The far end has read message m.
sends(m) ==
  /\ pipe /\ ~late /\ pc \in DOMAIN Message /\ m = Message[pc]
  /\ sendDone

\* The pipe is closed, or the context the message is sent under has ended: Run's
\* own, or that of finalize.
sendFails ==
  /\ pc \in DOMAIN Message
  /\ ~pipe \/ late \/ (ctx /\ pc \notin {"final", "exited"})
  /\ sendDone

\* finalize has one bounded context for job_exit and the two messages.
finalizeExpires ==
  /\ pc \in {"job_exit", "final", "exited"} /\ ~late /\ late' = TRUE
  /\ UNCHANGED <<pc, ctrlVars, transfer, vacated, report, onFinal, jobVars, reconnectVars>>

tellShadow ==
  /\ pc \in DOMAIN Told /\ pc' = Told[pc]
  /\ UNCHANGED <<ctrlVars, transfer, endVars, jobVars, reconnectVars>>

-----------------------------------------------------------------------------
(* The job's process group. *)

killGroup_LeaderOnly == signal' = "kill" /\ UNCHANGED strays

killGroup == signal' = "kill" /\ strays' = FALSE

\* The job ends by itself or by a signal; cmd.Wait returns.
jobExits ==
  /\ job = "alive" /\ job' = "exited"
  /\ UNCHANGED <<runVars, strays, signal, reconnectVars>>

-----------------------------------------------------------------------------
(* Run: the monitor loop. *)

monitorGivesUp_NotVacated ==
  /\ pc = "monitor" /\ (ctx \/ ctrlClosed)
  /\ pc' = "reap" /\ killGroup
  /\ UNCHANGED <<ctrlVars, transfer, endVars, job, reconnectVars>>

\* The context is cancelled, or the control channel is gone: kill and reap.
monitorGivesUp ==
  /\ pc = "monitor" /\ (ctx \/ ctrlClosed)
  /\ pc' = "reap" /\ vacated' = TRUE /\ killGroup
  /\ UNCHANGED <<ctrlVars, transfer, report, late, onFinal, job, reconnectVars>>

monitorMessage_TermOnly ==
  LET m == Head(ctrlCh) IN
  /\ pc = "monitor" /\ ctrlCh # <<>>
  /\ ctrlCh' = Tail(ctrlCh)
  /\ pc' = IF m = "Reattach" THEN "rehello" ELSE pc
  /\ vacated' = (vacated \/ m \in {"VacateSoft", "VacateHard"})
  /\ signal' = IF m # "Reattach" /\ signal = None THEN "term" ELSE signal
  /\ UNCHANGED <<ctx, pipe, ctrlOpen, transfer, report, late, onFinal, job, strays, reconnectVars>>

monitorMessage_NoHello ==
  LET m == Head(ctrlCh) IN
  /\ pc = "monitor" /\ ctrlCh # <<>>
  /\ ctrlCh' = Tail(ctrlCh)
  /\ vacated' = (vacated \/ m \in {"VacateSoft", "VacateHard"})
  /\ IF m = "VacateHard" THEN killGroup
     ELSE /\ signal' = IF m = "VacateSoft" /\ signal = None THEN "term" ELSE signal
          /\ UNCHANGED strays
  /\ UNCHANGED <<pc, ctx, pipe, ctrlOpen, transfer, report, late, onFinal, job, reconnectVars>>

\* A control message.  The job is not waited for here: its exit is another case
\* of the select.
monitorMessage ==
  LET m == Head(ctrlCh) IN
  /\ pc = "monitor" /\ ctrlCh # <<>>
  /\ ctrlCh' = Tail(ctrlCh)
  /\ pc' = IF m = "Reattach" THEN "rehello" ELSE pc
  /\ vacated' = (vacated \/ m \in {"VacateSoft", "VacateHard"})
  /\ IF m = "VacateHard" THEN killGroup
     ELSE /\ signal' = IF m = "VacateSoft" /\ signal = None THEN "term" ELSE signal
          /\ UNCHANGED strays
  /\ UNCHANGED <<ctx, pipe, ctrlOpen, transfer, report, late, onFinal, job, reconnectVars>>

\* The update ticker.
monitorTick ==
  /\ pc = "monitor" /\ pc' = "update"
  /\ UNCHANGED <<ctrlVars, transfer, endVars, jobVars, reconnectVars>>

\* The loop is left: the group is swept, the reason settled, and output is
\* transferred unless the job was vacated.
jobOver ==
  /\ killGroup
  /\ IF transfer /\ ~vacated THEN report' = "exited" /\ pc' = "upload"
     ELSE finalize(IF vacated THEN "killed" ELSE "exited", TRUE)
  /\ UNCHANGED <<ctrlVars, transfer, vacated, late, onFinal, reconnectVars>>

\* The wait for the job ends, after a kill at the latest with finalizeTimeout.
reaped ==
  \/ /\ pc \in {"monitor", "reap"} /\ job = "exited" /\ job' = "reaped"
     /\ jobOver
  \/ /\ pc = "reap" /\ UNCHANGED job
     /\ jobOver

upload ==
  /\ pc = "upload" /\ pc' = "job_termination"
  /\ report' \in {"exited", "hold"}
  /\ UNCHANGED <<ctrlVars, transfer, vacated, late, onFinal, jobVars, reconnectVars>>

\* Run returns, and its deferred calls run: the group is swept once more, the
\* command server and the syscall connection closed, and the transport with them.
runReturns ==
  /\ pc = "return" /\ pc' = "done"
  /\ IF job = None THEN UNCHANGED <<signal, strays>> ELSE killGroup
  /\ session' = FALSE /\ streams' = streams \ {socket}
  /\ pipe' = FALSE
  /\ UNCHANGED <<ctx, ctrlCh, ctrlOpen, transfer, endVars, job, reconnectCh, handlers,
                 peer, socket>>

-----------------------------------------------------------------------------
(* Reconnecting shadows. *)

\* CA_RECONNECT_JOB on the reconnect session: offer the connection to Run.  The
\* channel has room for one; a second one is refused and closed.
handleCACmd(s) ==
  /\ session /\ handlers[s] = "idle"
  /\ \/ /\ reconnectCh = None
        /\ reconnectCh' = s /\ streams' = streams \cup {s}
        /\ handlers' = [handlers EXCEPT ![s] = "offered"]
     \/ /\ reconnectCh # None
        /\ handlers' = [handlers EXCEPT ![s] = "failed"]
        /\ UNCHANGED <<reconnectCh, streams>>
  /\ UNCHANGED <<runVars, jobVars, session, peer, socket>>

\* The handler ends without having replied (its context, or a failed write), and
\* the server closes the connection.
handlerGivesUp(s) ==
  /\ handlers[s] = "acked" \/ (handlers[s] = "offered" /\ ctx)
  /\ handlers' = [handlers EXCEPT ![s] = "failed"] /\ streams' = streams \ {s}
  /\ UNCHANGED <<runVars, jobVars, session, reconnectCh, peer, socket>>

\* The Success reply is written, and the connection kept open for Run.
handlerReplies(s) ==
  /\ handlers[s] = "acked" /\ s \in streams
  /\ handlers' = [handlers EXCEPT ![s] = "success"]
  /\ UNCHANGED <<runVars, jobVars, session, reconnectCh, peer, socket, streams>>

monitorReconnect_NoAck ==
  LET s == reconnectCh IN
  /\ pc = "monitor" /\ s # None
  /\ pc' = "accept" /\ peer' = s /\ reconnectCh' = None
  /\ UNCHANGED <<ctrlVars, transfer, endVars, jobVars, session, handlers, socket,
                 streams>>

\* Run takes the handoff and acknowledges it.
monitorReconnect ==
  LET s == reconnectCh IN
  /\ pc = "monitor" /\ s # None
  /\ pc' = "accept" /\ peer' = s /\ reconnectCh' = None
  /\ handlers' = [handlers EXCEPT ![s] = IF @ = "offered" THEN "acked" ELSE @]
  /\ UNCHANGED <<ctrlVars, transfer, endVars, jobVars, session, socket, streams>>

acceptReconnect_AtOnce ==
  /\ pc = "accept"
  /\ pc' = "monitor" /\ peer' = None
  /\ socket' = peer /\ streams' = streams \ {socket}
  /\ UNCHANGED <<ctrlVars, transfer, endVars, jobVars, session, reconnectCh, handlers>>

\* replied: the shadow has its Success, and the syscalls move over.
acceptReconnect ==
  /\ pc = "accept" /\ handlers[peer] = "success"
  /\ pc' = "monitor" /\ peer' = None
  /\ socket' = peer /\ streams' = streams \ {socket}
  /\ UNCHANGED <<ctrlVars, transfer, endVars, jobVars, session, reconnectCh, handlers>>

abandonReconnect_LeavesOpen ==
  /\ pc = "accept"
  /\ pc' = "monitor" /\ peer' = None
  /\ UNCHANGED <<ctrlVars, transfer, endVars, jobVars, session, reconnectCh, handlers, socket,
                 streams>>

\* The handler failed, the context ended or the reply timer went off.
abandonReconnect ==
  /\ pc = "accept"
  /\ pc' = "monitor" /\ peer' = None
  /\ streams' = streams \ {peer}
  /\ UNCHANGED <<ctrlVars, transfer, endVars, jobVars, session, reconnectCh, handlers,
                 socket>>
=============================================================================
