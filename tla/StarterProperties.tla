------------------------- MODULE StarterProperties -------------------------
(***************************************************************************)
(* What an activation is expected to keep true, on both sides of the       *)
(* control channel.  The last section states what comments of the source   *)
(* say and the code does not always do.                                    *)
(***************************************************************************)
EXTENDS Starter

-----------------------------------------------------------------------------
(* The job. *)

\* A startd that stops, crashes or drops its connection does not cost a job its
\* life: a job is told to go only if a startd asked for it, Run's context was
\* cancelled, or the startd-gap lease has elapsed (manage, pumpOutbound, Run's
\* monitor loop).
GapKeepsJob ==
  vacated => told # {} \/ ctx \/ expired

\* When Run returns, whatever way it took, nothing of the job is left that has not
\* been sent a SIGKILL: neither the job nor the processes it started (killGroup,
\* the sweep after the monitor loop, Run's deferred calls).
NoStray ==
  pc = "done" => ~strays /\ (job = "alive" => signal = "kill")

\* The .exit marker tells a startd that comes back too late what happened: not
\* started only if no job was started, exited or held only if the job ended by
\* itself and was reaped, killed only if it was told to go (finalize, OnFinal,
\* writeExitMarker).
MarkerTruthful ==
  /\ marker \in {"not_started", "exec_failed"} => job = None
  /\ marker \in {"exited", "hold"} => job = "reaped" /\ ~vacated
  /\ marker = "killed" => job # None /\ vacated

-----------------------------------------------------------------------------
(* The control channel and the syscall connection. *)

\* A supervisor that activated its starter and reads Exited has read Final, so
\* that the claim has the job's outcome before the slot is Idle again (finalize,
\* pumpOutbound).  A supervisor that redialled may find Exited alone: Final was
\* dropped in the gap.
FinalFirst ==
  [][~adopted /\ heard # "Exited" /\ heard' = "Exited" => heard = "Final"]_vars

\* While the descriptor of the syscall connection is in flight between the
\* processes the startd keeps a copy: the first control message, on which it lets
\* go, proves that the starter has adopted the connection (FinishActivation,
\* ReleaseSyscallConn, superviseStarter).
HeldInFlight ==
  "flight" \in refs /\ ~closed /\ handler # "gone" =>
    refs \cap {"sending", "handedOff"} # {}

-----------------------------------------------------------------------------
(* Reconnecting shadows. *)

\* Run's syscalls go to a connection that is open, and to a reconnecting shadow's
\* only after the Success reply is on it (acceptReconnect, handleCACmd).
SyscallSocket ==
  socket # None /\ pc \notin {"done", "killed"} =>
    /\ socket \in streams
    /\ socket \in Shadows => handlers[socket] = "success"

\* A connection whose handler has left it open for Run is Run's: the one in use or
\* the one being accepted (KeepOpen, acceptReconnect).
NoLeakedStream ==
  \A s \in streams \cap Shadows : handlers[s] = "success" => s \in {socket, peer}

-----------------------------------------------------------------------------
(* What must eventually happen (under Fairness). *)

\* How far the starter is, in the words of StarterLife.tla.
Phase ==
  IF proc = "listening" THEN "starting"
  ELSE IF proc # "running" THEN proc
  ELSE IF "VacateHard" \in told /\ socket # None THEN "vacating"
  ELSE "running"

Life == INSTANCE StarterLife WITH life <- Phase

\* The starter is what Startd.tla takes it for: in particular a starter that has
\* its syscall connection and is told to hard-vacate ends, whatever its job and its
\* startd do meanwhile.  It rests on the fairness of the shadow, which answers a
\* syscall or whose connection breaks: Run hears no vacate while it is in
\* register_job_info or a set-up syscall, and these have no timeout.
StarterLifeSpec == Life!SpawnedSpec

\* A starter whose startd is gone, or has dropped its activation, does not run for
\* ever (killActivation, reaccept, selfDestruct).
AbandonedStarterEnds ==
  ~mapped \/ sup = "away" ~> ~Up \/ (mapped /\ sup # "away")

\* Once its job has ended the starter winds down, whether or not there is a startd
\* to report to (pumpOutbound, finalize).
JobEndNoticed ==
  job = "exited" ~> ~Up

\* A startd that redials a starter hears from it, or sees the connection end (the
\* Hello in answer to Reattach).  It is stated for a starter that has its syscall
\* connection: one whose startd died before it sent the descriptor waits for the
\* connection in SyscallConn, with a control channel that works and that it does
\* not listen to.
ReattachAnswered ==
  adopted /\ sup = "serve" /\ socket # None ~> heard # None \/ sup # "serve" \/ ~mapped

\* The shadow's connection is closed on this side once the starter is gone: no
\* copy of it is left anywhere between the command handler and the starter.
ConnReleased ==
  ~Up ~> refs = {} \/ handler = "panic"

\* Every CA_RECONNECT_JOB that is offered to Run is answered, or its connection
\* closed.  A handoff that Run no longer takes is not refused, as the comment at
\* command_server.go:214 has it, but closed when the server or the process ends.
HandoffAnswered ==
  \A s \in Shadows : handlers[s] \in {"offered", "acked"} ~> handlers[s] \in {"success", "failed"}

-----------------------------------------------------------------------------
(* What comments say and the code does not always do. *)

\* activate.go:816, "closing the control transport makes the starter observe the
\* broken channel and hard-vacate its job": a job whose activation was killed ends.
KillEndsJob ==
  armed /\ job = "alive" ~> job # "alive"
=============================================================================
