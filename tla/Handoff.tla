------------------------------- MODULE Handoff -------------------------------
(***************************************************************************)
(* How the ACTIVATE_CLAIM connection gets from the startd's command        *)
(* handler to the starter, for which it is the remote-syscall channel      *)
(* (internal/starter/transport_inproc.go and transport_unix.go).           *)
(*                                                                         *)
(* In goroutine mode the handler puts the connection into a channel.  In   *)
(* process mode it leaves it with the supervisor, which sends a copy of    *)
(* the descriptor over the Unix socket.  refs says who holds the           *)
(* connection; when nobody does it is closed and the shadow sees the end.  *)
(***************************************************************************)
CONSTANTS Modes   \* the values of STARTER_MODE

VARIABLES
  mode,      \* STARTER_MODE
  handler,   \* the tail of handleActivateClaim
  refs,      \* the holders of the connection
  closed     \* the startd's transport (goroutine mode: either end's) is closed

handoffVars == <<mode, handler, refs, closed>>

\* "pending", "sending" and "handedOff" are the startd's copy between
\* PassSyscallConn, FinishActivation and ReleaseSyscallConn; "flight" is the
\* descriptor in the Unix socket; "queue" is syscallCh; "run" is the starter's.
Holders == {"handler", "pending", "sending", "handedOff", "flight", "queue", "run"}

HandoffTypes ==
  /\ mode \in Modes /\ refs \subseteq Holders /\ closed \in BOOLEAN
  /\ handler \in {"reply", "marked", "passed", "failed", "panic", "gone"}

HandoffInit ==
  /\ mode \in Modes /\ handler = "reply" /\ refs = {"handler"} /\ closed = FALSE

moves(from, to) == refs' = (refs \ {from}) \cup {to}

\* The reply is out.  unixStartd stashes the connection under its lock;
\* inprocStartd marks it passed under the lock and sends it afterwards.
passSyscallConn ==
  /\ handler = "reply" /\ ~closed
  /\ \/ mode = "process" /\ handler' = "passed" /\ moves("handler", "pending")
     \/ mode = "goroutine" /\ handler' = "marked" /\ UNCHANGED refs
  /\ UNCHANGED <<mode, closed>>

\* The send, which panics on a channel that has been closed meanwhile.
sendInproc ==
  /\ handler = "marked"
  /\ \/ ~closed /\ handler' = "passed" /\ moves("handler", "queue")
     \/ closed /\ handler' = "panic" /\ UNCHANGED refs
  /\ UNCHANGED <<mode, closed>>

\* The reply could not be written, or the transport refused the connection, which
\* the command server then closes.
passFails ==
  /\ handler = "reply" /\ handler' = "failed"
  /\ refs' = refs \ {"handler"}
  /\ UNCHANGED <<mode, closed>>

\* FinishActivation: take the stashed connection,
takePending ==
  /\ "pending" \in refs /\ moves("pending", "sending")
  /\ UNCHANGED <<mode, handler, closed>>

\* send its descriptor (or fail and close it),
sendDescriptor(ok) ==
  /\ "sending" \in refs
  /\ refs' = IF ok THEN refs \cup {"flight"} ELSE refs \ {"sending"}
  /\ UNCHANGED <<mode, handler, closed>>

keepCopy_Never ==
  /\ "sending" \in refs /\ refs' = refs \ {"sending"}
  /\ UNCHANGED <<mode, handler, closed>>

\* and keep the startd's copy, unless the transport was closed meanwhile.
keepCopy ==
  /\ "sending" \in refs
  /\ IF closed THEN refs' = refs \ {"sending"} ELSE moves("sending", "handedOff")
  /\ UNCHANGED <<mode, handler, closed>>

ReleaseSyscallConn ==
  /\ refs' = refs \ {"handedOff"}
  /\ UNCHANGED <<mode, handler, closed>>

\* The relay receives the descriptor.
receiveSyscallConn ==
  /\ "flight" \in refs /\ moves("flight", "queue")
  /\ UNCHANGED <<mode, handler, closed>>

\* Or fails to: it is closed, or left unread in the socket.
receiveFails ==
  /\ refs' \in {refs, refs \ {"flight"}}
  /\ UNCHANGED <<mode, handler, closed>>

takeSyscallConn ==
  /\ "queue" \in refs /\ moves("queue", "run")
  /\ UNCHANGED <<mode, handler, closed>>

\* The startd's process ends.
startdDies ==
  /\ handler' = "gone"
  /\ refs' = refs \ {"handler", "pending", "sending", "handedOff"}
  /\ UNCHANGED <<mode, closed>>

closeTransport_NoDrain ==
  /\ closed' = TRUE
  /\ refs' = refs \ (IF mode = "process" THEN {"handedOff"} ELSE {"queue"})
  /\ UNCHANGED <<mode, handler>>

\* Close of the startd's end.  Of a goroutine pair both ends share the channel,
\* and a connection nobody has taken from it is closed with it.
closeTransport ==
  /\ closed' = TRUE
  /\ refs' = refs \ (IF mode = "process" THEN {"pending", "handedOff"} ELSE {"queue"})
  /\ UNCHANGED <<mode, handler>>
=============================================================================
