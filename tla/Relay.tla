-------------------------------- MODULE Relay --------------------------------
(***************************************************************************)
(* The control channel of a process starter (internal/starter/             *)
(* transport_unix.go): the Unix connections a startd dials, one after the  *)
(* other, and the relay between the present one and Run's control pipe.    *)
(*                                                                         *)
(* The relay is two goroutines.  manage serves one connection until it     *)
(* breaks and then waits for the next, at most for the startd-gap lease.   *)
(* pumpOutbound carries Run's messages to the connection it finds when it  *)
(* looks, and drops them when there is none.  Each holds at most one       *)
(* message.                                                                *)
(***************************************************************************)
EXTENDS Naturals, Sequences

CONSTANTS
  MaxDials,   \* bound: connections dialled
  SockCap     \* messages a connection buffers in each direction

ASSUME RelayAssumption == MaxDials \in Nat /\ SockCap \in Nat

VARIABLES
  dialled,   \* connections dialled so far
  conns,     \* the connections
  accepted,  \* connections accepted so far, in the order they were dialled
  current,   \* s.conn: the connection being served (0: a gap)
  manage,    \* None, "read", "accept", "stopped", or the message it forwards
  pump,      \* None, "read", "stopped", or the message it forwards
  target,    \* the connection pumpOutbound has picked for its message (0: none yet)
  expired    \* the startd-gap lease has elapsed

relayVars == <<dialled, conns, accepted, current, manage, pump, target, expired>>

Conn == 1..MaxDials

\* A Unix connection: what each end has written and the other not yet read, and
\* which ends are open.
NoConn == [toStarter |-> <<>>, toStartd |-> <<>>, startd |-> FALSE, starter |-> FALSE]

Inbound == {"Activate", "SyscallConnFollows", "VacateSoft", "VacateHard", "Reattach"}
Outbound == {"Hello", "Update", "Final", "Exited"}

Connections ==
  [toStarter : Seq(Inbound), toStartd : Seq(Outbound), startd : BOOLEAN, starter : BOOLEAN]

RelayTypes ==
  /\ dialled \in 0..MaxDials /\ accepted \in 0..dialled /\ current \in 0..accepted
  /\ conns \in [Conn -> Connections]
  /\ manage \in Inbound \cup {"none", "read", "accept", "stopped"}
  /\ pump \in Outbound \cup {"none", "read", "stopped"} /\ target \in 0..accepted
  /\ expired \in BOOLEAN

RelayInit ==
  /\ dialled = 0 /\ accepted = 0 /\ current = 0
  /\ conns = [c \in Conn |-> NoConn]
  /\ manage = "none" /\ pump = "none" /\ target = 0 /\ expired = FALSE

-----------------------------------------------------------------------------
(* The startd's end. *)

\* A dial is answered as soon as the socket listens, accepted or not.
dial ==
  /\ dialled < MaxDials
  /\ dialled' = dialled + 1
  /\ conns' = [conns EXCEPT ![dialled + 1].startd = TRUE, ![dialled + 1].starter = TRUE]
  /\ UNCHANGED <<accepted, current, manage, pump, target, expired>>

Connected == dialled > 0 /\ conns[dialled].startd

\* The startd writes on its last connection; a write waits for room in the buffer,
\* and fails once an end is closed.
CanWrite == Connected /\ conns[dialled].starter

write(m) ==
  /\ CanWrite /\ Len(conns[dialled].toStarter) < SockCap
  /\ conns' = [conns EXCEPT ![dialled].toStarter = Append(@, m)]
  /\ UNCHANGED <<dialled, accepted, current, manage, pump, target, expired>>

\* The startd closes its end.  What it wrote can still be read; what was written
\* to it is gone.
hangUp ==
  /\ conns' = IF dialled = 0 THEN conns
              ELSE [conns EXCEPT ![dialled].startd = FALSE, ![dialled].toStartd = <<>>]
  /\ UNCHANGED <<dialled, accepted, current, manage, pump, target, expired>>

-----------------------------------------------------------------------------
(* The relay. *)

\* ListenStarter, or reaccept: the next connection in the backlog.
accept ==
  /\ manage \in {"none", "accept"} /\ accepted < dialled
  /\ accepted' = accepted + 1 /\ current' = accepted + 1
  /\ manage' = "read"
  /\ pump' = IF manage = "none" THEN "read" ELSE pump
  /\ UNCHANGED <<dialled, conns, target, expired>>

\* readConn takes the next message off the connection.
readConn ==
  LET q == conns[current].toStarter IN
  /\ manage = "read" /\ q # <<>>
  /\ manage' = Head(q)
  /\ conns' = [conns EXCEPT ![current].toStarter = Tail(q)]
  /\ UNCHANGED <<dialled, accepted, current, pump, target, expired>>

\* The message has gone to Run, or its descriptor has been received.
forwarded ==
  /\ manage \in Inbound /\ manage' = "read"
  /\ UNCHANGED <<dialled, conns, accepted, current, pump, target, expired>>

\* readConn returns: there is nothing left to read and the startd has hung up, or
\* the forwarding failed (broken).  The connection itself is not closed here.
connLost(broken) ==
  /\ \/ manage = "read" /\ conns[current].toStarter = <<>> /\ ~conns[current].startd
     \/ manage \in Inbound /\ broken
  /\ manage' = "accept" /\ current' = 0
  /\ UNCHANGED <<dialled, conns, accepted, pump, target, expired>>

\* The gap lease elapses with nobody in the backlog (selfDestruct).
leaseElapses ==
  /\ manage = "accept" /\ accepted = dialled
  /\ manage' = "stopped" /\ expired' = TRUE
  /\ UNCHANGED <<dialled, conns, accepted, current, pump, target>>

\* pumpOutbound reads a message from Run,
pumpTakes(m) ==
  /\ pump = "read" /\ pump' = m
  /\ UNCHANGED <<dialled, conns, accepted, current, manage, target, expired>>

\* picks the present connection under the lock, or drops the message in a gap,
pumpPicks ==
  /\ pump \in Outbound /\ target = 0
  /\ target' = current
  /\ pump' = IF current = 0 THEN "read" ELSE pump
  /\ UNCHANGED <<dialled, conns, accepted, current, manage, expired>>

pumpOutbound_StopsOnError ==
  /\ target # 0 /\ target' = 0
  /\ \/ /\ conns[target].startd /\ pump' = "read"
        /\ Len(conns[target].toStartd) < SockCap
        /\ conns' = [conns EXCEPT ![target].toStartd = Append(@, pump)]
     \/ ~conns[target].startd /\ pump' = "stopped" /\ UNCHANGED conns
  /\ UNCHANGED <<dialled, accepted, current, manage, expired>>

\* and writes to it, whatever has become of it since; a write to a connection that
\* the startd has closed fails, and the message is dropped.
pumpOutbound ==
  /\ target # 0 /\ target' = 0 /\ pump' = "read"
  /\ IF conns[target].startd
     THEN /\ Len(conns[target].toStartd) < SockCap
          /\ conns' = [conns EXCEPT ![target].toStartd = Append(@, pump)]
     ELSE UNCHANGED conns
  /\ UNCHANGED <<dialled, accepted, current, manage, expired>>

\* The starter's end of the connections cs is closed.
closeConns(cs) ==
  conns' = [c \in Conn |-> IF c \in cs THEN [conns[c] EXCEPT !.starter = FALSE, !.toStarter = <<>>]
                          ELSE conns[c]]

\* Close: of the connection in service and, with the listener, of the backlog.  A
\* connection that readConn gave up is nobody's to close.
relayCloses ==
  /\ closeConns({current} \cup (accepted + 1)..MaxDials)
  /\ manage' = "stopped" /\ pump' = "stopped" /\ current' = 0 /\ target' = 0
  /\ UNCHANGED <<dialled, accepted, expired>>

\* The end of the starter's process.
relayDies ==
  /\ closeConns(Conn)
  /\ manage' = "stopped" /\ pump' = "stopped" /\ current' = 0 /\ target' = 0
  /\ UNCHANGED <<dialled, accepted, expired>>
=============================================================================
