--------------------------- MODULE StarterChannel ---------------------------
(***************************************************************************)
(* What the messages on the control channel do: the gap between two        *)
(* startds, the starter's life as the startd sees it, the flight of the    *)
(* syscall connection, and the order of Final and Exited.                  *)
(***************************************************************************)
EXTENDS StarterProofs

-----------------------------------------------------------------------------
(* The messages in transit. *)

\* One queue may lose its head, be emptied, or take the message m.
Queued(q, r, S) ==
  \/ r = q \/ r = <<>>
  \/ q # <<>> /\ r = Tail(q)
  \/ \E m \in S : r = Append(q, m)

\* What a step does to the queues of connection c.
ConnMoves(c) ==
  /\ Queued(conns[c].toStarter, conns'[c].toStarter,
            (Inbound \ Vacates) \cup (Vacates \cap told'))
  /\ Queued(conns[c].toStartd, conns'[c].toStartd, {pump} \cap Outbound)

\* Nothing gets into a connection but what its ends wrote: the startd's messages
\* one way, what the pump holds the other.
LEMMA ConnsMove ==
  ASSUME RelayInv, RelayStep, NEW c \in Conn
  PROVE  ConnMoves(c)
<1> DEFINE S == (Inbound \ Vacates) \cup (Vacates \cap told')
           T == {pump} \cap Outbound
           Moved(e) == Queued(conns[c].toStarter, e.toStarter, S) /\ Queued(conns[c].toStartd, e.toStartd, T)
<1> SUFFICES Moved(conns'[c])
  BY DEF ConnMoves
<1>1. /\ conns \in [Conn -> Connections] /\ conns[c] \in Connections
      /\ Moved(conns[c])
  BY DEF RelayInv, RelayTypes, Queued
<1>2. ASSUME NEW k, NEW e, conns' = [conns EXCEPT ![k] = e], k = c => Moved(e)
      PROVE  Moved(conns'[c])
  <2>1. CASE k = c
    <3>1. conns'[c] = e
      BY <1>1, <1>2, <2>1
    <3>2. QED
      BY <1>2, <2>1, <3>1
  <2>2. CASE k # c
    <3>1. conns'[c] = conns[c]
      BY <1>1, <1>2, <2>2
    <3>2. QED
      BY <1>1, <3>1
  <2>3. QED
    BY <2>1, <2>2
<1>3. ASSUME UNCHANGED conns
      PROVE  Moved(conns'[c])
  BY <1>1, <1>3
<1>5. CASE dial
  <2> DEFINE k == dialled + 1
             e == [conns[k] EXCEPT !.startd = TRUE, !.starter = TRUE]
  <2>1. conns' = [conns EXCEPT ![k] = e]
    BY <1>1, <1>5, Zenon DEF dial
  <2>2. k = c => e.toStarter = conns[c].toStarter /\ e.toStartd = conns[c].toStartd
    BY <1>1, Zenon DEF Connections
  <2> HIDE DEF e
  <2>3. QED
    BY <1>2, <2>1, <2>2, Zenon DEF Queued
<1>6. CASE hangUp
  <2> DEFINE k == dialled
             e == [conns[k] EXCEPT !.startd = FALSE, !.toStartd = <<>>]
  <2>1. CASE dialled = 0
    BY <1>3, <1>6, <2>1 DEF hangUp
  <2>2. CASE dialled # 0
    <3>1. conns' = [conns EXCEPT ![k] = e]
      BY <1>1, <1>6, <2>2, Zenon DEF hangUp
    <3>2. k = c => e.toStarter = conns[c].toStarter /\ e.toStartd = <<>>
      BY <1>1, Zenon DEF Connections
    <3> HIDE DEF e
    <3>3. QED
      BY <1>2, <3>1, <3>2, Zenon DEF Queued
  <2>3. QED
    BY <2>1, <2>2
<1>7. CASE TakesReply
  <2> DEFINE k == dialled
             q == conns[k].toStartd
             e == [conns[k] EXCEPT !.toStartd = Tail(q)]
  <2>1. conns' = [conns EXCEPT ![k] = e] /\ q # <<>>
    BY <1>1, <1>7, Zenon DEF TakesReply
  <2>2. k = c => e.toStarter = conns[c].toStarter /\ e.toStartd = Tail(q)
    BY <1>1, Zenon DEF Connections
  <2> HIDE DEF e
  <2>3. QED
    BY <1>2, <2>1, <2>2 DEF Queued
<1>8. ASSUME NEW m \in S, write(m)
      PROVE  Moved(conns'[c])
  <2> DEFINE k == dialled
             q == conns[k].toStarter
             e == [conns[k] EXCEPT !.toStarter = Append(q, m)]
  <2>1. conns' = [conns EXCEPT ![k] = e]
    BY <1>1, <1>8, Zenon DEF write
  <2>2. k = c => e.toStarter = Append(q, m) /\ e.toStartd = conns[c].toStartd
    BY <1>1, Zenon DEF Connections
  <2> HIDE DEF e, S
  <2>3. QED
    BY <1>2, <2>1, <2>2 DEF Queued
<1>9. CASE LastWord
  <2> DEFINE k == dialled
             q == conns[k].toStarter
             e == [conns[k] EXCEPT !.toStarter = Append(q, "VacateHard"), !.startd = FALSE,
                                   !.toStartd = <<>>]
  <2>1. conns' = [conns EXCEPT ![k] = e] /\ "VacateHard" \in S
    BY <1>1, <1>9, Zenon DEF LastWord, Vacates
  <2>2. k = c => e.toStarter = Append(q, "VacateHard") /\ e.toStartd = <<>>
    BY <1>1, Zenon DEF Connections
  <2> HIDE DEF e, S
  <2>3. QED
    BY <1>2, <2>1, <2>2 DEF Queued
<1>10. CASE readConn
  <2> DEFINE k == current
             q == conns[k].toStarter
             e == [conns[k] EXCEPT !.toStarter = Tail(q)]
  <2>1. conns' = [conns EXCEPT ![k] = e] /\ q # <<>>
    BY <1>1, <1>10, Zenon DEF readConn
  <2>2. k = c => e.toStarter = Tail(q) /\ e.toStartd = conns[c].toStartd
    BY <1>1, Zenon DEF Connections
  <2> HIDE DEF e
  <2>3. QED
    BY <1>2, <2>1, <2>2 DEF Queued
<1>11. CASE pumpOutbound
  <2> DEFINE k == target
             q == conns[k].toStartd
             e == [conns[k] EXCEPT !.toStartd = Append(q, pump)]
  <2>1. UNCHANGED conns \/ conns' = [conns EXCEPT ![k] = e]
    BY <1>1, <1>11, Zenon DEF pumpOutbound
  <2>2. k = c => e.toStarter = conns[c].toStarter /\ e.toStartd = Append(q, pump)
    BY <1>1, Zenon DEF Connections
  <2>3. pump \in T
    BY <1>11 DEF pumpOutbound, RelayInv
  <2> HIDE DEF e, T
  <2>4. QED
    BY <1>2, <1>3, <2>1, <2>2, <2>3, Zenon DEF Queued
<1>12. ASSUME NEW cs, closeConns(cs)
       PROVE  Moved(conns'[c])
  <2> DEFINE e == [conns[c] EXCEPT !.starter = FALSE, !.toStarter = <<>>]
  <2>1. conns'[c] = conns[c] \/ conns'[c] = e
    BY <1>12, Zenon DEF closeConns
  <2>2. e.toStarter = <<>> /\ e.toStartd = conns[c].toStartd
    BY <1>1, Zenon DEF Connections
  <2> HIDE DEF e
  <2>3. QED
    BY <1>1, <2>1, <2>2 DEF Queued
<1>13. CASE \/ UNCHANGED relayVars \/ accept \/ forwarded \/ leaseElapses
            \/ (\E broken : connLost(broken)) \/ (\E m \in Outbound : pumpTakes(m)) \/ pumpPicks
  BY <1>3, <1>13 DEF relayVars, accept, forwarded, connLost, leaseElapses, pumpTakes, pumpPicks
<1>14. CASE relayCloses \/ relayDies
  BY <1>12, <1>14, Zenon DEF relayCloses, relayDies
<1>15. QED
  BY <1>5, <1>6, <1>7, <1>8, <1>9, <1>10, <1>11, <1>13, <1>14 DEF RelayStep

-----------------------------------------------------------------------------
(* GapKeepsJob. *)

\* Why Run's control channel ends.
ChannelInv ==
  ~pipe \/ ~ctrlOpen => ctx \/ expired \/ pc \in {"done", "killed"}

\* Nothing on its way to Run is a vacate that no startd sent.
UntoldInv ==
  told = {} =>
    /\ ctrlCh \in Seq(Control \ Vacates) /\ manage \notin Vacates
    /\ \A c \in Conn : conns[c].toStarter \in Seq(Inbound \ Vacates)

GapInv == GapKeepsJob /\ ChannelInv /\ UntoldInv

\* Nothing has been sent and nobody told to go at first.
LEMMA InitGap == Init => GapInv
<1> SUFFICES ASSUME Init PROVE GapInv
  OBVIOUS
<1>1. GapKeepsJob /\ ChannelInv
  BY DEF Init, RunInit, GapKeepsJob, ChannelInv
<1>2. \A c \in Conn : conns[c].toStarter = <<>>
  BY Zenon DEF Init, RelayInit, NoConn
<1>3. ctrlCh = <<>> /\ manage = "none"
  BY DEF Init, RunInit, RelayInit
<1>4. <<>> \in Seq(Control \ Vacates) /\ <<>> \in Seq(Inbound \ Vacates) /\ "none" \notin Vacates
  BY DEF Vacates
<1>5. QED
  BY <1>1, <1>2, <1>3, <1>4, Zenon DEF GapInv, UntoldInv

\* A gap lease that has elapsed stays so.
LEMMA ExpiredStays ==
  RelayStep => expired' = expired \/ expired' = TRUE
<1>1. dial \/ hangUp \/ TakesReply \/ LastWord \/ (\E m : write(m)) => expired' = expired
  BY DEF dial, hangUp, TakesReply, LastWord, write
<1>2. accept \/ readConn \/ forwarded \/ (\E broken : connLost(broken)) => expired' = expired
  BY DEF accept, readConn, forwarded, connLost
<1>3. (\E m : pumpTakes(m)) \/ pumpPicks \/ pumpOutbound \/ relayCloses \/ relayDies
        => expired' = expired
  BY DEF pumpTakes, pumpPicks, pumpOutbound, relayCloses, relayDies
<1>4. leaseElapses => expired' = TRUE
  BY DEF leaseElapses
<1>5. UNCHANGED relayVars => expired' = expired
  BY DEF relayVars
<1>6. QED
  BY <1>1, <1>2, <1>3, <1>4, <1>5 DEF RelayStep

\* The control channel ends for a reason.
LEMMA ChannelNext ==
  ASSUME ChannelInv, RelayStep, Straight \/ Monitoring \/ Reconnecting \/ ControlStep \/ ProcessStep
  PROVE  ChannelInv'
<1> USE SetupFacts, ToldFacts, MessageFacts, ExpiredStays DEF ChannelInv, ctrlVars
<1>1. CASE Straight
  <2>1. CASE awaitActivate \/ syscallConn \/ syscallConnFails \/ startJob \/ upload \/ finalizeExpires
    BY <2>1, Zenon DEF awaitActivate, syscallConn, syscallConnFails, startJob, upload,
                       finalizeExpires
  <2>2. CASE setupStep(Process /\ Shadows # {}) \/ setupFails \/ tellShadow
    BY <2>2, Zenon DEF setupStep, setupFails, tellShadow
  <2>3. CASE (\E m \in Outbound : sends(m)) \/ sendFails
    BY <2>3 DEF sends, sendFails, sendDone
  <2>4. CASE runReturns
    BY <2>4 DEF runReturns
  <2>5. QED
    BY <1>1, <2>1, <2>2, <2>3, <2>4 DEF Straight
<1>2. CASE Monitoring
  BY <1>2, Zenon DEF Monitoring, monitorGivesUp, monitorMessage, monitorTick, reaped, jobOver,
                     jobExits, runVars
<1>3. CASE Reconnecting
  BY <1>3, Zenon DEF Reconnecting, monitorReconnect, acceptReconnect, abandonReconnect,
                     handleCACmd, handlerGivesUp, handlerReplies, runVars
<1>4. CASE ControlStep
  BY <1>4, Zenon DEF ControlStep, readerEnds, reads
<1>5. CASE ProcessStep
  BY <1>5 DEF ProcessStep
<1>6. QED
  BY <1>1, <1>2, <1>3, <1>4, <1>5

\* A queue that takes only messages of A stays a queue of those.
LEMMA QueuedStays ==
  ASSUME NEW A, NEW q \in Seq(A), NEW r, Queued(q, r, A)
  PROVE  r \in Seq(A)
<1>1. CASE r = q
  BY <1>1
<1>2. CASE r = <<>> \/ (q # <<>> /\ r = Tail(q))
  BY <1>2, QueueTypes, Zenon
<1>3. ASSUME NEW m \in A, r = Append(q, m)
      PROVE  r \in Seq(A)
  BY <1>3, QueueTypes
<1>4. QED
  BY <1>1, <1>2, <1>3 DEF Queued

\* While the startd has sent no vacate there is none anywhere on the way to Run.
LEMMA UntoldNext ==
  ASSUME UntoldInv, RelayInv, RelayInv', CtrlTypes, told \subseteq told', RelayStep,
         Straight \/ Monitoring \/ Reconnecting \/ ControlStep \/ ProcessStep
  PROVE  UntoldInv'
<1> SUFFICES ASSUME told' = {}
             PROVE  /\ ctrlCh' \in Seq(Control \ Vacates) /\ manage' \notin Vacates
                    /\ \A c \in Conn : conns'[c].toStarter \in Seq(Inbound \ Vacates)
  BY DEF UntoldInv
<1>1. /\ ctrlCh \in Seq(Control \ Vacates) /\ manage \notin Vacates
      /\ \A c \in Conn : conns[c].toStarter \in Seq(Inbound \ Vacates)
  BY DEF UntoldInv
<1>2. ASSUME NEW c \in Conn
      PROVE  conns'[c].toStarter \in Seq(Inbound \ Vacates)
  <2>1. Queued(conns[c].toStarter, conns'[c].toStarter, Inbound \ Vacates)
    <3>1. (Inbound \ Vacates) \cup (Vacates \cap told') = Inbound \ Vacates
      OBVIOUS
    <3>2. QED
      BY <3>1, ConnsMove DEF ConnMoves
  <2>2. QED
    BY <1>1, <2>1, QueuedStays, Zenon
<1>3. manage' \notin Vacates
  <2>1. CASE readConn
    <3>1. current \in Conn /\ conns[current].toStarter # <<>> /\ manage' = Head(conns[current].toStarter)
      BY <2>1, RelayAssumption DEF readConn, RelayInv, RelayTypes, Conn
    <3>2. Head(conns[current].toStarter) \in Inbound \ Vacates
      BY <1>1, <3>1
    <3>3. QED
      BY <3>1, <3>2
  <2>2. CASE \/ UNCHANGED relayVars \/ dial \/ hangUp \/ TakesReply \/ LastWord \/ (\E m : write(m))
             \/ (\E m \in Outbound : pumpTakes(m)) \/ pumpPicks \/ pumpOutbound
    BY <1>1, <2>2 DEF relayVars, dial, hangUp, TakesReply, LastWord, write, pumpTakes, pumpPicks,
                      pumpOutbound
  <2>3. CASE \/ accept \/ forwarded \/ (\E broken : connLost(broken)) \/ leaseElapses
             \/ relayCloses \/ relayDies
    BY <2>3 DEF accept, forwarded, connLost, leaseElapses, relayCloses, relayDies, Vacates
  <2>4. QED
    BY <2>1, <2>2, <2>3 DEF RelayStep
<1>4. ctrlCh' \in Seq(Control \ Vacates)
  <2>1. ASSUME ctrlCh' = ctrlCh \/ (ctrlCh # <<>> /\ ctrlCh' = Tail(ctrlCh))
        PROVE  ctrlCh' \in Seq(Control \ Vacates)
    BY <1>1, <2>1
  <2>2. Straight => ctrlCh' = ctrlCh \/ (ctrlCh # <<>> /\ ctrlCh' = Tail(ctrlCh))
    BY Zenon DEF Straight, awaitActivate, syscallConn, syscallConnFails, setupStep, setupFails,
                 startJob, sends, sendFails, sendDone, finalizeExpires, tellShadow, upload,
                 runReturns, ctrlVars
  <2>3. Monitoring => ctrlCh' = ctrlCh \/ (ctrlCh # <<>> /\ ctrlCh' = Tail(ctrlCh))
    BY Zenon DEF Monitoring, monitorGivesUp, monitorMessage, monitorTick, reaped, jobOver,
                 jobExits, runVars, ctrlVars
  <2>4. Reconnecting => ctrlCh' = ctrlCh
    BY Zenon DEF Reconnecting, monitorReconnect, acceptReconnect, abandonReconnect, handleCACmd,
                 handlerGivesUp, handlerReplies, runVars, ctrlVars
  <2>5. ProcessStep => ctrlCh' = ctrlCh
    BY DEF ProcessStep, ctrlVars
  <2>6. ASSUME ControlStep
        PROVE  ctrlCh' \in Seq(Control \ Vacates)
    <3>1. CASE readerEnds
      <4>1. Len(ctrlCh) > CtrlCap => SubSeq(ctrlCh, 1, CtrlCap) \in Seq(Control \ Vacates)
        BY <1>1, RunAssumption
      <4>2. QED
        BY <1>1, <3>1, <4>1 DEF readerEnds
    <3>2. ASSUME NEW m \in {"Activate", manage} \cup told', reads(m), m \in Inbound \ {"SyscallConnFollows"}
          PROVE  ctrlCh' \in Seq(Control \ Vacates)
      <4>1. m \in Control \ Vacates
        BY <1>1, <3>2 DEF Inbound, Control, Vacates
      <4>2. QED
        BY <1>1, <3>2, <4>1 DEF reads
    <3>3. QED
      BY <1>1, <2>6, <3>1, <3>2, Zenon DEF ControlStep, ctrlVars
  <2>7. QED
    BY <2>1, <2>2, <2>3, <2>4, <2>5, <2>6
<1>5. QED
  BY <1>2, <1>3, <1>4

\* The monitor loop tells the job to go only on a vacate message, a cancelled
\* context or the closed channel of an elapsed lease.
LEMMA GapNext ==
  ASSUME GapInv, ChannelInv', UntoldInv', told \subseteq told', RelayStep, CtrlTypes,
         Straight \/ Monitoring \/ Reconnecting \/ ControlStep \/ ProcessStep
  PROVE  GapInv'
<1> SUFFICES GapKeepsJob'
  BY DEF GapInv
<1>1. ASSUME vacated' => vacated, ctx => ctx'
      PROVE  GapKeepsJob'
  <2>1. told # {} => told' # {}
    OBVIOUS
  <2>2. expired => expired'
    BY ExpiredStays, Zenon
  <2>3. QED
    BY <1>1, <2>1, <2>2 DEF GapInv, GapKeepsJob
<1>2. CASE Straight
  <2>1. Straight => UNCHANGED <<vacated, ctx>>
    BY Zenon DEF Straight, awaitActivate, syscallConn, syscallConnFails, setupStep, setupFails,
                 startJob, sends, sendFails, sendDone, finalizeExpires, tellShadow, upload,
                 runReturns, ctrlVars, endVars
  <2>2. QED
    BY <1>1, <1>2, <2>1
<1>3. CASE Monitoring
  <2>1. CASE monitorGivesUp
    <3>1. pc = "monitor" /\ (ctx \/ ~ctrlOpen) /\ ctx' = ctx
      BY <2>1 DEF monitorGivesUp, ctrlClosed, ctrlVars
    <3>2. ctx \/ expired
      BY <3>1 DEF GapInv, ChannelInv
    <3>3. expired => expired'
      BY ExpiredStays, Zenon
    <3>4. QED
      BY <3>1, <3>2, <3>3 DEF GapKeepsJob
  <2>2. CASE monitorMessage
    <3>1. CASE told = {}
      <4>1. Head(ctrlCh) \notin Vacates
        BY <2>2, <3>1 DEF monitorMessage, GapInv, UntoldInv
      <4>2. (vacated' => vacated) /\ ctx' = ctx
        BY <2>2, <4>1, Zenon DEF monitorMessage, Vacates
      <4>3. QED
        BY <1>1, <4>2
    <3>2. CASE told # {}
      BY <3>2 DEF GapKeepsJob
    <3>3. QED
      BY <3>1, <3>2
  <2>3. CASE monitorTick \/ reaped \/ jobExits
    <3>1. UNCHANGED <<vacated, ctx>>
      BY <2>3, Zenon DEF monitorTick, reaped, jobOver, jobExits, runVars, ctrlVars, endVars
    <3>2. QED
      BY <1>1, <3>1
  <2>4. QED
    BY <1>3, <2>1, <2>2, <2>3 DEF Monitoring
<1>4. CASE Reconnecting
  <2>1. UNCHANGED <<vacated, ctx>>
    BY <1>4, Zenon DEF Reconnecting, monitorReconnect, acceptReconnect, abandonReconnect,
                       handleCACmd, handlerGivesUp, handlerReplies, runVars, ctrlVars, endVars
  <2>2. QED
    BY <1>1, <2>1
<1>5. CASE ControlStep
  <2>1. vacated' = vacated
    BY <1>5 DEF ControlStep, endVars
  <2>2. ctx => ctx'
    BY <1>5, Zenon DEF ControlStep, readerEnds, reads, ctrlVars
  <2>3. QED
    BY <1>1, <2>1, <2>2
<1>6. CASE ProcessStep
  <2>1. UNCHANGED <<vacated, ctx>>
    BY <1>6 DEF ProcessStep, ctrlVars, endVars
  <2>2. QED
    BY <1>1, <2>1
<1>7. QED
  BY <1>2, <1>3, <1>4, <1>5, <1>6

\* A startd that is gone, for however long and however often it comes back, does
\* not cost a job its life before the gap lease elapses.
THEOREM GapIsHarmless == Spec => []GapKeepsJob
<1>1. Spec => [](RelayInv /\ TypeOK)
  BY RelayHolds, TypeCorrect, PTL
<1>2. TypeOK => CtrlTypes /\ StartdTypes
  BY DEF TypeOK, RunTypes, CtrlTypes, StartdTypes, Control
<1>3. /\ GapInv /\ RelayInv /\ TypeOK /\ Listening
      /\ RelayInv' /\ [Next]_vars
      => GapInv' /\ Listening'
  <2> SUFFICES ASSUME GapInv, RelayInv, TypeOK, Listening, RelayInv', [Next]_vars
               PROVE  GapInv' /\ Listening'
    OBVIOUS
  <2>1. CASE Next
    <3>1. told \subseteq told' /\ RelayStep
      BY <1>2, <2>1, StartdMoves, RelayKinds
    <3>2. ChannelInv' /\ UntoldInv'
      BY <1>2, <2>1, <3>1, StepKinds, ChannelNext, UntoldNext DEF GapInv
    <3>3. QED
      BY <1>2, <2>1, <3>1, <3>2, StepKinds, GapNext, ListeningNext
  <2>2. CASE UNCHANGED vars
    <3>1. Listening'
      BY <2>2, ListeningNext
    <3>2. GapInv'
      BY <2>2 DEF vars, starterVars, runVars, ctrlVars, endVars, relayVars, startdVars, GapInv,
                  GapKeepsJob, ChannelInv, UntoldInv
    <3>3. QED
      BY <3>1, <3>2
  <2>3. QED
    BY <2>1, <2>2
<1>4. GapInv => GapKeepsJob
  BY DEF GapInv
<1>5. QED
  BY <1>1, <1>3, <1>4, InitGap, InitListening, PTL DEF Spec

-----------------------------------------------------------------------------
(* StarterLife. *)

\* Run is under way only in a starter that runs.
Over == {"idle", "done", "killed"}

RunningInv == pc \notin Over => proc = "running"

\* How the starter's process may change.
ProcStep ==
  \/ proc' = proc
  \/ proc = "listening" /\ proc' = "running"
  \/ proc = "running" /\ proc' = "exited" /\ pc' \in Over
  \/ proc \in {"listening", "running"} /\ proc' = "lost" /\ pc' \in Over

\* Every step moves the process only along its life, the hard-vacate request included.
LEMMA ProcSteps ==
  ASSUME RunningInv, Listening, Next
  PROVE  ProcStep
<1>1. UNCHANGED procVars => ProcStep
  BY DEF procVars, ProcStep
<1>2. Supervise => ProcStep
  BY <1>1, Zenon DEF Supervise, supConnects, supEnds, supActivates, supReattaches, supTakesConn,
                     supSendsConn, supKeepsCopy, supReads
<1>3. /\ handlerPasses \/ loopWindsDown \/ loopKills => ProcStep
      /\ startdLeaves \/ startdReturns => ProcStep
      /\ \A m : supVacates(m) => ProcStep
  BY <1>1 DEF handlerPasses, loopWindsDown, loopKills, startdLeaves, startdReturns, supVacates,
              procVars
<1>4. backstopFires => ProcStep
  BY DEF backstopFires, Up, ProcStep, Over
<1>5. Manage \/ relayPumps => ProcStep
  BY <1>1, Zenon DEF Manage, relayServes, relayLosesConn, gapLeaseElapses, relayPumps
<1>6. starterAccepts => ProcStep
  BY DEF starterAccepts, ProcStep
<1>7. starterAbandoned \/ mainExits => ProcStep
  BY DEF starterAbandoned, mainExits, ProcStep, Over, Listening, runVars
<1>8. runTakesConn \/ runStep \/ runAccepts \/ expire => ProcStep
  BY <1>1 DEF runTakesConn, runStep, runAccepts, expire
<1>9. runEnds => ProcStep
  BY DEF runEnds, runReturns, RunningInv, ProcStep, Over
<1>10. runMonitors \/ readerStep \/ tick \/ jobEnds \/ signalled => ProcStep
  BY <1>1 DEF runMonitors, readerStep, tick, jobEnds, signalled
<1>11. shadowReconnects \/ handlerSteps => ProcStep
  BY <1>1 DEF shadowReconnects, handlerSteps
<1>12. QED
  BY <1>2, <1>3, <1>4, <1>5, <1>6, <1>7, <1>8, <1>9, <1>10, <1>11 DEF Next, Main

\* Run ends with its starter, and does not begin before it.
LEMMA RunningNext ==
  ASSUME RunningInv, Listening, Next
  PROVE  RunningInv'
<1>1. Straight => pc \notin Over
  BY SetupFacts, ToldFacts, MessageFacts, Zenon DEF Straight, awaitActivate, syscallConn,
                                                    syscallConnFails, setupStep, setupFails,
                                                    startJob, sends, sendFails, finalizeExpires,
                                                    tellShadow, upload, runReturns, Over
<1>2. Monitoring => UNCHANGED pc \/ pc \notin Over
  BY DEF Monitoring, monitorGivesUp, monitorMessage, monitorTick, reaped, jobExits, runVars, Over
<1>3. Reconnecting => UNCHANGED pc \/ pc \notin Over
  BY DEF Reconnecting, monitorReconnect, acceptReconnect, abandonReconnect, handleCACmd,
         handlerGivesUp, handlerReplies, runVars, Over
<1>4. ControlStep => UNCHANGED pc
  BY DEF ControlStep
<1>5. ProcessStep => pc' \in Over \/ proc' = "running"
  BY DEF ProcessStep, Over
<1>6. pc' \in Over \/ proc' = "running" \/ UNCHANGED pc \/ pc \notin Over
  BY <1>1, <1>2, <1>3, <1>4, <1>5, StepKinds
<1>7. QED
  BY <1>6, ProcSteps DEF RunningInv, ProcStep

\* Run does not give its syscall connection up while the starter runs, and has
\* none before.
LEMMA SocketKept ==
  ASSUME SocketInv, Listening, Next
  PROVE  /\ socket # None => socket' # None
         /\ proc = "listening" => UNCHANGED socket
<1> USE DEF Listening
<1>1. CASE Straight
  BY <1>1, SetupFacts, ToldFacts, MessageFacts, Zenon DEF Straight, awaitActivate, syscallConn,
                                                          syscallConnFails, setupStep, setupFails,
                                                          startJob, sends, sendFails, sendDone,
                                                          finalizeExpires, tellShadow, upload,
                                                          runReturns, reconnectVars, First, None
<1>2. CASE Monitoring
  BY <1>2, Zenon DEF Monitoring, monitorGivesUp, monitorMessage, monitorTick, reaped, jobOver,
                     jobExits, reconnectVars
<1>3. CASE Reconnecting
  BY <1>3 DEF Reconnecting, monitorReconnect, acceptReconnect, abandonReconnect, handleCACmd,
              handlerGivesUp, handlerReplies, SocketInv
<1>4. CASE ControlStep \/ ProcessStep
  BY <1>4, Zenon DEF ControlStep, ProcessStep, reconnectVars
<1>5. QED
  BY <1>1, <1>2, <1>3, <1>4, StepKinds

\* The starter that Starter.tla describes, with its relay, its job and a startd
\* that comes and goes, is the starter that Startd.tla takes it for (the safety
\* part of StarterLifeSpec).
THEOREM StarterLifeImplemented == Spec => Life!SpawnedSafe
<1> USE DEF Phase
<1>1. Init => RunningInv /\ Life!SpawnedSafe!1
  BY DEF Init, RunInit, RunningInv, Over
<1>2. /\ RunningInv /\ Listening /\ SocketInv /\ TypeOK /\ [Next]_vars
      => RunningInv' /\ Listening' /\ [Life!Next]_Phase
  <2> SUFFICES ASSUME RunningInv, Listening, SocketInv, TypeOK, [Next]_vars
               PROVE  RunningInv' /\ Listening' /\ [Life!Next]_Phase
    OBVIOUS
  <2>1. CASE Next
    <3>1. told \subseteq told'
      BY <2>1, StartdMoves DEF TypeOK, StartdTypes
    <3>2. /\ socket # None => socket' # None
          /\ proc = "listening" => UNCHANGED socket
      BY <2>1, SocketKept
    <3>3. ProcStep
      BY <2>1, ProcSteps
    <3>4. [Life!Next]_Phase
      <4>1. CASE proc' = proc
        BY <3>1, <3>2, <4>1 DEF Life!Next, Life!vacated, Listening
      <4>2. CASE proc = "listening" /\ proc' = "running"
        BY <3>2, <4>2 DEF Life!Next, Life!started, Listening
      <4>3. CASE proc = "running" /\ proc' \in {"exited", "lost"}
        BY <4>3 DEF Life!Next, Life!ended, Life!Ended
      <4>4. CASE proc = "listening" /\ proc' = "lost"
        BY <4>4 DEF Life!Next, Life!started
      <4>5. QED
        BY <3>3, <4>1, <4>2, <4>3, <4>4 DEF ProcStep
    <3>5. QED
      BY <2>1, <3>4, RunningNext, ListeningNext
  <2>2. CASE UNCHANGED vars
    BY <2>2, ListeningNext DEF vars, starterVars, runVars, procVars, startdVars, reconnectVars,
                               RunningInv
  <2>3. QED
    BY <2>1, <2>2
<1>3. QED
  BY <1>1, <1>2, InitListening, SocketHolds, TypeCorrect, PTL DEF Spec, Life!SpawnedSafe

-----------------------------------------------------------------------------
(* HeldInFlight. *)

\* The starter has sent nothing yet.
Silent ==
  /\ pc \in {"idle", "activate", "conn", "return", "done", "killed"}
  /\ pump \notin Outbound
  /\ \A c \in Conn : conns[c].toStartd = <<>>

\* The descriptor is yet to be sent.
Unsent == refs \cap {"handler", "pending"} # {} \/ sup \in {"send", "pass"}

\* The connection is in one place after the other, and the starter is silent until
\* it has it.
HandInv ==
  /\ HeldInFlight
  /\ "flight" \in refs => Process /\ ~Unsent
  /\ Process /\ (Unsent \/ "flight" \in refs) => Silent /\ "queue" \notin refs
  /\ "handler" \in refs <=> handler \in {"reply", "marked", "panic"}
  /\ handler \in {"marked", "panic"} => ~Process
  /\ "pending" \in refs => handler = "passed" /\ Process
  /\ sup \in {"send", "pass"} => handler = "passed" /\ "pending" \notin refs /\ Process

\* The command handler holds the connection at first.
LEMMA InitHand == Init => HandInv
<1> SUFFICES ASSUME Init PROVE HandInv
  OBVIOUS
<1>1. /\ refs = {"handler"} /\ handler = "reply" /\ sup = "connect" /\ pump = "none"
      /\ conns = [c \in Conn |-> NoConn] /\ pc = IF Process THEN "idle" ELSE "activate"
  BY DEF Init, HandoffInit, RelayInit
<1>2. \A c \in Conn : conns[c].toStartd = <<>>
  BY <1>1 DEF NoConn
<1>3. Process => Silent
  BY <1>1, <1>2 DEF Silent, Outbound
<1>4. QED
  BY <1>1, <1>3 DEF HandInv, HeldInFlight

\* A starter that does not take its syscall connection stays silent.
LEMMA SilentStays ==
  ASSUME Silent, Next, Listening, RelayInv, "queue" \notin refs
  PROVE  Silent'
<1> DEFINE Quiet == {"idle", "activate", "conn", "return", "done", "killed"}
<1>1. pc' \in Quiet
  <2>1. CASE Straight
    BY <2>1, SetupFacts, ToldFacts, MessageFacts, Zenon DEF Straight, awaitActivate,
                                                            takeSyscallConn, syscallConnFails,
                                                            setupStep, setupFails, startJob,
                                                            sends, sendFails, finalizeExpires,
                                                            tellShadow, upload, runReturns, Silent
  <2>2. CASE Monitoring
    BY <2>2 DEF Monitoring, monitorGivesUp, monitorMessage, monitorTick, reaped, jobExits, runVars,
                Silent
  <2>3. CASE Reconnecting
    BY <2>3 DEF Reconnecting, monitorReconnect, acceptReconnect, abandonReconnect, handleCACmd,
                handlerGivesUp, handlerReplies, runVars, Silent
  <2>4. CASE ControlStep \/ ProcessStep
    BY <2>4, Zenon DEF ControlStep, ProcessStep, Silent
  <2>5. QED
    BY <2>1, <2>2, <2>3, <2>4, StepKinds
<1>2. RelayStep
  BY RelayKinds
<1>3. pump' \notin Outbound
  <2>1. pc \notin DOMAIN Message /\ pump \notin Outbound
    BY MessageFacts DEF Silent
  <2>2. "read" \notin Outbound /\ "stopped" \notin Outbound
    BY DEF Outbound
  <2>3. QED
    BY <1>2, <2>1, <2>2, Zenon DEF RelayStep, relayVars, dial, hangUp, TakesReply, LastWord,
                                   write, accept, readConn, forwarded, connLost, leaseElapses,
                                   sends, pumpPicks, pumpOutbound, relayCloses, relayDies
<1>4. ASSUME NEW c \in Conn
      PROVE  conns'[c].toStartd = <<>>
  <2>1. Queued(conns[c].toStartd, conns'[c].toStartd, {pump} \cap Outbound)
    BY <1>2, ConnsMove DEF ConnMoves
  <2>2. conns[c].toStartd = <<>> /\ {pump} \cap Outbound = {}
    BY DEF Silent
  <2>3. QED
    BY <2>1, <2>2 DEF Queued
<1>5. QED
  BY <1>1, <1>3, <1>4 DEF Silent

\* Only FinishActivation sends a descriptor.
LEMMA SupMoves ==
  ASSUME Next, sup' \in {"send", "pass"}
  PROVE  sup' = sup \/ supTakesConn \/ supSendsConn
<1> DEFINE Goal == sup' = sup \/ supTakesConn \/ supSendsConn
<1>1. UNCHANGED startdVars => Goal
  BY DEF startdVars
<1>2. Supervise => Goal
  BY DEF Supervise, supConnects, supEnds, supActivates, supReattaches, supKeepsCopy, supReads,
         supGoes, supHears
<1>3. loopWindsDown \/ loopKills \/ backstopFires \/ startdLeaves \/ startdReturns => Goal
  BY DEF loopWindsDown, loopKills, backstopFires, startdLeaves, startdReturns
<1>4. handlerPasses \/ (\E m \in Vacates : supVacates(m)) => Goal
  BY <1>1 DEF handlerPasses, supVacates
<1>5. Manage \/ relayPumps => Goal
  BY <1>1, Zenon DEF Manage, relayServes, relayLosesConn, gapLeaseElapses, relayPumps
<1>6. Main => Goal
  BY <1>1 DEF Main, starterAccepts, starterAbandoned, runTakesConn, runStep, runAccepts, expire,
              runEnds, mainExits
<1>7. runMonitors \/ readerStep \/ tick \/ jobEnds \/ signalled \/ shadowReconnects \/ handlerSteps
        => Goal
  BY <1>1 DEF runMonitors, readerStep, tick, jobEnds, signalled, shadowReconnects, handlerSteps
<1>8. QED
  BY <1>2, <1>3, <1>4, <1>5, <1>6, <1>7 DEF Next, Vacates

\* The connection moves on, or is let go of, and the starter stays silent until it
\* has it.
LEMMA HandNext ==
  ASSUME HandInv, Next, Listening, RelayInv
  PROVE  HandInv'
<1> DEFINE Waiting == Process /\ (Unsent \/ "flight" \in refs)
<1>1. Waiting => Silent'
  BY SilentStays DEF HandInv
<1>2. HandoffStep
  BY HandoffMoves
<1> HIDE DEF Silent
<1> USE DEF HandInv, HeldInFlight, Unsent, Process
<1>3. CASE supTakesConn \/ supSendsConn
  <2>1. CASE supTakesConn
    BY <1>1, <2>1 DEF supTakesConn, takePending, moves, supGoes
  <2>2. ASSUME sup = "send", sup' = "pass", UNCHANGED handoffVars
        PROVE  HandInv'
    BY <1>1, <2>2 DEF handoffVars
  <2>3. ASSUME sup = "pass", sup' = "keep", sendDescriptor(TRUE)
        PROVE  HandInv'
    BY <1>1, <2>3 DEF sendDescriptor
  <2>4. ASSUME sup \in {"send", "pass"}, sup' = "exit", sendDescriptor(FALSE)
        PROVE  HandInv'
    BY <1>1, <2>4 DEF sendDescriptor
  <2>5. QED
    BY <1>3, <2>1, <2>2, <2>3, <2>4, Zenon DEF supSendsConn, supGoes
<1>4. CASE ~(supTakesConn \/ supSendsConn)
  <2>1. sup' \in {"send", "pass"} => sup' = sup
    BY <1>4, SupMoves
  <2>2. ASSUME refs' \subseteq refs, "handler" \in refs => "handler" \in refs',
               UNCHANGED <<mode, handler>>, closed => closed',
               (refs \cap {"sending", "handedOff"} \subseteq refs') \/ closed'
        PROVE  HandInv'
    BY <1>1, <2>1, <2>2
  <2>3. CASE UNCHANGED handoffVars
    BY <2>2, <2>3 DEF handoffVars
  <2>4. CASE passSyscallConn
    BY <1>1, <2>1, <2>4 DEF passSyscallConn, moves
  <2>5. CASE sendInproc
    BY <1>1, <2>1, <2>5 DEF sendInproc, moves
  <2>6. CASE passFails
    BY <1>1, <2>1, <2>6 DEF passFails
  <2>7. CASE supKeepsCopy
    BY <1>1, <2>1, <2>7 DEF supKeepsCopy, keepCopy, moves
  <2>8. ASSUME NEW m \in Outbound, supReads(m)
        PROVE  HandInv'
    <3>1. "flight" \notin refs
      <4>1. Process => dialled \in Conn /\ conns[dialled].toStartd # <<>>
        BY <2>8 DEF supReads, Connected, RelayInv, RelayTypes, Conn
      <4>2. QED
        BY <4>1 DEF Silent
    <3>2. refs' = refs \ {"handedOff"} /\ UNCHANGED <<mode, handler, closed>>
      BY <2>8 DEF supReads, supHears, ReleaseSyscallConn
    <3>3. QED
      BY <1>1, <2>1, <3>1, <3>2
  <2>9. CASE closeTransport
    BY <2>2, <2>9 DEF closeTransport
  <2>10. CASE startdLeaves
    BY <1>1, <2>1, <2>10 DEF startdLeaves, startdDies
  <2>11. CASE receiveSyscallConn
    BY <1>1, <2>1, <2>11 DEF receiveSyscallConn, moves
  <2>12. CASE receiveFails
    BY <2>2, <2>12 DEF receiveFails
  <2>13. CASE takeSyscallConn
    BY <1>1, <2>1, <2>13 DEF takeSyscallConn, moves
  <2>14. ASSUME refs' \in {refs \ {"flight", "queue", "run"}, refs \ {"run", "queue"},
                           refs \ {"run"}, refs \ {"run", "flight"}},
                closed' \in {closed, TRUE}, UNCHANGED <<mode, handler>>
         PROVE  HandInv'
    <3>1. closed => closed'
      BY <2>14, Zenon
    <3>2. /\ refs' \subseteq refs /\ (refs \cap {"sending", "handedOff"} \subseteq refs')
          /\ "handler" \in refs => "handler" \in refs'
      BY <2>14
    <3>3. QED
      BY <2>2, <2>14, <3>1, <3>2
  <2>15. QED
    BY <1>2, <1>4, <2>3, <2>4, <2>5, <2>6, <2>7, <2>8, <2>9, <2>10, <2>11, <2>12, <2>13, <2>14, Zenon
    DEF HandoffStep, handlerPasses
<1>5. QED
  BY <1>3, <1>4

\* The startd does not let go of the shadow's connection while the descriptor it
\* sent is unread.
THEOREM FlightIsSafe == Spec => []HeldInFlight
<1>1. HandInv /\ Listening /\ RelayInv /\ [Next]_vars => HandInv' /\ Listening'
  <2> SUFFICES ASSUME HandInv, Listening, RelayInv, [Next]_vars
               PROVE  HandInv' /\ Listening'
    OBVIOUS
  <2>1. CASE Next
    BY <2>1, HandNext, ListeningNext
  <2>2. CASE UNCHANGED vars
    <3>1. HandInv'
      BY <2>2 DEF vars, starterVars, runVars, relayVars, handoffVars, startdVars, HandInv,
                  HeldInFlight, Silent, Unsent, Process
    <3>2. QED
      BY <2>2, <3>1, ListeningNext
  <2>3. QED
    BY <2>1, <2>2
<1>2. HandInv => HeldInFlight
  BY DEF HandInv
<1>3. QED
  BY <1>1, <1>2, InitHand, InitListening, RelayHolds, PTL DEF Spec

-----------------------------------------------------------------------------
(* FinalFirst. *)

\* In the replies q, and after the word h that was heard before them, Final comes
\* right before Exited; and it comes last.
Ordered(q, h) ==
  \A i \in 1..Len(q) : q[i] = "Exited" =>
    IF i = 1 THEN h = "Final" ELSE q[i - 1] = "Final"

FinalIsLast(q, h) ==
  IF q = <<>> THEN h = "Final" ELSE q[Len(q)] = "Final"

Replies == conns[1].toStartd

\* What the pump writes goes to the first connection, and the startd reads it.
Served == (target = 1 \/ (target = 0 /\ current = 1)) /\ conns[1].startd

\* Before a startd has redialled, Final is right before Exited wherever Exited is
\* on its way from Run to the supervisor.
OrderInv ==
  ~adopted =>
    /\ sup = "connect" \/ ~Process => dialled = 0
    /\ dialled <= 1
    /\ ~Process => pump \notin Outbound \cup {"read"}
    /\ accepted = 0 /\ Process => pc \in {"idle", "killed"} /\ pump \notin Outbound
    /\ Process /\ 1 \in Conn => Ordered(Replies, heard)
    /\ pump = "Exited" /\ Served => FinalIsLast(Replies, heard)
    /\ pc = "exited" /\ pipe /\ ~late =>
         IF Process THEN Served => pump = "Final" \/ (pump \notin Outbound /\ FinalIsLast(Replies, heard))
         ELSE heard = "Final"

\* Nothing is heard, sent or on its way at first.
LEMMA InitOrder == Init => OrderInv
<1> SUFFICES ASSUME Init PROVE OrderInv
  OBVIOUS
<1>1. /\ dialled = 0 /\ current = 0 /\ target = 0 /\ pump = "none" /\ conns = [c \in Conn |-> NoConn]
      /\ pc = IF Process THEN "idle" ELSE "activate"
  BY DEF Init, RelayInit
<1>2. 1 \in Conn => Replies = <<>>
  BY <1>1 DEF Replies, NoConn
<1>3. QED
  BY <1>1, <1>2 DEF OrderInv, Ordered, Served, Outbound

\* The supervisor takes the next reply.
LEMMA OrderTail ==
  ASSUME NEW q \in Seq(Outbound), NEW h, NEW g, q # <<>>, Ordered(q, h),
         g = IF Head(q) \in {"Final", "Exited"} THEN Head(q) ELSE "alive"
  PROVE  /\ Ordered(Tail(q), g)
         /\ FinalIsLast(q, h) => FinalIsLast(Tail(q), g)
         /\ Head(q) = "Exited" => h = "Final"
<1>1. /\ Len(q) \in Nat /\ Len(q) >= 1 /\ Head(q) = q[1] /\ Len(Tail(q)) = Len(q) - 1
      /\ \A i \in 1..Len(q) - 1 : Tail(q)[i] = q[i + 1]
  OBVIOUS
<1>2. Head(q) = "Exited" => h = "Final"
  BY <1>1 DEF Ordered
<1>3. ASSUME NEW i \in 1..Len(Tail(q)), Tail(q)[i] = "Exited"
      PROVE  IF i = 1 THEN g = "Final" ELSE Tail(q)[i - 1] = "Final"
  <2>1. q[i + 1] = "Exited" /\ i + 1 \in 1..Len(q) /\ i + 1 # 1 /\ i + 1 - 1 = i
    BY <1>1, <1>3
  <2>2. q[i] = "Final"
    BY <2>1 DEF Ordered
  <2>3. CASE i = 1
    BY <1>1, <2>2, <2>3
  <2>4. CASE i # 1
    <3>1. i - 1 \in 1..Len(q) - 1 /\ i - 1 + 1 = i
      BY <1>1, <2>4
    <3>2. QED
      BY <1>1, <2>2, <2>4, <3>1
  <2>5. QED
    BY <2>3, <2>4
<1>4. FinalIsLast(q, h) => FinalIsLast(Tail(q), g)
  <2> SUFFICES ASSUME q[Len(q)] = "Final" PROVE FinalIsLast(Tail(q), g)
    BY DEF FinalIsLast
  <2>1. CASE Tail(q) = <<>>
    <3>1. Len(q) = 1
      BY <1>1, <2>1
    <3>2. QED
      BY <1>1, <2>1, <3>1 DEF FinalIsLast
  <2>2. CASE Tail(q) # <<>>
    <3>1. Len(q) - 1 \in 1..Len(q) - 1 /\ Len(q) - 1 + 1 = Len(q)
      BY <1>1, <2>2
    <3>2. Tail(q)[Len(Tail(q))] = q[Len(q)]
      BY <1>1, <3>1
    <3>3. QED
      BY <2>2, <3>2 DEF FinalIsLast
  <2>3. QED
    BY <2>1, <2>2
<1>5. QED
  BY <1>2, <1>3, <1>4 DEF Ordered

\* The relay writes another.
LEMMA OrderAppend ==
  ASSUME NEW q \in Seq(Outbound), NEW h, NEW m \in Outbound, Ordered(q, h),
         m = "Exited" => FinalIsLast(q, h)
  PROVE  /\ Ordered(Append(q, m), h)
         /\ m = "Final" => FinalIsLast(Append(q, m), h)
<1> DEFINE r == Append(q, m)
<1>1. /\ Len(q) \in Nat /\ Len(r) = Len(q) + 1 /\ r[Len(q) + 1] = m /\ r # <<>>
      /\ \A i \in 1..Len(q) : r[i] = q[i]
  OBVIOUS
<1>2. q = <<>> <=> Len(q) = 0
  OBVIOUS
<1> HIDE DEF r
<1>3. ASSUME NEW i \in 1..Len(r), r[i] = "Exited"
      PROVE  IF i = 1 THEN h = "Final" ELSE r[i - 1] = "Final"
  <2>1. CASE i \in 1..Len(q)
    <3>1. i # 1 => i - 1 \in 1..Len(q)
      BY <1>1, <2>1
    <3>2. QED
      BY <1>1, <1>3, <2>1, <3>1 DEF Ordered
  <2>2. CASE i = Len(q) + 1
    <3>1. i # 1 => i - 1 \in 1..Len(q) /\ i - 1 = Len(q)
      BY <1>1, <2>2
    <3>2. FinalIsLast(q, h)
      BY <1>1, <1>3, <2>2
    <3>3. QED
      BY <1>1, <1>2, <2>2, <3>1, <3>2 DEF FinalIsLast
  <2>3. QED
    BY <1>1, <1>3, <2>1, <2>2
<1>4. m = "Final" => FinalIsLast(r, h)
  BY <1>1 DEF FinalIsLast
<1>5. QED
  BY <1>3, <1>4 DEF Ordered, r

\* What a step that is not the supervisor's reading does to the first connection's
\* replies: nothing; the startd hangs up; the relay takes a message of Run's; it
\* writes one, or drops it.
RepliesStep ==
  \/ /\ Replies' = Replies /\ (pump' \in Outbound => pump' = pump)
     /\ Served' => accepted = 0 \/ (Served /\ pump' = pump)
  \/ Replies' = <<>> /\ ~Served' /\ pump' = pump
  \/ \E m \in Outbound : pump = "read" /\ pump' = m /\ sends(m)
                          /\ UNCHANGED <<conns, current, target>>
  \/ /\ pump \in Outbound /\ pump' = "read" /\ (Served' => Served)
     /\ Replies' = IF Served THEN Append(Replies, pump) ELSE Replies

\* What a step other than the supervisor's own reading does to the replies on the
\* first connection: the pump adds what it holds, or they are lost with it.
LEMMA RepliesMove ==
  ASSUME RelayInv, RelayStep, dialled <= 1, 1 \in Conn, ~\E m \in Outbound : supReads(m)
  PROVE  RepliesStep
<1>1. /\ conns \in [Conn -> Connections] /\ \A k \in Conn : conns[k] \in Connections
      /\ current <= 1 /\ current <= dialled /\ current \in Nat /\ dialled \in Nat
      /\ accepted \in Nat /\ accepted <= dialled
      /\ target <= 1 /\ target <= accepted /\ target \in Nat
  BY DEF RelayInv, RelayTypes
<1>2. ASSUME NEW k, NEW e, conns' = [conns EXCEPT ![k] = e], e.toStartd = conns[k].toStartd,
             e.startd = conns[k].startd, UNCHANGED <<current, pump, target>>
      PROVE  RepliesStep
  <2>1. conns'[1].toStartd = conns[1].toStartd /\ conns'[1].startd = conns[1].startd
    BY <1>1, <1>2
  <2>2. QED
    BY <1>2, <2>1 DEF RepliesStep, Replies, Served
<1>3. ASSUME NEW e, conns' = [conns EXCEPT ![dialled] = e], e.toStartd = <<>>, e.startd = FALSE,
             UNCHANGED <<current, pump, target>>
      PROVE  RepliesStep
  <2>1. CASE dialled = 1
    <3>1. conns'[1] = e
      BY <1>1, <1>3, <2>1
    <3>2. QED
      BY <1>3, <3>1 DEF RepliesStep, Replies, Served
  <2>2. CASE dialled # 1
    <3>1. conns'[1] = conns[1]
      BY <1>1, <1>3, <2>2
    <3>2. QED
      BY <1>3, <3>1 DEF RepliesStep, Replies, Served
  <2>3. QED
    BY <2>1, <2>2
<1>4. CASE dial
  <2> DEFINE k == dialled + 1
             e == [conns[k] EXCEPT !.startd = TRUE, !.starter = TRUE]
  <2>1. conns' = [conns EXCEPT ![k] = e] /\ UNCHANGED <<current, pump, target>>
    BY <1>1, <1>4, Zenon DEF dial
  <2>2. k = 1 => e.toStartd = conns[1].toStartd
    BY <1>1, Zenon DEF Connections
  <2> HIDE DEF e
  <2>3. CASE k = 1
    <3>1. conns'[1] = e /\ current = 0 /\ target = 0
      BY <1>1, <2>1, <2>3
    <3>2. QED
      BY <2>1, <2>2, <2>3, <3>1 DEF RepliesStep, Replies, Served
  <2>4. CASE k # 1
    <3>1. conns'[1] = conns[1]
      BY <1>1, <2>1, <2>4
    <3>2. QED
      BY <2>1, <3>1 DEF RepliesStep, Replies, Served
  <2>5. QED
    BY <2>3, <2>4
<1>5. CASE hangUp
  <2> DEFINE e == [conns[dialled] EXCEPT !.startd = FALSE, !.toStartd = <<>>]
  <2>1. CASE dialled = 0
    BY <1>5, <2>1 DEF hangUp, RepliesStep, Replies, Served
  <2>2. CASE dialled # 0
    <3>0. dialled \in Conn
      BY <1>1, <2>2 DEF Conn
    <3>1. conns' = [conns EXCEPT ![dialled] = e] /\ UNCHANGED <<current, pump, target>>
      BY <1>1, <1>5, <2>2, Zenon DEF hangUp
    <3>2. e.toStartd = <<>> /\ e.startd = FALSE
      BY <1>1, <3>0, Zenon DEF Connections
    <3> HIDE DEF e
    <3>3. QED
      BY <1>3, <3>1, <3>2, Zenon
  <2>3. QED
    BY <2>1, <2>2
<1>6. CASE LastWord
  <2> DEFINE q == conns[dialled].toStarter
             e == [conns[dialled] EXCEPT !.toStarter = Append(q, "VacateHard"), !.startd = FALSE,
                                         !.toStartd = <<>>]
  <2>0. dialled \in Conn
    BY <1>1, <1>6 DEF Conn, LastWord, CanWrite, Connected
  <2>1. conns' = [conns EXCEPT ![dialled] = e] /\ UNCHANGED <<current, pump, target>>
    BY <1>1, <1>6, Zenon DEF LastWord
  <2>2. e.toStartd = <<>> /\ e.startd = FALSE
    BY <1>1, <2>0, Zenon DEF Connections
  <2> HIDE DEF e
  <2>3. QED
    BY <1>3, <2>1, <2>2, Zenon
<1>7. ASSUME NEW m, write(m)
      PROVE  RepliesStep
  <2> DEFINE q == conns[dialled].toStarter
             e == [conns[dialled] EXCEPT !.toStarter = Append(q, m)]
  <2>0. dialled \in Conn
    BY <1>1, <1>7 DEF Conn, write, CanWrite, Connected
  <2>1. conns' = [conns EXCEPT ![dialled] = e] /\ UNCHANGED <<current, pump, target>>
    BY <1>1, <1>7, Zenon DEF write
  <2>2. e.toStartd = conns[dialled].toStartd /\ e.startd = conns[dialled].startd
    BY <1>1, <2>0, Zenon DEF Connections
  <2> HIDE DEF e
  <2>3. QED
    BY <1>2, <2>1, <2>2, Zenon
<1>8. CASE readConn
  <2> DEFINE q == conns[current].toStarter
             e == [conns[current] EXCEPT !.toStarter = Tail(q)]
  <2>0. current \in Conn
    BY <1>1, <1>8 DEF Conn, readConn, RelayInv
  <2>1. conns' = [conns EXCEPT ![current] = e] /\ UNCHANGED <<current, pump, target>>
    BY <1>1, <1>8, Zenon DEF readConn
  <2>2. e.toStartd = conns[current].toStartd /\ e.startd = conns[current].startd
    BY <1>1, <2>0, Zenon DEF Connections
  <2> HIDE DEF e
  <2>3. QED
    BY <1>2, <2>1, <2>2, Zenon
<1>9. CASE accept
  BY <1>1, <1>9, SMTT(20) DEF accept, RepliesStep, Replies, Served, Outbound
<1>10. CASE UNCHANGED relayVars \/ forwarded \/ leaseElapses \/ (\E broken : connLost(broken))
  BY <1>10, SMTT(20) DEF relayVars, forwarded, leaseElapses, connLost, RepliesStep, Replies, Served
<1>11. ASSUME NEW m \in Outbound, pumpTakes(m), sends(m)
       PROVE  RepliesStep
  BY <1>11 DEF pumpTakes, RepliesStep
<1>12. CASE pumpOutbound
  <2> DEFINE e == [conns[target] EXCEPT !.toStartd = Append(conns[target].toStartd, pump)]
  <2>1. pump \in Outbound /\ pump' = "read" /\ UNCHANGED current /\ target = 1 /\ target' = 0
    BY <1>1, <1>12, SMTT(20) DEF pumpOutbound, RelayInv
  <2>2. CASE Served
    <3>0. conns[target].startd
      BY <2>1, <2>2 DEF Served
    <3>1. conns' = [conns EXCEPT ![target] = e]
      BY <1>1, <1>12, <3>0, Zenon DEF pumpOutbound
    <3>2. e.toStartd = Append(Replies, pump)
      BY <1>1, <2>1, Zenon DEF Connections, Replies
    <3> HIDE DEF e
    <3>3. conns'[1] = e
      BY <1>1, <2>1, <3>1
    <3>4. QED
      BY <2>1, <2>2, <3>2, <3>3, Zenon DEF RepliesStep, Replies
  <2>3. CASE ~Served
    <3>1. UNCHANGED conns
      BY <1>12, <2>1, <2>3 DEF pumpOutbound, Served
    <3>2. QED
      BY <2>1, <2>3, <3>1 DEF RepliesStep, Replies, Served
  <2>4. QED
    BY <2>2, <2>3
<1>13. ASSUME NEW cs, closeConns(cs), current' = 0, target' = 0, pump' = "stopped"
       PROVE  RepliesStep
  <2> DEFINE e == [conns[1] EXCEPT !.starter = FALSE, !.toStarter = <<>>]
  <2>1. conns'[1] = conns[1] \/ conns'[1] = e
    BY <1>13, Zenon DEF closeConns
  <2>2. e.toStartd = conns[1].toStartd
    BY <1>1, Zenon DEF Connections
  <2> HIDE DEF e
  <2>3. QED
    BY <1>13, <2>1, <2>2, SMTT(20) DEF RepliesStep, Replies, Served, Outbound
<1>14. CASE relayCloses \/ relayDies
  BY <1>13, <1>14 DEF relayCloses, relayDies
<1>15. CASE pumpPicks
  BY <1>1, <1>15 DEF pumpPicks, RepliesStep, Replies, Served, Outbound
<1>16. QED
  BY <1>4, <1>5, <1>6, <1>7, <1>8, <1>9, <1>10, <1>11, <1>12, <1>14, <1>15 DEF RelayStep

\* The supervisor of the first startd hears only what it reads, and dials once.
LEMMA SupHears ==
  ASSUME Next
  PROVE  \/ adopted' /\ (adopted \/ heard' = None)
         \/ /\ ~adopted /\ ~adopted'
            /\ heard' = heard \/ \E m \in Outbound : supReads(m)
            /\ sup' = "connect" => sup = "connect"
<1> DEFINE Goal == \/ adopted' /\ (adopted \/ heard' = None)
                   \/ /\ ~adopted /\ ~adopted'
                      /\ heard' = heard \/ \E m \in Outbound : supReads(m)
                      /\ sup' = "connect" => sup = "connect"
<1>1. UNCHANGED startdVars => Goal
  BY DEF startdVars
<1>2. \A x : supGoes(x) /\ x # "connect" => Goal
  BY DEF supGoes
<1>3. Supervise => Goal
  <2>1. supConnects \/ supEnds \/ supActivates \/ supReattaches => Goal
    BY <1>2, Zenon DEF supConnects, supEnds, supActivates, supReattaches
  <2>2. supTakesConn \/ supSendsConn \/ supKeepsCopy => Goal
    BY <1>2, Zenon DEF supTakesConn, supSendsConn, supKeepsCopy
  <2>3. (\E m \in Outbound : supReads(m)) => Goal
    BY DEF supReads, supHears
  <2>4. QED
    BY <2>1, <2>2, <2>3 DEF Supervise
<1>4. loopWindsDown \/ loopKills \/ backstopFires \/ startdLeaves \/ startdReturns => Goal
  BY DEF loopWindsDown, loopKills, backstopFires, startdLeaves, startdReturns
<1>5. handlerPasses \/ (\E m \in Vacates : supVacates(m)) => Goal
  BY <1>1 DEF handlerPasses, supVacates
<1>6. Manage \/ relayPumps => Goal
  BY <1>1, Zenon DEF Manage, relayServes, relayLosesConn, gapLeaseElapses, relayPumps
<1>7. Main => Goal
  BY <1>1 DEF Main, starterAccepts, starterAbandoned, runTakesConn, runStep, runAccepts, expire,
              runEnds, mainExits
<1>8. runMonitors \/ readerStep \/ tick \/ jobEnds \/ signalled \/ shadowReconnects \/ handlerSteps
        => Goal
  BY <1>1 DEF runMonitors, readerStep, tick, jobEnds, signalled, shadowReconnects, handlerSteps
<1>9. QED
  BY <1>3, <1>4, <1>5, <1>6, <1>7, <1>8 DEF Next, Vacates

\* STARTER_MODE does not change.
LEMMA ModeStays ==
  ASSUME Next
  PROVE  mode' = mode
<1>1. HandoffStep
  BY HandoffMoves
<1>2. QED
  BY <1>1, Zenon DEF HandoffStep, handoffVars, handlerPasses, passSyscallConn, sendInproc,
                     passFails, supTakesConn, takePending, supSendsConn, sendDescriptor,
                     supKeepsCopy, keepCopy, supReads, supHears, ReleaseSyscallConn,
                     closeTransport, startdLeaves, startdDies, receiveSyscallConn, receiveFails,
                     takeSyscallConn

\* A control pipe that is closed, and a finalize that is late, stay so.
LEMMA PipeStays ==
  ASSUME Next, Listening
  PROVE  (pipe' => pipe) /\ (late => late')
<1>1. CASE Straight
  <2>1. /\ awaitActivate \/ syscallConn \/ syscallConnFails => UNCHANGED <<pipe, late>>
        /\ setupStep(Process /\ Shadows # {}) => UNCHANGED <<pipe, late>>
        /\ setupFails \/ startJob => UNCHANGED <<pipe, late>>
    BY Zenon DEF awaitActivate, syscallConn, syscallConnFails, setupStep, setupFails, startJob,
                 ctrlVars, endVars
  <2>2. sendDone \/ tellShadow \/ upload => UNCHANGED <<pipe, late>>
    BY DEF sendDone, tellShadow, upload, ctrlVars, endVars
  <2>3. finalizeExpires => late' = TRUE /\ pipe' = pipe
    BY DEF finalizeExpires, ctrlVars
  <2>4. runReturns => pipe' = FALSE /\ late' = late
    BY DEF runReturns, endVars
  <2>5. QED
    BY <1>1, <2>1, <2>2, <2>3, <2>4 DEF Straight, sends, sendFails
<1>2. CASE Monitoring
  <2>1. UNCHANGED <<pipe, late>>
    BY <1>2, Zenon DEF Monitoring, monitorGivesUp, monitorMessage, monitorTick, reaped, jobOver,
                       jobExits, runVars, ctrlVars, endVars
  <2>2. QED
    BY <2>1
<1>3. CASE Reconnecting
  <2>1. UNCHANGED <<pipe, late>>
    BY <1>3, Zenon DEF Reconnecting, monitorReconnect, acceptReconnect, abandonReconnect, handleCACmd,
                handlerGivesUp, handlerReplies, runVars, ctrlVars, endVars
  <2>2. QED
    BY <2>1
<1>4. CASE ControlStep
  <2>1. late' = late
    BY <1>4 DEF ControlStep, endVars
  <2>2. pipe' = pipe \/ pipe' = FALSE
    BY <1>4, Zenon DEF ControlStep, readerEnds, reads, ctrlVars
  <2>3. QED
    BY <2>1, <2>2
<1>5. CASE ProcessStep
  BY <1>5 DEF ProcessStep, ctrlVars, endVars
<1>6. QED
  BY <1>1, <1>2, <1>3, <1>4, <1>5, StepKinds

\* finalize gets to Exited by sending Final, or because it can send neither.
LEMMA FinalSent ==
  ASSUME Next, pc' = "exited", pc # "exited", Listening
  PROVE  \/ ~pipe' \/ late'
         \/ pump = "read" /\ pump' = "Final"
         \/ ~Process /\ heard' = "Final"
<1> DEFINE Goal == \/ ~pipe' \/ late'
                   \/ pump = "read" /\ pump' = "Final"
                   \/ ~Process /\ heard' = "Final"
<1>1. pc = "final"
  <2>1. CASE Straight
    BY <2>1, SetupFacts, ToldFacts, MessageFacts, Zenon DEF Straight, awaitActivate, syscallConn,
                                                            syscallConnFails, setupStep,
                                                            setupFails, startJob, finalize, sends,
                                                            sendFails, sendDone, finalizeExpires,
                                                            tellShadow, upload, runReturns
  <2>2. CASE Monitoring
    BY <2>2, SMTT(20) DEF Monitoring, monitorGivesUp, monitorMessage, monitorTick, reaped, jobOver, finalize,
                jobExits, runVars
  <2>3. CASE Reconnecting
    BY <2>3 DEF Reconnecting, monitorReconnect, acceptReconnect, abandonReconnect, handleCACmd,
                handlerGivesUp, handlerReplies, runVars
  <2>4. CASE ControlStep \/ ProcessStep
    BY <2>4, Zenon DEF ControlStep, ProcessStep
  <2>5. QED
    BY <2>1, <2>2, <2>3, <2>4, StepKinds
<1>2. \A m : sends(m) => m = "Final"
  BY <1>1, MessageFacts DEF sends
<1>3. ASSUME UNCHANGED pc
      PROVE  FALSE
  BY <1>3
<1>4. UNCHANGED starterVars => FALSE
  BY <1>3 DEF starterVars, runVars
<1>5. Supervise => Goal
  <2>1. supConnects \/ supEnds \/ supReattaches \/ supTakesConn \/ supSendsConn \/ supKeepsCopy
          => UNCHANGED starterVars
    BY Zenon DEF supConnects, supEnds, supReattaches, supTakesConn, supSendsConn, supKeepsCopy
  <2>2. supActivates => UNCHANGED starterVars \/ UNCHANGED pc
    BY DEF supActivates, reads
  <2>3. ASSUME NEW m \in Outbound, supReads(m)
        PROVE  Goal
    BY <1>2, <1>4, <2>3 DEF supReads, supHears
  <2>4. QED
    BY <1>3, <1>4, <2>1, <2>2, <2>3 DEF Supervise
<1>6. handlerPasses \/ startdLeaves \/ startdReturns => FALSE
  BY <1>4 DEF handlerPasses, startdLeaves, startdReturns
<1>7. loopWindsDown \/ loopKills \/ (\E m \in Vacates : supVacates(m)) => FALSE
  BY <1>3, <1>4 DEF loopWindsDown, loopKills, dropsActivation, supVacates, reads
<1>8. backstopFires => FALSE
  BY <1>3 DEF backstopFires
<1>9. Manage => FALSE
  BY <1>3, <1>4, Zenon DEF Manage, relayServes, reads, relayLosesConn, gapLeaseElapses
<1>10. relayPumps => Goal
  BY <1>2, <1>4 DEF relayPumps, pumpTakes
<1>11. starterAccepts \/ starterAbandoned \/ mainExits \/ runTakesConn => FALSE
  BY <1>1, <1>3 DEF starterAccepts, starterAbandoned, mainExits, runTakesConn, syscallConn,
                    syscallConnFails, runVars
<1>12. runStep => Goal
  <2>1. sendFails => ~pipe' \/ late'
    <3>1. sendFails => (~pipe \/ late) /\ UNCHANGED <<pipe, late>>
      BY <1>1 DEF sendFails, sendDone, ctrlVars
    <3>2. QED
      BY <3>1
  <2>2. /\ awaitActivate \/ setupStep(Process /\ Shadows # {}) => FALSE
        /\ setupFails \/ startJob \/ tellShadow \/ upload => FALSE
    BY <1>1, SetupFacts, ToldFacts, SMTT(20) DEF awaitActivate, setupStep, setupFails, startJob, tellShadow,
                                       upload
  <2>3. QED
    BY <2>1, <2>2 DEF runStep
<1>13. runAccepts \/ expire \/ runEnds => FALSE
  BY <1>1, <1>3, SMTT(20) DEF runAccepts, acceptReconnect, abandonReconnect, expire, finalizeExpires, runEnds,
                    runReturns
<1>14. runMonitors \/ tick \/ jobEnds => FALSE
  BY <1>1, <1>3, SMTT(20) DEF runMonitors, monitorGivesUp, monitorMessage, reaped, monitorReconnect, tick,
                    monitorTick, jobEnds, jobExits, runVars
<1>15. readerStep \/ signalled \/ shadowReconnects \/ handlerSteps => FALSE
  BY <1>3 DEF readerStep, readerEnds, signalled, shadowReconnects, handleCACmd, handlerSteps,
              handlerGivesUp, handlerReplies, runVars
<1>16. QED
  BY <1>5, <1>6, <1>7, <1>8, <1>9, <1>10, <1>11, <1>12, <1>13, <1>14, <1>15 DEF Next, Main, Vacates

\* Run, pump, connection and supervisor keep Final before Exited.
LEMMA OrderNext ==
  ASSUME OrderInv, Next, Listening, RelayInv, RelayInv'
  PROVE  /\ OrderInv'
         /\ ~adopted /\ heard # "Exited" /\ heard' = "Exited" => heard = "Final"
<1> SUFFICES ASSUME ~adopted, ~adopted'
             PROVE  /\ OrderInv'
                    /\ heard # "Exited" /\ heard' = "Exited" => heard = "Final"
  BY SupHears DEF OrderInv, None
<1>1. /\ heard' = heard \/ \E m \in Outbound : supReads(m)
      /\ sup' = "connect" => sup = "connect"
  BY SupHears
<1>2. RelayStep /\ mode' = mode /\ (Process' <=> Process)
  BY RelayKinds, ModeStays DEF Process
<1>3. (pipe' => pipe) /\ (late => late')
  BY PipeStays
<1>4. /\ sup = "connect" \/ ~Process => dialled = 0
      /\ dialled <= 1
      /\ ~Process => pump \notin Outbound \cup {"read"}
      /\ accepted = 0 /\ Process => pc \in {"idle", "killed"} /\ pump \notin Outbound
      /\ Process /\ 1 \in Conn => Ordered(Replies, heard)
      /\ pump = "Exited" /\ Served => FinalIsLast(Replies, heard)
      /\ pc = "exited" /\ pipe /\ ~late =>
           IF Process THEN Served => pump = "Final" \/ (pump \notin Outbound /\ FinalIsLast(Replies, heard))
           ELSE heard = "Final"
  BY DEF OrderInv
<1>5. dialled \in Nat /\ accepted \in 0..dialled /\ current \in 0..accepted
  BY DEF RelayInv, RelayTypes
<1>6. /\ sup' = "connect" \/ ~Process => dialled' = 0
      /\ dialled' <= 1
  <2>1. dialled' = dialled \/ (dial /\ supConnects /\ Process)
    BY <1>2, Zenon DEF RelayStep, relayVars, hangUp, TakesReply, LastWord, write, accept,
                       readConn, forwarded, connLost, leaseElapses, pumpTakes, pumpPicks, pumpOutbound,
                       relayCloses, relayDies
  <2>2. CASE dialled' = dialled
    BY <1>1, <1>4, <2>2
  <2>3. CASE dial /\ supConnects /\ Process
    BY <1>4, <1>5, <2>3 DEF dial, supConnects, supGoes
  <2>4. QED
    BY <2>1, <2>2, <2>3
<1>7. ~Process => pump' \notin Outbound \cup {"read"}
  <2> SUFFICES ASSUME ~Process PROVE pump' \notin Outbound \cup {"read"}
    OBVIOUS
  <2>1. ~accept /\ ~pumpPicks /\ ~pumpOutbound /\ \A m : ~pumpTakes(m)
    BY <1>4, <1>5 DEF accept, pumpPicks, pumpOutbound, pumpTakes, RelayInv
  <2>2. pump' = pump \/ pump' = "stopped"
    BY <1>2, <2>1, Zenon DEF RelayStep, relayVars, dial, hangUp, TakesReply, LastWord, write,
                             readConn, forwarded, connLost, leaseElapses, relayCloses, relayDies
  <2>3. QED
    BY <1>4, <2>2 DEF Outbound
<1>8. accepted' = 0 /\ Process => pc' \in {"idle", "killed"} /\ pump' \notin Outbound
  <2> SUFFICES ASSUME accepted' = 0, Process
               PROVE  pc' \in {"idle", "killed"} /\ pump' \notin Outbound
    OBVIOUS
  <2>1. accepted = 0
    <3>1. accepted' = accepted \/ accepted' = accepted + 1
      BY <1>2, Zenon DEF RelayStep, relayVars, dial, hangUp, TakesReply, LastWord, write, accept,
                         readConn, forwarded, connLost, leaseElapses, pumpTakes, pumpPicks, pumpOutbound,
                         relayCloses, relayDies
    <3>2. QED
      BY <1>5, <3>1
  <2>2. pc \in {"idle", "killed"} /\ pump \notin Outbound
    BY <1>4, <2>1
  <2>3. manage' # "read"
    BY DEF RelayInv, RelayTypes
  <2>4. pc' \in {"idle", "killed"}
    <3>1. CASE Straight
      BY <2>2, <3>1, SetupFacts, ToldFacts, MessageFacts, Zenon
      DEF Straight, awaitActivate, syscallConn, syscallConnFails, setupStep, setupFails, startJob,
          sends, sendFails, finalizeExpires, tellShadow, upload, runReturns
    <3>2. CASE Monitoring
      BY <2>2, <3>2, SMTT(20) DEF Monitoring, monitorGivesUp, monitorMessage, monitorTick, reaped, jobExits,
                        runVars
    <3>3. CASE Reconnecting
      BY <2>2, <3>3 DEF Reconnecting, monitorReconnect, acceptReconnect, abandonReconnect,
                        handleCACmd, handlerGivesUp, handlerReplies, runVars
    <3>4. CASE ControlStep \/ ProcessStep
      BY <2>2, <2>3, <3>4, Zenon DEF ControlStep, ProcessStep
    <3>5. QED
      BY <3>1, <3>2, <3>3, <3>4, StepKinds
  <2>5. \A m : ~sends(m)
    BY <2>2, MessageFacts DEF sends
  <2>6. pump' \notin Outbound
    BY <1>2, <2>2, <2>5, Zenon DEF RelayStep, relayVars, dial, hangUp, TakesReply, LastWord,
                                   write, accept, readConn, forwarded, connLost, leaseElapses,
                                   pumpPicks, pumpOutbound, relayCloses, relayDies, Outbound
  <2>7. QED
    BY <2>4, <2>6
<1>9. /\ Process /\ 1 \in Conn => Ordered(Replies, heard)'
      /\ pump' = "Exited" /\ Served' => FinalIsLast(Replies, heard)'
      /\ pc' = "exited" /\ pipe' /\ ~late' =>
           IF Process THEN Served' => pump' = "Final" \/ (pump \notin Outbound /\ FinalIsLast(Replies, heard))'
           ELSE heard' = "Final"
      /\ heard # "Exited" /\ heard' = "Exited" => heard = "Final"
  <2>1. \/ pc' # "exited" \/ pc = "exited" \/ ~pipe' \/ late'
        \/ pump = "read" /\ pump' = "Final"
        \/ ~Process /\ heard' = "Final"
    BY FinalSent
  <2>2. CASE ~Process
    <3>1. ~Served'
      BY <1>6, <2>2 DEF RelayInv, RelayTypes, Served
    <3>2. ASSUME NEW m \in Outbound, supReads(m)
          PROVE  /\ pc' = "exited" => pc # "exited"
                 /\ heard' = "Exited" => pc = "exited" /\ pipe /\ ~late
      BY <2>2, <3>2, MessageFacts DEF supReads, supHears, sends, sendDone, Outbound
    <3>3. heard' = "Exited" /\ heard # "Exited" => heard = "Final"
      BY <1>1, <1>4, <2>2, <3>2
    <3>4. pc' = "exited" /\ pipe' /\ ~late' => heard' = "Final"
      BY <1>1, <1>3, <1>4, <1>7, <2>1, <2>2, <3>2 DEF Outbound
    <3>5. QED
      BY <2>2, <3>1, <3>3, <3>4
  <2>3. CASE Process /\ 1 \notin Conn
    <3>1. ~Served'
      BY <1>6, <2>3, RelayAssumption DEF RelayInv, RelayTypes, Served, Conn
    <3>2. \A m : ~supReads(m)
      BY <1>5, <2>3, RelayAssumption DEF RelayInv, RelayTypes, Conn, supReads, Connected
    <3>3. QED
      BY <1>1, <2>3, <3>1, <3>2
  <2>4. ASSUME Process, 1 \in Conn, NEW m \in Outbound, supReads(m)
        PROVE  /\ Ordered(Replies, heard)'
               /\ pump' = "Exited" /\ Served' => FinalIsLast(Replies, heard)'
               /\ pc' = "exited" /\ pipe' /\ ~late' /\ Served' =>
                    pump' = "Final" \/ (pump \notin Outbound /\ FinalIsLast(Replies, heard))'
               /\ heard' = "Exited" => heard = "Final"
    <3> DEFINE e == [conns[1] EXCEPT !.toStartd = Tail(Replies)]
    <3>1. dialled = 1
      BY <1>4, <1>5, <2>4 DEF supReads, Connected
    <3>2. /\ conns' = [conns EXCEPT ![dialled].toStartd = Tail(@)]
          /\ UNCHANGED <<current, pump, target, starterVars>>
          /\ conns[dialled].toStartd # <<>> /\ m = Head(conns[dialled].toStartd)
          /\ heard' = IF m \in {"Final", "Exited"} THEN m ELSE "alive"
      BY <2>4 DEF supReads, supHears
    <3>3. conns \in [Conn -> Connections] /\ conns[1] \in Connections
      BY <2>4 DEF RelayInv, RelayTypes
    <3>4. conns' = [conns EXCEPT ![1] = e]
      BY <3>1, <3>2, <3>3, Zenon DEF Replies
    <3>5. e.toStartd = Tail(Replies) /\ e.startd = conns[1].startd
      BY <3>3, Zenon DEF Connections
    <3> HIDE DEF e
    <3>6. Replies' = Tail(Replies) /\ (Served' <=> Served)
      BY <2>4, <3>2, <3>3, <3>4, <3>5 DEF Replies, Served
    <3>7. Replies \in Seq(Outbound) /\ Replies # <<>> /\ m = Head(Replies)
      BY <3>1, <3>2, <3>3, ConnectionParts, Zenon DEF Replies
    <3>8. /\ Ordered(Tail(Replies), heard')
          /\ FinalIsLast(Replies, heard) => FinalIsLast(Tail(Replies), heard')
          /\ m = "Exited" => heard = "Final"
      BY <1>4, <2>4, <3>2, <3>7, OrderTail
    <3>9. Ordered(Replies, heard)' /\ (FinalIsLast(Replies, heard) => FinalIsLast(Replies, heard)')
      BY <3>6, <3>8 DEF Ordered, FinalIsLast
    <3>10. UNCHANGED <<pc, pipe, late>>
      BY <3>2, SMTT(20) DEF starterVars, runVars, ctrlVars, endVars
    <3>11. QED
      BY <1>4, <2>4, <3>2, <3>6, <3>8, <3>9, <3>10
  <2> DEFINE
        Goal == /\ Ordered(Replies, heard)'
                /\ pump' = "Exited" /\ Served' => FinalIsLast(Replies, heard)'
                /\ pc' = "exited" /\ pipe' /\ ~late' /\ Served' =>
                     pump' = "Final" \/ (pump \notin Outbound /\ FinalIsLast(Replies, heard))'
  <2>5. ASSUME Process, 1 \in Conn, heard' = heard, ~\E m \in Outbound : supReads(m)
        PROVE  Goal
    <3>1. RepliesStep
      BY <1>2, <1>4, <2>5, RepliesMove
    <3>2. conns[1] \in Connections
      BY <2>5 DEF RelayInv, RelayTypes
    <3>3. Replies \in Seq(Outbound) /\ Ordered(Replies, heard)
      BY <1>4, <2>5, <3>2, ConnectionParts, Zenon DEF Replies
    <3>4. ASSUME Replies' = Replies
          PROVE  /\ Ordered(Replies, heard)'
                 /\ FinalIsLast(Replies, heard) => FinalIsLast(Replies, heard)'
      BY <2>5, <3>3, <3>4 DEF Ordered, FinalIsLast
    <3>5. ASSUME Replies' = Replies, pump' \in Outbound => pump' = pump,
                 Served' => accepted = 0 \/ (Served /\ pump' = pump)
          PROVE  Goal
      <4>1. "Exited" \in Outbound
        BY DEF Outbound
      <4>2. QED
        BY <1>3, <1>4, <2>1, <2>5, <3>4, <3>5, <4>1
    <3>6. ASSUME Replies' = <<>>, ~Served'
          PROVE  Goal
      BY <2>5, <3>6 DEF Ordered
    <3>7. ASSUME NEW m \in Outbound, pump = "read", pump' = m, sends(m),
                 UNCHANGED <<conns, current, target>>
          PROVE  Goal
      <4>1. Replies' = Replies /\ (Served' <=> Served)
        BY <3>7 DEF Replies, Served
      <4>2. /\ pipe /\ ~late /\ pc \in DOMAIN Message /\ m = Message[pc]
            /\ pc' = AfterSend[pc]
        BY <3>7 DEF sends, sendDone
      <4>3. /\ m = "Exited" => pc = "exited"
            /\ pc' = "exited" => pc # "exited"
        BY <4>2, MessageFacts
      <4>4. QED
        BY <1>4, <2>1, <2>5, <3>4, <3>7, <4>1, <4>2, <4>3
    <3>8. ASSUME pump \in Outbound, pump' = "read", Served' => Served,
                 Replies' = IF Served THEN Append(Replies, pump) ELSE Replies
          PROVE  Goal
      <4>1. CASE ~Served
        BY <2>5, <3>4, <3>8, <4>1
      <4>2. CASE Served
        <5>1. /\ Ordered(Append(Replies, pump), heard)
              /\ pump = "Final" => FinalIsLast(Append(Replies, pump), heard)
          BY <1>4, <3>3, <3>8, <4>2, OrderAppend
        <5>2. /\ Ordered(Replies, heard)'
              /\ pump = "Final" => FinalIsLast(Replies, heard)'
          BY <2>5, <3>8, <4>2, <5>1 DEF Ordered, FinalIsLast
        <5>3. pump' \notin Outbound
          BY <3>8 DEF Outbound
        <5>4. QED
          BY <1>3, <1>4, <2>1, <2>5, <3>8, <4>2, <5>2, <5>3 DEF Outbound
      <4>3. QED
        BY <4>1, <4>2
    <3>9. QED
      BY <3>1, <3>5, <3>6, <3>7, <3>8 DEF RepliesStep
  <2>6. QED
    BY <1>1, <2>2, <2>3, <2>4, <2>5
<1>10. QED
  BY <1>2, <1>6, <1>7, <1>8, <1>9 DEF OrderInv

\* The first supervisor has the job's outcome before it is told that the starter
\* has exited.
THEOREM OutcomeComesFirst == Spec => FinalFirst
<1> DEFINE Step == ~adopted /\ heard # "Exited" /\ heard' = "Exited" => heard = "Final"
<1>1. OrderInv /\ Listening /\ RelayInv /\ RelayInv' /\ [Next]_vars
        => OrderInv' /\ Listening' /\ [Step]_vars
  <2> SUFFICES ASSUME OrderInv, Listening, RelayInv, RelayInv', [Next]_vars
               PROVE  OrderInv' /\ Listening' /\ [Step]_vars
    OBVIOUS
  <2>1. CASE Next
    BY <2>1, OrderNext, ListeningNext
  <2>2. CASE UNCHANGED vars
    <3>1. OrderInv'
      BY <2>2, Zenon
      DEF vars, starterVars, runVars, ctrlVars, endVars, relayVars, handoffVars, startdVars,
          OrderInv, Replies, Served, Ordered, FinalIsLast, Process
    <3>2. Listening'
      BY <2>2, ListeningNext, Zenon
    <3>3. QED
      BY <2>2, <3>1, <3>2, Zenon
  <2>3. QED
    BY <2>1, <2>2
<1>2. QED
  BY <1>1, InitOrder, InitListening, RelayHolds, PTL DEF Spec, FinalFirst
=============================================================================
