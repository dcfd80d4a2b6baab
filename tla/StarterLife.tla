----------------------------- MODULE StarterLife -----------------------------
(***************************************************************************)
(* What the rest of the system may rely on about one starter.  Startd.tla  *)
(* assumes this of every starter it spawns; Starter.tla, which models the  *)
(* starter itself, implements it.                                          *)
(***************************************************************************)
VARIABLE life

Ended == {"exited", "lost"}

Init == life = "none"

\* A goroutine starter runs at once; a process first has to be dialled.
spawned == life = "none" /\ life' \in {"starting", "running"}

\* Dialled and set to work; or left alone, or killed, before that.
started == life = "starting" /\ life' \in {"running", "lost"}

\* It has been told to hard-vacate.
vacated == life = "running" /\ life' = "vacating"

\* It exits, leaving its marker, or is lost without one; for good.
ended == life \in {"running", "vacating"} /\ life' \in Ended

Next == spawned \/ started \/ vacated \/ ended

\* A starter that is told to go goes, whatever its job does, and one that nobody
\* dials does not wait for ever.
Fairness == WF_life(started) /\ WF_life(life = "vacating" /\ ended)

\* Of a starter that has been spawned.
SpawnedSafe == life \in {"starting", "running"} /\ [][Next]_life

SpawnedSpec == SpawnedSafe /\ Fairness
=============================================================================
