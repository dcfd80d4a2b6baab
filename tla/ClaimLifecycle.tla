--------------------------- MODULE ClaimLifecycle ---------------------------
(***************************************************************************)
(* What a startd with static slots promises about a claim id, which is a   *)
(* capability: it is minted once, offered to the pool, owned by at most    *)
(* one schedd, and once retired (released, timed out, or forgotten) it is  *)
(* never honoured again, not even by a startd that has been stopped and    *)
(* started since.                                                          *)
(***************************************************************************)
EXTENDS FiniteSets

CONSTANT Id

VARIABLE life

Lives == {"unminted", "offered", "owned", "retired"}

Init == life \in [Id -> Lives \ {"owned"}]

\* What may become of one id in one step.
Moves ==
  {<<"unminted", "offered">>, <<"unminted", "owned">>, <<"unminted", "retired">>,
   <<"offered", "owned">>, <<"offered", "retired">>, <<"owned", "retired">>}

\* One event moves several ids (a release retires one and offers the next), but
\* lets at most one of them be owned.
Next ==
  /\ life' \in [Id -> Lives]
  /\ \A id \in Id : life'[id] # life[id] => <<life[id], life'[id]>> \in Moves
  /\ \A i, j \in Id : /\ life[i] # "owned" /\ life'[i] = "owned"
                      /\ life[j] # "owned" /\ life'[j] = "owned"
                      => i = j

Spec == Init /\ [][Next]_life
=============================================================================
