--------------------------------- MODULE RoomMC ---------------------------------
(* What a room's clients see and do, one part at a time: part says whether the *)
(* behaviour is about its props or about a player's inputs.                    *)
EXTENDS RoomView, InputSync, TLC

CONSTANTS ann, bob, crate, door, rope

VARIABLE part

MCEnds == rope :> {crate, door}

vars == <<part, viewVars, inputVars>>

Init ==
  /\ part \in {"view", "input"}
  /\ ViewInit /\ InputInit
  /\ part # "view" => life = [x \in Prop |-> "here"] /\ pose[crate].at = 0 /\ scene = CHOOSE s \in Scenes : TRUE

Input(A) == part = "input" /\ A /\ UNCHANGED <<part, viewVars>>

Next ==
  \/ part = "view" /\ ViewNext /\ UNCHANGED <<part, inputVars>>
  \/ part = "input" /\ InputNext /\ UNCHANGED <<part, viewVars>>

Spec == Init /\ [][Next]_vars

\* The room ticks and sends its snapshots, messages arrive, a transfer goes on.
FairSpec ==
  /\ Spec
  /\ WF_vars(Input(Tick)) /\ WF_vars(Input(Snapshot)) /\ WF_vars(Input(Receive))
  /\ WF_vars(Input(OnSnapshot)) /\ WF_vars(Input(OnWelcome))
  /\ WF_vars(Input(LeaveRoom \/ EnterRoom \/ TransferEnds))

\* Each part's variables stay in their domains.
RoomTypeOK == ViewTypeOK /\ InputTypeOK
=================================================================================
