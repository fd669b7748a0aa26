---------------------------- MODULE DrainContract ----------------------------
(***************************************************************************)
(* What WraithFlow promises about the sessions it has accepted when it     *)
(* stops: an abstract specification that Proxy implements.                 *)
(*                                                                         *)
(* A service admits sessions while its door is open.  Once the door is     *)
(* shut nobody is admitted any more, but whoever is inside may finish.     *)
(* The service then passes a verdict: "clean" only when everybody admitted *)
(* has ended, "timeout" at any time.  When it is over, the sessions that   *)
(* had not ended are lost; after a clean verdict there are none.           *)
(***************************************************************************)
EXTENDS FiniteSets

CONSTANT Sessions

VARIABLES
    door,      \* "open", "shut", "over"
    admitted,  \* sessions ever accepted
    ended,     \* admitted sessions that ran to their end
    verdict,   \* "none", "clean", "timeout", "killed"
    lost       \* admitted sessions that were cut off when the service ended

vars == <<door, admitted, ended, verdict, lost>>

Init ==
    /\ door = "open"
    /\ admitted = {}
    /\ ended = {}
    /\ verdict = "none"
    /\ lost = {}

Admit(s) ==
    /\ door = "open"
    /\ s \notin admitted
    /\ admitted' = admitted \union {s}
    /\ UNCHANGED <<door, ended, verdict, lost>>

End(s) ==
    /\ door # "over"
    /\ s \in admitted \ ended
    /\ ended' = ended \union {s}
    /\ UNCHANGED <<door, admitted, verdict, lost>>

ShutDoor ==
    /\ door = "open"
    /\ door' = "shut"
    /\ UNCHANGED <<admitted, ended, verdict, lost>>

Judge ==
    /\ door = "shut"
    /\ verdict = "none"
    /\ \/ /\ admitted = ended
          /\ verdict' = "clean"
       \/ verdict' = "timeout"
    /\ UNCHANGED <<door, admitted, ended, lost>>

Finish ==
    /\ door = "shut"
    /\ verdict # "none"
    /\ door' = "over"
    /\ lost' = admitted \ ended
    /\ UNCHANGED <<admitted, ended, verdict>>

(* A signal that nobody handles ends the service wherever it is. *)
Kill ==
    /\ door # "over"
    /\ door' = "over"
    /\ verdict' = "killed"
    /\ lost' = admitted \ ended
    /\ UNCHANGED <<admitted, ended>>

Next ==
    \/ \E s \in Sessions : Admit(s) \/ End(s)
    \/ ShutDoor
    \/ Judge
    \/ Finish
    \/ Kill

Spec == Init /\ [][Next]_vars

(* The reason for the contract: a clean verdict means that nobody was lost. *)
CleanLosesNobody == verdict = "clean" => lost = {} /\ admitted = ended
=============================================================================
