------------------------------- MODULE TaDrive -------------------------------
(***************************************************************************)
(* What the client promises the operator of the TA70-100 (src/README.md,   *)
(* "OLIMEXINO motor controller"; the header of TaPositionAction): the drive *)
(* moves only between an "init" and the next abort, each move goes to the  *)
(* target asked for last, a target taken is kept to the end of its move,   *)
(* and no target asked for before an "init" is moved to after it, so an    *)
(* aborted move never resumes.                                             *)
(***************************************************************************)
CONSTANTS
    Target,    \* the angles that can be sent to the drive
    NoTarget

VARIABLES
    phase,    \* locked, entering (mode switch), holding, moving
    wanted,   \* the latest target asked for, while it is not confirmed
    goal      \* the target being moved to

vars == <<phase, wanted, goal>>

Init == phase = "locked" /\ wanted = NoTarget /\ goal = NoTarget

Request(deg) == wanted' = deg /\ UNCHANGED <<phase, goal>>

\* The target is confirmed, or the operator's reset or init withdraws it.
Withdraw == wanted' = NoTarget /\ UNCHANGED <<phase, goal>>

\* The operator's stop.
Stop == phase' = "locked" /\ wanted' = NoTarget /\ goal' = NoTarget

\* The client or the board stops the drive without the operator: the target
\* stays with the client, but is not reached without a new init.
Abort == phase' = "locked" /\ goal' = NoTarget /\ UNCHANGED wanted

BeginInit ==
    /\ wanted = NoTarget
    /\ phase' = "entering" /\ goal' = NoTarget /\ UNCHANGED wanted

FinishInit == phase = "entering" /\ phase' = "holding" /\ UNCHANGED <<wanted, goal>>

Accept ==
    /\ phase = "holding" /\ wanted # NoTarget
    /\ phase' = "moving" /\ goal' = wanted /\ UNCHANGED wanted

Settle == phase = "moving" /\ phase' = "holding" /\ goal' = NoTarget /\ UNCHANGED wanted

Next ==
    \/ \E deg \in Target : Request(deg)
    \/ Withdraw \/ Stop \/ Abort \/ BeginInit \/ FinishInit \/ Accept \/ Settle

Spec == Init /\ [][Next]_vars
=============================================================================
