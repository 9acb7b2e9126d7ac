----------------------------- MODULE HoldRegister ---------------------------
(***************************************************************************)
(* What holding seats promises while every lock outlives its owner's work, *)
(* as if a request looked at the seat and took it in one step.  A token is *)
(* placed at most once, on a stretch no live hold uses, or withdrawn; a    *)
(* hold that was dropped (cancelled, released or expired) never returns.   *)
(***************************************************************************)
EXTENDS Legs

CONSTANTS Tokens, Nothing

VARIABLES register, spent

RegisterInit == register = [t \in Tokens |-> Nothing] /\ spent = {}

Clear(seat, l) ==
  \A t \in Tokens : (register[t] # Nothing /\ register[t].seat = seat)
    => Cells(seat, register[t].leg) \cap Cells(seat, l) = {}

Place(t) == /\ t \notin spent
            /\ register'[t] # Nothing
            /\ Clear(register'[t].seat, register'[t].leg)
            /\ register' = [register EXCEPT ![t] = register'[t]]
            /\ spent' = spent \cup {t}

Withdraw(t) == t \notin spent /\ spent' = spent \cup {t} /\ UNCHANGED register

Drop(t) == /\ register[t] # Nothing
           /\ register' = [register EXCEPT ![t] = Nothing]
           /\ UNCHANGED spent

RegisterNext == \E t \in Tokens : Place(t) \/ Withdraw(t) \/ Drop(t)

RegisterSpec == RegisterInit /\ [][RegisterNext]_<<register, spent>>
=============================================================================
