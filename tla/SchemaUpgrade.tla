---------------------------- MODULE SchemaUpgrade ---------------------------
(***************************************************************************)
(* What starting API processes promises about their database, without      *)
(* locks, crashes or the steps of a start.  It is upgraded as if by one    *)
(* process that never stops: a migration is announced, takes effect once   *)
(* and is confirmed before the next is announced, and one that was left    *)
(* unconfirmed blocks all others for good.  A process opens for requests   *)
(* only on the complete, confirmed schema.                                 *)
(***************************************************************************)
EXTENDS Naturals, Sequences

CONSTANTS Servers, Newest

VARIABLES announced, unconfirmed, effects, open

UpgradeInit == announced = 0 /\ unconfirmed = FALSE /\ effects = <<>> /\ open = {}

Announce == /\ ~ unconfirmed /\ announced < Newest
            /\ announced' = announced + 1 /\ unconfirmed' = TRUE
            /\ UNCHANGED <<effects, open>>

TakeEffect == /\ unconfirmed /\ Len(effects) + 1 = announced
              /\ effects' = Append(effects, announced)
              /\ UNCHANGED <<announced, unconfirmed, open>>

Confirm == /\ unconfirmed /\ Len(effects) = announced
           /\ unconfirmed' = FALSE
           /\ UNCHANGED <<announced, effects, open>>

Open(p) == /\ ~ unconfirmed /\ Len(effects) = Newest
           /\ open' = open \cup {p}
           /\ UNCHANGED <<announced, unconfirmed, effects>>

Shut(p) == /\ p \in open
           /\ open' = open \ {p}
           /\ UNCHANGED <<announced, unconfirmed, effects>>

UpgradeNext == \/ Announce \/ TakeEffect \/ Confirm
               \/ \E p \in Servers : Open(p) \/ Shut(p)

UpgradeSpec == UpgradeInit /\ [][UpgradeNext]_<<announced, unconfirmed, effects, open>>
=============================================================================
