------------------------------ MODULE SeatLedger ----------------------------
(***************************************************************************)
(* What the booking system promises, without holds, locks or failures.     *)
(* A buyer is granted one offer: a leg on a seat at a fare.  A sale is the *)
(* offer, unchanged, and a buyer is sold to at most once; a stretch of the *)
(* line is never sold twice on the same seat, date and direction; sales    *)
(* are final.  An offer is no promise: others may be granted the same      *)
(* seat, and whoever is sold to first has it.                              *)
(***************************************************************************)
EXTENDS Legs

CONSTANTS Buyers, Offers, NoOffer

VARIABLES granted, sales

LedgerInit == /\ granted = [b \in Buyers |-> NoOffer]
              /\ sales = {}

Grant(b) == /\ granted[b] = NoOffer
            /\ granted'[b] \in Offers
            /\ granted' = [granted EXCEPT ![b] = granted'[b]]
            /\ UNCHANGED sales

Free(seat, l) == \A s \in sales : Cells(s.seat, s.leg) \cap Cells(seat, l) = {}

Sale(b) == [buyer |-> b, seat |-> granted[b].seat,
            leg |-> granted[b].leg, fare |-> granted[b].fare]

Sell(b) == /\ granted[b] # NoOffer
           /\ \A s \in sales : s.buyer # b
           /\ Free(granted[b].seat, granted[b].leg)
           /\ sales' = sales \cup {Sale(b)}
           /\ UNCHANGED granted

LedgerNext == \E b \in Buyers : Grant(b) \/ Sell(b)

LedgerSpec == LedgerInit /\ [][LedgerNext]_<<granted, sales>>
=============================================================================
