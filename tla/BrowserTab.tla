------------------------------ MODULE BrowserTab ----------------------------
(***************************************************************************)
(* One browser tab running the React client: its history, the page on top  *)
(* of it, and the requests it has sent.  The pages are BookingPage         *)
(* ("search"), CheckoutPage ("checkout") and BookingConfirmationPage       *)
(* ("booking").  A continuation of a request runs when its answer arrives, *)
(* whatever page is shown by then: setting the state of an unmounted       *)
(* component does nothing, but navigate still navigates.                   *)
(*                                                                         *)
(* The server is reduced to what a client can tell: the tab's own holds    *)
(* and bookings (BookingSystem has the details).  Reloading or closing the *)
(* tab is not modelled.                                                    *)
(***************************************************************************)
EXTENDS Naturals, Sequences, FiniteSets

CONSTANTS
  Searches,         \* origin, destination and date of a search
  Coaches,
  Holds,            \* hold tokens the server may issue to this tab
  None,
  MaxClicks,        \* bound: what the passenger does
  MaxCalls,         \* bound: requests under way, lists aside
  MaxLists          \* bound: availability requests under way per search

ASSUME TabAssumption == /\ None \notin Searches \cup Coaches \cup Holds
                        /\ MaxClicks \in Nat /\ MaxCalls \in Nat /\ MaxLists \in Nat \ {0}

VARIABLES
  history, here,              \* window.history and the position in it
  lists,                      \* searches -> getAvailability calls under way
  seats,                      \* the search whose seats are shown
  searching, failed, holding, \* BookingPage; failed: its error is shown
  submitting, cancelling,     \* CheckoutPage
  calls,                      \* other requests under way
  lapsed,                     \* holds whose countdown has reached zero
  issued, live, booked,       \* server: this tab's tokens, hold keys, bookings
  clicks

pageVars == <<lists, seats, searching, failed, holding, submitting, cancelling>>
tabVars == <<history, here, pageVars>>
serverVars == <<issued, live, booked>>
vars == <<tabVars, calls, lapsed, serverVars, clicks>>

-----------------------------------------------------------------------------
(* History entries.  The URL of the seat list a hold was taken from stays  *)
(* with the checkout entry, as returnTo.                                   *)

Landing == [page |-> "search", search |-> None, coach |-> None, hold |-> None]
List(s, c) == [Landing EXCEPT !.search = s, !.coach = c]
Checkout(h, from) == [from EXCEPT !.page = "checkout", !.hold = h]
Confirmation(h) == [Landing EXCEPT !.page = "booking", !.hold = h]
ReturnTo(entry) == List(entry.search, entry.coach)

Top == history[here]

Pushed(entry) == Append(SubSeq(history, 1, here), entry)

-----------------------------------------------------------------------------
(* Requests other than getAvailability.  mine: the component that sent it  *)
(* is still mounted.                                                       *)

Slots == 1 .. MaxCalls
NoCall == [kind |-> "none", hold |-> None, from |-> Landing, stage |-> "none", mine |-> FALSE]
Free == {i \in Slots : calls[i] = NoCall}
FreeSlot == CHOOSE i \in Free : \A j \in Free : i <= j

Call(kind, h, from) ==
  [kind |-> kind, hold |-> h, from |-> from, stage |-> "sent", mine |-> TRUE]

Orphaned(cs) == [i \in Slots |-> [cs[i] EXCEPT !.mine = FALSE]]

-----------------------------------------------------------------------------
(* Arriving at entry i of history hs, with the calls cs under way, and the *)
(* effects that run then.  CheckoutPage with a lapsed hold goes straight   *)
(* on to the seat list.  BookingPage asks for the list when it is mounted, *)
(* when the search or the coach has changed, and when checkout hands the   *)
(* passenger back ("released", with or without a notice).                  *)

Bounces(hs, i) == hs[i].page = "checkout" /\ hs[i].hold \in lapsed

AtMost(n, m) == IF n > m THEN m ELSE n

Arrive(hs, i, released, cs) ==
  LET bounced == Bounces(hs, i)
      entry == IF bounced THEN ReturnTo(hs[i]) ELSE hs[i]
      remount == bounced \/ entry.page # Top.page
      asks == IF entry.page # "search" \/ entry.search = None THEN 0
              ELSE (IF remount \/ entry # Top THEN 1 ELSE 0)
                     + (IF released \/ bounced THEN 1 ELSE 0)
      old == IF remount THEN [s \in Searches |-> 0] ELSE lists
  IN  /\ history' = IF bounced THEN Append(SubSeq(hs, 1, i), entry) ELSE hs
      /\ here' = IF bounced THEN i + 1 ELSE i
      /\ calls' = IF remount THEN Orphaned(cs) ELSE cs
      /\ lists' = [s \in Searches |->
                     IF s = entry.search THEN AtMost(old[s] + asks, MaxLists) ELSE old[s]]
      /\ searching' = (asks > 0 \/ (~ remount /\ searching))
      /\ failed' = (asks = 0 /\ ~ remount /\ failed)
      /\ seats' = IF remount \/ entry.search = None THEN None ELSE seats
      /\ holding' = (~ remount /\ holding)
      /\ submitting' = (~ remount /\ submitting)
      /\ cancelling' = (~ remount /\ cancelling)

Push(entry, released, cs) == Arrive(Pushed(entry), here + 1, released, cs)

-----------------------------------------------------------------------------
Init ==
  /\ history = <<Landing>> /\ here = 1
  /\ lists = [s \in Searches |-> 0]
  /\ seats = None
  /\ searching = FALSE /\ failed = FALSE /\ holding = FALSE
  /\ submitting = FALSE /\ cancelling = FALSE
  /\ calls = [i \in Slots |-> NoCall]
  /\ lapsed = {} /\ issued = {} /\ live = {} /\ booked = {}
  /\ clicks = 0

(* What the passenger does *)

Click == clicks < MaxClicks /\ clicks' = clicks + 1

\* LandingSearch, whose button is disabled while a list is loading.
Search(s) ==
  /\ Click /\ Top.page = "search" /\ ~ searching
  /\ Push(List(s, None), FALSE, calls)
  /\ UNCHANGED <<lapsed, serverVars>>

\* A coach that has seats, among those the loaded list shows.
SelectCoach(c) ==
  /\ Click /\ Top.page = "search" /\ ~ searching
  /\ Top.search # None /\ Top.coach = None /\ seats # None
  /\ Push(List(Top.search, c), FALSE, calls)
  /\ UNCHANGED <<lapsed, serverVars>>

BackToCoaches ==
  /\ Click /\ Top.page = "search" /\ ~ searching /\ Top.coach # None
  /\ Push(List(Top.search, None), FALSE, calls)
  /\ UNCHANGED <<lapsed, serverVars>>

Proceed ==
  /\ Click /\ Top.page = "search" /\ ~ searching /\ ~ holding
  /\ Top.coach # None /\ seats # None /\ Free # {}
  /\ holding' = TRUE
  /\ calls' = [calls EXCEPT ![FreeSlot] = Call("hold", None, Top)]
  /\ UNCHANGED <<history, here, lists, seats, searching, failed, submitting, cancelling,
                 lapsed, serverVars>>

\* Pay is disabled while submitting, not while cancelling.
Pay ==
  /\ Click /\ Top.page = "checkout" /\ ~ submitting /\ Free # {}
  /\ submitting' = TRUE
  /\ calls' = [calls EXCEPT ![FreeSlot] = Call("pay", Top.hold, ReturnTo(Top))]
  /\ UNCHANGED <<history, here, lists, seats, searching, failed, holding, cancelling,
                 lapsed, serverVars>>

Cancel ==
  /\ Click /\ Top.page = "checkout" /\ ~ submitting /\ ~ cancelling /\ Free # {}
  /\ cancelling' = TRUE
  /\ calls' = [calls EXCEPT ![FreeSlot] = Call("cancel", Top.hold, ReturnTo(Top))]
  /\ UNCHANGED <<history, here, lists, seats, searching, failed, holding, submitting,
                 lapsed, serverVars>>

BookAnother ==
  /\ Click /\ Top.page = "booking"
  /\ Push(Landing, FALSE, calls)
  /\ UNCHANGED <<lapsed, serverVars>>

BrowserBack ==
  /\ Click /\ here > 1 /\ UNCHANGED <<lapsed, serverVars>>
  /\ Arrive(history, here - 1, FALSE, calls)

BrowserForward ==
  /\ Click /\ here < Len(history) /\ UNCHANGED <<lapsed, serverVars>>
  /\ Arrive(history, here + 1, FALSE, calls)

-----------------------------------------------------------------------------
(* useCountdown: the countdown of a hold ends, by the browser's clock. *)

\* Mutant: the countdown does not wait for the hold it counts down.
CountdownWithoutHold(h) ==
  /\ h \in Holds \ lapsed
  /\ lapsed' = lapsed \cup {h}
  /\ UNCHANGED <<tabVars, calls, serverVars, clicks>>

CountdownEnds(h) ==
  /\ h \in issued \ lapsed
  /\ lapsed' = lapsed \cup {h}
  /\ IF Top.page = "checkout" /\ Top.hold = h
       THEN Push(ReturnTo(Top), TRUE, calls)
       ELSE UNCHANGED <<tabVars, calls>>
  /\ UNCHANGED <<serverVars, clicks>>

-----------------------------------------------------------------------------
(* The server answers.  An answer may be lost after its request has taken  *)
(* effect: the client sees an error.                                       *)

Answer(i, a) == calls' = [calls EXCEPT ![i].stage = a]
Is(i, kind, stage) == calls[i].kind = kind /\ calls[i].stage = stage

HoldAnswered(i) ==
  /\ Is(i, "hold", "sent")
  /\ \/ \E h \in Holds \ issued :
          /\ issued' = issued \cup {h} /\ live' = live \cup {h}
          /\ \/ calls' = [calls EXCEPT ![i].stage = "created", ![i].hold = h]
             \/ Answer(i, "error")
     \/ Answer(i, "conflict") /\ UNCHANGED <<issued, live>>
     \/ Answer(i, "error") /\ UNCHANGED <<issued, live>>
  /\ UNCHANGED <<tabVars, lapsed, booked, clicks>>

\* POST /bookings reads the hold ...
PayRead(i) ==
  /\ Is(i, "pay", "sent")
  /\ \/ Answer(i, IF calls[i].hold \in live THEN "read" ELSE "gone")
     \/ Answer(i, "error")
  /\ UNCHANGED <<tabVars, lapsed, serverVars, clicks>>

\* ... inserts the booking unless it overlaps one, be it this hold's own, and
\* releases the hold if it can.
PayInsert(i) ==
  /\ Is(i, "pay", "read")
  /\ \/ /\ calls[i].hold \notin booked
        /\ booked' = booked \cup {calls[i].hold}
        /\ Answer(i, "booked") \/ Answer(i, "error")
     \/ UNCHANGED booked /\ (Answer(i, "conflict") \/ Answer(i, "error"))
  /\ live' \in {live, live \ {calls[i].hold}}
  /\ UNCHANGED <<tabVars, lapsed, issued, clicks>>

CancelAnswered(i) ==
  /\ Is(i, "cancel", "sent")
  /\ live' \in {live, live \ {calls[i].hold}}
  /\ Answer(i, "answered")
  /\ UNCHANGED <<tabVars, lapsed, issued, booked, clicks>>

HoldExpires(h) ==
  /\ h \in live
  /\ live' = live \ {h}
  /\ UNCHANGED <<tabVars, calls, lapsed, issued, booked, clicks>>

-----------------------------------------------------------------------------
(* Continuations, run when the answer reaches the tab *)

Done(i) == [calls EXCEPT ![i] = NoCall]
Continues == UNCHANGED <<lapsed, serverVars, clicks>>
StaysPut == UNCHANGED <<history, here>>

\* fetchAvailability: whichever list arrives last is shown, and whichever
\* arrives first ends "Loading".
ListArrives(s) ==
  /\ lists[s] > 0
  /\ lists' = [lists EXCEPT ![s] = @ - 1]
  /\ searching' = FALSE
  /\ \/ seats' = s /\ UNCHANGED failed
     \/ failed' = TRUE /\ UNCHANGED seats
  /\ UNCHANGED <<calls, holding, submitting, cancelling>> /\ StaysPut /\ Continues

HoldCreated(i) ==
  /\ Is(i, "hold", "created") /\ Continues
  /\ Push(Checkout(calls[i].hold, calls[i].from), FALSE, Done(i))

\* 409: the list is fetched again, for the search the seat was chosen from.
HoldRefused(i) ==
  /\ Is(i, "hold", "conflict")
  /\ IF calls[i].mine
       THEN /\ calls' = [calls EXCEPT ![i].kind = "refresh", ![i].stage = "sent"]
            /\ searching' = TRUE /\ failed' = FALSE
       ELSE calls' = Done(i) /\ UNCHANGED <<searching, failed>>
  /\ UNCHANGED <<lists, seats, holding, submitting, cancelling>> /\ StaysPut /\ Continues

Refreshed(i) ==
  /\ Is(i, "refresh", "sent")
  /\ calls' = Done(i)
  /\ IF calls[i].mine
       THEN /\ searching' = FALSE /\ holding' = FALSE
            /\ \/ seats' = calls[i].from.search /\ UNCHANGED failed
               \/ failed' = TRUE /\ UNCHANGED seats
       ELSE UNCHANGED <<searching, holding, seats, failed>>
  /\ UNCHANGED <<lists, submitting, cancelling>> /\ StaysPut /\ Continues

HoldFailed(i) ==
  /\ Is(i, "hold", "error")
  /\ calls' = Done(i)
  /\ holding' = (holding /\ ~ calls[i].mine)
  /\ UNCHANGED <<lists, seats, searching, failed, submitting, cancelling>>
  /\ StaysPut /\ Continues

\* Mutant: only a checkout page still mounted goes on to the confirmation.
PaidIfMounted(i) ==
  /\ Is(i, "pay", "booked") /\ Continues
  /\ IF calls[i].mine
       THEN Arrive(SubSeq(history, 1, here - 1) \o <<Landing, Confirmation(calls[i].hold)>>,
                   here + 1, FALSE, Done(i))
       ELSE calls' = Done(i) /\ UNCHANGED tabVars

\* Mutant: a refusal is taken for a confirmation, its status never looked at.
PaidUnchecked(i) ==
  /\ calls[i].kind = "pay" /\ calls[i].stage \in {"booked", "conflict"} /\ Continues
  /\ Arrive(SubSeq(history, 1, here - 1) \o <<Landing, Confirmation(calls[i].hold)>>,
            here + 1, FALSE, Done(i))

\* The current entry becomes a blank landing page, the confirmation is pushed.
Paid(i) ==
  /\ Is(i, "pay", "booked") /\ Continues
  /\ Arrive(SubSeq(history, 1, here - 1) \o <<Landing, Confirmation(calls[i].hold)>>,
            here + 1, FALSE, Done(i))

PayRefused(i) ==
  /\ calls[i].kind = "pay" /\ calls[i].stage \in {"gone", "conflict"} /\ Continues
  /\ Push(calls[i].from, TRUE, Done(i))

\* Mutant: the catch block forgets setSubmitting(false).
PayFailedStaysBusy(i) ==
  /\ Is(i, "pay", "error")
  /\ calls' = Done(i)
  /\ UNCHANGED tabVars /\ Continues

PayFailed(i) ==
  /\ Is(i, "pay", "error")
  /\ calls' = Done(i)
  /\ submitting' = (submitting /\ ~ calls[i].mine)
  /\ UNCHANGED <<lists, seats, searching, failed, holding, cancelling>>
  /\ StaysPut /\ Continues

\* Whatever the answer was.
Cancelled(i) ==
  /\ Is(i, "cancel", "answered") /\ Continues
  /\ Push(calls[i].from, TRUE, Done(i))

-----------------------------------------------------------------------------
Passenger ==
  \/ \E s \in Searches : Search(s)
  \/ \E c \in Coaches : SelectCoach(c)
  \/ BackToCoaches \/ Proceed \/ Pay \/ Cancel \/ BookAnother
  \/ BrowserBack \/ BrowserForward

Server(i) == HoldAnswered(i) \/ PayRead(i) \/ PayInsert(i) \/ CancelAnswered(i)

Continuation(i) ==
  \/ HoldCreated(i) \/ HoldRefused(i) \/ Refreshed(i) \/ HoldFailed(i)
  \/ Paid(i) \/ PayRefused(i) \/ PayFailed(i) \/ Cancelled(i)

Next ==
  \/ Passenger
  \/ \E h \in Holds : CountdownEnds(h) \/ HoldExpires(h)
  \/ \E i \in Slots : Server(i) \/ Continuation(i)
  \/ \E s \in Searches : ListArrives(s)

Spec == Init /\ [][Next]_vars

\* Requests are answered and answers delivered; a passenger owes nothing.
FairSpec == /\ Spec
            /\ \A i \in Slots : WF_vars(Server(i)) /\ WF_vars(Continuation(i))
            /\ \A s \in Searches : WF_vars(ListArrives(s))

-----------------------------------------------------------------------------
(* Properties *)

Stages == {"none", "sent", "read", "created", "conflict", "booked", "gone", "error", "answered"}
Kinds == {"none", "hold", "refresh", "pay", "cancel"}
Entries == [page : {"search", "checkout", "booking"}, search : Searches \cup {None},
            coach : Coaches \cup {None}, hold : Holds \cup {None}]
Requests == [kind : Kinds, hold : Holds \cup {None}, from : Entries,
             stage : Stages, mine : BOOLEAN]

TypeOK ==
  /\ history \in Seq(Entries) /\ here \in 1 .. Len(history)
  /\ lists \in [Searches -> 0 .. MaxLists]
  /\ seats \in Searches \cup {None}
  /\ {searching, failed, holding, submitting, cancelling} \subseteq BOOLEAN
  /\ calls \in [Slots -> Requests]
  /\ lapsed \subseteq issued /\ issued \subseteq Holds
  /\ live \subseteq issued /\ booked \subseteq issued
  /\ clicks \in 0 .. MaxClicks

Awaits(kinds) == \E i \in Slots : calls[i].mine /\ calls[i].kind \in kinds

\* No button stays disabled and no spinner turns for nothing: each flag that
\* disables part of a page has an answer under way that will reset it, whatever
\* was left, revisited or answered out of order (the finally and catch blocks
\* of BookingPage and CheckoutPage).
NoStuckButtons ==
  /\ searching => Awaits({"refresh"}) \/ \E s \in Searches : lists[s] > 0
  /\ holding => Awaits({"hold", "refresh"})
  /\ submitting => Awaits({"pay"})
  /\ cancelling => Awaits({"cancel"})

\* A confirmation in the history is one of a booking that exists.
ConfirmationIsTrue ==
  \A i \in 1 .. Len(history) : history[i].page = "booking" => history[i].hold \in booked

\* A passenger whose payment was answered 201 gets to see the confirmation,
\* even if the countdown ended or they left the page meanwhile.
PaidPassengerSeesConfirmation ==
  \A i \in Slots : \A h \in Holds :
    (Is(i, "pay", "booked") /\ calls[i].hold = h) ~> Top = Confirmation(h)

-----------------------------------------------------------------------------
(* What comments say and the code does not always keep *)

\* "Browser back from confirmation can never return to this now-spent checkout
\* form" (comment in handleSubmit).
SpentFormStaysBehind ==
  \A j \in 1 .. Len(history) : history[j].page = "booking" =>
    \A i \in 1 .. j - 1 : history[i].page = "checkout" => history[i].hold # history[j].hold

\* "Back/forward work for free" (comment on BookingPage): the seats under a
\* search's heading, loaded and without an error, are that search's.
ListMatchesSearch ==
  (Top.page = "search" /\ Top.search # None /\ seats # None /\ ~ searching /\ ~ failed)
    => seats = Top.search
=============================================================================
