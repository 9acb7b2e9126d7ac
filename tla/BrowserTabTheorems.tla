------------------------- MODULE BrowserTabTheorems -------------------------
(***************************************************************************)
(* However much the passenger clicks and however many requests are under   *)
(* way in a tab: no control stays disabled without an answer that will     *)
(* enable it, and a confirmation is one of a booking that exists.          *)
(***************************************************************************)
EXTENDS BrowserTab, TLAPS, SequenceTheorems, WellFoundedInduction

USE TabAssumption
USE DEF tabVars, pageVars, serverVars, Slots, Continues, StaysPut

\* What is known of a request under way: it came from a seat list, a payment
\* answered 201 has its booking, and a request that still has its page has it
\* on top.
CallOK(i) ==
  /\ calls[i].from.page = "search"
  /\ Is(i, "pay", "read") => calls[i].hold \in issued
  /\ Is(i, "pay", "booked") => calls[i].hold \in booked
  /\ (calls[i].mine /\ calls[i].kind \in {"hold", "refresh"}) => Top.page = "search"
  /\ (calls[i].mine /\ calls[i].kind \in {"pay", "cancel"}) => Top.page = "checkout"
  /\ calls[i].kind = "none" => ~ calls[i].mine

CallsOK == \A i \in Slots : CallOK(i)

Inv == TypeOK /\ ConfirmationIsTrue /\ CallsOK /\ NoStuckButtons

\* A tab opens on the landing page with nothing under way.
LEMMA InitInv ==
  ASSUME Init
  PROVE  Inv
<1>1. Landing \in Entries
  BY DEF Landing, Entries
<1>2. NoCall \in Requests
  BY <1>1 DEF NoCall, Requests, Kinds, Stages
<1>3. history = <<Landing>> /\ history \in Seq(Entries) /\ here \in 1 .. Len(history)
  BY <1>1 DEF Init
<1>4. {searching, failed, holding, submitting, cancelling} \subseteq BOOLEAN
  BY Zenon DEF Init
<1>5. TypeOK
  BY <1>2, <1>3, <1>4 DEF Init, TypeOK
<1>6. ConfirmationIsTrue
  BY DEF Init, ConfirmationIsTrue, Landing
<1>7. CallsOK
  BY DEF Init, CallsOK, CallOK, NoCall, Is, Landing
<1>8. NoStuckButtons
  BY DEF Init, NoStuckButtons
<1>. QED  BY <1>5, <1>6, <1>7, <1>8 DEF Inv

\* A request is put where none is under way.
LEMMA FreeSlotIsFree ==
  ASSUME Free # {}
  PROVE  FreeSlot \in Free
<1>1. Free \in SUBSET Nat
  BY DEF Free
<1>2. IsWellFoundedOn(OpToRel(<, Nat), Nat)
  BY NatLessThanWellFounded
<1>3. PICK x \in Free : \A y \in Free : <<y, x>> \notin OpToRel(<, Nat)
  BY <1>1, <1>2, WFMin
<1>. HIDE DEF Slots
<1>4. \A y \in Free : ~ (y < x)
  BY <1>1, <1>3 DEF OpToRel
<1>5. \A y \in Free : x <= y
  BY <1>1, <1>4
<1>. QED  BY <1>5 DEF FreeSlot

-----------------------------------------------------------------------------
(* Arriving at a page *)

\* A history that may be navigated to, and the requests that remain.
MayArrive(hs, i, cs) ==
  /\ hs \in Seq(Entries) /\ i \in 1 .. Len(hs)
  /\ \A j \in 1 .. Len(hs) : hs[j].page = "booking" => hs[j].hold \in booked
  /\ \A j \in Slots : cs[j] = calls[j] \/ (cs[j] = NoCall /\ (calls[j].mine => hs[i].page # Top.page))

\* The entry arrived at is an entry of the tab, a list if it was bounced to.
LEMMA ArriveHistory ==
  ASSUME Inv, NEW hs, NEW i, NEW released, NEW cs, MayArrive(hs, i, cs),
         Arrive(hs, i, released, cs)
  PROVE  /\ history' \in Seq(Entries) /\ here' \in 1 .. Len(history')
         /\ \A j \in 1 .. Len(history') : history'[j].page = "booking" => history'[j].hold \in booked
         /\ history'[here'] = (IF Bounces(hs, i) THEN ReturnTo(hs[i]) ELSE hs[i])
         /\ history'[here'] \in Entries
<1>. USE DEF MayArrive
<1>1. hs[i] \in Entries
  OBVIOUS
<1>2. ReturnTo(hs[i]) \in Entries /\ ReturnTo(hs[i]).page = "search"
  BY <1>1 DEF ReturnTo, List, Landing, Entries
<1>3. CASE Bounces(hs, i)
  <2>. DEFINE old == SubSeq(hs, 1, i)
  <2>1. history' = Append(old, ReturnTo(hs[i])) /\ here' = i + 1
    BY <1>3 DEF Arrive
  <2>2. old \in Seq(Entries) /\ Len(old) = i /\ \A j \in 1 .. i : old[j] = hs[j]
    OBVIOUS
  <2>. HIDE DEF old
  <2>3. /\ history' \in Seq(Entries) /\ Len(history') = i + 1
        /\ \A j \in 1 .. i : history'[j] = old[j]
        /\ history'[i + 1] = ReturnTo(hs[i])
    BY <1>2, <2>1, <2>2
  <2>. QED  BY <1>2, <1>3, <2>1, <2>2, <2>3
<1>4. CASE ~ Bounces(hs, i)
  BY <1>1, <1>4 DEF Arrive
<1>. QED  BY <1>3, <1>4

\* What arriving does to the page: a new page starts with its flags down, a
\* page that stays keeps its requests.
LEMMA ArrivePage ==
  ASSUME Inv, NEW hs, NEW i, NEW released, NEW cs, MayArrive(hs, i, cs),
         Arrive(hs, i, released, cs)
  PROVE  /\ lists' \in [Searches -> 0 .. MaxLists] /\ seats' \in Searches \cup {None}
         /\ NoStuckButtons'
         /\ \/ history'[here'].page = Top.page /\ calls' = cs
            \/ calls' = Orphaned(cs)
<1>. DEFINE bounced == Bounces(hs, i)
            entry == IF bounced THEN ReturnTo(hs[i]) ELSE hs[i]
            remount == bounced \/ entry.page # Top.page
            asks == IF entry.page # "search" \/ entry.search = None THEN 0
                    ELSE (IF remount \/ entry # Top THEN 1 ELSE 0)
                           + (IF released \/ bounced THEN 1 ELSE 0)
            old == IF remount THEN [s \in Searches |-> 0] ELSE lists
<1>1. entry \in Entries /\ history'[here'] = entry
  BY ArriveHistory
<1>2. asks \in Nat /\ (asks > 0 => entry.search \in Searches)
  BY <1>1 DEF Entries
<1>3. old \in [Searches -> 0 .. MaxLists]
  BY DEF Inv, TypeOK
<1>4. /\ calls' = IF remount THEN Orphaned(cs) ELSE cs
      /\ lists' = [s \in Searches |->
                     IF s = entry.search THEN AtMost(old[s] + asks, MaxLists) ELSE old[s]]
      /\ searching' = (asks > 0 \/ (~ remount /\ searching))
      /\ seats' = IF remount \/ entry.search = None THEN None ELSE seats
      /\ holding' = (~ remount /\ holding)
      /\ submitting' = (~ remount /\ submitting)
      /\ cancelling' = (~ remount /\ cancelling)
  BY DEF Arrive
<1>5. \A s \in Searches : old[s] + asks \in Nat /\ AtMost(old[s] + asks, MaxLists) \in 0 .. MaxLists
        /\ old[s] <= AtMost(old[s] + asks, MaxLists)
        /\ (asks > 0 => AtMost(old[s] + asks, MaxLists) > 0)
  BY <1>2, <1>3 DEF AtMost
<1>6. lists' \in [Searches -> 0 .. MaxLists]
  BY <1>3, <1>4, <1>5
<1>7. seats' \in Searches \cup {None}
  BY <1>4 DEF Inv, TypeOK
<1>8. ASSUME ~ remount, NEW j \in Slots, calls[j].mine
      PROVE  calls'[j] = calls[j]
  BY <1>4, <1>8 DEF MayArrive
<1>9. \A s \in Searches : ~ remount => lists'[s] >= lists[s]
  BY <1>3, <1>4, <1>5
<1>10. asks > 0 => lists'[entry.search] > 0 /\ entry.search \in Searches
  BY <1>2, <1>4, <1>5
<1>. HIDE DEF bounced, entry, asks, old
<1>11. CASE remount
  <2>1. (searching' => asks > 0) /\ ~ holding' /\ ~ submitting' /\ ~ cancelling'
    BY <1>4, <1>11
  <2>. QED  BY <1>4, <1>6, <1>7, <1>10, <1>11, <2>1 DEF NoStuckButtons
<1>12. CASE ~ remount
  <2>1. \A kinds : Awaits(kinds) => Awaits(kinds)'
    BY <1>8, <1>12 DEF Awaits
  <2>2. (searching' => asks > 0 \/ searching) /\ (holding' => holding)
        /\ (submitting' => submitting) /\ (cancelling' => cancelling)
    BY <1>4
  <2>3. (\E s \in Searches : lists[s] > 0) => (\E s \in Searches : lists[s] > 0)'
    BY <1>6, <1>9, <1>12 DEF Inv, TypeOK
  <2>4. NoStuckButtons'
    BY <1>10, <2>1, <2>2, <2>3 DEF Inv, NoStuckButtons
  <2>. QED  BY <1>1, <1>4, <1>6, <1>7, <1>12, <2>4
<1>. QED  BY <1>11, <1>12

LEMMA NoCallIsRequest == NoCall \in Requests
BY DEF NoCall, Requests, Kinds, Stages, Landing, Entries

\* Arriving anywhere with the requests that may remain keeps the invariant.
LEMMA ArriveKeeps ==
  ASSUME Inv, NEW hs, NEW i, NEW released, NEW cs, MayArrive(hs, i, cs),
         cs \in [Slots -> Requests], Arrive(hs, i, released, cs),
         lapsed' \subseteq issued, UNCHANGED serverVars, clicks' \in 0 .. MaxClicks
  PROVE  Inv'
<1>1. /\ history' \in Seq(Entries) /\ here' \in 1 .. Len(history')
      /\ \A j \in 1 .. Len(history') : history'[j].page = "booking" => history'[j].hold \in booked
  BY ArriveHistory
<1>2. /\ lists' \in [Searches -> 0 .. MaxLists] /\ seats' \in Searches \cup {None}
      /\ NoStuckButtons'
      /\ \/ history'[here'].page = Top.page /\ calls' = cs
         \/ calls' = Orphaned(cs)
  BY ArrivePage
<1>3. {searching, failed, holding, submitting, cancelling}' \subseteq BOOLEAN
  <2>1. searching' \in BOOLEAN /\ failed' \in BOOLEAN /\ holding' \in BOOLEAN
        /\ submitting' \in BOOLEAN /\ cancelling' \in BOOLEAN
    BY Zenon DEF Arrive
  <2>. QED  BY <2>1, Zenon
<1>4. calls' \in [Slots -> Requests]
  <2>1. Orphaned(cs) \in [Slots -> Requests]
    BY DEF Orphaned, Requests
  <2>. QED  BY <1>2, <2>1
<1>5. TypeOK'
  BY <1>1, <1>2, <1>3, <1>4 DEF Inv, TypeOK
<1>6. ConfirmationIsTrue'
  BY <1>1 DEF ConfirmationIsTrue
<1>7. CallsOK'
  <2>. SUFFICES ASSUME NEW j \in Slots
                PROVE  /\ calls'[j].from.page = "search"
                       /\ Is(j, "pay", "read")' => calls'[j].hold \in issued
                       /\ Is(j, "pay", "booked")' => calls'[j].hold \in booked
                       /\ (calls'[j].mine /\ calls'[j].kind \in {"hold", "refresh"}) => Top'.page = "search"
                       /\ (calls'[j].mine /\ calls'[j].kind \in {"pay", "cancel"}) => Top'.page = "checkout"
                       /\ calls'[j].kind = "none" => ~ calls'[j].mine
    BY DEF CallsOK, CallOK
  <2>1. /\ cs[j].from.page = "search"
        /\ (cs[j].kind = "pay" /\ cs[j].stage = "read") => cs[j].hold \in issued
        /\ (cs[j].kind = "pay" /\ cs[j].stage = "booked") => cs[j].hold \in booked
        /\ (cs[j].mine /\ cs[j].kind \in {"hold", "refresh"}) => Top.page = "search"
        /\ (cs[j].mine /\ cs[j].kind \in {"pay", "cancel"}) => Top.page = "checkout"
        /\ cs[j].kind = "none" => ~ cs[j].mine
    BY DEF MayArrive, Inv, CallsOK, CallOK, Is, NoCall, Landing
  <2>2. CASE history'[here'].page = Top.page /\ calls' = cs
    BY <2>1, <2>2 DEF Is, Top
  <2>3. CASE calls' = Orphaned(cs)
    <3>1. calls'[j] = [cs[j] EXCEPT !.mine = FALSE] /\ cs[j] \in Requests
      BY <2>3 DEF Orphaned
    <3>2. /\ calls'[j].from = cs[j].from /\ calls'[j].kind = cs[j].kind
          /\ calls'[j].stage = cs[j].stage /\ calls'[j].hold = cs[j].hold /\ ~ calls'[j].mine
      BY <3>1 DEF Requests
    <3>. QED  BY <2>1, <3>2 DEF Is
  <2>. QED  BY <1>2, <2>2, <2>3
<1>. QED  BY <1>2, <1>5, <1>6, <1>7 DEF Inv

\* Where the arriving steps go.
LEMMA PushMayArrive ==
  ASSUME Inv, NEW entry \in Entries, NEW cs,
         entry.page = "booking" => entry.hold \in booked,
         \A j \in Slots : cs[j] = calls[j] \/ (cs[j] = NoCall /\ (calls[j].mine => entry.page # Top.page))
  PROVE  MayArrive(Pushed(entry), here + 1, cs)
<1>. DEFINE old == SubSeq(history, 1, here)
<1>1. history \in Seq(Entries) /\ here \in 1 .. Len(history)
  BY DEF Inv, TypeOK
<1>2. old \in Seq(Entries) /\ Len(old) = here /\ \A j \in 1 .. here : old[j] = history[j]
  BY <1>1
<1>. HIDE DEF old
<1>3. /\ Append(old, entry) \in Seq(Entries) /\ Len(Append(old, entry)) = here + 1
      /\ \A j \in 1 .. here : Append(old, entry)[j] = old[j]
      /\ Append(old, entry)[here + 1] = entry
  BY <1>1, <1>2
<1>4. \A j \in 1 .. here + 1 : Append(old, entry)[j].page = "booking" => Append(old, entry)[j].hold \in booked
  BY <1>1, <1>2, <1>3 DEF Inv, ConfirmationIsTrue
<1>5. Pushed(entry) = Append(old, entry)
  BY DEF Pushed, old
<1>. QED  BY <1>1, <1>3, <1>4, <1>5 DEF MayArrive

LEMMA TopIsEntry ==
  ASSUME Inv
  PROVE  Top \in Entries /\ (Top.page = "booking" => Top.hold \in booked)
BY DEF Inv, TypeOK, ConfirmationIsTrue, Top

\* The clicks that navigate.
LEMMA NavigationKeeps ==
  ASSUME Inv,
         \/ \E s \in Searches : Search(s)
         \/ \E c \in Coaches : SelectCoach(c)
         \/ BackToCoaches \/ BookAnother \/ BrowserBack \/ BrowserForward
  PROVE  Inv'
<1>1. clicks' \in 0 .. MaxClicks
  <2>1. Click
    BY DEF Search, SelectCoach, BackToCoaches, BookAnother, BrowserBack, BrowserForward
  <2>2. clicks \in 0 .. MaxClicks
    BY DEF Inv, TypeOK
  <2>. QED  BY <2>1, <2>2 DEF Click
<1>2. lapsed' \subseteq issued /\ UNCHANGED serverVars
  BY DEF Search, SelectCoach, BackToCoaches, BookAnother, BrowserBack, BrowserForward, Inv, TypeOK
<1>3. calls \in [Slots -> Requests] /\ history \in Seq(Entries) /\ here \in 1 .. Len(history)
  BY DEF Inv, TypeOK
<1>4. ASSUME NEW entry \in Entries, entry.page = "search", Push(entry, FALSE, calls)
      PROVE  Inv'
  <2>1. MayArrive(Pushed(entry), here + 1, calls)
    BY <1>4, PushMayArrive
  <2>. QED  BY <1>1, <1>2, <1>3, <1>4, <2>1, ArriveKeeps DEF Push
<1>5. ASSUME NEW i \in 1 .. Len(history), Arrive(history, i, FALSE, calls)
      PROVE  Inv'
  <2>1. MayArrive(history, i, calls)
    BY <1>3 DEF MayArrive, Inv, ConfirmationIsTrue
  <2>. QED  BY <1>1, <1>2, <1>3, <1>5, <2>1, ArriveKeeps
<1>6. ASSUME NEW s \in Searches, Search(s)
      PROVE  Inv'
  BY <1>4, <1>6 DEF Search, List, Landing, Entries
<1>7. ASSUME NEW c \in Coaches, SelectCoach(c)
      PROVE  Inv'
  BY <1>4, <1>7, TopIsEntry DEF SelectCoach, List, Landing, Entries
<1>8. CASE BackToCoaches
  BY <1>4, <1>8, TopIsEntry DEF BackToCoaches, List, Landing, Entries
<1>9. CASE BookAnother
  BY <1>4, <1>9 DEF BookAnother, Landing, Entries
<1>10. CASE BrowserBack
  <2>1. here > 1 /\ Arrive(history, here - 1, FALSE, calls)
    BY <1>10, Zenon DEF BrowserBack
  <2>2. here - 1 \in 1 .. Len(history)
    BY <1>3, <2>1
  <2>. QED  BY <1>5, <2>1, <2>2
<1>11. CASE BrowserForward
  <2>1. here < Len(history) /\ Arrive(history, here + 1, FALSE, calls)
    BY <1>11, Zenon DEF BrowserForward
  <2>2. here + 1 \in 1 .. Len(history)
    BY <1>3, <2>1
  <2>. QED  BY <1>5, <2>1, <2>2
<1>. QED  BY <1>6, <1>7, <1>8, <1>9, <1>10, <1>11

\* The end of a countdown.
LEMMA CountdownKeeps ==
  ASSUME Inv, NEW h \in Holds, CountdownEnds(h)
  PROVE  Inv'
<1>1. lapsed' \subseteq issued /\ UNCHANGED serverVars /\ clicks' \in 0 .. MaxClicks
  BY DEF CountdownEnds, Inv, TypeOK
<1>2. CASE Push(ReturnTo(Top), TRUE, calls)
  <2>1. ReturnTo(Top) \in Entries /\ ReturnTo(Top).page = "search"
    BY TopIsEntry DEF ReturnTo, List, Landing, Entries
  <2>2. MayArrive(Pushed(ReturnTo(Top)), here + 1, calls)
    BY <2>1, PushMayArrive
  <2>3. calls \in [Slots -> Requests]
    BY DEF Inv, TypeOK
  <2>. QED  BY <1>1, <1>2, <2>2, <2>3, ArriveKeeps DEF Push
<1>3. CASE UNCHANGED <<tabVars, calls>>
  <2>1. TypeOK'
    BY <1>1, <1>3 DEF Inv, TypeOK
  <2>2. ConfirmationIsTrue' /\ CallsOK' /\ NoStuckButtons'
    BY <1>1, <1>3 DEF Inv, ConfirmationIsTrue, CallsOK, CallOK, NoStuckButtons, Is, Top, Awaits
  <2>. QED  BY <2>1, <2>2 DEF Inv
<1>. QED  BY <1>2, <1>3 DEF CountdownEnds

\* Continuations that navigate, each with its request done.
LEMMA AnswersNavigate ==
  ASSUME Inv, NEW i \in Slots, HoldCreated(i) \/ Paid(i) \/ PayRefused(i) \/ Cancelled(i)
  PROVE  Inv'
<1>1. lapsed' \subseteq issued /\ UNCHANGED serverVars /\ clicks' \in 0 .. MaxClicks
  BY DEF HoldCreated, Paid, PayRefused, Cancelled, Inv, TypeOK
<1>2. calls \in [Slots -> Requests] /\ Done(i) \in [Slots -> Requests]
      /\ \A j \in Slots : Done(i)[j] = calls[j] \/ (j = i /\ Done(i)[j] = NoCall)
  BY NoCallIsRequest DEF Inv, TypeOK, Done
<1>3. calls[i].from \in Entries /\ calls[i].from.page = "search" /\ calls[i].hold \in Holds \cup {None}
  BY <1>2 DEF Inv, CallsOK, CallOK, Requests
<1>4. ASSUME NEW entry \in Entries, NEW released, Push(entry, released, Done(i)),
             entry.page # "booking", calls[i].mine => entry.page # Top.page
      PROVE  Inv'
  <2>1. MayArrive(Pushed(entry), here + 1, Done(i))
    BY <1>2, <1>4, PushMayArrive
  <2>. QED  BY <1>1, <1>2, <1>4, <2>1, ArriveKeeps DEF Push
<1>5. CASE HoldCreated(i)
  <2>. DEFINE entry == Checkout(calls[i].hold, calls[i].from)
  <2>1. entry \in Entries /\ entry.page = "checkout"
    BY <1>3 DEF Checkout, Entries
  <2>2. calls[i].mine => Top.page = "search"
    BY <1>5 DEF HoldCreated, Is, Inv, CallsOK, CallOK
  <2>. QED  BY <1>4, <1>5, <2>1, <2>2 DEF HoldCreated
<1>6. CASE PayRefused(i) \/ Cancelled(i)
  <2>1. calls[i].mine => Top.page = "checkout"
    BY <1>6 DEF PayRefused, Cancelled, Is, Inv, CallsOK, CallOK
  <2>. QED  BY <1>3, <1>4, <1>6, <2>1 DEF PayRefused, Cancelled
<1>7. CASE Paid(i)
  <2>. DEFINE last == Confirmation(calls[i].hold)
              old == SubSeq(history, 1, here - 1)
              hs == old \o <<Landing, last>>
  <2>1. calls[i].hold \in booked /\ (calls[i].mine => Top.page = "checkout")
    BY <1>7 DEF Paid, Is, Inv, CallsOK, CallOK
  <2>2. /\ Landing \in Entries /\ Landing.page = "search"
        /\ last \in Entries /\ last.page = "booking" /\ last.hold = calls[i].hold
    BY <1>3 DEF Landing, Confirmation, Entries
  <2>3. history \in Seq(Entries) /\ here \in 1 .. Len(history)
    BY DEF Inv, TypeOK
  <2>4. old \in Seq(Entries) /\ Len(old) = here - 1 /\ \A j \in 1 .. here - 1 : old[j] = history[j]
    BY <2>3
  <2>. HIDE DEF last, old
  <2>5. /\ hs \in Seq(Entries) /\ Len(hs) = here + 1
        /\ \A j \in 1 .. here - 1 : hs[j] = old[j]
        /\ hs[here] = Landing /\ hs[here + 1] = last
    <3>. DEFINE pair == <<Landing, last>>
    <3>1. pair \in Seq(Entries) /\ Len(pair) = 2 /\ pair[1] = Landing /\ pair[2] = last
      BY <2>2
    <3>. HIDE DEF pair
    <3>2. /\ old \o pair \in Seq(Entries) /\ Len(old \o pair) = (here - 1) + 2
          /\ \A j \in 1 .. (here - 1) + 2 : (old \o pair)[j] =
                IF j <= here - 1 THEN old[j] ELSE pair[j - (here - 1)]
      <4>1. old \in Seq(Entries) /\ pair \in Seq(Entries)
        BY <2>4, <3>1
      <4>2. /\ old \o pair \in Seq(Entries) /\ Len(old \o pair) = Len(old) + Len(pair)
            /\ \A j \in 1 .. Len(old) + Len(pair) : (old \o pair)[j] =
                  IF j <= Len(old) THEN old[j] ELSE pair[j - Len(old)]
        BY <4>1, ConcatProperties, Zenon
      <4>3. Len(old) = here - 1 /\ Len(pair) = 2
        BY <2>4, <3>1
      <4>. QED  BY <4>2, <4>3, Zenon
    <3>3. Len(old \o pair) = here + 1 /\ here \in Int /\ here >= 1
      BY <2>3, <3>2
    <3>. HIDE DEF old
    <3>4. \A j \in 1 .. here - 1 : (old \o pair)[j] = old[j]
      BY <3>2, <3>3
    <3>5. (old \o pair)[here] = pair[here - (here - 1)] /\ (old \o pair)[here + 1] = pair[(here + 1) - (here - 1)]
      BY <3>2, <3>3
    <3>6. here - (here - 1) = 1 /\ (here + 1) - (here - 1) = 2
      BY <3>3
    <3>. QED  BY <3>1, <3>2, <3>3, <3>4, <3>5, <3>6 DEF pair
  <2>. HIDE DEF hs
  <2>6. \A j \in 1 .. here + 1 : hs[j].page = "booking" => hs[j].hold \in booked
    <3>1. \A j \in 1 .. here + 1 : j \in 1 .. here - 1 \/ j = here \/ j = here + 1
      BY <2>3
    <3>2. \A j \in 1 .. here - 1 : history[j].page = "booking" => history[j].hold \in booked
      BY <2>3 DEF Inv, ConfirmationIsTrue
    <3>. QED  BY <2>1, <2>2, <2>4, <2>5, <3>1, <3>2
  <2>7. MayArrive(hs, here + 1, Done(i))
    BY <1>2, <2>1, <2>2, <2>3, <2>5, <2>6 DEF MayArrive
  <2>8. Arrive(hs, here + 1, FALSE, Done(i))
    BY <1>7 DEF Paid, hs, old, last
  <2>. QED  BY <1>1, <1>2, <2>7, <2>8, ArriveKeeps
<1>. QED  BY <1>5, <1>6, <1>7

-----------------------------------------------------------------------------
(* Steps that leave the tab where it is *)

LEMMA StayKeeps ==
  ASSUME Inv, UNCHANGED <<history, here, lapsed>>,
         lists' \in [Searches -> 0 .. MaxLists], seats' \in Searches \cup {None},
         {searching, failed, holding, submitting, cancelling}' \subseteq BOOLEAN,
         calls' \in [Slots -> Requests], clicks' \in 0 .. MaxClicks,
         issued \subseteq issued', issued' \subseteq Holds, live' \subseteq issued',
         booked \subseteq booked', booked' \subseteq issued',
         \A j \in Slots : calls'[j] = calls[j] \/ CallOK(j)',
         NoStuckButtons'
  PROVE  Inv'
<1>1. TypeOK'
  BY DEF Inv, TypeOK
<1>2. ConfirmationIsTrue'
  BY DEF Inv, ConfirmationIsTrue
<1>3. ASSUME NEW j \in Slots, calls'[j] = calls[j]
      PROVE  CallOK(j)'
  <2>1. CallOK(j)
    BY DEF Inv, CallsOK
  <2>. QED  BY <1>3, <2>1 DEF CallOK, Is, Top
<1>4. CallsOK'
  BY <1>3 DEF CallsOK
<1>. QED  BY <1>1, <1>2, <1>4 DEF Inv

\* The server moves requests on, and nothing that the tab shows.
LEMMA ServerKeeps ==
  ASSUME Inv, UNCHANGED <<tabVars, lapsed, clicks>>, NEW i \in Slots,
         issued \subseteq issued', issued' \subseteq Holds, live' \subseteq issued',
         booked \subseteq booked', booked' \subseteq issued',
         NEW new \in Requests, calls' = [calls EXCEPT ![i] = new],
         new.kind = calls[i].kind, new.mine = calls[i].mine, new.from = calls[i].from,
         (new.kind = "pay" /\ new.stage = "read") => new.hold \in issued',
         (new.kind = "pay" /\ new.stage = "booked") => new.hold \in booked'
  PROVE  Inv'
<1>1. calls \in [Slots -> Requests] /\ calls' \in [Slots -> Requests]
      /\ \A j \in Slots : calls'[j] = IF j = i THEN new ELSE calls[j]
  BY DEF Inv, TypeOK
<1>2. \A j \in Slots : calls'[j].kind = calls[j].kind /\ calls'[j].mine = calls[j].mine
  BY <1>1
<1>3. NoStuckButtons'
  <2>1. \A kinds : Awaits(kinds)' <=> Awaits(kinds)
    BY <1>2 DEF Awaits
  <2>. QED  BY <2>1 DEF Inv, NoStuckButtons
<1>4. CallOK(i)'
  <2>1. CallOK(i) /\ calls'[i] = new
    BY <1>1 DEF Inv, CallsOK
  <2>. QED  BY <2>1 DEF CallOK, Is, Top
<1>5. {searching, failed, holding, submitting, cancelling}' \subseteq BOOLEAN
      /\ lists' \in [Searches -> 0 .. MaxLists] /\ seats' \in Searches \cup {None}
      /\ clicks' \in 0 .. MaxClicks
  BY DEF Inv, TypeOK
<1>6. \A j \in Slots : calls'[j] = calls[j] \/ CallOK(j)'
  BY <1>1, <1>4
<1>. QED  BY <1>1, <1>3, <1>5, <1>6, StayKeeps

LEMMA AnsweringKeeps ==
  ASSUME Inv, NEW i \in Slots,
         HoldAnswered(i) \/ PayRead(i) \/ PayInsert(i) \/ CancelAnswered(i)
  PROVE  Inv'
<1>. DEFINE call == calls[i]
<1>1. call \in Requests /\ live \subseteq issued /\ issued \subseteq Holds /\ booked \subseteq issued
      /\ calls \in [Slots -> Requests]
  BY DEF Inv, TypeOK
<1>2. UNCHANGED <<tabVars, lapsed, clicks>>
  BY DEF HoldAnswered, PayRead, PayInsert, CancelAnswered
<1>3. ASSUME NEW a \in Stages, Answer(i, a),
             issued \subseteq issued', issued' \subseteq Holds, live' \subseteq issued',
             booked \subseteq booked', booked' \subseteq issued',
             (call.kind = "pay" /\ a = "read") => call.hold \in issued',
             (call.kind = "pay" /\ a = "booked") => call.hold \in booked'
      PROVE  Inv'
  <2>. DEFINE new == [call EXCEPT !.stage = a]
  <2>1. /\ new \in Requests /\ new.kind = call.kind /\ new.mine = call.mine
        /\ new.from = call.from /\ new.hold = call.hold /\ new.stage = a
    BY <1>1 DEF Requests
  <2>2. calls' = [calls EXCEPT ![i] = new]
    BY <1>3 DEF Answer
  <2>. HIDE DEF new
  <2>. QED  BY <1>2, <1>3, <2>1, <2>2, ServerKeeps
<1>4. CASE HoldAnswered(i)
  <2>1. ASSUME NEW h \in Holds \ issued, issued' = issued \cup {h}, live' = live \cup {h},
               calls' = [calls EXCEPT ![i].stage = "created", ![i].hold = h], booked' = booked
        PROVE  Inv'
    <3>. DEFINE new == [call EXCEPT !.stage = "created", !.hold = h]
    <3>1. /\ new \in Requests /\ new.kind = call.kind /\ new.mine = call.mine
          /\ new.from = call.from /\ new.stage = "created"
      BY <1>1 DEF Requests, Stages
    <3>2. calls' = [calls EXCEPT ![i] = new]
      BY <2>1
    <3>3. issued \subseteq issued' /\ issued' \subseteq Holds /\ live' \subseteq issued'
          /\ booked \subseteq booked' /\ booked' \subseteq issued'
      BY <1>1, <2>1
    <3>. HIDE DEF new
    <3>. QED  BY <1>2, <3>1, <3>2, <3>3, ServerKeeps
  <2>2. ASSUME NEW h \in Holds \ issued, issued' = issued \cup {h}, live' = live \cup {h},
               Answer(i, "error"), booked' = booked
        PROVE  Inv'
    BY <1>1, <1>3, <2>2 DEF Stages
  <2>3. ASSUME Answer(i, "conflict") \/ Answer(i, "error"), UNCHANGED <<issued, live, booked>>
        PROVE  Inv'
    BY <1>1, <1>3, <2>3 DEF Stages
  <2>. QED  BY <1>4, <2>1, <2>2, <2>3 DEF HoldAnswered
<1>5. CASE PayRead(i)
  <2>1. UNCHANGED <<issued, live, booked>>
    BY <1>5 DEF PayRead
  <2>2. CASE call.hold \in live /\ Answer(i, "read")
    BY <1>1, <1>3, <2>1, <2>2 DEF Stages
  <2>3. CASE Answer(i, "gone") \/ Answer(i, "error")
    BY <1>1, <1>3, <2>1, <2>3 DEF Stages
  <2>. QED  BY <1>5, <2>2, <2>3 DEF PayRead
<1>6. CASE PayInsert(i)
  <2>1. issued' = issued /\ live' \subseteq issued /\ call.hold \in issued
    <3>1. call.kind = "pay" /\ call.stage = "read"
      BY <1>6 DEF PayInsert, Is
    <3>2. call.hold \in issued
      BY <3>1 DEF Inv, CallsOK, CallOK, Is
    <3>. QED  BY <1>1, <1>6, <3>2 DEF PayInsert
  <2>2. CASE booked' = booked \cup {call.hold} /\ (Answer(i, "booked") \/ Answer(i, "error"))
    BY <1>1, <1>3, <2>1, <2>2 DEF Stages
  <2>3. CASE booked' = booked /\ (Answer(i, "conflict") \/ Answer(i, "error"))
    BY <1>1, <1>3, <2>1, <2>3 DEF Stages
  <2>. QED  BY <1>6, <2>2, <2>3 DEF PayInsert
<1>7. CASE CancelAnswered(i)
  <2>1. issued' = issued /\ live' \subseteq issued /\ booked' = booked /\ Answer(i, "answered")
    BY <1>1, <1>7 DEF CancelAnswered
  <2>. QED  BY <1>1, <1>3, <2>1 DEF Stages
<1>. QED  BY <1>4, <1>5, <1>6, <1>7

\* A button that sends a request is disabled until it is answered.
LEMMA SendingKeeps ==
  ASSUME Inv, Proceed \/ Pay \/ Cancel
  PROVE  Inv'
<1>. DEFINE kind == IF Proceed THEN "hold" ELSE IF Pay THEN "pay" ELSE "cancel"
            h == IF Proceed THEN None ELSE Top.hold
            from == IF Proceed THEN Top ELSE ReturnTo(Top)
            new == Call(kind, h, from)
<1>1. TypeOK /\ Top \in Entries /\ Free # {} /\ FreeSlot \in Slots /\ calls[FreeSlot] = NoCall
  BY TopIsEntry, FreeSlotIsFree DEF Inv, Proceed, Pay, Cancel, Free
<1>0. PICK slot \in Slots : slot = FreeSlot
  BY <1>1
<1>2. kind \in {"hold", "pay", "cancel"} /\ from \in Entries /\ from.page = "search"
      /\ h \in Holds \cup {None} /\ (kind = "hold" => Top.page = "search")
      /\ (kind \in {"pay", "cancel"} => Top.page = "checkout")
  BY <1>1 DEF Proceed, Pay, Cancel, ReturnTo, List, Landing, Entries
<1>3. calls' = [calls EXCEPT ![slot] = new]
  BY <1>0 DEF Proceed, Pay, Cancel
<1>4. /\ UNCHANGED <<history, here, lapsed, lists, seats, searching, failed, serverVars>>
      /\ Click
  BY DEF Proceed, Pay, Cancel
<1>5. /\ (kind = "hold" /\ holding' = TRUE) \/ holding' = holding
      /\ (kind = "pay" /\ submitting' = TRUE) \/ submitting' = submitting
      /\ (kind = "cancel" /\ cancelling' = TRUE) \/ cancelling' = cancelling
  <2>1. CASE Proceed
    BY <2>1 DEF Proceed
  <2>2. CASE Pay /\ ~ Proceed
    BY <2>2 DEF Pay
  <2>3. CASE Cancel /\ ~ Pay /\ ~ Proceed
    BY <2>3 DEF Cancel
  <2>. QED  BY <2>1, <2>2, <2>3
<1>. HIDE DEF kind, h, from
<1>6. new \in Requests /\ new.kind = kind /\ new.mine /\ new.from = from /\ new.stage = "sent"
  BY <1>2 DEF Call, Requests, Kinds, Stages
<1>. HIDE DEF new
<1>7. calls' \in [Slots -> Requests] /\ \A j \in Slots : calls'[j] = IF j = slot THEN new ELSE calls[j]
  BY <1>1, <1>3, <1>6 DEF TypeOK
<1>8. NoStuckButtons'
  <2>1. \A kinds : Awaits(kinds) => Awaits(kinds)'
    BY <1>0, <1>1, <1>7 DEF Awaits, NoCall
  <2>2. \A kinds : kind \in kinds => Awaits(kinds)'
    BY <1>1, <1>6, <1>7 DEF Awaits
  <2>. QED  BY <1>4, <1>5, <2>1, <2>2 DEF Inv, NoStuckButtons
<1>9. CallOK(slot)'
  <2>1. calls'[slot] = new
    BY <1>7
  <2>. QED  BY <1>1, <1>2, <1>4, <1>6, <1>7, <2>1 DEF CallOK, Is, Top
<1>10. {searching, failed, holding, submitting, cancelling}' \subseteq BOOLEAN
  <2>1. {searching, failed, holding, submitting, cancelling} \subseteq BOOLEAN
    BY DEF Inv, TypeOK
  <2>2. searching' \in BOOLEAN /\ failed' \in BOOLEAN
    BY <1>4, <2>1
  <2>3. holding' \in BOOLEAN /\ submitting' \in BOOLEAN /\ cancelling' \in BOOLEAN
    BY <1>5, <2>1, Zenon
  <2>. QED  BY <2>2, <2>3, Zenon
<1>11. clicks' \in 0 .. MaxClicks /\ lists' \in [Searches -> 0 .. MaxLists]
       /\ seats' \in Searches \cup {None}
  BY <1>1, <1>4 DEF Click, TypeOK
<1>. QED
  <2>1. \A j \in Slots : calls'[j] = calls[j] \/ CallOK(j)'
    BY <1>7, <1>9
  <2>. QED  BY <1>1, <1>4, <1>7, <1>8, <1>10, <1>11, <2>1, StayKeeps DEF TypeOK

\* Answers that are dealt with where the passenger is.
LEMMA DealingKeeps ==
  ASSUME Inv, NEW i \in Slots, HoldRefused(i) \/ Refreshed(i) \/ HoldFailed(i) \/ PayFailed(i)
  PROVE  Inv'
<1>. DEFINE call == calls[i]
<1>1. /\ calls \in [Slots -> Requests] /\ call \in Requests
      /\ lists \in [Searches -> 0 .. MaxLists] /\ seats \in Searches \cup {None}
      /\ lapsed \subseteq issued /\ issued \subseteq Holds /\ live \subseteq issued
      /\ booked \subseteq issued /\ clicks \in 0 .. MaxClicks
      /\ call.from.search \in Searches \cup {None}
  BY DEF Inv, TypeOK, Requests, Entries
<1>2. searching \in BOOLEAN /\ failed \in BOOLEAN /\ holding \in BOOLEAN
      /\ submitting \in BOOLEAN /\ cancelling \in BOOLEAN
  BY DEF Inv, TypeOK
<1>3. CallOK(i) /\ UNCHANGED <<history, here, lapsed, serverVars, clicks, lists>>
  BY DEF HoldRefused, Refreshed, HoldFailed, PayFailed, Inv, CallsOK
<1>4. ASSUME NEW new \in Requests, calls' = [calls EXCEPT ![i] = new], CallOK(i)', NoStuckButtons',
             seats' \in Searches \cup {None},
             {searching, failed, holding, submitting, cancelling}' \subseteq BOOLEAN
      PROVE  Inv'
  <2>1. calls' \in [Slots -> Requests] /\ \A j \in Slots : calls'[j] = calls[j] \/ CallOK(j)'
    BY <1>1, <1>4
  <2>. QED  BY <1>1, <1>3, <1>4, <2>1, StayKeeps
\* The request is done: whatever waited for another still does.
<1>5. ASSUME calls' = Done(i)
      PROVE  /\ calls' = [calls EXCEPT ![i] = NoCall] /\ CallOK(i)'
             /\ \A kinds : (Awaits(kinds) /\ ~ (call.mine /\ call.kind \in kinds)) => Awaits(kinds)'
  <2>1. calls' = [calls EXCEPT ![i] = NoCall] /\ \A j \in Slots : calls'[j] = IF j = i THEN NoCall ELSE calls[j]
    BY <1>1, <1>5 DEF Done
  <2>2. CallOK(i)'
    BY <2>1 DEF CallOK, Is, NoCall, Landing
  <2>3. \A kinds : (Awaits(kinds) /\ ~ (call.mine /\ call.kind \in kinds)) => Awaits(kinds)'
    BY <2>1 DEF Awaits
  <2>. QED  BY <2>1, <2>2, <2>3
<1>6. CASE HoldRefused(i) /\ call.mine
  <2>. DEFINE new == [call EXCEPT !.kind = "refresh", !.stage = "sent"]
  <2>1. /\ calls' = [calls EXCEPT ![i] = new] /\ searching' = TRUE /\ failed' = FALSE
        /\ UNCHANGED <<seats, holding, submitting, cancelling>>
        /\ call.kind = "hold"
    BY <1>6 DEF HoldRefused, Is
  <2>2. /\ new \in Requests /\ new.kind = "refresh" /\ new.stage = "sent" /\ new.mine
        /\ new.from = call.from
    BY <1>1, <1>6 DEF Requests, Kinds, Stages
  <2>. HIDE DEF new
  <2>3. \A j \in Slots : calls'[j] = IF j = i THEN new ELSE calls[j]
    BY <1>1, <2>1
  <2>4. Awaits({"refresh"})' /\ Awaits({"hold", "refresh"})'
    BY <2>2, <2>3 DEF Awaits
  <2>5. /\ Awaits({"pay"}) => Awaits({"pay"})'
        /\ Awaits({"cancel"}) => Awaits({"cancel"})'
    BY <2>1, <2>3 DEF Awaits
  <2>6. NoStuckButtons'
    BY <2>1, <2>4, <2>5 DEF Inv, NoStuckButtons
  <2>7. CallOK(i)'
    BY <1>3, <1>6, <2>1, <2>2, <2>3 DEF CallOK, Is, Top
  <2>8. searching' \in BOOLEAN /\ failed' \in BOOLEAN
    BY <2>1, Zenon
  <2>. QED  BY <1>1, <1>2, <1>4, <2>1, <2>2, <2>6, <2>7, <2>8
<1>7. CASE HoldRefused(i) /\ ~ call.mine
  <2>1. calls' = Done(i) /\ UNCHANGED <<seats, searching, failed, holding, submitting, cancelling>>
    BY <1>7 DEF HoldRefused
  <2>2. NoStuckButtons'
    BY <1>3, <1>5, <1>7, <2>1 DEF Inv, NoStuckButtons
  <2>. QED  BY <1>1, <1>2, <1>4, <1>5, <2>1, <2>2, NoCallIsRequest
<1>8. CASE Refreshed(i)
  <2>1. /\ calls' = Done(i) /\ UNCHANGED <<submitting, cancelling>> /\ call.kind = "refresh"
        /\ seats' \in Searches \cup {None}
    BY <1>1, <1>8 DEF Refreshed, Is
  <2>2. CASE call.mine
    <3>1. searching' = FALSE /\ holding' = FALSE /\ (failed' = failed \/ failed' = TRUE)
      BY <1>8, <2>2 DEF Refreshed
    <3>2. NoStuckButtons'
      BY <1>3, <1>5, <2>1, <3>1 DEF Inv, NoStuckButtons
    <3>3. searching' \in BOOLEAN /\ holding' \in BOOLEAN /\ failed' \in BOOLEAN
      BY <1>2, <3>1, Zenon
    <3>. QED  BY <1>2, <1>4, <1>5, <2>1, <3>2, <3>3, NoCallIsRequest
  <2>3. CASE ~ call.mine
    <3>1. UNCHANGED <<searching, failed, holding>>
      BY <1>8, <2>3 DEF Refreshed
    <3>2. NoStuckButtons'
      BY <1>3, <1>5, <2>1, <2>3, <3>1 DEF Inv, NoStuckButtons
    <3>. QED  BY <1>2, <1>4, <1>5, <2>1, <3>1, <3>2, NoCallIsRequest
  <2>. QED  BY <2>2, <2>3
<1>9. CASE HoldFailed(i)
  <2>1. /\ calls' = Done(i) /\ holding' = (holding /\ ~ call.mine) /\ call.kind = "hold"
        /\ UNCHANGED <<seats, searching, failed, submitting, cancelling>>
    BY <1>9 DEF HoldFailed, Is
  <2>2. holding' => holding /\ ~ call.mine
    BY <2>1
  <2>3. NoStuckButtons'
    BY <1>3, <1>5, <2>1, <2>2 DEF Inv, NoStuckButtons
  <2>4. holding' \in BOOLEAN
    BY <2>1, Zenon
  <2>. QED  BY <1>1, <1>2, <1>4, <1>5, <2>1, <2>3, <2>4, NoCallIsRequest
<1>10. CASE PayFailed(i)
  <2>1. /\ calls' = Done(i) /\ submitting' = (submitting /\ ~ call.mine) /\ call.kind = "pay"
        /\ UNCHANGED <<seats, searching, failed, holding, cancelling>>
    BY <1>10 DEF PayFailed, Is
  <2>2. submitting' => submitting /\ ~ call.mine
    BY <2>1
  <2>3. NoStuckButtons'
    BY <1>3, <1>5, <2>1, <2>2 DEF Inv, NoStuckButtons
  <2>4. submitting' \in BOOLEAN
    BY <2>1, Zenon
  <2>. QED  BY <1>1, <1>2, <1>4, <1>5, <2>1, <2>3, <2>4, NoCallIsRequest
<1>. QED  BY <1>6, <1>7, <1>8, <1>9, <1>10

\* A list arrives, or a hold expires on the server.
LEMMA ListKeeps ==
  ASSUME Inv, NEW s \in Searches, ListArrives(s)
  PROVE  Inv'
<1>1. TypeOK /\ lists' \in [Searches -> 0 .. MaxLists]
  BY DEF Inv, TypeOK, ListArrives
<1>2. /\ searching' = FALSE /\ seats' \in Searches \cup {None}
      /\ (failed' = failed \/ failed' = TRUE)
      /\ UNCHANGED <<calls, holding, submitting, cancelling, history, here, lapsed, serverVars, clicks>>
  BY <1>1 DEF ListArrives, TypeOK
<1>3. NoStuckButtons'
  BY <1>2 DEF Inv, NoStuckButtons, Awaits
<1>4. {searching, failed, holding, submitting, cancelling}' \subseteq BOOLEAN
  <2>1. {searching, failed, holding, submitting, cancelling} \subseteq BOOLEAN
    BY <1>1 DEF TypeOK
  <2>. QED  BY <1>2, <2>1, Zenon
<1>. QED  BY <1>1, <1>2, <1>3, <1>4, StayKeeps DEF TypeOK

LEMMA ExpiryKeeps ==
  ASSUME Inv, NEW h \in Holds, HoldExpires(h)
  PROVE  Inv'
<1>1. UNCHANGED <<tabVars, calls, lapsed, issued, booked, clicks>> /\ live' \subseteq issued
  BY DEF HoldExpires, Inv, TypeOK
<1>2. NoStuckButtons'
  BY <1>1 DEF Inv, NoStuckButtons, Awaits
<1>. QED  BY <1>1, <1>2, StayKeeps DEF Inv, TypeOK

-----------------------------------------------------------------------------
\* The invariant holds in every reachable state.
LEMMA SpecInv == Spec => []Inv
<1>1. Inv /\ [Next]_vars => Inv'
  <2>. SUFFICES ASSUME Inv, [Next]_vars
                PROVE  Inv'
    OBVIOUS
  <2>1. CASE Passenger
    BY <2>1, NavigationKeeps, SendingKeeps DEF Passenger
  <2>2. CASE \E h \in Holds : CountdownEnds(h) \/ HoldExpires(h)
    BY <2>2, CountdownKeeps, ExpiryKeeps
  <2>3. CASE \E i \in Slots : Server(i) \/ Continuation(i)
    BY <2>3, AnsweringKeeps, AnswersNavigate, DealingKeeps DEF Server, Continuation
  <2>4. CASE \E s \in Searches : ListArrives(s)
    BY <2>4, ListKeeps
  <2>5. CASE UNCHANGED vars
    <3>1. TypeOK'
      BY <2>5 DEF vars, Inv, TypeOK
    <3>2. ConfirmationIsTrue' /\ CallsOK' /\ NoStuckButtons'
      BY <2>5 DEF vars, Inv, ConfirmationIsTrue, CallsOK, CallOK, NoStuckButtons, Is, Top, Awaits
    <3>. QED  BY <3>1, <3>2 DEF Inv
  <2>. QED  BY <2>1, <2>2, <2>3, <2>4, <2>5 DEF Next
<1>. QED  BY <1>1, InitInv, PTL DEF Spec

\* Types are kept; in particular the tab always is at an entry of its history.
THEOREM SpecTypeOK == Spec => []TypeOK
<1>1. Inv => TypeOK
  BY DEF Inv
<1>. QED  BY <1>1, SpecInv, PTL

\* No control is disabled without an answer under way that will enable it.
THEOREM SpecNoStuckButtons == Spec => []NoStuckButtons
<1>1. Inv => NoStuckButtons
  BY DEF Inv
<1>. QED  BY <1>1, SpecInv, PTL

\* Wherever a late answer navigates to, no confirmation is shown, or left in
\* the history, of a booking that does not exist.
THEOREM SpecConfirmationIsTrue == Spec => []ConfirmationIsTrue
<1>1. Inv => ConfirmationIsTrue
  BY DEF Inv
<1>. QED  BY <1>1, SpecInv, PTL
=============================================================================
