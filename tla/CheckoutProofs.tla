--------------------------- MODULE CheckoutProofs ---------------------------
(***************************************************************************)
(* The checkout, for any number of presses and seats, any providers, any   *)
(* answers of the gateway and any faults: a customer on the confirmation   *)
(* page has a decided payment, and nobody is charged twice for a seat.     *)
(*                                                                         *)
(* The first is about what is still true when an answer arrives late: only *)
(* mounting a page brings the tab to another one, and it ends the page's   *)
(* hold on its press (Mounted); "settled" is on its way only for a payment *)
(* that was decided, and no step takes that back.  The second rests on the *)
(* seats: one that a booking has ever had is taken until a booking of that *)
(* seat is cancelled, so a second booking of it needs a cancellation.      *)
(***************************************************************************)
EXTENDS Checkout, TLAPS

Pages == {"elsewhere", "seats", "passengers", "payment", "confirmation"}
Statuses == {"ABSENT", "PROCESSING", "COMPLETED", "FAILED"}
Settled(p) == payment[p] \in {"COMPLETED", "FAILED"}

\* "settled" is answered for decided payments, and the confirmation page awaits no answer.
SettledInv ==
  /\ ArrivesSettled
  /\ \A p \in Presses : press[p].at = "settled" => Settled(p)
  /\ tab.page = "confirmation" => tab.stage = "ready"

\* Somebody has cancelled a booking of seat s.
GivenBack(s) == \E r \in Presses : booking[r].cancelled /\ s \in booking[r].seats

\* A press that has not been served has no booking; a seat with a booking is taken, and has
\* no other one, unless it was given back.
BookedInv ==
  /\ \A p \in Presses : press[p].at \in {"none", "create"} =>
       booking[p].status = "ABSENT" /\ ~booking[p].cancelled /\ booking[p].seats = {}
  /\ \A p \in Presses : \A s \in booking[p].seats : s \in taken \/ GivenBack(s)
  /\ \A p, q \in Presses : p # q =>
       \A s \in booking[p].seats \cap booking[q].seats : GivenBack(s)

-----------------------------------------------------------------------------
(* What the helpers do                                                     *)

\* A mounted page has forgotten the press.
LEMMA Mounted ==
  ASSUME NEW v \in Tab, NEW page \in Pages, NEW w \in Mount(page, v)
  PROVE  /\ w \in Tab /\ w.stage = "ready" /\ w.press = None
         /\ w.page \in {page, "seats"}
<1> DEFINE blank == (page \in {"passengers", "payment"} /\ v.selected = {})
                    \/ (page = "payment" /\ v.passengers = {})
           there == [v EXCEPT !.page = IF blank THEN "seats" ELSE page,
                              !.count = 1, !.stage = "ready", !.press = None]
<1>1. /\ there \in Tab /\ there.stage = "ready" /\ there.press = None
      /\ there.page \in {page, "seats"} /\ there.selected = v.selected
  <2> HIDE DEF blank
  <2>1. 1 \in 1 .. MaxPassengers
    BY PassengersAssumption
  <2> QED BY <2>1 DEF Tab, Pages
<1>2. w = there \/ \E S \in SUBSET v.selected : w = [there EXCEPT !.selected = S]
  BY <1>1 DEF Mount, Cut, kSubset
<1>3. v.selected \in SUBSET Seats
  BY DEF Tab
<1> HIDE DEF there, blank
<1> QED BY <1>1, <1>2, <1>3 DEF Tab

LEMMA EmptiedTyped == \A v \in Tab : Emptied(v) \in Tab
  BY DEF Emptied, Tab

\* The tab after an answer: at most its stage changes, and then it was busy.
LEMMA ToldTab ==
  ASSUME tab \in Tab, NEW p, NEW stage \in {"ready", "conflict"}, Told(p, stage)
  PROVE  /\ tab' \in Tab
         /\ tab' # tab => tab.stage = "busy"
         /\ tab'.page = tab.page
  BY DEF Told, Tab

\* A flow that goes on; "settled" is answered only where this step says so.
LEMMA Reached ==
  ASSUME press \in [Presses -> Flow], NEW p \in Presses,
         NEW at \in Calls \cup Answers, Reach(p, at)
  PROVE  /\ press' \in [Presses -> Flow]
         /\ \A q \in Presses : press'[q] = press[q] \/ (q = p /\ press'[q].at \in {at, "over"})
<1>1. PICK u : /\ u \in {[press[p] EXCEPT !.at = at], [NoPress EXCEPT !.at = at, !.heard = TRUE], Over}
               /\ press' = [press EXCEPT ![p] = u]
  BY DEF Reach
<1>2. u \in Flow /\ u.at \in {at, "over"}
  BY <1>1 DEF Flow, NoPress, Over
<1> QED BY <1>1, <1>2

LEMMA Ended ==
  ASSUME press \in [Presses -> Flow], NEW p \in Presses, End(p)
  PROVE  /\ press' \in [Presses -> Flow]
         /\ \A q \in Presses : press'[q] = press[q] \/ press'[q].at = "over"
  BY DEF End, Flow, Over, NoPress

\* A flow that is over or is no longer heard.
LEMMA Left ==
  ASSUME NEW f \in Flow, NEW u, u = Over \/ u = [f EXCEPT !.heard = FALSE]
  PROVE  u \in Flow /\ u.at \in {f.at, "over"}
  BY DEF Flow, Over, NoPress

LEMMA HoldTyped ==
  ASSUME TypeOK, NEW p \in Presses, NEW S \in SUBSET Seats, Hold(p, S)
  PROVE  booking' \in [Presses -> Booking] /\ taken' \subseteq Seats
  BY DEF TypeOK, Hold, Booking

-----------------------------------------------------------------------------
(* Steps of three kinds                                                    *)

Inv == TypeOK /\ SettledInv

\* A page is mounted, and only the flows change, none of them to "settled".
LEMMA MountKeeps ==
  ASSUME Inv, NEW v \in Tab, NEW page \in Pages \ {"confirmation"}, tab' \in Mount(page, v),
         UNCHANGED <<provider, server>>, press' \in [Presses -> Flow],
         \A p \in Presses : press'[p].at = "settled" => press[p].at = "settled"
  PROVE  Inv'
<1>1. /\ tab' \in Tab /\ tab'.page # "confirmation"
  <2>1. page \in Pages /\ page # "confirmation"
    OBVIOUS
  <2> QED BY <2>1, Mounted
<1>2. UNCHANGED <<provider, booking, taken, payment>>
  BY DEF server
<1> QED BY <1>1, <1>2 DEF Inv, TypeOK, SettledInv, Settled, ArrivesSettled

\* The tab keeps its page, and on the confirmation page its booking; payments that were
\* decided stay so.
LEMMA PageKeeps ==
  ASSUME Inv, provider' = provider,
         booking' \in [Presses -> Booking], taken' \subseteq Seats,
         payment' \in [Presses -> Statuses],
         \A p \in Presses : Settled(p) => Settled(p)',
         press' \in [Presses -> Flow],
         \A p \in Presses : press'[p].at = "settled" => Settled(p)',
         tab' \in Tab, tab'.page = tab.page,
         tab.page = "confirmation" => tab'.press = tab.press /\ tab'.stage = tab.stage
  PROVE  Inv'
<1>1. TypeOK'
  BY DEF Inv, TypeOK, Statuses
<1>2. ASSUME tab'.page = "confirmation"
      PROVE  /\ tab'.press # None /\ payment'[tab'.press] \in {"COMPLETED", "FAILED"}
             /\ tab'.stage = "ready"
  <2>1. tab'.press = tab.press /\ tab'.stage = tab.stage
    BY <1>2
  <2>2. /\ tab.press \in Presses \cup {None} /\ tab.press # None /\ tab.stage = "ready"
        /\ payment[tab.press] \in {"COMPLETED", "FAILED"}
    BY <1>2 DEF Inv, TypeOK, Tab, SettledInv, ArrivesSettled
  <2>3. payment'[tab.press] \in {"COMPLETED", "FAILED"}
    BY <2>2 DEF Settled
  <2> QED BY <2>1, <2>2, <2>3
<1>3. ArrivesSettled' /\ (tab'.page = "confirmation" => tab'.stage = "ready")
  BY <1>2 DEF ArrivesSettled
<1> QED BY <1>1, <1>3 DEF Inv, SettledInv

-----------------------------------------------------------------------------
LEMMA CustomerKeeps ==
  ASSUME Inv, Customer
  PROVE  Inv'
<1>0. /\ tab \in Tab /\ press \in [Presses -> Flow]
      /\ booking \in [Presses -> Booking] /\ taken \subseteq Seats
      /\ payment \in [Presses -> Statuses]
      /\ \A p \in Presses : press[p].at = "settled" => Settled(p)
  BY DEF Inv, TypeOK, SettledInv, Statuses
<1>1. CASE PickSchedule \/ LogIn \/ Submit
  <2>1. /\ [tab EXCEPT !.selected = {}] \in Tab
        /\ [tab EXCEPT !.user = TRUE] \in Tab
        /\ [tab EXCEPT !.passengers = tab.selected] \in Tab
    BY <1>0 DEF Tab
  <2> QED BY <1>0, <1>1, <2>1, MountKeeps DEF PickSchedule, LogIn, Submit, Pages
<1>2. CASE Continue \/ PayLoggedOut \/ BackToSeats
        \/ \E page \in {"elsewhere", "seats", "passengers", "payment"} : GoThroughHistory(page)
  BY <1>0, <1>2, MountKeeps DEF Continue, PayLoggedOut, BackToSeats, GoThroughHistory, Pages
<1>3. ASSUME UNCHANGED <<provider, booking, taken, payment>>, tab' \in Tab, tab'.page = tab.page,
             tab.page = "confirmation" => tab'.press = tab.press /\ tab'.stage = tab.stage,
             press' \in [Presses -> Flow],
             \A p \in Presses : press'[p].at = "settled" => press[p].at = "settled"
      PROVE  Inv'
  BY <1>0, <1>3, PageKeeps DEF Settled
<1>4. ASSUME NEW n \in 1 .. MaxPassengers, ChooseCount(n) PROVE Inv'
  <2>1. PICK S \in SUBSET Seats : tab' \in {[tab EXCEPT !.count = n], [tab EXCEPT !.count = n, !.selected = S]}
    <3> DEFINE v == [tab EXCEPT !.count = n]
    <3>1. v \in Tab /\ tab' \in Cut(v, n) /\ v.selected = tab.selected
      BY <1>0, <1>4 DEF ChooseCount, Tab
    <3>2. tab' = v \/ \E S \in SUBSET v.selected : tab' = [v EXCEPT !.selected = S]
      <4> HIDE DEF v
      <4> QED BY <3>1 DEF Cut, kSubset
    <3> QED BY <1>0, <3>1, <3>2 DEF Tab
  <2>2. /\ tab' \in Tab /\ tab'.page = tab.page /\ tab.page = "seats"
        /\ UNCHANGED <<provider, booking, taken, payment, press>>
    BY <1>0, <1>4, <2>1 DEF ChooseCount, Tab, server
  <2> QED BY <1>0, <1>3, <2>2
<1>5. ASSUME NEW s \in Seats, Toggle(s) PROVE Inv'
  <2>1. /\ tab' \in Tab /\ tab'.page = tab.page /\ tab.page = "seats"
        /\ UNCHANGED <<provider, booking, taken, payment, press>>
    BY <1>0, <1>5 DEF Toggle, Tab, server
  <2> QED BY <1>0, <1>3, <2>1
<1>6. ASSUME NEW p \in Presses, Pay(p) PROVE Inv'
  <2>1. /\ tab' \in Tab /\ tab'.page = tab.page /\ tab.page = "payment"
        /\ UNCHANGED <<provider, booking, taken, payment>>
    BY <1>0, <1>6 DEF Pay, Tab, server
  <2>2. [at |-> "create", seats |-> tab.passengers, auth |-> TRUE, heard |-> TRUE] \in Flow
    BY <1>0 DEF Flow, Calls, Tab
  <2>3. /\ press' \in [Presses -> Flow]
        /\ \A q \in Presses : press'[q].at = "settled" => press[q].at = "settled"
    BY <1>0, <1>6, <2>2 DEF Pay
  <2> QED BY <1>3, <2>1, <2>3
<1>7. CASE LogOut
  <2>1. /\ tab' \in Tab /\ tab'.page = tab.page /\ tab'.stage = tab.stage /\ tab'.press = tab.press
        /\ UNCHANGED <<provider, booking, taken, payment, press>>
    BY <1>0, <1>7 DEF LogOut, Tab, server
  <2> QED BY <1>0, <1>3, <2>1
<1> QED BY <1>1, <1>2, <1>4, <1>5, <1>6, <1>7 DEF Customer

LEMMA ServerKeeps ==
  ASSUME Inv, NEW p \in Presses, Elsewhere(p) \/ Server(p) \/ Die(p)
  PROVE  Inv'
<1>0. /\ tab \in Tab /\ press \in [Presses -> Flow] /\ TypeOK
      /\ booking \in [Presses -> Booking] /\ taken \subseteq Seats
      /\ payment \in [Presses -> Statuses]
      /\ \A q \in Presses : press[q].at = "settled" => Settled(q)
  BY DEF Inv, TypeOK, SettledInv, Statuses
<1>a. ASSUME UNCHANGED <<provider, payment, tab>>,
             booking' \in [Presses -> Booking], taken' \subseteq Seats,
             press' \in [Presses -> Flow],
             \A q \in Presses : press'[q].at = "settled" => press[q].at = "settled"
      PROVE  Inv'
  BY <1>0, <1>a, PageKeeps DEF Settled
<1>1. CASE CancelBooking(p)
  <2>1. booking' \in [Presses -> Booking] /\ taken' \subseteq Seats
    BY <1>0, <1>1 DEF CancelBooking, Booking
  <2> QED BY <1>0, <1>1, <1>a, <2>1 DEF CancelBooking
<1>2. ASSUME NEW S \in SUBSET Seats \ {{}}, BookElsewhere(p, S) PROVE Inv'
  <2>1. /\ UNCHANGED <<provider, payment, tab>> /\ Hold(p, S)
        /\ press' = [press EXCEPT ![p] = Over]
    BY <1>2 DEF BookElsewhere
  <2>2. booking' \in [Presses -> Booking] /\ taken' \subseteq Seats
    BY <1>0, <2>1, HoldTyped
  <2>3. /\ press' \in [Presses -> Flow]
        /\ \A q \in Presses : press'[q].at = "settled" => press[q].at = "settled"
    BY <1>0, <2>1, Ended DEF End
  <2> QED BY <1>a, <2>1, <2>2, <2>3
<1>3. CASE CreateBooking(p)
  <2>1. PICK at \in {"created", "conflict"} : Reach(p, at)
    BY <1>3 DEF CreateBooking
  <2>2. press[p].seats \in SUBSET Seats
    BY <1>0 DEF Flow
  <2>3. booking' \in [Presses -> Booking] /\ taken' \subseteq Seats
    BY <1>0, <1>3, <2>2, HoldTyped DEF CreateBooking
  <2>4. /\ press' \in [Presses -> Flow]
        /\ \A q \in Presses : press'[q].at = "settled" => press[q].at = "settled"
    BY <1>0, <2>1, Reached DEF Calls, Answers
  <2> QED BY <1>3, <1>a, <2>3, <2>4 DEF CreateBooking
<1>4. CASE InitiatePayment(p)
  <2>1. /\ UNCHANGED <<provider, booking, taken, tab>>
        /\ payment[p] = "ABSENT" /\ payment' = [payment EXCEPT ![p] = "PROCESSING"]
    BY <1>4 DEF InitiatePayment
  <2>2. PICK at \in {"confirm", "redirect"} : Reach(p, at)
    BY <1>4 DEF InitiatePayment
  <2>3. /\ press' \in [Presses -> Flow]
        /\ \A q \in Presses : press'[q].at = "settled" => press[q].at = "settled"
    BY <1>0, <2>2, Reached DEF Calls, Answers
  <2>4. payment' \in [Presses -> Statuses] /\ \A q \in Presses : Settled(q) => Settled(q)'
    BY <1>0, <2>1 DEF Statuses, Settled
  <2> QED BY <1>0, <2>1, <2>3, <2>4, PageKeeps
<1>5. CASE ConfirmPayment(p)
  <2>1. /\ UNCHANGED <<provider, tab>> /\ Reach(p, "settled")
        /\ \E st \in {"COMPLETED", "FAILED"} : payment' = [payment EXCEPT ![p] = st]
    BY <1>5 DEF ConfirmPayment
  <2>2. /\ press' \in [Presses -> Flow]
        /\ \A q \in Presses : press'[q].at = "settled" => press[q].at = "settled" \/ q = p
    BY <1>0, <2>1, Reached DEF Calls, Answers
  <2>3. /\ payment' \in [Presses -> Statuses]
        /\ \A q \in Presses : Settled(q) \/ q = p => Settled(q)'
    BY <1>0, <2>1 DEF Statuses, Settled
  <2>4. booking' \in [Presses -> Booking] /\ taken' \subseteq Seats
    BY <1>0, <1>5 DEF ConfirmPayment, Booking
  <2> QED BY <1>0, <2>1, <2>2, <2>3, <2>4, PageKeeps
<1>6. CASE RefuseCall(p) \/ Die(p)
  <2>1. UNCHANGED <<provider, booking, taken, payment, tab>> /\ Reach(p, "refused")
    BY <1>6 DEF RefuseCall, Die, server
  <2>2. /\ press' \in [Presses -> Flow]
        /\ \A q \in Presses : press'[q].at = "settled" => press[q].at = "settled"
    BY <1>0, <2>1, Reached DEF Calls, Answers
  <2> QED BY <1>0, <1>a, <2>1, <2>2
<1> QED BY <1>1, <1>2, <1>3, <1>4, <1>5, <1>6 DEF Elsewhere, Server

LEMMA HearKeeps ==
  ASSUME Inv, NEW p \in Presses, Hear(p) \/ ConnectionBreaks(p)
  PROVE  Inv'
<1>0. /\ tab \in Tab /\ press \in [Presses -> Flow]
      /\ booking \in [Presses -> Booking] /\ taken \subseteq Seats
      /\ payment \in [Presses -> Statuses]
      /\ \A q \in Presses : press[q].at = "settled" => Settled(q)
      /\ tab.page = "confirmation" => tab.stage = "ready"
  BY DEF Inv, TypeOK, SettledInv, Statuses
<1>a. ASSUME UNCHANGED <<provider, booking, taken, payment>>,
             tab' \in Tab, tab'.page = tab.page, tab' # tab => tab.stage = "busy",
             press' \in [Presses -> Flow],
             \A q \in Presses : press'[q].at = "settled" => press[q].at = "settled"
      PROVE  Inv'
  BY <1>0, <1>a, PageKeeps DEF Settled
<1>1. CASE HearCreated(p)
  <2>1. press' = [press EXCEPT ![p].at = "pay", ![p].auth = tab.user] /\ tab.user \in BOOLEAN
    BY <1>0, <1>1 DEF HearCreated, Tab
  <2>2. /\ press' \in [Presses -> Flow]
        /\ \A q \in Presses : press'[q].at = "settled" => press[q].at = "settled"
    BY <1>0, <2>1 DEF Flow, Calls
  <2> QED BY <1>0, <1>1, <1>a, <2>2 DEF HearCreated, server
<1>2. CASE HearSettled(p)
  <2>1. /\ UNCHANGED <<provider, booking, taken, payment>> /\ End(p) /\ press[p].at = "settled"
        /\ Arrive(p)
    BY <1>2 DEF HearSettled, server
  <2>2. /\ press' \in [Presses -> Flow]
        /\ \A q \in Presses : press'[q].at = "settled" => press[q].at = "settled"
    BY <1>0, <2>1, Ended
  <2>3. CASE tab' \in Mount("seats", Emptied(tab))
    BY <1>0, <2>1, <2>2, <2>3, EmptiedTyped, MountKeeps DEF Pages, server
  <2>4. CASE tab' \in {[v EXCEPT !.press = p] : v \in Mount("confirmation", Emptied(tab))}
    <3>1. PICK v \in Mount("confirmation", Emptied(tab)) : tab' = [v EXCEPT !.press = p]
      BY <2>4
    <3>2. v \in Tab /\ v.stage = "ready"
      BY <1>0, <3>1, Mounted, EmptiedTyped DEF Pages
    <3>3. tab' \in Tab /\ tab'.stage = "ready" /\ tab'.press = p
      BY <3>1, <3>2 DEF Tab
    <3>4. p # None /\ Settled(p)
      BY <1>0, <2>1, NobodyAssumption
    <3> QED BY <1>0, <2>1, <2>2, <3>3, <3>4
            DEF Inv, TypeOK, SettledInv, ArrivesSettled, Settled, Statuses
  <2> QED BY <2>1, <2>3, <2>4 DEF Arrive
<1>3. CASE HearRedirect(p)
  <2>1. press' = [q \in Presses |-> IF q = p \/ press[q].at \in Answers THEN Over
                                    ELSE [press[q] EXCEPT !.heard = FALSE]]
    BY <1>3 DEF HearRedirect
  <2>2. ASSUME NEW q \in Presses
        PROVE  press'[q] \in Flow /\ (press'[q].at = "settled" => press[q].at = "settled")
    <3>1. press[q] \in Flow /\ (press'[q] = Over \/ press'[q] = [press[q] EXCEPT !.heard = FALSE])
      BY <1>0, <2>1
    <3> QED BY <3>1, Left
  <2>3. press' \in [Presses -> Flow]
    BY <2>1, <2>2
  <2>4. Emptied(tab) \in Tab
    BY <1>0, EmptiedTyped
  <2> QED BY <1>3, <2>2, <2>3, <2>4, MountKeeps DEF HearRedirect, Pages
<1>4. CASE HearRefusal(p)
  <2>1. PICK stage \in {"ready", "conflict"} :
          \/ Told(p, stage)
          \/ UNCHANGED tab
    BY <1>4 DEF HearRefusal
  <2>2. UNCHANGED <<provider, booking, taken, payment>> /\ End(p)
    BY <1>4 DEF HearRefusal, server
  <2>3. /\ press' \in [Presses -> Flow]
        /\ \A q \in Presses : press'[q].at = "settled" => press[q].at = "settled"
    BY <1>0, <2>2, Ended
  <2>4. tab' \in Tab /\ tab'.page = tab.page /\ (tab' # tab => tab.stage = "busy")
    BY <1>0, <2>1, ToldTab
  <2> QED BY <1>a, <2>2, <2>3, <2>4
<1>5. CASE ConnectionBreaks(p)
  <2>1. /\ UNCHANGED <<provider, booking, taken, payment>> /\ Told(p, "ready")
        /\ press' = [press EXCEPT ![p] = IF @.at \in Answers THEN Over ELSE [@ EXCEPT !.heard = FALSE]]
    BY <1>5 DEF ConnectionBreaks, server
  <2>2. PICK u : /\ u = Over \/ u = [press[p] EXCEPT !.heard = FALSE]
                 /\ press' = [press EXCEPT ![p] = u]
    BY <2>1
  <2>3. u \in Flow /\ (u.at = "settled" => press[p].at = "settled")
    BY <1>0, <2>2, Left
  <2>4. /\ press' \in [Presses -> Flow]
        /\ \A q \in Presses : press'[q].at = "settled" => press[q].at = "settled"
    BY <1>0, <2>2, <2>3
  <2>5. tab' \in Tab /\ tab'.page = tab.page /\ (tab' # tab => tab.stage = "busy")
    BY <1>0, <2>1, ToldTab
  <2> QED BY <1>a, <2>1, <2>4, <2>5
<1> QED BY <1>1, <1>2, <1>3, <1>4, <1>5 DEF Hear

LEMMA InitInv == Init => Inv
<1> SUFFICES ASSUME Init PROVE Inv
  OBVIOUS
<1>1. booking \in [Presses -> Booking] /\ taken \subseteq Seats
  BY DEF Init, Booking
<1>2. tab \in Tab /\ tab.page = "elsewhere"
  BY PassengersAssumption DEF Init, Tab
<1>3. press \in [Presses -> Flow] /\ \A p \in Presses : press[p].at = "none"
  BY DEF Init, Flow, NoPress
<1> QED BY <1>1, <1>2, <1>3 DEF Init, Inv, TypeOK, SettledInv, ArrivesSettled

LEMMA CheckoutInv == Spec => []Inv
<1>1. Inv /\ [Next]_vars => Inv'
  <2>1. ASSUME Inv, Next PROVE Inv'
    BY <2>1, CustomerKeeps, ServerKeeps, HearKeeps DEF Next
  <2>2. ASSUME Inv, UNCHANGED vars PROVE Inv'
    BY <2>2 DEF vars, server, Inv, TypeOK, SettledInv, ArrivesSettled, Settled
  <2> QED BY <2>1, <2>2
<1> QED BY <1>1, InitInv, PTL DEF Spec

-----------------------------------------------------------------------------
\* Every variable keeps to its type.
THEOREM CheckoutTypes == Spec => []TypeOK
<1>1. Inv => TypeOK
  BY DEF Inv
<1> QED BY <1>1, CheckoutInv, PTL

\* No retry, late answer, redirect or lost connection brings a customer to the confirmation
\* page of a booking whose payment is not decided.
THEOREM ConfirmationIsSettled == Spec => []ArrivesSettled
<1>1. Inv => ArrivesSettled
  BY DEF Inv, SettledInv
<1> QED BY <1>1, CheckoutInv, PTL

\* With a gateway that never refuses, as the mock one, the confirmation page means paid: this
\* is what handlePay relies on when it does not look at the payment's status.
THEOREM PaidIfNeverRefused ==
  ASSUME "failure" \notin Outcomes
  PROVE  Spec => [](tab.page = "confirmation" => payment[tab.press] = "COMPLETED")
<1> DEFINE NoneFailed == \A p \in Presses : payment[p] # "FAILED"
<1>1. Init => NoneFailed
  BY DEF Init
<1>2. Inv /\ NoneFailed /\ [Next]_vars => NoneFailed'
  <2> SUFFICES ASSUME Inv, NoneFailed, [Next]_vars PROVE NoneFailed'
    OBVIOUS
  <2>0. payment \in [Presses -> Statuses]
    BY DEF Inv, TypeOK, Statuses
  <2>1. CASE UNCHANGED payment
    BY <2>1
  <2>2. ASSUME NEW p \in Presses, InitiatePayment(p) \/ ConfirmPayment(p) PROVE NoneFailed'
    <3>1. \E st \in {"PROCESSING", "COMPLETED"} : payment' = [payment EXCEPT ![p] = st]
      BY <2>2 DEF InitiatePayment, ConfirmPayment
    <3> QED BY <2>0, <3>1
  <2>3. CASE Customer
    <3>1. UNCHANGED payment
      BY <2>3 DEF Customer, PickSchedule, ChooseCount, Toggle, Continue, Submit, PayLoggedOut,
         Pay, BackToSeats, LogIn, LogOut, GoThroughHistory, server
    <3> QED BY <2>1, <3>1
  <2>4. ASSUME NEW p \in Presses,
               Elsewhere(p) \/ CreateBooking(p) \/ RefuseCall(p) \/ Hear(p) \/ Die(p) \/ ConnectionBreaks(p)
        PROVE  NoneFailed'
    <3>1. UNCHANGED payment
      BY <2>4 DEF Elsewhere, CancelBooking, BookElsewhere, CreateBooking, RefuseCall, Die,
         ConnectionBreaks, Hear, HearCreated, HearSettled, HearRedirect, HearRefusal, server
    <3> QED BY <2>1, <3>1
  <2> QED BY <2>1, <2>2, <2>3, <2>4 DEF Next, Server, vars, server
<1>3. Inv /\ NoneFailed => (tab.page = "confirmation" => payment[tab.press] = "COMPLETED")
  <2>1. Inv => tab.press \in Presses \cup {None}
    BY DEF Inv, TypeOK, Tab
  <2> QED BY <2>1 DEF Inv, SettledInv, ArrivesSettled
<1> HIDE DEF NoneFailed
<1> QED BY <1>1, <1>2, <1>3, CheckoutInv, PTL DEF Spec

-----------------------------------------------------------------------------
(* Seats.  A step creates a booking on free seats, cancels one, or takes   *)
(* seats that a booking already has.                                       *)

\* Bookings and taken seats are left alone, and a flow that has been served stays so.
LEMMA FlowsKeep ==
  ASSUME BookedInv, UNCHANGED <<booking, taken>>,
         \A q \in Presses : press'[q].at \in {"none", "create"} => press[q].at \in {"none", "create"}
  PROVE  BookedInv'
  BY DEF BookedInv, GivenBack

\* A new booking: its seats are free, so their earlier bookings were given back.
LEMMA HoldKeeps ==
  ASSUME TypeOK, BookedInv, NEW p \in Presses, NEW S \in SUBSET Seats, Hold(p, S),
         press[p].at \in {"none", "create"}, press'[p].at \notin {"none", "create"},
         \A q \in Presses \ {p} : press'[q] = press[q]
  PROVE  BookedInv'
<1>1. /\ booking'[p].seats = S /\ booking'[p].cancelled = booking[p].cancelled
      /\ \A q \in Presses \ {p} : booking'[q] = booking[q]
      /\ taken' = taken \cup S /\ S \cap taken = {}
  BY DEF TypeOK, Booking, Hold
<1>2. ~booking[p].cancelled /\ booking[p].seats = {}
  BY DEF BookedInv
<1>3. \A s : GivenBack(s) => GivenBack(s)'
  BY <1>1, <1>2 DEF GivenBack
<1>4. \A q \in Presses : \A s \in booking'[q].seats : s \in taken' \/ GivenBack(s)'
  BY <1>1, <1>3 DEF BookedInv
<1>5. \A q, r \in Presses : q # r =>
        \A s \in booking'[q].seats \cap booking'[r].seats : GivenBack(s)'
  <2>1. \A q \in Presses \ {p} : \A s \in S \cap booking[q].seats : GivenBack(s)'
    BY <1>1, <1>3 DEF BookedInv
  <2> QED BY <1>1, <1>3, <2>1 DEF BookedInv
<1>6. \A q \in Presses : press'[q].at \in {"none", "create"} =>
        booking'[q].status = "ABSENT" /\ ~booking'[q].cancelled /\ booking'[q].seats = {}
  BY <1>1 DEF BookedInv
<1> QED BY <1>4, <1>5, <1>6 DEF BookedInv

\* The seats of all bookings are as before, and none loses its cancellation.
LEMMA SeatsKeep ==
  ASSUME BookedInv, NEW p \in Presses,
         \A q \in Presses : booking'[q].seats = booking[q].seats
                            /\ (booking[q].cancelled => booking'[q].cancelled),
         \A q \in Presses \ {p} : booking'[q] = booking[q],
         press[p].at \notin {"none", "create"} \/ booking'[p] = booking[p],
         \A q \in Presses : press'[q].at \in {"none", "create"} => press'[q] = press[q],
         \A s \in taken : s \in taken' \/ GivenBack(s)'
  PROVE  BookedInv'
<1>1. \A s : GivenBack(s) => GivenBack(s)'
  BY DEF GivenBack
<1>2. \A q \in Presses : \A s \in booking'[q].seats : s \in taken' \/ GivenBack(s)'
  BY <1>1 DEF BookedInv
<1>3. \A q, r \in Presses : q # r =>
        \A s \in booking'[q].seats \cap booking'[r].seats : GivenBack(s)'
  BY <1>1 DEF BookedInv
<1>4. \A q \in Presses : press'[q].at \in {"none", "create"} =>
        booking'[q].status = "ABSENT" /\ ~booking'[q].cancelled /\ booking'[q].seats = {}
  BY DEF BookedInv
<1> QED BY <1>2, <1>3, <1>4 DEF BookedInv

LEMMA BookedKept ==
  ASSUME TypeOK, BookedInv, [Next]_vars
  PROVE  BookedInv'
<1>0. /\ press \in [Presses -> Flow] /\ booking \in [Presses -> Booking]
      /\ \A p \in Presses : press[p].seats \in SUBSET Seats
  BY DEF TypeOK, Flow
<1>1. CASE Customer
  <2>1. UNCHANGED <<booking, taken>>
    BY <1>1 DEF Customer, PickSchedule, ChooseCount, Toggle, Continue, Submit, PayLoggedOut,
       Pay, BackToSeats, LogIn, LogOut, GoThroughHistory, server
  <2>2. press' = press \/ \E p \in Presses : Pay(p)
    BY <1>1 DEF Customer, PickSchedule, ChooseCount, Toggle, Continue, Submit, PayLoggedOut,
       BackToSeats, LogIn, LogOut, GoThroughHistory
  <2>3. \A q \in Presses : press'[q].at \in {"none", "create"} => press[q].at \in {"none", "create"}
    <3>1. ASSUME NEW p \in Presses, Pay(p), NEW q \in Presses, press'[q].at \in {"none", "create"}
          PROVE  press[q].at \in {"none", "create"}
      <4>1. press[p].at = "none" /\ (q # p => press'[q] = press[q])
        BY <1>0, <3>1 DEF Pay, NoPress
      <4> QED BY <3>1, <4>1
    <3> QED BY <2>2, <3>1
  <2> QED BY <2>1, <2>3, FlowsKeep
<1>2. ASSUME NEW p \in Presses, CancelBooking(p) PROVE BookedInv'
  <2>1. /\ booking[p].status # "ABSENT" /\ press' = press /\ taken' = taken \ booking[p].seats
        /\ booking'[p].seats = booking[p].seats /\ booking'[p].cancelled
        /\ \A q \in Presses \ {p} : booking'[q] = booking[q]
    BY <1>0, <1>2 DEF CancelBooking, Booking
  <2>2. press[p].at \notin {"none", "create"}
    BY <2>1 DEF BookedInv
  <2>3. \A s \in taken : s \in taken' \/ GivenBack(s)'
    BY <2>1 DEF GivenBack
  <2> QED BY <2>1, <2>2, <2>3, SeatsKeep
<1>3. ASSUME NEW p \in Presses, NEW S \in SUBSET Seats \ {{}}, BookElsewhere(p, S)
      PROVE  BookedInv'
  BY <1>0, <1>3, HoldKeeps DEF BookElsewhere, NoPress, Over
<1>4. ASSUME NEW p \in Presses, CreateBooking(p) PROVE BookedInv'
  <2>1. PICK at \in {"created", "conflict"} : Reach(p, at)
    BY <1>4 DEF CreateBooking
  <2>2. /\ press'[p].at \notin {"none", "create"} \/ press'[p] = press[p]
        /\ \A q \in Presses \ {p} : press'[q] = press[q]
    BY <1>0, <2>1, Reached DEF Calls, Answers
  <2>3. press'[p].at \notin {"none", "create"}
    BY <1>0, <2>1 DEF Reach, Answers, NoPress, Over
  <2>4. CASE Hold(p, press[p].seats)
    BY <1>0, <1>4, <2>2, <2>3, <2>4, HoldKeeps DEF CreateBooking
  <2>5. CASE UNCHANGED <<booking, taken>>
    BY <2>2, <2>3, <2>5, FlowsKeep
  <2> QED BY <1>4, <2>4, <2>5 DEF CreateBooking
<1>5. ASSUME NEW p \in Presses, ConfirmPayment(p) PROVE BookedInv'
  <2>1. /\ press[p].at = "confirm" /\ Reach(p, "settled") /\ taken \subseteq taken'
        /\ booking'[p].seats = booking[p].seats /\ booking'[p].cancelled = booking[p].cancelled
        /\ \A q \in Presses \ {p} : booking'[q] = booking[q]
    BY <1>0, <1>5 DEF ConfirmPayment, Booking
  <2>2. \A q \in Presses : press'[q].at \in {"none", "create"} => press'[q] = press[q]
    BY <1>0, <2>1, Reached DEF Calls, Answers
  <2> QED BY <2>1, <2>2, SeatsKeep
<1>6. ASSUME NEW p \in Presses, InitiatePayment(p) \/ RefuseCall(p) \/ Die(p)
      PROVE  BookedInv'
  <2>1. UNCHANGED <<booking, taken>> /\ \E at \in {"confirm", "redirect", "refused"} : Reach(p, at)
    BY <1>6 DEF InitiatePayment, RefuseCall, Die, server
  <2>2. \A q \in Presses : press'[q].at \in {"none", "create"} => press[q].at \in {"none", "create"}
    BY <1>0, <2>1, Reached DEF Calls, Answers
  <2> QED BY <2>1, <2>2, FlowsKeep
<1>7. ASSUME NEW p \in Presses, Hear(p) \/ ConnectionBreaks(p) PROVE BookedInv'
  <2>1. UNCHANGED <<booking, taken>>
    BY <1>7 DEF Hear, HearCreated, HearSettled, HearRedirect, HearRefusal, ConnectionBreaks, server
  <2>2. CASE HearCreated(p)
    <3>1. press' = [press EXCEPT ![p].at = "pay", ![p].auth = tab.user]
      BY <2>2 DEF HearCreated
    <3>2. \A q \in Presses : press'[q].at \in {"none", "create"} => press[q].at \in {"none", "create"}
      BY <1>0, <3>1 DEF Flow
    <3> QED BY <2>1, <3>2, FlowsKeep
  <2>3. CASE End(p)
    <3>1. \A q \in Presses : press'[q].at \in {"none", "create"} => press[q].at \in {"none", "create"}
      BY <1>0, <2>3, Ended
    <3> QED BY <2>1, <3>1, FlowsKeep
  <2>4. ASSUME \A q \in Presses : \/ press'[q] \in {press[q], Over}
                                  \/ press'[q] = [press[q] EXCEPT !.heard = FALSE]
        PROVE  BookedInv'
    <3>1. ASSUME NEW q \in Presses, press'[q].at \in {"none", "create"}
          PROVE  press[q].at \in {"none", "create"}
      BY <1>0, <2>4, <3>1, Left DEF Over
    <3> QED BY <2>1, <3>1, FlowsKeep
  <2>5. CASE HearRedirect(p) \/ ConnectionBreaks(p)
    <3>1. ASSUME NEW q \in Presses
          PROVE  press'[q] \in {press[q], Over} \/ press'[q] = [press[q] EXCEPT !.heard = FALSE]
      <4>1. CASE HearRedirect(p)
        BY <1>0, <4>1 DEF HearRedirect
      <4>2. CASE ConnectionBreaks(p)
        BY <1>0, <4>2 DEF ConnectionBreaks
      <4> QED BY <2>5, <4>1, <4>2
    <3> QED BY <2>4, <3>1
  <2> QED BY <1>7, <2>2, <2>3, <2>5 DEF Hear, HearSettled, HearRefusal
<1>8. CASE UNCHANGED vars
  BY <1>8, FlowsKeep DEF vars, server
<1> QED BY <1>1, <1>2, <1>3, <1>4, <1>5, <1>6, <1>7, <1>8 DEF Next, Elsewhere, Server

\* However often Pay is pressed again after lost answers, broken connections and dead calls,
\* and whatever other customers do: a seat is paid for a second time only after a booking of it
\* was cancelled.
THEOREM SeatChargedOnce == Spec => []ChargedOnce
<1>1. Init => BookedInv
  BY DEF Init, BookedInv
<1>2. Inv => TypeOK
  BY DEF Inv
<1>3. BookedInv => ChargedOnce
  BY DEF BookedInv, GivenBack, ChargedOnce
<1> QED BY <1>1, <1>2, <1>3, BookedKept, CheckoutInv, PTL DEF Spec

-----------------------------------------------------------------------------
(* A busy page.  It is not told of other flows, and its own flow, as long  *)
(* as it is heard, goes from answer to call and from call to answer until  *)
(* the page is told.                                                       *)

\* A flow that goes on is heard as before; the others are not touched.
LEMMA ReachedHeard ==
  ASSUME press \in [Presses -> Flow], NEW p \in Presses,
         NEW at \in Calls \cup Answers, Reach(p, at),
         NEW q \in Presses, press[q].heard
  PROVE  press'[q].heard
<1>1. CASE q = p
  <2>1. PICK u : /\ u = [press[p] EXCEPT !.at = at] \/ u = [NoPress EXCEPT !.at = at, !.heard = TRUE]
                 /\ press' = [press EXCEPT ![p] = u]
    BY <1>1 DEF Reach
  <2> QED BY <1>1, <2>1 DEF Flow, NoPress
<1>2. CASE q # p
  BY <1>2 DEF Reach
<1> QED BY <1>1, <1>2

LEMMA BusyKept ==
  ASSUME Inv, BusyIsAwaited, [Next]_vars
  PROVE  BusyIsAwaited'
<1> USE DEF BusyIsAwaited
<1>0. tab \in Tab /\ press \in [Presses -> Flow] /\ tab.press \in Presses \cup {None}
  BY DEF Inv, TypeOK, Tab
<1>1. CASE tab'.stage # "busy"
  BY <1>1
<1>2. ASSUME tab'.stage = tab.stage, tab'.press = tab.press,
             \A q \in Presses : press[q].heard => press'[q].heard
      PROVE  BusyIsAwaited'
  BY <1>0, <1>2
<1>3. CASE Customer
  <2>1. ASSUME NEW v \in Tab, NEW page \in Pages, tab' \in Mount(page, v) PROVE BusyIsAwaited'
    BY <1>1, <2>1, Mounted
  <2>2. CASE PickSchedule \/ LogIn \/ Submit
    <3>1. /\ [tab EXCEPT !.selected = {}] \in Tab
          /\ [tab EXCEPT !.user = TRUE] \in Tab
          /\ [tab EXCEPT !.passengers = tab.selected] \in Tab
      BY <1>0 DEF Tab
    <3> QED BY <2>1, <2>2, <3>1 DEF PickSchedule, LogIn, Submit, Pages
  <2>3. CASE Continue \/ PayLoggedOut \/ BackToSeats
             \/ \E page \in {"elsewhere", "seats", "passengers", "payment"} : GoThroughHistory(page)
    BY <1>0, <2>1, <2>3 DEF Continue, PayLoggedOut, BackToSeats, GoThroughHistory, Pages
  <2>4. ASSUME NEW n \in 1 .. MaxPassengers, ChooseCount(n) PROVE BusyIsAwaited'
    <3> DEFINE v == [tab EXCEPT !.count = n]
    <3>1. v.stage = tab.stage /\ v.press = tab.press /\ tab' \in Cut(v, n) /\ press' = press
      BY <1>0, <2>4 DEF ChooseCount, Tab
    <3>2. tab'.stage = v.stage /\ tab'.press = v.press
      <4>1. v \in Tab
        BY <1>0 DEF Tab
      <4> HIDE DEF v
      <4> QED BY <3>1, <4>1 DEF Cut, Tab
    <3> QED BY <1>2, <3>1, <3>2
  <2>5. ASSUME NEW p \in Presses, Pay(p) PROVE BusyIsAwaited'
    <3>1. tab'.press = p /\ press'[p].heard
      BY <1>0, <2>5 DEF Pay, Tab
    <3> QED BY <3>1, NobodyAssumption
  <2>6. CASE (\E s \in Seats : Toggle(s)) \/ LogOut
    BY <1>0, <1>2, <2>6 DEF Toggle, LogOut, Tab
  <2> QED BY <1>3, <2>2, <2>3, <2>4, <2>5, <2>6 DEF Customer
<1>4. ASSUME NEW p \in Presses, Elsewhere(p) PROVE BusyIsAwaited'
  <2>1. tab' = tab /\ (press' = press \/ (press[p] = NoPress /\ press' = [press EXCEPT ![p] = Over]))
    BY <1>4 DEF Elsewhere, CancelBooking, BookElsewhere
  <2> QED BY <1>0, <1>2, <2>1 DEF NoPress
<1>5. ASSUME NEW p \in Presses, Server(p) \/ Die(p) PROVE BusyIsAwaited'
  <2>1. tab' = tab /\ \E at \in Calls \cup Answers : Reach(p, at)
    BY <1>5 DEF Server, CreateBooking, InitiatePayment, ConfirmPayment, RefuseCall, Die, Calls, Answers
  <2>2. PICK at \in Calls \cup Answers : Reach(p, at)
    BY <2>1
  <2>3. \A q \in Presses : press[q].heard => press'[q].heard
    BY <1>0, <2>2, ReachedHeard
  <2> QED BY <1>2, <2>1, <2>3
<1>9. ASSUME NEW p \in Presses, HearCreated(p) PROVE BusyIsAwaited'
  <2>1. tab' = tab /\ press' = [press EXCEPT ![p].at = "pay", ![p].auth = tab.user]
    BY <1>9 DEF HearCreated
  <2>2. \A q \in Presses : press'[q].heard = press[q].heard
    BY <1>0, <2>1 DEF Flow
  <2> QED BY <1>2, <2>1, <2>2
<1>6. ASSUME NEW p \in Presses, HearSettled(p) \/ HearRedirect(p) PROVE BusyIsAwaited'
  <2>1. Emptied(tab) \in Tab
    BY <1>0, EmptiedTyped
  <2>2. PICK v \in Mount("confirmation", Emptied(tab)) \cup Mount("elsewhere", Emptied(tab))
                  \cup Mount("seats", Emptied(tab)) :
          tab' = v \/ tab' = [v EXCEPT !.press = p]
    BY <1>6 DEF HearSettled, Arrive, HearRedirect
  <2>3. v \in Tab /\ v.stage = "ready"
    BY <2>1, <2>2, Mounted DEF Pages
  <2> QED BY <1>1, <2>2, <2>3 DEF Tab
<1>7. ASSUME NEW p \in Presses, HearRefusal(p) \/ ConnectionBreaks(p) PROVE BusyIsAwaited'
  <2>1. \E stage \in {"ready", "conflict"} : Told(p, stage)
    BY <1>7 DEF HearRefusal, ConnectionBreaks
  <2>2. \A q \in Presses \ {p} : press'[q] = press[q]
    BY <1>0, <1>7 DEF HearRefusal, ConnectionBreaks, End
  <2>3. CASE tab.press = p /\ tab.stage = "busy"
    <3>1. tab'.stage # "busy"
      BY <1>0, <2>1, <2>3 DEF Told, Tab
    <3> QED BY <1>1, <3>1
  <2>4. CASE ~(tab.press = p /\ tab.stage = "busy")
    <3>1. tab' = tab
      BY <2>1, <2>4 DEF Told
    <3> QED BY <1>0, <2>2, <2>4, <3>1
  <2> QED BY <2>3, <2>4
<1>8. CASE UNCHANGED vars
  BY <1>8 DEF vars
<1> QED BY <1>3, <1>4, <1>5, <1>6, <1>7, <1>8, <1>9 DEF Next, Hear

\* Behind a busy page is always a flow that goes on and is heard, whatever other flows, lost
\* connections and redirects do: what is left of "no page spins for ever" is that the server
\* answers and answers arrive.
THEOREM BusyPageHears == Spec => []BusyIsAwaited
<1>1. Init => BusyIsAwaited
  BY DEF Init, BusyIsAwaited
<1> QED BY <1>1, CheckoutInv, BusyKept, PTL DEF Spec
=============================================================================
