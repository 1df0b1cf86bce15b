------------------------------ MODULE Checkout ------------------------------
(***************************************************************************)
(* Booking through the browser: one tab with its pages from the seat map   *)
(* to the confirmation, the store they share and the two API calls behind  *)
(* one click on Pay, against the server's rows and other customers.        *)
(*                                                                         *)
(* A press of Pay creates at most one booking, so the booking has the name *)
(* of its press.  The store (booking-flow-store.ts) outlives the page; the *)
(* stage of the payment page and the count of the seat page go when the    *)
(* page is left.  The flow of a press does not stop with its page: only    *)
(* the stage it would set is gone.  One schedule stands for all.  A        *)
(* passenger is his seat.  The seat map is up to ten seconds old, so that  *)
(* any seat may be offered.  A handler's commit is one step and sees what  *)
(* is committed; Platform is about what it reads before that.              *)
(***************************************************************************)
EXTENDS Integers, FiniteSets, FiniteSetsExt

CONSTANTS
  Presses,        \* presses of Pay, and the bookings they create
  Seats,          \* the seats of the schedule
  MaxPassengers,  \* MAX_PASSENGERS of the seat page (6)
  Providers,      \* what PAYMENT_PROVIDER may be set to
  Configured,     \* the providers whose credentials are set
  Outcomes,       \* what verify_payment of a gateway without redirect may answer
  Faults,         \* whether a call may die on the server, or its connection break
  None

ASSUME FaultsAssumption == Faults \in BOOLEAN
ASSUME OutcomesAssumption == Outcomes \subseteq {"success", "failure"}
ASSUME PassengersAssumption == MaxPassengers \in Nat \ {0}
ASSUME NobodyAssumption == None \notin Presses

VARIABLES
  provider,  \* settings.PAYMENT_PROVIDER, read once per process
  booking,   \* the bookings: status, whether cancelled_at is set, the passengers' seats
  taken,     \* the seats that are LOCKED or BOOKED
  payment,   \* payments.status by booking
  press,     \* the flow behind each press of Pay
  tab        \* what the customer sees

server == <<booking, taken, payment>>
vars == <<provider, server, press, tab>>

Booking == [status : {"ABSENT", "PENDING", "CONFIRMED", "CANCELLED"},
            cancelled : BOOLEAN, seats : SUBSET Seats]

-----------------------------------------------------------------------------
\* Where a flow is: its call is with the server, or an answer is on the way, or it is over.
Calls == {"create", "pay", "confirm"}
Answers == {"created", "settled", "redirect", "conflict", "refused"}

\* seats: the passengers in the POST.  auth: whether the call was sent with a token.  heard:
\* whether the tab still listens.
Flow == [at : Calls \cup Answers \cup {"none", "over"},
         seats : SUBSET Seats, auth : BOOLEAN, heard : BOOLEAN]
NoPress == [at |-> "none", seats |-> {}, auth |-> FALSE, heard |-> FALSE]
Over == [NoPress EXCEPT !.at = "over"]

Tab == [page : {"elsewhere", "seats", "passengers", "payment", "confirmation"},
        count : 1 .. MaxPassengers,  \* passengerCount of the seat page
        selected : SUBSET Seats, passengers : SUBSET Seats,  \* the store
        stage : {"ready", "busy", "conflict"},  \* ready: "review" or "error", Pay is enabled
        press : Presses \cup {None},  \* busy: the press; on the confirmation page: its booking
        user : BOOLEAN]  \* auth-store: whether somebody is logged in

Init ==
  /\ provider \in Providers
  /\ booking = [p \in Presses |-> [status |-> "ABSENT", cancelled |-> FALSE, seats |-> {}]]
  /\ taken = {}
  /\ payment = [p \in Presses |-> "ABSENT"]
  /\ press = [p \in Presses |-> NoPress]
  /\ tab = [page |-> "elsewhere", count |-> 1, selected |-> {}, passengers |-> {},
            stage |-> "ready", press |-> None, user |-> FALSE]

\* The selection of v is cut to n seats: the first n, and their order is not modelled.
Cut(v, n) == IF Cardinality(v.selected) <= n THEN {v}
             ELSE {[v EXCEPT !.selected = S] : S \in kSubset(n, v.selected)}

\* The tab v with another page mounted, its effects run: the seat page starts with a count of
\* one; the two after it send an empty selection back to it.
Mount(page, v) ==
  LET blank == (page \in {"passengers", "payment"} /\ v.selected = {})
               \/ (page = "payment" /\ v.passengers = {})
      there == [v EXCEPT !.page = IF blank THEN "seats" ELSE page,
                         !.count = 1, !.stage = "ready", !.press = None]
  IN IF there.page = "seats" THEN Cut(there, 1) ELSE {there}

\* reset() of the store.
Emptied(v) == [v EXCEPT !.selected = {}, !.passengers = {}]

-----------------------------------------------------------------------------
(* The customer *)

\* A schedule in the search results (the navigation bar leads there from every page):
\* setSchedule empties the selection, not the passengers.
PickSchedule ==
  /\ tab' \in Mount("seats", [tab EXCEPT !.selected = {}])
  /\ UNCHANGED <<provider, server, press>>

\* "Seats to book".
ChooseCount(n) ==
  /\ tab.page = "seats"
  /\ tab' \in Cut([tab EXCEPT !.count = n], n)
  /\ UNCHANGED <<provider, server, press>>

Toggle(s) ==
  /\ tab.page = "seats"
  /\ s \in tab.selected \/ Cardinality(tab.selected) < tab.count
  /\ tab' = [tab EXCEPT !.selected = IF s \in @ THEN @ \ {s} ELSE @ \cup {s}]
  /\ UNCHANGED <<provider, server, press>>

Continue ==
  /\ tab.page = "seats" /\ Cardinality(tab.selected) = tab.count
  /\ tab' \in Mount("passengers", tab)
  /\ UNCHANGED <<provider, server, press>>

\* The passengers' form: one passenger for each selected seat.
Submit ==
  /\ tab.page = "passengers"
  /\ tab' \in Mount("payment", [tab EXCEPT !.passengers = tab.selected])
  /\ UNCHANGED <<provider, server, press>>

\* The press that comes next; which of the unused names it takes makes no difference.
NextPress == CHOOSE p \in Presses : press[p] = NoPress

\* handlePay without a user leads to the login page ...
PayLoggedOut ==
  /\ tab.page = "payment" /\ tab.stage = "ready" /\ tab.selected # {}
  /\ ~tab.user
  /\ tab' \in Mount("elsewhere", tab)
  /\ UNCHANGED <<provider, server, press>>

\* ... and with one to the first of the two calls.
Pay(p) ==
  /\ tab.page = "payment" /\ tab.stage = "ready" /\ tab.selected # {}
  /\ tab.user
  /\ press[p] = NoPress /\ p = NextPress
  /\ press' = [press EXCEPT ![p] = [at |-> "create", seats |-> tab.passengers,
                                    auth |-> TRUE, heard |-> TRUE]]
  /\ tab' = [tab EXCEPT !.stage = "busy", !.press = p]
  /\ UNCHANGED <<provider, server>>

BackToSeats ==
  /\ tab.stage = "conflict"
  /\ tab' \in Mount("seats", tab)
  /\ UNCHANGED <<provider, server, press>>

\* Logging in ends on the start page, whatever "next" says.
LogIn ==
  /\ ~tab.user
  /\ tab' \in Mount("elsewhere", [tab EXCEPT !.user = TRUE])
  /\ UNCHANGED <<provider, server, press>>

LogOut ==
  /\ tab' = [tab EXCEPT !.user = FALSE]
  /\ UNCHANGED <<provider, server, press>>

\* Back and forward in the browser mount a page again, over the store as it is.
GoThroughHistory(page) ==
  /\ tab' \in Mount(page, tab)
  /\ UNCHANGED <<provider, server, press>>

\* cancel_booking: on the booking's page, in this tab or another, at any moment.
CancelBooking(p) ==
  /\ booking[p].status \in {"PENDING", "CONFIRMED"}
  /\ booking' = [booking EXCEPT ![p].status = "CANCELLED", ![p].cancelled = TRUE]
  /\ taken' = taken \ booking[p].seats
  /\ UNCHANGED <<provider, payment, press, tab>>

\* A booking of p's, with its seats locked.
Hold(p, S) ==
  /\ S \cap taken = {}
  /\ booking' = [booking EXCEPT ![p].status = "PENDING", ![p].seats = S]
  /\ taken' = taken \cup S

\* Another customer's booking.
BookElsewhere(p, S) ==
  /\ press[p] = NoPress /\ p = NextPress
  /\ Hold(p, S)
  /\ press' = [press EXCEPT ![p] = Over]
  /\ UNCHANGED <<provider, payment, tab>>

-----------------------------------------------------------------------------
(* The server *)

\* The call goes on, and an answer sets out if anyone is there to hear it.
Reach(p, at) ==
  press' = [press EXCEPT ![p] = IF at \notin Answers THEN [@ EXCEPT !.at = at]
                                ELSE IF @.heard THEN [NoPress EXCEPT !.at = at, !.heard = TRUE]
                                ELSE Over]

\* get_current_user: 401 without a token.  With one too if its thirty minutes are over, which
\* nothing in the client looks at: RefuseCall.
LetIn(p) == press[p].auth

CreateBooking_NoSeatCheck(p) ==
  /\ press[p].at = "create" /\ LetIn(p)
  /\ booking' = [booking EXCEPT ![p].status = "PENDING", ![p].seats = press[p].seats]
  /\ taken' = taken \cup press[p].seats
  /\ Reach(p, "created")
  /\ UNCHANGED <<provider, payment, tab>>

\* POST /bookings: 201 if every seat is free, 409 if one is not.
CreateBooking(p) ==
  /\ press[p].at = "create" /\ LetIn(p)
  /\ \/ Hold(p, press[p].seats) /\ Reach(p, "created")
     \/ /\ press[p].seats \cap taken # {}
        /\ Reach(p, "conflict")
        /\ UNCHANGED <<booking, taken>>
  /\ UNCHANGED <<provider, payment, tab>>

\* initiate_payment of the gateways: JazzCash and EasyPaisa redirect, and raise
\* NotImplementedError (503) without credentials.
MockInitiates == provider = "mock"
JazzCashInitiates == provider = "jazzcash" /\ provider \in Configured
EasyPaisaInitiates == provider = "easypaisa" /\ provider \in Configured

\* get_payment_gateway: an unknown provider is a ValueError (500).
GatewayInitiates == MockInitiates \/ JazzCashInitiates \/ EasyPaisaInitiates

InitiatePayment_StaysPending(p) ==
  /\ press[p].at = "pay" /\ LetIn(p)
  /\ booking[p].status = "PENDING" /\ payment[p] = "ABSENT" /\ GatewayInitiates
  /\ payment' = [payment EXCEPT ![p] = "PENDING"]
  /\ Reach(p, IF MockInitiates THEN "confirm" ELSE "redirect")
  /\ UNCHANGED <<provider, booking, taken, tab>>

\* POST /payments/initiate, up to its first commit.
InitiatePayment(p) ==
  /\ press[p].at = "pay" /\ LetIn(p)
  /\ booking[p].status = "PENDING" /\ payment[p] = "ABSENT" /\ GatewayInitiates
  /\ payment' = [payment EXCEPT ![p] = "PROCESSING"]
  /\ Reach(p, IF MockInitiates THEN "confirm" ELSE "redirect")
  /\ UNCHANGED <<provider, booking, taken, tab>>

\* confirm_payment in the same call, of a gateway without redirect.  Neither branch looks at
\* the booking's status, and both answer 200 without a redirect.
ConfirmPayment(p) ==
  /\ press[p].at = "confirm"
  /\ \/ /\ "success" \in Outcomes
        /\ payment' = [payment EXCEPT ![p] = "COMPLETED"]
        /\ booking' = [booking EXCEPT ![p].status = "CONFIRMED"]
        /\ taken' = taken \cup booking[p].seats
     \/ /\ "failure" \in Outcomes
        /\ payment' = [payment EXCEPT ![p] = "FAILED"]
        /\ UNCHANGED <<booking, taken>>
  /\ Reach(p, "settled")
  /\ UNCHANGED <<provider, tab>>

\* Any other answer that is not 2xx: 401 for a missing or an expired token; to the payment call
\* also 400, for a booking that is no longer PENDING or whose fifteen minutes are over, and 500
\* or 503 of the gateway.  Time is not modelled: any call may come too late.
RefuseCall(p) ==
  /\ press[p].at \in {"create", "pay"}
  /\ Reach(p, "refused")
  /\ UNCHANGED <<provider, server, tab>>

\* The call dies where it is: what it committed stays, the answer is a 500.
Die(p) ==
  /\ Faults
  /\ press[p].at \in Calls \cup {"created", "settled", "redirect"}
  /\ Reach(p, "refused")
  /\ UNCHANGED <<provider, server, tab>>

-----------------------------------------------------------------------------
(* The answers *)

\* The flow of p is over.
End(p) == press' = [press EXCEPT ![p] = Over]

\* setStage reaches the page that made the press, if it is still there.
Told(p, stage) ==
  tab' = IF tab.press = p /\ tab.stage = "busy"
         THEN [tab EXCEPT !.stage = stage, !.press = None] ELSE tab

\* The booking is there: the second call is made, whatever page is open by now.
HearCreated(p) ==
  /\ press[p].at = "created"
  /\ press' = [press EXCEPT ![p].at = "pay", ![p].auth = tab.user]
  /\ UNCHANGED <<provider, server, tab>>

\* reset() and the confirmation page, whatever page is open by now: on the passengers' page
\* the empty selection also calls for the seat page, and that may come last.
Arrive(p) ==
  \/ tab' \in {[v EXCEPT !.press = p] : v \in Mount("confirmation", Emptied(tab))}
  \/ tab.page = "passengers" /\ tab' \in Mount("seats", Emptied(tab))

HearSettled(p) ==
  /\ press[p].at = "settled"
  /\ Arrive(p)
  /\ End(p)
  /\ UNCHANGED <<provider, server>>

HearRedirect_NoReturn(p) ==
  /\ press[p].at = "redirect"
  /\ Arrive(p)
  /\ End(p)
  /\ UNCHANGED <<provider, server>>

\* Redirected: the application is left, its store is gone and no other flow of it is heard.
\* Asking for the gateway's page and the unloading of this one are one step, and coming back
\* loads the application afresh.
HearRedirect(p) ==
  /\ press[p].at = "redirect"
  /\ tab' \in Mount("elsewhere", Emptied(tab))
  /\ press' = [q \in Presses |-> IF q = p \/ press[q].at \in Answers THEN Over
                                 ELSE [press[q] EXCEPT !.heard = FALSE]]
  /\ UNCHANGED <<provider, server>>

HearRefusal_StaysBusy(p) ==
  /\ \/ press[p].at = "conflict" /\ UNCHANGED tab
     \/ press[p].at = "refused" /\ Told(p, "ready")
  /\ End(p)
  /\ UNCHANGED <<provider, server>>

HearRefusal(p) ==
  /\ \/ press[p].at = "conflict" /\ Told(p, "conflict")
     \/ press[p].at = "refused" /\ Told(p, "ready")
  /\ End(p)
  /\ UNCHANGED <<provider, server>>

ConnectionBreaks_NotCaught(p) ==
  /\ Faults
  /\ press[p].heard
  /\ press' = [press EXCEPT ![p] = IF @.at \in Answers THEN Over ELSE [@ EXCEPT !.heard = FALSE]]
  /\ UNCHANGED <<provider, server, tab>>

\* The connection breaks: the page shows an error; a call the server has, it goes on with.
ConnectionBreaks(p) ==
  /\ Faults
  /\ press[p].heard
  /\ Told(p, "ready")
  /\ press' = [press EXCEPT ![p] = IF @.at \in Answers THEN Over ELSE [@ EXCEPT !.heard = FALSE]]
  /\ UNCHANGED <<provider, server>>

-----------------------------------------------------------------------------
Customer ==
  \/ PickSchedule \/ (\E n \in 1 .. MaxPassengers : ChooseCount(n))
  \/ (\E s \in Seats : Toggle(s)) \/ Continue \/ Submit
  \/ PayLoggedOut \/ (\E p \in Presses : Pay(p)) \/ BackToSeats
  \/ LogIn \/ LogOut
  \/ \E page \in {"elsewhere", "seats", "passengers", "payment"} : GoThroughHistory(page)

Elsewhere(p) == CancelBooking(p) \/ \E S \in SUBSET Seats \ {{}} : BookElsewhere(p, S)

Server(p) == CreateBooking(p) \/ InitiatePayment(p) \/ ConfirmPayment(p) \/ RefuseCall(p)
Hear(p) == HearCreated(p) \/ HearSettled(p) \/ HearRedirect(p) \/ HearRefusal(p)

Next == \/ Customer
        \/ \E p \in Presses : Elsewhere(p) \/ Server(p) \/ Hear(p) \/ Die(p) \/ ConnectionBreaks(p)

Spec == Init /\ [][Next]_vars

\* The server answers every call (RequestsEnd of Platform) and an answer arrives.
FairSpec == Spec /\ \A p \in Presses : WF_vars(Server(p)) /\ WF_vars(Hear(p))
-----------------------------------------------------------------------------
\* Every variable keeps to its type.
TypeOK ==
  /\ provider \in Providers
  /\ booking \in [Presses -> Booking]
  /\ taken \subseteq Seats
  /\ payment \in [Presses -> {"ABSENT", "PROCESSING", "COMPLETED", "FAILED"}]
  /\ press \in [Presses -> Flow]
  /\ tab \in Tab

\* A customer who is brought to the confirmation page has a payment that was decided, for the
\* booking that is on it: no retry, no late answer of an earlier flow, no redirect and no lost
\* answer brings him there otherwise.  Decided is not COMPLETED: handlePay does not look at the
\* payment's status in the answer, and only a gateway that never refuses makes it the same.
ArrivesSettled ==
  tab.page = "confirmation" =>
    tab.press # None /\ payment[tab.press] \in {"COMPLETED", "FAILED"}

\* Nobody is charged twice for a seat: whatever answers are lost and however often Pay is
\* pressed again, two payments that were COMPLETED for one seat have a cancellation of a
\* booking of that seat between them.  A press has no idempotency key; what stands in the way
\* is that the first booking still has the seat.
ChargedOnce ==
  \A p, q \in Presses : p # q =>
    (payment[p] = "COMPLETED" /\ payment[q] = "COMPLETED" =>
       \A s \in booking[p].seats \cap booking[q].seats :
         \E r \in Presses : booking[r].cancelled /\ s \in booking[r].seats)

\* No page waits for an answer that cannot reach it: behind a busy page is a flow that is still
\* going on and that the tab still listens to, however many earlier flows end meanwhile.
BusyIsAwaited == tab.stage = "busy" => tab.press # None /\ press[tab.press].heard

\* No page spins for ever: whatever becomes of the calls, Pay is enabled again or the page
\* is left.
BusyEnds == tab.stage = "busy" ~> tab.stage # "busy"
=============================================================================
