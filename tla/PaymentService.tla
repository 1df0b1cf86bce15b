--------------------------- MODULE PaymentService ---------------------------
(***************************************************************************)
(* backend/app/payment/service.py: initiate_payment and confirm_payment.   *)
(* initiate_payment commits the PROCESSING payment in a transaction of its *)
(* own; with a gateway that needs no redirect it then confirms it in a     *)
(* second one of the same session, whose identity map still holds the      *)
(* booking as it was first loaded (expire_on_commit=False).  With a        *)
(* redirect gateway the request ends, and confirm_payment runs when the    *)
(* gateway calls back.                                                     *)
(***************************************************************************)
EXTENDS Tables

CONSTANTS
  Redirects,     \* requires_redirect of the configured gateway
  Outcomes,      \* what verify_payment may answer
  MaxCallbacks   \* how often a redirect gateway calls back for one booking

ASSUME RedirectsAssumption == Redirects \in BOOLEAN
ASSUME OutcomesAssumption == Outcomes \subseteq {"success", "failure", "error"}
ASSUME MaxCallbacksAssumption == MaxCallbacks \in Nat

\* A column in an UPDATE: SQLAlchemy leaves out the attributes whose new value equals
\* the loaded one, so the row keeps what it holds by then.
Column(loaded, new, current) == IF loaded = new THEN current ELSE new

-----------------------------------------------------------------------------
(* initiate_payment *)

\* SELECT of the booking: PENDING, and its window still open.
PayBegin(c) ==
  \E b \in Bookings :
    /\ At(c, "idle")
    /\ booking[b].status = "PENDING"
    /\ b \notin lapsed
    /\ MayStart(c, {b}, {booking[b].schedule_id})
    /\ tx' = [tx EXCEPT ![c] = Request("pay_check", b, booking[b].schedule_id,
                booking[b].seats, NoCounter,
                [status |-> booking[b].status, payment_status |-> booking[b].payment_status,
                 payment |-> "ABSENT"])]
    /\ UNCHANGED <<store, lapsed, callbacks>>

\* SELECT of the payment: none yet, so the gateway is called.
PayCheck(c) ==
  /\ At(c, "pay_check")
  /\ payment[tx[c].b] = "ABSENT"
  /\ tx' = [tx EXCEPT ![c].pc = "pay_commit"]
  /\ UNCHANGED <<store, lapsed, callbacks>>

\* A payment exists: refused with 400 at the SELECT, or by the unique booking_id (an
\* IntegrityError) at the INSERT if it was committed in between.
PayReject(c) ==
  /\ At(c, "pay_check") \/ At(c, "pay_commit")
  /\ payment[tx[c].b] # "ABSENT"
  /\ Finish(c)
  /\ UNCHANGED <<store, lapsed, callbacks>>

\* Unconfigured credentials: NotImplementedError from the gateway, answered 503.
PayUnavailable(c) ==
  /\ At(c, "pay_commit")
  /\ "error" \in Outcomes
  /\ Finish(c)
  /\ UNCHANGED <<store, lapsed, callbacks>>

PayCommit_BookingNotTold(c) ==
  LET b == tx[c].b IN
  /\ At(c, "pay_commit")
  /\ payment[b] = "ABSENT"
  /\ payment' = [payment EXCEPT ![b] = "PROCESSING"]
  /\ IF Redirects
     THEN Finish(c)
     ELSE tx' = [tx EXCEPT ![c].pc = "verify",
                   ![c].row.payment_status = "PROCESSING", ![c].row.payment = "PROCESSING"]
  /\ UNCHANGED <<seat, booking, available, lapsed, callbacks>>

PayCommit_NotUnique(c) ==
  LET b == tx[c].b IN
  /\ At(c, "pay_commit")
  /\ payment' = [payment EXCEPT ![b] = "PROCESSING"]
  /\ booking' = [booking EXCEPT ![b].payment_status =
                   Column(tx[c].row.payment_status, "PROCESSING", @)]
  /\ IF Redirects
     THEN Finish(c)
     ELSE tx' = [tx EXCEPT ![c].pc = "verify",
                   ![c].row.payment_status = "PROCESSING", ![c].row.payment = "PROCESSING"]
  /\ UNCHANGED <<seat, available, lapsed, callbacks>>

\* INSERT payment PROCESSING, booking.payment_status = PROCESSING, commit.
PayCommit(c) ==
  LET b == tx[c].b IN
  /\ At(c, "pay_commit")
  /\ payment[b] = "ABSENT"
  /\ payment' = [payment EXCEPT ![b] = "PROCESSING"]
  /\ booking' = [booking EXCEPT ![b].payment_status =
                   Column(tx[c].row.payment_status, "PROCESSING", @)]
  /\ IF Redirects
     THEN Finish(c)
     ELSE tx' = [tx EXCEPT ![c].pc = "verify",
                   ![c].row.payment_status = "PROCESSING", ![c].row.payment = "PROCESSING"]
  /\ UNCHANGED <<seat, available, lapsed, callbacks>>

-----------------------------------------------------------------------------
(* confirm_payment *)

\* A redirect gateway calls back: a session of its own loads the payment.
CallbackBegin(c) ==
  \E b \in Bookings :
    /\ Redirects
    /\ At(c, "idle")
    /\ payment[b] # "ABSENT"
    /\ callbacks[b] < MaxCallbacks
    /\ MayStart(c, {b}, {booking[b].schedule_id})
    /\ callbacks' = [callbacks EXCEPT ![b] = @ + 1]
    /\ tx' = [tx EXCEPT ![c] = Request("verify", b, booking[b].schedule_id,
                booking[b].seats, NoCounter, [NotLoaded EXCEPT !.payment = payment[b]])]
    /\ UNCHANGED <<store, lapsed>>

LoadBooking_TakesPending(c) ==
  IF tx[c].row.status # "ABSENT" THEN tx[c].row
  ELSE [tx[c].row EXCEPT !.status = "PENDING",
                         !.payment_status = booking[tx[c].b].payment_status]

\* SELECT of the booking after the gateway's answer: what the identity map already
\* holds stays as first loaded.
LoadBooking(c) ==
  LET b == tx[c].b IN
  IF tx[c].row.status # "ABSENT" THEN tx[c].row
  ELSE [tx[c].row EXCEPT !.status = booking[b].status,
                         !.payment_status = booking[b].payment_status]

VerifyOk(c) ==
  /\ At(c, "verify")
  /\ "success" \in Outcomes
  /\ tx' = [tx EXCEPT ![c].pc = "book_seats", ![c].row = LoadBooking(c)]
  /\ UNCHANGED <<store, lapsed, callbacks>>

VerifyFailed(c) ==
  /\ At(c, "verify")
  /\ "failure" \in Outcomes
  /\ tx' = [tx EXCEPT ![c].pc = "fail", ![c].row = LoadBooking(c)]
  /\ UNCHANGED <<store, lapsed, callbacks>>

\* verify_payment raises (JazzCash, EasyPaisa: NotImplementedError): rolled back, 500.
VerifyError(c) ==
  /\ At(c, "verify")
  /\ "error" \in Outcomes
  /\ Finish(c)
  /\ UNCHANGED <<store, lapsed, callbacks>>

\* UPDATE seats SET status = BOOKED, whatever the status and whoever holds them now.
BookSeat(c) == At(c, "book_seats") /\ UpdateSeatRow(c)

ConfirmCommit_WrongEnum(c) ==
  LET b == tx[c].b IN
  /\ At(c, "book_seats")
  /\ Todo(c) = {}
  /\ seat' = [s \in Seats |-> IF s \in tx[c].held
               THEN [seat[s] EXCEPT !.status = "BOOKED"] ELSE seat[s]]
  /\ booking' = [booking EXCEPT
       ![b].status = Column(tx[c].row.status, "COMPLETED", @),
       ![b].payment_status = Column(tx[c].row.payment_status, "COMPLETED", @)]
  /\ payment' = [payment EXCEPT ![b] = Column(tx[c].row.payment, "COMPLETED", @)]
  /\ Finish(c)
  /\ UNCHANGED <<available, lapsed, callbacks>>

ConfirmCommit_ChecksTooLate(c) ==
  LET b == tx[c].b IN
  /\ At(c, "book_seats")
  /\ Todo(c) = {}
  /\ seat' = [s \in Seats |-> IF s \in tx[c].held
               THEN [seat[s] EXCEPT !.status = "BOOKED"] ELSE seat[s]]
  /\ booking' = [booking EXCEPT
       ![b].status = IF tx[c].row.status = "PENDING" THEN "CONFIRMED" ELSE @,
       ![b].payment_status = Column(tx[c].row.payment_status, "COMPLETED", @)]
  /\ payment' = [payment EXCEPT ![b] = Column(tx[c].row.payment, "COMPLETED", @)]
  /\ Finish(c)
  /\ UNCHANGED <<available, lapsed, callbacks>>

\* COMPLETED, CONFIRMED and BOOKED are committed together.  The booking's status is
\* not checked again; lockedBy is left as it is.
ConfirmCommit(c) ==
  LET b == tx[c].b IN
  /\ At(c, "book_seats")
  /\ Todo(c) = {}
  /\ seat' = [s \in Seats |-> IF s \in tx[c].held
               THEN [seat[s] EXCEPT !.status = "BOOKED"] ELSE seat[s]]
  /\ booking' = [booking EXCEPT
       ![b].status = Column(tx[c].row.status, "CONFIRMED", @),
       ![b].payment_status = Column(tx[c].row.payment_status, "COMPLETED", @)]
  /\ payment' = [payment EXCEPT ![b] = Column(tx[c].row.payment, "COMPLETED", @)]
  /\ Finish(c)
  /\ UNCHANGED <<available, lapsed, callbacks>>

FailCommit_BookingNotTold(c) ==
  LET b == tx[c].b IN
  /\ At(c, "fail")
  /\ payment' = [payment EXCEPT ![b] = Column(tx[c].row.payment, "FAILED", @)]
  /\ Finish(c)
  /\ UNCHANGED <<seat, booking, available, lapsed, callbacks>>

FailCommit_NoReturn(c) ==
  LET b == tx[c].b IN
  /\ At(c, "fail")
  /\ booking' = [booking EXCEPT ![b].status = "CONFIRMED",
       ![b].payment_status = Column(tx[c].row.payment_status, "FAILED", @)]
  /\ payment' = [payment EXCEPT ![b] = Column(tx[c].row.payment, "FAILED", @)]
  /\ Finish(c)
  /\ UNCHANGED <<seat, available, lapsed, callbacks>>

\* The gateway refused: payment and booking are FAILED, the booking stays PENDING and the
\* seats LOCKED.
FailCommit(c) ==
  LET b == tx[c].b IN
  /\ At(c, "fail")
  /\ booking' = [booking EXCEPT ![b].payment_status =
                   Column(tx[c].row.payment_status, "FAILED", @)]
  /\ payment' = [payment EXCEPT ![b] = Column(tx[c].row.payment, "FAILED", @)]
  /\ Finish(c)
  /\ UNCHANGED <<seat, available, lapsed, callbacks>>

Pay(c) ==
  \/ PayCheck(c) \/ PayReject(c) \/ PayUnavailable(c) \/ PayCommit(c)
  \/ VerifyOk(c) \/ VerifyFailed(c) \/ VerifyError(c)
  \/ BookSeat(c) \/ ConfirmCommit(c) \/ FailCommit(c)
=============================================================================
