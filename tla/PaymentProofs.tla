--------------------------- MODULE PaymentProofs ---------------------------
(***************************************************************************)
(* Theorems about the money side of Platform.  confirm_payment writes a    *)
(* column only where the new value differs from the one its session first  *)
(* loaded, so what must be shown is that this value is still the row's.    *)
(*                                                                         *)
(* With a gateway that confirms in the request itself (~Redirects) this    *)
(* holds under any overlap: between the two commits of initiate_payment    *)
(* the request is the only one that settles its booking (PaysOnce),        *)
(* because the unique booking_id lets one payment row in and every other   *)
(* path asks for its absence.  With any gateway it holds as long as        *)
(* clients have one request at a time on a booking (LoadedIsCurrent).      *)
(***************************************************************************)
EXTENDS PlatformProofs

\* Between the commit of the PROCESSING payment and that of its outcome.
Settling == {"verify", "book_seats", "fail"}

PaysOnce(c) ==
  LET t == tx[c] IN
  /\ t.pc \in {"pay_check", "pay_commit"} /\ payment[t.b] = "ABSENT" =>
       t.row.payment_status = "PENDING"
  /\ t.pc \in Settling =>
       /\ payment[t.b] = "PROCESSING"
       /\ t.row.payment_status = "PROCESSING" /\ t.row.payment = "PROCESSING"
       /\ \A d \in Sessions \ {c} : tx[d].pc \in Settling => tx[d].b # t.b

PayInv == PaymentAgrees /\ ConfirmedIsPaid /\ \A c \in Sessions : PaysOnce(c)

-----------------------------------------------------------------------------
(* Steps that write no payment *)

\* A step of c that writes no payment, and of bookings only a status other than CONFIRMED.
LEMMA NothingPaid ==
  ASSUME Typed, PayInv, NEW c \in Sessions,
         \A d \in Sessions \ {c} : tx'[d] = tx[d], payment' = payment,
         \A b \in Bookings :
           \/ booking'[b] = booking[b]
           \/ /\ booking[b].status # "ABSENT" /\ booking'[b].status # "CONFIRMED"
              /\ booking'[b].payment_status = booking[b].payment_status
           \/ /\ booking[b] = NoBooking
              /\ booking'[b].status = "PENDING" /\ booking'[b].payment_status = "PENDING",
         PaysOnce(c)'
  PROVE  PayInv'
<1>1. PaymentAgrees'
  <2> SUFFICES ASSUME NEW b \in Bookings, booking'[b].status # "ABSENT"
               PROVE  booking'[b].payment_status =
                        IF payment[b] = "ABSENT" THEN "PENDING" ELSE payment[b]
    BY DEF PaymentAgrees
  <2>1. booking[b] = NoBooking => payment[b] = "ABSENT"
    BY DEF Typed, PaymentsBelong
  <2> QED BY <2>1 DEF PayInv, PaymentAgrees
<1>2. ConfirmedIsPaid'
  BY DEF PayInv, ConfirmedIsPaid
<1>3. ASSUME NEW d \in Sessions \ {c} PROVE PaysOnce(d)'
  BY DEF PayInv, PaysOnce
<1> QED BY <1>1, <1>2, <1>3 DEF PayInv

\* A request that has ended settles nothing.
LEMMA IdlePaysNothing ==
  ASSUME Typed, NEW c \in Sessions, Finish(c)
  PROVE  PaysOnce(c)' /\ \A d \in Sessions \ {c} : tx'[d] = tx[d]
<1>1. tx'[c].pc = "idle"
  BY OwnFinish
<1> QED BY <1>1, OwnFinish DEF PaysOnce, Settling

LEMMA BookingPaysNothing ==
  ASSUME Typed, PayInv, NEW c \in Sessions,
         \/ CreateBegin(c) \/ CancelBegin(c) \/ SweepBegin(c)
         \/ Create(c) \/ Cancel(c) \/ Sweep(c) \/ Abort(c) \/ DeadlockVictim(c)
  PROVE  PayInv'
<1> USE DEF At
<1>0. /\ tx \in [Sessions -> Transaction] /\ tx[c] \in Transaction /\ InHand(c)
      /\ booking \in [Bookings -> BookingRow]
      /\ \A b \in Bookings : booking[b] # NoBooking => booking[b].status # "ABSENT"
  BY RowPresent DEF Typed, TypeOK, RequestsInHand
<1>1. CASE CreateBegin(c) \/ CancelBegin(c) \/ SweepBegin(c)
  <2>1. /\ booking' = booking /\ payment' = payment
        /\ \A d \in Sessions \ {c} : tx'[d] = tx[d]
        /\ tx'[c].pc \in {"lock_seats", "cancel_seats", "sweep_next"}
    <3>1. CASE CreateBegin(c)
      BY <1>0, <3>1 DEF CreateBegin, Request, store
    <3>2. CASE CancelBegin(c)
      BY <1>0, <3>2 DEF CancelBegin, Request, store
    <3>3. CASE SweepBegin(c)
      BY <1>0, <3>3 DEF SweepBegin, Idle, store
    <3> QED BY <1>1, <3>1, <3>2, <3>3
  <2>2. PaysOnce(c)'
    BY <2>1 DEF PaysOnce, Settling
  <2> QED BY <2>1, <2>2, NothingPaid
<1>2. CASE LockSeat(c) \/ SeatTaken(c) \/ ReleaseSeat(c) \/ SweepSeat(c)
  <2>1. /\ booking' = booking /\ payment' = payment
        /\ \A d \in Sessions \ {c} : tx'[d] = tx[d]
        /\ tx'[c].pc \in {"lock_seats", "cancel_seats", "sweep_seats"}
    BY <1>0, <1>2 DEF LockSeat, SeatTaken, ReleaseSeat, SweepSeat, UpdateSeatRow, Transaction, store
  <2>2. PaysOnce(c)'
    BY <2>1 DEF PaysOnce, Settling
  <2> QED BY <2>1, <2>2, NothingPaid
<1>3. CASE CancelReadSchedule(c) \/ SweepReadSchedule(c) \/ SweepNext(c)
  <2>1. /\ booking' = booking /\ payment' = payment
        /\ \A d \in Sessions \ {c} : tx'[d] = tx[d]
        /\ tx'[c].pc \in {"cancel_commit", "sweep_next", "sweep_seats"}
    <3>1. CASE CancelReadSchedule(c)
      BY <1>0, <3>1 DEF CancelReadSchedule, Transaction, store
    <3>2. CASE SweepReadSchedule(c)
      BY <1>0, <3>2 DEF SweepReadSchedule, Transaction, store
    <3>3. CASE SweepNext(c)
      BY <1>0, <3>3 DEF SweepNext, Transaction, store
    <3> QED BY <1>3, <3>1, <3>2, <3>3
  <2>2. PaysOnce(c)'
    BY <2>1 DEF PaysOnce, Settling
  <2> QED BY <2>1, <2>2, NothingPaid
<1>4. CASE CreateConflict(c) \/ Abort(c) \/ DeadlockVictim(c)
  <2>1. booking' = booking /\ payment' = payment /\ Finish(c)
    BY <1>4 DEF CreateConflict, Abort, DeadlockVictim, store
  <2> QED BY <2>1, IdlePaysNothing, NothingPaid
<1>5. CASE CreateCommit(c)
  <2>1. /\ payment' = payment /\ Finish(c)
        /\ \E k \in tx[c].schedules : booking' = [booking EXCEPT ![tx[c].b] =
             [status |-> "PENDING", payment_status |-> "PENDING", schedule_id |-> k,
              seats |-> tx[c].seats]]
    BY <1>5 DEF CreateCommit
  <2>2. tx[c].b \in Bookings /\ booking[tx[c].b] = NoBooking
    BY <1>0, <1>5 DEF CreateCommit, InHand
  <2>3. /\ booking'[tx[c].b].status = "PENDING" /\ booking'[tx[c].b].payment_status = "PENDING"
        /\ \A b \in Bookings \ {tx[c].b} : booking'[b] = booking[b]
    BY <1>0, <2>1, <2>2
  <2> QED BY <2>1, <2>2, <2>3, IdlePaysNothing, NothingPaid
<1>6. CASE CancelCommit(c)
  <2>1. /\ payment' = payment /\ Finish(c)
        /\ booking' = [booking EXCEPT ![tx[c].b].status = "CANCELLED"]
    BY <1>6 DEF CancelCommit
  <2>2. tx[c].b \in Bookings /\ booking[tx[c].b].status # "ABSENT"
    BY <1>0, <1>6 DEF CancelCommit, InHand, OnBooking
  <2>3. /\ booking'[tx[c].b].status = "CANCELLED"
        /\ booking'[tx[c].b].payment_status = booking[tx[c].b].payment_status
        /\ \A b \in Bookings \ {tx[c].b} : booking'[b] = booking[b]
    BY <1>0, <2>1, <2>2 DEF BookingRow, NoBooking
  <2> QED BY <2>1, <2>2, <2>3, IdlePaysNothing, NothingPaid
<1>7. CASE SweepCommit(c)
  <2>1. /\ payment' = payment /\ Finish(c)
        /\ booking' = [b \in Bookings |-> IF b \in tx[c].bookings
                         THEN [booking[b] EXCEPT !.status = "EXPIRED"] ELSE booking[b]]
    BY <1>7 DEF SweepCommit
  <2>2. \A b \in tx[c].bookings : booking[b].status # "ABSENT"
    BY <1>0, <1>7 DEF SweepCommit, InHand, Sweeping, Transaction
  <2>3. /\ \A b \in Bookings \cap tx[c].bookings :
             /\ booking'[b].status = "EXPIRED"
             /\ booking'[b].payment_status = booking[b].payment_status
        /\ \A b \in Bookings \ tx[c].bookings : booking'[b] = booking[b]
    BY <1>0, <2>1 DEF BookingRow, NoBooking
  <2> QED BY <2>1, <2>2, <2>3, IdlePaysNothing, NothingPaid
<1> QED BY <1>1, <1>2, <1>3, <1>4, <1>5, <1>6, <1>7 DEF Create, Cancel, Sweep

-----------------------------------------------------------------------------
(* initiate_payment and confirm_payment *)

LEMMA PayGoesOn ==
  ASSUME ~Redirects, Typed, PayInv, NEW c \in Sessions,
         \/ PayBegin(c) \/ PayCheck(c) \/ PayReject(c) \/ PayUnavailable(c)
         \/ VerifyOk(c) \/ VerifyFailed(c) \/ VerifyError(c) \/ BookSeat(c)
  PROVE  PayInv'
<1> USE DEF At
<1>0. /\ tx \in [Sessions -> Transaction] /\ tx[c] \in Transaction /\ InHand(c) /\ PaysOnce(c)
  BY DEF Typed, TypeOK, RequestsInHand, PayInv
<1>1. booking' = booking /\ payment' = payment
  BY DEF PayBegin, PayCheck, PayReject, PayUnavailable, VerifyOk, VerifyFailed, VerifyError,
     BookSeat, UpdateSeatRow, store
<1>2. CASE PayBegin(c)
  <2>1. PICK b \in Bookings :
          /\ booking[b].status = "PENDING"
          /\ tx' = [tx EXCEPT ![c] = Request("pay_check", b, booking[b].schedule_id,
                booking[b].seats, NoCounter,
                [status |-> booking[b].status, payment_status |-> booking[b].payment_status,
                 payment |-> "ABSENT"])]
    BY <1>2 DEF PayBegin
  <2>2. /\ tx'[c].pc = "pay_check" /\ tx'[c].b = b
        /\ tx'[c].row.payment_status = booking[b].payment_status
        /\ \A d \in Sessions \ {c} : tx'[d] = tx[d]
    BY <1>0, <2>1 DEF Request
  <2>3. payment[b] = "ABSENT" => booking[b].payment_status = "PENDING"
    BY <2>1 DEF PayInv, PaymentAgrees
  <2>4. PaysOnce(c)'
    BY <1>1, <2>2, <2>3 DEF PaysOnce, Settling
  <2> QED BY <1>1, <2>2, <2>4, NothingPaid
<1>3. CASE PayCheck(c)
  <2>1. /\ tx[c].pc = "pay_check" /\ tx'[c].pc = "pay_commit"
        /\ tx'[c].b = tx[c].b /\ tx'[c].row = tx[c].row
        /\ \A d \in Sessions \ {c} : tx'[d] = tx[d]
    BY <1>0, <1>3 DEF PayCheck, Transaction
  <2>2. PaysOnce(c)'
    BY <1>0, <1>1, <2>1 DEF PaysOnce, Settling
  <2> QED BY <1>1, <2>1, <2>2, NothingPaid
<1>4. CASE PayReject(c) \/ PayUnavailable(c) \/ VerifyError(c)
  BY <1>1, <1>4, IdlePaysNothing, NothingPaid DEF PayReject, PayUnavailable, VerifyError
<1>5. CASE VerifyOk(c) \/ VerifyFailed(c)
  <2>1. tx[c].pc = "verify" /\ tx[c].row.status = "PENDING"
    BY <1>0, <1>5 DEF VerifyOk, VerifyFailed, InHand, Paying
  <2>2. LoadBooking(c) = tx[c].row
    BY <2>1 DEF LoadBooking
  <2>3. /\ tx'[c].pc \in Settling /\ tx'[c].b = tx[c].b /\ tx'[c].row = tx[c].row
        /\ \A d \in Sessions \ {c} : tx'[d] = tx[d]
    <3>1. CASE VerifyOk(c)
      BY <1>0, <2>2, <3>1 DEF VerifyOk, Transaction, Settling
    <3>2. CASE VerifyFailed(c)
      BY <1>0, <2>2, <3>2 DEF VerifyFailed, Transaction, Settling
    <3> QED BY <1>5, <3>1, <3>2
  <2>4. PaysOnce(c)'
    BY <1>0, <1>1, <2>1, <2>3 DEF PaysOnce, Settling
  <2> QED BY <1>1, <2>3, <2>4, NothingPaid
<1>6. CASE BookSeat(c)
  <2>1. /\ tx[c].pc = "book_seats" /\ tx'[c].pc = "book_seats"
        /\ tx'[c].b = tx[c].b /\ tx'[c].row = tx[c].row
        /\ \A d \in Sessions \ {c} : tx'[d] = tx[d]
    BY <1>0, <1>6 DEF BookSeat, UpdateSeatRow, Transaction
  <2>2. PaysOnce(c)'
    BY <1>0, <1>1, <2>1 DEF PaysOnce, Settling
  <2> QED BY <1>1, <2>1, <2>2, NothingPaid
<1> QED BY <1>2, <1>3, <1>4, <1>5, <1>6

\* A step of c that writes the payment and the booking it has in hand, both to v.
LEMMA Settled ==
  ASSUME Typed, PayInv, NEW c \in Sessions, NEW b \in Bookings, NEW v \in PaymentStatus,
         \A d \in Sessions \ {c} : tx'[d] = tx[d],
         payment' = [payment EXCEPT ![b] = v],
         booking'[b].payment_status = v,
         booking'[b].status = "CONFIRMED" => v = "COMPLETED",
         \A a \in Bookings \ {b} : booking'[a] = booking[a],
         \A d \in Sessions \ {c} : tx[d].pc \in Settling => tx[d].b # b,
         PaysOnce(c)'
  PROVE  PayInv'
<1>1. payment'[b] = v /\ v # "ABSENT" /\ \A a \in Bookings \ {b} : payment'[a] = payment[a]
  BY DEF Typed, TypeOK, PaymentStatus
<1>2. PaymentAgrees'
  BY <1>1 DEF PayInv, PaymentAgrees
<1>3. ConfirmedIsPaid'
  BY <1>1 DEF PayInv, ConfirmedIsPaid
<1>4. ASSUME NEW d \in Sessions \ {c} PROVE PaysOnce(d)'
  <2>1. PaysOnce(d) /\ tx'[d] = tx[d]
    BY DEF PayInv
  <2>2. tx[d].pc \in {"pay_check", "pay_commit"} \cup Settling => tx[d].b \in Bookings
    BY DEF Typed, RequestsInHand, InHand, OnBooking, Settling
  <2>3. tx[d].pc \in Settling => tx[d].b # b
    OBVIOUS
  <2>4. ASSUME NEW e \in Sessions \ {d}, tx'[d].pc \in Settling, tx'[e].pc \in Settling
        PROVE  tx'[e].b # tx'[d].b
    BY <2>1, <2>4 DEF PaysOnce
  <2> QED BY <1>1, <2>1, <2>2, <2>3, <2>4 DEF PaysOnce
<1> QED BY <1>2, <1>3, <1>4 DEF PayInv

LEMMA PayCommits ==
  ASSUME ~Redirects, Typed, PayInv, NEW c \in Sessions,
         PayCommit(c) \/ ConfirmCommit(c) \/ FailCommit(c)
  PROVE  PayInv'
<1> USE DEF At
<1> DEFINE b == tx[c].b
<1>0. /\ tx \in [Sessions -> Transaction] /\ tx[c] \in Transaction /\ InHand(c) /\ PaysOnce(c)
      /\ booking \in [Bookings -> BookingRow]
  BY DEF Typed, TypeOK, RequestsInHand, PayInv
<1>1. b \in Bookings /\ tx[c].row.status = "PENDING"
  BY <1>0 DEF PayCommit, ConfirmCommit, FailCommit, InHand, OnBooking, Paying
<1>2. CASE PayCommit(c)
  <2>1. /\ tx[c].pc = "pay_commit" /\ payment[b] = "ABSENT"
        /\ payment' = [payment EXCEPT ![b] = "PROCESSING"]
        /\ booking' = [booking EXCEPT ![b].payment_status =
                         Column(tx[c].row.payment_status, "PROCESSING", @)]
        /\ tx' = [tx EXCEPT ![c].pc = "verify",
                    ![c].row.payment_status = "PROCESSING", ![c].row.payment = "PROCESSING"]
    BY <1>2 DEF PayCommit
  <2>2. tx[c].row.payment_status = "PENDING"
    BY <1>0, <2>1 DEF PaysOnce
  <2>3. /\ booking'[b].payment_status = "PROCESSING" /\ booking'[b].status = booking[b].status
        /\ \A a \in Bookings \ {b} : booking'[a] = booking[a]
    BY <1>0, <1>1, <2>1, <2>2 DEF Column, BookingRow, NoBooking
  <2>4. booking[b].status # "CONFIRMED"
    BY <1>1, <2>1 DEF PayInv, ConfirmedIsPaid
  <2>5. \A d \in Sessions \ {c} : tx[d].pc \in Settling => tx[d].b # b
    BY <2>1 DEF PayInv, PaysOnce
  <2>6. /\ tx'[c].pc = "verify" /\ tx'[c].b = b
        /\ tx'[c].row.payment_status = "PROCESSING" /\ tx'[c].row.payment = "PROCESSING"
        /\ \A d \in Sessions \ {c} : tx'[d] = tx[d]
    BY <1>0, <2>1 DEF Transaction
  <2>7. payment'[b] = "PROCESSING"
    BY <1>1, <2>1 DEF Typed, TypeOK
  <2>8. PaysOnce(c)'
    BY <2>5, <2>6, <2>7 DEF PaysOnce, Settling
  <2> QED BY <1>1, <2>1, <2>3, <2>4, <2>5, <2>6, <2>8, Settled DEF PaymentStatus
<1>3. CASE ConfirmCommit(c)
  <2>1. /\ tx[c].pc = "book_seats" /\ Finish(c)
        /\ booking' = [booking EXCEPT
             ![b].status = Column(tx[c].row.status, "CONFIRMED", @),
             ![b].payment_status = Column(tx[c].row.payment_status, "COMPLETED", @)]
        /\ payment' = [payment EXCEPT ![b] = Column(tx[c].row.payment, "COMPLETED", @)]
    BY <1>3 DEF ConfirmCommit
  <2>2. /\ tx[c].row.payment_status = "PROCESSING" /\ tx[c].row.payment = "PROCESSING"
        /\ \A d \in Sessions \ {c} : tx[d].pc \in Settling => tx[d].b # b
    BY <1>0, <2>1 DEF PaysOnce, Settling
  <2>3. /\ booking'[b].payment_status = "COMPLETED"
        /\ \A a \in Bookings \ {b} : booking'[a] = booking[a]
    BY <1>0, <1>1, <2>1, <2>2 DEF Column, BookingRow, NoBooking
  <2>4. payment' = [payment EXCEPT ![b] = "COMPLETED"]
    BY <2>1, <2>2 DEF Column
  <2> QED BY <1>1, <2>1, <2>2, <2>3, <2>4, IdlePaysNothing, Settled DEF PaymentStatus
<1>4. CASE FailCommit(c)
  <2>1. /\ tx[c].pc = "fail" /\ Finish(c)
        /\ booking' = [booking EXCEPT ![b].payment_status =
                         Column(tx[c].row.payment_status, "FAILED", @)]
        /\ payment' = [payment EXCEPT ![b] = Column(tx[c].row.payment, "FAILED", @)]
    BY <1>4 DEF FailCommit
  <2>2. /\ tx[c].row.payment_status = "PROCESSING" /\ tx[c].row.payment = "PROCESSING"
        /\ payment[b] = "PROCESSING"
        /\ \A d \in Sessions \ {c} : tx[d].pc \in Settling => tx[d].b # b
    BY <1>0, <2>1 DEF PaysOnce, Settling
  <2>3. /\ booking'[b].payment_status = "FAILED" /\ booking'[b].status = booking[b].status
        /\ \A a \in Bookings \ {b} : booking'[a] = booking[a]
    BY <1>0, <1>1, <2>1, <2>2 DEF Column, BookingRow, NoBooking
  <2>4. booking[b].status # "CONFIRMED"
    BY <1>1, <2>2 DEF PayInv, ConfirmedIsPaid
  <2>5. payment' = [payment EXCEPT ![b] = "FAILED"]
    BY <2>1, <2>2 DEF Column
  <2> QED BY <1>1, <2>1, <2>2, <2>3, <2>4, <2>5, IdlePaysNothing, Settled DEF PaymentStatus
<1> QED BY <1>2, <1>3, <1>4

LEMMA PayInvNext ==
  ASSUME ~Redirects, Typed, PayInv, [Next]_vars
  PROVE  PayInv'
<1>1. ASSUME NEW c \in Sessions, Begin(c) PROVE PayInv'
  BY <1>1, BookingPaysNothing, PayGoesOn DEF Begin, CallbackBegin
<1>2. ASSUME NEW c \in Sessions, Serve(c) PROVE PayInv'
  BY <1>2, BookingPaysNothing, PayGoesOn, PayCommits DEF Serve, Pay
<1>3. ASSUME NEW c \in Sessions, Abort(c) \/ DeadlockVictim(c) PROVE PayInv'
  BY <1>3, BookingPaysNothing
<1>4. ASSUME NEW b \in Bookings, Lapse(b) PROVE PayInv'
  BY <1>4 DEF Lapse, store, PayInv, PaymentAgrees, ConfirmedIsPaid, PaysOnce
<1>5. CASE UNCHANGED vars
  BY <1>5 DEF vars, PayInv, PaymentAgrees, ConfirmedIsPaid, PaysOnce
<1> QED BY <1>1, <1>2, <1>3, <1>4, <1>5 DEF Next

LEMMA PayInvInit == Init => PayInv
<1> SUFFICES ASSUME Init PROVE PayInv
  OBVIOUS
<1>1. \A c \in Sessions : tx[c].pc = "idle"
  BY DEF Init, Idle
<1>2. \A b \in Bookings : booking[b].status = "ABSENT"
  BY DEF Init, NoBooking
<1> QED BY <1>1, <1>2 DEF PayInv, PaymentAgrees, ConfirmedIsPaid, PaysOnce, Settling

LEMMA PayAlways ==
  ASSUME ~Redirects
  PROVE  Spec => [](Typed /\ PayInv)
<1>1. Init => Typed /\ PayInv
  BY TypedInit, PayInvInit
<1>2. Typed /\ PayInv /\ [Next]_vars => Typed' /\ PayInv'
  BY TypedNext, PayInvNext
<1> QED BY <1>1, <1>2, PTL DEF Spec

\* Whatever requests overlap, die or lose a deadlock, and whatever the gateway answers, the
\* booking's copy of the payment status is the payment's own.
THEOREM PaymentsAgree ==
  ASSUME ~Redirects
  PROVE  Spec => []PaymentAgrees
<1>1. PayInv => PaymentAgrees
  BY DEF PayInv
<1> QED BY <1>1, PayAlways, PTL

\* No interleaving confirms a booking that has not been paid.
THEOREM ConfirmedPaid ==
  ASSUME ~Redirects
  PROVE  Spec => []ConfirmedIsPaid
<1>1. PayInv => ConfirmedIsPaid
  BY DEF PayInv
<1> QED BY <1>1, PayAlways, PTL

LEMMA PaymentKept ==
  ASSUME [Next]_vars, \A c \in Sessions : ~PayCommit(c) /\ ~ConfirmCommit(c) /\ ~FailCommit(c)
  PROVE  payment' = payment
<1>1. ASSUME NEW c \in Sessions, Begin(c) PROVE payment' = payment
  BY <1>1 DEF Begin, CreateBegin, CancelBegin, SweepBegin, PayBegin, CallbackBegin, store
<1>2. ASSUME NEW c \in Sessions, Create(c) \/ Cancel(c) \/ Sweep(c) PROVE payment' = payment
  BY <1>2 DEF Create, LockSeat, SeatTaken, CreateConflict, CreateCommit, Cancel, ReleaseSeat,
     UpdateSeatRow, CancelReadSchedule, CancelCommit, Sweep, SweepNext, SweepSeat,
     SweepReadSchedule, SweepCommit, store
<1>3. ASSUME NEW c \in Sessions, Pay(c) PROVE payment' = payment
  BY <1>3 DEF Pay, PayCheck, PayReject, PayUnavailable, VerifyOk, VerifyFailed,
     VerifyError, BookSeat, UpdateSeatRow, store
<1>4. ASSUME NEW c \in Sessions, Abort(c) \/ DeadlockVictim(c) PROVE payment' = payment
  BY <1>4 DEF Abort, DeadlockVictim, store
<1>5. ASSUME NEW b \in Bookings, Lapse(b) PROVE payment' = payment
  BY <1>5 DEF Lapse, store
<1> QED BY <1>1, <1>2, <1>3, <1>4, <1>5 DEF Next, Serve, vars

LEMMA SettledStays ==
  ASSUME ~Redirects, Typed, PayInv, [Next]_vars,
         NEW b \in Bookings, payment[b] \in {"COMPLETED", "FAILED"}
  PROVE  payment'[b] = payment[b]
<1>0. \A c \in Sessions : PaysOnce(c)
  BY DEF PayInv
<1>1. ASSUME NEW c \in Sessions, PayCommit(c) PROVE payment'[b] = payment[b]
  BY <1>1 DEF PayCommit, Typed, TypeOK
<1>2. ASSUME NEW c \in Sessions, ConfirmCommit(c) \/ FailCommit(c) PROVE payment'[b] = payment[b]
  <2>1. tx[c].b # b
    BY <1>0, <1>2 DEF ConfirmCommit, FailCommit, PaysOnce, Settling, At
  <2> QED BY <1>2, <2>1 DEF ConfirmCommit, FailCommit, Typed, TypeOK
<1> QED BY <1>1, <1>2, PaymentKept

\* However many initiate_payment calls for one booking overlap, a payment that is COMPLETED or
\* FAILED stays so: the unique booking_id leaves one request to settle it.
THEOREM SettledOnce ==
  ASSUME ~Redirects
  PROVE  Spec => PaymentSettledOnce
<1>1. Typed /\ PayInv /\ [Next]_vars =>
        [\A b \in Bookings : payment[b] \in {"COMPLETED", "FAILED"} => payment'[b] = payment[b]]_vars
  BY SettledStays
<1> QED BY <1>1, PayAlways, PTL DEF Spec, PaymentSettledOnce

-----------------------------------------------------------------------------
(* Only a stale check harms.  The sweep, the cancellation and the          *)
(* confirmation write without looking again, so a step of theirs keeps     *)
(* the customers' promises if what they have read is still so; nothing is  *)
(* assumed of what overlaps with them.                                     *)

LEMMA PaidNext ==
  ASSUME ~Redirects, Typed, PaidKeepsBooking, [Next]_vars,
         \A c \in Sessions : tx'[c] # tx[c] => Checked(c)
  PROVE  PaidKeepsBooking'
<1> USE DEF At
<1>0. /\ booking \in [Bookings -> BookingRow] /\ payment \in [Bookings -> PaymentStatus \cup {"ABSENT"}]
      /\ \A c \in Sessions : InHand(c) /\ tx[c] \in Transaction
      /\ \A b \in Bookings : booking[b] = NoBooking => payment[b] = "ABSENT"
  BY DEF Typed, TypeOK, RequestsInHand, PaymentsBelong
<1>1. ASSUME NEW c \in Sessions, CreateCommit(c) PROVE PaidKeepsBooking'
  <2>1. /\ payment' = payment /\ tx[c].pc = "lock_seats"
        /\ \A b \in Bookings \ {tx[c].b} : booking'[b] = booking[b]
    BY <1>0, <1>1 DEF CreateCommit
  <2>2. tx[c].b \in Bookings => payment[tx[c].b] = "ABSENT"
    BY <1>0, <2>1 DEF InHand
  <2> QED BY <2>1, <2>2 DEF PaidKeepsBooking
<1>2. ASSUME NEW c \in Sessions, CancelCommit(c) PROVE PaidKeepsBooking'
  <2>1. /\ payment' = payment /\ booking' = [booking EXCEPT ![tx[c].b].status = "CANCELLED"]
    BY <1>2 DEF CancelCommit
  <2>2. \A b \in Bookings : booking'[b].status \in {booking[b].status, "CANCELLED"}
    BY <1>0, <2>1 DEF BookingRow, NoBooking
  <2> QED BY <2>1, <2>2 DEF PaidKeepsBooking
<1>3. ASSUME NEW c \in Sessions, SweepCommit(c) PROVE PaidKeepsBooking'
  <2>0. Checked(c)
    BY <1>0, <1>3 DEF SweepCommit, Finish, Idle, Typed, TypeOK
  <2>1. /\ payment' = payment /\ tx[c].pc = "sweep_next"
        /\ \A b \in Bookings \ tx[c].bookings : booking'[b] = booking[b]
    BY <1>0, <1>3 DEF SweepCommit
  <2>2. \A b \in tx[c].bookings : booking[b].status = "PENDING"
    BY <2>0, <2>1 DEF Checked, Sweeping
  <2> QED BY <2>1, <2>2 DEF PaidKeepsBooking
<1>4. ASSUME NEW c \in Sessions, ConfirmCommit(c) PROVE PaidKeepsBooking'
  <2> DEFINE b == tx[c].b
  <2>1. /\ tx[c].pc = "book_seats"
        /\ booking' = [booking EXCEPT
             ![b].status = Column(tx[c].row.status, "CONFIRMED", @),
             ![b].payment_status = Column(tx[c].row.payment_status, "COMPLETED", @)]
        /\ payment' = [payment EXCEPT ![b] = Column(tx[c].row.payment, "COMPLETED", @)]
    BY <1>4 DEF ConfirmCommit
  <2>2. b \in Bookings /\ tx[c].row.status = "PENDING"
    BY <1>0, <2>1 DEF InHand, OnBooking, Paying
  <2>3. /\ booking'[b].status = "CONFIRMED"
        /\ \A a \in Bookings \ {b} : booking'[a] = booking[a] /\ payment'[a] = payment[a]
    BY <1>0, <2>1, <2>2 DEF Column, BookingRow, NoBooking
  <2> QED BY <2>3 DEF PaidKeepsBooking
<1>5. ASSUME NEW c \in Sessions, PayCommit(c) PROVE PaidKeepsBooking'
  <2>1. \A b \in Bookings : booking'[b].status = booking[b].status
    BY <1>0, <1>5 DEF PayCommit, BookingRow, NoBooking
  <2>2. \A b \in Bookings : payment'[b] \in {payment[b], "PROCESSING"}
    BY <1>0, <1>5 DEF PayCommit
  <2> QED BY <2>1, <2>2 DEF PaidKeepsBooking
<1>6. ASSUME NEW c \in Sessions, FailCommit(c) PROVE PaidKeepsBooking'
  <2>1. \A b \in Bookings : booking'[b].status = booking[b].status
    BY <1>0, <1>6 DEF FailCommit, BookingRow, NoBooking
  <2>2. \A b \in Bookings : payment'[b] \in {payment[b], "FAILED"}
    BY <1>0, <1>6 DEF FailCommit, Column
  <2> QED BY <2>1, <2>2 DEF PaidKeepsBooking
<1>7. CASE \A c \in Sessions : /\ ~CreateCommit(c) /\ ~CancelCommit(c) /\ ~SweepCommit(c)
                               /\ ~ConfirmCommit(c) /\ ~PayCommit(c) /\ ~FailCommit(c)
  <2>1. Quiet
    BY <1>7, QuietSteps
  <2>2. payment' = payment
    BY <1>7, PaymentKept
  <2> QED BY <2>1, <2>2 DEF Quiet, PaidKeepsBooking
<1> QED BY <1>1, <1>2, <1>3, <1>4, <1>5, <1>6, <1>7

\* However requests and sweeps overlap, a step of a request whose check still holds sells no seat
\* twice, takes none from a live booking and undoes nothing that was paid.
THEOREM StaleChecksAlone ==
  ASSUME ~Redirects
  PROVE  Spec => OnlyStaleChecksHarm
<1>1. ASSUME Typed, RowLocks, [Next]_vars, Intact,
             \A c \in Sessions : tx'[c] # tx[c] => Checked(c)
      PROVE  Intact'
  <2>1. HoldsItsSeats /\ PaidKeepsBooking
    BY <1>1 DEF Intact
  <2>2. HoldsItsSeats' /\ PaidKeepsBooking'
    BY <1>1, <2>1, HoldsNext, PaidNext
  <2>3. NoDoubleBooking'
    BY <2>2 DEF HoldsItsSeats, NoDoubleBooking, Live
  <2> QED BY <2>2, <2>3 DEF Intact
<1>2. Typed /\ RowLocks /\ [Next]_vars =>
        [Intact /\ (\A c \in Sessions : tx'[c] # tx[c] => Checked(c)) => Intact']_vars
  BY <1>1
<1>3. Spec => []RowLocks
  BY RowLocksHold
<1>4. Spec => []Typed
  BY TypedInit, TypedNext, PTL DEF Spec
<1> QED BY <1>2, <1>3, <1>4, PTL DEF Spec, OnlyStaleChecksHarm
-----------------------------------------------------------------------------
(* Any gateway, for clients that have one request at a time on a booking.  *)
(* A callback may come when its booking has long been cancelled or swept,  *)
(* and a second one with another answer, so neither PayInv nor what a      *)
(* request checked survives.  What does is that nobody else writes the     *)
(* rows a session has loaded while it has them (LoadedIsCurrent): then no  *)
(* column that must change is ever left out.                               *)

\* No two requests work on the same booking.
Apart == \A c \in Sessions : \A d \in Sessions \ {c} : tx[c].bookings \cap tx[d].bookings = {}

\* A step of c that takes up no booking of another request leaves what the others loaded.
LEMMA LoadedStep ==
  ASSUME Typed, Apart, LoadedIsCurrent, NEW c \in Sessions, WritesItsOwn(c), Loaded(c)',
         \A d \in Sessions \ {c} : tx'[c].bookings \cap tx[d].bookings = {}
  PROVE  Apart' /\ LoadedIsCurrent'
<1>1. ASSUME NEW d \in Sessions, NEW e \in Sessions \ {d}
      PROVE  tx'[d].bookings \cap tx'[e].bookings = {}
  <2>1. CASE d = c
    BY <2>1 DEF WritesItsOwn
  <2>2. CASE e = c
    BY <2>2 DEF WritesItsOwn
  <2>3. CASE d # c /\ e # c
    BY <2>3 DEF WritesItsOwn, Apart
  <2> QED BY <2>1, <2>2, <2>3
<1>2. ASSUME NEW d \in Sessions \ {c} PROVE Loaded(d)'
  <2>1. tx'[d] = tx[d] /\ InHand(d) /\ Loaded(d) /\ tx[c].bookings \cap tx[d].bookings = {}
    BY DEF WritesItsOwn, Typed, RequestsInHand, LoadedIsCurrent, Apart
  <2>2. ASSUME tx[d].pc \in Paying
        PROVE  /\ booking'[tx[d].b] = booking[tx[d].b]
               /\ payment'[tx[d].b] = payment[tx[d].b]
    BY <2>1, <2>2 DEF InHand, OnBooking, Paying, WritesItsOwn
  <2> QED BY <2>1, <2>2 DEF Loaded, Paying
<1> QED BY <1>1, <1>2 DEF Apart, LoadedIsCurrent

\* A request that begins under the discipline.
LEMMA LoadedBegin ==
  ASSUME Overlap # "any", Sweeps # "any", Typed, Apart, LoadedIsCurrent, NEW c \in Sessions, Begin(c)
  PROVE  Apart' /\ LoadedIsCurrent'
<1>0. WritesItsOwn(c) /\ tx \in [Sessions -> Transaction]
  BY WritesFew DEF Typed, TypeOK
<1>1. CASE CreateBegin(c) \/ CancelBegin(c) \/ SweepBegin(c)
  <2>1. CASE CreateBegin(c)
    <3>1. PICK b \in Bookings, S \in SUBSET Seats, k \in Bookable :
            /\ MayStart(c, {b}, {k})
            /\ tx' = [tx EXCEPT ![c] = Request("lock_seats", b, k, S,
                       [NoCounter EXCEPT ![k] = available[k]], NotLoaded)]
      BY <2>1 DEF CreateBegin
    <3>2. tx'[c].pc = "lock_seats" /\ tx'[c].bookings = {b}
      BY <1>0, <3>1 DEF Request
    <3> QED BY <1>0, <3>1, <3>2, LoadedStep DEF MayStart, Loaded, Paying
  <2>2. CASE CancelBegin(c)
    <3>1. PICK b \in Bookings :
            /\ MayStart(c, {b}, {booking[b].schedule_id})
            /\ tx' = [tx EXCEPT ![c] = Request("cancel_seats", b, booking[b].schedule_id,
                       booking[b].seats, NoCounter, NotLoaded)]
      BY <2>2 DEF CancelBegin
    <3>2. tx'[c].pc = "cancel_seats" /\ tx'[c].bookings = {b}
      BY <1>0, <3>1 DEF Request
    <3> QED BY <1>0, <3>1, <3>2, LoadedStep DEF MayStart, Loaded, Paying
  <2>3. CASE SweepBegin(c)
    <3>1. PICK ks : MayStart(c, tx'[c].bookings, ks) /\ tx'[c].pc = "sweep_next"
      BY <1>0, <2>3, SweepsAssumption DEF SweepBegin, Idle
    <3> QED BY <1>0, <3>1, LoadedStep DEF MayStart, Loaded, Paying
  <2> QED BY <1>1, <2>1, <2>2, <2>3
<1>2. CASE PayBegin(c)
  <2>1. PICK b \in Bookings :
          /\ MayStart(c, {b}, {booking[b].schedule_id}) /\ booking' = booking
          /\ tx' = [tx EXCEPT ![c] = Request("pay_check", b, booking[b].schedule_id,
                booking[b].seats, NoCounter,
                [status |-> booking[b].status, payment_status |-> booking[b].payment_status,
                 payment |-> "ABSENT"])]
    BY <1>2 DEF PayBegin, store
  <2>2. /\ tx'[c].pc = "pay_check" /\ tx'[c].b = b /\ tx'[c].bookings = {b}
        /\ tx'[c].row.status = booking[b].status
        /\ tx'[c].row.payment_status = booking[b].payment_status
    BY <1>0, <2>1 DEF Request
  <2>3. Loaded(c)'
    BY <2>1, <2>2 DEF Loaded
  <2> QED BY <1>0, <2>1, <2>2, <2>3, LoadedStep DEF MayStart
<1>3. CASE CallbackBegin(c)
  <2>1. PICK b \in Bookings :
          /\ MayStart(c, {b}, {booking[b].schedule_id}) /\ payment' = payment
          /\ payment[b] # "ABSENT"
          /\ tx' = [tx EXCEPT ![c] = Request("verify", b, booking[b].schedule_id,
                booking[b].seats, NoCounter, [NotLoaded EXCEPT !.payment = payment[b]])]
    BY <1>3 DEF CallbackBegin, store
  <2>2. /\ tx'[c].pc = "verify" /\ tx'[c].b = b /\ tx'[c].bookings = {b}
        /\ tx'[c].row.status = "ABSENT" /\ tx'[c].row.payment = payment[b]
    BY <1>0, <2>1 DEF Request, NotLoaded
  <2>3. Loaded(c)'
    BY <2>1, <2>2 DEF Loaded
  <2> QED BY <1>0, <2>1, <2>2, <2>3, LoadedStep DEF MayStart
<1> QED BY <1>1, <1>2, <1>3 DEF Begin

\* A request that goes on.
LEMMA LoadedServe ==
  ASSUME Typed, Apart, LoadedIsCurrent, NEW c \in Sessions,
         Serve(c) \/ Abort(c) \/ DeadlockVictim(c)
  PROVE  Apart' /\ LoadedIsCurrent'
<1> USE DEF At
<1>0. /\ tx \in [Sessions -> Transaction] /\ tx[c] \in Transaction /\ InHand(c) /\ Loaded(c)
      /\ booking \in [Bookings -> BookingRow]
      /\ payment \in [Bookings -> PaymentStatus \cup {"ABSENT"}]
      /\ \A d \in Sessions \ {c} : tx[c].bookings \cap tx[d].bookings = {}
      /\ WritesItsOwn(c)
  BY WritesFew DEF Typed, TypeOK, RequestsInHand, LoadedIsCurrent, Apart
<1>1. CASE Finish(c)
  <2>1. Loaded(c)' /\ tx'[c].bookings = {}
    BY <1>1, OwnFinish DEF Loaded, Paying
  <2> QED BY <1>0, <2>1, LoadedStep
<1>2. CASE LockSeat(c) \/ SeatTaken(c) \/ ReleaseSeat(c) \/ SweepSeat(c)
  <2>1. tx'[c].bookings = tx[c].bookings /\ tx'[c].pc = tx[c].pc /\ tx[c].pc \notin Paying
    BY <1>0, <1>2 DEF LockSeat, SeatTaken, ReleaseSeat, SweepSeat, UpdateSeatRow, Transaction, Paying
  <2>2. Loaded(c)'
    BY <2>1 DEF Loaded, Paying
  <2> QED BY <1>0, <2>1, <2>2, LoadedStep
<1>3. CASE CancelReadSchedule(c) \/ SweepNext(c) \/ SweepReadSchedule(c)
  <2>1. tx'[c].bookings = tx[c].bookings /\ tx'[c].pc \notin Paying
    <3>1. CASE CancelReadSchedule(c)
      BY <1>0, <3>1 DEF CancelReadSchedule, Transaction, Paying
    <3>2. CASE SweepNext(c)
      BY <1>0, <3>2 DEF SweepNext, Transaction, Paying
    <3>3. CASE SweepReadSchedule(c)
      BY <1>0, <3>3 DEF SweepReadSchedule, Transaction, Paying
    <3> QED BY <1>3, <3>1, <3>2, <3>3
  <2>2. Loaded(c)'
    BY <2>1 DEF Loaded, Paying
  <2> QED BY <1>0, <2>1, <2>2, LoadedStep
<1>4. CASE PayCheck(c) \/ BookSeat(c)
  <2>1. /\ booking' = booking /\ payment' = payment
        /\ tx'[c].b = tx[c].b /\ tx'[c].bookings = tx[c].bookings /\ tx'[c].row = tx[c].row
        /\ tx[c].pc # "verify" /\ tx[c].pc \in Paying
        /\ tx'[c].pc \in {"pay_commit", tx[c].pc}
    <3>1. CASE PayCheck(c)
      BY <1>0, <3>1 DEF PayCheck, Transaction, Paying, store
    <3>2. CASE BookSeat(c)
      BY <1>0, <3>2 DEF BookSeat, UpdateSeatRow, Transaction, Paying, store
    <3> QED BY <1>4, <3>1, <3>2
  <2>2. Loaded(c)'
    BY <1>0, <2>1 DEF Loaded, Paying
  <2> QED BY <1>0, <2>1, <2>2, LoadedStep
<1>5. CASE VerifyOk(c) \/ VerifyFailed(c)
  <2> DEFINE b == tx[c].b
             r == LoadBooking(c)
  <2>1. /\ booking' = booking /\ payment' = payment /\ tx[c].pc = "verify"
        /\ tx'[c].b = b /\ tx'[c].bookings = tx[c].bookings /\ tx'[c].row = r
        /\ tx'[c].pc \in {"book_seats", "fail"}
    <3>1. CASE VerifyOk(c)
      BY <1>0, <3>1 DEF VerifyOk, Transaction, store
    <3>2. CASE VerifyFailed(c)
      BY <1>0, <3>2 DEF VerifyFailed, Transaction, store
    <3> QED BY <1>5, <3>1, <3>2
  <2>2. payment[b] # "ABSENT" /\ tx[c].row.payment = payment[b]
    BY <1>0, <2>1 DEF Loaded
  <2>3. /\ r.payment = tx[c].row.payment /\ r.status = booking[b].status
        /\ r.payment_status = booking[b].payment_status
    BY <1>0, <2>1 DEF LoadBooking, Loaded, Paying, Transaction
  <2> HIDE DEF r
  <2>4. Loaded(c)'
    BY <2>1, <2>2, <2>3 DEF Loaded
  <2> QED BY <1>0, <2>1, <2>4, LoadedStep
<1>6. CASE PayCommit(c) /\ ~Redirects
  <2> DEFINE b == tx[c].b
  <2>1. /\ tx[c].pc = "pay_commit" /\ payment' = [payment EXCEPT ![b] = "PROCESSING"]
        /\ booking' = [booking EXCEPT ![b].payment_status =
                         Column(tx[c].row.payment_status, "PROCESSING", @)]
        /\ tx'[c].pc = "verify" /\ tx'[c].b = b /\ tx'[c].bookings = tx[c].bookings
        /\ tx'[c].row.payment_status = "PROCESSING" /\ tx'[c].row.payment = "PROCESSING"
        /\ tx'[c].row.status = tx[c].row.status
    BY <1>0, <1>6 DEF PayCommit, Transaction
  <2>2. /\ b \in Bookings /\ tx[c].row.status = booking[b].status
        /\ tx[c].row.payment_status = booking[b].payment_status
    BY <1>0, <2>1 DEF InHand, OnBooking, Loaded, Paying
  <2>3. /\ payment'[b] = "PROCESSING" /\ booking'[b].payment_status = "PROCESSING"
        /\ booking'[b].status = booking[b].status
    BY <1>0, <2>1, <2>2 DEF Column, BookingRow, NoBooking
  <2>4. Loaded(c)'
    BY <2>1, <2>2, <2>3 DEF Loaded
  <2> QED BY <1>0, <2>1, <2>4, LoadedStep
<1> QED BY <1>1, <1>2, <1>3, <1>4, <1>5, <1>6, GoesOnOrEnds

LEMMA LoadedNext ==
  ASSUME Overlap # "any", Sweeps # "any", Typed, Apart, LoadedIsCurrent, [Next]_vars
  PROVE  Apart' /\ LoadedIsCurrent'
<1>1. ASSUME NEW c \in Sessions, Begin(c) \/ Serve(c) \/ Abort(c) \/ DeadlockVictim(c)
      PROVE  Apart' /\ LoadedIsCurrent'
  BY <1>1, LoadedBegin, LoadedServe
<1>2. ASSUME NEW b \in Bookings, Lapse(b) PROVE Apart' /\ LoadedIsCurrent'
  BY <1>2 DEF Lapse, store, Apart, LoadedIsCurrent, Loaded
<1>3. CASE UNCHANGED vars
  BY <1>3 DEF vars, Apart, LoadedIsCurrent, Loaded
<1> QED BY <1>1, <1>2, <1>3 DEF Next

LEMMA LoadedInit == Init => Apart /\ LoadedIsCurrent
  BY DEF Init, Idle, Apart, LoadedIsCurrent, Loaded, Paying

\* With one request at a time on a booking, callbacks and sweeps counted among them, a payment's
\* session never works on values that are out of date, whatever gateway answers, when, and how
\* often.
THEOREM LoadedStaysCurrent ==
  ASSUME Overlap # "any", Sweeps # "any"
  PROVE  Spec => []LoadedIsCurrent
<1>1. Typed /\ Apart /\ LoadedIsCurrent /\ [Next]_vars => Typed' /\ Apart' /\ LoadedIsCurrent'
  BY TypedNext, LoadedNext
<1> QED BY <1>1, TypedInit, LoadedInit, PTL DEF Spec

\* ... so a confirmation always writes CONFIRMED, and every commit of a payment writes one
\* status to both rows.
LEMMA LoadedConfirms ==
  ASSUME LoadedIsCurrent, NEW c \in Sessions
  PROVE  Confirms(c)
  BY DEF LoadedIsCurrent, Loaded, Confirms, Column, Paying, At

LEMMA AgreesNext ==
  ASSUME Typed, LoadedIsCurrent, PaymentAgrees, [Next]_vars
  PROVE  PaymentAgrees'
<1> USE DEF At
<1>0. /\ booking \in [Bookings -> BookingRow] /\ payment \in [Bookings -> PaymentStatus \cup {"ABSENT"}]
      /\ \A c \in Sessions : InHand(c) /\ tx[c] \in Transaction /\ Loaded(c)
      /\ \A b \in Bookings : booking[b] = NoBooking <=> booking[b].status = "ABSENT"
      /\ \A b \in Bookings : booking[b] = NoBooking => payment[b] = "ABSENT"
  BY RowPresent DEF Typed, TypeOK, RequestsInHand, PaymentsBelong, LoadedIsCurrent
<1>1. ASSUME NEW c \in Sessions, CreateCommit(c) PROVE PaymentAgrees'
  <2> DEFINE b == tx[c].b
  <2>1. /\ payment' = payment /\ tx[c].pc = "lock_seats"
        /\ \E k \in tx[c].schedules : booking' = [booking EXCEPT ![b] =
             [status |-> "PENDING", payment_status |-> "PENDING", schedule_id |-> k,
              seats |-> tx[c].seats]]
    BY <1>1 DEF CreateCommit
  <2>2. b \in Bookings /\ payment[b] = "ABSENT"
    BY <1>0, <2>1 DEF InHand
  <2>3. /\ booking'[b].payment_status = "PENDING"
        /\ \A a \in Bookings \ {b} : booking'[a] = booking[a]
    BY <1>0, <2>1, <2>2
  <2> QED BY <2>1, <2>2, <2>3 DEF PaymentAgrees
<1>2. ASSUME NEW c \in Sessions, CancelCommit(c) \/ SweepCommit(c) PROVE PaymentAgrees'
  <2>1. payment' = payment
    BY <1>2 DEF CancelCommit, SweepCommit
  <2>2. \A b \in Bookings : booking'[b].payment_status = booking[b].payment_status
    BY <1>0, <1>2 DEF CancelCommit, SweepCommit, BookingRow, NoBooking
  <2>3. \A b \in Bookings : booking'[b].status # "ABSENT" => booking[b].status # "ABSENT"
    <3>1. CASE CancelCommit(c)
      <4>1. tx[c].b \in Bookings /\ booking[tx[c].b].status # "ABSENT"
        BY <1>0, <3>1 DEF CancelCommit, InHand, OnBooking
      <4> QED BY <1>0, <3>1, <4>1 DEF CancelCommit
    <3>2. CASE SweepCommit(c)
      <4>1. \A b \in tx[c].bookings : b \in Bookings /\ booking[b].status # "ABSENT"
        BY <1>0, <3>2 DEF SweepCommit, InHand, Sweeping, Transaction
      <4> QED BY <1>0, <3>2, <4>1 DEF SweepCommit
    <3> QED BY <1>2, <3>1, <3>2
  <2> QED BY <2>1, <2>2, <2>3 DEF PaymentAgrees
<1>3. ASSUME NEW c \in Sessions, PayCommit(c) \/ ConfirmCommit(c) \/ FailCommit(c)
      PROVE  PaymentAgrees'
  <2> DEFINE b == tx[c].b
  <2>1. b \in Bookings
    BY <1>0, <1>3 DEF PayCommit, ConfirmCommit, FailCommit, InHand, OnBooking
  <2>2. /\ \A a \in Bookings \ {b} : booking'[a] = booking[a] /\ payment'[a] = payment[a]
    BY <1>0, <1>3 DEF PayCommit, ConfirmCommit, FailCommit
  <2>3. PICK v \in PaymentStatus : booking'[b].payment_status = v /\ payment'[b] = v
    <3>1. tx[c].row.payment_status = booking[b].payment_status
      BY <1>0, <1>3 DEF PayCommit, ConfirmCommit, FailCommit, Loaded, Paying
    <3>2. CASE PayCommit(c)
      <4>1. booking'[b].payment_status = "PROCESSING" /\ payment'[b] = "PROCESSING"
        BY <1>0, <2>1, <3>1, <3>2 DEF PayCommit, Column, BookingRow, NoBooking
      <4> QED BY <4>1 DEF PaymentStatus
    <3>3. CASE ConfirmCommit(c)
      <4>1. booking'[b].payment_status = "COMPLETED" /\ payment'[b] = "COMPLETED"
        BY <1>0, <2>1, <3>1, <3>3 DEF ConfirmCommit, Column, BookingRow, NoBooking, Loaded
      <4> QED BY <4>1 DEF PaymentStatus
    <3>4. CASE FailCommit(c)
      <4>1. booking'[b].payment_status = "FAILED" /\ payment'[b] = "FAILED"
        BY <1>0, <2>1, <3>1, <3>4 DEF FailCommit, Column, BookingRow, NoBooking, Loaded
      <4> QED BY <4>1 DEF PaymentStatus
    <3> QED BY <1>3, <3>2, <3>3, <3>4
  <2>4. v # "ABSENT"
    BY DEF PaymentStatus
  <2> QED BY <2>2, <2>3, <2>4 DEF PaymentAgrees
<1>4. CASE \A c \in Sessions : /\ ~CreateCommit(c) /\ ~CancelCommit(c) /\ ~SweepCommit(c)
                               /\ ~PayCommit(c) /\ ~ConfirmCommit(c) /\ ~FailCommit(c)
  <2>1. booking' = booking /\ payment' = payment
    <3>1. ASSUME NEW c \in Sessions, Begin(c) PROVE booking' = booking
      BY <3>1 DEF Begin, CreateBegin, CancelBegin, SweepBegin, PayBegin, CallbackBegin, store
    <3>2. ASSUME NEW c \in Sessions, Create(c) \/ Cancel(c) \/ Sweep(c) PROVE booking' = booking
      BY <1>4, <3>2 DEF Create, LockSeat, SeatTaken, CreateConflict, Cancel, ReleaseSeat,
         UpdateSeatRow, CancelReadSchedule, Sweep, SweepNext, SweepSeat, SweepReadSchedule, store
    <3>3. ASSUME NEW c \in Sessions, Pay(c) PROVE booking' = booking
      BY <1>4, <3>3 DEF Pay, PayCheck, PayReject, PayUnavailable, VerifyOk, VerifyFailed,
         VerifyError, BookSeat, UpdateSeatRow, store
    <3>4. ASSUME NEW c \in Sessions, Abort(c) \/ DeadlockVictim(c) PROVE booking' = booking
      BY <3>4 DEF Abort, DeadlockVictim, store
    <3>5. ASSUME NEW b \in Bookings, Lapse(b) PROVE booking' = booking
      BY <3>5 DEF Lapse, store
    <3>6. booking' = booking
      BY <3>1, <3>2, <3>3, <3>4, <3>5 DEF Next, Serve, vars
    <3> QED BY <1>4, <3>6, PaymentKept
  <2> QED BY <2>1 DEF PaymentAgrees
<1> QED BY <1>1, <1>2, <1>3, <1>4

\* With one request at a time on a booking, late, repeated and contradictory callbacks of a
\* redirect gateway leave booking and payment in agreement.
THEOREM CallbacksAgree ==
  ASSUME Overlap # "any", Sweeps # "any"
  PROVE  Spec => []PaymentAgrees
<1>1. Init => PaymentAgrees
  BY DEF Init, PaymentAgrees, NoBooking
<1>2. Typed /\ LoadedIsCurrent /\ PaymentAgrees /\ [Next]_vars => PaymentAgrees'
  BY AgreesNext
<1>3. Spec => []Typed
  BY TypedInit, TypedNext, PTL DEF Spec
<1> QED BY <1>1, <1>2, <1>3, LoadedStaysCurrent, PTL DEF Spec

\* ... and orphan no seat: even a confirmation of a booking that was cancelled or swept long ago
\* makes CONFIRMED whatever seats it books, so that somebody can cancel it again.
THEOREM CallbacksOrphanNone ==
  ASSUME Overlap # "any", Sweeps # "any"
  PROVE  Spec => []NoOrphanSeat
<1>1. Init => NoOrphanSeat
  BY DEF Init, NoOrphanSeat, FreeSeat
<1>2. Typed /\ LoadedIsCurrent /\ NoOrphanSeat /\ [Next]_vars => NoOrphanSeat'
  BY NoOrphanSeatNext, LoadedConfirms
<1>3. Spec => []Typed
  BY TypedInit, TypedNext, PTL DEF Spec
<1> QED BY <1>1, <1>2, <1>3, LoadedStaysCurrent, PTL DEF Spec
=============================================================================
