--------------------------- MODULE PlatformProofs ---------------------------
(***************************************************************************)
(* Theorems about Platform, for every value of its constants.              *)
(*                                                                         *)
(* TypeOK is not inductive by itself: a commit writes the row a request    *)
(* has in hand, so it keeps the types only if that row exists, which is    *)
(* RequestsInHand and, for a gateway's callback, PaymentsBelong.  They are *)
(* proved together (Typed), first for a step that changes one request or   *)
(* ends one, then action by action.                                        *)
(***************************************************************************)
EXTENDS Platform, FiniteSetTheorems, TLAPS

Typed == TypeOK /\ RequestsInHand /\ PaymentsBelong

-----------------------------------------------------------------------------
(* Types of what the actions are built from                                *)

\* The number of seats of a schedule, or of any request, is a natural number.
LEMMA SeatCount == \A S \in SUBSET Seats : Cardinality(S) \in Nat
  BY FiniteAssumption, FS_Subset, FS_CardinalityType

LEMMA SeatsOfRequest == TypeOK => \A c \in Sessions : NSeats(c) \in Nat
  BY SeatCount DEF TypeOK, Transaction, NSeats

LEMMA IdleType == Idle \in Transaction
  BY DEF Idle, NoCounter, Transaction, Points, NotLoaded

\* A row that is there is not the blank one, and has a schedule.
LEMMA RowPresent ==
  ASSUME TypeOK, NEW b \in Bookings
  PROVE  /\ booking[b] # NoBooking <=> booking[b].status # "ABSENT"
         /\ booking[b] # NoBooking =>
              booking[b] \in [status : BookingStatus, payment_status : PaymentStatus,
                              schedule_id : Schedules, seats : (SUBSET Seats) \ {{}}]
         /\ booking[b].seats \in SUBSET Seats
  BY DEF TypeOK, BookingRow, NoBooking, BookingStatus

\* A counter kept in memory is an integer, whether it was loaded before or is loaded now.
LEMMA CounterType ==
  ASSUME TypeOK, NEW c \in Sessions, NEW k \in Schedules, NEW n \in Int
  PROVE  AddToCounter(c, k, n) \in [Schedules -> Int \cup {None}]
<1>1. tx[c].counter \in [Schedules -> Int \cup {None}]
  BY DEF TypeOK, Transaction
<1>2. (IF tx[c].counter[k] = None THEN available[k] ELSE tx[c].counter[k]) \in Int
  BY <1>1 DEF TypeOK
<1> QED BY <1>1, <1>2 DEF AddToCounter

LEMMA WrittenType ==
  ASSUME TypeOK, NEW counter \in [Schedules -> Int \cup {None}], WriteCounters(counter)
  PROVE  available' \in [Schedules -> Int]
  BY DEF TypeOK, WriteCounters

\* The rows that a cancellation or a sweep writes are rows of the table.
LEMMA ReleasedType == TypeOK => \A c \in Sessions : Released(c) \in [Seats -> SeatRow]
  BY DEF TypeOK, Released, FreeSeat, SeatRow, SeatStatus

-----------------------------------------------------------------------------
(* A step of one request *)

\* What one request changes leaves the others' rows in hand, as long as bookings stay and
\* keep their seats, and the request takes up no id that another one is inserting.
LEMMA OthersInHand ==
  ASSUME Typed, NEW c \in Sessions, NEW t \in Transaction, tx' = [tx EXCEPT ![c] = t],
         \A b \in Bookings : booking[b] # NoBooking =>
           booking'[b] # NoBooking /\ booking'[b].seats = booking[b].seats,
         \A b \in Bookings : booking[b] = NoBooking =>
           booking'[b] = NoBooking \/ (At(c, "lock_seats") /\ b = tx[c].b),
         \A b \in t.bookings : \/ b \in tx[c].bookings
                               \/ booking[b] # NoBooking
                               \/ \A d \in Sessions : b \notin tx[d].bookings,
         InHand(c)'
  PROVE  RequestsInHand'
<1> SUFFICES ASSUME NEW d \in Sessions, d # c PROVE InHand(d)'
  BY DEF RequestsInHand
<1>1. tx'[d] = tx[d] /\ tx'[c] = t /\ \A e \in Sessions \ {c} : tx'[e] = tx[e]
  BY DEF Typed, TypeOK
<1>2. InHand(c) /\ InHand(d) /\ tx[d] \in Transaction
  BY DEF Typed, TypeOK, RequestsInHand
<1>3. ASSUME tx[d].pc = "lock_seats"
      PROVE  booking'[tx[d].b] = NoBooking /\ \A e \in Sessions \ {d} : tx[d].b \notin tx'[e].bookings
  <2>1. /\ tx[d].b \in Bookings /\ tx[d].bookings = {tx[d].b} /\ booking[tx[d].b] = NoBooking
        /\ \A e \in Sessions \ {d} : tx[d].b \notin tx[e].bookings
    BY <1>2, <1>3 DEF InHand
  <2>2. tx[d].b \notin tx[c].bookings
    BY <2>1
  <2>3. At(c, "lock_seats") => tx[c].b # tx[d].b
    BY <1>2, <2>2 DEF InHand, At
  <2>4. tx[d].b \notin t.bookings
    BY <2>1, <2>2
  <2> QED BY <1>1, <2>1, <2>3, <2>4
<1>4. tx[d].pc \in OnBooking => booking'[tx[d].b] # NoBooking /\ tx[d].seats = booking'[tx[d].b].seats
  BY <1>2 DEF InHand
<1>5. tx[d].pc \in Sweeping => \A b \in tx[d].bookings :
        booking'[b] # NoBooking /\ booking'[b].seats = booking[b].seats
  BY <1>2 DEF InHand, Transaction
<1>6. tx[d].pc = "sweep_seats" => tx[d].b \in tx[d].bookings
  BY <1>2 DEF InHand
<1> QED BY <1>1, <1>2, <1>3, <1>4, <1>5, <1>6 DEF InHand, Sweeping

\* A request that has ended has nothing in hand.
LEMMA IdleInHand ==
  ASSUME Typed, NEW c \in Sessions, Finish(c)
  PROVE  InHand(c)'
  BY DEF Typed, TypeOK, Finish, InHand, Idle, OnBooking, Paying, Sweeping

\* A step that writes no row and changes one request only.
LEMMA OneRequest ==
  ASSUME Typed, NEW c \in Sessions, NEW t \in Transaction, tx' = [tx EXCEPT ![c] = t],
         UNCHANGED <<store, lapsed>>, callbacks' \in [Bookings -> Nat],
         \A b \in t.bookings : \/ b \in tx[c].bookings
                               \/ booking[b] # NoBooking
                               \/ \A d \in Sessions : b \notin tx[d].bookings,
         InHand(c)'
  PROVE  Typed'
<1>1. TypeOK'
  BY DEF Typed, TypeOK, store
<1>2. RequestsInHand'
  BY OthersInHand DEF store
<1>3. PaymentsBelong'
  BY DEF Typed, PaymentsBelong, store
<1> QED BY <1>1, <1>2, <1>3 DEF Typed

\* A request that ends without writing anything.
LEMMA FinishTyped ==
  ASSUME Typed, NEW c \in Sessions, Finish(c), UNCHANGED <<store, lapsed, callbacks>>
  PROVE  Typed'
<1>1. InHand(c)'
  BY IdleInHand
<1>2. tx' = [tx EXCEPT ![c] = Idle] /\ Idle.bookings = {}
  BY DEF Finish, Idle
<1>3. callbacks' \in [Bookings -> Nat]
  BY DEF Typed, TypeOK
<1> QED BY ONLY <1>1, <1>2, <1>3, Typed, c \in Sessions, UNCHANGED <<store, lapsed, callbacks>>, IdleType, OneRequest

\* A request that commits and ends: bookings stay and keep their seats, none appears but the
\* one it inserts, and a new payment is for a booking that is there.
LEMMA CommitTyped ==
  ASSUME Typed, NEW c \in Sessions, Finish(c), TypeOK',
         \A b \in Bookings : booking[b] # NoBooking =>
           booking'[b] # NoBooking /\ booking'[b].seats = booking[b].seats,
         \A b \in Bookings : booking[b] = NoBooking =>
           booking'[b] = NoBooking \/ (At(c, "lock_seats") /\ b = tx[c].b),
         \A b \in Bookings : payment'[b] = payment[b] \/ booking[b] # NoBooking
  PROVE  Typed'
<1>1. tx' = [tx EXCEPT ![c] = Idle] /\ Idle.bookings = {} /\ InHand(c)'
  BY IdleInHand DEF Finish, Idle
<1>2. RequestsInHand'
  BY <1>1, IdleType, OthersInHand
<1>3. PaymentsBelong'
  BY DEF Typed, PaymentsBelong
<1> QED BY <1>2, <1>3 DEF Typed

\* A request that starts on one booking that is there, with no row lock yet.
LEMMA BeginTyped ==
  ASSUME Typed, NEW c \in Sessions, NEW b \in Bookings, booking[b] # NoBooking,
         NEW t \in Transaction, tx' = [tx EXCEPT ![c] = t],
         t.b = b, t.bookings = {b}, t.seats = booking[b].seats, t.held = {}, t.unavailable = {},
         t.pc \in {"cancel_seats", "pay_check", "verify"},
         t.pc \in Paying /\ ~Redirects => t.row.status = "PENDING",
         UNCHANGED <<store, lapsed>>, callbacks' \in [Bookings -> Nat]
  PROVE  Typed'
<1>1. tx'[c] = t /\ booking' = booking
  BY DEF Typed, TypeOK, store
<1>2. InHand(c)'
  BY <1>1 DEF InHand, OnBooking, Sweeping
<1> QED BY <1>2, OneRequest

\* One more row of an UPDATE.
LEMMA UpdateSeatRowTyped ==
  ASSUME Typed, NEW c \in Sessions, UpdateSeatRow(c),
         tx[c].pc \in {"cancel_seats", "sweep_seats", "book_seats"}
  PROVE  Typed'
<1> PICK s \in Todo(c) : tx' = [tx EXCEPT ![c].held = @ \cup {s}]
  BY DEF UpdateSeatRow
<1> DEFINE t == [tx[c] EXCEPT !.held = @ \cup {s}]
<1>1. t \in Transaction /\ tx' = [tx EXCEPT ![c] = t] /\ tx'[c] = t
  BY DEF Typed, TypeOK, Transaction, Todo
<1>2. /\ t.pc = tx[c].pc /\ t.b = tx[c].b /\ t.bookings = tx[c].bookings /\ t.row = tx[c].row
      /\ t.seats = tx[c].seats /\ t.held = tx[c].held \cup {s} /\ t.stale = tx[c].stale
      /\ t.unavailable = tx[c].unavailable /\ s \in tx[c].seats
  BY DEF Typed, TypeOK, Transaction, Todo
<1>3. InHand(c) /\ booking' = booking
  BY DEF Typed, RequestsInHand, UpdateSeatRow, store
<1>4. InHand(c)'
  <2>1. CASE tx[c].pc \in {"cancel_seats", "book_seats"}
    BY <2>1, <1>1, <1>2, <1>3 DEF InHand, OnBooking, Paying, Sweeping
  <2>2. CASE tx[c].pc = "sweep_seats"
    BY <2>2, <1>1, <1>2, <1>3 DEF InHand, OnBooking, Paying, Sweeping
  <2> QED BY <2>1, <2>2
<1>5. callbacks' \in [Bookings -> Nat] /\ UNCHANGED <<store, lapsed>>
  BY DEF Typed, TypeOK, UpdateSeatRow
<1> HIDE DEF t
<1> QED BY <1>1, <1>2, <1>4, <1>5, OneRequest

-----------------------------------------------------------------------------
(* create_booking *)

LEMMA CreateTyped ==
  ASSUME Typed, NEW c \in Sessions, CreateBegin(c) \/ Create(c)
  PROVE  Typed'
<1> USE DEF At
<1>0. /\ callbacks \in [Bookings -> Nat] /\ tx \in [Sessions -> Transaction] /\ tx[c] \in Transaction
      /\ InHand(c) /\ TypeOK
  BY DEF Typed, TypeOK, RequestsInHand
<1>1. CASE CreateBegin(c)
  <2> PICK b \in Bookings, S \in SUBSET Seats, k \in Bookable :
        /\ S # {} /\ booking[b].status = "ABSENT"
        /\ \A d \in Sessions : b \notin tx[d].bookings
        /\ tx' = [tx EXCEPT ![c] = Request("lock_seats", b, k, S,
                     [NoCounter EXCEPT ![k] = available[k]], NotLoaded)]
        /\ UNCHANGED <<store, lapsed, callbacks>>
    BY <1>1 DEF CreateBegin
  <2> DEFINE t == Request("lock_seats", b, k, S, [NoCounter EXCEPT ![k] = available[k]], NotLoaded)
  <2>1. t \in Transaction
    <3>1. k \in Schedules /\ available[k] \in Int
      BY <1>0, BookableAssumption DEF TypeOK
    <3>2. [NoCounter EXCEPT ![k] = available[k]] \in [Schedules -> Int \cup {None}]
      BY <3>1 DEF NoCounter
    <3> QED BY <3>1, <3>2 DEF Request, Transaction, Points, NotLoaded
  <2>2. /\ t.pc = "lock_seats" /\ t.b = b /\ t.bookings = {b} /\ t.held = {} /\ t.seats # {}
        /\ tx' = [tx EXCEPT ![c] = t]
    BY DEF Request
  <2>3. booking'[b] = NoBooking /\ tx'[c] = t /\ \A d \in Sessions \ {c} : tx'[d] = tx[d]
    BY <1>0, RowPresent DEF store
  <2>4. InHand(c)'
    BY <2>2, <2>3 DEF InHand, OnBooking, Paying, Sweeping
  <2> HIDE DEF t
  <2> QED BY <1>0, <2>1, <2>2, <2>4, OneRequest
<1>2. CASE LockSeat(c)
  <2> PICK s \in Todo(c) : tx' = [tx EXCEPT ![c].held = @ \cup {s}]
    BY <1>2 DEF LockSeat
  <2> DEFINE t == [tx[c] EXCEPT !.held = @ \cup {s}]
  <2>1. t \in Transaction /\ tx' = [tx EXCEPT ![c] = t] /\ tx'[c] = t /\ s \in tx[c].seats
    BY <1>0 DEF Transaction, Todo
  <2>2. /\ t.pc = "lock_seats" /\ t.b = tx[c].b /\ t.bookings = tx[c].bookings
        /\ t.held = tx[c].held \cup {s} /\ t.seats = tx[c].seats
        /\ \A d \in Sessions \ {c} : tx'[d] = tx[d]
    BY <1>0, <1>2 DEF Transaction, LockSeat
  <2>3. UNCHANGED <<store, lapsed, callbacks>> /\ booking' = booking
    BY <1>2 DEF LockSeat, store
  <2>4. InHand(c)'
    BY <1>0, <2>1, <2>2, <2>3 DEF InHand, OnBooking, Paying, Sweeping
  <2> HIDE DEF t
  <2> QED BY <1>0, <2>1, <2>2, <2>3, <2>4, OneRequest
<1>3. CASE SeatTaken(c)
  <2> PICK s \in Todo(c) : tx' = [tx EXCEPT ![c].unavailable = @ \cup {s}]
    BY <1>3 DEF SeatTaken
  <2> DEFINE t == [tx[c] EXCEPT !.unavailable = @ \cup {s}]
  <2>1. t \in Transaction /\ tx' = [tx EXCEPT ![c] = t] /\ tx'[c] = t
    BY <1>0 DEF Transaction, Todo
  <2>2. /\ t.pc = "lock_seats" /\ t.b = tx[c].b /\ t.bookings = tx[c].bookings
        /\ t.held = tx[c].held /\ t.seats = tx[c].seats
        /\ \A d \in Sessions \ {c} : tx'[d] = tx[d]
    BY <1>0, <1>3 DEF Transaction, SeatTaken
  <2>3. UNCHANGED <<store, lapsed, callbacks>> /\ booking' = booking
    BY <1>3 DEF SeatTaken, store
  <2>4. InHand(c)'
    BY <1>0, <2>1, <2>2, <2>3 DEF InHand, OnBooking, Paying, Sweeping
  <2> HIDE DEF t
  <2> QED BY <1>0, <2>1, <2>2, <2>3, <2>4, OneRequest
<1>4. CASE CreateConflict(c)
  BY <1>4, FinishTyped DEF CreateConflict
<1>5. CASE CreateCommit(c)
  <2> PICK k \in tx[c].schedules :
        /\ seat' = [s \in Seats |-> IF s \in tx[c].held
                     THEN [status |-> "LOCKED", lockedBy |-> tx[c].b] ELSE seat[s]]
        /\ booking' = [booking EXCEPT ![tx[c].b] =
             [status |-> "PENDING", payment_status |-> "PENDING", schedule_id |-> k,
              seats |-> tx[c].seats]]
        /\ WriteCounters(AddToCounter(c, k, -NSeats(c)))
    BY <1>5 DEF CreateCommit
  <2>1. k \in Schedules /\ -NSeats(c) \in Int
    BY <1>0, SeatsOfRequest DEF Transaction
  <2>2. available' \in [Schedules -> Int]
    BY <1>0, <2>1, CounterType, WrittenType
  <2>3. seat' \in [Seats -> SeatRow]
    BY <1>0 DEF TypeOK, Transaction, SeatRow, SeatStatus
  <2>4. booking' \in [Bookings -> BookingRow]
    <3>1. tx[c].seats \in SUBSET Seats /\ tx[c].seats # {}
      BY <1>0, <1>5 DEF CreateCommit, InHand, Transaction
    <3>2. tx[c].seats \in (SUBSET Seats) \ {{}}
      BY <3>1
    <3>3. [status |-> "PENDING", payment_status |-> "PENDING", schedule_id |-> k,
           seats |-> tx[c].seats] \in BookingRow
      BY <2>1, <3>2 DEF BookingRow, BookingStatus, PaymentStatus
    <3> QED BY <1>0, <3>3 DEF TypeOK
  <2>5. tx' = [tx EXCEPT ![c] = Idle] /\ UNCHANGED <<payment, lapsed, callbacks>>
    BY <1>5 DEF CreateCommit, Finish
  <2>6. TypeOK'
    BY <1>0, <2>2, <2>3, <2>4, <2>5, IdleType DEF TypeOK
  <2>7. /\ At(c, "lock_seats") /\ tx[c].b \in Bookings /\ booking[tx[c].b] = NoBooking
        /\ \A b \in Bookings \ {tx[c].b} : booking'[b] = booking[b]
    BY <1>0, <1>5 DEF CreateCommit, InHand, TypeOK
  <2> QED BY <2>5, <2>6, <2>7, CommitTyped DEF Finish
<1> QED BY <1>1, <1>2, <1>3, <1>4, <1>5 DEF Create

-----------------------------------------------------------------------------
(* cancel_booking *)

LEMMA CancelTyped ==
  ASSUME Typed, NEW c \in Sessions, CancelBegin(c) \/ Cancel(c)
  PROVE  Typed'
<1> USE DEF At
<1>0. /\ callbacks \in [Bookings -> Nat] /\ tx \in [Sessions -> Transaction] /\ tx[c] \in Transaction
      /\ InHand(c) /\ TypeOK
  BY DEF Typed, TypeOK, RequestsInHand
<1>1. CASE CancelBegin(c)
  <2> PICK b \in Bookings :
        /\ booking[b].status \in {"PENDING", "CONFIRMED"}
        /\ tx' = [tx EXCEPT ![c] = Request("cancel_seats", b, booking[b].schedule_id,
                     booking[b].seats, NoCounter, NotLoaded)]
        /\ UNCHANGED <<store, lapsed, callbacks>>
    BY <1>1 DEF CancelBegin
  <2> DEFINE t == Request("cancel_seats", b, booking[b].schedule_id, booking[b].seats,
                           NoCounter, NotLoaded)
  <2>1. booking[b] # NoBooking /\ booking[b].schedule_id \in Schedules /\ booking[b].seats \in SUBSET Seats
    BY <1>0, RowPresent
  <2>2. t \in Transaction
    BY <2>1 DEF Request, NoCounter, Transaction, Points, NotLoaded
  <2>3. /\ t.b = b /\ t.bookings = {b} /\ t.seats = booking[b].seats /\ t.held = {}
        /\ t.unavailable = {} /\ t.pc = "cancel_seats" /\ tx' = [tx EXCEPT ![c] = t]
    BY DEF Request
  <2> HIDE DEF t
  <2>4. t.pc \in Paying /\ ~Redirects => t.row.status = "PENDING"
    BY <2>3 DEF Paying
  <2>5. UNCHANGED <<store, lapsed>> /\ callbacks' \in [Bookings -> Nat]
    BY <1>0
  <2>6. t.pc \in {"cancel_seats", "pay_check", "verify"}
    BY <2>3
  <2> QED BY ONLY Typed, c \in Sessions, b \in Bookings, <2>1, <2>2, <2>3, <2>4, <2>5, <2>6, BeginTyped
<1>2. CASE ReleaseSeat(c)
  BY <1>2, UpdateSeatRowTyped DEF ReleaseSeat
<1>3. CASE CancelReadSchedule(c)
  <2> DEFINE counter == AddToCounter(c, booking[tx[c].b].schedule_id, NSeats(c))
             t == [tx[c] EXCEPT !.pc = "cancel_commit", !.counter = counter]
  <2>1. /\ tx[c].pc = "cancel_seats" /\ Todo(c) = {}
        /\ tx' = [tx EXCEPT ![c].pc = "cancel_commit", ![c].counter = counter]
        /\ UNCHANGED <<store, lapsed, callbacks>> /\ booking' = booking
    BY <1>3 DEF CancelReadSchedule, store
  <2>2. booking[tx[c].b].schedule_id \in Schedules
    BY <1>0, <2>1, RowPresent DEF InHand, OnBooking
  <2>3. counter \in [Schedules -> Int \cup {None}]
    BY <1>0, <2>2, SeatsOfRequest, CounterType
  <2> HIDE DEF counter
  <2>4. t \in Transaction /\ tx' = [tx EXCEPT ![c] = t] /\ tx'[c] = t
    BY <1>0, <2>1, <2>3 DEF Transaction, Points
  <2>5. /\ t.pc = "cancel_commit" /\ t.b = tx[c].b /\ t.bookings = tx[c].bookings
        /\ t.seats = tx[c].seats /\ t.held = tx[c].held /\ t.unavailable = tx[c].unavailable
    BY <1>0 DEF Transaction
  <2>6. InHand(c)'
    BY <1>0, <2>1, <2>4, <2>5 DEF InHand, OnBooking, Paying, Sweeping, Todo
  <2> HIDE DEF t
  <2> QED BY <1>0, <2>1, <2>4, <2>5, <2>6, OneRequest
<1>4. CASE CancelCommit(c)
  <2>1. /\ tx[c].pc = "cancel_commit" /\ seat' = Released(c)
        /\ booking' = [booking EXCEPT ![tx[c].b].status = "CANCELLED"]
        /\ WriteCounters(tx[c].counter)
        /\ tx' = [tx EXCEPT ![c] = Idle] /\ UNCHANGED <<payment, lapsed, callbacks>>
    BY <1>4 DEF CancelCommit, Finish
  <2>2. available' \in [Schedules -> Int] /\ seat' \in [Seats -> SeatRow]
    BY <1>0, <2>1, WrittenType, ReleasedType DEF Transaction
  <2>3. tx[c].b \in Bookings /\ booking[tx[c].b] # NoBooking
    BY <1>0, <2>1 DEF InHand, OnBooking
  <2>4. /\ booking' \in [Bookings -> BookingRow]
        /\ \A b \in Bookings : booking[b] # NoBooking =>
             booking'[b] # NoBooking /\ booking'[b].seats = booking[b].seats
        /\ \A b \in Bookings : booking[b] = NoBooking => booking'[b] = NoBooking
    BY <1>0, <2>1, <2>3, RowPresent DEF TypeOK, BookingRow, BookingStatus, NoBooking
  <2>5. TypeOK'
    BY <1>0, <2>1, <2>2, <2>4, IdleType DEF TypeOK
  <2> QED BY <2>1, <2>4, <2>5, CommitTyped DEF Finish
<1> QED BY <1>1, <1>2, <1>3, <1>4 DEF Cancel
-----------------------------------------------------------------------------
(* expire_stale_bookings *)

LEMMA SweepTyped ==
  ASSUME Typed, NEW c \in Sessions, SweepBegin(c) \/ Sweep(c)
  PROVE  Typed'
<1> USE DEF At
<1>0. /\ callbacks \in [Bookings -> Nat] /\ tx \in [Sessions -> Transaction] /\ tx[c] \in Transaction
      /\ InHand(c) /\ TypeOK
  BY DEF Typed, TypeOK, RequestsInHand
<1>1. CASE SweepBegin(c)
  <2> DEFINE stale == {b \in lapsed : booking[b].status = "PENDING"}
             ks == {booking[b].schedule_id : b \in stale}
             t == [Idle EXCEPT !.pc = "sweep_next", !.bookings = stale,
                               !.schedules = ks, !.stale = stale]
  <2>1. tx' = [tx EXCEPT ![c] = t] /\ UNCHANGED <<store, lapsed, callbacks>>
    BY <1>1 DEF SweepBegin
  <2>2. \A b \in stale : b \in Bookings /\ booking[b] # NoBooking /\ booking[b].schedule_id \in Schedules
    BY <1>0, RowPresent DEF TypeOK
  <2>3. stale \in SUBSET Bookings /\ ks \in SUBSET Schedules
    BY <2>2
  <2> HIDE DEF stale, ks
  <2>4. t \in Transaction
    BY <2>3 DEF Idle, NoCounter, Transaction, Points, NotLoaded
  <2>5. /\ t.pc = "sweep_next" /\ t.bookings = stale /\ t.stale = stale /\ t.held = {}
        /\ t.unavailable = {}
    BY DEF Idle
  <2>6. tx'[c] = t /\ booking' = booking
    BY <1>0, <2>1 DEF store
  <2> HIDE DEF t
  <2>7. InHand(c)'
    BY <2>2, <2>5, <2>6 DEF InHand, OnBooking, Paying, Sweeping
  <2> QED BY <1>0, <2>1, <2>2, <2>4, <2>5, <2>7, OneRequest
<1>2. CASE SweepNext(c)
  <2> PICK b \in tx[c].stale :
        /\ tx' = [tx EXCEPT ![c].pc = "sweep_seats", ![c].b = b,
                     ![c].seats = booking[b].seats, ![c].stale = @ \ {b}]
        /\ tx[c].pc = "sweep_next" /\ UNCHANGED <<store, lapsed, callbacks>>
    BY <1>2 DEF SweepNext
  <2> DEFINE t == [tx[c] EXCEPT !.pc = "sweep_seats", !.b = b,
                     !.seats = booking[b].seats, !.stale = @ \ {b}]
  <2>1. b \in Bookings /\ booking[b].seats \in SUBSET Seats /\ tx[c].stale \in SUBSET Bookings
    BY <1>0, RowPresent DEF Transaction
  <2>2. t \in Transaction /\ tx' = [tx EXCEPT ![c] = t] /\ tx'[c] = t
    BY <1>0, <2>1 DEF Transaction, Points
  <2>3. /\ t.pc = "sweep_seats" /\ t.b = b /\ t.bookings = tx[c].bookings
        /\ t.stale = tx[c].stale \ {b} /\ t.seats = booking[b].seats /\ t.held = tx[c].held
        /\ t.unavailable = tx[c].unavailable
    BY <1>0 DEF Transaction
  <2>4. booking' = booking
    BY DEF store
  <2> HIDE DEF t
  <2>5. InHand(c)'
    BY <1>0, <2>2, <2>3, <2>4 DEF InHand, OnBooking, Paying, Sweeping
  <2> QED BY <1>0, <2>2, <2>3, <2>5, OneRequest
<1>3. CASE SweepSeat(c)
  BY <1>3, UpdateSeatRowTyped DEF SweepSeat
<1>4. CASE SweepReadSchedule(c)
  <2> DEFINE counter == AddToCounter(c, booking[tx[c].b].schedule_id, NSeats(c))
             t == [tx[c] EXCEPT !.pc = "sweep_next", !.counter = counter]
  <2>1. /\ tx[c].pc = "sweep_seats" /\ Todo(c) = {}
        /\ tx' = [tx EXCEPT ![c].pc = "sweep_next", ![c].counter = counter]
        /\ UNCHANGED <<store, lapsed, callbacks>> /\ booking' = booking
    BY <1>4 DEF SweepReadSchedule, store
  <2>2. booking[tx[c].b].schedule_id \in Schedules
    <3>1. tx[c].b \in tx[c].bookings /\ tx[c].bookings \in SUBSET Bookings /\ booking[tx[c].b] # NoBooking
      BY <1>0, <2>1 DEF InHand, Sweeping, Transaction
    <3> QED BY <1>0, <3>1, RowPresent
  <2>3. counter \in [Schedules -> Int \cup {None}]
    BY <1>0, <2>2, SeatsOfRequest, CounterType
  <2> HIDE DEF counter
  <2>4. t \in Transaction /\ tx' = [tx EXCEPT ![c] = t] /\ tx'[c] = t
    BY <1>0, <2>1, <2>3 DEF Transaction, Points
  <2>5. /\ t.pc = "sweep_next" /\ t.b = tx[c].b /\ t.bookings = tx[c].bookings
        /\ t.stale = tx[c].stale /\ t.held = tx[c].held /\ t.unavailable = tx[c].unavailable
    BY <1>0 DEF Transaction
  <2> HIDE DEF t
  <2>6. /\ tx[c].unavailable = {} /\ booking[tx[c].b].seats \subseteq tx[c].held
        /\ tx[c].stale \subseteq tx[c].bookings
        /\ \A b \in tx[c].bookings : booking[b] # NoBooking
        /\ \A b \in tx[c].bookings \ tx[c].stale : b = tx[c].b \/ booking[b].seats \subseteq tx[c].held
        /\ \A s \in tx[c].held : \E b \in tx[c].bookings : s \in booking[b].seats
    BY <1>0, <2>1 DEF InHand, Sweeping, Todo
  <2>7. InHand(c)'
    BY <2>1, <2>4, <2>5, <2>6 DEF InHand, OnBooking, Paying, Sweeping
  <2> QED BY <1>0, <2>1, <2>4, <2>5, <2>7, OneRequest
<1>5. CASE SweepCommit(c)
  <2>1. /\ tx[c].pc = "sweep_next" /\ seat' = Released(c)
        /\ booking' = [b \in Bookings |-> IF b \in tx[c].bookings
                         THEN [booking[b] EXCEPT !.status = "EXPIRED"] ELSE booking[b]]
        /\ WriteCounters(tx[c].counter)
        /\ tx' = [tx EXCEPT ![c] = Idle] /\ UNCHANGED <<payment, lapsed, callbacks>>
    BY <1>5 DEF SweepCommit, Finish
  <2>2. available' \in [Schedules -> Int] /\ seat' \in [Seats -> SeatRow]
    BY <1>0, <2>1, WrittenType, ReleasedType DEF Transaction
  <2>3. \A b \in tx[c].bookings : booking[b] # NoBooking
    BY <1>0, <2>1 DEF InHand, Sweeping
  <2>4. \A b \in Bookings : booking'[b] \in BookingRow
    BY <1>0, <2>1, <2>3, RowPresent DEF TypeOK, BookingRow, BookingStatus
  <2>5. /\ booking' \in [Bookings -> BookingRow]
        /\ \A b \in Bookings : booking[b] # NoBooking =>
             booking'[b] # NoBooking /\ booking'[b].seats = booking[b].seats
        /\ \A b \in Bookings : booking[b] = NoBooking => booking'[b] = NoBooking
    BY <1>0, <2>1, <2>3, <2>4, RowPresent DEF NoBooking
  <2>6. TypeOK'
    BY <1>0, <2>1, <2>2, <2>5, IdleType DEF TypeOK
  <2> QED BY <2>1, <2>5, <2>6, CommitTyped DEF Finish
<1> QED BY <1>1, <1>2, <1>3, <1>4, <1>5 DEF Sweep

-----------------------------------------------------------------------------
(* initiate_payment and confirm_payment *)

LEMMA PayBeginTyped ==
  ASSUME Typed, NEW c \in Sessions, PayBegin(c) \/ CallbackBegin(c)
  PROVE  Typed'
<1>0. callbacks \in [Bookings -> Nat] /\ tx \in [Sessions -> Transaction] /\ TypeOK /\ payment \in [Bookings -> PaymentStatus \cup {"ABSENT"}]
  BY DEF Typed, TypeOK
<1>1. CASE PayBegin(c)
  <2> PICK b \in Bookings :
        /\ booking[b].status = "PENDING"
        /\ tx' = [tx EXCEPT ![c] = Request("pay_check", b, booking[b].schedule_id,
                     booking[b].seats, NoCounter,
                     [status |-> booking[b].status, payment_status |-> booking[b].payment_status,
                      payment |-> "ABSENT"])]
        /\ UNCHANGED <<store, lapsed, callbacks>>
    BY <1>1 DEF PayBegin
  <2> DEFINE r == [status |-> booking[b].status, payment_status |-> booking[b].payment_status,
                   payment |-> "ABSENT"]
             t == Request("pay_check", b, booking[b].schedule_id, booking[b].seats, NoCounter, r)
  <2>1. /\ booking[b] # NoBooking /\ booking[b].schedule_id \in Schedules
        /\ booking[b].seats \in SUBSET Seats
        /\ booking[b].status \in BookingStatus /\ booking[b].payment_status \in PaymentStatus
    BY <1>0, RowPresent
  <2>2. t \in Transaction
    BY <2>1 DEF Request, NoCounter, Transaction, Points
  <2>3. /\ t.b = b /\ t.bookings = {b} /\ t.seats = booking[b].seats /\ t.held = {}
        /\ t.unavailable = {} /\ tx' = [tx EXCEPT ![c] = t]
        /\ t.pc \in {"cancel_seats", "pay_check", "verify"} /\ t.row.status = "PENDING"
    BY DEF Request
  <2> HIDE DEF t
  <2>4. UNCHANGED <<store, lapsed>> /\ callbacks' \in [Bookings -> Nat]
    BY <1>0
  <2> QED BY ONLY Typed, c \in Sessions, b \in Bookings, <2>1, <2>2, <2>3, <2>4, BeginTyped
<1>2. CASE CallbackBegin(c)
  <2> PICK b \in Bookings :
        /\ Redirects /\ payment[b] # "ABSENT"
        /\ callbacks' = [callbacks EXCEPT ![b] = @ + 1]
        /\ tx' = [tx EXCEPT ![c] = Request("verify", b, booking[b].schedule_id,
                     booking[b].seats, NoCounter, [NotLoaded EXCEPT !.payment = payment[b]])]
        /\ UNCHANGED <<store, lapsed>>
    BY <1>2 DEF CallbackBegin
  <2> DEFINE r == [NotLoaded EXCEPT !.payment = payment[b]]
             t == Request("verify", b, booking[b].schedule_id, booking[b].seats, NoCounter, r)
  <2>1. /\ booking[b] # NoBooking /\ booking[b].schedule_id \in Schedules
        /\ booking[b].seats \in SUBSET Seats /\ payment[b] \in PaymentStatus
    BY <1>0, RowPresent DEF Typed, PaymentsBelong
  <2>2. t \in Transaction
    BY <2>1 DEF Request, NoCounter, Transaction, Points, NotLoaded
  <2>3. /\ t.b = b /\ t.bookings = {b} /\ t.seats = booking[b].seats /\ t.held = {}
        /\ t.unavailable = {} /\ tx' = [tx EXCEPT ![c] = t]
        /\ t.pc \in {"cancel_seats", "pay_check", "verify"}
        /\ t.pc \in Paying /\ ~Redirects => t.row.status = "PENDING"
    BY DEF Request
  <2> HIDE DEF t
  <2>4. UNCHANGED <<store, lapsed>> /\ callbacks' \in [Bookings -> Nat]
    BY <1>0
  <2> QED BY ONLY Typed, c \in Sessions, b \in Bookings, <2>1, <2>2, <2>3, <2>4, BeginTyped
<1> QED BY <1>1, <1>2

LEMMA PayTyped ==
  ASSUME Typed, NEW c \in Sessions, Pay(c)
  PROVE  Typed'
<1> USE DEF At
<1> DEFINE b == tx[c].b
<1>0. /\ callbacks \in [Bookings -> Nat] /\ tx \in [Sessions -> Transaction] /\ tx[c] \in Transaction
      /\ InHand(c) /\ TypeOK
  BY DEF Typed, TypeOK, RequestsInHand
<1>1. ASSUME tx[c].pc \in OnBooking
      PROVE  b \in Bookings /\ booking[b] # NoBooking /\ b \in tx[c].bookings
  BY <1>0, <1>1 DEF InHand
<1>2. ASSUME NEW u, booking' = [booking EXCEPT ![b] = u], tx[c].pc \in OnBooking,
             u \in BookingRow, u # NoBooking, u.seats = booking[b].seats
      PROVE  /\ booking' \in [Bookings -> BookingRow]
             /\ \A x \in Bookings : booking[x] # NoBooking =>
                  booking'[x] # NoBooking /\ booking'[x].seats = booking[x].seats
             /\ \A x \in Bookings : booking[x] = NoBooking => booking'[x] = NoBooking
  BY <1>0, <1>1, <1>2 DEF TypeOK
<1>3. CASE PayCheck(c)
  <2> DEFINE t == [tx[c] EXCEPT !.pc = "pay_commit"]
  <2>1. /\ t \in Transaction /\ tx' = [tx EXCEPT ![c] = t] /\ tx'[c] = t
        /\ UNCHANGED <<store, lapsed, callbacks>> /\ booking' = booking
    BY <1>0, <1>3 DEF PayCheck, Transaction, Points, store
  <2>2. /\ tx[c].pc = "pay_check" /\ t.pc = "pay_commit" /\ t.b = b
        /\ t.bookings = tx[c].bookings /\ t.seats = tx[c].seats /\ t.held = tx[c].held
        /\ t.unavailable = tx[c].unavailable /\ t.row = tx[c].row
    BY <1>0, <1>3 DEF PayCheck, Transaction
  <2> HIDE DEF t
  <2>3. InHand(c)'
    BY <1>0, <2>1, <2>2 DEF InHand, OnBooking, Paying, Sweeping
  <2> QED BY <1>0, <2>1, <2>2, <2>3, OneRequest
<1>4. CASE PayReject(c) \/ PayUnavailable(c) \/ VerifyError(c)
  BY <1>4, FinishTyped DEF PayReject, PayUnavailable, VerifyError
<1>5. CASE PayCommit(c)
  <2> DEFINE u == [booking[b] EXCEPT !.payment_status =
                     Column(tx[c].row.payment_status, "PROCESSING", @)]
             t == [tx[c] EXCEPT !.pc = "verify", !.row.payment_status = "PROCESSING",
                                !.row.payment = "PROCESSING"]
  <2>1. /\ tx[c].pc = "pay_commit" /\ payment' = [payment EXCEPT ![b] = "PROCESSING"]
        /\ booking' = [booking EXCEPT ![b].payment_status =
                         Column(tx[c].row.payment_status, "PROCESSING", @)]
        /\ IF Redirects THEN Finish(c)
           ELSE tx' = [tx EXCEPT ![c].pc = "verify",
                   ![c].row.payment_status = "PROCESSING", ![c].row.payment = "PROCESSING"]
        /\ UNCHANGED <<seat, available, lapsed, callbacks>>
    BY <1>5 DEF PayCommit
  <2>2. b \in Bookings /\ booking[b] # NoBooking /\ b \in tx[c].bookings
    BY <1>1, <2>1 DEF OnBooking
  <2>3. u \in BookingRow /\ u # NoBooking /\ u.seats = booking[b].seats
    BY <1>0, <2>2, RowPresent DEF BookingRow, PaymentStatus, BookingStatus, NoBooking, Column
  <2>4. booking' = [booking EXCEPT ![b] = u]
    BY <2>1
  <2>5. /\ booking' \in [Bookings -> BookingRow]
        /\ \A x \in Bookings : booking[x] # NoBooking =>
             booking'[x] # NoBooking /\ booking'[x].seats = booking[x].seats
        /\ \A x \in Bookings : booking[x] = NoBooking => booking'[x] = NoBooking
    BY <1>2, <2>1, <2>3, <2>4 DEF OnBooking
  <2>6. /\ payment' \in [Bookings -> PaymentStatus \cup {"ABSENT"}]
        /\ \A x \in Bookings : payment'[x] = payment[x] \/ booking[x] # NoBooking
    BY <1>0, <2>1, <2>2 DEF TypeOK, PaymentStatus
  <2>7. CASE Redirects
    <3>1. Finish(c) /\ TypeOK'
      BY <1>0, <2>1, <2>5, <2>6, <2>7, IdleType DEF TypeOK, Finish
    <3> QED BY <2>5, <2>6, <3>1, CommitTyped
  <2>8. CASE ~Redirects
    <3>1. t \in Transaction /\ tx' = [tx EXCEPT ![c] = t] /\ tx'[c] = t
      BY <1>0, <2>1, <2>8 DEF Transaction, Points, PaymentStatus
    <3>2. /\ t.pc = "verify" /\ t.b = b /\ t.bookings = tx[c].bookings
          /\ t.seats = tx[c].seats /\ t.held = tx[c].held
          /\ t.unavailable = tx[c].unavailable /\ t.row.status = tx[c].row.status
      BY <1>0 DEF Transaction
    <3> HIDE DEF t
    <3>3. TypeOK'
      BY <1>0, <2>1, <2>5, <2>6, <3>1 DEF TypeOK
    <3>4. InHand(c)'
      BY <1>0, <2>1, <2>2, <2>5, <3>1, <3>2 DEF InHand, OnBooking, Paying, Sweeping
    <3>5. RequestsInHand'
      BY <2>5, <3>1, <3>2, <3>4, OthersInHand
    <3>6. PaymentsBelong'
      BY <2>5, <2>6 DEF Typed, PaymentsBelong
    <3> QED BY <3>3, <3>5, <3>6 DEF Typed
  <2> QED BY <2>7, <2>8
<1>6. CASE VerifyOk(c) \/ VerifyFailed(c)
  <2> PICK p \in {"book_seats", "fail"} :
        /\ tx[c].pc = "verify" /\ UNCHANGED <<store, lapsed, callbacks>>
        /\ tx' = [tx EXCEPT ![c].pc = p, ![c].row = LoadBooking(c)]
    BY <1>6 DEF VerifyOk, VerifyFailed
  <2> DEFINE r == LoadBooking(c)
             t == [tx[c] EXCEPT !.pc = p, !.row = r]
  <2>1. b \in Bookings /\ booking[b] # NoBooking
    BY <1>1 DEF OnBooking
  <2>2. booking[b].status \in BookingStatus /\ booking[b].payment_status \in PaymentStatus
    BY <1>0, <2>1, RowPresent
  <2>3. /\ r \in [status : BookingStatus \cup {"ABSENT"},
                  payment_status : PaymentStatus \cup {"ABSENT"},
                  payment : PaymentStatus \cup {"ABSENT"}]
        /\ tx[c].row.status = "PENDING" => r.status = "PENDING"
    BY <1>0, <2>2 DEF LoadBooking, Transaction
  <2> HIDE DEF r
  <2>4. t \in Transaction /\ tx' = [tx EXCEPT ![c] = t] /\ tx'[c] = t /\ booking' = booking
    BY <1>0, <2>3 DEF Transaction, Points, r, store
  <2>5. /\ t.pc = p /\ t.b = b /\ t.bookings = tx[c].bookings /\ t.seats = tx[c].seats
        /\ t.held = tx[c].held /\ t.unavailable = tx[c].unavailable /\ t.row = r
    BY <1>0 DEF Transaction
  <2> HIDE DEF t
  <2>6. InHand(c)'
    BY <1>0, <2>3, <2>4, <2>5 DEF InHand, OnBooking, Paying, Sweeping
  <2> QED BY <1>0, <2>4, <2>5, <2>6, OneRequest
<1>7. CASE BookSeat(c)
  BY <1>7, UpdateSeatRowTyped DEF BookSeat
<1>8. CASE ConfirmCommit(c)
  <2> DEFINE u == [booking[b] EXCEPT
                     !.status = Column(tx[c].row.status, "CONFIRMED", @),
                     !.payment_status = Column(tx[c].row.payment_status, "COMPLETED", @)]
  <2>1. /\ tx[c].pc = "book_seats" /\ Finish(c) /\ UNCHANGED <<available, lapsed, callbacks>>
        /\ seat' = [s \in Seats |-> IF s \in tx[c].held
                     THEN [seat[s] EXCEPT !.status = "BOOKED"] ELSE seat[s]]
        /\ booking' = [booking EXCEPT
             ![b].status = Column(tx[c].row.status, "CONFIRMED", @),
             ![b].payment_status = Column(tx[c].row.payment_status, "COMPLETED", @)]
        /\ payment' = [payment EXCEPT ![b] = Column(tx[c].row.payment, "COMPLETED", @)]
    BY <1>8 DEF ConfirmCommit
  <2>2. b \in Bookings /\ booking[b] # NoBooking
    BY <1>1, <2>1 DEF OnBooking
  <2>3. u \in BookingRow /\ u # NoBooking /\ u.seats = booking[b].seats
    BY <1>0, <2>2, RowPresent DEF BookingRow, PaymentStatus, BookingStatus, NoBooking, Column
  <2>4. booking' = [booking EXCEPT ![b] = u]
    BY <1>0, <2>1 DEF TypeOK, BookingRow, NoBooking
  <2>5. /\ booking' \in [Bookings -> BookingRow]
        /\ \A x \in Bookings : booking[x] # NoBooking =>
             booking'[x] # NoBooking /\ booking'[x].seats = booking[x].seats
        /\ \A x \in Bookings : booking[x] = NoBooking => booking'[x] = NoBooking
    BY <1>2, <2>1, <2>3, <2>4 DEF OnBooking
  <2>6. /\ payment' \in [Bookings -> PaymentStatus \cup {"ABSENT"}]
        /\ \A x \in Bookings : payment'[x] = payment[x] \/ booking[x] # NoBooking
    BY <1>0, <2>1, <2>2 DEF TypeOK, PaymentStatus, Column
  <2>7. seat' \in [Seats -> SeatRow]
    BY <1>0, <2>1 DEF TypeOK, SeatRow, SeatStatus
  <2>8. TypeOK'
    BY <1>0, <2>1, <2>5, <2>6, <2>7, IdleType DEF TypeOK, Finish
  <2> QED BY <2>1, <2>5, <2>6, <2>8, CommitTyped
<1>9. CASE FailCommit(c)
  <2> DEFINE u == [booking[b] EXCEPT !.payment_status =
                     Column(tx[c].row.payment_status, "FAILED", @)]
  <2>1. /\ tx[c].pc = "fail" /\ Finish(c) /\ UNCHANGED <<seat, available, lapsed, callbacks>>
        /\ booking' = [booking EXCEPT ![b].payment_status =
                         Column(tx[c].row.payment_status, "FAILED", @)]
        /\ payment' = [payment EXCEPT ![b] = Column(tx[c].row.payment, "FAILED", @)]
    BY <1>9 DEF FailCommit
  <2>2. b \in Bookings /\ booking[b] # NoBooking
    BY <1>1, <2>1 DEF OnBooking
  <2>3. u \in BookingRow /\ u # NoBooking /\ u.seats = booking[b].seats
    BY <1>0, <2>2, RowPresent DEF BookingRow, PaymentStatus, BookingStatus, NoBooking, Column
  <2>4. booking' = [booking EXCEPT ![b] = u]
    BY <2>1
  <2>5. /\ booking' \in [Bookings -> BookingRow]
        /\ \A x \in Bookings : booking[x] # NoBooking =>
             booking'[x] # NoBooking /\ booking'[x].seats = booking[x].seats
        /\ \A x \in Bookings : booking[x] = NoBooking => booking'[x] = NoBooking
    BY <1>2, <2>1, <2>3, <2>4 DEF OnBooking
  <2>6. /\ payment' \in [Bookings -> PaymentStatus \cup {"ABSENT"}]
        /\ \A x \in Bookings : payment'[x] = payment[x] \/ booking[x] # NoBooking
    BY <1>0, <2>1, <2>2 DEF TypeOK, PaymentStatus, Column
  <2>7. TypeOK'
    BY <1>0, <2>1, <2>5, <2>6, IdleType DEF TypeOK, Finish
  <2> QED BY <2>1, <2>5, <2>6, <2>7, CommitTyped
<1> QED BY <1>3, <1>4, <1>5, <1>6, <1>7, <1>8, <1>9 DEF Pay

-----------------------------------------------------------------------------
(* The type invariant *)

LEMMA TypedInit == Init => Typed
<1> SUFFICES ASSUME Init PROVE Typed
  OBVIOUS
<1>1. seat \in [Seats -> SeatRow] /\ booking \in [Bookings -> BookingRow]
  BY DEF Init, FreeSeat, SeatRow, SeatStatus, BookingRow
<1>2. available \in [Schedules -> Int]
  BY SeatCount DEF Init
<1>3. TypeOK
  BY <1>1, <1>2, IdleType DEF Init, TypeOK
<1>4. RequestsInHand
  BY DEF Init, RequestsInHand, InHand, Idle, OnBooking, Paying, Sweeping
<1>5. PaymentsBelong
  BY DEF Init, PaymentsBelong
<1> QED BY <1>3, <1>4, <1>5 DEF Typed

LEMMA TypedNext == Typed /\ [Next]_vars => Typed'
<1> SUFFICES ASSUME Typed, [Next]_vars PROVE Typed'
  OBVIOUS
<1>1. ASSUME NEW c \in Sessions, Begin(c) PROVE Typed'
  BY <1>1, CreateTyped, CancelTyped, SweepTyped, PayBeginTyped DEF Begin
<1>2. ASSUME NEW c \in Sessions, Serve(c) PROVE Typed'
  BY <1>2, CreateTyped, CancelTyped, SweepTyped, PayTyped DEF Serve
<1>3. ASSUME NEW c \in Sessions, Abort(c) \/ DeadlockVictim(c) PROVE Typed'
  BY <1>3, FinishTyped DEF Abort, DeadlockVictim
<1>4. ASSUME NEW b \in Bookings, Lapse(b) PROVE Typed'
  BY <1>4 DEF Lapse, store, Typed, TypeOK, RequestsInHand, InHand, PaymentsBelong
<1>5. CASE UNCHANGED vars
  BY <1>5 DEF vars, Typed, TypeOK, RequestsInHand, InHand, PaymentsBelong
<1> QED BY <1>1, <1>2, <1>3, <1>4, <1>5 DEF Next

\* Every variable keeps to its type in every behaviour, and requests keep in hand rows that
\* exist, whatever overlaps, fails, is swept or called back.
THEOREM TypeCorrect == Spec => [](TypeOK /\ RequestsInHand)
<1>1. Typed => TypeOK /\ RequestsInHand
  BY DEF Typed
<1> QED BY <1>1, TypedInit, TypedNext, PTL DEF Spec

\* Whatever overlaps, a request's rows are there and keep their seats while it works on them,
\* and after its UPDATEs every one of them is locked by it: what a commit writes is complete.
THEOREM RequestsKeepHand == Spec => []RequestsInHand
  BY TypeCorrect, PTL
-----------------------------------------------------------------------------
(* Whose rows a step writes                                                *)

\* What every step of a request c does to the others: nothing to their sessions, and it writes
\* only bookings it works on and their payments.
WritesItsOwn(c) ==
  /\ \A d \in Sessions \ {c} : tx'[d] = tx[d]
  /\ \A b \in Bookings \ tx[c].bookings : booking'[b] = booking[b] /\ payment'[b] = payment[b]

LEMMA WritesFew ==
  ASSUME Typed, NEW c \in Sessions, Begin(c) \/ Serve(c) \/ Abort(c) \/ DeadlockVictim(c)
  PROVE  WritesItsOwn(c)
<1> USE DEF At
<1>0. /\ tx \in [Sessions -> Transaction] /\ tx[c] \in Transaction /\ InHand(c)
      /\ booking \in [Bookings -> BookingRow]
      /\ payment \in [Bookings -> PaymentStatus \cup {"ABSENT"}]
  BY DEF Typed, TypeOK, RequestsInHand
<1>1. CASE Begin(c)
  BY <1>0, <1>1 DEF Begin, CreateBegin, CancelBegin, SweepBegin, PayBegin, CallbackBegin,
     WritesItsOwn, store
<1>2. CASE LockSeat(c) \/ SeatTaken(c) \/ ReleaseSeat(c) \/ SweepSeat(c) \/ BookSeat(c)
  BY <1>0, <1>2 DEF LockSeat, SeatTaken, ReleaseSeat, SweepSeat, BookSeat, UpdateSeatRow,
     WritesItsOwn, store
<1>3. CASE \/ CancelReadSchedule(c) \/ SweepNext(c) \/ SweepReadSchedule(c)
           \/ PayCheck(c) \/ VerifyOk(c) \/ VerifyFailed(c)
  BY <1>0, <1>3 DEF CancelReadSchedule, SweepNext, SweepReadSchedule, PayCheck, VerifyOk,
     VerifyFailed, WritesItsOwn, store
<1>4. CASE \/ CreateConflict(c) \/ PayReject(c) \/ PayUnavailable(c) \/ VerifyError(c)
           \/ Abort(c) \/ DeadlockVictim(c)
  BY <1>0, <1>4 DEF CreateConflict, PayReject, PayUnavailable, VerifyError, Abort, DeadlockVictim,
     Finish, WritesItsOwn, store
<1>5. CASE CreateCommit(c) \/ CancelCommit(c) \/ PayCommit(c) \/ ConfirmCommit(c) \/ FailCommit(c)
  <2>1. tx[c].bookings = {tx[c].b}
    BY <1>0, <1>5 DEF CreateCommit, CancelCommit, PayCommit, ConfirmCommit, FailCommit,
       InHand, OnBooking
  <2>2. CASE CreateCommit(c) \/ CancelCommit(c)
    BY <1>0, <2>1, <2>2 DEF CreateCommit, CancelCommit, Finish, WritesItsOwn
  <2>3. CASE PayCommit(c) \/ ConfirmCommit(c) \/ FailCommit(c)
    BY <1>0, <2>1, <2>3 DEF PayCommit, ConfirmCommit, FailCommit, Finish, WritesItsOwn
  <2> QED BY <1>5, <2>2, <2>3
<1>6. CASE SweepCommit(c)
  BY <1>0, <1>6 DEF SweepCommit, Finish, WritesItsOwn
<1> QED BY <1>1, <1>2, <1>3, <1>4, <1>5, <1>6 DEF Serve, Create, Cancel, Sweep, Pay

\* A request in flight goes on by one of these steps, or it ends.
LEMMA GoesOnOrEnds ==
  ASSUME NEW c \in Sessions, Serve(c) \/ Abort(c) \/ DeadlockVictim(c)
  PROVE  \/ Finish(c) \/ LockSeat(c) \/ SeatTaken(c) \/ ReleaseSeat(c) \/ SweepSeat(c)
         \/ CancelReadSchedule(c) \/ SweepNext(c) \/ SweepReadSchedule(c) \/ PayCheck(c)
         \/ BookSeat(c) \/ VerifyOk(c) \/ VerifyFailed(c) \/ (PayCommit(c) /\ ~Redirects)
  BY DEF Serve, Create, Cancel, Sweep, Pay, CreateConflict, CreateCommit, CancelCommit,
     SweepCommit, PayReject, PayUnavailable, PayCommit, VerifyError, ConfirmCommit, FailCommit,
     Abort, DeadlockVictim

-----------------------------------------------------------------------------
(* No orphan seat.  The rows of a commit are exactly those of the bookings *)
(* whose status it writes (RequestsInHand), so whoever commits last leaves *)
(* row and status in agreement, whatever was read stale on the way, as     *)
(* long as a confirmation does write CONFIRMED (Confirms): it leaves the   *)
(* column out if its session loaded CONFIRMED, as a redelivered callback   *)
(* may do.                                                                 *)

\* Steps that write neither seat rows nor the status and seats of a booking.
Quiet ==
  /\ seat' = seat
  /\ \A b \in Bookings : /\ booking'[b].status = booking[b].status
                         /\ booking'[b].seats = booking[b].seats

LEMMA QuietSteps ==
  ASSUME Typed, [Next]_vars,
         \A c \in Sessions : ~CreateCommit(c) /\ ~CancelCommit(c) /\ ~SweepCommit(c) /\ ~ConfirmCommit(c)
  PROVE  Quiet
<1> USE DEF Quiet, store
<1>0. booking \in [Bookings -> BookingRow]
  BY DEF Typed, TypeOK
<1>1. ASSUME NEW c \in Sessions, Begin(c) PROVE Quiet
  BY <1>1 DEF Begin, CreateBegin, CancelBegin, SweepBegin, PayBegin, CallbackBegin
<1>2. ASSUME NEW c \in Sessions, Create(c) \/ Cancel(c) \/ Sweep(c) PROVE Quiet
  BY <1>2 DEF Create, LockSeat, SeatTaken, CreateConflict, Cancel, ReleaseSeat, UpdateSeatRow,
     CancelReadSchedule, Sweep, SweepNext, SweepSeat, SweepReadSchedule
<1>3. ASSUME NEW c \in Sessions, Pay(c) PROVE Quiet
  <2>1. CASE PayCommit(c) \/ FailCommit(c)
    <3> PICK u : booking' = [booking EXCEPT ![tx[c].b].payment_status = u] /\ seat' = seat
      BY <2>1 DEF PayCommit, FailCommit
    <3> QED BY <1>0 DEF BookingRow, NoBooking
  <2> QED BY <1>3, <2>1 DEF Pay, PayCheck, PayReject, PayUnavailable, VerifyOk, VerifyFailed,
             VerifyError, BookSeat, UpdateSeatRow
<1>4. ASSUME NEW c \in Sessions, Abort(c) \/ DeadlockVictim(c) PROVE Quiet
  BY <1>4 DEF Abort, DeadlockVictim
<1>5. ASSUME NEW b \in Bookings, Lapse(b) PROVE Quiet
  BY <1>5 DEF Lapse
<1>6. CASE UNCHANGED vars
  BY <1>6 DEF vars
<1> QED BY <1>1, <1>2, <1>3, <1>4, <1>5, <1>6 DEF Next, Serve

\* A booking whose confirmation commits is CONFIRMED then.
Confirms(c) == At(c, "book_seats") =>
                 Column(tx[c].row.status, "CONFIRMED", booking[tx[c].b].status) = "CONFIRMED"

LEMMA NoOrphanSeatNext ==
  ASSUME Typed, NoOrphanSeat, [Next]_vars, \A c \in Sessions : Confirms(c)
  PROVE  NoOrphanSeat'
<1> USE DEF At
<1>0. /\ booking \in [Bookings -> BookingRow] /\ seat \in [Seats -> SeatRow]
      /\ \A c \in Sessions : InHand(c) /\ tx[c] \in Transaction
      /\ \A b \in Bookings : booking[b] = NoBooking <=> booking[b].status = "ABSENT"
  BY RowPresent DEF Typed, TypeOK, RequestsInHand
<1>1. ASSUME NEW c \in Sessions, CreateCommit(c) PROVE NoOrphanSeat'
  <2> DEFINE b == tx[c].b
  <2>1. /\ tx[c].pc = "lock_seats"
        /\ seat' = [s \in Seats |-> IF s \in tx[c].held
                     THEN [status |-> "LOCKED", lockedBy |-> b] ELSE seat[s]]
        /\ \E k \in tx[c].schedules : booking' = [booking EXCEPT ![b] =
             [status |-> "PENDING", payment_status |-> "PENDING", schedule_id |-> k,
              seats |-> tx[c].seats]]
    BY <1>1 DEF CreateCommit
  <2>2. b \in Bookings /\ booking[b].status = "ABSENT" /\ tx[c].held \subseteq tx[c].seats
    BY <1>0, <2>1 DEF InHand
  <2>3. /\ booking'[b].status = "PENDING" /\ booking'[b].seats = tx[c].seats
        /\ \A x \in Bookings \ {b} : booking'[x] = booking[x]
    BY <1>0, <2>1, <2>2
  <2> QED BY <2>1, <2>2, <2>3 DEF NoOrphanSeat
<1>2. ASSUME NEW c \in Sessions, CancelCommit(c) PROVE NoOrphanSeat'
  <2> DEFINE b == tx[c].b
  <2>1. /\ tx[c].pc = "cancel_commit" /\ booking' = [booking EXCEPT ![b].status = "CANCELLED"]
        /\ seat' = [s \in Seats |-> IF s \in tx[c].held THEN FreeSeat ELSE seat[s]]
    BY <1>2 DEF CancelCommit, Released
  <2>2. b \in Bookings /\ tx[c].held = booking[b].seats
    BY <1>0, <2>1 DEF InHand, OnBooking
  <2>3. \A x \in Bookings \ {b} : booking'[x] = booking[x]
    BY <1>0, <2>1, <2>2
  <2> QED BY <2>1, <2>2, <2>3 DEF NoOrphanSeat, FreeSeat
<1>3. ASSUME NEW c \in Sessions, SweepCommit(c) PROVE NoOrphanSeat'
  <2>1. /\ tx[c].pc = "sweep_next" /\ tx[c].stale = {}
        /\ booking' = [b \in Bookings |-> IF b \in tx[c].bookings
                         THEN [booking[b] EXCEPT !.status = "EXPIRED"] ELSE booking[b]]
        /\ seat' = [s \in Seats |-> IF s \in tx[c].held THEN FreeSeat ELSE seat[s]]
    BY <1>3 DEF SweepCommit, Released
  <2>2. \A b \in tx[c].bookings : booking[b].seats \subseteq tx[c].held
    BY <1>0, <2>1 DEF InHand, Sweeping
  <2>3. \A b \in Bookings \ tx[c].bookings : booking'[b] = booking[b]
    BY <1>0, <2>1
  <2> QED BY <2>1, <2>2, <2>3 DEF NoOrphanSeat, FreeSeat
<1>4. ASSUME NEW c \in Sessions, ConfirmCommit(c) PROVE NoOrphanSeat'
  <2> DEFINE b == tx[c].b
  <2>1. /\ tx[c].pc = "book_seats" /\ Todo(c) = {}
        /\ booking' = [booking EXCEPT
             ![b].status = Column(tx[c].row.status, "CONFIRMED", @),
             ![b].payment_status = Column(tx[c].row.payment_status, "COMPLETED", @)]
        /\ seat' = [s \in Seats |-> IF s \in tx[c].held
                     THEN [seat[s] EXCEPT !.status = "BOOKED"] ELSE seat[s]]
    BY <1>4 DEF ConfirmCommit
  <2>2. /\ b \in Bookings /\ tx[c].held \subseteq booking[b].seats
        /\ booking[b].seats \subseteq tx[c].held
    BY <1>0, <2>1 DEF InHand, OnBooking, Todo
  <2>5. Column(tx[c].row.status, "CONFIRMED", booking[b].status) = "CONFIRMED"
    BY <2>1 DEF Confirms
  <2>3. /\ booking'[b].status = "CONFIRMED" /\ booking'[b].seats = booking[b].seats
        /\ \A x \in Bookings \ {b} : booking'[x] = booking[x]
    BY <1>0, <2>1, <2>2, <2>5 DEF BookingRow, NoBooking
  <2>4. /\ \A s \in tx[c].held : seat'[s].status = "BOOKED"
        /\ \A s \in Seats \ tx[c].held : seat'[s] = seat[s]
        /\ tx[c].held \subseteq Seats
    BY <1>0, <2>1 DEF Transaction, SeatRow
  <2> QED BY <2>2, <2>3, <2>4 DEF NoOrphanSeat
<1>5. CASE \A c \in Sessions : ~CreateCommit(c) /\ ~CancelCommit(c) /\ ~SweepCommit(c) /\ ~ConfirmCommit(c)
  BY <1>5, QuietSteps DEF Quiet, NoOrphanSeat
<1> QED BY <1>1, <1>2, <1>3, <1>4, <1>5

LEMMA ConfirmsAlways ==
  ASSUME ~Redirects, Typed, NEW c \in Sessions
  PROVE  Confirms(c)
  BY DEF Confirms, Column, Typed, RequestsInHand, InHand, Paying, At

\* With a gateway that confirms in the request itself (the shipped one), no interleaving of
\* any number of requests, deaths, deadlocks and sweeps leaves a seat LOCKED or BOOKED without
\* the booking that can release it.
THEOREM NoOrphanSeatSafe ==
  ASSUME ~Redirects
  PROVE  Spec => []NoOrphanSeat
<1>1. Init => Typed /\ NoOrphanSeat
  BY TypedInit DEF Init, NoOrphanSeat, FreeSeat
<1>2. Typed /\ NoOrphanSeat /\ [Next]_vars => Typed' /\ NoOrphanSeat'
  BY TypedNext, NoOrphanSeatNext, ConfirmsAlways
<1> QED BY <1>1, <1>2, PTL DEF Spec
-----------------------------------------------------------------------------
(* No double booking, for clients and sweeps that never work on one        *)
(* booking at once.  What the request read when it began then still holds  *)
(* when it commits (ChecksStillHold), so a seat is released by its owner   *)
(* only.  This discipline is an assumption; no code enforces it.           *)

\* What every step of a request c does to locks, rows and statuses: it takes only free row
\* locks, writes only rows it has locked, and only bookings it works on.
KeepsToItsOwn(c) ==
  /\ \A d \in Sessions \ {c} : tx'[d] = tx[d]
  /\ \A s \in tx'[c].held : s \in tx[c].held \/ RowFree(c, s)
  /\ \A s \in Seats : s \notin tx[c].held => seat'[s] = seat[s]
  /\ At(c, "lock_seats")' => \A s \in tx'[c].held : seat'[s].status = "AVAILABLE"
  /\ \A b \in Bookings : b \notin tx[c].bookings => booking'[b].status = booking[b].status

LEMMA RowLocksStep ==
  ASSUME Typed, RowLocks, NEW c \in Sessions, KeepsToItsOwn(c)
  PROVE  RowLocks'
<1>0. \A d \in Sessions : tx[d].held \in SUBSET Seats
  BY DEF Typed, TypeOK, Transaction
<1>1. ASSUME NEW d \in Sessions, NEW e \in Sessions \ {d}
      PROVE  tx'[d].held \cap tx'[e].held = {}
  <2>1. CASE d = c
    BY <2>1 DEF RowLocks, KeepsToItsOwn, RowFree
  <2>2. CASE e = c
    BY <2>2 DEF RowLocks, KeepsToItsOwn, RowFree
  <2>3. CASE d # c /\ e # c
    BY <2>3 DEF RowLocks, KeepsToItsOwn
  <2> QED BY <2>1, <2>2, <2>3
<1>2. ASSUME NEW d \in Sessions, At(d, "lock_seats")', NEW s \in tx'[d].held
      PROVE  seat'[s].status = "AVAILABLE"
  <2>1. CASE d = c
    BY <1>2, <2>1 DEF KeepsToItsOwn
  <2>2. CASE d # c
    <3>1. tx'[d] = tx[d] /\ s \in Seats /\ s \notin tx[c].held /\ At(d, "lock_seats")
      BY <1>0, <1>2, <2>2 DEF RowLocks, KeepsToItsOwn, At
    <3> QED BY <3>1 DEF RowLocks, KeepsToItsOwn
  <2> QED BY <2>1, <2>2
<1> QED BY <1>1, <1>2 DEF RowLocks

LEMMA OwnTaken ==
  ASSUME Typed, RowLocks, NEW c \in Sessions, UpdateSeatRow(c), ~At(c, "lock_seats")
  PROVE  KeepsToItsOwn(c) /\ tx'[c].bookings = tx[c].bookings /\ tx'[c].pc = tx[c].pc
         /\ tx'[c].b = tx[c].b /\ booking' = booking
  BY DEF UpdateSeatRow, KeepsToItsOwn, Typed, TypeOK, Transaction, RowFree, At, store

LEMMA OwnFinish ==
  ASSUME Typed, NEW c \in Sessions, Finish(c)
  PROVE  /\ \A d \in Sessions \ {c} : tx'[d] = tx[d]
         /\ tx'[c] = Idle /\ Idle.held = {} /\ Idle.pc = "idle" /\ Idle.bookings = {}
  BY DEF Finish, Idle, Typed, TypeOK

LEMMA OwnCreate ==
  ASSUME Typed, RowLocks, NEW c \in Sessions, CreateBegin(c) \/ Create(c)
  PROVE  KeepsToItsOwn(c)
<1> USE DEF At
<1>0. tx \in [Sessions -> Transaction] /\ tx[c] \in Transaction /\ InHand(c)
  BY DEF Typed, TypeOK, RequestsInHand
<1>1. CASE CreateBegin(c)
  BY <1>0, <1>1 DEF CreateBegin, KeepsToItsOwn, Request, store
<1>2. CASE LockSeat(c)
  BY <1>0, <1>2 DEF LockSeat, KeepsToItsOwn, Transaction, RowLocks, store
<1>3. CASE SeatTaken(c)
  BY <1>0, <1>3 DEF SeatTaken, KeepsToItsOwn, Transaction, RowLocks, store
<1>4. CASE CreateConflict(c)
  BY <1>4, OwnFinish DEF CreateConflict, KeepsToItsOwn, store
<1>5. CASE CreateCommit(c)
  BY <1>0, <1>5, OwnFinish DEF CreateCommit, KeepsToItsOwn, InHand
<1> QED BY <1>1, <1>2, <1>3, <1>4, <1>5 DEF Create

LEMMA OwnCancel ==
  ASSUME Typed, RowLocks, NEW c \in Sessions, CancelBegin(c) \/ Cancel(c)
  PROVE  KeepsToItsOwn(c)
<1> USE DEF At
<1>0. /\ tx \in [Sessions -> Transaction] /\ tx[c] \in Transaction /\ InHand(c)
      /\ booking \in [Bookings -> BookingRow]
  BY DEF Typed, TypeOK, RequestsInHand
<1>1. CASE CancelBegin(c)
  BY <1>0, <1>1 DEF CancelBegin, KeepsToItsOwn, Request, store
<1>2. CASE ReleaseSeat(c)
  BY <1>2, OwnTaken DEF ReleaseSeat
<1>3. CASE CancelReadSchedule(c)
  BY <1>0, <1>3 DEF CancelReadSchedule, KeepsToItsOwn, Transaction, store
<1>4. CASE CancelCommit(c)
  BY <1>0, <1>4, OwnFinish DEF CancelCommit, Released, KeepsToItsOwn, InHand, OnBooking
<1> QED BY <1>1, <1>2, <1>3, <1>4 DEF Cancel

LEMMA OwnSweep ==
  ASSUME Typed, RowLocks, NEW c \in Sessions, SweepBegin(c) \/ Sweep(c)
  PROVE  KeepsToItsOwn(c)
<1> USE DEF At
<1>0. /\ tx \in [Sessions -> Transaction] /\ tx[c] \in Transaction /\ InHand(c)
      /\ booking \in [Bookings -> BookingRow]
  BY DEF Typed, TypeOK, RequestsInHand
<1>1. CASE SweepBegin(c)
  BY <1>0, <1>1 DEF SweepBegin, KeepsToItsOwn, Idle, store
<1>2. CASE SweepNext(c)
  BY <1>0, <1>2 DEF SweepNext, KeepsToItsOwn, Transaction, store
<1>3. CASE SweepSeat(c)
  BY <1>3, OwnTaken DEF SweepSeat
<1>4. CASE SweepReadSchedule(c)
  BY <1>0, <1>4 DEF SweepReadSchedule, KeepsToItsOwn, Transaction, store
<1>5. CASE SweepCommit(c)
  BY <1>0, <1>5, OwnFinish DEF SweepCommit, Released, KeepsToItsOwn
<1> QED BY <1>1, <1>2, <1>3, <1>4, <1>5 DEF Sweep

LEMMA OwnPay ==
  ASSUME Typed, RowLocks, NEW c \in Sessions, PayBegin(c) \/ CallbackBegin(c) \/ Pay(c)
  PROVE  KeepsToItsOwn(c)
<1> USE DEF At
<1>0. /\ tx \in [Sessions -> Transaction] /\ tx[c] \in Transaction /\ InHand(c)
      /\ booking \in [Bookings -> BookingRow]
  BY DEF Typed, TypeOK, RequestsInHand
<1>1. CASE PayBegin(c) \/ CallbackBegin(c)
  <2>1. CASE PayBegin(c)
    BY <1>0, <2>1 DEF PayBegin, KeepsToItsOwn, Request, store
  <2>2. CASE CallbackBegin(c)
    BY <1>0, <2>2 DEF CallbackBegin, KeepsToItsOwn, Request, store
  <2> QED BY <1>1, <2>1, <2>2
<1>2. CASE PayCheck(c) \/ VerifyOk(c) \/ VerifyFailed(c)
  <2>1. /\ UNCHANGED store
        /\ \A d \in Sessions \ {c} : tx'[d] = tx[d]
    BY <1>0, <1>2 DEF PayCheck, VerifyOk, VerifyFailed
  <2>2. CASE PayCheck(c)
    BY <1>0, <2>1, <2>2 DEF PayCheck, KeepsToItsOwn, Transaction, store
  <2>3. CASE VerifyOk(c)
    BY <1>0, <2>1, <2>3 DEF VerifyOk, KeepsToItsOwn, Transaction, store
  <2>4. CASE VerifyFailed(c)
    BY <1>0, <2>1, <2>4 DEF VerifyFailed, KeepsToItsOwn, Transaction, store
  <2> QED BY <1>2, <2>2, <2>3, <2>4
<1>3. CASE PayReject(c) \/ PayUnavailable(c) \/ VerifyError(c)
  BY <1>3, OwnFinish DEF PayReject, PayUnavailable, VerifyError, KeepsToItsOwn, store
<1>4. CASE BookSeat(c)
  BY <1>4, OwnTaken DEF BookSeat
<1>5. CASE PayCommit(c)
  <2>1. \A b \in Bookings : booking'[b].status = booking[b].status
    BY <1>0, <1>5 DEF PayCommit, BookingRow, NoBooking
  <2>2. CASE Redirects
    BY <1>5, <2>1, <2>2, OwnFinish DEF PayCommit, KeepsToItsOwn
  <2>3. CASE ~Redirects
    <3>1. /\ tx'[c].held = tx[c].held /\ tx'[c].pc = "verify" /\ seat' = seat
          /\ \A d \in Sessions \ {c} : tx'[d] = tx[d]
      BY <1>0, <1>5, <2>3 DEF PayCommit, Transaction
    <3> QED BY <2>1, <3>1 DEF KeepsToItsOwn
  <2> QED BY <2>2, <2>3
<1>6. CASE ConfirmCommit(c)
  <2>1. tx[c].bookings = {tx[c].b}
    BY <1>0, <1>6 DEF ConfirmCommit, InHand, OnBooking
  <2> QED BY <1>0, <1>6, <2>1, OwnFinish DEF ConfirmCommit, KeepsToItsOwn
<1>7. CASE FailCommit(c)
  <2>1. \A b \in Bookings : booking'[b].status = booking[b].status
    BY <1>0, <1>7 DEF FailCommit, BookingRow, NoBooking
  <2> QED BY <1>7, <2>1, OwnFinish DEF FailCommit, KeepsToItsOwn
<1> QED BY <1>1, <1>2, <1>3, <1>4, <1>5, <1>6, <1>7 DEF Pay

LEMMA OwnEnd ==
  ASSUME Typed, NEW c \in Sessions, Abort(c) \/ DeadlockVictim(c)
  PROVE  KeepsToItsOwn(c)
  BY OwnFinish DEF Abort, DeadlockVictim, KeepsToItsOwn, store, At

LEMMA RowLocksNext == Typed /\ RowLocks /\ [Next]_vars => RowLocks'
<1> SUFFICES ASSUME Typed, RowLocks, [Next]_vars PROVE RowLocks'
  OBVIOUS
<1>1. ASSUME NEW c \in Sessions, Begin(c) \/ Serve(c) \/ Abort(c) \/ DeadlockVictim(c)
      PROVE  KeepsToItsOwn(c)
  BY <1>1, OwnCreate, OwnCancel, OwnSweep, OwnPay, OwnEnd DEF Begin, Serve
<1>2. ASSUME NEW b \in Bookings, Lapse(b) PROVE RowLocks'
  BY <1>2 DEF Lapse, RowLocks, store, At
<1>3. CASE UNCHANGED vars
  BY <1>3 DEF vars, RowLocks, At
<1> QED BY <1>1, <1>2, <1>3, RowLocksStep DEF Next

\* Two transactions never have uncommitted writes on one seat, and a seat that a request
\* has locked for its new booking is AVAILABLE to everybody else until it commits.
THEOREM RowLocksHold == Spec => []RowLocks
<1>1. Init => RowLocks
  BY DEF Init, RowLocks, Idle, At
<1> QED BY <1>1, TypedInit, TypedNext, RowLocksNext, PTL DEF Spec

-----------------------------------------------------------------------------
(* The discipline: no check goes stale                                     *)

\* Nobody else works on the bookings of a request in flight, and what it checked when it began
\* still holds.
ChecksStillHold ==
  \A c \in Sessions :
    /\ \A d \in Sessions \ {c} : tx[c].bookings \cap tx[d].bookings = {}
    /\ Checked(c)

\* A request that keeps to its own rows, and works on no booking of another one, leaves
\* the others' checks as they were.
LEMMA ChecksStep ==
  ASSUME Typed, ChecksStillHold, NEW c \in Sessions, KeepsToItsOwn(c), Checked(c)',
         \A d \in Sessions \ {c} : tx'[c].bookings \cap tx[d].bookings = {}
  PROVE  ChecksStillHold'
<1>1. ASSUME NEW d \in Sessions, NEW e \in Sessions \ {d}
      PROVE  tx'[d].bookings \cap tx'[e].bookings = {}
  <2>1. CASE d = c
    BY <2>1 DEF KeepsToItsOwn
  <2>2. CASE e = c
    BY <2>2 DEF KeepsToItsOwn
  <2>3. CASE d # c /\ e # c
    BY <2>3 DEF KeepsToItsOwn, ChecksStillHold
  <2> QED BY <2>1, <2>2, <2>3
<1>2. ASSUME NEW d \in Sessions \ {c} PROVE Checked(d)'
  <2>1. tx'[d] = tx[d] /\ tx[d].bookings \in SUBSET Bookings /\ InHand(d) /\ Checked(d)
    BY DEF KeepsToItsOwn, Typed, TypeOK, Transaction, RequestsInHand, ChecksStillHold
  <2>2. \A b \in tx[d].bookings : booking'[b].status = booking[b].status
    BY <2>1 DEF KeepsToItsOwn, ChecksStillHold
  <2>3. tx[d].pc \in OnBooking => tx[d].b \in tx[d].bookings
    BY <2>1 DEF InHand
  <2> QED BY <2>1, <2>2, <2>3 DEF Checked, Live, OnBooking, Paying
<1> QED BY <1>1, <1>2 DEF ChecksStillHold

\* A request that begins under the discipline works on no booking of another one.
LEMMA ChecksBegin ==
  ASSUME Overlap # "any", Sweeps # "any", Typed, ChecksStillHold, NEW c \in Sessions, KeepsToItsOwn(c),
         NEW bs, NEW ks, MayStart(c, bs, ks), tx'[c].bookings = bs, Checked(c)'
  PROVE  ChecksStillHold'
<1>1. \A d \in Sessions \ {c} : tx'[c].bookings \cap tx[d].bookings = {}
  BY DEF MayStart
<1> QED BY <1>1, ChecksStep

\* A request that goes on, its bookings' statuses as they were.
LEMMA ChecksGoOn ==
  ASSUME Typed, ChecksStillHold, NEW c \in Sessions, KeepsToItsOwn(c),
         tx'[c].bookings = tx[c].bookings,
         \A b \in Bookings : booking'[b].status = booking[b].status,
         tx'[c].pc \in Sweeping \/ tx'[c].b = tx[c].b,
         \A P \in {{"cancel_seats", "cancel_commit"}, Paying, Sweeping} :
           tx'[c].pc \in P => tx[c].pc \in P
  PROVE  ChecksStillHold'
<1>1. /\ tx[c].bookings \in SUBSET Bookings /\ InHand(c) /\ Checked(c)
      /\ \A d \in Sessions \ {c} : tx[c].bookings \cap tx[d].bookings = {}
  BY DEF Typed, TypeOK, Transaction, RequestsInHand, ChecksStillHold
<1>2. tx[c].pc \in OnBooking => tx[c].b \in Bookings
  BY <1>1 DEF InHand
<1>3. Checked(c)'
  BY <1>1, <1>2 DEF Checked, Live, OnBooking, Paying, Sweeping
<1> QED BY <1>1, <1>3, ChecksStep

\* A request that ends.
LEMMA ChecksEnd ==
  ASSUME Typed, ChecksStillHold, NEW c \in Sessions, KeepsToItsOwn(c), Finish(c)
  PROVE  ChecksStillHold'
<1>1. Checked(c)' /\ tx'[c].bookings = {}
  BY OwnFinish DEF Checked, Paying, Sweeping
<1> QED BY <1>1, ChecksStep

LEMMA ChecksCreate ==
  ASSUME Overlap # "any", Sweeps # "any", Typed, RowLocks, ChecksStillHold,
         NEW c \in Sessions, CreateBegin(c) \/ Create(c)
  PROVE  ChecksStillHold'
<1> USE DEF At
<1>0. tx \in [Sessions -> Transaction] /\ tx[c] \in Transaction /\ KeepsToItsOwn(c)
  BY OwnCreate DEF Typed, TypeOK
<1>1. CASE CreateBegin(c)
  <2>0. PICK b \in Bookings, S \in SUBSET Seats, k \in Bookable :
          /\ MayStart(c, {b}, {k})
          /\ tx' = [tx EXCEPT ![c] = Request("lock_seats", b, k, S,
                     [NoCounter EXCEPT ![k] = available[k]], NotLoaded)]
    BY <1>1 DEF CreateBegin
  <2>1. tx'[c].bookings = {b} /\ tx'[c].pc = "lock_seats"
    BY <1>0, <2>0 DEF Request
  <2>2. Checked(c)'
    BY <2>1 DEF Checked, Paying, Sweeping
  <2> QED BY <1>0, <2>0, <2>1, <2>2, ChecksBegin
<1>2. CASE LockSeat(c) \/ SeatTaken(c)
  <2>1. /\ tx'[c].pc = "lock_seats" /\ tx'[c].bookings = tx[c].bookings /\ tx'[c].b = tx[c].b
    BY <1>0, <1>2 DEF LockSeat, SeatTaken, Transaction
  <2>2. booking' = booking
    BY <1>2 DEF LockSeat, SeatTaken, store
  <2> QED BY <1>0, <2>1, <2>2, ChecksGoOn DEF Paying, Sweeping
<1>3. CASE CreateConflict(c) \/ CreateCommit(c)
  BY <1>0, <1>3, ChecksEnd DEF CreateConflict, CreateCommit
<1> QED BY <1>1, <1>2, <1>3 DEF Create

LEMMA ChecksCancel ==
  ASSUME Overlap # "any", Sweeps # "any", Typed, RowLocks, ChecksStillHold,
         NEW c \in Sessions, CancelBegin(c) \/ Cancel(c)
  PROVE  ChecksStillHold'
<1> USE DEF At
<1>0. tx \in [Sessions -> Transaction] /\ tx[c] \in Transaction /\ KeepsToItsOwn(c)
  BY OwnCancel DEF Typed, TypeOK
<1>1. CASE CancelBegin(c)
  <2>0. PICK b \in Bookings :
          /\ MayStart(c, {b}, {booking[b].schedule_id}) /\ booking' = booking /\ Live(b)
          /\ tx' = [tx EXCEPT ![c] = Request("cancel_seats", b, booking[b].schedule_id,
                     booking[b].seats, NoCounter, NotLoaded)]
    BY <1>1 DEF CancelBegin, Live, store
  <2>1. tx'[c].bookings = {b} /\ tx'[c].b = b /\ tx'[c].pc = "cancel_seats"
    BY <1>0, <2>0 DEF Request
  <2>2. Checked(c)'
    BY <2>0, <2>1 DEF Checked, Paying, Sweeping, Live
  <2> QED BY <1>0, <2>0, <2>1, <2>2, ChecksBegin
<1>2. CASE ReleaseSeat(c)
  BY <1>0, <1>2, OwnTaken, ChecksGoOn DEF ReleaseSeat
<1>3. CASE CancelReadSchedule(c)
  <2>1. /\ tx'[c].pc = "cancel_commit" /\ tx[c].pc = "cancel_seats"
        /\ tx'[c].bookings = tx[c].bookings /\ tx'[c].b = tx[c].b
    BY <1>0, <1>3 DEF CancelReadSchedule, Transaction
  <2>2. booking' = booking
    BY <1>3 DEF CancelReadSchedule, store
  <2> QED BY <1>0, <2>1, <2>2, ChecksGoOn DEF Paying, Sweeping
<1>4. CASE CancelCommit(c)
  BY <1>0, <1>4, ChecksEnd DEF CancelCommit
<1> QED BY <1>1, <1>2, <1>3, <1>4 DEF Cancel

LEMMA ChecksSweep ==
  ASSUME Overlap # "any", Sweeps # "any", Typed, RowLocks, ChecksStillHold,
         NEW c \in Sessions, SweepBegin(c) \/ Sweep(c)
  PROVE  ChecksStillHold'
<1> USE DEF At
<1>0. tx \in [Sessions -> Transaction] /\ tx[c] \in Transaction /\ KeepsToItsOwn(c)
  BY OwnSweep DEF Typed, TypeOK
<1>1. CASE SweepBegin(c)
  <2> DEFINE stale == {b \in lapsed : booking[b].status = "PENDING"}
  <2>1. /\ MayStart(c, stale, {booking[b].schedule_id : b \in stale}) /\ booking' = booking
        /\ tx'[c].bookings = stale /\ tx'[c].pc = "sweep_next"
    BY <1>0, <1>1, SweepsAssumption DEF SweepBegin, Idle, store
  <2>2. Checked(c)'
    BY <2>1 DEF Checked, Paying, Sweeping
  <2> HIDE DEF stale
  <2> QED BY <1>0, <2>1, <2>2, ChecksBegin
<1>2. CASE SweepNext(c)
  <2>1. /\ tx'[c].pc = "sweep_seats" /\ tx[c].pc = "sweep_next"
        /\ tx'[c].bookings = tx[c].bookings
    BY <1>0, <1>2 DEF SweepNext, Transaction
  <2>2. booking' = booking
    BY <1>2 DEF SweepNext, store
  <2> QED BY <1>0, <2>1, <2>2, ChecksGoOn DEF Paying, Sweeping
<1>3. CASE SweepSeat(c)
  BY <1>0, <1>3, OwnTaken, ChecksGoOn DEF SweepSeat
<1>4. CASE SweepReadSchedule(c)
  <2>1. /\ tx'[c].pc = "sweep_next" /\ tx[c].pc = "sweep_seats"
        /\ tx'[c].bookings = tx[c].bookings
    BY <1>0, <1>4 DEF SweepReadSchedule, Transaction
  <2>2. booking' = booking
    BY <1>4 DEF SweepReadSchedule, store
  <2> QED BY <1>0, <2>1, <2>2, ChecksGoOn DEF Paying, Sweeping
<1>5. CASE SweepCommit(c)
  BY <1>0, <1>5, ChecksEnd DEF SweepCommit
<1> QED BY <1>1, <1>2, <1>3, <1>4, <1>5 DEF Sweep

LEMMA ChecksPay ==
  ASSUME Overlap # "any", Sweeps # "any", ~Redirects, Typed, RowLocks, ChecksStillHold,
         NEW c \in Sessions, PayBegin(c) \/ CallbackBegin(c) \/ Pay(c)
  PROVE  ChecksStillHold'
<1> USE DEF At
<1>0. /\ tx \in [Sessions -> Transaction] /\ tx[c] \in Transaction /\ KeepsToItsOwn(c)
      /\ booking \in [Bookings -> BookingRow]
  BY OwnPay DEF Typed, TypeOK
<1>1. CASE PayBegin(c)
  <2>0. PICK b \in Bookings :
          /\ MayStart(c, {b}, {booking[b].schedule_id}) /\ booking' = booking
          /\ booking[b].status = "PENDING"
          /\ tx' = [tx EXCEPT ![c] = Request("pay_check", b, booking[b].schedule_id,
                booking[b].seats, NoCounter,
                [status |-> booking[b].status, payment_status |-> booking[b].payment_status,
                 payment |-> "ABSENT"])]
    BY <1>1 DEF PayBegin, store
  <2>1. tx'[c].bookings = {b} /\ tx'[c].b = b /\ tx'[c].pc = "pay_check"
    BY <1>0, <2>0 DEF Request
  <2>2. Checked(c)'
    BY <2>0, <2>1 DEF Checked, Paying, Sweeping
  <2> QED BY <1>0, <2>0, <2>1, <2>2, ChecksBegin
<1>2. CASE CallbackBegin(c)
  BY <1>2 DEF CallbackBegin
<1>3. CASE PayCheck(c)
  <2>1. /\ tx'[c].pc \in Paying /\ tx[c].pc \in Paying
        /\ tx'[c].bookings = tx[c].bookings /\ tx'[c].b = tx[c].b
    BY <1>0, <1>3 DEF PayCheck, Transaction, Paying
  <2>2. booking' = booking
    BY <1>3 DEF PayCheck, store
  <2> QED BY <1>0, <2>1, <2>2, ChecksGoOn DEF Paying, Sweeping
<1>4. CASE VerifyOk(c)
  <2>1. /\ tx'[c].pc \in Paying /\ tx[c].pc \in Paying
        /\ tx'[c].bookings = tx[c].bookings /\ tx'[c].b = tx[c].b
    BY <1>0, <1>4 DEF VerifyOk, Transaction, Paying
  <2>2. booking' = booking
    BY <1>4 DEF VerifyOk, store
  <2> QED BY <1>0, <2>1, <2>2, ChecksGoOn DEF Paying, Sweeping
<1>5. CASE VerifyFailed(c)
  <2>1. /\ tx'[c].pc \in Paying /\ tx[c].pc \in Paying
        /\ tx'[c].bookings = tx[c].bookings /\ tx'[c].b = tx[c].b
    BY <1>0, <1>5 DEF VerifyFailed, Transaction, Paying
  <2>2. booking' = booking
    BY <1>5 DEF VerifyFailed, store
  <2> QED BY <1>0, <2>1, <2>2, ChecksGoOn DEF Paying, Sweeping
<1>6. CASE PayCommit(c)
  <2>1. /\ tx'[c].pc = "verify" /\ tx[c].pc = "pay_commit"
        /\ tx'[c].bookings = tx[c].bookings /\ tx'[c].b = tx[c].b
    BY <1>0, <1>6 DEF PayCommit, Transaction
  <2>2. \A b \in Bookings : booking'[b].status = booking[b].status
    BY <1>0, <1>6 DEF PayCommit, BookingRow, NoBooking
  <2> QED BY <1>0, <2>1, <2>2, ChecksGoOn DEF Paying, Sweeping
<1>7. CASE BookSeat(c)
  BY <1>0, <1>7, OwnTaken, ChecksGoOn DEF BookSeat
<1>8. CASE PayReject(c) \/ PayUnavailable(c) \/ VerifyError(c) \/ ConfirmCommit(c) \/ FailCommit(c)
  BY <1>0, <1>8, ChecksEnd DEF PayReject, PayUnavailable, VerifyError, ConfirmCommit, FailCommit
<1> QED BY <1>1, <1>2, <1>3, <1>4, <1>5, <1>6, <1>7, <1>8 DEF Pay

LEMMA ChecksNext ==
  ASSUME Overlap # "any", Sweeps # "any", ~Redirects, Typed, RowLocks, ChecksStillHold, [Next]_vars
  PROVE  ChecksStillHold'
<1>1. ASSUME NEW c \in Sessions, Begin(c) \/ Serve(c) PROVE ChecksStillHold'
  BY <1>1, ChecksCreate, ChecksCancel, ChecksSweep, ChecksPay DEF Begin, Serve
<1>2. ASSUME NEW c \in Sessions, Abort(c) \/ DeadlockVictim(c) PROVE ChecksStillHold'
  BY <1>2, OwnEnd, ChecksEnd DEF Abort, DeadlockVictim
<1>3. ASSUME NEW b \in Bookings, Lapse(b) PROVE ChecksStillHold'
  BY <1>3 DEF Lapse, ChecksStillHold, Checked, Live, store
<1>4. CASE UNCHANGED vars
  BY <1>4 DEF vars, ChecksStillHold, Checked, Live
<1> QED BY <1>1, <1>2, <1>3, <1>4 DEF Next

-----------------------------------------------------------------------------
(* Every live booking holds its seats                                      *)

LEMMA HoldsNext ==
  ASSUME ~Redirects, Typed, RowLocks, HoldsItsSeats, [Next]_vars,
         \A c \in Sessions : tx'[c] # tx[c] => Checked(c)
  PROVE  HoldsItsSeats'
<1> USE DEF At
<1>0. /\ booking \in [Bookings -> BookingRow] /\ seat \in [Seats -> SeatRow]
      /\ \A c \in Sessions : InHand(c) /\ tx[c] \in Transaction
      /\ \A b \in Bookings : booking[b].seats \in SUBSET Seats
  BY RowPresent DEF Typed, TypeOK, RequestsInHand
<1>1. \A b \in Bookings : Live(b) => \A s \in booking[b].seats :
        seat[s].lockedBy = b /\ seat[s].status # "AVAILABLE"
  BY DEF HoldsItsSeats, Live
<1>7. \A c \in Sessions : Finish(c) /\ tx[c].pc # "idle" => Checked(c)
  BY <1>0 DEF Typed, TypeOK, Finish, Idle
<1>2. ASSUME NEW c \in Sessions, CreateCommit(c) PROVE HoldsItsSeats'
  <2> DEFINE b == tx[c].b
  <2>1. /\ tx[c].pc = "lock_seats" /\ Todo(c) = {} /\ tx[c].unavailable = {}
        /\ seat' = [s \in Seats |-> IF s \in tx[c].held
                     THEN [status |-> "LOCKED", lockedBy |-> b] ELSE seat[s]]
        /\ \E k \in tx[c].schedules : booking' = [booking EXCEPT ![b] =
             [status |-> "PENDING", payment_status |-> "PENDING", schedule_id |-> k,
              seats |-> tx[c].seats]]
    BY <1>2 DEF CreateCommit
  <2>2. b \in Bookings /\ tx[c].seats \subseteq tx[c].held /\ tx[c].seats \in SUBSET Seats
    BY <1>0, <2>1 DEF InHand, Todo, Transaction
  <2>3. /\ booking'[b].status = "PENDING" /\ booking'[b].seats = tx[c].seats
        /\ \A a \in Bookings \ {b} : booking'[a] = booking[a]
    BY <1>0, <2>1, <2>2
  <2>4. \A a \in Bookings : Live(a) => booking[a].seats \cap tx[c].held = {}
    BY <1>1, <2>1 DEF RowLocks
  <2> QED BY <1>0, <2>1, <2>2, <2>3, <2>4 DEF HoldsItsSeats, Live
<1>3. ASSUME NEW c \in Sessions, CancelCommit(c) PROVE HoldsItsSeats'
  <2> DEFINE b == tx[c].b
  <2>0. Checked(c)
    BY <1>7, <1>3 DEF CancelCommit
  <2>1. /\ tx[c].pc = "cancel_commit" /\ booking' = [booking EXCEPT ![b].status = "CANCELLED"]
        /\ seat' = [s \in Seats |-> IF s \in tx[c].held THEN FreeSeat ELSE seat[s]]
    BY <1>3 DEF CancelCommit, Released
  <2>2. b \in Bookings /\ tx[c].held = booking[b].seats /\ Live(b)
    BY <1>0, <2>0, <2>1 DEF InHand, OnBooking, Checked
  <2>3. /\ booking'[b].status = "CANCELLED"
        /\ \A a \in Bookings \ {b} : booking'[a] = booking[a]
    BY <1>0, <2>1, <2>2 DEF BookingRow, NoBooking
  <2>4. \A a \in Bookings \ {b} : Live(a) => booking[a].seats \cap tx[c].held = {}
    BY <1>1, <2>2
  <2> QED BY <1>0, <2>1, <2>3, <2>4 DEF HoldsItsSeats, Live
<1>4. ASSUME NEW c \in Sessions, SweepCommit(c) PROVE HoldsItsSeats'
  <2>0. Checked(c)
    BY <1>7, <1>4 DEF SweepCommit
  <2>1. /\ tx[c].pc = "sweep_next"
        /\ booking' = [b \in Bookings |-> IF b \in tx[c].bookings
                         THEN [booking[b] EXCEPT !.status = "EXPIRED"] ELSE booking[b]]
        /\ seat' = [s \in Seats |-> IF s \in tx[c].held THEN FreeSeat ELSE seat[s]]
    BY <1>4 DEF SweepCommit, Released
  <2>2. /\ tx[c].bookings \in SUBSET Bookings
        /\ \A b \in tx[c].bookings : booking[b].status = "PENDING"
        /\ \A s \in tx[c].held : \E b \in tx[c].bookings : s \in booking[b].seats
    BY <1>0, <2>0, <2>1 DEF InHand, Sweeping, Checked, Transaction
  <2>3. /\ \A b \in tx[c].bookings : booking'[b].status = "EXPIRED"
        /\ \A b \in Bookings \ tx[c].bookings : booking'[b] = booking[b]
    BY <1>0, <2>1, <2>2 DEF BookingRow, NoBooking
  <2>4. \A a \in Bookings \ tx[c].bookings : Live(a) => booking[a].seats \cap tx[c].held = {}
    BY <1>1, <2>2 DEF Live
  <2> QED BY <1>0, <2>1, <2>3, <2>4 DEF HoldsItsSeats, Live
<1>5. ASSUME NEW c \in Sessions, ConfirmCommit(c) PROVE HoldsItsSeats'
  <2> DEFINE b == tx[c].b
  <2>0. Checked(c)
    BY <1>7, <1>5 DEF ConfirmCommit
  <2>1. /\ tx[c].pc = "book_seats" /\ Todo(c) = {}
        /\ booking' = [booking EXCEPT
             ![b].status = Column(tx[c].row.status, "CONFIRMED", @),
             ![b].payment_status = Column(tx[c].row.payment_status, "COMPLETED", @)]
        /\ seat' = [s \in Seats |-> IF s \in tx[c].held
                     THEN [seat[s] EXCEPT !.status = "BOOKED"] ELSE seat[s]]
    BY <1>5 DEF ConfirmCommit
  <2>2. /\ b \in Bookings /\ tx[c].held \subseteq booking[b].seats
        /\ booking[b].seats \subseteq tx[c].held /\ tx[c].row.status = "PENDING"
    BY <1>0, <2>1 DEF InHand, OnBooking, Paying, Todo
  <2>6. booking[b].status = "PENDING"
    BY <2>0, <2>1 DEF Checked, Paying
  <2>3. /\ booking'[b].status = "CONFIRMED" /\ booking'[b].seats = booking[b].seats
        /\ \A a \in Bookings \ {b} : booking'[a] = booking[a]
    BY <1>0, <2>1, <2>2 DEF Column, BookingRow, NoBooking
  <2>4. \A s \in booking[b].seats : seat'[s].status = "BOOKED" /\ seat'[s].lockedBy = b
    <3> TAKE s \in booking[b].seats
    <3>1. s \in Seats /\ s \in tx[c].held /\ seat[s] \in SeatRow
      BY <1>0, <2>2
    <3>2. seat'[s] = [seat[s] EXCEPT !.status = "BOOKED"] /\ seat[s].lockedBy = b
      BY <1>1, <2>1, <2>2, <2>6, <3>1 DEF Live
    <3> QED BY <3>1, <3>2 DEF SeatRow
  <2>5. \A a \in Bookings \ {b} : Live(a) => booking[a].seats \cap tx[c].held = {}
    BY <1>1, <2>2, <2>6 DEF Live
  <2>7. \A s \in Seats \ tx[c].held : seat'[s] = seat[s]
    BY <2>1
  <2>8. \A a \in Bookings \ {b} : booking'[a] = booking[a] /\
          (Live(a) => \A s \in booking[a].seats : seat'[s] = seat[s])
    BY <1>0, <2>3, <2>5, <2>7
  <2> HIDE DEF b
  <2> QED BY <2>3, <2>4, <2>8 DEF HoldsItsSeats, Live
<1>6. CASE \A c \in Sessions : ~CreateCommit(c) /\ ~CancelCommit(c) /\ ~SweepCommit(c) /\ ~ConfirmCommit(c)
  BY <1>6, QuietSteps DEF Quiet, HoldsItsSeats, Live
<1> QED BY <1>2, <1>3, <1>4, <1>5, <1>6

\* A seat's row names one booking, so two that both hold it are one.
LEMMA NoSeatTwice == HoldsItsSeats => NoDoubleBooking
  BY DEF HoldsItsSeats, NoDoubleBooking, Live

\* What every state satisfies under the discipline; the invariant is inductive.
LEMMA SoundInvariant ==
  ASSUME Overlap # "any", Sweeps # "any", ~Redirects
  PROVE  Spec => [](Typed /\ RowLocks /\ ChecksStillHold /\ HoldsItsSeats)
<1> DEFINE IInv == Typed /\ RowLocks /\ ChecksStillHold /\ HoldsItsSeats
<1>1. Init => IInv
  <2> SUFFICES ASSUME Init PROVE RowLocks /\ ChecksStillHold /\ HoldsItsSeats
    BY TypedInit
  <2>1. \A c \in Sessions : tx[c].pc = "idle" /\ tx[c].held = {} /\ tx[c].bookings = {}
    BY DEF Init, Idle
  <2>2. \A b \in Bookings : booking[b].seats = {}
    BY DEF Init, NoBooking
  <2> QED BY <2>1, <2>2 DEF RowLocks, ChecksStillHold, Checked, Paying, Sweeping, HoldsItsSeats, At
<1>2. IInv /\ [Next]_vars => IInv'
  <2>1. ChecksStillHold => \A c \in Sessions : Checked(c)
    BY DEF ChecksStillHold
  <2> QED BY <2>1, TypedNext, RowLocksNext, ChecksNext, HoldsNext
<1> QED BY <1>1, <1>2, PTL DEF Spec

\* If neither clients nor sweeps ever work on one booking at once, no seat is sold twice: however
\* requests on different bookings interleave, die, deadlock or are swept, every live booking
\* holds all of its seats and shares none.
THEOREM SeatsSoldOnce ==
  ASSUME Overlap # "any", Sweeps # "any", ~Redirects
  PROVE  Spec => [](HoldsItsSeats /\ NoDoubleBooking)
  BY SoundInvariant, NoSeatTwice, PTL

\* Under the same discipline a booking gets all of its seats or none, and keeps them while it
\* lives: no rollback, death or release of another booking takes one from it.
THEOREM LiveHoldSeats ==
  ASSUME Overlap # "any", Sweeps # "any", ~Redirects
  PROVE  Spec => []HoldsItsSeats
  BY SoundInvariant, PTL
=============================================================================
