------------------------------- MODULE Tables -------------------------------
(***************************************************************************)
(* The PostgreSQL tables the booking and payment services share, and the   *)
(* transaction each request has open on them.                              *)
(*                                                                         *)
(* The variables seat, booking, payment and available are the COMMITTED    *)
(* rows.  What a transaction has written and not committed is kept in      *)
(* tx[c]: the seats whose row lock it holds, and the values its ORM        *)
(* session loaded and will write at commit.  READ COMMITTED: a SELECT      *)
(* reads the committed rows; an UPDATE first takes the row's lock, so it   *)
(* waits for the transaction that holds it.  Only seat rows are locked     *)
(* across an await: schedules, bookings and payments rows are written in   *)
(* the flush of the commit itself, always in that order (the order of      *)
(* their foreign keys), so flush and commit are one step.                  *)
(*                                                                         *)
(* A booking's passengers are immutable and stand here as the set of its   *)
(* seats.  Ownership (user_id) is left out: the requests of the model come *)
(* from the booking's own user.  expires_at is abstracted to the set of    *)
(* bookings whose payment window has lapsed.                               *)
(***************************************************************************)
EXTENDS Integers, FiniteSets

CONSTANTS
  Sessions,       \* database sessions: how many requests may be in flight
  Bookings,       \* ids the bookings table may hand out
  Seats,          \* rows of the seats table
  Schedules,      \* rows of the schedules table
  ScheduleOf,     \* Seat.schedule_id
  Bookable,       \* the schedules whose status is SCHEDULED (nothing changes it)
  MaxPassengers,  \* BookingCreate accepts at most this many passengers (10)
  Overlap,        \* which requests, of clients and of a gateway that calls back, may
                  \* be in flight together (the code itself restricts none):
                  \*   "any"             any
                  \*   "other_booking"   never two on the same booking
                  \*   "other_schedule"  nor two on the same schedule
  Sweeps,         \* what calls expire_stale_bookings:
                  \*   "never"  nothing, as in the repository
                  \*   "any"    something, whenever it likes: what the code allows
                  \*   "apart"  something that keeps to Overlap as the requests do,
                  \*            which no code makes it do
  Faults,         \* whether a request may die between two of its steps
  None            \* SQL NULL, and "not loaded" in an ORM session

ASSUME ScheduleOfAssumption == ScheduleOf \in [Seats -> Schedules]
ASSUME BookableAssumption == Bookable \subseteq Schedules
ASSUME MaxPassengersAssumption == MaxPassengers \in Nat \ {0}
ASSUME OverlapAssumption == Overlap \in {"any", "other_booking", "other_schedule"}
ASSUME SweepsAssumption == Sweeps \in {"never", "any", "apart"}
ASSUME FaultsAssumption == Faults \in BOOLEAN
ASSUME FiniteAssumption == IsFiniteSet(Seats)
ASSUME PoolAssumption == IsFiniteSet(Sessions)  \* pool_size + max_overflow connections
ASSUME NoneAssumption == None \notin Bookings \cup Schedules \cup Int

VARIABLES
  seat,       \* seats: [Seats -> [status, lockedBy]]
  booking,    \* bookings and booking_passengers; status "ABSENT": no row yet
  payment,    \* payments.status by (unique) booking_id; "ABSENT": no row yet
  available,  \* schedules.available_seats
  lapsed,     \* the bookings whose expires_at has passed while PENDING
  callbacks,  \* gateway callbacks delivered so far, by booking
  tx          \* the request each session is serving

store == <<seat, booking, payment, available>>
vars == <<seat, booking, payment, available, lapsed, callbacks, tx>>

-----------------------------------------------------------------------------
SeatStatus == {"AVAILABLE", "LOCKED", "BOOKED"}
BookingStatus == {"PENDING", "CONFIRMED", "CANCELLED", "EXPIRED"}
PaymentStatus == {"PENDING", "PROCESSING", "COMPLETED", "FAILED"}

SeatRow == [status : SeatStatus, lockedBy : Bookings \cup {None}]
NoBooking == [status |-> "ABSENT", payment_status |-> "ABSENT",
              schedule_id |-> None, seats |-> {}]
BookingRow == {NoBooking} \cup [status : BookingStatus, payment_status : PaymentStatus,
                                schedule_id : Schedules, seats : (SUBSET Seats) \ {{}}]

\* Where a request can be suspended, named for what it does next.
Points == {"idle", "lock_seats",
           "cancel_seats", "cancel_commit", "sweep_next", "sweep_seats",
           "pay_check", "pay_commit", "verify", "book_seats", "fail"}

Transaction ==
  [pc : Points,
   bookings : SUBSET Bookings,      \* every booking the request works on
   schedules : SUBSET Schedules,    \* and their schedules
   b : Bookings \cup {None},        \* the booking in hand
   seats : SUBSET Seats,            \* its seats
   held : SUBSET Seats,             \* seat rows updated, not yet committed
   unavailable : SUBSET Seats,      \* lock_seats' list of the same name
   stale : SUBSET Bookings,         \* stale bookings the sweep has still to do
   counter : [Schedules -> Int \cup {None}],  \* schedule.available_seats in memory
   row : [status : BookingStatus \cup {"ABSENT"},        \* booking and payment in
          payment_status : PaymentStatus \cup {"ABSENT"},  \* memory, as the session
          payment : PaymentStatus \cup {"ABSENT"}]]      \* first loaded them

FreeSeat == [status |-> "AVAILABLE", lockedBy |-> None]
NotLoaded == [status |-> "ABSENT", payment_status |-> "ABSENT", payment |-> "ABSENT"]
NoCounter == [k \in Schedules |-> None]
Idle == [pc |-> "idle", bookings |-> {}, schedules |-> {}, b |-> None, seats |-> {},
         held |-> {}, unavailable |-> {}, stale |-> {}, counter |-> NoCounter, row |-> NotLoaded]

\* A request on booking b of schedule k with the seats S, and what its session has loaded.
Request(point, b, k, S, counter, row) ==
  [pc |-> point, bookings |-> {b}, schedules |-> {k}, b |-> b, seats |-> S, held |-> {},
   unavailable |-> {}, stale |-> {}, counter |-> counter, row |-> row]

\* The database as scripts/seed_data.py leaves it: every seat AVAILABLE, the counter
\* of a schedule equal to its number of seats, no booking.
Init ==
  /\ seat = [s \in Seats |-> FreeSeat]
  /\ booking = [b \in Bookings |-> NoBooking]
  /\ payment = [b \in Bookings |-> "ABSENT"]
  /\ available = [k \in Schedules |-> Cardinality({s \in Seats : ScheduleOf[s] = k})]
  /\ lapsed = {}
  /\ callbacks = [b \in Bookings |-> 0]
  /\ tx = [c \in Sessions |-> Idle]

-----------------------------------------------------------------------------
At(c, point) == tx[c].pc = point

Sweeping == {"sweep_next", "sweep_seats"}

\* A request that starts now, on these bookings of these schedules, keeps to Overlap.
\* A sweep that comes whenever it likes is not known to those who do.
MayStart(c, bs, ks) ==
  \A d \in Sessions \ {c} :
    \/ Overlap = "any"
    \/ Sweeps = "any" /\ tx[d].pc \in Sweeping
    \/ /\ tx[d].bookings \cap bs = {}
       /\ Overlap = "other_schedule" => tx[d].schedules \cap ks = {}

Finish_KeepsLocks(c) == tx' = [tx EXCEPT ![c] = [Idle EXCEPT !.held = tx[c].held]]

\* The end of the request: nothing of its transaction is left, whether it has just
\* committed or is rolled back (get_db closes the session either way).
Finish(c) == tx' = [tx EXCEPT ![c] = Idle]

\* The seats the UPDATE (or lock_seats' loop of UPDATEs) has still to reach.
Todo(c) == tx[c].seats \ (tx[c].held \cup tx[c].unavailable)

\* Nobody else has an uncommitted write on the row: an UPDATE gets its lock.
RowFree(c, s) == \A d \in Sessions \ {c} : s \notin tx[d].held

\* One row of an unconditional UPDATE of the booking's seats; rows come in any order.
UpdateSeatRow(c) ==
  \E s \in Todo(c) :
    /\ RowFree(c, s)
    /\ tx' = [tx EXCEPT ![c].held = @ \cup {s}]
    /\ UNCHANGED <<store, lapsed, callbacks>>

\* c may be waiting for a row lock of d.  lock_seats never waits for a row whose
\* committed status is not AVAILABLE: its WHERE clause matches nothing.
WaitsFor(c, d) ==
  /\ tx[c].pc \in {"lock_seats", "cancel_seats", "sweep_seats", "book_seats"}
  /\ \E s \in Todo(c) \cap tx[d].held :
       At(c, "lock_seats") => seat[s].status = "AVAILABLE"

\* Every row c has still to reach is locked by another transaction: it cannot go on.
Blocked(c) ==
  /\ tx[c].pc \in {"lock_seats", "cancel_seats", "sweep_seats", "book_seats"}
  /\ Todo(c) # {}
  /\ \A s \in Todo(c) : ~RowFree(c, s) /\ (At(c, "lock_seats") => seat[s].status = "AVAILABLE")

\* c is on a cycle of waiting transactions.
Deadlocked(c) ==
  \E D \in SUBSET Sessions : c \in D /\ \E next \in [D -> D] :
    /\ \A d, e \in D : next[d] = next[e] => d = e
    /\ \A d \in D : next[d] # d /\ WaitsFor(d, next[d])

\* PostgreSQL's deadlock detector makes one transaction of the cycle fail; the
\* exception reaches get_db, which rolls back.
DeadlockVictim(c) ==
  /\ Deadlocked(c)
  /\ Finish(c)
  /\ UNCHANGED <<store, lapsed, callbacks>>

\* The request dies between two steps (client gone, connection lost, process killed,
\* an exception): its open transaction is rolled back, what it committed stays.
Abort(c) ==
  /\ Faults
  /\ ~At(c, "idle")
  /\ Finish(c)
  /\ UNCHANGED <<store, lapsed, callbacks>>

\* Time passes: the payment window of a booking that is still unpaid closes.
Lapse(b) ==
  /\ booking[b].status = "PENDING"
  /\ b \notin lapsed
  /\ lapsed' = lapsed \cup {b}
  /\ UNCHANGED <<store, callbacks, tx>>
=============================================================================
