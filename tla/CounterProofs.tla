--------------------------- MODULE CounterProofs ---------------------------
(***************************************************************************)
(* The counter of a schedule is exact, for clients that have one request   *)
(* at a time on a schedule and a gateway that needs no redirect.           *)
(*                                                                         *)
(* A request writes the counter as a value it computed in memory from the  *)
(* one it loaded, so the invariant says what this value is at every await: *)
(* the committed counter plus the seats the request has given back so far  *)
(* (CounterInHand).  That the committed counter stays the loaded one until *)
(* then is the discipline; that the seats given back were not AVAILABLE,   *)
(* and belong to one booking each, is HoldsItsSeats.                       *)
(***************************************************************************)
EXTENDS PlatformProofs

On(k) == {s \in Seats : ScheduleOf[s] = k}
Free(k) == {s \in Seats : ScheduleOf[s] = k /\ seat[s].status = "AVAILABLE"}

\* The seats that the counter in c's memory counts as given back already.
Given(c) ==
  CASE tx[c].pc = "sweep_seats" -> tx[c].held \ tx[c].seats
    [] tx[c].pc \in {"cancel_commit", "sweep_next"} -> tx[c].held
    [] OTHER -> {}

CounterInHand(c) ==
  \A k \in Schedules :
    /\ tx[c].counter[k] # None =>
         /\ k \in tx[c].schedules
         /\ tx[c].counter[k] = available[k] + Cardinality(Given(c) \cap On(k))
    /\ Given(c) \cap On(k) # {} => tx[c].counter[k] # None

\* A request's schedules are those of its bookings, and a swept seat is that of a booking
\* the sweep has come to.
OwnSchedule(c) ==
  LET t == tx[c] IN
  /\ t.pc = "lock_seats" => \E k \in Schedules : t.schedules = {k} /\ t.seats \subseteq On(k)
  /\ t.pc \in OnBooking => t.schedules = {booking[t.b].schedule_id}
  /\ t.pc \in Sweeping =>
       /\ \A b \in t.bookings : booking[b].schedule_id \in t.schedules
       /\ \A s \in t.held : \E b \in t.bookings \ t.stale : s \in booking[b].seats

SeatsOfSchedule ==
  \A b \in Bookings : booking[b] # NoBooking => booking[b].seats \subseteq On(booking[b].schedule_id)

CounterInv ==
  /\ CounterExact
  /\ SeatsOfSchedule
  /\ \A c \in Sessions :
       /\ OwnSchedule(c) /\ CounterInHand(c)
       /\ \A d \in Sessions \ {c} : tx[c].schedules \cap tx[d].schedules = {}

Sound == Typed /\ RowLocks /\ ChecksStillHold /\ HoldsItsSeats

-----------------------------------------------------------------------------
(* Counting                                                                *)

LEMMA CountApart ==
  ASSUME NEW A \in SUBSET Seats, NEW B \in SUBSET Seats, A \cap B = {}
  PROVE  /\ Cardinality(A) \in Nat /\ Cardinality(B) \in Nat
         /\ Cardinality(A \cup B) = Cardinality(A) + Cardinality(B)
<1>1. IsFiniteSet(A) /\ IsFiniteSet(B)
  BY FiniteAssumption, FS_Subset
<1>2. Cardinality(A) \in Nat /\ Cardinality(B) \in Nat
  BY <1>1, FS_CardinalityType
<1>3. Cardinality(A \cup B) = Cardinality(A) + Cardinality(B) - Cardinality(A \cap B)
  BY <1>1, FS_Union
<1>4. Cardinality(A \cap B) = 0
  BY FS_EmptySet
<1> QED BY <1>2, <1>3, <1>4

LEMMA Nothing == Cardinality({}) = 0
  BY FS_EmptySet

\* What c's memory holds after one more addition to the counter of k.
LEMMA Added ==
  ASSUME Typed, NEW c \in Sessions, CounterInHand(c), NEW k \in Schedules, NEW n \in Int
  PROVE  /\ AddToCounter(c, k, n)[k] = available[k] + Cardinality(Given(c) \cap On(k)) + n
         /\ AddToCounter(c, k, n)[k] # None
         /\ \A j \in Schedules \ {k} : AddToCounter(c, k, n)[j] = tx[c].counter[j]
<1>1. /\ tx[c].counter \in [Schedules -> Int \cup {None}] /\ available[k] \in Int
      /\ Given(c) \cap On(k) \in SUBSET Seats
  BY DEF Typed, TypeOK, Transaction, On
<1>2. Cardinality(Given(c) \cap On(k)) \in Nat
  BY <1>1, SeatCount
<1>3. CASE tx[c].counter[k] = None
  <2>1. Cardinality(Given(c) \cap On(k)) = 0
    BY <1>3, Nothing DEF CounterInHand
  <2> QED BY <1>1, <1>3, <2>1, NoneAssumption DEF AddToCounter
<1>4. CASE tx[c].counter[k] # None
  <2>1. tx[c].counter[k] = available[k] + Cardinality(Given(c) \cap On(k))
    BY <1>4 DEF CounterInHand
  <2> QED BY <1>1, <1>2, <1>4, <2>1, NoneAssumption DEF AddToCounter
<1> QED BY <1>3, <1>4

-----------------------------------------------------------------------------
(* A step of one request                                                   *)

\* Every step of c that keeps the others' rows and schedules from it keeps the invariant if
\* it keeps c's part and the rows' part.
LEMMA OthersCount ==
  ASSUME Typed, CounterInv, NEW c \in Sessions,
         \A d \in Sessions \ {c} : tx'[d] = tx[d],
         \A b \in Bookings : booking[b] # NoBooking =>
           booking'[b].seats = booking[b].seats /\ booking'[b].schedule_id = booking[b].schedule_id,
         \A k \in Schedules : k \notin tx[c].schedules => available'[k] = available[k],
         \A d \in Sessions \ {c} : tx'[c].schedules \cap tx[d].schedules = {},
         OwnSchedule(c)', CounterInHand(c)', CounterExact', SeatsOfSchedule'
  PROVE  CounterInv'
<1>1. ASSUME NEW d \in Sessions \ {c} PROVE OwnSchedule(d)' /\ CounterInHand(d)'
  <2>1. /\ tx'[d] = tx[d] /\ InHand(d) /\ OwnSchedule(d) /\ CounterInHand(d)
        /\ tx[d].bookings \in SUBSET Bookings
        /\ tx[c].schedules \cap tx[d].schedules = {}
    BY DEF Typed, TypeOK, Transaction, RequestsInHand, CounterInv
  <2>2. OwnSchedule(d)'
    BY <2>1 DEF OwnSchedule, InHand, OnBooking, Sweeping
  <2>3. Given(d)' = Given(d)
    BY <2>1 DEF Given
  <2>4. \A k \in Schedules : k \in tx[d].schedules => available'[k] = available[k]
    BY <2>1
  <2>5. \A k : On(k)' = On(k)
    BY DEF On
  <2>6. CounterInHand(d)'
    BY <2>1, <2>3, <2>4, <2>5 DEF CounterInHand
  <2> QED BY <2>2, <2>6
<1>2. ASSUME NEW d \in Sessions, NEW e \in Sessions \ {d}
      PROVE  tx'[d].schedules \cap tx'[e].schedules = {}
  <2>1. CASE d = c
    BY <2>1
  <2>2. CASE e = c
    BY <2>2
  <2>3. CASE d # c /\ e # c
    BY <2>3 DEF CounterInv
  <2> QED BY <2>1, <2>2, <2>3
<1> QED BY <1>1, <1>2 DEF CounterInv

\* A step of c that writes neither seat statuses nor counters, and of bookings neither seats
\* nor schedule.
LEMMA NothingCounted ==
  ASSUME Typed, CounterInv, NEW c \in Sessions,
         \A d \in Sessions \ {c} : tx'[d] = tx[d],
         \A b \in Bookings : /\ booking'[b].seats = booking[b].seats
                             /\ booking'[b].schedule_id = booking[b].schedule_id
                             /\ booking[b] = NoBooking => booking'[b] = NoBooking,
         \A k \in Schedules : Free(k)' = Free(k), available' = available,
         \A d \in Sessions \ {c} : tx'[c].schedules \cap tx[d].schedules = {},
         OwnSchedule(c)', CounterInHand(c)'
  PROVE  CounterInv'
<1>1. CounterExact'
  BY DEF CounterInv, CounterExact, Free
<1>2. SeatsOfSchedule'
  BY DEF CounterInv, SeatsOfSchedule, On
<1> QED BY <1>1, <1>2, OthersCount

\* A request that has ended counts nothing.
LEMMA IdleCounts ==
  ASSUME Typed, NEW c \in Sessions, Finish(c)
  PROVE  /\ OwnSchedule(c)' /\ CounterInHand(c)' /\ tx'[c].schedules = {}
         /\ \A d \in Sessions \ {c} : tx'[d] = tx[d]
<1>1. tx'[c] = Idle /\ \A d \in Sessions \ {c} : tx'[d] = tx[d]
  BY OwnFinish
<1>2. OwnSchedule(c)' /\ tx'[c].schedules = {}
  BY <1>1 DEF OwnSchedule, Idle, OnBooking, Sweeping
<1>3. Given(c)' = {} /\ \A k \in Schedules : tx'[c].counter[k] = None
  BY <1>1 DEF Given, Idle, NoCounter
<1>4. CounterInHand(c)'
  BY <1>3 DEF CounterInHand
<1> QED BY <1>1, <1>2, <1>4

\* A request that begins now: its counter holds what it has just loaded, or nothing.
LEMMA BeginCounts ==
  ASSUME Overlap = "other_schedule", Sweeps # "any", Typed, CounterInv, NEW c \in Sessions,
         \A d \in Sessions \ {c} : tx'[d] = tx[d], booking' = booking, seat' = seat,
         available' = available, NEW bs, MayStart(c, bs, tx'[c].schedules),
         tx'[c].held = {}, tx'[c].pc # "cancel_commit", OwnSchedule(c)',
         \A k \in Schedules : tx'[c].counter[k] # None =>
           k \in tx'[c].schedules /\ tx'[c].counter[k] = available[k]
  PROVE  CounterInv'
<1>1. \A d \in Sessions \ {c} : tx'[c].schedules \cap tx[d].schedules = {}
  BY DEF MayStart
<1>2. Given(c)' = {}
  BY DEF Given
<1>3. CounterInHand(c)'
  BY <1>2, Nothing DEF CounterInHand, Typed, TypeOK
<1>4. \A k \in Schedules : Free(k)' = Free(k)
  BY DEF Free
<1> QED BY <1>1, <1>3, <1>4, NothingCounted

\* A request that goes on without touching its counter or what it has given back.
LEMMA GoOnCounts ==
  ASSUME Typed, CounterInv, NEW c \in Sessions,
         \A d \in Sessions \ {c} : tx'[d] = tx[d],
         \A b \in Bookings : /\ booking'[b].seats = booking[b].seats
                             /\ booking'[b].schedule_id = booking[b].schedule_id
                             /\ booking[b] = NoBooking => booking'[b] = NoBooking,
         seat' = seat, available' = available,
         tx'[c].schedules = tx[c].schedules, tx'[c].counter = tx[c].counter,
         Given(c)' = Given(c), OwnSchedule(c)'
  PROVE  CounterInv'
<1>1. \A d \in Sessions \ {c} : tx'[c].schedules \cap tx[d].schedules = {}
  BY DEF CounterInv
<1>2. CounterInHand(c)'
  BY DEF CounterInv, CounterInHand, On
<1>3. \A k \in Schedules : Free(k)' = Free(k)
  BY DEF Free
<1> QED BY <1>1, <1>2, <1>3, NothingCounted

-----------------------------------------------------------------------------
(* The commits *)

\* What a request with counter in memory leaves of the counters it does not have.
LEMMA WritesOwn ==
  ASSUME NEW c \in Sessions, NEW counter,
         \A k \in Schedules : counter[k] # None => k \in tx[c].schedules, WriteCounters(counter)
  PROVE  \A k \in Schedules : k \notin tx[c].schedules => available'[k] = available[k]
  BY DEF WriteCounters

\* A commit that makes AVAILABLE the seats it has given back writes the counters that go with it.
LEMMA ReleaseCounted ==
  ASSUME Typed, CounterInv, NEW c \in Sessions, Given(c) = tx[c].held,
         \A s \in tx[c].held : seat[s].status # "AVAILABLE",
         seat' = Released(c), WriteCounters(tx[c].counter)
  PROVE  CounterExact'
<1> SUFFICES ASSUME NEW k \in Schedules PROVE available'[k] = Cardinality(Free(k)')
  BY DEF CounterExact, Free
<1> DEFINE G == Given(c) \cap On(k)
<1>1. tx[c].held \in SUBSET Seats /\ G \in SUBSET Seats /\ Free(k) \in SUBSET Seats
  BY DEF Typed, TypeOK, Transaction, On, Free
<1>2. Free(k)' = Free(k) \cup G /\ Free(k) \cap G = {}
  BY <1>1 DEF Released, Free, On, FreeSeat
<1>3. Cardinality(Free(k)') = Cardinality(Free(k)) + Cardinality(G)
  BY <1>1, <1>2, CountApart
<1>4. available[k] = Cardinality(Free(k)) /\ available[k] \in Int
  BY DEF CounterInv, CounterExact, Free, Typed, TypeOK
<1>5. available'[k] = available[k] + Cardinality(G)
  <2>1. CASE tx[c].counter[k] = None
    <3>1. Cardinality(G) = 0
      BY <2>1, Nothing DEF CounterInv, CounterInHand
    <3> QED BY <1>4, <2>1, <3>1 DEF WriteCounters
  <2>2. CASE tx[c].counter[k] # None
    BY <2>2 DEF CounterInv, CounterInHand, WriteCounters
  <2> QED BY <2>1, <2>2
<1> QED BY <1>3, <1>4, <1>5

\* A commit that releases everything c has locked, and ends the request.
LEMMA ReleaseCounts ==
  ASSUME Typed, CounterInv, NEW c \in Sessions, Given(c) = tx[c].held,
         \A s \in tx[c].held : seat[s].status # "AVAILABLE",
         seat' = Released(c), WriteCounters(tx[c].counter), Finish(c),
         \A b \in Bookings : /\ booking'[b].seats = booking[b].seats
                             /\ booking'[b].schedule_id = booking[b].schedule_id
                             /\ booking[b] = NoBooking => booking'[b] = NoBooking
  PROVE  CounterInv'
<1>1. CounterExact'
  BY ReleaseCounted
<1>2. SeatsOfSchedule'
  BY DEF CounterInv, SeatsOfSchedule, On
<1>3. \A k \in Schedules : k \notin tx[c].schedules => available'[k] = available[k]
  BY WritesOwn DEF CounterInv, CounterInHand
<1> QED BY <1>1, <1>2, <1>3, IdleCounts, OthersCount

LEMMA CreateCounts ==
  ASSUME Overlap = "other_schedule", Sweeps # "any", Sound, CounterInv, NEW c \in Sessions, CreateBegin(c) \/ Create(c)
  PROVE  CounterInv'
<1> USE DEF At, Sound
<1>0. /\ tx \in [Sessions -> Transaction] /\ tx[c] \in Transaction /\ InHand(c)
      /\ OwnSchedule(c) /\ CounterInHand(c) /\ booking \in [Bookings -> BookingRow]
      /\ seat \in [Seats -> SeatRow] /\ available \in [Schedules -> Int]
  BY DEF Typed, TypeOK, RequestsInHand, CounterInv
<1>1. CASE CreateBegin(c)
  <2>1. PICK b \in Bookings, S \in SUBSET Seats, k \in Bookable :
          /\ \A s \in S : ScheduleOf[s] = k
          /\ MayStart(c, {b}, {k})
          /\ tx' = [tx EXCEPT ![c] = Request("lock_seats", b, k, S,
                     [NoCounter EXCEPT ![k] = available[k]], NotLoaded)]
          /\ UNCHANGED store
    BY <1>1, ZenonT(30) DEF CreateBegin
  <2>2. /\ tx'[c].pc = "lock_seats" /\ tx'[c].schedules = {k} /\ tx'[c].seats = S
        /\ tx'[c].held = {} /\ tx'[c].counter = [NoCounter EXCEPT ![k] = available[k]]
        /\ \A d \in Sessions \ {c} : tx'[d] = tx[d]
    BY <1>0, <2>1 DEF Request
  <2>3. k \in Schedules /\ S \subseteq On(k)
    BY <2>1, BookableAssumption DEF On
  <2>4. OwnSchedule(c)'
    BY <2>2, <2>3 DEF OwnSchedule, OnBooking, Sweeping, On
  <2>5. \A j \in Schedules : tx'[c].counter[j] # None => j = k /\ tx'[c].counter[j] = available[j]
    BY <2>2 DEF NoCounter
  <2> QED BY <2>1, <2>2, <2>4, <2>5, BeginCounts DEF store
<1>2. CASE LockSeat(c) \/ SeatTaken(c)
  <2>1. /\ tx[c].pc = "lock_seats" /\ tx'[c].pc = "lock_seats" /\ tx'[c].seats = tx[c].seats
        /\ tx'[c].schedules = tx[c].schedules /\ tx'[c].counter = tx[c].counter
        /\ \A d \in Sessions \ {c} : tx'[d] = tx[d]
        /\ UNCHANGED store
    BY <1>0, <1>2 DEF LockSeat, SeatTaken, Transaction
  <2>2. OwnSchedule(c)'
    BY <1>0, <2>1 DEF OwnSchedule, OnBooking, Sweeping, On
  <2>3. Given(c)' = Given(c)
    BY <2>1 DEF Given
  <2> QED BY <2>1, <2>2, <2>3, GoOnCounts DEF store
<1>3. CASE CreateConflict(c)
  <2>1. Finish(c) /\ UNCHANGED store
    BY <1>3 DEF CreateConflict
  <2> QED BY <2>1, IdleCounts, NothingCounted DEF store, Free
<1>4. CASE CreateCommit(c)
  <2> DEFINE b == tx[c].b
             S == tx[c].seats
  <2>1. PICK k \in Schedules : tx[c].schedules = {k} /\ S \subseteq On(k)
    BY <1>0, <1>4 DEF CreateCommit, OwnSchedule
  <2>2. /\ tx[c].pc = "lock_seats" /\ Todo(c) = {} /\ tx[c].unavailable = {}
        /\ seat' = [s \in Seats |-> IF s \in tx[c].held
                     THEN [status |-> "LOCKED", lockedBy |-> b] ELSE seat[s]]
        /\ booking' = [booking EXCEPT ![b] =
             [status |-> "PENDING", payment_status |-> "PENDING", schedule_id |-> k, seats |-> S]]
        /\ WriteCounters(AddToCounter(c, k, -NSeats(c)))
        /\ Finish(c)
    BY <1>4, <2>1 DEF CreateCommit
  <2>3. b \in Bookings /\ booking[b] = NoBooking /\ tx[c].held = S /\ S \in SUBSET Seats
    BY <1>0, <2>2 DEF InHand, Todo, Transaction
  <2>4. \A s \in S : seat[s].status = "AVAILABLE"
    BY <2>2, <2>3 DEF RowLocks
  <2>5. NSeats(c) = Cardinality(S) /\ Cardinality(S) \in Nat /\ Given(c) = {}
    BY <2>2, <2>3, SeatCount DEF NSeats, Given
  <2>6. \A j \in Schedules \ {k} : tx[c].counter[j] = None
    BY <1>0, <2>1 DEF CounterInHand
  <2>7. /\ AddToCounter(c, k, -NSeats(c))[k] = available[k] - Cardinality(S)
        /\ AddToCounter(c, k, -NSeats(c))[k] # None
        /\ \A j \in Schedules \ {k} : AddToCounter(c, k, -NSeats(c))[j] = None
    <3>1. /\ available[k] \in Int /\ -NSeats(c) \in Int /\ Given(c) \cap On(k) = {}
          /\ k \in Schedules /\ CounterInHand(c) /\ Typed
      BY <1>0, <2>5
    <3>2. /\ AddToCounter(c, k, -NSeats(c))[k] = available[k] + 0 + (-NSeats(c))
          /\ AddToCounter(c, k, -NSeats(c))[k] # None
          /\ \A j \in Schedules \ {k} : AddToCounter(c, k, -NSeats(c))[j] = tx[c].counter[j]
      BY <3>1, Added, Nothing
    <3> QED BY <2>5, <2>6, <3>1, <3>2
  <2>8. /\ available'[k] = available[k] - Cardinality(S)
        /\ \A j \in Schedules \ {k} : available'[j] = available[j]
    BY <2>2, <2>7 DEF WriteCounters
  <2>9. CounterExact'
    <3>1. Free(k) = Free(k)' \cup S /\ Free(k)' \cap S = {} /\ Free(k)' \in SUBSET Seats
      BY <2>1, <2>2, <2>3, <2>4 DEF Free, On
    <3>2. /\ Cardinality(Free(k)) = Cardinality(Free(k)') + Cardinality(S)
          /\ Cardinality(Free(k)') \in Nat
      BY <2>3, <3>1, CountApart
    <3>3. available[k] = Cardinality(Free(k))
      BY DEF CounterInv, CounterExact, Free
    <3>4. available'[k] = Cardinality(Free(k)')
      BY <2>5, <2>8, <3>2, <3>3
    <3>5. \A j \in Schedules \ {k} : Free(j)' = Free(j)
      BY <2>1, <2>2, <2>3 DEF Free, On
    <3>6. \A j \in Schedules \ {k} : available'[j] = Cardinality(Free(j)')
      BY <2>8, <3>5 DEF CounterInv, CounterExact, Free
    <3> QED BY <3>4, <3>6 DEF CounterExact, Free
  <2>10. /\ booking'[b].seats = S /\ booking'[b].schedule_id = k
         /\ \A a \in Bookings \ {b} : booking'[a] = booking[a]
    BY <1>0, <2>2, <2>3
  <2>11. SeatsOfSchedule'
    BY <2>1, <2>10 DEF CounterInv, SeatsOfSchedule, On
  <2> QED BY <2>1, <2>2, <2>3, <2>8, <2>9, <2>10, <2>11, IdleCounts, OthersCount
<1> QED BY <1>1, <1>2, <1>3, <1>4 DEF Create

LEMMA CancelCounts ==
  ASSUME Overlap = "other_schedule", Sweeps # "any", Sound, CounterInv, NEW c \in Sessions, CancelBegin(c) \/ Cancel(c)
  PROVE  CounterInv'
<1> USE DEF At, Sound
<1>0. /\ tx \in [Sessions -> Transaction] /\ tx[c] \in Transaction /\ InHand(c)
      /\ OwnSchedule(c) /\ CounterInHand(c) /\ booking \in [Bookings -> BookingRow]
      /\ \A b \in Bookings : booking[b].seats \in SUBSET Seats
      /\ \A b \in Bookings : booking[b] # NoBooking => booking[b].schedule_id \in Schedules
  BY RowPresent DEF Typed, TypeOK, RequestsInHand, CounterInv
<1>1. CASE CancelBegin(c)
  <2>1. PICK b \in Bookings :
          /\ MayStart(c, {b}, {booking[b].schedule_id})
          /\ tx' = [tx EXCEPT ![c] = Request("cancel_seats", b, booking[b].schedule_id,
                     booking[b].seats, NoCounter, NotLoaded)]
          /\ UNCHANGED store
    BY <1>1 DEF CancelBegin
  <2>2. /\ tx'[c].pc = "cancel_seats" /\ tx'[c].schedules = {booking[b].schedule_id}
        /\ tx'[c].b = b /\ tx'[c].held = {} /\ tx'[c].counter = NoCounter
        /\ \A d \in Sessions \ {c} : tx'[d] = tx[d]
    BY <1>0, <2>1 DEF Request
  <2>3. OwnSchedule(c)'
    BY <2>1, <2>2 DEF OwnSchedule, Sweeping, store
  <2>4. \A j \in Schedules : tx'[c].counter[j] = None
    BY <2>2 DEF NoCounter
  <2> QED BY <2>1, <2>2, <2>3, <2>4, BeginCounts DEF store
<1>2. CASE ReleaseSeat(c)
  <2>1. /\ tx[c].pc = "cancel_seats" /\ tx'[c].pc = "cancel_seats" /\ tx'[c].b = tx[c].b
        /\ tx'[c].schedules = tx[c].schedules /\ tx'[c].counter = tx[c].counter
        /\ \A d \in Sessions \ {c} : tx'[d] = tx[d]
        /\ UNCHANGED store
    BY <1>0, <1>2 DEF ReleaseSeat, UpdateSeatRow, Transaction
  <2>2. OwnSchedule(c)'
    BY <1>0, <2>1 DEF OwnSchedule, OnBooking, Sweeping, store
  <2>3. Given(c)' = Given(c)
    BY <2>1 DEF Given
  <2> QED BY <2>1, <2>2, <2>3, GoOnCounts DEF store
<1>3. CASE CancelReadSchedule(c)
  <2> DEFINE k == booking[tx[c].b].schedule_id
  <2>1. /\ tx[c].pc = "cancel_seats" /\ Todo(c) = {}
        /\ tx'[c].pc = "cancel_commit" /\ tx'[c].b = tx[c].b /\ tx'[c].held = tx[c].held
        /\ tx'[c].schedules = tx[c].schedules
        /\ tx'[c].counter = AddToCounter(c, k, NSeats(c))
        /\ \A d \in Sessions \ {c} : tx'[d] = tx[d]
        /\ UNCHANGED store
    BY <1>0, <1>3 DEF CancelReadSchedule, Transaction
  <2>2. /\ tx[c].b \in Bookings /\ booking[tx[c].b] # NoBooking /\ tx[c].held = booking[tx[c].b].seats
        /\ tx[c].seats = tx[c].held /\ tx[c].schedules = {k} /\ k \in Schedules
    BY <1>0, <2>1 DEF InHand, OnBooking, OwnSchedule, Todo
  <2>3. tx[c].held \subseteq On(k)
    BY <2>2 DEF CounterInv, SeatsOfSchedule
  <2>4. Given(c) = {} /\ Given(c)' = tx[c].held
    BY <2>1 DEF Given
  <2>5. NSeats(c) = Cardinality(tx[c].held) /\ NSeats(c) \in Nat
    BY <1>0, <2>2, SeatCount DEF NSeats
  <2>6. /\ AddToCounter(c, k, NSeats(c))[k] = available[k] + NSeats(c)
        /\ AddToCounter(c, k, NSeats(c))[k] # None
        /\ \A j \in Schedules \ {k} : AddToCounter(c, k, NSeats(c))[j] = tx[c].counter[j]
    <3>1. available[k] \in Int
      BY <2>2 DEF Typed, TypeOK
    <3> QED BY <1>0, <2>2, <2>4, <2>5, <3>1, Added, Nothing
  <2>7. /\ tx[c].held \cap On(k) = tx[c].held
        /\ \A j \in Schedules \ {k} : tx[c].held \cap On(j) = {} /\ tx[c].counter[j] = None
    BY <1>0, <2>2, <2>3 DEF On, CounterInHand
  <2>8. available' = available /\ \A j : On(j)' = On(j)
    BY <2>1 DEF store, On
  <2>9. CounterInHand(c)'
    <3> SUFFICES ASSUME NEW j \in Schedules
                 PROVE  /\ tx'[c].counter[j] # None =>
                             /\ j \in tx'[c].schedules
                             /\ tx'[c].counter[j] = available[j] + Cardinality(tx[c].held \cap On(j))
                        /\ tx[c].held \cap On(j) # {} => tx'[c].counter[j] # None
      BY <2>4, <2>8 DEF CounterInHand
    <3> HIDE DEF k
    <3>1. CASE j = k
      BY <2>1, <2>2, <2>5, <2>6, <2>7, <3>1
    <3>2. CASE j # k
      BY <2>1, <2>6, <2>7, <3>2
    <3> QED BY <3>1, <3>2
  <2>10. OwnSchedule(c)'
    BY <1>0, <2>1 DEF OwnSchedule, OnBooking, Sweeping, store
  <2>11. \A d \in Sessions \ {c} : tx'[c].schedules \cap tx[d].schedules = {}
    BY <2>1 DEF CounterInv
  <2> QED BY <2>1, <2>9, <2>10, <2>11, NothingCounted DEF store, Free
<1>4. CASE CancelCommit(c)
  <2>1. /\ tx[c].pc = "cancel_commit" /\ seat' = Released(c) /\ Finish(c)
        /\ booking' = [booking EXCEPT ![tx[c].b].status = "CANCELLED"]
        /\ WriteCounters(tx[c].counter)
    BY <1>4 DEF CancelCommit
  <2>2. /\ tx[c].b \in Bookings /\ booking[tx[c].b] # NoBooking
        /\ tx[c].held = booking[tx[c].b].seats /\ Live(tx[c].b)
    BY <1>0, <2>1 DEF InHand, OnBooking, ChecksStillHold, Checked
  <2>3. Given(c) = tx[c].held
    BY <2>1 DEF Given
  <2>4. \A s \in tx[c].held : seat[s].status # "AVAILABLE"
    BY <2>2 DEF HoldsItsSeats, Live
  <2>5. \A b \in Bookings : /\ booking'[b].seats = booking[b].seats
                            /\ booking'[b].schedule_id = booking[b].schedule_id
                            /\ booking[b] = NoBooking => booking'[b] = NoBooking
    BY <1>0, <2>1, <2>2 DEF BookingRow, NoBooking
  <2> QED BY <2>1, <2>3, <2>4, <2>5, ReleaseCounts
<1> QED BY <1>1, <1>2, <1>3, <1>4 DEF Cancel

LEMMA SweepCounts ==
  ASSUME Overlap = "other_schedule", Sweeps # "any", Sound, CounterInv, NEW c \in Sessions, SweepBegin(c) \/ Sweep(c)
  PROVE  CounterInv'
<1> USE DEF At, Sound
<1>0. /\ tx \in [Sessions -> Transaction] /\ tx[c] \in Transaction /\ InHand(c) /\ Checked(c)
      /\ OwnSchedule(c) /\ CounterInHand(c) /\ booking \in [Bookings -> BookingRow]
      /\ \A b \in Bookings : booking[b].seats \in SUBSET Seats
      /\ \A b \in Bookings : booking[b] # NoBooking => booking[b].schedule_id \in Schedules
  BY RowPresent DEF Typed, TypeOK, RequestsInHand, ChecksStillHold, CounterInv
<1>1. CASE SweepBegin(c)
  <2> DEFINE stale == {b \in lapsed : booking[b].status = "PENDING"}
             ks == {booking[b].schedule_id : b \in stale}
  <2>1. /\ MayStart(c, stale, ks) /\ UNCHANGED store
        /\ tx' = [tx EXCEPT ![c] = [Idle EXCEPT !.pc = "sweep_next", !.bookings = stale,
                    !.schedules = ks, !.stale = stale]]
    BY <1>1, SweepsAssumption DEF SweepBegin
  <2>2. /\ tx'[c].pc = "sweep_next" /\ tx'[c].bookings = stale /\ tx'[c].schedules = ks
        /\ tx'[c].held = {} /\ tx'[c].counter = NoCounter
        /\ \A d \in Sessions \ {c} : tx'[d] = tx[d]
    BY <1>0, <2>1 DEF Idle
  <2>3. OwnSchedule(c)'
    BY <2>1, <2>2 DEF OwnSchedule, OnBooking, store
  <2>4. \A j \in Schedules : tx'[c].counter[j] = None
    BY <2>2 DEF NoCounter
  <2> HIDE DEF stale, ks
  <2> QED BY <2>1, <2>2, <2>3, <2>4, BeginCounts DEF store
<1>2. CASE SweepNext(c)
  <2>1. PICK b \in tx[c].stale :
          /\ tx[c].pc = "sweep_next"
          /\ tx' = [tx EXCEPT ![c].pc = "sweep_seats", ![c].b = b,
                      ![c].seats = booking[b].seats, ![c].stale = @ \ {b}]
          /\ UNCHANGED store
    BY <1>2 DEF SweepNext
  <2>2. /\ tx'[c].pc = "sweep_seats" /\ tx'[c].bookings = tx[c].bookings
        /\ tx'[c].stale = tx[c].stale \ {b} /\ tx'[c].seats = booking[b].seats
        /\ tx'[c].held = tx[c].held /\ tx'[c].schedules = tx[c].schedules
        /\ tx'[c].counter = tx[c].counter
        /\ \A d \in Sessions \ {c} : tx'[d] = tx[d]
    BY <1>0, <2>1 DEF Transaction
  <2>3. /\ tx[c].stale \subseteq tx[c].bookings /\ tx[c].bookings \subseteq Bookings
        /\ \A a \in tx[c].bookings : booking[a].status = "PENDING"
        /\ \A s \in tx[c].held : \E a \in tx[c].bookings \ tx[c].stale : s \in booking[a].seats
    BY <1>0, <2>1 DEF InHand, Sweeping, Checked, OwnSchedule, Transaction
  <2>4. ASSUME NEW a \in tx[c].bookings \ tx[c].stale
        PROVE  booking[a].seats \cap booking[b].seats = {}
    BY <2>3 DEF HoldsItsSeats, Live
  <2>5. tx[c].held \cap booking[b].seats = {}
    BY <2>3, <2>4
  <2>6. Given(c)' = Given(c)
    BY <2>1, <2>2, <2>5 DEF Given
  <2>7. OwnSchedule(c)'
    BY <1>0, <2>1, <2>2 DEF OwnSchedule, OnBooking, Sweeping, store
  <2> QED BY <2>1, <2>2, <2>6, <2>7, GoOnCounts DEF store
<1>3. CASE SweepSeat(c)
  <2>1. PICK s \in Todo(c) :
          /\ tx[c].pc = "sweep_seats"
          /\ tx' = [tx EXCEPT ![c].held = @ \cup {s}]
          /\ UNCHANGED store
    BY <1>3 DEF SweepSeat, UpdateSeatRow
  <2>2. /\ tx'[c].pc = "sweep_seats" /\ tx'[c].bookings = tx[c].bookings /\ tx'[c].stale = tx[c].stale
        /\ tx'[c].seats = tx[c].seats /\ tx'[c].held = tx[c].held \cup {s}
        /\ tx'[c].schedules = tx[c].schedules /\ tx'[c].counter = tx[c].counter
        /\ \A d \in Sessions \ {c} : tx'[d] = tx[d]
    BY <1>0, <2>1 DEF Transaction
  <2>3. /\ s \in tx[c].seats /\ tx[c].seats = booking[tx[c].b].seats
        /\ tx[c].b \in tx[c].bookings \ tx[c].stale
    BY <1>0, <2>1 DEF InHand, Todo
  <2>4. Given(c)' = Given(c)
    BY <2>1, <2>2, <2>3 DEF Given
  <2>5. OwnSchedule(c)'
    BY <1>0, <2>1, <2>2, <2>3 DEF OwnSchedule, OnBooking, Sweeping, store
  <2> QED BY <2>1, <2>2, <2>4, <2>5, GoOnCounts DEF store
<1>4. CASE SweepReadSchedule(c)
  <2> DEFINE k == booking[tx[c].b].schedule_id
             S == tx[c].seats
  <2>1. /\ tx[c].pc = "sweep_seats" /\ Todo(c) = {}
        /\ tx'[c].pc = "sweep_next" /\ tx'[c].bookings = tx[c].bookings /\ tx'[c].stale = tx[c].stale
        /\ tx'[c].held = tx[c].held /\ tx'[c].schedules = tx[c].schedules
        /\ tx'[c].counter = AddToCounter(c, k, NSeats(c))
        /\ \A d \in Sessions \ {c} : tx'[d] = tx[d]
        /\ UNCHANGED store
    BY <1>0, <1>4 DEF SweepReadSchedule, Transaction
  <2>2. /\ tx[c].b \in Bookings /\ booking[tx[c].b] # NoBooking /\ S = booking[tx[c].b].seats
        /\ S \subseteq tx[c].held /\ tx[c].held \in SUBSET Seats
        /\ k \in tx[c].schedules /\ k \in Schedules
    BY <1>0, <2>1 DEF InHand, Sweeping, OwnSchedule, Todo, Transaction
  <2>3. S \subseteq On(k)
    BY <2>2 DEF CounterInv, SeatsOfSchedule
  <2>4. Given(c) = tx[c].held \ S /\ Given(c)' = tx[c].held
    BY <2>1 DEF Given
  <2>5. NSeats(c) = Cardinality(S) /\ NSeats(c) \in Nat
    BY <2>2, SeatCount DEF NSeats
  <2>6. /\ AddToCounter(c, k, NSeats(c))[k] =
             available[k] + Cardinality(Given(c) \cap On(k)) + NSeats(c)
        /\ AddToCounter(c, k, NSeats(c))[k] # None
        /\ \A j \in Schedules \ {k} : AddToCounter(c, k, NSeats(c))[j] = tx[c].counter[j]
    <3>1. CounterInHand(c) /\ Typed /\ k \in Schedules /\ NSeats(c) \in Int
      BY <2>2, <2>5 DEF CounterInv, Sound
    <3> HIDE DEF k
    <3> QED BY <3>1, Added
  <2>7. /\ Cardinality(Given(c) \cap On(k)) \in Nat
        /\ Cardinality(tx[c].held \cap On(k)) = Cardinality(Given(c) \cap On(k)) + Cardinality(S)
    <3>1. /\ Given(c) \cap On(k) \in SUBSET Seats /\ S \in SUBSET Seats
          /\ (Given(c) \cap On(k)) \cap S = {}
          /\ (Given(c) \cap On(k)) \cup S = tx[c].held \cap On(k)
      BY <2>2, <2>3, <2>4
    <3> QED BY <3>1, CountApart
  <2>8. \A j \in Schedules \ {k} : tx[c].held \cap On(j) = Given(c) \cap On(j)
    BY <2>3, <2>4 DEF On
  <2>9. available' = available /\ \A j : On(j)' = On(j)
    BY <2>1 DEF store, On
  <2>10. CounterInHand(c)'
    <3> SUFFICES ASSUME NEW j \in Schedules
                 PROVE  /\ tx'[c].counter[j] # None =>
                             /\ j \in tx'[c].schedules
                             /\ tx'[c].counter[j] = available[j] + Cardinality(tx[c].held \cap On(j))
                        /\ tx[c].held \cap On(j) # {} => tx'[c].counter[j] # None
      BY <2>4, <2>9 DEF CounterInHand
    <3> HIDE DEF k, S
    <3>1. CASE j = k
      <4>1. available[k] \in Int
        BY <2>2 DEF Typed, TypeOK
      <4> QED BY <2>1, <2>2, <2>5, <2>6, <2>7, <3>1, <4>1
    <3>2. CASE j # k
      BY <1>0, <2>1, <2>6, <2>8, <3>2 DEF CounterInHand
    <3> QED BY <3>1, <3>2
  <2>11. OwnSchedule(c)'
    BY <1>0, <2>1 DEF OwnSchedule, OnBooking, Sweeping, store
  <2>12. \A d \in Sessions \ {c} : tx'[c].schedules \cap tx[d].schedules = {}
    BY <2>1 DEF CounterInv
  <2> QED BY <2>1, <2>10, <2>11, <2>12, NothingCounted DEF store, Free
<1>5. CASE SweepCommit(c)
  <2>1. /\ tx[c].pc = "sweep_next" /\ seat' = Released(c) /\ Finish(c)
        /\ booking' = [b \in Bookings |-> IF b \in tx[c].bookings
                         THEN [booking[b] EXCEPT !.status = "EXPIRED"] ELSE booking[b]]
        /\ WriteCounters(tx[c].counter)
    BY <1>5 DEF SweepCommit
  <2>2. /\ \A b \in tx[c].bookings : booking[b].status = "PENDING" /\ booking[b] # NoBooking
        /\ tx[c].bookings \subseteq Bookings
        /\ \A s \in tx[c].held : \E b \in tx[c].bookings : s \in booking[b].seats
    BY <1>0, <2>1 DEF InHand, Sweeping, Checked, Transaction
  <2>3. Given(c) = tx[c].held
    BY <2>1 DEF Given
  <2>4. \A s \in tx[c].held : seat[s].status # "AVAILABLE"
    BY <2>2 DEF HoldsItsSeats, Live
  <2>5. \A b \in Bookings : /\ booking'[b].seats = booking[b].seats
                            /\ booking'[b].schedule_id = booking[b].schedule_id
                            /\ booking[b] = NoBooking => booking'[b] = NoBooking
    BY <1>0, <2>1, <2>2 DEF BookingRow, NoBooking
  <2> QED BY <2>1, <2>3, <2>4, <2>5, ReleaseCounts
<1> QED BY <1>1, <1>2, <1>3, <1>4, <1>5 DEF Sweep

LEMMA PayCounts ==
  ASSUME Overlap = "other_schedule", Sweeps # "any", ~Redirects, Sound, CounterInv,
         NEW c \in Sessions, PayBegin(c) \/ Pay(c)
  PROVE  CounterInv'
<1> USE DEF At, Sound
<1>0. /\ tx \in [Sessions -> Transaction] /\ tx[c] \in Transaction /\ InHand(c) /\ Checked(c)
      /\ OwnSchedule(c) /\ CounterInHand(c) /\ booking \in [Bookings -> BookingRow]
      /\ \A d \in Sessions \ {c} : tx[c].schedules \cap tx[d].schedules = {}
      /\ \A b \in Bookings : booking[b].status # "ABSENT" => booking[b] # NoBooking
  BY RowPresent DEF Typed, TypeOK, RequestsInHand, ChecksStillHold, CounterInv
<1>1. CASE PayBegin(c)
  <2>1. PICK b \in Bookings :
          /\ MayStart(c, {b}, {booking[b].schedule_id})
          /\ tx' = [tx EXCEPT ![c] = Request("pay_check", b, booking[b].schedule_id,
                booking[b].seats, NoCounter,
                [status |-> booking[b].status, payment_status |-> booking[b].payment_status,
                 payment |-> "ABSENT"])]
          /\ UNCHANGED store
    BY <1>1 DEF PayBegin
  <2>2. /\ tx'[c].pc = "pay_check" /\ tx'[c].schedules = {booking[b].schedule_id}
        /\ tx'[c].b = b /\ tx'[c].held = {} /\ tx'[c].counter = NoCounter
        /\ \A d \in Sessions \ {c} : tx'[d] = tx[d]
    BY <1>0, <2>1 DEF Request
  <2>3. OwnSchedule(c)'
    BY <2>1, <2>2 DEF OwnSchedule, Sweeping, store
  <2>4. \A j \in Schedules : tx'[c].counter[j] = None
    BY <2>2 DEF NoCounter
  <2> QED BY <2>1, <2>2, <2>3, <2>4, BeginCounts DEF store
<1>2. ASSUME /\ tx[c].pc \in Paying /\ tx'[c].pc \in Paying /\ tx'[c].b = tx[c].b
             /\ tx'[c].schedules = tx[c].schedules /\ tx'[c].counter = tx[c].counter
             /\ \A d \in Sessions \ {c} : tx'[d] = tx[d],
             seat' = seat, available' = available,
             \A b \in Bookings : /\ booking'[b].seats = booking[b].seats
                                 /\ booking'[b].schedule_id = booking[b].schedule_id
                                 /\ booking[b] = NoBooking => booking'[b] = NoBooking
      PROVE  CounterInv'
  <2>1. tx[c].b \in Bookings /\ tx[c].schedules = {booking[tx[c].b].schedule_id}
    BY <1>0, <1>2 DEF InHand, OnBooking, OwnSchedule, Paying
  <2>2. OwnSchedule(c)'
    BY <1>2, <2>1 DEF OwnSchedule, Sweeping, Paying
  <2>3. Given(c)' = Given(c)
    BY <1>2 DEF Given, Paying
  <2> QED BY <1>2, <2>2, <2>3, GoOnCounts
<1>3. CASE PayCheck(c)
  BY <1>0, <1>2, <1>3 DEF PayCheck, Transaction, Paying, store
<1>4. CASE VerifyOk(c)
  BY <1>0, <1>2, <1>4 DEF VerifyOk, Transaction, Paying, store
<1>5. CASE VerifyFailed(c)
  BY <1>0, <1>2, <1>5 DEF VerifyFailed, Transaction, Paying, store
<1>6. CASE BookSeat(c)
  BY <1>0, <1>2, <1>6 DEF BookSeat, UpdateSeatRow, Transaction, Paying, store
<1>7. CASE PayCommit(c)
  <2>1. /\ tx[c].pc = "pay_commit" /\ tx'[c].pc = "verify" /\ tx'[c].b = tx[c].b
        /\ tx'[c].schedules = tx[c].schedules /\ tx'[c].counter = tx[c].counter
        /\ \A d \in Sessions \ {c} : tx'[d] = tx[d]
    BY <1>0, <1>7 DEF PayCommit, Transaction
  <2>2. PICK u : /\ booking' = [booking EXCEPT ![tx[c].b].payment_status = u]
                 /\ seat' = seat /\ available' = available
    BY <1>7 DEF PayCommit
  <2>3. tx[c].b \in Bookings /\ booking[tx[c].b] # NoBooking
    BY <1>0, <2>1 DEF InHand, OnBooking
  <2>4. \A b \in Bookings : /\ booking'[b].seats = booking[b].seats
                            /\ booking'[b].schedule_id = booking[b].schedule_id
                            /\ booking[b] = NoBooking => booking'[b] = NoBooking
    BY <1>0, <2>2, <2>3 DEF BookingRow, NoBooking
  <2> QED BY <1>2, <2>1, <2>2, <2>4 DEF Paying
<1>8. CASE PayReject(c) \/ PayUnavailable(c) \/ VerifyError(c)
  <2>1. Finish(c) /\ UNCHANGED store
    BY <1>8 DEF PayReject, PayUnavailable, VerifyError
  <2> QED BY <2>1, IdleCounts, NothingCounted DEF store, Free
<1>9. CASE ConfirmCommit(c)
  <2> DEFINE b == tx[c].b
  <2>1. /\ tx[c].pc = "book_seats" /\ Finish(c) /\ available' = available
        /\ booking' = [booking EXCEPT
             ![b].status = Column(tx[c].row.status, "CONFIRMED", @),
             ![b].payment_status = Column(tx[c].row.payment_status, "COMPLETED", @)]
        /\ seat' = [s \in Seats |-> IF s \in tx[c].held
                     THEN [seat[s] EXCEPT !.status = "BOOKED"] ELSE seat[s]]
    BY <1>9 DEF ConfirmCommit
  <2>2. /\ b \in Bookings /\ booking[b] # NoBooking /\ tx[c].held \subseteq booking[b].seats
        /\ booking[b].status = "PENDING"
    BY <1>0, <2>1 DEF InHand, OnBooking, Checked, Paying
  <2>3. \A a \in Bookings : /\ booking'[a].seats = booking[a].seats
                            /\ booking'[a].schedule_id = booking[a].schedule_id
                            /\ booking[a] = NoBooking => booking'[a] = NoBooking
    BY <1>0, <2>1, <2>2 DEF BookingRow, NoBooking
  <2>4. \A s \in tx[c].held : seat[s].status # "AVAILABLE"
    BY <2>2 DEF HoldsItsSeats, Live
  <2>5. \A s \in Seats : seat'[s].status = "AVAILABLE" <=> seat[s].status = "AVAILABLE"
    BY <2>1, <2>4 DEF Typed, TypeOK, SeatRow
  <2>6. \A k \in Schedules : Free(k)' = Free(k)
    BY <2>5 DEF Free
  <2>7. /\ Typed /\ OwnSchedule(c)' /\ CounterInHand(c)' /\ tx'[c].schedules = {}
        /\ \A d \in Sessions \ {c} : tx'[d] = tx[d]
    BY <2>1, IdleCounts DEF Sound
  <2>8. available' = available
    BY <2>1
  <2> QED BY <2>3, <2>6, <2>7, <2>8, NothingCounted
<1>10. CASE FailCommit(c)
  <2>1. PICK u : /\ booking' = [booking EXCEPT ![tx[c].b].payment_status = u]
                 /\ seat' = seat /\ available' = available /\ Finish(c)
    BY <1>10 DEF FailCommit
  <2>2. tx[c].b \in Bookings /\ booking[tx[c].b] # NoBooking
    BY <1>0, <1>10 DEF FailCommit, InHand, OnBooking
  <2>3. \A b \in Bookings : /\ booking'[b].seats = booking[b].seats
                            /\ booking'[b].schedule_id = booking[b].schedule_id
                            /\ booking[b] = NoBooking => booking'[b] = NoBooking
    BY <1>0, <2>1, <2>2 DEF BookingRow, NoBooking
  <2> QED BY <2>1, <2>3, IdleCounts, NothingCounted DEF Free
<1> QED BY <1>1, <1>3, <1>4, <1>5, <1>6, <1>7, <1>8, <1>9, <1>10 DEF Pay

-----------------------------------------------------------------------------
LEMMA CounterNext ==
  ASSUME Overlap = "other_schedule", Sweeps # "any", ~Redirects, Sound, CounterInv, [Next]_vars
  PROVE  CounterInv'
<1>1. ASSUME NEW c \in Sessions, Begin(c) \/ Serve(c) PROVE CounterInv'
  BY <1>1, CreateCounts, CancelCounts, SweepCounts, PayCounts DEF Begin, Serve, CallbackBegin
<1>2. ASSUME NEW c \in Sessions, Abort(c) \/ DeadlockVictim(c) PROVE CounterInv'
  <2>1. Finish(c) /\ UNCHANGED store
    BY <1>2 DEF Abort, DeadlockVictim
  <2> QED BY <2>1, IdleCounts, NothingCounted DEF store, Free, Sound
<1>3. ASSUME UNCHANGED <<store, tx>> PROVE CounterInv'
  <2>1. /\ tx' = tx /\ booking' = booking /\ seat' = seat /\ available' = available
    BY <1>3 DEF store
  <2>2. CounterExact' /\ SeatsOfSchedule'
    BY <2>1 DEF CounterInv, CounterExact, SeatsOfSchedule, On
  <2>3. ASSUME NEW c \in Sessions PROVE OwnSchedule(c)' /\ CounterInHand(c)'
    <3>1. OwnSchedule(c)'
      BY <2>1 DEF CounterInv, OwnSchedule, On
    <3>2. Given(c)' = Given(c) /\ \A k : On(k)' = On(k)
      BY <2>1 DEF Given, On
    <3> QED BY <2>1, <3>1, <3>2 DEF CounterInv, CounterInHand
  <2> QED BY <2>1, <2>2, <2>3 DEF CounterInv
<1>4. ASSUME NEW b \in Bookings, Lapse(b) PROVE CounterInv'
  BY <1>3, <1>4 DEF Lapse
<1>5. CASE UNCHANGED vars
  BY <1>3, <1>5 DEF vars, store
<1> QED BY <1>1, <1>2, <1>4, <1>5 DEF Next

LEMMA CounterInit == Init => CounterInv
<1> SUFFICES ASSUME Init PROVE CounterInv
  OBVIOUS
<1>1. CounterExact
  <2>1. \A k : {s \in Seats : ScheduleOf[s] = k /\ seat[s].status = "AVAILABLE"} =
               {s \in Seats : ScheduleOf[s] = k}
    BY DEF Init, FreeSeat
  <2> QED BY <2>1 DEF Init, CounterExact
<1>2. SeatsOfSchedule
  BY DEF Init, SeatsOfSchedule
<1>3. ASSUME NEW c \in Sessions
      PROVE  /\ OwnSchedule(c) /\ CounterInHand(c)
             /\ \A d \in Sessions \ {c} : tx[c].schedules \cap tx[d].schedules = {}
  <2>1. \A d \in Sessions : tx[d] = Idle
    BY DEF Init
  <2>2. Given(c) = {} /\ \A k \in Schedules : tx[c].counter[k] = None
    BY <2>1 DEF Given, Idle, NoCounter
  <2> QED BY <2>1, <2>2 DEF OwnSchedule, CounterInHand, Idle, OnBooking, Sweeping
<1> QED BY <1>1, <1>2, <1>3 DEF CounterInv

\* If neither clients nor sweeps ever work on one schedule at once, its counter is exact: through
\* every rollback, death, partial lock and sweep over many bookings of many schedules, what
\* available_seats says is the number of AVAILABLE seats.
THEOREM CounterStaysExact ==
  ASSUME Overlap = "other_schedule", Sweeps # "any", ~Redirects
  PROVE  Spec => []CounterExact
<1>1. Spec => []Sound
  BY SoundInvariant DEF Sound
<1>2. Sound /\ CounterInv /\ [Next]_vars => CounterInv'
  BY CounterNext
<1>3. CounterInv => CounterExact
  BY DEF CounterInv
<1> QED BY <1>1, <1>2, <1>3, CounterInit, PTL DEF Spec
=============================================================================
