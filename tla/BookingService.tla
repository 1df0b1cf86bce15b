--------------------------- MODULE BookingService ---------------------------
(***************************************************************************)
(* backend/app/booking/service.py: create_booking (with lock_seats),       *)
(* cancel_booking and expire_stale_bookings, one action per await that     *)
(* another request can come between.  An operator named for a plausible    *)
(* slip (_NoStatusCheck, _NoRollback, ...) is a mutated form of the        *)
(* operator after it, which the project's mutation runs put in its place.  *)
(***************************************************************************)
EXTENDS Tables

NSeats(c) == Cardinality(tx[c].seats)

AddToCounter_Reloads(c, k, n) == [tx[c].counter EXCEPT ![k] = available[k] + n]

\* schedule = SELECT ...: a counter already in the session's identity map is not
\* loaded again; then "schedule.available_seats += n", in memory.
AddToCounter(c, k, n) ==
  [tx[c].counter EXCEPT ![k] = (IF @ = None THEN available[k] ELSE @) + n]

\* The UPDATE the flush emits: the value computed in memory, whatever the row holds by now.
WriteCounters(counter) ==
  available' = [k \in Schedules |-> IF counter[k] = None THEN available[k] ELSE counter[k]]

-----------------------------------------------------------------------------
(* create_booking *)

\* From the request to the flush that assigns booking.id: the schedule row is loaded
\* (its counter with it), the seats are validated, the booking is inserted but visible
\* to nobody.  A request the checks refuse changes nothing.
CreateBegin(c) ==
  \E b \in Bookings, S \in SUBSET Seats, k \in Bookable :
    /\ At(c, "idle")
    /\ S # {} /\ Cardinality(S) <= MaxPassengers
    /\ \A s \in S : ScheduleOf[s] = k
    /\ booking[b].status = "ABSENT"
    /\ \A d \in Sessions : b \notin tx[d].bookings
    /\ MayStart(c, {b}, {k})
    /\ tx' = [tx EXCEPT ![c] = Request("lock_seats", b, k, S,
                [NoCounter EXCEPT ![k] = available[k]], NotLoaded)]
    /\ UNCHANGED <<store, lapsed, callbacks>>

LockSeat_NoStatusCheck(c) ==
  /\ At(c, "lock_seats")
  /\ UpdateSeatRow(c)

\* UPDATE ... WHERE id = s AND status = AVAILABLE matches the row.
LockSeat(c) ==
  \E s \in Todo(c) :
    /\ At(c, "lock_seats")
    /\ seat[s].status = "AVAILABLE"
    /\ RowFree(c, s)
    /\ tx' = [tx EXCEPT ![c].held = @ \cup {s}]
    /\ UNCHANGED <<store, lapsed, callbacks>>

SeatTaken_Retries(c) == At(c, "lock_seats") /\ UNCHANGED vars

\* ... or it matches nothing (rowcount 0), at once if the committed row is not AVAILABLE,
\* else after waiting for the transaction that takes it.
SeatTaken(c) ==
  \E s \in Todo(c) :
    /\ At(c, "lock_seats")
    /\ seat[s].status # "AVAILABLE"
    /\ tx' = [tx EXCEPT ![c].unavailable = @ \cup {s}]
    /\ UNCHANGED <<store, lapsed, callbacks>>

CreateConflict_TriesAgain(c) ==
  /\ At(c, "lock_seats")
  /\ Todo(c) = {}
  /\ tx[c].unavailable # {}
  /\ tx' = [tx EXCEPT ![c].held = {}, ![c].unavailable = {}]
  /\ UNCHANGED <<store, lapsed, callbacks>>

\* SeatsUnavailableError: everything is rolled back, the answer is 409.
CreateConflict(c) ==
  /\ At(c, "lock_seats")
  /\ Todo(c) = {}
  /\ tx[c].unavailable # {}
  /\ Finish(c)
  /\ UNCHANGED <<store, lapsed, callbacks>>

CreateCommit_PartialLock(c) ==
  \E k \in tx[c].schedules :
    /\ At(c, "lock_seats")
    /\ Todo(c) = {}
    /\ tx[c].held # {}
    /\ seat' = [s \in Seats |-> IF s \in tx[c].held
                 THEN [status |-> "LOCKED", lockedBy |-> tx[c].b] ELSE seat[s]]
    /\ booking' = [booking EXCEPT ![tx[c].b] =
         [status |-> "PENDING", payment_status |-> "PENDING", schedule_id |-> k,
          seats |-> tx[c].seats]]
    /\ WriteCounters(AddToCounter(c, k, -NSeats(c)))
    /\ Finish(c)
    /\ UNCHANGED <<payment, lapsed, callbacks>>

\* Every seat was locked: passengers, counter and booking are committed with the locks.
CreateCommit(c) ==
  \E k \in tx[c].schedules :
    /\ At(c, "lock_seats")
    /\ Todo(c) = {}
    /\ tx[c].unavailable = {}
    /\ seat' = [s \in Seats |-> IF s \in tx[c].held
                 THEN [status |-> "LOCKED", lockedBy |-> tx[c].b] ELSE seat[s]]
    /\ booking' = [booking EXCEPT ![tx[c].b] =
         [status |-> "PENDING", payment_status |-> "PENDING", schedule_id |-> k,
          seats |-> tx[c].seats]]
    /\ WriteCounters(AddToCounter(c, k, -NSeats(c)))
    /\ Finish(c)
    /\ UNCHANGED <<payment, lapsed, callbacks>>

Create(c) == LockSeat(c) \/ SeatTaken(c) \/ CreateConflict(c) \/ CreateCommit(c)

-----------------------------------------------------------------------------
(* cancel_booking *)

CancelBegin_NoStatusCheck(c) ==
  \E b \in Bookings :
    /\ At(c, "idle")
    /\ booking[b].status # "ABSENT"
    /\ MayStart(c, {b}, {booking[b].schedule_id})
    /\ tx' = [tx EXCEPT ![c] = Request("cancel_seats", b, booking[b].schedule_id,
                booking[b].seats, NoCounter, NotLoaded)]
    /\ UNCHANGED <<store, lapsed, callbacks>>

\* The booking is read and its status checked; its seats are those of its passengers.
CancelBegin(c) ==
  \E b \in Bookings :
    /\ At(c, "idle")
    /\ booking[b].status \in {"PENDING", "CONFIRMED"}
    /\ MayStart(c, {b}, {booking[b].schedule_id})
    /\ tx' = [tx EXCEPT ![c] = Request("cancel_seats", b, booking[b].schedule_id,
                booking[b].seats, NoCounter, NotLoaded)]
    /\ UNCHANGED <<store, lapsed, callbacks>>

\* UPDATE seats SET status = AVAILABLE, whatever the status and whoever holds them now.
ReleaseSeat(c) == At(c, "cancel_seats") /\ UpdateSeatRow(c)

CancelReadSchedule_SkipsLocked(c) ==
  /\ At(c, "cancel_seats")
  /\ \A s \in Todo(c) : ~RowFree(c, s)
  /\ tx' = [tx EXCEPT ![c].pc = "cancel_commit",
              ![c].counter = AddToCounter(c, booking[tx[c].b].schedule_id, NSeats(c))]
  /\ UNCHANGED <<store, lapsed, callbacks>>

\* Every row is released in the transaction; the schedule's counter is loaded and raised.
CancelReadSchedule(c) ==
  /\ At(c, "cancel_seats")
  /\ Todo(c) = {}
  /\ tx' = [tx EXCEPT ![c].pc = "cancel_commit",
              ![c].counter = AddToCounter(c, booking[tx[c].b].schedule_id, NSeats(c))]
  /\ UNCHANGED <<store, lapsed, callbacks>>

Released_OnlyLocked(c) ==
  [s \in Seats |-> IF s \in tx[c].held /\ seat[s].status = "LOCKED" THEN FreeSeat ELSE seat[s]]

\* Released rows, as an UPDATE of the held rows writes them at commit.
Released(c) == [s \in Seats |-> IF s \in tx[c].held THEN FreeSeat ELSE seat[s]]

CancelCommit(c) ==
  /\ At(c, "cancel_commit")
  /\ seat' = Released(c)
  /\ booking' = [booking EXCEPT ![tx[c].b].status = "CANCELLED"]
  /\ WriteCounters(tx[c].counter)
  /\ Finish(c)
  /\ UNCHANGED <<payment, lapsed, callbacks>>

Cancel(c) == ReleaseSeat(c) \/ CancelReadSchedule(c) \/ CancelCommit(c)

-----------------------------------------------------------------------------
(* expire_stale_bookings: one transaction over every stale booking *)

SweepBegin_OnlyUnpaid(c) ==
  LET stale == {b \in lapsed : /\ booking[b].status = "PENDING"
                            /\ booking[b].payment_status = "PENDING"}
      ks == {booking[b].schedule_id : b \in stale} IN
  /\ Sweeps # "never"
  /\ At(c, "idle")
  /\ stale # {}
  /\ Sweeps = "apart" => MayStart(c, stale, ks)
  /\ tx' = [tx EXCEPT ![c] = [Idle EXCEPT !.pc = "sweep_next", !.bookings = stale,
              !.schedules = ks, !.stale = stale]]
  /\ UNCHANGED <<store, lapsed, callbacks>>

\* SELECT of the PENDING bookings whose expires_at has passed, also of those that another
\* request is working on: only Sweeps = "apart" keeps it from them.
SweepBegin(c) ==
  LET stale == {b \in lapsed : booking[b].status = "PENDING"}
      ks == {booking[b].schedule_id : b \in stale} IN
  /\ Sweeps # "never"
  /\ At(c, "idle")
  /\ stale # {}
  /\ Sweeps = "apart" => MayStart(c, stale, ks)
  /\ tx' = [tx EXCEPT ![c] = [Idle EXCEPT !.pc = "sweep_next", !.bookings = stale,
              !.schedules = ks, !.stale = stale]]
  /\ UNCHANGED <<store, lapsed, callbacks>>

\* The next booking of the loop, in whatever order the SELECT returned them.
SweepNext(c) ==
  \E b \in tx[c].stale :
    /\ At(c, "sweep_next")
    /\ tx' = [tx EXCEPT ![c].pc = "sweep_seats", ![c].b = b,
                ![c].seats = booking[b].seats, ![c].stale = @ \ {b}]
    /\ UNCHANGED <<store, lapsed, callbacks>>

SweepSeat(c) == At(c, "sweep_seats") /\ UpdateSeatRow(c)

\* The schedule is loaded once per session: two stale bookings of one schedule add up.
SweepReadSchedule(c) ==
  /\ At(c, "sweep_seats")
  /\ Todo(c) = {}
  /\ tx' = [tx EXCEPT ![c].pc = "sweep_next",
              ![c].counter = AddToCounter(c, booking[tx[c].b].schedule_id, NSeats(c))]
  /\ UNCHANGED <<store, lapsed, callbacks>>

SweepCommit(c) ==
  /\ At(c, "sweep_next")
  /\ tx[c].stale = {}
  /\ seat' = Released(c)
  /\ booking' = [b \in Bookings |-> IF b \in tx[c].bookings
                   THEN [booking[b] EXCEPT !.status = "EXPIRED"] ELSE booking[b]]
  /\ WriteCounters(tx[c].counter)
  /\ Finish(c)
  /\ UNCHANGED <<payment, lapsed, callbacks>>

Sweep(c) == SweepNext(c) \/ SweepSeat(c) \/ SweepReadSchedule(c) \/ SweepCommit(c)
=============================================================================
