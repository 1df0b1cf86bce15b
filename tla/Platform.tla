------------------------------ MODULE Platform ------------------------------
(***************************************************************************)
(* The booking and payment services composed over the tables they share:   *)
(* every interleaving, at their awaits, of the requests in flight, with    *)
(* time passing, requests dying and deadlock victims.                      *)
(***************************************************************************)
EXTENDS BookingService, PaymentService

Begin(c) == CreateBegin(c) \/ CancelBegin(c) \/ SweepBegin(c)
            \/ PayBegin(c) \/ CallbackBegin(c)

\* A request in flight goes on.
Serve(c) == Create(c) \/ Cancel(c) \/ Sweep(c) \/ Pay(c)

Next ==
  \/ \E c \in Sessions : Begin(c) \/ Serve(c) \/ Abort(c) \/ DeadlockVictim(c)
  \/ \E b \in Bookings : Lapse(b)

Spec == Init /\ [][Next]_vars

\* PostgreSQL grants row locks in the order they are asked for, so a request that can go
\* on again and again does go on; its deadlock detector always runs; whatever calls
\* expire_stale_bookings, if anything does, keeps calling it.
Fairness ==
  /\ \A c \in Sessions : SF_vars(Serve(c))
  /\ WF_vars(\E c \in Sessions : DeadlockVictim(c))
  /\ SF_vars(\E c \in Sessions : SweepBegin(c))

FairSpec == Spec /\ Fairness

-----------------------------------------------------------------------------
\* Every variable keeps to its type.
TypeOK ==
  /\ seat \in [Seats -> SeatRow]
  /\ booking \in [Bookings -> BookingRow]
  /\ payment \in [Bookings -> PaymentStatus \cup {"ABSENT"}]
  /\ available \in [Schedules -> Int]
  /\ lapsed \subseteq Bookings
  /\ callbacks \in [Bookings -> Nat]
  /\ tx \in [Sessions -> Transaction]

Live(b) == booking[b].status \in {"PENDING", "CONFIRMED"}

\* No inventory is lost: a LOCKED seat is locked by a booking that is still PENDING and has
\* it, a BOOKED seat belongs to a CONFIRMED booking.  Otherwise nothing in the code would
\* ever make the seat available again: cancel_booking refuses any other booking.
NoOrphanSeat ==
  \A s \in Seats :
    /\ seat[s].status = "LOCKED" =>
         \E b \in Bookings : /\ seat[s].lockedBy = b /\ booking[b].status = "PENDING"
                             /\ s \in booking[b].seats
    /\ seat[s].status = "BOOKED" =>
         \E b \in Bookings : booking[b].status = "CONFIRMED" /\ s \in booking[b].seats

\* Two users are never able to book the same seat: no two live bookings share one.
NoDoubleBooking ==
  \A a, b \in Bookings :
    a # b /\ Live(a) /\ Live(b) => booking[a].seats \cap booking[b].seats = {}

\* All or nothing: a live booking holds every one of its seats, LOCKED while it is PENDING
\* and BOOKED once it is CONFIRMED, whatever was rolled back on the way.
HoldsItsSeats ==
  \A b \in Bookings : Live(b) => \A s \in booking[b].seats :
    /\ seat[s].lockedBy = b
    /\ booking[b].status = "PENDING" => seat[s].status = "LOCKED"
    /\ booking[b].status = "CONFIRMED" => seat[s].status = "BOOKED"

\* The denormalized counter search filters on is the number of AVAILABLE seats.
CounterExact ==
  \A k \in Schedules :
    available[k] = Cardinality({s \in Seats : ScheduleOf[s] = k /\ seat[s].status = "AVAILABLE"})

\* The booking's copy of the payment status is the payment's own (PENDING before there is
\* a payment), although each column is written only when its loaded value changes.
PaymentAgrees ==
  \A b \in Bookings : booking[b].status # "ABSENT" =>
    booking[b].payment_status = IF payment[b] = "ABSENT" THEN "PENDING" ELSE payment[b]

\* A booking is CONFIRMED only with a completed payment behind it.
ConfirmedIsPaid ==
  \A b \in Bookings : booking[b].status = "CONFIRMED" => payment[b] = "COMPLETED"

\* The sweep takes PENDING bookings only, so a booking that was paid stays CONFIRMED until its
\* user cancels it.
PaidKeepsBooking ==
  \A b \in Bookings : payment[b] = "COMPLETED" => booking[b].status \in {"CONFIRMED", "CANCELLED"}

\* confirm_payment is what turns a seat its booking has LOCKED into a BOOKED one: no seat
\* becomes BOOKED from another state or from another booking's lock.
BookedOnlyFromLocked ==
  [][\A s \in Seats : seat[s].status # "BOOKED" /\ seat'[s].status = "BOOKED" =>
       /\ seat[s].status = "LOCKED"
       /\ \E b \in Bookings : /\ seat[s].lockedBy = b
                              /\ booking[b].status = "PENDING"
                              /\ booking'[b].status = "CONFIRMED"]_vars

-----------------------------------------------------------------------------
(* What makes the invariants inductive: what a request has in hand.        *)

OnBooking == {"cancel_seats", "cancel_commit", "pay_check", "pay_commit", "verify",
              "book_seats", "fail"}
Paying == {"pay_check", "pay_commit", "verify", "book_seats", "fail"}

\* A request works on rows that are there and stay, and a new booking's id is its own.
InHand(c) ==
  LET t == tx[c] IN
  /\ t.pc = "idle" => t = Idle
  /\ t.pc = "lock_seats" =>
       /\ t.b \in Bookings /\ t.bookings = {t.b} /\ booking[t.b] = NoBooking
       /\ \A d \in Sessions \ {c} : t.b \notin tx[d].bookings
       /\ t.seats # {} /\ t.held \subseteq t.seats
  /\ t.pc \in OnBooking =>
       /\ t.b \in Bookings /\ t.bookings = {t.b} /\ booking[t.b] # NoBooking
       /\ t.seats = booking[t.b].seats
       /\ t.held \subseteq t.seats /\ t.unavailable = {}
  /\ t.pc = "cancel_commit" => t.held = t.seats
  /\ (t.pc \in Paying /\ ~Redirects) => t.row.status = "PENDING"
  /\ t.pc \in Sweeping =>
       /\ t.stale \subseteq t.bookings /\ t.unavailable = {}
       /\ \A b \in t.bookings : booking[b] # NoBooking
       /\ \A b \in t.bookings \ t.stale :
            (t.pc = "sweep_seats" /\ b = t.b) \/ booking[b].seats \subseteq t.held
       /\ \A s \in t.held : \E b \in t.bookings : s \in booking[b].seats
  /\ t.pc = "sweep_seats" => /\ t.b \in t.bookings \ t.stale
                             /\ t.seats = booking[t.b].seats

\* Every request in flight has in hand what its next statements take for granted: rows that
\* exist and keep their seats, a booking id of its own, and after its UPDATEs every row of them.
RequestsInHand == \A c \in Sessions : InHand(c)

\* A payment row has its booking: the foreign key, which no path of the code breaks.
PaymentsBelong == \A b \in Bookings : payment[b] # "ABSENT" => booking[b] # NoBooking

\* A row is written by one transaction at a time, and a seat that lock_seats took is still
\* AVAILABLE in the committed table until the booking that took it commits.
RowLocks ==
  \A c \in Sessions :
    /\ \A d \in Sessions \ {c} : tx[c].held \cap tx[d].held = {}
    /\ At(c, "lock_seats") => \A s \in tx[c].held : seat[s].status = "AVAILABLE"

\* What a request checked when it began still holds: the booking it cancels is live, the
\* booking it pays or expires is PENDING.
Checked(c) ==
  /\ tx[c].pc \in {"cancel_seats", "cancel_commit"} => Live(tx[c].b)
  /\ tx[c].pc \in Paying => booking[tx[c].b].status = "PENDING"
  /\ tx[c].pc \in Sweeping => \A b \in tx[c].bookings : booking[b].status = "PENDING"

\* What the customers of live bookings count on.
Intact == HoldsItsSeats /\ NoDoubleBooking /\ PaidKeepsBooking

\* Stale checks are the only way to sell a seat twice, to take one from a booking or to undo
\* what was paid: a step of requests whose checks still hold keeps all three promises, however
\* requests, sweeps and waits for row locks overlap.
OnlyStaleChecksHarm ==
  [][Intact /\ (\A c \in Sessions : tx'[c] # tx[c] => Checked(c)) => Intact']_vars

Loaded(c) ==
  LET t == tx[c] IN
  /\ t.pc \in {"verify", "book_seats", "fail"} =>
       t.row.payment = payment[t.b] /\ payment[t.b] # "ABSENT"
  /\ t.pc \in Paying /\ (t.pc = "verify" => t.row.status # "ABSENT") =>
       /\ t.row.status = booking[t.b].status
       /\ t.row.payment_status = booking[t.b].payment_status

\* What a payment's session has loaded is still what the rows hold, however late the gateway's
\* answer or callback, so no column whose value is to change is left out of its UPDATE.
LoadedIsCurrent == \A c \in Sessions : Loaded(c)

\* A payment is settled once: neither a second initiate_payment nor a confirmation that comes
\* late turns a COMPLETED or FAILED one into anything else.
PaymentSettledOnce ==
  [][\A b \in Bookings : payment[b] \in {"COMPLETED", "FAILED"} => payment'[b] = payment[b]]_vars

-----------------------------------------------------------------------------
(* Progress, as far as it is a matter of safety.                           *)

\* How many steps the request with transaction t can still take, at most.
StepsLeft(t) ==
  LET todo == Cardinality(t.seats \ (t.held \cup t.unavailable))
      sweeps == Cardinality(t.stale) * (Cardinality(Seats) + 2) IN
  CASE t.pc = "idle" -> 0
    [] t.pc \in {"cancel_commit", "fail"} -> 1
    [] t.pc \in {"lock_seats", "book_seats"} -> todo + 1
    [] t.pc = "cancel_seats" -> todo + 2
    [] t.pc = "sweep_next" -> sweeps + 1
    [] t.pc = "sweep_seats" -> sweeps + todo + 2
    [] t.pc = "pay_check" -> Cardinality(Seats) + 4
    [] t.pc = "pay_commit" -> Cardinality(Seats) + 3
    [] t.pc = "verify" -> Cardinality(Seats) + 2

\* No request goes round in circles: each of its steps brings it nearer its end, whatever the
\* others take from it or give back meanwhile.
EveryStepCounts ==
  [][\A c \in Sessions :
       ~At(c, "idle") /\ tx'[c] # tx[c] => StepsLeft(tx'[c]) < StepsLeft(tx[c])]_vars

\* No request waits in vain: those a blocked request waits for, directly or through others,
\* include one that can go on or one that the deadlock detector makes fail.
NeverStuck ==
  \A D \in SUBSET Sessions :
    /\ \E c \in D : Blocked(c)
    /\ \A c \in D, d \in Sessions : Blocked(c) /\ WaitsFor(c, d) => d \in D
    => \E c \in D : Deadlocked(c) \/ (~At(c, "idle") /\ ~Blocked(c))

-----------------------------------------------------------------------------
\* Every request ends: no lock wait lasts for ever, whatever the order in which requests
\* take their seats.
RequestsEnd == \A c \in Sessions : tx[c].pc # "idle" ~> tx[c].pc = "idle"

\* Seat locks are time-boxed: a PENDING booking whose window has lapsed is resolved.
LapsedReleased ==
  \A b \in Bookings : b \in lapsed /\ booking[b].status = "PENDING" ~> booking[b].status # "PENDING"

-----------------------------------------------------------------------------
\* The promise, read off the rows: who has a seat is in its row, where a booking is in its
\* life is in its status.
OwnerOf == [s \in Seats |-> IF seat[s].status = "AVAILABLE" THEN None ELSE seat[s].lockedBy]
PhaseOf == [b \in Bookings |->
  CASE booking[b].status = "ABSENT" -> "none" [] booking[b].status = "PENDING" -> "held"
    [] booking[b].status = "CONFIRMED" -> "sold" [] OTHER -> "over"]

Promise == INSTANCE SeatPromise WITH owner <- OwnerOf, phase <- PhaseOf

\* The services implement SeatPromise: bookings take all their seats at once from those
\* nobody owns, are sold at most once, and give them back for good.
KeepsPromise == Promise!Spec
=============================================================================
