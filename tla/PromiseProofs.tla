---------------------------- MODULE PromiseProofs ----------------------------
(***************************************************************************)
(* Platform implements SeatPromise, if neither clients nor sweeps work on  *)
(* one booking at once and the gateway needs no redirect.                  *)
(*                                                                         *)
(* A commit maps to one step of the promise and everything else to a       *)
(* stutter.  To give a booking's seats back the promise looks at who owns  *)
(* them and the code at the booking's passengers: NoOrphanSeat and         *)
(* HoldsItsSeats together make these the same seats.                       *)
(***************************************************************************)
EXTENDS PlatformProofs

Sound == Typed /\ RowLocks /\ ChecksStillHold /\ HoldsItsSeats /\ NoOrphanSeat

-----------------------------------------------------------------------------
(* The mapping, unfolded once                                              *)

LEMMA PhaseValues ==
  ASSUME NEW b \in Bookings
  PROVE  /\ PhaseOf[b] = "none" <=> booking[b].status = "ABSENT"
         /\ PhaseOf[b] = "held" <=> booking[b].status = "PENDING"
         /\ PhaseOf[b] = "sold" <=> booking[b].status = "CONFIRMED"
         /\ booking[b].status \in {"CANCELLED", "EXPIRED"} => PhaseOf[b] = "over"
  BY DEF PhaseOf

LEMMA NextPhaseValues ==
  ASSUME NEW b \in Bookings
  PROVE  /\ booking'[b].status = "ABSENT" => PhaseOf'[b] = "none"
         /\ booking'[b].status = "PENDING" => PhaseOf'[b] = "held"
         /\ booking'[b].status = "CONFIRMED" => PhaseOf'[b] = "sold"
         /\ booking'[b].status \in {"CANCELLED", "EXPIRED"} => PhaseOf'[b] = "over"
         /\ booking'[b].status = booking[b].status => PhaseOf'[b] = PhaseOf[b]
  BY DEF PhaseOf

LEMMA OwnerValues ==
  ASSUME NEW s \in Seats
  PROVE  /\ seat[s].status = "AVAILABLE" => OwnerOf[s] = None
         /\ seat[s].status # "AVAILABLE" => OwnerOf[s] = seat[s].lockedBy
         /\ seat'[s].status = "AVAILABLE" => OwnerOf'[s] = None
         /\ seat'[s].status # "AVAILABLE" => OwnerOf'[s] = seat'[s].lockedBy
         /\ seat'[s] = seat[s] => OwnerOf'[s] = OwnerOf[s]
  BY DEF OwnerOf

\* A seat's owner is the live booking that has it, and a live booking owns its seats.
LEMMA OwnedSeats ==
  ASSUME Sound, NEW b \in Bookings
  PROVE  /\ \A s \in Seats : OwnerOf[s] = b => Live(b) /\ s \in booking[b].seats
         /\ Live(b) => \A s \in booking[b].seats : s \in Seats /\ OwnerOf[s] = b
<1>0. /\ seat \in [Seats -> SeatRow] /\ None \notin Bookings
      /\ \A a \in Bookings : booking[a].seats \in SUBSET Seats
  BY NoneAssumption, RowPresent DEF Sound, Typed, TypeOK
<1>1. ASSUME NEW s \in Seats, OwnerOf[s] = b PROVE Live(b) /\ s \in booking[b].seats
  <2>1. seat[s].status \in {"LOCKED", "BOOKED"} /\ seat[s].lockedBy = b
    BY <1>0, <1>1, OwnerValues DEF SeatRow, SeatStatus
  <2>2. CASE seat[s].status = "LOCKED"
    BY <2>1, <2>2 DEF Sound, NoOrphanSeat, Live
  <2>3. CASE seat[s].status = "BOOKED"
    <3>1. PICK a \in Bookings : booking[a].status = "CONFIRMED" /\ s \in booking[a].seats
      BY <2>3 DEF Sound, NoOrphanSeat
    <3>2. seat[s].lockedBy = a
      BY <3>1 DEF Sound, HoldsItsSeats, Live
    <3> QED BY <2>1, <3>1, <3>2 DEF Live
  <2> QED BY <2>1, <2>2, <2>3
<1>2. ASSUME Live(b), NEW s \in booking[b].seats PROVE s \in Seats /\ OwnerOf[s] = b
  <2>1. s \in Seats /\ seat[s].lockedBy = b /\ seat[s].status # "AVAILABLE"
    BY <1>0, <1>2 DEF Sound, HoldsItsSeats, Live
  <2> QED BY <2>1, OwnerValues
<1> QED BY <1>1, <1>2

-----------------------------------------------------------------------------
(* Each commit is a step of the promise                                    *)

LEMMA CreateHolds ==
  ASSUME Sound, NEW c \in Sessions, CreateCommit(c)
  PROVE  Promise!Hold(tx[c].b, tx[c].seats)
<1> USE DEF At
<1> DEFINE b == tx[c].b
           S == tx[c].seats
<1>0. /\ booking \in [Bookings -> BookingRow] /\ seat \in [Seats -> SeatRow]
      /\ InHand(c) /\ tx[c] \in Transaction
  BY DEF Sound, Typed, TypeOK, RequestsInHand
<1>1. /\ tx[c].pc = "lock_seats" /\ Todo(c) = {} /\ tx[c].unavailable = {}
      /\ seat' = [s \in Seats |-> IF s \in tx[c].held
                   THEN [status |-> "LOCKED", lockedBy |-> b] ELSE seat[s]]
      /\ \E k \in tx[c].schedules : booking' = [booking EXCEPT ![b] =
           [status |-> "PENDING", payment_status |-> "PENDING", schedule_id |-> k,
            seats |-> S]]
  BY DEF CreateCommit
<1>2. /\ b \in Bookings /\ booking[b] = NoBooking /\ S # {} /\ S \in SUBSET Seats
      /\ \A s \in S : s \in tx[c].held
      /\ \A s \in tx[c].held : s \in S /\ seat[s].status = "AVAILABLE"
  BY <1>0, <1>1 DEF InHand, Todo, Transaction, Sound, RowLocks
<1>3. /\ booking[b].status = "ABSENT" /\ booking'[b].status = "PENDING"
      /\ \A a \in Bookings \ {b} : booking'[a] = booking[a]
  BY <1>0, <1>1, <1>2 DEF NoBooking
<1>4. \A s \in S : OwnerOf[s] = None /\ OwnerOf'[s] = b
  BY <1>1, <1>2, OwnerValues
<1>5. \A s \in Seats \ S : OwnerOf'[s] = OwnerOf[s]
  BY <1>1, <1>2, OwnerValues
<1>6. PhaseOf[b] = "none" /\ PhaseOf'[b] = "held"
  BY <1>2, <1>3, PhaseValues, NextPhaseValues
<1>7. \A a \in Bookings \ {b} : PhaseOf'[a] = PhaseOf[a]
  BY <1>3, NextPhaseValues
<1>8. OwnerOf' = [s \in Seats |-> IF s \in S THEN b ELSE OwnerOf[s]]
  BY <1>4, <1>5 DEF OwnerOf
<1>9. PhaseOf' = [PhaseOf EXCEPT ![b] = "held"]
  BY <1>6, <1>7 DEF PhaseOf
<1> QED BY <1>2, <1>4, <1>6, <1>8, <1>9 DEF Promise!Hold

\* Bookings B end and the seats in held, all of theirs, are free again.
LEMMA ReleaseStep ==
  ASSUME Sound, NEW B \in SUBSET Bookings, B # {}, NEW held \in SUBSET Seats,
         \A b \in B : Live(b) /\ booking[b].seats \subseteq held
                      /\ booking'[b].status \in {"CANCELLED", "EXPIRED"},
         \A s \in held : \E b \in B : s \in booking[b].seats,
         \A a \in Bookings \ B : booking'[a] = booking[a],
         seat' = [s \in Seats |-> IF s \in held THEN FreeSeat ELSE seat[s]]
  PROVE  Promise!Release(B)
<1>1. \A s \in held : OwnerOf[s] \in B /\ OwnerOf'[s] = None
  BY OwnedSeats, OwnerValues DEF FreeSeat
<1>2. \A s \in Seats \ held : OwnerOf[s] \notin B /\ OwnerOf'[s] = OwnerOf[s]
  BY OwnedSeats, OwnerValues
<1>3. \A b \in B : PhaseOf[b] \in {"held", "sold"} /\ PhaseOf'[b] = "over"
  BY PhaseValues, NextPhaseValues DEF Live
<1>4. \A a \in Bookings \ B : PhaseOf'[a] = PhaseOf[a]
  BY NextPhaseValues
<1>5. OwnerOf' = [s \in Seats |-> IF OwnerOf[s] \in B THEN None ELSE OwnerOf[s]]
  BY <1>1, <1>2 DEF OwnerOf
<1>6. PhaseOf' = [b \in Bookings |-> IF b \in B THEN "over" ELSE PhaseOf[b]]
  BY <1>3, <1>4 DEF PhaseOf
<1> QED BY <1>3, <1>5, <1>6 DEF Promise!Release

LEMMA CancelReleases ==
  ASSUME Sound, NEW c \in Sessions, CancelCommit(c)
  PROVE  Promise!Release({tx[c].b})
<1> USE DEF At
<1> DEFINE b == tx[c].b
<1>0. /\ booking \in [Bookings -> BookingRow]
      /\ InHand(c) /\ Checked(c) /\ tx[c] \in Transaction
  BY DEF Sound, Typed, TypeOK, RequestsInHand, ChecksStillHold
<1>1. /\ tx[c].pc = "cancel_commit" /\ booking' = [booking EXCEPT ![b].status = "CANCELLED"]
      /\ seat' = [s \in Seats |-> IF s \in tx[c].held THEN FreeSeat ELSE seat[s]]
  BY DEF CancelCommit, Released
<1>2. /\ b \in Bookings /\ tx[c].held = booking[b].seats /\ Live(b)
      /\ tx[c].held \in SUBSET Seats
  BY <1>0, <1>1 DEF InHand, OnBooking, Checked, Transaction
<1>3. /\ booking'[b].status = "CANCELLED"
      /\ \A a \in Bookings \ {b} : booking'[a] = booking[a]
  BY <1>0, <1>1, <1>2 DEF BookingRow, NoBooking
<1>4. /\ {b} \in SUBSET Bookings /\ {b} # {}
      /\ \A a \in {b} : Live(a) /\ booking[a].seats \subseteq tx[c].held
                        /\ booking'[a].status \in {"CANCELLED", "EXPIRED"}
      /\ \A s \in tx[c].held : \E a \in {b} : s \in booking[a].seats
  BY <1>2, <1>3
<1> HIDE DEF b
<1> QED BY <1>1, <1>2, <1>3, <1>4, ReleaseStep DEF b

LEMMA SweepReleases ==
  ASSUME Sound, NEW c \in Sessions, SweepCommit(c), tx[c].bookings # {}
  PROVE  tx[c].bookings \in SUBSET Bookings /\ Promise!Release(tx[c].bookings)
<1> USE DEF At
<1> DEFINE B == tx[c].bookings
<1>0. /\ booking \in [Bookings -> BookingRow]
      /\ InHand(c) /\ Checked(c) /\ tx[c] \in Transaction
  BY DEF Sound, Typed, TypeOK, RequestsInHand, ChecksStillHold
<1>1. /\ tx[c].pc = "sweep_next" /\ tx[c].stale = {}
      /\ booking' = [b \in Bookings |-> IF b \in B
                       THEN [booking[b] EXCEPT !.status = "EXPIRED"] ELSE booking[b]]
      /\ seat' = [s \in Seats |-> IF s \in tx[c].held THEN FreeSeat ELSE seat[s]]
  BY DEF SweepCommit, Released
<1>2. /\ B \in SUBSET Bookings /\ tx[c].held \in SUBSET Seats
      /\ \A b \in B : Live(b) /\ booking[b].seats \subseteq tx[c].held
      /\ \A s \in tx[c].held : \E b \in B : s \in booking[b].seats
  BY <1>0, <1>1 DEF InHand, Sweeping, Checked, Transaction, Live
<1>3. /\ \A b \in B : booking'[b].status = "EXPIRED"
      /\ \A b \in Bookings \ B : booking'[b] = booking[b]
  BY <1>0, <1>1, <1>2 DEF BookingRow, NoBooking
<1> HIDE DEF B
<1> QED BY <1>1, <1>2, <1>3, ReleaseStep DEF B

LEMMA ConfirmSells ==
  ASSUME ~Redirects, Sound, NEW c \in Sessions, ConfirmCommit(c)
  PROVE  tx[c].b \in Bookings /\ Promise!Sell(tx[c].b)
<1> USE DEF At
<1> DEFINE b == tx[c].b
<1>0. /\ booking \in [Bookings -> BookingRow] /\ seat \in [Seats -> SeatRow]
      /\ InHand(c) /\ Checked(c) /\ tx[c] \in Transaction
  BY DEF Sound, Typed, TypeOK, RequestsInHand, ChecksStillHold
<1>1. /\ tx[c].pc = "book_seats"
      /\ booking' = [booking EXCEPT
           ![b].status = Column(tx[c].row.status, "CONFIRMED", @),
           ![b].payment_status = Column(tx[c].row.payment_status, "COMPLETED", @)]
      /\ seat' = [s \in Seats |-> IF s \in tx[c].held
                   THEN [seat[s] EXCEPT !.status = "BOOKED"] ELSE seat[s]]
  BY DEF ConfirmCommit
<1>2. /\ b \in Bookings /\ \A s \in tx[c].held : s \in booking[b].seats
      /\ tx[c].row.status = "PENDING" /\ booking[b].status = "PENDING"
  BY <1>0, <1>1 DEF InHand, OnBooking, Paying, Checked
<1>3. /\ booking'[b].status = "CONFIRMED"
      /\ \A a \in Bookings \ {b} : booking'[a] = booking[a]
  BY <1>0, <1>1, <1>2 DEF Column, BookingRow, NoBooking
<1>4. booking[b].seats # {} /\ \A s \in booking[b].seats : s \in Seats /\ OwnerOf[s] = b
  <2>1. booking[b].seats \in (SUBSET Seats) \ {{}}
    BY <1>2, RowPresent DEF Sound, Typed
  <2> QED BY <1>2, <2>1, OwnedSeats DEF Live
<1>5. ASSUME NEW s \in Seats PROVE OwnerOf'[s] = OwnerOf[s]
  <2>1. CASE s \in tx[c].held
    <3>1. seat'[s] = [seat[s] EXCEPT !.status = "BOOKED"] /\ seat[s] \in SeatRow
      BY <1>0, <1>1, <2>1
    <3>2. seat'[s].status = "BOOKED" /\ seat'[s].lockedBy = seat[s].lockedBy
      BY <3>1 DEF SeatRow
    <3>3. seat[s].status # "AVAILABLE"
      BY <1>2, <2>1 DEF Sound, HoldsItsSeats, Live
    <3> QED BY <3>2, <3>3, OwnerValues
  <2>2. CASE s \notin tx[c].held
    BY <1>1, <2>2, OwnerValues
  <2> QED BY <2>1, <2>2
<1>6. OwnerOf' = OwnerOf
  BY <1>5 DEF OwnerOf
<1>7. PhaseOf[b] = "held" /\ PhaseOf'[b] = "sold"
  BY <1>2, <1>3, PhaseValues, NextPhaseValues
<1>8. PhaseOf' = [PhaseOf EXCEPT ![b] = "sold"]
  BY <1>3, <1>7, NextPhaseValues DEF PhaseOf
<1>9. Promise!Owned(b) # {}
  BY <1>4 DEF Promise!Owned
<1> QED BY <1>2, <1>6, <1>7, <1>8, <1>9 DEF Promise!Sell

-----------------------------------------------------------------------------
(* Every step maps to a step or a stutter                                  *)

LEMMA StepKeepsPromise ==
  ASSUME ~Redirects, Sound, [Next]_vars
  PROVE  [Promise!Next]_<<OwnerOf, PhaseOf>>
<1>1. ASSUME NEW c \in Sessions, CreateCommit(c) PROVE Promise!Next
  <2>1. tx[c].b \in Bookings /\ tx[c].seats \in SUBSET Seats
    BY <1>1 DEF Sound, Typed, TypeOK, Transaction, RequestsInHand, InHand, CreateCommit, At
  <2> QED BY <1>1, <2>1, CreateHolds DEF Promise!Next
<1>2. ASSUME NEW c \in Sessions, CancelCommit(c) PROVE Promise!Next
  <2>1. {tx[c].b} \in SUBSET Bookings
    BY <1>2 DEF Sound, Typed, RequestsInHand, InHand, CancelCommit, At, OnBooking
  <2> QED BY <1>2, <2>1, CancelReleases DEF Promise!Next
<1>3. ASSUME NEW c \in Sessions, SweepCommit(c) PROVE [Promise!Next]_<<OwnerOf, PhaseOf>>
  <2>1. CASE tx[c].bookings # {}
    BY <1>3, <2>1, SweepReleases DEF Promise!Next
  <2>2. CASE tx[c].bookings = {}
    <3>1. tx[c].held = {} /\ seat \in [Seats -> SeatRow] /\ booking \in [Bookings -> BookingRow]
      BY <1>3, <2>2 DEF Sound, Typed, TypeOK, RequestsInHand, InHand, SweepCommit, At, Sweeping
    <3>2. seat' = seat /\ booking' = booking
      BY <1>3, <2>2, <3>1 DEF SweepCommit, Released
    <3> QED BY <3>2 DEF OwnerOf, PhaseOf
  <2> QED BY <2>1, <2>2
<1>4. ASSUME NEW c \in Sessions, ConfirmCommit(c) PROVE Promise!Next
  BY <1>4, ConfirmSells DEF Promise!Next
<1>5. CASE \A c \in Sessions : ~CreateCommit(c) /\ ~CancelCommit(c) /\ ~SweepCommit(c) /\ ~ConfirmCommit(c)
  <2>1. Quiet
    BY <1>5, QuietSteps DEF Sound
  <2>2. OwnerOf' = OwnerOf
    BY <2>1 DEF Quiet, OwnerOf
  <2>3. \A b \in Bookings : PhaseOf'[b] = PhaseOf[b]
    BY <2>1, NextPhaseValues DEF Quiet
  <2>4. PhaseOf' = PhaseOf
    BY <2>3 DEF PhaseOf
  <2> QED BY <2>2, <2>4
<1> QED BY <1>1, <1>2, <1>3, <1>4, <1>5

\* With one request at a time on a booking, sweeps counted among them, the two services implement the
\* promise: bookings take all their seats at once from those nobody owns, are sold at most
\* once, and give them back for good.
THEOREM ServicesKeepPromise ==
  ASSUME Overlap # "any", Sweeps # "any", ~Redirects
  PROVE  Spec => KeepsPromise
<1>1. Init => Promise!Init
  BY DEF Init, Promise!Init, OwnerOf, PhaseOf, FreeSeat, NoBooking
<1>2. Spec => [](Typed /\ RowLocks /\ ChecksStillHold /\ HoldsItsSeats)
  BY SoundInvariant
<1>3. Spec => []NoOrphanSeat
  BY NoOrphanSeatSafe
<1>4. Sound /\ [Next]_vars => [Promise!Next]_<<OwnerOf, PhaseOf>>
  BY StepKeepsPromise
<1> QED BY <1>1, <1>2, <1>3, <1>4, PTL DEF Spec, KeepsPromise, Promise!Spec, Sound

-----------------------------------------------------------------------------
(* Which step books a seat                                                 *)

LEMMA BookedByConfirm ==
  ASSUME ~Redirects, Sound, [Next]_vars, NEW s \in Seats,
         seat[s].status # "BOOKED", seat'[s].status = "BOOKED"
  PROVE  /\ seat[s].status = "LOCKED"
         /\ \E b \in Bookings : /\ seat[s].lockedBy = b
                                /\ booking[b].status = "PENDING"
                                /\ booking'[b].status = "CONFIRMED"
<1> USE DEF At
<1>0. /\ booking \in [Bookings -> BookingRow] /\ seat \in [Seats -> SeatRow]
      /\ \A c \in Sessions : InHand(c) /\ Checked(c)
  BY DEF Sound, Typed, TypeOK, RequestsInHand, ChecksStillHold
<1>1. PICK c \in Sessions : ConfirmCommit(c)
  <2>1. ASSUME NEW c \in Sessions, CreateCommit(c) PROVE FALSE
    BY <2>1 DEF CreateCommit
  <2>2. ASSUME NEW c \in Sessions, CancelCommit(c) \/ SweepCommit(c) PROVE FALSE
    BY <2>2 DEF CancelCommit, SweepCommit, Released, FreeSeat
  <2>3. ~Quiet
    BY DEF Quiet
  <2> QED BY <2>1, <2>2, <2>3, QuietSteps DEF Sound
<1> DEFINE b == tx[c].b
<1>2. /\ tx[c].pc = "book_seats"
      /\ booking' = [booking EXCEPT
           ![b].status = Column(tx[c].row.status, "CONFIRMED", @),
           ![b].payment_status = Column(tx[c].row.payment_status, "COMPLETED", @)]
      /\ s \notin tx[c].held => seat'[s] = seat[s]
  BY <1>1 DEF ConfirmCommit
<1>3. /\ b \in Bookings /\ s \in booking[b].seats
      /\ tx[c].row.status = "PENDING" /\ booking[b].status = "PENDING"
  BY <1>0, <1>2 DEF InHand, OnBooking, Paying, Checked
<1>4. booking'[b].status = "CONFIRMED"
  BY <1>0, <1>2, <1>3 DEF Column, BookingRow, NoBooking
<1>5. seat[s].status = "LOCKED" /\ seat[s].lockedBy = b
  BY <1>3 DEF Sound, HoldsItsSeats, Live
<1> QED BY <1>3, <1>4, <1>5

\* A seat becomes BOOKED only in the step that confirms the PENDING booking it is LOCKED by.
THEOREM OnlyConfirmBooks ==
  ASSUME Overlap # "any", Sweeps # "any", ~Redirects
  PROVE  Spec => BookedOnlyFromLocked
<1> DEFINE A == \A s \in Seats : seat[s].status # "BOOKED" /\ seat'[s].status = "BOOKED" =>
                  /\ seat[s].status = "LOCKED"
                  /\ \E b \in Bookings : /\ seat[s].lockedBy = b
                                         /\ booking[b].status = "PENDING"
                                         /\ booking'[b].status = "CONFIRMED"
<1>1. Spec => [](Typed /\ RowLocks /\ ChecksStillHold /\ HoldsItsSeats)
  BY SoundInvariant
<1>2. Spec => []NoOrphanSeat
  BY NoOrphanSeatSafe
<1>3. Sound /\ [Next]_vars => [A]_vars
  BY BookedByConfirm
<1>4. BookedOnlyFromLocked <=> [][A]_vars
  BY DEF BookedOnlyFromLocked
<1> HIDE DEF A
<1> QED BY <1>1, <1>2, <1>3, <1>4, PTL DEF Spec, Sound
=============================================================================
