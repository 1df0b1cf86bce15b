--------------------------- MODULE ProgressProofs ---------------------------
(***************************************************************************)
(* Why every request of Platform ends, as far as it is a matter of safety. *)
(* Each of its steps brings it nearer its end (EveryStepCounts), and       *)
(* whoever waits for a row waits, directly or through others, for a        *)
(* request that can go on or for one on a cycle, which the database breaks *)
(* (NeverStuck).  That requests which can go on do go on is the fairness   *)
(* of the RequestsEnd run.                                                 *)
(***************************************************************************)
EXTENDS PlatformProofs, WellFoundedInduction

-----------------------------------------------------------------------------
(* Waiting.  In a finite set in which each member waits for another one, a *)
(* smallest closed subset is a cycle.                                      *)

\* D is not empty, and each of its members waits for one of them.
Closed(D) == D # {} /\ \A c \in D : \E d \in D : WaitsFor(c, d)

LEMMA SmallestClosed ==
  ASSUME NEW B \in SUBSET Sessions, Closed(B)
  PROVE  \E D \in SUBSET B : Closed(D) /\ \A E \in SUBSET D : Closed(E) => E = D
<1> DEFINE T == {D \in SUBSET B : Closed(D)}
<1>1. IsFiniteSet(B)
  BY PoolAssumption, FS_Subset
<1>2. FiniteSubsetsOf(B) = SUBSET B
  BY <1>1, FS_FiniteSubsetsOfFinite
<1>3. IsWellFoundedOn(StrictSubsetOrdering(B), SUBSET B)
  BY <1>2, FS_StrictSubsetOrderingWellFounded
<1>4. T \subseteq SUBSET B /\ B \in T
  OBVIOUS
<1>5. PICK D \in T : \A E \in T : ~(<<E, D>> \in StrictSubsetOrdering(B))
  <2> HIDE DEF T
  <2>1. T # {}
    BY <1>4
  <2> QED BY <1>3, <1>4, <2>1, WFMin
<1>6. ASSUME NEW E \in SUBSET D, Closed(E) PROVE E = D
  <2>1. E \in T /\ D \in SUBSET B /\ E \in SUBSET B
    BY <1>6
  <2>2. <<E, D>> \in (SUBSET B) \X (SUBSET B)
    BY <2>1
  <2>3. ~(<<E, D>> \in StrictSubsetOrdering(B))
    BY <1>5, <2>1
  <2> QED BY <1>6, <2>2, <2>3 DEF StrictSubsetOrdering
<1> QED BY <1>5, <1>6

\* Its members wait for each other in a ring, so the detector may choose any of them.
LEMMA SmallestIsCycle ==
  ASSUME NEW D \in SUBSET Sessions, Closed(D), \A E \in SUBSET D : Closed(E) => E = D
  PROVE  \A c \in D : Deadlocked(c)
<1>1. PICK next \in [D -> D] : \A c \in D : WaitsFor(c, next[c])
  <2> DEFINE next == [c \in D |-> CHOOSE d \in D : WaitsFor(c, d)]
  <2>1. \A c \in D : next[c] \in D /\ WaitsFor(c, next[c])
    BY DEF Closed
  <2>2. next \in [D -> D]
    BY <2>1
  <2> QED BY <2>1, <2>2
<1> DEFINE E == {next[c] : c \in D}
<1>2. E \in SUBSET D /\ Closed(E)
  BY <1>1 DEF Closed
<1>3. E = D
  BY <1>2
<1>4. next \in Surjection(D, D)
  BY <1>3 DEF Surjection
<1>5. IsFiniteSet(D)
  BY PoolAssumption, FS_Subset
<1>6. next \in Injection(D, D)
  BY <1>4, <1>5, FS_SurjSameCardinalityImpliesInj
<1>7. \A c, d \in D : next[c] = next[d] => c = d
  BY <1>6 DEF Injection, IsInjective
<1>8. \A c \in D : next[c] # c
  BY <1>1 DEF WaitsFor, Todo
<1> QED BY <1>1, <1>7, <1>8 DEF Deadlocked

\* Whoever waits for a row waits for a request in flight.
LEMMA HolderInFlight ==
  ASSUME Typed, NEW c \in Sessions, Blocked(c)
  PROVE  \E d \in Sessions : WaitsFor(c, d) /\ ~At(d, "idle")
<1>1. PICK s \in Todo(c) : ~RowFree(c, s) /\ (At(c, "lock_seats") => seat[s].status = "AVAILABLE")
  BY DEF Blocked
<1>2. PICK d \in Sessions \ {c} : s \in tx[d].held
  BY <1>1 DEF RowFree
<1>3. ~At(d, "idle")
  BY <1>2 DEF Typed, RequestsInHand, InHand, Idle, At
<1> QED BY <1>1, <1>2, <1>3 DEF WaitsFor, Blocked

LEMMA StuckNowhere == Typed => NeverStuck
<1> SUFFICES ASSUME Typed, NEW D \in SUBSET Sessions, NEW c0 \in D, Blocked(c0),
                    \A c \in D, d \in Sessions : Blocked(c) /\ WaitsFor(c, d) => d \in D,
                    \A c \in D : At(c, "idle") \/ Blocked(c)
             PROVE  \E c \in D : Deadlocked(c)
  BY DEF NeverStuck
<1> DEFINE B == {c \in D : Blocked(c)}
<1>1. B \in SUBSET Sessions /\ B \subseteq D
  OBVIOUS
<1>2. Closed(B)
  <2>1. ASSUME NEW c \in B PROVE \E d \in B : WaitsFor(c, d)
    BY HolderInFlight
  <2> QED BY <2>1 DEF Closed
<1>3. PICK E \in SUBSET B : Closed(E) /\ \A F \in SUBSET E : Closed(F) => F = E
  <2> HIDE DEF B
  <2> QED BY <1>1, <1>2, SmallestClosed
<1>4. E \in SUBSET Sessions /\ E # {}
  BY <1>1, <1>3 DEF Closed
<1>5. \A c \in E : Deadlocked(c)
  BY <1>3, <1>4, SmallestIsCycle
<1> QED BY <1>1, <1>3, <1>4, <1>5

\* However many requests wait for however many rows, in whatever order they asked for them: if
\* none of those that a request waits for can go on, one of them is on a cycle, so the deadlock
\* detector has a victim.  Rows whose lock outlived its request would break this.
THEOREM WaitsEnd == Spec => []NeverStuck
<1>1. Spec => []Typed
  BY TypedInit, TypedNext, PTL DEF Spec
<1> QED BY <1>1, StuckNowhere, PTL

-----------------------------------------------------------------------------
(* Counting the steps that are left                                        *)

\* A sweep has finitely many bookings to do: time has closed finitely many windows.
FiniteSweeps == IsFiniteSet(lapsed) /\ \A c \in Sessions : IsFiniteSet(tx[c].stale)

LEMMA FiniteSweepsNext ==
  ASSUME Typed, FiniteSweeps, [Next]_vars
  PROVE  FiniteSweeps'
<1>0. tx \in [Sessions -> Transaction] /\ \A c \in Sessions : tx[c] \in Transaction
  BY DEF Typed, TypeOK
<1>1. ASSUME NEW c \in Sessions, Begin(c) \/ Serve(c) \/ Abort(c) \/ DeadlockVictim(c)
      PROVE  FiniteSweeps'
  <2>1. lapsed' = lapsed /\ \A d \in Sessions \ {c} : tx'[d] = tx[d]
    <3>1. \A d \in Sessions \ {c} : tx'[d] = tx[d]
      BY <1>1, WritesFew DEF WritesItsOwn
    <3>2. CASE Begin(c)
      BY <3>1, <3>2 DEF Begin, CreateBegin, CancelBegin, SweepBegin, PayBegin, CallbackBegin
    <3>3. CASE Create(c) \/ Cancel(c) \/ Sweep(c)
      BY <3>1, <3>3 DEF Create, LockSeat, SeatTaken, CreateConflict, CreateCommit, Cancel,
         ReleaseSeat, UpdateSeatRow, CancelReadSchedule, CancelCommit, Sweep, SweepNext,
         SweepSeat, SweepReadSchedule, SweepCommit
    <3>4. CASE Pay(c) \/ Abort(c) \/ DeadlockVictim(c)
      BY <3>1, <3>4 DEF Pay, PayCheck, PayReject, PayUnavailable, PayCommit, VerifyOk,
         VerifyFailed, VerifyError, BookSeat, UpdateSeatRow, ConfirmCommit, FailCommit, Abort,
         DeadlockVictim
    <3> QED BY <1>1, <3>1, <3>2, <3>3, <3>4 DEF Serve
  <2>2. tx'[c].stale \subseteq tx[c].stale \/ tx'[c].stale \subseteq lapsed
    <3>1. CASE SweepBegin(c)
      BY <1>0, <3>1 DEF SweepBegin, Idle
    <3>2. CASE SweepNext(c)
      BY <1>0, <3>2 DEF SweepNext, Transaction
    <3>3. CASE CreateBegin(c) \/ CancelBegin(c) \/ PayBegin(c) \/ CallbackBegin(c)
      <4>1. \A p, b, k, S, n, r : Request(p, b, k, S, n, r).stale = {}
        BY DEF Request
      <4>2. CASE CreateBegin(c)
        <5> PICK b \in Bookings, S \in SUBSET Seats, k \in Bookable :
              tx' = [tx EXCEPT ![c] = Request("lock_seats", b, k, S,
                       [NoCounter EXCEPT ![k] = available[k]], NotLoaded)]
          BY <4>2 DEF CreateBegin
        <5> QED BY <1>0, <4>1
      <4>3. CASE CancelBegin(c)
        BY <1>0, <4>1, <4>3 DEF CancelBegin
      <4>4. CASE PayBegin(c)
        BY <1>0, <4>1, <4>4 DEF PayBegin
      <4>5. CASE CallbackBegin(c)
        BY <1>0, <4>1, <4>5 DEF CallbackBegin
      <4> QED BY <3>3, <4>2, <4>3, <4>4, <4>5
    <3>4. CASE Finish(c)
      BY <1>0, <3>4 DEF Finish, Idle
    <3>5. CASE LockSeat(c)
      BY <1>0, <3>5 DEF LockSeat, UpdateSeatRow
    <3>6. CASE SeatTaken(c)
      BY <1>0, <3>6 DEF SeatTaken
    <3>7. CASE ReleaseSeat(c)
      BY <1>0, <3>7 DEF ReleaseSeat, UpdateSeatRow
    <3>8. CASE SweepSeat(c)
      BY <1>0, <3>8 DEF SweepSeat, UpdateSeatRow
    <3>9. CASE BookSeat(c)
      BY <1>0, <3>9 DEF BookSeat, UpdateSeatRow
    <3>10. CASE CancelReadSchedule(c)
      BY <1>0, <3>10 DEF CancelReadSchedule, Transaction
    <3>11. CASE SweepReadSchedule(c)
      BY <1>0, <3>11 DEF SweepReadSchedule, Transaction
    <3>12. CASE PayCheck(c)
      BY <1>0, <3>12 DEF PayCheck
    <3>13. CASE VerifyOk(c)
      BY <1>0, <3>13 DEF VerifyOk
    <3>14. CASE VerifyFailed(c)
      BY <1>0, <3>14 DEF VerifyFailed
    <3>15. CASE PayCommit(c) /\ ~Redirects
      BY <1>0, <3>15 DEF PayCommit, Transaction
    <3>16. \/ Begin(c) \/ Finish(c) \/ LockSeat(c) \/ SeatTaken(c) \/ ReleaseSeat(c) \/ SweepSeat(c)
           \/ CancelReadSchedule(c) \/ SweepNext(c) \/ SweepReadSchedule(c) \/ PayCheck(c)
           \/ BookSeat(c) \/ VerifyOk(c) \/ VerifyFailed(c) \/ (PayCommit(c) /\ ~Redirects)
      BY <1>1, GoesOnOrEnds
    <3> QED BY <3>1, <3>2, <3>3, <3>4, <3>5, <3>6, <3>7, <3>8, <3>9, <3>10, <3>11,
         <3>12, <3>13, <3>14, <3>15, <3>16 DEF Begin
  <2>3. IsFiniteSet(tx'[c].stale)
    BY <2>2, FS_Subset DEF FiniteSweeps
  <2> QED BY <2>1, <2>3 DEF FiniteSweeps
<1>2. ASSUME NEW b \in Bookings, Lapse(b) PROVE FiniteSweeps'
  BY <1>2, FS_AddElement DEF Lapse, FiniteSweeps
<1>3. CASE UNCHANGED vars
  BY <1>3 DEF vars, FiniteSweeps
<1> QED BY <1>1, <1>2, <1>3 DEF Next

\* What a request has still to reach is a natural number, and never more than all seats.
LEMMA TodoCount ==
  ASSUME NEW t \in Transaction
  PROVE  LET todo == t.seats \ (t.held \cup t.unavailable) IN
         /\ IsFiniteSet(todo) /\ Cardinality(todo) \in Nat
         /\ Cardinality(Seats) \in Nat /\ Cardinality(todo) <= Cardinality(Seats)
<1> DEFINE todo == t.seats \ (t.held \cup t.unavailable)
<1>1. todo \in SUBSET Seats
  BY DEF Transaction
<1> HIDE DEF todo
<1>2. IsFiniteSet(todo) /\ Cardinality(todo) <= Cardinality(Seats)
  BY <1>1, FiniteAssumption, FS_Subset
<1>3. Cardinality(todo) \in Nat /\ Cardinality(Seats) \in Nat
  BY <1>2, FiniteAssumption, FS_CardinalityType
<1> QED BY <1>2, <1>3 DEF todo

\* One row more that the request has updated, or has found taken.
LEMMA OneRowMore ==
  ASSUME NEW t \in Transaction, NEW u \in Transaction, NEW s \in t.seats \ (t.held \cup t.unavailable),
         u.seats = t.seats,
         \/ u.held = t.held \cup {s} /\ u.unavailable = t.unavailable
         \/ u.held = t.held /\ u.unavailable = t.unavailable \cup {s}
  PROVE  Cardinality(u.seats \ (u.held \cup u.unavailable)) =
           Cardinality(t.seats \ (t.held \cup t.unavailable)) - 1
<1> DEFINE T == t.seats \ (t.held \cup t.unavailable)
           U == u.seats \ (u.held \cup u.unavailable)
<1>1. U = T \ {s} /\ s \in T
  OBVIOUS
<1>2. IsFiniteSet(T)
  BY TodoCount
<1> HIDE DEF T, U
<1>3. Cardinality(U) = Cardinality(T) - 1
  BY <1>1, <1>2, FS_RemoveElement
<1> QED BY <1>3 DEF T, U

\* A sweep's bookings, each worth two steps and one for every seat.
LEMMA SweepCount ==
  ASSUME NEW m \in Nat, NEW n \in Nat
  PROVE  /\ m * (n + 2) \in Nat
         /\ m > 0 => (m - 1) * (n + 2) = m * (n + 2) - n - 2
  BY SMT

LEMMA StepsPositive ==
  ASSUME NEW t \in Transaction, IsFiniteSet(t.stale), t.pc # "idle"
  PROVE  StepsLeft(t) > 0
<1> DEFINE todo == Cardinality(t.seats \ (t.held \cup t.unavailable))
           n == Cardinality(Seats)
           m == Cardinality(t.stale)
<1>1. todo \in Nat /\ n \in Nat /\ m \in Nat
  BY TodoCount, FS_CardinalityType
<1>2. m * (n + 2) \in Nat
  BY <1>1, SweepCount
<1>3. t.pc \in Points
  BY DEF Transaction
<1> HIDE DEF todo, m, n
<1>4. \/ t.pc \in {"cancel_commit", "fail"} /\ StepsLeft(t) = 1
      \/ t.pc \in {"lock_seats", "book_seats"} /\ StepsLeft(t) = todo + 1
      \/ t.pc = "cancel_seats" /\ StepsLeft(t) = todo + 2
      \/ t.pc = "sweep_next" /\ StepsLeft(t) = m * (n + 2) + 1
      \/ t.pc = "sweep_seats" /\ StepsLeft(t) = m * (n + 2) + todo + 2
      \/ t.pc = "pay_check" /\ StepsLeft(t) = n + 4
      \/ t.pc = "pay_commit" /\ StepsLeft(t) = n + 3
      \/ t.pc = "verify" /\ StepsLeft(t) = n + 2
  BY <1>3 DEF StepsLeft, Points, todo, m, n
<1> QED BY <1>1, <1>2, <1>4

\* A request that has one row less to reach, at the same point of its code.
LEMMA OneStepLess ==
  ASSUME NEW t \in Transaction, NEW u \in Transaction, NEW s \in t.seats \ (t.held \cup t.unavailable),
         t.pc \in {"lock_seats", "cancel_seats", "sweep_seats", "book_seats"}, u.pc = t.pc,
         IsFiniteSet(t.stale), u.stale = t.stale, u.seats = t.seats,
         \/ u.held = t.held \cup {s} /\ u.unavailable = t.unavailable
         \/ u.held = t.held /\ u.unavailable = t.unavailable \cup {s}
  PROVE  StepsLeft(u) < StepsLeft(t)
<1> DEFINE todo(x) == Cardinality(x.seats \ (x.held \cup x.unavailable))
           sweeps == Cardinality(t.stale) * (Cardinality(Seats) + 2)
<1>1. todo(u) = todo(t) - 1 /\ todo(t) \in Nat
  BY OneRowMore, TodoCount
<1>2. sweeps \in Nat
  BY TodoCount, FS_CardinalityType, SweepCount
<1>3. \A x \in {t, u} :
        /\ x.pc \in {"lock_seats", "book_seats"} => StepsLeft(x) = todo(x) + 1
        /\ x.pc = "cancel_seats" => StepsLeft(x) = todo(x) + 2
        /\ x.pc = "sweep_seats" => StepsLeft(x) = sweeps + todo(x) + 2
  BY DEF StepsLeft
<1> HIDE DEF todo, sweeps
<1> QED BY <1>1, <1>2, <1>3

LEMMA EachStepCounts ==
  ASSUME Typed, FiniteSweeps, NEW c \in Sessions, ~At(c, "idle"), tx'[c] \in Transaction,
         Serve(c) \/ Abort(c) \/ DeadlockVictim(c)
  PROVE  StepsLeft(tx'[c]) < StepsLeft(tx[c])
<1> DEFINE t == tx[c]
           u == tx'[c]
           n == Cardinality(Seats)
           m == Cardinality(t.stale)
           todo(x) == Cardinality(x.seats \ (x.held \cup x.unavailable))
           sweeps == m * (n + 2)
<1> USE DEF At
<1>0. tx \in [Sessions -> Transaction] /\ t \in Transaction /\ u \in Transaction
  BY DEF Typed, TypeOK
<1>1. /\ IsFiniteSet(t.stale) /\ m \in Nat /\ n \in Nat /\ sweeps \in Nat
      /\ todo(t) \in Nat /\ todo(u) \in Nat /\ todo(u) <= n
  <2>1. IsFiniteSet(t.stale) /\ m \in Nat
    BY FS_CardinalityType DEF FiniteSweeps
  <2>2. n \in Nat /\ todo(t) \in Nat /\ todo(u) \in Nat /\ todo(u) <= n
    BY <1>0, TodoCount
  <2>3. sweeps \in Nat
    BY <2>1, <2>2, SweepCount
  <2> QED BY <2>1, <2>2, <2>3
<1>2. CASE Finish(c)
  <2>1. StepsLeft(u) = 0
    BY <1>0, <1>2 DEF Finish, Idle, StepsLeft
  <2>2. StepsLeft(t) > 0
    BY <1>0, <1>1, StepsPositive
  <2> QED BY <2>1, <2>2
<1>3. CASE LockSeat(c) \/ ReleaseSeat(c) \/ SweepSeat(c) \/ BookSeat(c)
  <2>1. PICK s \in Todo(c) : tx' = [tx EXCEPT ![c].held = @ \cup {s}]
    BY <1>3 DEF LockSeat, ReleaseSeat, SweepSeat, BookSeat, UpdateSeatRow
  <2>2. t.pc \in {"lock_seats", "cancel_seats", "sweep_seats", "book_seats"}
    BY <1>3 DEF LockSeat, ReleaseSeat, SweepSeat, BookSeat
  <2>3. /\ u.pc = t.pc /\ u.stale = t.stale /\ u.seats = t.seats /\ u.held = t.held \cup {s}
        /\ u.unavailable = t.unavailable
    BY <1>0, <2>1 DEF Transaction
  <2>4. s \in t.seats \ (t.held \cup t.unavailable)
    BY <2>1 DEF Todo
  <2> HIDE DEF t, u
  <2>5. StepsLeft(u) < StepsLeft(t)
    BY <1>0, <1>1, <2>2, <2>3, <2>4, OneStepLess
  <2> QED BY <2>5 DEF t, u
<1>4. CASE SeatTaken(c)
  <2>1. PICK s \in Todo(c) : tx' = [tx EXCEPT ![c].unavailable = @ \cup {s}]
    BY <1>4 DEF SeatTaken
  <2>2. t.pc = "lock_seats"
    BY <1>4 DEF SeatTaken
  <2>3. /\ u.pc = t.pc /\ u.stale = t.stale /\ u.seats = t.seats /\ u.held = t.held
        /\ u.unavailable = t.unavailable \cup {s}
    BY <1>0, <2>1 DEF Transaction
  <2>4. s \in t.seats \ (t.held \cup t.unavailable)
    BY <2>1 DEF Todo
  <2> HIDE DEF t, u
  <2>5. StepsLeft(u) < StepsLeft(t)
    BY <1>0, <1>1, <2>2, <2>3, <2>4, OneStepLess
  <2> QED BY <2>5 DEF t, u
<1>5. CASE CancelReadSchedule(c)
  <2>1. t.pc = "cancel_seats" /\ u.pc = "cancel_commit"
    BY <1>0, <1>5 DEF CancelReadSchedule
  <2>2. StepsLeft(t) = todo(t) + 2 /\ StepsLeft(u) = 1
    BY <2>1 DEF StepsLeft
  <2> HIDE DEF t, u, todo
  <2>3. StepsLeft(u) < StepsLeft(t)
    BY <1>1, <2>2
  <2> QED BY <2>3 DEF t, u
<1>6. CASE SweepNext(c)
  <2>1. PICK b \in t.stale : tx' = [tx EXCEPT ![c].pc = "sweep_seats", ![c].b = b,
                                      ![c].seats = booking[b].seats, ![c].stale = @ \ {b}]
    BY <1>6 DEF SweepNext
  <2>2. t.pc = "sweep_next" /\ u.pc = "sweep_seats" /\ u.stale = t.stale \ {b}
    BY <1>0, <1>6, <2>1 DEF SweepNext, Transaction
  <2>3. Cardinality(u.stale) = m - 1 /\ m > 0
    <3>1. Cardinality(t.stale \ {b}) = Cardinality(t.stale) - 1
      BY <1>1, <2>1, FS_RemoveElement
    <3>2. IsFiniteSet(t.stale \ {b}) /\ Cardinality(t.stale \ {b}) \in Nat
      BY <1>1, FS_Subset, FS_CardinalityType
    <3> HIDE DEF t
    <3> QED BY <1>1, <2>2, <3>1, <3>2
  <2>4. StepsLeft(t) = sweeps + 1 /\ StepsLeft(u) = (m - 1) * (n + 2) + todo(u) + 2
    BY <2>2, <2>3 DEF StepsLeft
  <2>5. (m - 1) * (n + 2) = sweeps - n - 2
    BY <1>1, <2>3, SweepCount
  <2> HIDE DEF t, u, m, n, todo, sweeps
  <2>6. StepsLeft(u) < StepsLeft(t)
    BY <1>1, <2>4, <2>5
  <2> QED BY <2>6 DEF t, u
<1>7. CASE SweepReadSchedule(c)
  <2>1. t.pc = "sweep_seats" /\ u.pc = "sweep_next" /\ u.stale = t.stale
    BY <1>0, <1>7 DEF SweepReadSchedule, Transaction
  <2>2. StepsLeft(t) = sweeps + todo(t) + 2 /\ StepsLeft(u) = sweeps + 1
    BY <2>1 DEF StepsLeft
  <2> HIDE DEF t, u, m, n, todo, sweeps
  <2>3. StepsLeft(u) < StepsLeft(t)
    BY <1>1, <2>2
  <2> QED BY <2>3 DEF t, u
<1>8. CASE PayCheck(c)
  <2>1. t.pc = "pay_check" /\ u.pc = "pay_commit"
    BY <1>0, <1>8 DEF PayCheck
  <2> QED BY <1>1, <2>1 DEF StepsLeft
<1>9. CASE PayCommit(c) /\ ~Redirects
  <2>1. t.pc = "pay_commit" /\ u.pc = "verify"
    <3>1. tx' = [tx EXCEPT ![c].pc = "verify", ![c].row.payment_status = "PROCESSING",
                           ![c].row.payment = "PROCESSING"]
      BY <1>9 DEF PayCommit
    <3>2. tx'[c].pc = "verify"
      BY <1>0, <3>1 DEF Transaction
    <3> QED BY <1>9, <3>2 DEF PayCommit
  <2> QED BY <1>1, <2>1 DEF StepsLeft
<1>10. CASE VerifyOk(c)
  <2>1. t.pc = "verify" /\ u.pc = "book_seats"
    BY <1>0, <1>10 DEF VerifyOk
  <2>2. StepsLeft(t) = n + 2 /\ StepsLeft(u) = todo(u) + 1
    BY <2>1 DEF StepsLeft
  <2> HIDE DEF t, u, n, todo
  <2>3. StepsLeft(u) < StepsLeft(t)
    BY <1>1, <2>2
  <2> QED BY <2>3 DEF t, u
<1>11. CASE VerifyFailed(c)
  <2>1. t.pc = "verify" /\ u.pc = "fail"
    BY <1>0, <1>11 DEF VerifyFailed
  <2> QED BY <1>1, <2>1 DEF StepsLeft
<1> HIDE DEF t, u
<1> QED BY <1>2, <1>3, <1>4, <1>5, <1>6, <1>7, <1>8, <1>9, <1>10, <1>11, GoesOnOrEnds DEF t, u

\* Each step of a request in flight, whatever the others do, lowers the bound on what it can
\* still do, so none goes round: a lock_seats that answered a conflict by starting over with
\* its locks given back, or a wait that polled, would break this.
THEOREM StepsCount == Spec => EveryStepCounts
<1>1. Init => Typed /\ FiniteSweeps
  <2>1. ASSUME Init PROVE FiniteSweeps
    BY <2>1, FS_EmptySet DEF Init, Idle, FiniteSweeps
  <2> QED BY <2>1, TypedInit
<1>2. Typed /\ FiniteSweeps /\ [Next]_vars => (Typed /\ FiniteSweeps)'
  BY TypedNext, FiniteSweepsNext
<1>3. ASSUME Typed, FiniteSweeps, [Next]_vars
      PROVE  \A c \in Sessions :
               ~At(c, "idle") /\ tx'[c] # tx[c] => StepsLeft(tx'[c]) < StepsLeft(tx[c])
  <2> SUFFICES ASSUME NEW c \in Sessions, ~At(c, "idle"), tx'[c] # tx[c]
               PROVE  StepsLeft(tx'[c]) < StepsLeft(tx[c])
    OBVIOUS
  <2>1. tx'[c] \in Transaction
    BY <1>3, TypedNext DEF Typed, TypeOK
  <2>2. PICK d \in Sessions : Begin(d) \/ Serve(d) \/ Abort(d) \/ DeadlockVictim(d)
    BY <1>3 DEF Next, vars, Lapse
  <2>3. d = c
    BY <1>3, <2>2, WritesFew DEF WritesItsOwn
  <2>4. ~Begin(c)
    BY DEF Begin, CreateBegin, CancelBegin, SweepBegin, PayBegin, CallbackBegin
  <2> QED BY <1>3, <2>1, <2>2, <2>3, <2>4, EachStepCounts
<1> QED BY <1>1, <1>2, <1>3, PTL DEF Spec, EveryStepCounts
=============================================================================
