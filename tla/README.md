# Verification of the ticket booking platform

TLA+ modules, TLC runs and TLAPS proofs about the ticket booking platform: what concurrent
requests, deaths, deadlocks, sweeps and gateway callbacks can do to seats, bookings, payments
and the availability counter (`src/backend/app`); what racing registrations and refreshes can
do to accounts and tokens (`auth`); and what a customer's browser makes of late, lost and
refused answers (`src/frontend`).

## 1. The system

The backend is a FastAPI application over one PostgreSQL database. Every request gets a
SQLAlchemy `AsyncSession` of its own (`database.py`), i.e. one transaction at a time
under READ COMMITTED. Nothing else is shared: there is no application-level lock, no
queue, no background task. Components meet in the rows they write, and every `await` is
a place where any other request may run.

| component | state it keeps | operations | talks to |
|---|---|---|---|
| booking service (`booking/service.py`) | `bookings`, `booking_passengers`, `seats.status`, `seats.locked_by_booking_id`, `schedules.available_seats` | create (with `lock_seats`), cancel, expire stale, get, list | database |
| payment service (`payment/service.py`) | `payments`, the booking's `status` and `payment_status`, `seats.status` | initiate, confirm, get | database, a gateway |
| gateways (`payment/gateway*`, `factory.py`) | none here | initiate, verify, signature check | external providers |
| tables and sessions (`*/models.py`, `database.py`) | rows; an ORM identity map per session, kept across commits (`expire_on_commit=False`) | commit, rollback, row locks | PostgreSQL |
| accounts (`auth/service.py`) | `users`, `email_verification_tokens`, `refresh_tokens` | register, verify e-mail, login, issue, rotate | database, mail |
| search (`search/service.py`) | none | search by counter, schedule with seats | database |
| frontend checkout (`schedules/[scheduleId]/*`, `booking-flow-store.ts`) | selected seats, passengers, stage | select, book and pay in one click, retry | the API |
| frontend session (`api-client.ts`, `auth-store.ts`) | tokens in `localStorage` | request, react to 401, logout | the API |
| shell, settings, pages, migration, seed | wiring and initial rows | | |

What is hard in it, and what would make each part correct:

* **Booking.** `lock_seats` relies on one conditional UPDATE per seat; all seats or none;
  cancel and the sweep check a booking's status once and then release its seats
  unconditionally. Correct: no seat in two live bookings; a live booking holds every one
  of its seats; no seat is LOCKED or BOOKED without the booking that can release it.
* **Payment.** Two commits per request, with a gateway call in each part; the second part
  trusts an object loaded before the first. Correct: booking and payment agree; CONFIRMED
  means paid; a paid booking stays confirmed until its user cancels it; a callback that is
  late or delivered twice does no harm to the inventory.
* **Counter.** `available_seats` is read, changed in Python and written back as a value.
  Correct: it equals the number of AVAILABLE seats.
* **Progress.** Requests wait on row locks in an order the client chooses. Correct: every
  request ends; a lapsed booking is resolved.
* **Accounts.** `register_user` looks for the e-mail only, never for the phone, and sees no
  uncommitted row; the mail goes out before the commit; a refresh token is read and revoked
  in two statements. Correct: one account per address and phone; no account without its
  mail; a login keeps exactly one live refresh token.
* **Checkout.** One click makes two calls; its flow goes on when the page is left, and shares
  a store with whatever page is open by then. Correct: the confirmation page means that the
  payment was decided; nobody pays twice for a seat; no page waits for ever.
* **Search** goes by the counter, the seat map by the seats. Correct: they agree.

`PROJECT.json` lists every component with its status, and every hazard at its line.

## 2. The modules

```
Tables            rows, row locks, sessions, rollback, deadlock, time
  BookingService    create_booking/lock_seats, cancel_booking, expire_stale_bookings
  PaymentService    initiate_payment, confirm_payment, callbacks
Platform          both services composed; specification, fairness, properties
  Search            the four reads of search/service.py over the rows of Platform
SeatPromise       abstract: what the platform promises about seats
MCPlatform        instances of Platform for TLC
MCSearch          MCPlatform with routes, types and days for Search
PlatformProofs    types, row locks, no orphan seat, no double booking; EXTENDS Platform
  PromiseProofs     the refinement of SeatPromise
  PaymentProofs     payment and booking agree, with either kind of gateway; stale checks
  ProgressProofs    no request goes round in circles or waits in vain
  CounterProofs     the counter is exact
    SearchProofs      ... so search agrees with the seat map; EXTENDS Search too

Accounts          register, verify, login, refresh; specification, fairness, properties
LoginPromise      abstract: what the accounts promise about logins
AccountsProofs    its invariants and the refinement of LoginPromise

Checkout          the browser, against the server's rows and other customers
CheckoutProofs    its invariants
```

Three specifications, because three things are coupled: requests through the rows of seats,
bookings and payments (`Platform`), requests through the rows of users and tokens
(`Accounts`), and the pages of one browser through their store (`Checkout`). `Checkout` has its
own, coarser rows of the server: a handler's commit is one step there, because what a handler has
read before its commit is the subject of `Platform`. A login is what both `Accounts` and
`Checkout` speak of; the browser never calls refresh, so nothing else joins them.

**Tables.** The variables `seat`, `booking`, `payment`, `available` are the *committed*
rows. `tx[c]` is the request session `c` serves: where it is suspended (`pc`), the booking
in hand, its seats, the seat rows it has updated and not committed (`held`: it owns their
locks), and what its identity map has loaded (`counter`, `row`). A SELECT reads the
committed rows; an UPDATE of a row needs its lock (`RowFree`); `Finish` is commit's end or
rollback. Schedules, bookings and payments are written only in the flush of the commit, in
the order of their foreign keys; no transaction waits for anything else after that, so
flush and commit are one step. `DeadlockVictim` is PostgreSQL's detector aborting one
transaction of a cycle; `Abort` is a request dying at any await (`get_db` rolls back).
`Lapse` is the closing of a payment window.

**BookingService, PaymentService.** One action per stretch of code between two awaits
that another request can influence or observe:

| code | actions |
|---|---|
| `create_booking` up to its flush | `CreateBegin` (reads the schedule with its counter, validates, takes an id) |
| `lock_seats`, per seat | `LockSeat` (rowcount 1), `SeatTaken` (rowcount 0) |
| rollback and 409 / passengers, counter, commit | `CreateConflict` / `CreateCommit` |
| `cancel_booking` | `CancelBegin`, `ReleaseSeat`*, `CancelReadSchedule`, `CancelCommit` |
| `expire_stale_bookings` | `SweepBegin`, per booking `SweepNext`, `SweepSeat`*, `SweepReadSchedule`, then `SweepCommit` |
| `initiate_payment` | `PayBegin`, `PayCheck`, `PayReject`, `PayUnavailable`, `PayCommit` |
| `confirm_payment` | `CallbackBegin` (redirect gateway only), `VerifyOk`/`VerifyFailed`/`VerifyError`, `BookSeat`*, `ConfirmCommit` / `FailCommit` |

Two details of SQLAlchemy decide outcomes and are modelled exactly: an object already in the
identity map is not reloaded by a second SELECT (`LoadBooking`, `AddToCounter`), and an
UPDATE contains only attributes whose new value differs from the loaded one (`Column`).

Operators with a suffix such as `_NoStatusCheck` are mutated forms of the operator after
them; `PROJECT.json` names, for each property of a run, a mutant that breaks it. They are
in no specification.

**SeatPromise** is the abstract specification: a booking takes all its seats at once from
those nobody owns (`Hold`), may be sold once (`Sell`), and gives them back for good
(`Release`, of several bookings at once for a sweep). `Platform` implements it
(`KeepsPromise`) under the mapping `OwnerOf`, `PhaseOf` read off the committed rows.

**Accounts.** `user`, `link`, `mailed`, `token` are committed rows (`mailed` is what the mail
backend has sent); `req[c]` is the request of a session.

| code | actions |
|---|---|
| `register_user` | `RegisterBegin` (its SELECT by e-mail), `IndexEmail`, `IndexPhone` (the INSERT, which waits for an uncommitted entry of the same value), `RegisterDuplicate` (IntegrityError, 500), `SendMail`, `RegisterCommit` |
| `verify_email` | `VerifyBegin`, `VerifyCommit` |
| `authenticate_user`, `issue_tokens` | `Login`: one step, since nothing it reads can change before its commit |
| `rotate_refresh_token` | `RotateBegin` (SELECT of the live rows), `RotateRevoke` (the flush, which takes the row's lock), `RotateCommit` |

`SameToken` says whether clients may refresh one token twice at once. `LoginPromise` is the
abstract specification: an open login has one current token, replaced by one never issued
before. The mapping `CurrentOf` reads the login's live token off the rows.

**Search** has no state: `SearchSchedules`, `AllSchedules`, `SeatMap` and `ListCities` are the
four reads as sets over the rows of `Platform`. The route asks for one passenger, so a
schedule is found if its counter is at least 1.

**Checkout.** `tab` is what the customer has: the page and its stage, the press of Pay it
waits for, the count of the seat page, the selection and the passengers in the store, and whether
somebody is logged in. `press[p]` is the flow behind a press: which call is with the server, and
whether it was sent with a token, or which answer is on the way. `booking`, `taken`, `payment` are
the server's rows, a booking having the name of its press; `cancelled` is `cancelled_at`, which
stays when a payment under way makes a cancelled booking CONFIRMED.

| code | actions |
|---|---|
| search results, seat map, form, buttons | `PickSchedule`, `ChooseCount`, `Toggle`, `Continue`, `Submit`, `Pay`, `PayLoggedOut`, `BackToSeats` |
| effects of a page that is mounted (redirect when the store is empty, one seat kept of a selection) | `Mount`, in every action that opens a page |
| login, logout | `LogIn`, `LogOut`; that a token has expired is a `RefuseCall` |
| browser | `GoThroughHistory`, `ConnectionBreaks` |
| the calls on the server | `CreateBooking`, `InitiatePayment`, `ConfirmPayment`, `RefuseCall`, `Die`; other customers: `BookElsewhere`, `CancelBooking` |
| the answers in `handlePay` | `HearCreated`, `HearSettled`, `HearRedirect`, `HearRefusal` |

The answer of a flow is handled whatever page is open by then; only its `setStage` reaches
nothing once the page is gone (`Told`). The server's two actions of a payment stand for its
two commits, so a call may die, and a cancel commit, between them. `ConfirmPayment` has the
failure branch of `payment/service.py:112-126`, whose answer `handlePay` cannot tell from success.

**What CONSTANTS switch.** `Overlap` says which requests are in flight together, clients' and
a gateway's callbacks: `"any"` is what the code permits; `"other_booking"` never two on one
booking; `"other_schedule"` nor two on one schedule. `Sweeps` says what calls
`expire_stale_bookings`: `"never"` nothing, as in the repository; `"any"` something, whenever it
likes, which is what the code allows; `"apart"` something that keeps to `Overlap` as requests do.
*The discipline*, below, is an `Overlap` other than `"any"` with `"apart"` (or `"never"`). It is an
assumption on clients, gateway and sweeper, and no code enforces any of it: the service's sweep
selects every lapsed PENDING booking, also one that is being paid or cancelled. What the code
does without it is what Overlapping, DoubleBooking and PaidExpired are about. `Faults` turns
`Abort` on.
`Redirects` and `Outcomes` choose the gateway: the mock gateway is `FALSE` and
`{"success"}`; unconfigured JazzCash or EasyPaisa give `"error"`; `"failure"` is the branch
the code has for a refused payment.

## 3. The runs

On `MCPlatform`, except Counter (`MCSearch`), Accounts and TokenReuse (`Accounts`) and Checkout
(`Checkout`). Bounds are the sizes of the constant sets; nothing else is bounded but
`MaxCallbacks` (callbacks per booking). Booking ids, user ids and token values are not reused,
so their number bounds the length of a history.

| run | instance | shows |
|---|---|---|
| Serial | other_booking, sweeps apart, faults, refused payments; 2 sessions, 3 bookings, 2 seats | `NoDoubleBooking`, `HoldsItsSeats`, `ConfirmedIsPaid`, `PaymentAgrees`, `BookedOnlyFromLocked`, and refinement of `SeatPromise`, under the discipline |
| Overlapping | any, sweeps any; 3 sessions, 2 bookings, 2 seats | `TypeOK`, `RequestsInHand`, `RowLocks`, `NoOrphanSeat`, `PaymentAgrees`, `PaymentSettledOnce`, `NeverStuck`, `EveryStepCounts`, `OnlyStaleChecksHarm` with no discipline at all |
| Counter | other_schedule, sweeps apart, faults; 2 sessions, 3 bookings, 3 seats on 2 schedules | `CounterExact`, and therefore `SearchAgreesWithSeatMap` |
| Redirect | other_booking, sweeps apart, faults, all answers, 2 callbacks per booking | `NoOrphanSeat`, `PaymentAgrees`, `LoadedIsCurrent` with a redirect gateway |
| Progress | other_booking, sweeps apart, fair; 2 sessions, 2 bookings, 2 seats | `RequestsEnd`, and `LapsedReleased` if something keeps sweeping |
| Accounts | fair, faults; 2 sessions, 2 users, 2 e-mails, 1 phone, 3 tokens | `OneAccountPerAddress`, `RegisteredWasMailed`, `VerifiedByLink`, `OneTokenPerLogin`, `AccountRequestsEnd`, and refinement of `LoginPromise`, with one refresh of a token at a time |
| Checkout | fair, faults; 2 presses, 2 seats, a provider without redirect that confirms or refuses and one with | `ArrivesSettled`, `ChargedOnce`, `BusyIsAwaited`, `BusyEnds`, and no deadlock |
| DoubleBooking | any, no sweeps; 2 sessions, 2 bookings, 1 seat | `NoDoubleBooking` violated |
| PaidExpired | other_booking, sweeps any; 2 sessions, 1 booking, 1 seat | `PaidKeepsBooking` violated |
| LostCounter | other_booking; 2 sessions, 2 bookings, 2 seats | `CounterExact` violated |
| NoSweeper | no sweeps, fair | `LapsedReleased` violated |
| TokenReuse | refreshes of one token overlap | `OneTokenPerLogin` violated |

Why these bounds are enough to mean something: two sessions give every pairwise race, three
the races in which a third request slips between two others (the deadlock cycle with a
bystander, the row released by one and taken by another); two seats are needed for partial
locks and for opposite lock orders; a third booking is needed to buy a seat again after it
was released and to see the buyer overlap somebody else; two schedules with a
two-seat one distinguish a counter kept per schedule from one that is not, and a sweep that
writes both. Overlapping has no deaths and no refused payment, which its three sessions leave
no room for; the theorems about the same invariants have them, for any number of sessions. In
Accounts two registrations may want the same e-mail, the same phone, or neither, and three
tokens are a login and two rotations of it, or two logins. In Checkout two presses are a retry
of a customer, or a press and another customer's booking; the second seat is what a stale
selection differs in, and `MaxPassengers` is 2 where the code has 6 because there are two seats. A
third booking of one seat is beyond the run; `SeatChargedOnce` covers any number. Sessions,
bookings and the seats of one schedule are interchangeable, and symmetry is used in safety
runs only.

**The five violations** are what the documents promise and the code does not do.
*DoubleBooking*: a payment of a booking has read it PENDING (`payment/service.py:38`); a cancel of
it commits and frees the seat, another booking locks it, and then the payment's commits make the
cancelled booking CONFIRMED beside the other one, since `confirm_payment` (line 131) does not look
at the status again. `docs/requirements.md:28-29` excludes this. *PaidExpired*: a sweep selects a
lapsed booking as PENDING (`booking/service.py:266`), its payment commits, and the sweep's own
commit writes EXPIRED over CONFIRMED and frees the paid seat; lines 257-258 speak of PENDING
bookings only. Clients keep the discipline in this run: the sweep alone breaks it. *LostCounter*: two overlapping requests of
one schedule write back values computed from the same read. `search/service.py:8-9` relies
on the counter. *NoSweeper*: nothing calls `expire_stale_bookings`, which `README.md:199`
admits, while `docs/architecture.md:111` and `booking-flow-store.ts:27-28` rely on it.
*TokenReuse*: two refreshes of one token both read it before either revokes it, and the UPDATE
does not look again, so the login ends up with two live tokens; `docs/security.md:10-11` and
`auth/service.py:147-149` call them single-use. The passing runs of the same properties say
under which discipline each promise holds, and `OnlyStaleChecksHarm` says that nothing but stale
checks is to blame: `Intact` (no double sale, live bookings hold their seats, paid ones stay) is
kept by every step of a request whose status check still holds, however requests and sweeps overlap.

**Fairness** (`Fairness` in `Platform`). `SF(Serve(c))` for each request: PostgreSQL serves
the waiters of a row in turn, so a request that can go on again and again does; weak fairness
would allow a request to be overtaken for ever, because other lock holders disable its step.
`WF` of the deadlock detector: it runs after `deadlock_timeout`, always. `SF(SweepBegin)` is an
assumption on the environment, vacuous when `Sweeps` is `"never"`. No fairness is assumed for
clients beginning anything, for `Lapse` or for `Abort`. Progress has sweeps apart because
otherwise a sweep and a cancel of one booking may take its seats in opposite orders and deadlock
again and again, each the victim in turn, which nothing in the code or in PostgreSQL bounds: neither
the booking is resolved nor anything else reached.

In `Accounts`, `SF(Serve(c))` again: an INSERT or UPDATE that waits is woken by the commit or
rollback it waits for. What it waits for may wait too (for a phone number, the e-mail being
entered already), but never in a circle, so no deadlock detector is needed there. In `Checkout`, `WF` of
the server and of the answers: the server answers every call (that is `RequestsEnd`) and an
answer, or the break of its connection, arrives. Nothing is assumed of the customer.

`CHECK_DEADLOCK FALSE` in every run but Checkout: bookings and tokens are finite in the model,
and a platform whose requests are all done has really stopped. Requests that wait on each other
are found by `RequestsEnd` and `AccountRequestsEnd` instead. A browser can always be clicked, so
there deadlock is checked.

## 4. The proofs

`PlatformProofs` and `PromiseProofs` prove, for any number of sessions, bookings, schedules and (finitely many)
seats:

* `TypeCorrect`: `Spec => [](TypeOK /\ RequestsInHand)`, with no assumption. `TypeOK` alone
  is not inductive: a commit writes the row a request has in hand, and that row must exist.
  `Typed` adds `RequestsInHand` (what a request took for granted when it began is still
  there) and `PaymentsBelong` (a payment has its booking, which a callback relies on).
* `NoOrphanSeatSafe`: `~Redirects` implies `Spec => []NoOrphanSeat`, under every overlap. The
  invariant is inductive over `Typed`: each of the four committing steps writes seat rows
  and booking status together, and a confirmation that needs no redirect always writes
  CONFIRMED, because its session loaded PENDING (part of `RequestsInHand`).
* `RowLocksHold`: `Spec => []RowLocks`, with no assumption. Every step keeps to the rows the
  request has locked (`KeepsToItsOwn`, proved action by action).
* `SeatsSoldOnce`, `LiveHoldSeats`: `Overlap # "any"`, `Sweeps # "any"` (the discipline) and
  `~Redirects` imply `Spec => [](HoldsItsSeats /\ NoDoubleBooking)`. The inductive invariant is
  `Typed /\ RowLocks /\ ChecksStillHold /\ HoldsItsSeats`: overlapping requests work on
  disjoint sets of bookings, so no other step changes the status a request has checked;
  so what it releases or books at its commit is owned by the booking it works on, and what it
  locks is owned by nobody; a seat's row names one booking, hence `NoDoubleBooking`.

* `ServicesKeepPromise` (`PromiseProofs`), under the same assumptions: `Spec => KeepsPromise`.
  `CreateCommit` maps to `Hold`, `ConfirmCommit` to `Sell`, `CancelCommit` and `SweepCommit` to
  `Release`, every other step to a stutter. The abstract `Release` goes by the owner in the seat
  rows, the code by the booking's passengers; `NoOrphanSeat` and `HoldsItsSeats` together
  (`OwnedSeats`) make these the same seats.
* `OnlyConfirmBooks`: `Spec => BookedOnlyFromLocked`, from the same invariants.

* `RequestsKeepHand`: the part `RequestsInHand` of `TypeCorrect`, which a run checks on its own.
* `PaymentsAgree`, `ConfirmedPaid` (`PaymentProofs`): `~Redirects` implies `PaymentAgrees` and
  `ConfirmedIsPaid`, under every overlap. `confirm_payment` writes a column only where the new
  value differs from the one its session loaded, so the proof shows that the loaded value is
  still the row's (`PaysOnce`): `booking_id` is unique in `payments`, so of all the requests that
  found no payment one gets its row in, and only that one settles the booking.
  `SettledOnce`: by the same invariant, a payment that is COMPLETED or FAILED stays so.
* `StaleChecksAlone` (`PaymentProofs`): `~Redirects` implies `OnlyStaleChecksHarm`, under every
  overlap and any sweeps. The steps of the proof of `SeatsSoldOnce` ask for the check of the
  requests that move, not for the discipline; that the paid booking stays is added here.
* `LoadedStaysCurrent`, `CallbacksAgree`, `CallbacksOrphanNone` (`PaymentProofs`): under the
  discipline, which binds callbacks and sweeps as well, and with any gateway, `LoadedIsCurrent`, `PaymentAgrees` and `NoOrphanSeat`. A
  callback has a session of its own, so nothing is known of the payment it finds: it may be
  settled already, or its booking cancelled and the seats sold again. What holds is that no other
  request works on its booking meanwhile (`Apart`), so what the session has loaded is the row,
  and the column it leaves out holds the value it would have written. The proof of
  `NoOrphanSeatSafe` is shared: of a confirmation it asks only that CONFIRMED is in the row
  afterwards (`Confirms`), which here follows from `LoadedIsCurrent`.
* `CounterStaysExact` (`CounterProofs`): `Overlap = "other_schedule"`, `Sweeps # "any"` and `~Redirects`
  imply `CounterExact`. A request writes the counter as a value computed in memory, so the invariant
  (`CounterInHand`) says what this value is at every await: the committed counter plus the seats
  the request has given back so far, which were not AVAILABLE because live bookings hold theirs,
  and are counted once because a seat has one booking. A sweep is the hard case: it adds up
  several bookings of several schedules before its one commit.
* `WaitsEnd` and `StepsCount` (`ProgressProofs`), with no assumption, for any finite pool of
  sessions: what there is of "every request ends" that is safety. `NeverStuck`: follow the waits
  from a blocked request; a row is locked only by a request in flight (`RequestsInHand`), so
  either one that can go on is met, or the requests met are closed under waiting, and a smallest
  closed set of them is a cycle (`SmallestIsCycle`), whose victim the detector chooses.
  `EveryStepCounts`: `StepsLeft`, read off the transaction alone, falls with each step of its
  request, so a request takes finitely many and no other can make it start over. That a request
  which can go on does go on is the fairness of the run Progress. The proof needs that a sweep
  has finitely many bookings in hand (`FiniteSweeps`), because time closes them one by one.
* `SearchHidesNoSeat` (`SearchProofs`): hence `SearchAgreesWithSeatMap`, for any routes and days.
* `AddressesUnique`, `MailedFirst`, `VerifiedExactly`, `AccountTypes` (`AccountsProofs`), with no
  assumption: what a registration has put into a unique index keeps every other registration
  out of it until its commit (`RegistrationInHand`). `TokensKept` and `LoginsKept`, under
  `~SameToken`: the token a rotation replaces is still its login's live one when the rotation
  commits, so each login keeps one live token and `Spec => KeepsLogins`.
* `ConfirmationIsSettled`, `CheckoutTypes` (`CheckoutProofs`), with no assumption: only mounting a
  page brings the tab to another one, and a mounted page has forgotten its press; `"settled"` is
  on its way only for a decided payment (`SettledInv`). `PaidIfNeverRefused`: with
  `"failure" \notin Outcomes`, as with the mock gateway, the confirmation page means COMPLETED.
  `SeatChargedOnce`: `ChargedOnce` alone is not inductive; `BookedInv` says that a seat with a
  booking is taken, and has no other one, unless a booking of it was cancelled.
  `BusyPageHears`: a busy page's own flow is still going on and is heard (`BusyIsAwaited`), since
  every step that stops a flow, or the tab's listening to it, tells the page.

The assumptions on constants are the named ASSUMEs of `Tables`, `PaymentService`, `Search`,
`Accounts` and `Checkout`, which TLC evaluates in every run (`PoolAssumption`, that there are
finitely many sessions, is the database's connection limit). Every invariant and action property
a passing run checks and both refinements are proved, with the assumptions named above; the runs
Redirect and Serial add deaths, refusals and sweeps on a small instance. Only model-checked: liveness
(`RequestsEnd`, `LapsedReleased`, `AccountRequestsEnd`, `BusyEnds`), which the prover does not
reach (fairness and ENABLED). With a redirect gateway `ConfirmedIsPaid` and `PaymentSettledOnce`
are not claimed: a second callback with another answer overwrites a settled payment. Nor is
`NoOrphanSeat` claimed for such a gateway when requests on one booking overlap.

## 5. What is left out, and why

*Of the services.* Ownership (a request acts for the booking's own user; a foreign id is a 404
that changes nothing), prices and passenger details, `BLOCKED` seats, `REFUNDED` payments and
schedule status changes (no code sets any of them), mail and log wording, `get_booking` and
`list_bookings`. Requests that a first check refuses change nothing and are not steps.
Departure dates play no part in booking: a departure that is past can be booked like any
other, since only the schedule's status is checked. Signature checks of the gateways have no
caller. The pool's 15 connections only bound the overlap, which is arbitrary here.

*Of the accounts.* Passwords, roles and `is_active`, which no code writes after the INSERT; times
of expiry, which only decide that a request is refused, and a refusal changes nothing. A
verification link that has expired cannot be renewed by any operation.

*Of the browser.* Polling and its retries (SWR), error toasts, the pages that only render.
Through the browser's history the payment page can show a selection made since then over the
passengers of the old one, because `setSchedule` does not clear them, and Pay books the passengers:
the model does the same, and no property says otherwise. A page that the browser restores from its
cache after a redirect to a gateway (with its stage still `paying`) is not modelled: coming back
loads the application afresh, and leaving is one step with asking for the gateway's page. The message of a conflict says that somebody else was faster
(`payment/page.tsx:102-103`) even if the seats are held by the customer's own earlier press.
Nothing uses the refresh token, so an expired access token means 401s until the next login: time
is not modelled, any call may be refused, and `BusyEnds` says that pages recover from it.

*Of the rest.* The schema migration runs before the program; its unique indexes are modelled
where they decide races. Sample data, configuration other than the payment provider, CORS,
health checks and logging have no behaviour that anything here depends on. `list_cities` names
the cities of all routes, with or without departures, so the search form may complete to a
city nothing goes to.

What a further step could add: properties of a redirect gateway whose callbacks carry
the payment's reference, once the repository has a route for them (today `confirm_payment` has
no caller but `initiate_payment`).
