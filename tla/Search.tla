------------------------------- MODULE Search -------------------------------
(***************************************************************************)
(* backend/app/search: what a customer is shown of the schedules, read off *)
(* the rows the booking and payment services write.  Each query is one     *)
(* SELECT, so it sees one state of the committed rows; the seat map is a   *)
(* second SELECT of its request.  Order, names and prices are left out.    *)
(***************************************************************************)
EXTENDS Platform

CONSTANTS
  Routes,    \* rows of the routes table: [departure_city, arrival_city]
  RouteOf,   \* Schedule.route_id
  TypeOf,    \* Schedule.operator.operator_type
  DateOf,    \* Schedule.departure_date
  Today

ASSUME RouteAssumption ==
  /\ RouteOf \in [Schedules -> Routes]
  /\ \A r \in Routes : r = [departure_city |-> r.departure_city, arrival_city |-> r.arrival_city]
ASSUME DateAssumption == DateOf \in [Schedules -> Int] /\ Today \in Int

Types == {TypeOf[k] : k \in Schedules}
Days == {DateOf[k] : k \in Schedules}

\* The days of the listing when no date is given; a departure of earlier today is among them.
Upcoming == {day \in Days : day >= Today}

SearchSchedules_TwoSeats(from, to, days, types) ==
  {k \in Bookable : /\ RouteOf[k].departure_city \in from
                    /\ RouteOf[k].arrival_city \in to
                    /\ DateOf[k] \in days
                    /\ TypeOf[k] \in types
                    /\ available[k] > 1}

\* search_schedules: the cities are ILIKE patterns (case is ignored, % and _ are wildcards)
\* and stand here as the cities they match; transport_type None is every type.  It goes by
\* the counter, for which the route asks for 1.
SearchSchedules(from, to, days, types) ==
  {k \in Bookable : /\ RouteOf[k].departure_city \in from
                    /\ RouteOf[k].arrival_city \in to
                    /\ DateOf[k] \in days
                    /\ TypeOf[k] \in types
                    /\ available[k] >= 1}

\* list_all_schedules: full ones too.
AllSchedules(days, types) == {k \in Bookable : DateOf[k] \in days /\ TypeOf[k] \in types}

\* get_schedule_with_seats, the seats in it.
SeatMap(k) == [s \in {r \in Seats : ScheduleOf[r] = k} |-> seat[s].status]

\* list_cities, which the search form completes from.
ListCities == {r.departure_city : r \in Routes} \cup {r.arrival_city : r \in Routes}

\* Search hides no seat and offers none that is gone: whatever the form asks for, it finds
\* the listed schedules of the route whose seat map has an AVAILABLE seat, no others.
SearchAgreesWithSeatMap ==
  \A from, to \in ListCities :
    \A days \in {{day} : day \in Days} \cup {Upcoming}, types \in {{t} : t \in Types} \cup {Types} :
      SearchSchedules({from}, {to}, days, types) =
        {k \in AllSchedules(days, types) :
           /\ RouteOf[k] = [departure_city |-> from, arrival_city |-> to]
           /\ \E s \in DOMAIN SeatMap(k) : SeatMap(k)[s] = "AVAILABLE"}
=============================================================================
