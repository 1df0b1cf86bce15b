---------------------------- MODULE SearchProofs ----------------------------
(***************************************************************************)
(* Search goes by the counter, the customer by the seat map: with an exact *)
(* counter they agree.                                                     *)
(***************************************************************************)
EXTENDS Search, CounterProofs

\* A seat of k is free if the counter says that there is one.
LEMMA CountedSeats ==
  ASSUME CounterExact, NEW k \in Schedules
  PROVE  available[k] >= 1 <=> \E s \in DOMAIN SeatMap(k) : SeatMap(k)[s] = "AVAILABLE"
<1>1. Free(k) \in SUBSET Seats /\ available[k] = Cardinality(Free(k))
  BY DEF CounterExact, Free
<1>2. Cardinality(Free(k)) \in Nat /\ (Cardinality(Free(k)) = 0 <=> Free(k) = {})
  <2>1. IsFiniteSet(Free(k))
    BY <1>1, FiniteAssumption, FS_Subset
  <2> QED BY <2>1, FS_CardinalityType, FS_EmptySet
<1>3. Free(k) # {} <=> \E s \in DOMAIN SeatMap(k) : SeatMap(k)[s] = "AVAILABLE"
  BY DEF Free, SeatMap
<1>4. available[k] >= 1 <=> Free(k) # {}
  <2> HIDE DEF Free
  <2> QED BY <1>1, <1>2
<1> QED BY <1>3, <1>4

LEMMA SearchGoesByCounter == CounterExact => SearchAgreesWithSeatMap
<1> DEFINE Offered(from, to, days, types) ==
             {k \in AllSchedules(days, types) :
                /\ RouteOf[k] = [departure_city |-> from, arrival_city |-> to]
                /\ \E s \in DOMAIN SeatMap(k) : SeatMap(k)[s] = "AVAILABLE"}
<1>1. ASSUME CounterExact, NEW from \in ListCities, NEW to \in ListCities,
             NEW days \in {{day} : day \in Days} \cup {Upcoming},
             NEW types \in {{t} : t \in Types} \cup {Types}
      PROVE  SearchSchedules({from}, {to}, days, types) = Offered(from, to, days, types)
  <2>1. ASSUME NEW k \in Bookable
        PROVE  /\ available[k] >= 1 <=> \E s \in DOMAIN SeatMap(k) : SeatMap(k)[s] = "AVAILABLE"
               /\ RouteOf[k] = [departure_city |-> from, arrival_city |-> to]
                    <=> RouteOf[k].departure_city \in {from} /\ RouteOf[k].arrival_city \in {to}
    <3>1. k \in Schedules
      BY BookableAssumption
    <3>2. RouteOf[k] = [departure_city |-> RouteOf[k].departure_city,
                        arrival_city |-> RouteOf[k].arrival_city]
      BY <3>1, RouteAssumption
    <3> QED BY <1>1, <3>1, <3>2, CountedSeats
  <2>2. ASSUME NEW k
        PROVE  k \in SearchSchedules({from}, {to}, days, types) <=> k \in Offered(from, to, days, types)
    <3>1. CASE k \in Bookable
      BY <2>1, <3>1 DEF SearchSchedules, AllSchedules
    <3>2. CASE k \notin Bookable
      BY <3>2 DEF SearchSchedules, AllSchedules
    <3> QED BY <3>1, <3>2
  <2> QED BY <2>2
<1> QED BY <1>1 DEF SearchAgreesWithSeatMap

\* If neither clients nor sweeps ever work on one schedule at once, search hides no schedule with
\* an AVAILABLE seat and offers none without.
THEOREM SearchHidesNoSeat ==
  ASSUME Overlap = "other_schedule", Sweeps # "any", ~Redirects
  PROVE  Spec => []SearchAgreesWithSeatMap
BY CounterStaysExact, SearchGoesByCounter, PTL
=============================================================================
