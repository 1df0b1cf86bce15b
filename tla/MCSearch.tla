------------------------------ MODULE MCSearch ------------------------------
(***************************************************************************)
(* The schedules of MCPlatform with routes, types and days for Search: one *)
(* route both ways, a bus today and a train tomorrow.                      *)
(***************************************************************************)
EXTENDS MCPlatform, Search

CONSTANTS Karachi, Lahore

South == [departure_city |-> Lahore, arrival_city |-> Karachi]
North == [departure_city |-> Karachi, arrival_city |-> Lahore]
BothWays == {South, North}
BusAndTrain == k1 :> "BUS" @@ k2 :> "TRAIN"
TodayAndTomorrow == k1 :> 1 @@ k2 :> 2
OneEachWay == k1 :> South @@ k2 :> North
=============================================================================
