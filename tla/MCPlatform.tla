----------------------------- MODULE MCPlatform -----------------------------
(***************************************************************************)
(* Small instances of Platform for TLC.                                    *)
(***************************************************************************)
EXTENDS Platform, TLC

CONSTANTS c1, c2, c3, b1, b2, b3, s1, s2, s3, k1, k2

OneSchedule == s1 :> k1 @@ s2 :> k1 @@ s3 :> k1
OneSeat == s1 :> k1
TwoSeats == s1 :> k1 @@ s2 :> k1
TwoSchedules == s1 :> k1 @@ s2 :> k1 @@ s3 :> k2

\* Sessions, booking ids and the seats of one schedule are interchangeable.
Interchangeable == Permutations(Sessions) \cup Permutations(Bookings) \cup Permutations(Seats)
Requests == Permutations(Sessions) \cup Permutations(Bookings)
=============================================================================
