---------------------------- MODULE SeatPromise ----------------------------
(***************************************************************************)
(* What the platform promises about seats, without requests, rows or       *)
(* locks: a booking takes all of its seats at once from those nobody owns, *)
(* may be sold once, and gives all of them back at once, for good.         *)
(***************************************************************************)
CONSTANTS Seats, Bookings, None

VARIABLES owner,   \* the booking that has the seat, or None
          phase    \* "none", "held", "sold", "over"

Owned(b) == {s \in Seats : owner[s] = b}

Init == owner = [s \in Seats |-> None] /\ phase = [b \in Bookings |-> "none"]

Hold(b, S) ==
  /\ phase[b] = "none"
  /\ S # {} /\ \A s \in S : owner[s] = None
  /\ owner' = [s \in Seats |-> IF s \in S THEN b ELSE owner[s]]
  /\ phase' = [phase EXCEPT ![b] = "held"]

Sell(b) ==
  /\ phase[b] = "held" /\ Owned(b) # {}
  /\ phase' = [phase EXCEPT ![b] = "sold"]
  /\ UNCHANGED owner

\* A cancellation gives back one booking; an expiry sweep may give back several.
Release(B) ==
  /\ B # {} /\ \A b \in B : phase[b] \in {"held", "sold"}
  /\ owner' = [s \in Seats |-> IF owner[s] \in B THEN None ELSE owner[s]]
  /\ phase' = [b \in Bookings |-> IF b \in B THEN "over" ELSE phase[b]]

Next ==
  \/ \E b \in Bookings, S \in SUBSET Seats : Hold(b, S)
  \/ \E b \in Bookings : Sell(b)
  \/ \E B \in SUBSET Bookings : Release(B)

Spec == Init /\ [][Next]_<<owner, phase>>
=============================================================================
