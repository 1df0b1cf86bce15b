---------------------------- MODULE LoginPromise ----------------------------
(***************************************************************************)
(* What the accounts promise about logins, without requests, transactions  *)
(* or row locks: an open login has one current refresh token at any time,  *)
(* renewing it replaces that token by one never issued before, and only a  *)
(* token's expiry, which nobody writes, ever ends it.                      *)
(***************************************************************************)
CONSTANTS Tokens, None

VARIABLES current,  \* by login (named for its first token): the token it has now
          issued    \* every token issued so far

Init == current = [l \in Tokens |-> None] /\ issued = {}

Open(t) ==
  /\ t \notin issued /\ current[t] = None
  /\ current' = [current EXCEPT ![t] = t]
  /\ issued' = issued \cup {t}

Renew(l, t) ==
  /\ current[l] # None
  /\ t \notin issued
  /\ current' = [current EXCEPT ![l] = t]
  /\ issued' = issued \cup {t}

Next == \E t \in Tokens : Open(t) \/ \E l \in Tokens : Renew(l, t)

Spec == Init /\ [][Next]_<<current, issued>>
=============================================================================
