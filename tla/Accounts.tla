------------------------------ MODULE Accounts ------------------------------
(***************************************************************************)
(* backend/app/auth: registration with its verification mail, verifying,   *)
(* login and the rotation of refresh tokens, one action per await that     *)
(* another request can come between.                                       *)
(*                                                                         *)
(* The variables user, link and token are the COMMITTED rows.  A           *)
(* registration's rows are inserted before its mail is sent and committed  *)
(* after it: until then its e-mail and phone are in the unique indexes for *)
(* every other INSERT to wait on, and visible to no SELECT.  is_active and *)
(* the role are left out (no code writes them after the INSERT), and so    *)
(* are passwords and expires_at: a wrong password, a link or a token that  *)
(* has expired is refused, which changes nothing, so the steps below say   *)
(* when a request MAY go on.                                               *)
(***************************************************************************)
EXTENDS FiniteSets

CONSTANTS
  Sessions,   \* how many requests may be in flight
  Users,      \* ids the users table may hand out
  Emails, Phones,
  Tokens,     \* refresh token values; random, so none is drawn twice
  SameToken,  \* whether clients may have two refreshes of one token in flight
  Faults,     \* whether a request may die between two of its steps
  None        \* SQL NULL

ASSUME AccountSwitchAssumption == SameToken \in BOOLEAN /\ Faults \in BOOLEAN
ASSUME AccountNoneAssumption == None \notin Users \cup Emails \cup Phones \cup Tokens

VARIABLES
  user,      \* users: [email, phone, verified], or NoUser
  link,      \* email_verification_tokens, by user: "absent", "open" or "used"
  mailed,    \* the users whose verification mail went out
  token,     \* refresh_tokens: [user, login, revoked], or NoToken; login is history,
             \*   the first token of the rotations this one comes from
  req        \* the request each session is serving

accounts == <<user, link, mailed>>
vars == <<accounts, token, req>>

-----------------------------------------------------------------------------
NoUser == [email |-> None, phone |-> None, verified |-> FALSE]
UserRow == {NoUser} \cup [email : Emails, phone : Phones \cup {None}, verified : BOOLEAN]
LinkStatus == {"absent", "open", "used"}
NoToken == [user |-> None, login |-> None, revoked |-> FALSE]
TokenRow == {NoToken} \cup [user : Users, login : Tokens, revoked : BOOLEAN]

\* Where a request can be suspended, named for what it does next.
Points == {"idle", "register_email", "register_phone", "register_mail", "register_commit",
           "verify_commit", "rotate_revoke", "rotate_commit"}

Request == [pc : Points, u : Users \cup {None}, email : Emails \cup {None},
            phone : Phones \cup {None}, t : Tokens \cup {None}, new : Tokens \cup {None}]

Idle == [pc |-> "idle", u |-> None, email |-> None, phone |-> None, t |-> None,
         new |-> None]

Init ==
  /\ user = [u \in Users |-> NoUser]
  /\ link = [u \in Users |-> "absent"]
  /\ mailed = {}
  /\ token = [t \in Tokens |-> NoToken]
  /\ req = [c \in Sessions |-> Idle]

At(c, point) == req[c].pc = point
GoTo(c, point) == req' = [req EXCEPT ![c].pc = point]
Finish(c) == req' = [req EXCEPT ![c] = Idle]

Registered(u) == user[u] # NoUser
Live(t) == token[t] # NoToken /\ ~token[t].revoked

-----------------------------------------------------------------------------
(* register_user *)

\* SELECT ... WHERE email: only the e-mail is looked up, and only committed rows are seen.
RegisterBegin(c) ==
  \E u \in Users, e \in Emails, p \in Phones \cup {None} :
    /\ At(c, "idle")
    /\ ~Registered(u) /\ u \notin mailed
    /\ \A d \in Sessions : req[d].u # u
    /\ \A v \in Users : user[v].email # e
    /\ req' = [req EXCEPT ![c] = [Idle EXCEPT !.pc = "register_email", !.u = u,
                                              !.email = e, !.phone = p]]
    /\ UNCHANGED <<accounts, token>>

\* Whose uncommitted entries the unique indexes on e-mail and phone hold.
HoldsEmail(d) == req[d].pc \in {"register_phone", "register_mail", "register_commit"}
HoldsPhone(d) == req[d].pc \in {"register_mail", "register_commit"}

\* INSERT INTO users: the entry in the index on e-mail.  It waits for an uncommitted one.
IndexEmail(c) ==
  /\ At(c, "register_email")
  /\ \A d \in Sessions \ {c} : HoldsEmail(d) => req[d].email # req[c].email
  /\ \A v \in Users : user[v].email # req[c].email
  /\ GoTo(c, "register_phone")
  /\ UNCHANGED <<accounts, token>>

IndexPhone_NotUnique(c) ==
  /\ At(c, "register_phone")
  /\ GoTo(c, "register_mail")
  /\ UNCHANGED <<accounts, token>>

\* ... then, in the order of the indexes' creation, the one on phone, where NULL is equal
\* to nothing; then the link's row, which clashes with nothing.
IndexPhone(c) ==
  /\ At(c, "register_phone")
  /\ req[c].phone # None =>
       /\ \A d \in Sessions \ {c} : HoldsPhone(d) => req[d].phone # req[c].phone
       /\ \A v \in Users : user[v].phone # req[c].phone
  /\ GoTo(c, "register_mail")
  /\ UNCHANGED <<accounts, token>>

RegisterDuplicate_Retries(c) ==
  /\ \E v \in Users :
       \/ At(c, "register_email") /\ user[v].email = req[c].email
       \/ At(c, "register_phone") /\ req[c].phone # None /\ user[v].phone = req[c].phone
  /\ GoTo(c, "register_email")
  /\ UNCHANGED <<accounts, token>>

\* An entry of a committed row is there: an IntegrityError nothing catches, rolled back, 500.
RegisterDuplicate(c) ==
  /\ \E v \in Users :
       \/ At(c, "register_email") /\ user[v].email = req[c].email
       \/ At(c, "register_phone") /\ req[c].phone # None /\ user[v].phone = req[c].phone
  /\ Finish(c)
  /\ UNCHANGED <<accounts, token>>

SendMail_FailureSwallowed(c) ==
  /\ At(c, "register_mail")
  /\ \E sent \in SUBSET {req[c].u} : mailed' = mailed \cup sent
  /\ GoTo(c, "register_commit")
  /\ UNCHANGED <<user, link, token>>

\* The mail with the link goes out before the commit of the user it is for.
SendMail(c) ==
  /\ At(c, "register_mail")
  /\ mailed' = mailed \cup {req[c].u}
  /\ GoTo(c, "register_commit")
  /\ UNCHANGED <<user, link, token>>

RegisterCommit_WrongStatus(c) ==
  LET r == req[c] IN
  /\ At(c, "register_commit")
  /\ user' = [user EXCEPT ![r.u] = [email |-> r.email, phone |-> r.phone, verified |-> FALSE]]
  /\ link' = [link EXCEPT ![r.u] = "unused"]
  /\ Finish(c)
  /\ UNCHANGED <<mailed, token>>

RegisterCommit(c) ==
  LET r == req[c] IN
  /\ At(c, "register_commit")
  /\ user' = [user EXCEPT ![r.u] = [email |-> r.email, phone |-> r.phone, verified |-> FALSE]]
  /\ link' = [link EXCEPT ![r.u] = "open"]
  /\ Finish(c)
  /\ UNCHANGED <<mailed, token>>

-----------------------------------------------------------------------------
(* verify_email *)

\* The link in the mail is followed: it must be there and unused (and in time).
VerifyBegin(c) ==
  \E u \in mailed :
    /\ At(c, "idle")
    /\ link[u] = "open"
    /\ req' = [req EXCEPT ![c] = [Idle EXCEPT !.pc = "verify_commit", !.u = u]]
    /\ UNCHANGED <<accounts, token>>

VerifyCommit_LinkStaysOpen(c) ==
  /\ At(c, "verify_commit")
  /\ user' = [user EXCEPT ![req[c].u].verified = TRUE]
  /\ Finish(c)
  /\ UNCHANGED <<link, mailed, token>>

\* User and link are written in one commit; a second visit that came in between writes
\* the same again.
VerifyCommit(c) ==
  /\ At(c, "verify_commit")
  /\ user' = [user EXCEPT ![req[c].u].verified = TRUE]
  /\ link' = [link EXCEPT ![req[c].u] = "used"]
  /\ Finish(c)
  /\ UNCHANGED <<mailed, token>>

-----------------------------------------------------------------------------
(* authenticate_user, issue_tokens, rotate_refresh_token *)

\* create_refresh_token_value: a value no row has and no running rotation is about to issue.
Fresh(t) == token[t] = NoToken /\ \A d \in Sessions : req[d].new # t

\* A login: nothing it reads can change before its commit, so it is one step.  An account
\* need not be verified.
Login(u, t) ==
  /\ Registered(u)
  /\ Fresh(t)
  /\ token' = [token EXCEPT ![t] = [user |-> u, login |-> t, revoked |-> FALSE]]
  /\ UNCHANGED <<accounts, req>>

RotateBegin_NotRevokedDropped(c) ==
  \E t \in Tokens, new \in Tokens :
    /\ At(c, "idle")
    /\ token[t] # NoToken
    /\ SameToken \/ \A d \in Sessions : req[d].t # t
    /\ Fresh(new)
    /\ req' = [req EXCEPT ![c] = [Idle EXCEPT !.pc = "rotate_revoke", !.t = t, !.new = new]]
    /\ UNCHANGED <<accounts, token>>

\* SELECT of every row not revoked, the one whose hash matches (and in time).
\* The new value is drawn here and not at its INSERT: it is random, so the moment does not matter.
RotateBegin(c) ==
  \E t \in Tokens, new \in Tokens :
    /\ At(c, "idle")
    /\ Live(t)
    /\ SameToken \/ \A d \in Sessions : req[d].t # t
    /\ Fresh(new)
    /\ req' = [req EXCEPT ![c] = [Idle EXCEPT !.pc = "rotate_revoke", !.t = t, !.new = new]]
    /\ UNCHANGED <<accounts, token>>

RotateRevoke_Commits(c) ==
  /\ At(c, "rotate_revoke")
  /\ token' = [token EXCEPT ![req[c].t].revoked = TRUE]
  /\ GoTo(c, "rotate_commit")
  /\ UNCHANGED accounts

\* The flush of revoked_at takes the row's lock.  Its WHERE names the id only: it matches
\* whatever another rotation committed meanwhile.
RotateRevoke(c) ==
  /\ At(c, "rotate_revoke")
  /\ \A d \in Sessions \ {c} : At(d, "rotate_commit") => req[d].t # req[c].t
  /\ GoTo(c, "rotate_commit")
  /\ UNCHANGED <<accounts, token>>

\* issue_tokens commits the new row and the old one's revocation together.
RotateCommit(c) ==
  LET old == req[c].t IN
  /\ At(c, "rotate_commit")
  /\ token' = [token EXCEPT ![old].revoked = TRUE, ![req[c].new] = [token[old] EXCEPT !.revoked = FALSE]]
  /\ Finish(c)
  /\ UNCHANGED accounts

-----------------------------------------------------------------------------
\* The request dies (client gone, mail backend down, process killed): its uncommitted rows
\* are rolled back, a mail it sent is not.
Abort(c) ==
  /\ Faults
  /\ ~At(c, "idle")
  /\ Finish(c)
  /\ UNCHANGED <<accounts, token>>

Register(c) == \/ IndexEmail(c) \/ IndexPhone(c) \/ RegisterDuplicate(c)
               \/ SendMail(c) \/ RegisterCommit(c)
Rotate(c) == RotateRevoke(c) \/ RotateCommit(c)
Serve(c) == Register(c) \/ VerifyCommit(c) \/ Rotate(c)

Next ==
  \/ \E c \in Sessions : \/ RegisterBegin(c) \/ VerifyBegin(c) \/ RotateBegin(c)
                         \/ Serve(c) \/ Abort(c)
  \/ \E u \in Users, t \in Tokens : Login(u, t)

Spec == Init /\ [][Next]_vars

\* A request that can go on again and again does go on; an INSERT or UPDATE that waits is
\* woken when the row it waits for is committed or rolled back.
FairSpec == Spec /\ \A c \in Sessions : SF_vars(Serve(c))
-----------------------------------------------------------------------------
\* Every variable keeps to its type.
TypeOK ==
  /\ user \in [Users -> UserRow]
  /\ link \in [Users -> LinkStatus]
  /\ mailed \subseteq Users
  /\ token \in [Tokens -> TokenRow]
  /\ req \in [Sessions -> Request]

\* One account per address and per phone, although two registrations may both find the
\* address free, and none ever looks for the phone: the unique indexes decide.
OneAccountPerAddress ==
  \A u, v \in Users : u # v /\ Registered(u) /\ Registered(v) =>
    user[u].email # user[v].email /\ (user[u].phone # None => user[u].phone # user[v].phone)

\* No account is cut off from its verification: its link was mailed before it was there,
\* for no operation mails it again.
RegisteredWasMailed == \A u \in Users : Registered(u) => u \in mailed

\* An account is verified exactly by its link being used up, whoever follows the link how
\* often and at once.
VerifiedByLink == \A u \in Users : user[u].verified <=> link[u] = "used"

\* A login keeps one live refresh token through rotations, deaths and answers that got lost:
\* no step revokes the old token without issuing the new one, or issues a second one.
OneTokenPerLogin ==
  \A l \in Tokens : token[l] # NoToken =>
    \E t \in Tokens : /\ Live(t) /\ token[t].login = token[l].login
                      /\ \A s \in Tokens : Live(s) /\ token[s].login = token[l].login => s = t

\* Every request ends: an INSERT may wait for one that waits itself, but only for the entry on
\* e-mail, which every registration makes first, so never in a circle.
AccountRequestsEnd == \A c \in Sessions : ~At(c, "idle") ~> At(c, "idle")

\* The promise, read off the rows: the live token of each login.
CurrentOf ==
  [l \in Tokens |-> IF token[l].login # l THEN None
                    ELSE CHOOSE t \in Tokens : Live(t) /\ token[t].login = l]

Promise == INSTANCE LoginPromise
  WITH current <- CurrentOf, issued <- {t \in Tokens : token[t] # NoToken}

\* The accounts implement LoginPromise.
KeepsLogins == Promise!Spec
=============================================================================
