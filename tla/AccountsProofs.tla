--------------------------- MODULE AccountsProofs ---------------------------
(***************************************************************************)
(* Theorems about Accounts, for every value of its constants.              *)
(*                                                                         *)
(* That an address has one account is not inductive: it holds because a    *)
(* registration that has put its e-mail (then its phone) into the unique   *)
(* index keeps every other one out of it until its commit, which is        *)
(* RegistrationInHand.  Likewise a login keeps one live token because the  *)
(* token a rotation replaces is still the login's live one when the        *)
(* rotation commits, which is RotationInHand.                              *)
(***************************************************************************)
EXTENDS Accounts, TLAPS

Registering == {"register_email", "register_phone", "register_mail", "register_commit"}
Rotating == {"rotate_revoke", "rotate_commit"}

\* What a registration has in hand: a user id of its own, and what it has put into the
\* unique indexes is in no committed row and in no other registration's entry.
RegistrationInHand(c) ==
  req[c].pc \in Registering =>
    /\ req[c].u \in Users /\ req[c].email \in Emails /\ ~Registered(req[c].u)
    /\ \A d \in Sessions \ {c} : req[d].u # req[c].u
    /\ HoldsEmail(c) =>
         /\ \A d \in Sessions \ {c} : HoldsEmail(d) => req[d].email # req[c].email
         /\ \A v \in Users : user[v].email # req[c].email
    /\ (HoldsPhone(c) /\ req[c].phone # None) =>
         /\ \A d \in Sessions \ {c} : HoldsPhone(d) => req[d].phone # req[c].phone
         /\ \A v \in Users : user[v].phone # req[c].phone
    /\ At(c, "register_commit") => req[c].u \in mailed

VerificationInHand(c) == At(c, "verify_commit") => req[c].u \in Users /\ Registered(req[c].u)

\* What a rotation has in hand: a token that exists, and a value nobody else will issue.
RotationInHand(c) ==
  req[c].pc \in Rotating =>
    /\ req[c].t \in Tokens /\ req[c].new \in Tokens
    /\ token[req[c].t] # NoToken /\ token[req[c].new] = NoToken
    /\ \A d \in Sessions \ {c} : req[d].new # req[c].new

AccountsInHand ==
  \A c \in Sessions : RegistrationInHand(c) /\ VerificationInHand(c) /\ RotationInHand(c)

\* A user's row and its link's are inserted in one transaction.
LinkOfUser == \A u \in Users : Registered(u) <=> link[u] # "absent"

\* A login is named for its first token, which stays.
LoginRows == \A t \in Tokens : token[t] # NoToken =>
               token[token[t].login] # NoToken /\ token[token[t].login].login = token[t].login

AccountsInv == TypeOK /\ AccountsInHand /\ LinkOfUser /\ OneAccountPerAddress
               /\ RegisteredWasMailed /\ VerifiedByLink /\ LoginRows

-----------------------------------------------------------------------------
\* A row that is there is not the blank one.
LEMMA UserPresent ==
  ASSUME TypeOK, NEW u \in Users
  PROVE  /\ Registered(u) <=> user[u].email # None
         /\ Registered(u) => user[u] \in [email : Emails, phone : Phones \cup {None}, verified : BOOLEAN]
         /\ user[u].verified => Registered(u)
  BY AccountNoneAssumption DEF TypeOK, UserRow, NoUser, Registered

LEMMA TokenPresent ==
  ASSUME TypeOK, NEW t \in Tokens
  PROVE  /\ token[t] # NoToken <=> token[t].login # None
         /\ token[t] # NoToken => token[t] \in [user : Users, login : Tokens, revoked : BOOLEAN]
  BY AccountNoneAssumption DEF TypeOK, TokenRow, NoToken

LEMMA IdleIsRequest == Idle \in Request /\ Idle.pc = "idle" /\ Idle.u = None /\ Idle.new = None /\ Idle.t = None
  BY DEF Idle, Request, Points

LEMMA AccountsInitially == Init => AccountsInv
<1> SUFFICES ASSUME Init PROVE AccountsInv
  OBVIOUS
<1>1. TypeOK
  BY IdleIsRequest DEF Init, TypeOK, UserRow, LinkStatus, TokenRow
<1>2. AccountsInHand
  BY IdleIsRequest DEF Init, AccountsInHand, RegistrationInHand, VerificationInHand, RotationInHand,
     Registering, Rotating, At
<1>3. QED
  BY <1>1, <1>2 DEF Init, AccountsInv, LinkOfUser, OneAccountPerAddress, RegisteredWasMailed,
     VerifiedByLink, LoginRows, Registered, NoUser, NoToken

-----------------------------------------------------------------------------
(* Steps that change only the request                                      *)

\* A request that moves on without writing a row keeps everything else.
LEMMA OnlyRequest ==
  ASSUME AccountsInv, UNCHANGED <<user, link, token>>, mailed \subseteq mailed', mailed' \subseteq Users,
         req' \in [Sessions -> Request], AccountsInHand'
  PROVE  AccountsInv'
  BY DEF AccountsInv, TypeOK, LinkOfUser, OneAccountPerAddress, RegisteredWasMailed, VerifiedByLink,
     LoginRows, Registered, Live

LEMMA FinishKeeps ==
  ASSUME AccountsInv, NEW c \in Sessions, Finish(c), UNCHANGED <<accounts, token>>
  PROVE  AccountsInv'
<1>1. req' \in [Sessions -> Request] /\ req'[c] = Idle /\ \A d \in Sessions \ {c} : req'[d] = req[d]
  BY IdleIsRequest DEF AccountsInv, TypeOK, Finish
<1>2. AccountsInHand'
  <2> SUFFICES ASSUME NEW d \in Sessions
               PROVE  RegistrationInHand(d)' /\ VerificationInHand(d)' /\ RotationInHand(d)'
    BY DEF AccountsInHand
  <2>1. CASE d = c
    BY <1>1, <2>1, IdleIsRequest DEF RegistrationInHand, VerificationInHand, RotationInHand, Registering, Rotating, At
  <2>2. CASE d # c
    BY <1>1, <2>2, IdleIsRequest, AccountNoneAssumption DEF AccountsInv, AccountsInHand, RegistrationInHand, VerificationInHand, RotationInHand,
       Registering, Rotating, At, HoldsEmail, HoldsPhone, Registered, accounts
  <2>3. QED BY <2>1, <2>2
<1>3. QED
  BY <1>1, <1>2, OnlyRequest DEF accounts, AccountsInv, TypeOK

\* One request moves on: what the others have in hand is disturbed neither by the ids it
\* takes up nor by the index entries it adds.
LEMMA OthersInHand ==
  ASSUME AccountsInv, NEW c \in Sessions, NEW r \in Request, req' = [req EXCEPT ![c] = r],
         UNCHANGED <<user, link, token>>, mailed \subseteq mailed', mailed' \subseteq Users,
         r.u # None => r.u = req[c].u \/ Registered(r.u) \/ \A d \in Sessions : req[d].u # r.u,
         r.new # None => r.new = req[c].new \/ \A d \in Sessions : req[d].new # r.new,
         r.pc \in {"register_phone", "register_mail", "register_commit"} =>
           \A d \in Sessions \ {c} : HoldsEmail(d) => req[d].email # r.email,
         r.pc \in {"register_mail", "register_commit"} /\ r.phone # None =>
           \A d \in Sessions \ {c} : HoldsPhone(d) => req[d].phone # r.phone,
         RegistrationInHand(c)', VerificationInHand(c)', RotationInHand(c)'
  PROVE  AccountsInv'
<1>1. req' \in [Sessions -> Request] /\ req'[c] = r /\ \A d \in Sessions \ {c} : req'[d] = req[d]
  BY DEF AccountsInv, TypeOK
<1>2. ASSUME NEW d \in Sessions, d # c
      PROVE  RegistrationInHand(d)' /\ VerificationInHand(d)' /\ RotationInHand(d)'
  <2>1. RegistrationInHand(d) /\ VerificationInHand(d) /\ RotationInHand(d) /\ RegistrationInHand(c) /\ RotationInHand(c)
    BY <1>2 DEF AccountsInv, AccountsInHand
  <2>2. RegistrationInHand(d)'
    <3> SUFFICES ASSUME req[d].pc \in Registering PROVE RegistrationInHand(d)'
      BY <1>1, <1>2 DEF RegistrationInHand
    <3>1. r.u # req[d].u
      BY <1>2, <2>1, AccountNoneAssumption DEF RegistrationInHand, Registered
    <3>2. \A e \in Sessions \ {d} : req'[e].u # req'[d].u
      BY <1>1, <1>2, <2>1, <3>1 DEF RegistrationInHand
    <3>3. HoldsEmail(d) => \A e \in Sessions \ {d} : HoldsEmail(e)' => req'[e].email # req'[d].email
      BY <1>1, <1>2, <2>1 DEF RegistrationInHand, HoldsEmail
    <3>4. HoldsPhone(d) /\ req[d].phone # None =>
            \A e \in Sessions \ {d} : HoldsPhone(e)' => req'[e].phone # req'[d].phone
      BY <1>1, <1>2, <2>1 DEF RegistrationInHand, HoldsPhone
    <3>5. QED
      BY <1>1, <1>2, <2>1, <3>2, <3>3, <3>4 DEF RegistrationInHand, HoldsEmail, HoldsPhone, At, Registered
  <2>3. VerificationInHand(d)'
    BY <1>1, <1>2, <2>1 DEF VerificationInHand, At, Registered
  <2>4. RotationInHand(d)'
    BY <1>1, <1>2, <2>1, AccountNoneAssumption DEF RotationInHand
  <2>5. QED BY <2>2, <2>3, <2>4
<1>3. AccountsInHand'
  BY <1>2 DEF AccountsInHand
<1>4. QED BY <1>1, <1>3, OnlyRequest

\* A request that stays in the same registration, verification or rotation.
LEMMA GoToMoves ==
  ASSUME TypeOK, NEW c \in Sessions, NEW point \in Points, GoTo(c, point)
  PROVE  \E r \in Request : /\ req' = [req EXCEPT ![c] = r] /\ req'[c] = r /\ r.pc = point
                             /\ r.u = req[c].u /\ r.email = req[c].email /\ r.phone = req[c].phone
                             /\ r.t = req[c].t /\ r.new = req[c].new
                             /\ \A d \in Sessions \ {c} : req'[d] = req[d]
<1>1. req[c] \in Request
  BY DEF TypeOK
<1> DEFINE r == [req[c] EXCEPT !.pc = point]
<1>2. /\ r \in Request /\ r.pc = point /\ r.u = req[c].u /\ r.email = req[c].email
      /\ r.phone = req[c].phone /\ r.t = req[c].t /\ r.new = req[c].new
  BY <1>1 DEF Request
<1>3. /\ req' = [req EXCEPT ![c] = r] /\ req'[c] = r
      /\ \A d \in Sessions \ {c} : req'[d] = req[d]
  BY DEF TypeOK, GoTo
<1> HIDE DEF r
<1>4. QED BY <1>2, <1>3

LEMMA RegisterBeginKeeps ==
  ASSUME AccountsInv, NEW c \in Sessions, RegisterBegin(c) PROVE AccountsInv'
<1>1. PICK u \in Users, e \in Emails, p \in Phones \cup {None} :
        /\ ~Registered(u) /\ u \notin mailed /\ \A d \in Sessions : req[d].u # u
        /\ req' = [req EXCEPT ![c] = [Idle EXCEPT !.pc = "register_email", !.u = u, !.email = e, !.phone = p]]
        /\ UNCHANGED <<accounts, token>>
  BY DEF RegisterBegin
<1> DEFINE r == [Idle EXCEPT !.pc = "register_email", !.u = u, !.email = e, !.phone = p]
<1>2. /\ r \in Request /\ r.pc = "register_email" /\ r.u = u /\ r.email = e /\ r.new = None
  BY <1>1 DEF Idle, Request, Points
<1>3. req'[c] = r /\ \A d \in Sessions \ {c} : req'[d] = req[d]
  BY <1>1 DEF AccountsInv, TypeOK
<1> HIDE DEF r
<1>4. RegistrationInHand(c)' /\ VerificationInHand(c)' /\ RotationInHand(c)'
  BY <1>1, <1>2, <1>3 DEF RegistrationInHand, VerificationInHand, RotationInHand, Registering, Rotating,
     HoldsEmail, HoldsPhone, At, Registered, accounts
<1>5. req' = [req EXCEPT ![c] = r] /\ mailed' = mailed /\ mailed \subseteq Users
  BY <1>1 DEF r, accounts, AccountsInv, TypeOK
<1>6. QED
  BY <1>1, <1>2, <1>4, <1>5, OthersInHand DEF accounts

LEMMA IndexEmailKeeps ==
  ASSUME AccountsInv, NEW c \in Sessions, IndexEmail(c) PROVE AccountsInv'
<1>1. PICK r \in Request : /\ req' = [req EXCEPT ![c] = r] /\ req'[c] = r /\ r.pc = "register_phone"
                           /\ r.u = req[c].u /\ r.email = req[c].email /\ r.new = req[c].new
                           /\ \A d \in Sessions \ {c} : req'[d] = req[d]
  BY GoToMoves DEF IndexEmail, Points, AccountsInv
<1>2. RegistrationInHand(c)' /\ VerificationInHand(c)' /\ RotationInHand(c)'
  BY <1>1 DEF AccountsInv, AccountsInHand, IndexEmail, RegistrationInHand, VerificationInHand, RotationInHand,
     Registering, Rotating, HoldsEmail, HoldsPhone, At, Registered, accounts
<1>3. mailed' = mailed /\ mailed \subseteq Users /\ UNCHANGED <<user, link, token>>
  BY DEF IndexEmail, accounts, AccountsInv, TypeOK
<1>4. QED
  BY <1>1, <1>2, <1>3, OthersInHand DEF IndexEmail

LEMMA IndexPhoneKeeps ==
  ASSUME AccountsInv, NEW c \in Sessions, IndexPhone(c) PROVE AccountsInv'
<1>1. PICK r \in Request : /\ req' = [req EXCEPT ![c] = r] /\ req'[c] = r /\ r.pc = "register_mail"
                           /\ r.u = req[c].u /\ r.email = req[c].email /\ r.phone = req[c].phone
                           /\ r.new = req[c].new /\ \A d \in Sessions \ {c} : req'[d] = req[d]
  BY GoToMoves DEF IndexPhone, Points, AccountsInv
<1>2. RegistrationInHand(c)' /\ VerificationInHand(c)' /\ RotationInHand(c)'
  BY <1>1 DEF AccountsInv, AccountsInHand, IndexPhone, RegistrationInHand, VerificationInHand, RotationInHand,
     Registering, Rotating, HoldsEmail, HoldsPhone, At, Registered, accounts
<1>3. mailed' = mailed /\ mailed \subseteq Users /\ UNCHANGED <<user, link, token>>
  BY DEF IndexPhone, accounts, AccountsInv, TypeOK
<1>4. \A d \in Sessions \ {c} : HoldsEmail(d) => req[d].email # r.email
  BY <1>1 DEF AccountsInv, AccountsInHand, RegistrationInHand, IndexPhone, Registering, HoldsEmail, At
<1>5. QED
  BY <1>1, <1>2, <1>3, <1>4, OthersInHand DEF IndexPhone

LEMMA SendMailKeeps ==
  ASSUME AccountsInv, NEW c \in Sessions, SendMail(c) PROVE AccountsInv'
<1>1. PICK r \in Request : /\ req' = [req EXCEPT ![c] = r] /\ req'[c] = r /\ r.pc = "register_commit"
                           /\ r.u = req[c].u /\ r.email = req[c].email /\ r.phone = req[c].phone
                           /\ r.new = req[c].new /\ \A d \in Sessions \ {c} : req'[d] = req[d]
  BY GoToMoves DEF SendMail, Points, AccountsInv
<1>2. RegistrationInHand(c) /\ req[c].u \in Users
  BY DEF AccountsInv, AccountsInHand, RegistrationInHand, SendMail, At, Registering
<1>3. RegistrationInHand(c)' /\ VerificationInHand(c)' /\ RotationInHand(c)'
  BY <1>1, <1>2 DEF SendMail, RegistrationInHand, VerificationInHand, RotationInHand,
     Registering, Rotating, HoldsEmail, HoldsPhone, At, Registered, accounts
<1>4. mailed \subseteq mailed' /\ mailed' \subseteq Users /\ UNCHANGED <<user, link, token>>
  BY <1>2 DEF SendMail, AccountsInv, TypeOK
<1>5. /\ \A d \in Sessions \ {c} : HoldsEmail(d) => req[d].email # r.email
      /\ r.phone # None => \A d \in Sessions \ {c} : HoldsPhone(d) => req[d].phone # r.phone
  BY <1>1, <1>2 DEF RegistrationInHand, SendMail, Registering, HoldsEmail, HoldsPhone, At
<1>6. QED
  BY <1>1, <1>3, <1>4, <1>5, OthersInHand

LEMMA VerifyBeginKeeps ==
  ASSUME AccountsInv, NEW c \in Sessions, VerifyBegin(c) PROVE AccountsInv'
<1>1. PICK u \in mailed : /\ link[u] = "open" /\ UNCHANGED <<accounts, token>>
                          /\ req' = [req EXCEPT ![c] = [Idle EXCEPT !.pc = "verify_commit", !.u = u]]
  BY DEF VerifyBegin
<1> DEFINE r == [Idle EXCEPT !.pc = "verify_commit", !.u = u]
<1>2. u \in Users /\ Registered(u)
  BY <1>1 DEF AccountsInv, TypeOK, LinkOfUser
<1>3. r \in Request /\ r.pc = "verify_commit" /\ r.u = u /\ r.new = None
  BY <1>2 DEF Idle, Request, Points
<1>4. /\ req' = [req EXCEPT ![c] = r] /\ req'[c] = r
      /\ mailed' = mailed /\ mailed \subseteq Users /\ UNCHANGED <<user, link, token>>
  BY <1>1 DEF AccountsInv, TypeOK, accounts
<1> HIDE DEF r
<1>5. RegistrationInHand(c)' /\ VerificationInHand(c)' /\ RotationInHand(c)'
  BY <1>2, <1>3, <1>4 DEF RegistrationInHand, VerificationInHand, RotationInHand, Registering, Rotating, At, Registered
<1>6. QED
  BY <1>2, <1>3, <1>4, <1>5, OthersInHand

LEMMA RotateBeginKeeps ==
  ASSUME AccountsInv, NEW c \in Sessions, RotateBegin(c) PROVE AccountsInv'
<1>1. PICK t \in Tokens, new \in Tokens :
        /\ Live(t) /\ Fresh(new) /\ UNCHANGED <<accounts, token>>
        /\ req' = [req EXCEPT ![c] = [Idle EXCEPT !.pc = "rotate_revoke", !.t = t, !.new = new]]
  BY DEF RotateBegin
<1> DEFINE r == [Idle EXCEPT !.pc = "rotate_revoke", !.t = t, !.new = new]
<1>2. r \in Request /\ r.pc = "rotate_revoke" /\ r.u = None /\ r.t = t /\ r.new = new
  BY DEF Idle, Request, Points
<1>3. /\ req' = [req EXCEPT ![c] = r] /\ req'[c] = r /\ \A d \in Sessions \ {c} : req'[d] = req[d]
      /\ mailed' = mailed /\ mailed \subseteq Users /\ UNCHANGED <<user, link, token>>
  BY <1>1 DEF AccountsInv, TypeOK, accounts
<1> HIDE DEF r
<1>4. RegistrationInHand(c)' /\ VerificationInHand(c)' /\ RotationInHand(c)'
  BY <1>1, <1>2, <1>3 DEF RegistrationInHand, VerificationInHand, RotationInHand, Registering, Rotating, At, Live, Fresh
<1>5. QED
  BY <1>1, <1>2, <1>3, <1>4, OthersInHand DEF Fresh

LEMMA RotateRevokeKeeps ==
  ASSUME AccountsInv, NEW c \in Sessions, RotateRevoke(c) PROVE AccountsInv'
<1>1. PICK r \in Request : /\ req' = [req EXCEPT ![c] = r] /\ req'[c] = r /\ r.pc = "rotate_commit"
                           /\ r.u = req[c].u /\ r.t = req[c].t /\ r.new = req[c].new
                           /\ \A d \in Sessions \ {c} : req'[d] = req[d]
  BY GoToMoves DEF RotateRevoke, Points, AccountsInv
<1>2. RegistrationInHand(c)' /\ VerificationInHand(c)' /\ RotationInHand(c)'
  BY <1>1 DEF AccountsInv, AccountsInHand, RotateRevoke, RegistrationInHand, VerificationInHand, RotationInHand,
     Registering, Rotating, At, accounts
<1>3. mailed' = mailed /\ mailed \subseteq Users /\ UNCHANGED <<user, link, token>>
  BY DEF RotateRevoke, accounts, AccountsInv, TypeOK
<1>4. QED
  BY <1>1, <1>2, <1>3, OthersInHand

-----------------------------------------------------------------------------
(* Steps that write rows                                                   *)

LEMMA FinishEnds ==
  ASSUME TypeOK, NEW c \in Sessions, Finish(c)
  PROVE  /\ req' \in [Sessions -> Request] /\ req'[c] = Idle
         /\ \A d \in Sessions \ {c} : req'[d] = req[d]
  BY IdleIsRequest DEF TypeOK, Finish

LEMMA RegisterCommitKeeps ==
  ASSUME AccountsInv, NEW c \in Sessions, RegisterCommit(c) PROVE AccountsInv'
<1> DEFINE r == req[c]
           new == [email |-> r.email, phone |-> r.phone, verified |-> FALSE]
<1>1. /\ r.u \in Users /\ r.email \in Emails /\ r.phone \in Phones \cup {None} /\ ~Registered(r.u)
      /\ r.u \in mailed /\ RegistrationInHand(c) /\ HoldsEmail(c) /\ HoldsPhone(c) /\ r.pc \in Registering
  BY DEF AccountsInv, AccountsInHand, RegistrationInHand, RegisterCommit, At, Registering, HoldsEmail,
     HoldsPhone, TypeOK, Request
<1>2. /\ user' = [user EXCEPT ![r.u] = new] /\ link' = [link EXCEPT ![r.u] = "open"]
      /\ UNCHANGED <<mailed, token>> /\ Finish(c)
  BY DEF RegisterCommit
<1>3. /\ req' \in [Sessions -> Request] /\ req'[c] = Idle /\ \A d \in Sessions \ {c} : req'[d] = req[d]
  BY <1>2, FinishEnds DEF AccountsInv
<1>4. /\ user'[r.u] = new /\ new # NoUser /\ \A v \in Users \ {r.u} : user'[v] = user[v]
      /\ link'[r.u] = "open" /\ \A v \in Users \ {r.u} : link'[v] = link[v]
  BY <1>1, <1>2, AccountNoneAssumption DEF AccountsInv, TypeOK, NoUser
<1>5. TypeOK'
  BY <1>1, <1>2, <1>3 DEF AccountsInv, TypeOK, UserRow, LinkStatus
<1>6. AccountsInHand'
  <2> SUFFICES ASSUME NEW d \in Sessions
               PROVE  RegistrationInHand(d)' /\ VerificationInHand(d)' /\ RotationInHand(d)'
    BY DEF AccountsInHand
  <2>1. CASE d = c
    BY <1>3, <2>1, IdleIsRequest DEF RegistrationInHand, VerificationInHand, RotationInHand, Registering, Rotating, At
  <2>2. CASE d # c
    <3>1. RegistrationInHand(d) /\ VerificationInHand(d) /\ RotationInHand(d)
      BY DEF AccountsInv, AccountsInHand
    <3>2. VerificationInHand(d)' /\ RotationInHand(d)'
      BY <1>2, <1>3, <1>4, <2>2, <3>1, IdleIsRequest, AccountNoneAssumption
         DEF VerificationInHand, RotationInHand, At, Registered
    <3>3. RegistrationInHand(d)'
      <4> SUFFICES ASSUME req[d].pc \in Registering PROVE RegistrationInHand(d)'
        BY <1>3, <2>2 DEF RegistrationInHand
      <4>1. req[d].u # r.u /\ (HoldsEmail(d) => req[d].email # r.email)
            /\ (HoldsPhone(d) /\ req[d].phone # None => req[d].phone # r.phone)
        BY <1>1, <2>2, <3>1 DEF RegistrationInHand
      <4>2. \A e \in Sessions \ {d} : req'[e].u # req'[d].u
        BY <1>3, <2>2, <3>1, IdleIsRequest, AccountNoneAssumption DEF RegistrationInHand
      <4>3. HoldsEmail(d)' => /\ \A e \in Sessions \ {d} : HoldsEmail(e)' => req'[e].email # req'[d].email
                             /\ \A v \in Users : user'[v].email # req'[d].email
        BY <1>3, <1>4, <2>2, <3>1, <4>1, IdleIsRequest DEF RegistrationInHand, HoldsEmail
      <4>4. HoldsPhone(d)' /\ req'[d].phone # None =>
              /\ \A e \in Sessions \ {d} : HoldsPhone(e)' => req'[e].phone # req'[d].phone
              /\ \A v \in Users : user'[v].phone # req'[d].phone
        BY <1>3, <1>4, <2>2, <3>1, <4>1, IdleIsRequest DEF RegistrationInHand, HoldsPhone
      <4>5. QED
        BY <1>2, <1>3, <1>4, <2>2, <3>1, <4>1, <4>2, <4>3, <4>4 DEF RegistrationInHand, At, Registered
    <3>4. QED BY <3>2, <3>3
  <2>3. QED BY <2>1, <2>2
<1>7. OneAccountPerAddress'
  BY <1>1, <1>4 DEF AccountsInv, OneAccountPerAddress, RegistrationInHand, Registered
<1>8. LinkOfUser' /\ RegisteredWasMailed' /\ VerifiedByLink' /\ LoginRows'
  BY <1>1, <1>2, <1>4 DEF AccountsInv, LinkOfUser, RegisteredWasMailed, VerifiedByLink, LoginRows, Registered
<1>9. QED
  BY <1>5, <1>6, <1>7, <1>8 DEF AccountsInv

LEMMA VerifyCommitKeeps ==
  ASSUME AccountsInv, NEW c \in Sessions, VerifyCommit(c) PROVE AccountsInv'
<1> DEFINE u == req[c].u
<1>1. /\ u \in Users /\ Registered(u)
      /\ user' = [user EXCEPT ![u].verified = TRUE] /\ link' = [link EXCEPT ![u] = "used"]
      /\ UNCHANGED <<mailed, token>> /\ Finish(c)
  BY DEF VerifyCommit, AccountsInv, AccountsInHand, VerificationInHand
<1>2. /\ req' \in [Sessions -> Request] /\ req'[c] = Idle /\ \A d \in Sessions \ {c} : req'[d] = req[d]
  BY <1>1, FinishEnds DEF AccountsInv
<1>3. /\ user' \in [Users -> UserRow] /\ user'[u].verified
      /\ \A v \in Users : /\ user'[v].email = user[v].email /\ user'[v].phone = user[v].phone
                          /\ v # u => user'[v] = user[v]
  <2>1. user[u] \in [email : Emails, phone : Phones \cup {None}, verified : BOOLEAN]
    BY <1>1, UserPresent DEF AccountsInv
  <2>2. QED
    BY <1>1, <2>1 DEF AccountsInv, TypeOK, UserRow
<1>4. TypeOK' /\ link'[u] = "used" /\ \A v \in Users \ {u} : link'[v] = link[v]
  BY <1>1, <1>2, <1>3 DEF AccountsInv, TypeOK, LinkStatus
<1>5. \A v \in Users : Registered(v)' <=> Registered(v)
  <2> SUFFICES ASSUME NEW v \in Users PROVE user'[v] # NoUser <=> user[v] # NoUser
    BY DEF Registered
  <2>1. \A row \in UserRow : row # NoUser <=> row.email # None
    BY AccountNoneAssumption DEF UserRow, NoUser
  <2>2. user[v] \in UserRow /\ user'[v] \in UserRow /\ user'[v].email = user[v].email
    BY <1>3 DEF AccountsInv, TypeOK
  <2>3. QED BY <2>1, <2>2
<1>6. AccountsInHand'
  <2> SUFFICES ASSUME NEW d \in Sessions
               PROVE  RegistrationInHand(d)' /\ VerificationInHand(d)' /\ RotationInHand(d)'
    BY DEF AccountsInHand
  <2>1. CASE d = c
    BY <1>2, <2>1, IdleIsRequest DEF RegistrationInHand, VerificationInHand, RotationInHand, Registering, Rotating, At
  <2>2. CASE d # c
    <3>1. RegistrationInHand(d) /\ VerificationInHand(d) /\ RotationInHand(d)
      BY DEF AccountsInv, AccountsInHand
    <3>2. VerificationInHand(d)' /\ RotationInHand(d)'
      BY <1>1, <1>2, <1>5, <2>2, <3>1, IdleIsRequest, AccountNoneAssumption
         DEF VerificationInHand, RotationInHand, At
    <3>3. RegistrationInHand(d)'
      BY <1>1, <1>2, <1>3, <1>5, <2>2, <3>1, IdleIsRequest, AccountNoneAssumption
         DEF RegistrationInHand, Registering, HoldsEmail, HoldsPhone, At
    <3>4. QED BY <3>2, <3>3
  <2>3. QED BY <2>1, <2>2
<1>7. OneAccountPerAddress' /\ LinkOfUser' /\ RegisteredWasMailed'
  BY <1>1, <1>3, <1>4, <1>5 DEF AccountsInv, OneAccountPerAddress, LinkOfUser, RegisteredWasMailed
<1>8. VerifiedByLink' /\ LoginRows'
  BY <1>1, <1>3, <1>4 DEF AccountsInv, VerifiedByLink, LoginRows
<1>9. QED
  BY <1>4, <1>6, <1>7, <1>8 DEF AccountsInv

LEMMA LoginKeeps ==
  ASSUME AccountsInv, NEW u \in Users, NEW t \in Tokens, Login(u, t) PROVE AccountsInv'
<1> DEFINE row == [user |-> u, login |-> t, revoked |-> FALSE]
<1>1. /\ token[t] = NoToken /\ \A d \in Sessions : req[d].new # t
      /\ token' = [token EXCEPT ![t] = row] /\ UNCHANGED <<user, link, mailed, req>>
  BY DEF Login, Fresh, accounts
<1>2. /\ token'[t] = row /\ row # NoToken /\ \A s \in Tokens \ {t} : token'[s] = token[s]
      /\ token' \in [Tokens -> TokenRow]
  BY <1>1, AccountNoneAssumption DEF AccountsInv, TypeOK, TokenRow, NoToken
<1>3. TypeOK'
  BY <1>1, <1>2 DEF AccountsInv, TypeOK
<1>4. AccountsInHand'
  BY <1>1, <1>2 DEF AccountsInv, AccountsInHand, RegistrationInHand, VerificationInHand, RotationInHand,
     HoldsEmail, HoldsPhone, At, Registered
<1>5. LoginRows'
  <2> SUFFICES ASSUME NEW s \in Tokens, token'[s] # NoToken
               PROVE  token'[token'[s].login] # NoToken /\ token'[token'[s].login].login = token'[s].login
    BY DEF LoginRows
  <2>1. CASE s = t
    BY <1>2, <2>1
  <2>2. CASE s # t
    <3>1. token'[s] = token[s] /\ token[s].login \in Tokens
      BY <1>2, <2>2, TokenPresent DEF AccountsInv
    <3>2. token[token[s].login] # NoToken /\ token[token[s].login].login = token[s].login
      BY <3>1 DEF AccountsInv, LoginRows
    <3>3. QED BY <1>1, <1>2, <3>1, <3>2
  <2>3. QED BY <2>1, <2>2
<1>6. QED
  BY <1>1, <1>3, <1>4, <1>5 DEF AccountsInv, LinkOfUser, OneAccountPerAddress, RegisteredWasMailed,
     VerifiedByLink, Registered

\* What RotateCommit writes: the old row revoked, its successor as it was, nothing else.
LEMMA RotationWrites ==
  ASSUME AccountsInv, NEW c \in Sessions, RotateCommit(c)
  PROVE  LET old == req[c].t  new == req[c].new IN
         /\ old \in Tokens /\ new \in Tokens /\ old # new
         /\ token[old] \in [user : Users, login : Tokens, revoked : BOOLEAN] /\ token[new] = NoToken
         /\ token'[old] = [token[old] EXCEPT !.revoked = TRUE]
         /\ token'[new] = [token[old] EXCEPT !.revoked = FALSE]
         /\ \A s \in Tokens \ {old, new} : token'[s] = token[s]
         /\ token' \in [Tokens -> TokenRow]
         /\ \A d \in Sessions \ {c} : req[d].new # new
         /\ req' \in [Sessions -> Request] /\ req'[c] = Idle
         /\ \A d \in Sessions \ {c} : req'[d] = req[d]
         /\ UNCHANGED <<user, link, mailed>>
<1> DEFINE old == req[c].t  new == req[c].new
<1>1. /\ old \in Tokens /\ new \in Tokens /\ token[old] # NoToken /\ token[new] = NoToken
      /\ \A d \in Sessions \ {c} : req[d].new # new
  BY DEF RotateCommit, AccountsInv, AccountsInHand, RotationInHand, At, Rotating
<1>2. token[old] \in [user : Users, login : Tokens, revoked : BOOLEAN]
  BY <1>1, TokenPresent DEF AccountsInv
<1>3. token' = [token EXCEPT ![old].revoked = TRUE, ![new] = [token[old] EXCEPT !.revoked = FALSE]]
      /\ UNCHANGED <<user, link, mailed>> /\ Finish(c)
  BY DEF RotateCommit, accounts
<1>4. /\ token'[old] = [token[old] EXCEPT !.revoked = TRUE]
      /\ token'[new] = [token[old] EXCEPT !.revoked = FALSE]
      /\ \A s \in Tokens \ {old, new} : token'[s] = token[s]
      /\ token' \in [Tokens -> TokenRow]
  BY <1>1, <1>2, <1>3 DEF AccountsInv, TypeOK, TokenRow
<1>5. req' \in [Sessions -> Request] /\ req'[c] = Idle /\ \A d \in Sessions \ {c} : req'[d] = req[d]
  BY <1>3, FinishEnds DEF AccountsInv
<1> HIDE DEF old, new
<1>6. QED
  BY <1>1, <1>2, <1>3, <1>4, <1>5 DEF old, new

LEMMA RotateCommitKeeps ==
  ASSUME AccountsInv, NEW c \in Sessions, RotateCommit(c) PROVE AccountsInv'
<1> DEFINE old == req[c].t  new == req[c].new
<1>1. /\ old \in Tokens /\ new \in Tokens /\ old # new
      /\ token[old] \in [user : Users, login : Tokens, revoked : BOOLEAN] /\ token[new] = NoToken
      /\ token'[old] = [token[old] EXCEPT !.revoked = TRUE]
      /\ token'[new] = [token[old] EXCEPT !.revoked = FALSE]
      /\ \A s \in Tokens \ {old, new} : token'[s] = token[s]
      /\ token' \in [Tokens -> TokenRow]
      /\ \A d \in Sessions \ {c} : req[d].new # new
      /\ req' \in [Sessions -> Request] /\ req'[c] = Idle
      /\ \A d \in Sessions \ {c} : req'[d] = req[d]
      /\ UNCHANGED <<user, link, mailed>>
  BY RotationWrites
<1> HIDE DEF old, new
<1>2. TypeOK'
  BY <1>1 DEF AccountsInv, TypeOK
<1>3. \A s \in Tokens : /\ token'[s].login = IF s = new THEN token[old].login ELSE token[s].login
                        /\ token'[s] # NoToken <=> (s = new \/ token[s] # NoToken)
  BY <1>1, <1>2, TokenPresent, AccountNoneAssumption DEF NoToken, AccountsInv
<1>4. AccountsInHand'
  <2> SUFFICES ASSUME NEW d \in Sessions
               PROVE  RegistrationInHand(d)' /\ VerificationInHand(d)' /\ RotationInHand(d)'
    BY DEF AccountsInHand
  <2>1. CASE d = c
    BY <1>1, <2>1, IdleIsRequest DEF RegistrationInHand, VerificationInHand, RotationInHand, Registering, Rotating, At
  <2>2. CASE d # c
    <3>1. RegistrationInHand(d) /\ VerificationInHand(d) /\ RotationInHand(d)
      BY DEF AccountsInv, AccountsInHand
    <3>2. RegistrationInHand(d)' /\ VerificationInHand(d)'
      BY <1>1, <2>2, <3>1, IdleIsRequest, AccountNoneAssumption
         DEF RegistrationInHand, VerificationInHand, Registering, HoldsEmail, HoldsPhone, At, Registered
    <3>3. RotationInHand(d)'
      BY <1>1, <1>3, <2>2, <3>1, IdleIsRequest, AccountNoneAssumption DEF RotationInHand
    <3>4. QED BY <3>2, <3>3
  <2>3. QED BY <2>1, <2>2
<1>5. LoginRows'
  <2> SUFFICES ASSUME NEW s \in Tokens, token'[s] # NoToken
               PROVE  token'[token'[s].login] # NoToken /\ token'[token'[s].login].login = token'[s].login
    BY DEF LoginRows
  <2>1. PICK r \in Tokens : token[r] # NoToken /\ token'[s].login = token[r].login
    BY <1>1, <1>3, TokenPresent, AccountNoneAssumption DEF AccountsInv, NoToken
  <2>2. /\ token[r].login \in Tokens /\ token[token[r].login] # NoToken
        /\ token[token[r].login].login = token[r].login
    BY <2>1, TokenPresent DEF AccountsInv, LoginRows
  <2>3. QED
    BY <1>1, <1>3, <2>1, <2>2
<1>6. QED
  BY <1>1, <1>2, <1>4, <1>5 DEF AccountsInv, LinkOfUser, OneAccountPerAddress, RegisteredWasMailed,
     VerifiedByLink, Registered

-----------------------------------------------------------------------------
LEMMA AccountsStep == AccountsInv /\ [Next]_vars => AccountsInv'
<1> SUFFICES ASSUME AccountsInv, [Next]_vars PROVE AccountsInv'
  OBVIOUS
<1>1. CASE UNCHANGED vars
  BY <1>1 DEF vars, accounts, AccountsInv, TypeOK, AccountsInHand, RegistrationInHand, VerificationInHand,
     RotationInHand, LinkOfUser, OneAccountPerAddress, RegisteredWasMailed, VerifiedByLink, LoginRows,
     HoldsEmail, HoldsPhone, At, Registered
<1>2. ASSUME NEW c \in Sessions, RegisterBegin(c) \/ VerifyBegin(c) \/ RotateBegin(c) PROVE AccountsInv'
  BY <1>2, RegisterBeginKeeps, VerifyBeginKeeps, RotateBeginKeeps
<1>3. ASSUME NEW c \in Sessions, IndexEmail(c) \/ IndexPhone(c) \/ SendMail(c) \/ RegisterCommit(c) PROVE AccountsInv'
  BY <1>3, IndexEmailKeeps, IndexPhoneKeeps, SendMailKeeps, RegisterCommitKeeps
<1>4. ASSUME NEW c \in Sessions, RegisterDuplicate(c) \/ Abort(c) PROVE AccountsInv'
  BY <1>4, FinishKeeps DEF RegisterDuplicate, Abort
<1>5. ASSUME NEW c \in Sessions, VerifyCommit(c) \/ RotateRevoke(c) \/ RotateCommit(c) PROVE AccountsInv'
  BY <1>5, VerifyCommitKeeps, RotateRevokeKeeps, RotateCommitKeeps
<1>6. ASSUME NEW u \in Users, NEW t \in Tokens, Login(u, t) PROVE AccountsInv'
  BY <1>6, LoginKeeps
<1>7. QED
  BY <1>1, <1>2, <1>3, <1>4, <1>5, <1>6 DEF Next, Serve, Register, Rotate

LEMMA AccountsAlways == Spec => []AccountsInv
  BY AccountsInitially, AccountsStep, PTL DEF Spec

\* Every variable keeps to its type, however many requests run at once and wherever they die.
THEOREM AccountTypes == Spec => []TypeOK
<1>1. AccountsInv => TypeOK
  BY DEF AccountsInv
<1>2. QED
  BY <1>1, AccountsAlways, PTL

\* No e-mail and no phone gets a second account: register_user's own SELECT looks for the
\* e-mail only and sees no uncommitted row, so the unique indexes carry this alone.
THEOREM AddressesUnique == Spec => []OneAccountPerAddress
<1>1. AccountsInv => OneAccountPerAddress
  BY DEF AccountsInv
<1>2. QED
  BY <1>1, AccountsAlways, PTL

\* An account that exists has had its verification mail: a failing mail backend takes the
\* registration down with it, and register_user commits only after the mail.
THEOREM MailedFirst == Spec => []RegisteredWasMailed
<1>1. AccountsInv => RegisteredWasMailed
  BY DEF AccountsInv
<1>2. QED
  BY <1>1, AccountsAlways, PTL

\* However often and at once verify_email is called with a link, the account is verified
\* exactly when the link is used up.
THEOREM VerifiedExactly == Spec => []VerifiedByLink
<1>1. AccountsInv => VerifiedByLink
  BY DEF AccountsInv
<1>2. QED
  BY <1>1, AccountsAlways, PTL

-----------------------------------------------------------------------------
(* One refresh at a time: a login keeps exactly one live token             *)

\* A rotation's token is live until the rotation commits, and no other rotation has it.
RotatesLive ==
  \A c \in Sessions : req[c].pc \in Rotating =>
    Live(req[c].t) /\ \A d \in Sessions \ {c} : req[d].t # req[c].t

LoginsInv == AccountsInv /\ RotatesLive /\ OneTokenPerLogin

LEMMA LoginsInitially == Init => LoginsInv
  BY AccountsInitially, IdleIsRequest DEF Init, LoginsInv, RotatesLive, OneTokenPerLogin, Rotating

\* A step that leaves the rows and every other request alone, and a rotation in hand as it is.
LEMMA RowsKeepLogins ==
  ASSUME LoginsInv, AccountsInv', NEW c \in Sessions, UNCHANGED token,
         \A d \in Sessions \ {c} : req'[d] = req[d],
         req'[c].pc \in Rotating => Live(req'[c].t),
         req'[c].t = None \/ (req'[c].t = req[c].t /\ req[c].pc \in Rotating) \/ \A d \in Sessions : req[d].t # req'[c].t
  PROVE  LoginsInv'
<1>1. RotatesLive'
  <2> SUFFICES ASSUME NEW d \in Sessions, req'[d].pc \in Rotating
               PROVE  Live(req[d].t)' /\ \A e \in Sessions \ {d} : req'[e].t # req'[d].t
    BY DEF RotatesLive, Live
  <2>1. req'[d].t \in Tokens
    BY DEF AccountsInv, AccountsInHand, RotationInHand
  <2>2. CASE d = c
    BY <2>1, <2>2, AccountNoneAssumption DEF LoginsInv, RotatesLive, Live
  <2>3. CASE d # c
    <3>1. req'[d] = req[d] /\ Live(req[d].t) /\ \A e \in Sessions \ {d} : req[e].t # req[d].t
      BY <2>3 DEF LoginsInv, RotatesLive
    <3>2. req'[c].t # req[d].t
      BY <2>1, <2>3, <3>1, AccountNoneAssumption
    <3>3. QED BY <3>1, <3>2 DEF Live
  <2>4. QED BY <2>2, <2>3
<1>2. OneTokenPerLogin'
  BY DEF LoginsInv, OneTokenPerLogin, Live
<1>3. QED BY <1>1, <1>2 DEF LoginsInv

LEMMA FinishKeepsLogins ==
  ASSUME LoginsInv, AccountsInv', NEW c \in Sessions, Finish(c), UNCHANGED token PROVE LoginsInv'
<1>1. req'[c] = Idle /\ \A d \in Sessions \ {c} : req'[d] = req[d]
  BY FinishEnds DEF LoginsInv, AccountsInv
<1>2. QED BY <1>1, RowsKeepLogins, IdleIsRequest DEF Rotating

LEMMA GoToKeepsLogins ==
  ASSUME LoginsInv, AccountsInv', NEW c \in Sessions, NEW point \in Points, GoTo(c, point), UNCHANGED token,
         point \in Rotating <=> req[c].pc \in Rotating
  PROVE  LoginsInv'
<1>1. /\ req'[c].t = req[c].t /\ req'[c].pc = point
      /\ \A d \in Sessions \ {c} : req'[d] = req[d]
  BY GoToMoves DEF LoginsInv, AccountsInv
<1>2. CASE req[c].pc \in Rotating
  BY <1>1, <1>2, RowsKeepLogins DEF LoginsInv, RotatesLive
<1>3. CASE req[c].pc \notin Rotating
  <2>1. RotatesLive'
    <3> SUFFICES ASSUME NEW d \in Sessions, req'[d].pc \in Rotating
                 PROVE  Live(req[d].t)' /\ \A e \in Sessions \ {d} : req'[e].t # req'[d].t
      BY DEF RotatesLive, Live
    <3>1. d # c /\ req'[d] = req[d]
      BY <1>1, <1>3
    <3>2. QED BY <1>1, <3>1 DEF LoginsInv, RotatesLive, Live
  <2>2. OneTokenPerLogin'
    BY DEF LoginsInv, OneTokenPerLogin, Live
  <2>3. QED BY <2>1, <2>2 DEF LoginsInv
<1>4. QED BY <1>2, <1>3

LEMMA LoginKeepsLogins ==
  ASSUME LoginsInv, AccountsInv', NEW u \in Users, NEW t \in Tokens, Login(u, t) PROVE LoginsInv'
<1>1. /\ token[t] = NoToken /\ ~Live(t) /\ req' = req
      /\ token'[t] = [user |-> u, login |-> t, revoked |-> FALSE] /\ Live(t)'
      /\ \A s \in Tokens \ {t} : token'[s] = token[s]
  BY AccountNoneAssumption DEF LoginsInv, AccountsInv, TypeOK, Login, Fresh, Live, NoToken
<1>2. \A s \in Tokens : token[s] # NoToken => token[s].login # t
  BY <1>1, TokenPresent DEF LoginsInv, AccountsInv, LoginRows
<1>3. RotatesLive'
  BY <1>1 DEF LoginsInv, AccountsInv, AccountsInHand, RotationInHand, RotatesLive, Live
<1>4. OneTokenPerLogin'
  <2> SUFFICES ASSUME NEW l \in Tokens, token'[l] # NoToken
               PROVE  \E s \in Tokens : /\ Live(s)' /\ token'[s].login = token'[l].login
                                        /\ \A r \in Tokens : Live(r)' /\ token'[r].login = token'[l].login => r = s
    BY DEF OneTokenPerLogin, Live
  <2>1. CASE l = t
    BY <1>1, <1>2, <2>1 DEF Live
  <2>2. CASE l # t
    <3>1. PICK s \in Tokens : /\ Live(s) /\ token[s].login = token[l].login
                              /\ \A r \in Tokens : Live(r) /\ token[r].login = token[l].login => r = s
      BY <1>1, <2>2 DEF LoginsInv, OneTokenPerLogin
    <3>2. token'[l] = token[l] /\ s # t /\ token[l].login # t
      BY <1>1, <1>2, <2>2, <3>1
    <3>3. QED BY <1>1, <3>1, <3>2 DEF Live
  <2>3. QED BY <2>1, <2>2
<1>5. QED BY <1>3, <1>4 DEF LoginsInv

LEMMA RotateCommitKeepsLogins ==
  ASSUME LoginsInv, AccountsInv', NEW c \in Sessions, RotateCommit(c) PROVE LoginsInv'
<1>1. PICK old \in Tokens, new \in Tokens :
      /\ old = req[c].t /\ new = req[c].new /\ old # new
      /\ token[old] \in [user : Users, login : Tokens, revoked : BOOLEAN] /\ token[new] = NoToken
      /\ token'[old] = [token[old] EXCEPT !.revoked = TRUE]
      /\ token'[new] = [token[old] EXCEPT !.revoked = FALSE]
      /\ \A s \in Tokens \ {old, new} : token'[s] = token[s]
      /\ req'[c] = Idle /\ \A d \in Sessions \ {c} : req'[d] = req[d]
  BY RotationWrites DEF LoginsInv
<1>2. Live(old) /\ \A d \in Sessions \ {c} : req[d].t # old
  BY <1>1 DEF LoginsInv, RotatesLive, RotateCommit, At, Rotating
<1>3. /\ ~Live(old)' /\ Live(new)' /\ ~Live(new) /\ token'[new].login = token[old].login
      /\ \A s \in Tokens \ {old, new} : Live(s)' <=> Live(s)
  BY <1>1, AccountNoneAssumption DEF Live, NoToken
<1>4. RotatesLive'
  <2> SUFFICES ASSUME NEW d \in Sessions, req'[d].pc \in Rotating
               PROVE  Live(req[d].t)' /\ \A e \in Sessions \ {d} : req'[e].t # req'[d].t
    BY DEF RotatesLive, Live
  <2>1. d # c /\ req'[d] = req[d]
    BY <1>1, IdleIsRequest DEF Rotating
  <2>2. req[d].t \in Tokens /\ Live(req[d].t) /\ \A e \in Sessions \ {d} : req[e].t # req[d].t
    BY <2>1 DEF LoginsInv, AccountsInv, AccountsInHand, RotationInHand, RotatesLive
  <2>3. req[d].t \notin {old, new}
    BY <1>2, <1>3, <2>1, <2>2
  <2>4. QED
    BY <1>1, <2>1, <2>2, <2>3, IdleIsRequest, AccountNoneAssumption DEF Live
<1>5. OneTokenPerLogin'
  <2> SUFFICES ASSUME NEW l \in Tokens, token'[l] # NoToken
               PROVE  \E s \in Tokens : /\ Live(s)' /\ token'[s].login = token'[l].login
                                        /\ \A r \in Tokens : Live(r)' /\ token'[r].login = token'[l].login => r = s
    BY DEF OneTokenPerLogin, Live
  <2>1. PICK k \in Tokens : token[k] # NoToken /\ token[k].login = token'[l].login
    BY <1>1, <1>2 DEF Live
  <2>2. PICK s \in Tokens : /\ Live(s) /\ token[s].login = token'[l].login
                            /\ \A r \in Tokens : Live(r) /\ token[r].login = token'[l].login => r = s
    BY <2>1 DEF LoginsInv, OneTokenPerLogin
  <2>3. CASE s = old
    BY <1>1, <1>3, <2>2, <2>3
  <2>4. CASE s # old
    BY <1>1, <1>2, <1>3, <2>2, <2>4
  <2>5. QED BY <2>3, <2>4
<1>6. QED BY <1>4, <1>5 DEF LoginsInv

LEMMA LoginsStep == ~SameToken /\ LoginsInv /\ [Next]_vars => LoginsInv'
<1> SUFFICES ASSUME ~SameToken, LoginsInv, [Next]_vars PROVE LoginsInv'
  OBVIOUS
<1>1. AccountsInv'
  BY AccountsStep DEF LoginsInv
<1>2. CASE UNCHANGED vars
  BY <1>1, <1>2 DEF vars, LoginsInv, RotatesLive, OneTokenPerLogin, Live
<1>3. ASSUME NEW c \in Sessions, RegisterBegin(c) \/ VerifyBegin(c) PROVE LoginsInv'
  <2>1. /\ req'[c].t = None /\ req'[c].pc \notin Rotating /\ UNCHANGED token
        /\ \A d \in Sessions \ {c} : req'[d] = req[d]
    <3>1. CASE RegisterBegin(c)
      <4>1. PICK u \in Users, e \in Emails, p \in Phones \cup {None} :
              /\ req' = [req EXCEPT ![c] = [Idle EXCEPT !.pc = "register_email", !.u = u, !.email = e, !.phone = p]]
              /\ UNCHANGED token
        BY <3>1 DEF RegisterBegin
      <4>2. QED BY <4>1 DEF Idle, Rotating, LoginsInv, AccountsInv, TypeOK
    <3>2. CASE VerifyBegin(c)
      <4>1. PICK u \in mailed :
              /\ req' = [req EXCEPT ![c] = [Idle EXCEPT !.pc = "verify_commit", !.u = u]]
              /\ UNCHANGED token
        BY <3>2 DEF VerifyBegin
      <4>2. QED BY <4>1 DEF Idle, Rotating, LoginsInv, AccountsInv, TypeOK
    <3>3. QED BY <1>3, <3>1, <3>2
  <2>2. QED BY <1>1, <2>1, RowsKeepLogins
<1>4. ASSUME NEW c \in Sessions, RotateBegin(c) PROVE LoginsInv'
  <2>1. /\ Live(req'[c].t) /\ \A d \in Sessions : req[d].t # req'[c].t
        /\ UNCHANGED token /\ \A d \in Sessions \ {c} : req'[d] = req[d]
    BY <1>4 DEF RotateBegin, Idle, LoginsInv, AccountsInv, TypeOK
  <2>2. QED BY <1>1, <2>1, RowsKeepLogins
<1>5. ASSUME NEW c \in Sessions, IndexEmail(c) \/ IndexPhone(c) \/ SendMail(c) \/ RotateRevoke(c) PROVE LoginsInv'
  BY <1>1, <1>5, GoToKeepsLogins DEF IndexEmail, IndexPhone, SendMail, RotateRevoke, At, Rotating, Points
<1>6. ASSUME NEW c \in Sessions, RegisterCommit(c) \/ RegisterDuplicate(c) \/ VerifyCommit(c) \/ Abort(c) PROVE LoginsInv'
  BY <1>1, <1>6, FinishKeepsLogins DEF RegisterCommit, RegisterDuplicate, VerifyCommit, Abort
<1>7. ASSUME NEW c \in Sessions, RotateCommit(c) PROVE LoginsInv'
  BY <1>1, <1>7, RotateCommitKeepsLogins
<1>8. ASSUME NEW u \in Users, NEW t \in Tokens, Login(u, t) PROVE LoginsInv'
  BY <1>1, <1>8, LoginKeepsLogins
<1>9. QED
  BY <1>2, <1>3, <1>4, <1>5, <1>6, <1>7, <1>8 DEF Next, Serve, Register, Rotate

LEMMA LoginsAlways == ~SameToken => (Spec => []LoginsInv)
<1> SUFFICES ASSUME ~SameToken PROVE Spec => []LoginsInv
  OBVIOUS
<1>1. LoginsInv /\ [Next]_vars => LoginsInv'
  BY LoginsStep
<1>2. QED
  BY <1>1, LoginsInitially, PTL DEF Spec

\* As long as a client refreshes a token once at a time, rotate_refresh_token leaves every
\* login exactly one live token, wherever a request dies.
THEOREM TokensKept == ~SameToken => (Spec => []OneTokenPerLogin)
<1> SUFFICES ASSUME ~SameToken PROVE Spec => []OneTokenPerLogin
  OBVIOUS
<1>1. LoginsInv => OneTokenPerLogin
  BY DEF LoginsInv
<1>2. QED
  BY <1>1, LoginsAlways, PTL

-----------------------------------------------------------------------------
(* The rows implement LoginPromise                                         *)

\* The current token of a login is its live one.
LEMMA CurrentIsLive ==
  ASSUME LoginsInv, NEW l \in Tokens
  PROVE  /\ token[l].login # l => CurrentOf[l] = None
         /\ token[l].login = l => /\ CurrentOf[l] \in Tokens /\ Live(CurrentOf[l])
                                  /\ token[CurrentOf[l]].login = l
                                  /\ \A s \in Tokens : Live(s) /\ token[s].login = l => s = CurrentOf[l]
<1>1. CASE token[l].login # l
  BY <1>1 DEF CurrentOf
<1>2. CASE token[l].login = l
  <2>1. token[l] # NoToken
    BY <1>2, AccountNoneAssumption DEF NoToken
  <2>2. \E t \in Tokens : /\ Live(t) /\ token[t].login = l
                          /\ \A s \in Tokens : Live(s) /\ token[s].login = l => s = t
    BY <1>2, <2>1 DEF LoginsInv, OneTokenPerLogin
  <2>3. CurrentOf[l] = CHOOSE t \in Tokens : Live(t) /\ token[t].login = l
    BY <1>2 DEF CurrentOf
  <2>4. QED BY <1>2, <2>2, <2>3
<1>3. QED BY <1>1, <1>2

\* A login's current token after a step, from where its live token is then.
LEMMA CurrentAfter ==
  ASSUME LoginsInv', NEW l \in Tokens, NEW t \in Tokens, token'[l].login = l, Live(t)', token'[t].login = l
  PROVE  CurrentOf'[l] = t
<1>1. token'[l] # NoToken
  BY AccountNoneAssumption DEF NoToken
<1>2. \E r \in Tokens : /\ Live(r)' /\ token'[r].login = l
                        /\ \A s \in Tokens : Live(s)' /\ token'[s].login = l => s = r
  BY <1>1 DEF LoginsInv, OneTokenPerLogin
<1>3. CurrentOf'[l] = CHOOSE r \in Tokens : Live(r)' /\ token'[r].login = l
  BY DEF CurrentOf
<1>4. QED BY <1>2, <1>3

Issued == {t \in Tokens : token[t] # NoToken}

LEMMA CurrentIsFunction ==
  /\ CurrentOf = [l \in Tokens |-> CurrentOf[l]]
  /\ CurrentOf' = [l \in Tokens |-> CurrentOf'[l]]
  BY DEF CurrentOf

LEMMA LoginOpens ==
  ASSUME LoginsInv, LoginsInv', NEW u \in Users, NEW t \in Tokens, Login(u, t) PROVE Promise!Open(t)
<1>1. /\ token[t] = NoToken /\ token'[t] = [user |-> u, login |-> t, revoked |-> FALSE] /\ Live(t)'
      /\ token'[t] # NoToken /\ \A s \in Tokens \ {t} : token'[s] = token[s]
  BY AccountNoneAssumption DEF LoginsInv, AccountsInv, TypeOK, Login, Fresh, Live, NoToken
<1>2. token[t].login # t /\ CurrentOf[t] = None
  BY <1>1, CurrentIsLive, AccountNoneAssumption DEF NoToken
<1>3. CurrentOf'[t] = t
  BY <1>1, CurrentAfter
<1>4. ASSUME NEW l \in Tokens, l # t PROVE CurrentOf'[l] = CurrentOf[l]
  <2>1. CASE token[l].login = l
    <3>1. /\ CurrentOf[l] \in Tokens /\ Live(CurrentOf[l]) /\ token[CurrentOf[l]].login = l
      BY <2>1, CurrentIsLive
    <3>2. PICK s \in Tokens : s = CurrentOf[l]
      BY <3>1
    <3>3. s # t /\ token'[s] = token[s] /\ Live(s)' /\ token'[s].login = l /\ token'[l].login = l
      BY <1>1, <1>4, <2>1, <3>1, <3>2 DEF Live
    <3>4. QED BY <3>2, <3>3, CurrentAfter
  <2>2. CASE token[l].login # l
    BY <1>1, <1>4, <2>2 DEF CurrentOf
  <2>3. QED BY <2>1, <2>2
<1>5. CurrentOf' = [CurrentOf EXCEPT ![t] = t]
  BY <1>3, <1>4, CurrentIsFunction
<1>6. t \notin Issued /\ Issued' = Issued \cup {t}
  BY <1>1 DEF Issued
<1>7. QED
  BY <1>2, <1>5, <1>6 DEF Promise!Open, Issued

LEMMA RotationRenews ==
  ASSUME LoginsInv, LoginsInv', NEW c \in Sessions, RotateCommit(c)
  PROVE  \E l, t \in Tokens : Promise!Renew(l, t)
<1>1. PICK old \in Tokens, new \in Tokens :
      /\ old = req[c].t /\ new = req[c].new /\ old # new
      /\ token[old] \in [user : Users, login : Tokens, revoked : BOOLEAN] /\ token[new] = NoToken
      /\ token'[old] = [token[old] EXCEPT !.revoked = TRUE]
      /\ token'[new] = [token[old] EXCEPT !.revoked = FALSE]
      /\ \A s \in Tokens \ {old, new} : token'[s] = token[s]
  BY RotationWrites DEF LoginsInv
<1>2. Live(old) /\ token[old] # NoToken
  BY <1>1 DEF LoginsInv, RotatesLive, RotateCommit, At, Rotating, Live
<1>3. PICK l \in Tokens : l = token[old].login
  BY <1>1
<1>4. token[l].login = l /\ token[l] # NoToken /\ l # new
  BY <1>1, <1>2, <1>3 DEF LoginsInv, AccountsInv, LoginRows
<1>5. CurrentOf[l] = old
  BY <1>2, <1>3, <1>4, CurrentIsLive
<1>6. /\ \A s \in Tokens \ {new} : token'[s].login = token[s].login
      /\ token'[new].login = l /\ Live(new)' /\ token'[new] # NoToken /\ token'[old] # NoToken
  BY <1>1, <1>3, AccountNoneAssumption DEF Live, NoToken
<1>7. CurrentOf'[l] = new
  BY <1>4, <1>6, CurrentAfter
<1>8. ASSUME NEW k \in Tokens, k # l PROVE CurrentOf'[k] = CurrentOf[k]
  <2>1. CASE token[k].login = k
    <3>1. PICK s \in Tokens : s = CurrentOf[k] /\ Live(s) /\ token[s].login = k
      BY <2>1, CurrentIsLive
    <3>2. k # new /\ s # new /\ s # old
      BY <1>1, <1>3, <1>8, <2>1, <3>1, AccountNoneAssumption DEF Live, NoToken
    <3>3. Live(s)' /\ token'[s].login = k /\ token'[k].login = k
      BY <1>1, <1>6, <2>1, <3>1, <3>2 DEF Live
    <3>4. QED BY <3>1, <3>3, CurrentAfter
  <2>2. CASE token[k].login # k
    <3>1. token'[k].login # k
      BY <1>6, <1>8, <2>2
    <3>2. QED BY <2>2, <3>1 DEF CurrentOf
  <2>3. QED BY <2>1, <2>2
<1>9. CurrentOf' = [CurrentOf EXCEPT ![l] = new]
  BY <1>7, <1>8, CurrentIsFunction
<1>10. new \notin Issued /\ Issued' = Issued \cup {new}
  BY <1>1, <1>2, <1>6 DEF Issued
<1>11. CurrentOf[l] # None
  BY <1>5, AccountNoneAssumption
<1>12. QED
  BY <1>9, <1>10, <1>11 DEF Promise!Renew, Issued

LEMMA RowsKeepPromise == ASSUME UNCHANGED token PROVE UNCHANGED <<CurrentOf, Issued>>
  BY DEF CurrentOf, Issued, Live

LEMMA PromiseInitially == Init => Promise!Init
<1> SUFFICES ASSUME Init PROVE Promise!Init
  OBVIOUS
<1>1. \A t \in Tokens : token[t] = NoToken /\ token[t].login # t
  BY AccountNoneAssumption DEF Init, NoToken
<1>2. QED
  BY <1>1 DEF Promise!Init, CurrentOf

LEMMA PromiseStep ==
  LoginsInv /\ LoginsInv' /\ [Next]_vars => [Promise!Next]_<<CurrentOf, Issued>>
<1> SUFFICES ASSUME LoginsInv, LoginsInv', [Next]_vars
             PROVE  Promise!Next \/ UNCHANGED <<CurrentOf, Issued>>
  OBVIOUS
<1>1. CASE UNCHANGED vars
  BY <1>1, RowsKeepPromise DEF vars
<1>2. ASSUME NEW c \in Sessions, RegisterBegin(c) \/ VerifyBegin(c) \/ RotateBegin(c)
      PROVE  UNCHANGED <<CurrentOf, Issued>>
  BY <1>2, RowsKeepPromise DEF RegisterBegin, VerifyBegin, RotateBegin
<1>3. ASSUME NEW c \in Sessions, Register(c) \/ VerifyCommit(c) \/ RotateRevoke(c) \/ Abort(c)
      PROVE  UNCHANGED <<CurrentOf, Issued>>
  BY <1>3, RowsKeepPromise DEF Register, IndexEmail, IndexPhone, RegisterDuplicate, SendMail, RegisterCommit,
     VerifyCommit, RotateRevoke, Abort
<1>4. ASSUME NEW c \in Sessions, RotateCommit(c) PROVE Promise!Next
  BY <1>4, RotationRenews DEF Promise!Next
<1>5. ASSUME NEW u \in Users, NEW t \in Tokens, Login(u, t) PROVE Promise!Next
  BY <1>5, LoginOpens DEF Promise!Next
<1>6. QED
  BY <1>1, <1>2, <1>3, <1>4, <1>5 DEF Next, Serve, Rotate

\* As long as a client refreshes a token once at a time, logging in and refreshing keep the
\* promise of LoginPromise: each is one step of it or none, wherever a request dies.
THEOREM LoginsKept == ~SameToken => (Spec => KeepsLogins)
<1> SUFFICES ASSUME ~SameToken PROVE Spec => KeepsLogins
  OBVIOUS
<1>1. LoginsInv /\ LoginsInv' /\ [Next]_vars => [Promise!Next]_<<CurrentOf, {t \in Tokens : token[t] # NoToken}>>
  BY PromiseStep DEF Issued
<1>2. QED
  BY <1>1, PromiseInitially, LoginsAlways, PTL DEF Spec, KeepsLogins, Promise!Spec
=============================================================================
