--------------------------- MODULE AccountsProofs ---------------------------
(***************************************************************************)
(* Theorems of Accounts, for every number of emails, clients, passwords    *)
(* and requests.                                                           *)
(***************************************************************************)
EXTENDS Accounts, TLAPS

\* A step of one request moves that request alone.
Moves(r) ==
  /\ req' \in [Requests -> Request]
  /\ \A s \in Requests \ {r} : req'[s] = req[s]

\* What no step takes back: rows, unusable passwords, confirmations, and, while
\* no email is moved, the client of an email.
Keeps ==
  /\ \A e \in Emails : user[e].exists => user'[e].exists
  /\ \A e \in Emails : user[e].exists /\ ~user[e].usable => ~user'[e].usable
  /\ \A e \in Staff : user[e].usable => user'[e].usable
  /\ \A e \in Emails : vouched[e] \subseteq vouched'[e]
  /\ moved => moved'
  /\ ~moved' => \A e \in Emails : owner[e] # None => owner'[e] = owner[e]

\* The part of the invariant that is not about requests.
TableInv ==
  /\ \A e \in Emails : user[e].client # None => user[e].exists
  /\ \A e \in tokens \cup Staff : user[e].exists
  /\ \A e \in Staff : user[e].usable
  /\ \A e, f \in Emails : owner[e] = owner[f] /\ owner[e] # None => e = f
  /\ LinkIsVouched /\ MirrorIsTrue /\ OnlyStaffHavePasswords

LEMMA Parts ==
  AccountInv <=> (\A r \in Requests : RequestInv(r)) /\ TableInv /\ LinkingSucceeds
  BY DEF AccountInv, TableInv

LEMMA RequestParts ==
  ASSUME TypeOK, NEW r \in Requests
  PROVE  /\ req[r] \in Request
         /\ ~Idle(r) /\ RequestInv(r) => req[r].email \in Emails
  BY DEF TypeOK, RequestInv, Idle

LEMMA NoneType == NoUser \in User /\ NoRequest \in Request
<1>1. NoUser \in User
  BY DEF NoUser, User
<1>2. NoRequest \in Request
  BY <1>1 DEF NoRequest, Request
<1> QED BY <1>1, <1>2

LEMMA GotoMoves ==
  ASSUME TypeOK, NEW r \in Requests,
         NEW step \in {"get", "create", "reget", "update", "save", "answer"},
         Goto(r, step)
  PROVE  Moves(r) /\ req'[r] = [req[r] EXCEPT !.at = step]
  BY DEF TypeOK, Goto, Request, Moves

LEMMA FinishMoves ==
  ASSUME TypeOK, NEW r \in Requests, Finish(r)
  PROVE  Moves(r) /\ req'[r].at = "idle"
  BY NoneType DEF TypeOK, Finish, Moves, NoRequest

LEMMA RaiseMoves ==
  ASSUME TypeOK, NEW r \in Requests, Raise(r)
  PROVE  Moves(r) /\ req'[r].at = "raised" /\ req'[r].client = req[r].client
<1> DEFINE ended == [NoRequest EXCEPT !.at = "raised", !.client = req[r].client]
<1>1. req[r].client \in Ids \cup {None}
  BY DEF TypeOK, Request
<1>2. ended \in Request /\ ended.at = "raised" /\ ended.client = req[r].client
  BY <1>1, NoneType DEF NoRequest, Request
<1>3. req' = [req EXCEPT ![r] = ended]
  BY DEF Raise
<1> HIDE DEF ended
<1> QED BY <1>2, <1>3 DEF TypeOK, Moves

\* A request that has ended relies on nothing.
LEMMA IdleInv ==
  ASSUME NEW r \in Requests, req'[r].at \in {"idle", "raised"}
  PROVE  RequestInv(r)'
  BY DEF RequestInv

\* The requests that do not move keep what they rely on.
LEMMA OthersStay ==
  ASSUME TypeOK, AccountInv, NEW s \in Requests, req'[s] = req[s], Keeps,
         vouched' \in [Emails -> SUBSET Ids]
  PROVE  RequestInv(s)'
<1> DEFINE q == req[s]
<1>1. RequestInv(s)
  BY DEF AccountInv
<1>2. q.at \notin {"idle", "raised"} => q.email \in Emails
  BY <1>1 DEF RequestInv
<1>3. q.client \in vouched[q.email] /\ q.email \in Emails => q.client # None
  BY NoneAssumption, ZeroAssumption DEF TypeOK, Ids
<1>4. q.at = "answer" => (user'[q.email].usable <=> q.email \in Staff)
  <2> SUFFICES ASSUME q.at = "answer"
               PROVE  user'[q.email].usable <=> q.email \in Staff
    OBVIOUS
  <2>1. q.email \in Emails /\ user[q.email].exists
    BY <1>1, <1>2 DEF RequestInv
  <2>2. user[q.email].usable <=> q.email \in Staff
    BY <1>1 DEF RequestInv
  <2> QED BY <2>1, <2>2 DEF Keeps
<1>5. q.at \in {"get", "create", "reget", "update", "save", "answer"} /\ ~moved' =>
        q.client \in {Zero, owner'[q.email]}
  BY <1>1, <1>2, <1>3 DEF RequestInv, Keeps
<1> QED BY <1>1, <1>2, <1>4, <1>5 DEF RequestInv, Keeps

\* A step that leaves the tables and WHMCS' emails alone keeps what is said of
\* them.
LEMMA TableStays ==
  ASSUME TypeOK, AccountInv, user' = user, tokens' = tokens, owner' = owner, moved' = moved,
         \A e \in Emails : vouched[e] \subseteq vouched'[e]
  PROVE  Keeps /\ TableInv'
<1>1. Keeps
  BY DEF Keeps
<1>2. TableInv'
  BY DEF AccountInv, TableInv, LinkIsVouched, MirrorIsTrue, OnlyStaffHavePasswords
<1> QED BY <1>1, <1>2

\* What has to be shown of a step of one request.
LEMMA StepInv ==
  ASSUME TypeOK, AccountInv, NEW r \in Requests, Moves(r), Keeps, TableInv', RequestInv(r)',
         vouched' \in [Emails -> SUBSET Ids],
         req'[r].at = "raised" => moved' \/ req'[r].client = Zero
  PROVE  AccountInv'
<1>1. \A s \in Requests : RequestInv(s)'
  BY OthersStay DEF Moves
<1>2. LinkingSucceeds'
  BY DEF AccountInv, LinkingSucceeds, Moves, Keeps
<1> QED BY <1>1, <1>2 DEF AccountInv, TableInv

LEMMA InitInv == Init => TypeOK /\ AccountInv
<1> SUFFICES ASSUME Init PROVE TypeOK /\ AccountInv
  OBVIOUS
<1>1. TypeOK
  <2>1. \A e \in Emails : user[e] \in User
    BY StaffAssumption DEF Init, User, NoUser, Mirror
  <2>2. user \in [Emails -> User] /\ req \in [Requests -> Request]
    BY <2>1, NoneType DEF Init
  <2>3. odd \in 0 .. MAX_ODD
    BY BoundAssumption DEF Init
  <2> QED BY <2>2, <2>3 DEF Init, TypeOK
<1>2. TableInv
  BY StaffAssumption
     DEF Init, TableInv, LinkIsVouched, MirrorIsTrue, OnlyStaffHavePasswords, Mirror, NoUser
<1>3. \A r \in Requests : req[r] = NoRequest
  BY DEF Init
<1>4. \A r \in Requests : RequestInv(r)
  BY <1>3 DEF RequestInv, NoRequest
<1> QED BY <1>1, <1>2, <1>3, <1>4 DEF AccountInv, TableInv, LinkingSucceeds, NoRequest

-----------------------------------------------------------------------------
(* A request begins *)

LEMMA BeginInv ==
  ASSUME TypeOK, AccountInv, NEW r \in Requests, NEW e \in Emails, NEW p \in Passwords,
         \/ Login(r, e, p) \/ Register(r, e, p)
         \/ \E wish \in Passwords : ChangePassword(r, e, p, wish)
  PROVE  TypeOK' /\ AccountInv'
<1> USE DEF whmcs, bridge, history
<1> DEFINE Begun == /\ req'[r] \in Request /\ Moves(r)
                    /\ req'[r].email = e
                    /\ \/ /\ req'[r].at = "validate"
                          /\ req'[r].kind = "change" => req'[r].wish \in Passwords
                       \/ /\ req'[r].at = "add"
                          /\ req'[r].kind = "register" /\ req'[r].password = p
<1>1. Begun
  <2>1. CASE Login(r, e, p)
    BY <2>1, NoneType DEF TypeOK, Login, Request, NoRequest, Moves
  <2>2. CASE Register(r, e, p)
    BY <2>2, NoneType DEF TypeOK, Register, Request, NoRequest, Moves
  <2>3. ASSUME NEW wish \in Passwords, ChangePassword(r, e, p, wish)
        PROVE  Begun
    <3>1. user[e].client \in Ids \cup {None}
      BY DEF TypeOK, User
    <3> QED BY <2>3, <3>1, NoneType DEF TypeOK, ChangePassword, Request, NoRequest, Moves
  <2> QED BY <2>1, <2>2, <2>3
<1>2. UNCHANGED <<owner, password, user, tokens, vouched, odd, moved>>
  BY DEF Login, Register, ChangePassword
<1>3. TypeOK'
  BY <1>1, <1>2 DEF TypeOK, Moves
<1>4. Keeps /\ TableInv'
  BY <1>2, TableStays
<1>5. RequestInv(r)'
  BY <1>1 DEF RequestInv
<1>6. vouched' \in [Emails -> SUBSET Ids]
  BY <1>3 DEF TypeOK
<1> QED BY <1>1, <1>3, <1>4, <1>5, <1>6, StepInv

\* A request that ends without having touched anything.
LEMMA FinishInv ==
  ASSUME TypeOK, AccountInv, NEW r \in Requests,
         \/ Finish(r)
         \/ Raise(r) /\ (moved \/ req[r].client = Zero),
         UNCHANGED <<owner, password, user, tokens, vouched, odd, moved>>
  PROVE  TypeOK' /\ AccountInv'
<1>1. Moves(r) /\ (req'[r].at = "idle" \/ req'[r].at = "raised")
      /\ (req'[r].at = "raised" => moved' \/ req'[r].client = Zero)
  BY FinishMoves, RaiseMoves
<1>2. TypeOK'
  BY <1>1 DEF TypeOK, Moves
<1>3. Keeps /\ TableInv'
  BY TableStays
<1>4. RequestInv(r)'
  BY <1>1, IdleInv
<1>5. vouched' \in [Emails -> SUBSET Ids]
  BY <1>2 DEF TypeOK
<1> QED BY <1>1, <1>2, <1>3, <1>4, <1>5, StepInv

LEMMA RefusedInv ==
  ASSUME TypeOK, AccountInv, NEW r \in Requests,
         \/ InvalidCredentials(r) \/ RegisterRefused(r) \/ RequestFails(r)
         \/ Disabled(r) \/ OtherClient(r) \/ ReauthenticateUnconfirmed(r)
  PROVE  TypeOK' /\ AccountInv'
<1>1. Finish(r) /\ UNCHANGED <<owner, password, user, tokens, vouched, odd, moved>>
  BY DEF InvalidCredentials, RegisterRefused, RequestFails, Disabled, OtherClient,
         ReauthenticateUnconfirmed, whmcs, bridge, history
<1> QED BY <1>1, FinishInv

-----------------------------------------------------------------------------
(* WHMCS confirms a client *)

\* A request that goes on with the id an answer has named, or with Zero.
LEMMA NamedMoves ==
  ASSUME TypeOK, NEW r \in Requests, NEW c \in Ids, Named(r, c), req[r].email \in Emails
  PROVE  /\ Moves(r)
         /\ req'[r].at = "get" /\ req'[r].email = req[r].email /\ req'[r].client = c
         /\ req'[r].kind = req[r].kind
         /\ vouched' \in [Emails -> SUBSET Ids] /\ c \in vouched'[req[r].email]
         /\ \A f \in Emails : vouched[f] \subseteq vouched'[f]
         /\ odd' \in 0 .. MAX_ODD
<1> DEFINE named == [req[r] EXCEPT !.at = "get", !.client = c, !.password = None]
<1>1. req[r] \in Request
  BY RequestParts
<1>2. /\ named \in Request /\ named.at = "get" /\ named.client = c
      /\ named.email = req[r].email /\ named.kind = req[r].kind
  BY <1>1 DEF Request
<1>3. req' = [req EXCEPT ![r] = named]
  BY <1>1 DEF Named, TypeOK
<1> HIDE DEF named
<1>4. Moves(r) /\ req'[r] = named
  BY <1>2, <1>3 DEF TypeOK, Moves
<1>5. /\ vouched' \in [Emails -> SUBSET Ids] /\ c \in vouched'[req[r].email]
      /\ \A f \in Emails : vouched[f] \subseteq vouched'[f]
  BY DEF Named, TypeOK
<1>6. odd' \in 0 .. MAX_ODD
  BY BoundAssumption DEF Named, Odd, TypeOK
<1> QED BY <1>2, <1>4, <1>5, <1>6

LEMMA ValidateInv ==
  ASSUME TypeOK, AccountInv, NEW r \in Requests, validate_login(r) \/ LoginUnconfirmed(r)
  PROVE  TypeOK' /\ AccountInv'
<1> DEFINE e == req[r].email
<1>1. e \in Emails
  BY DEF validate_login, LoginUnconfirmed, AccountInv, RequestInv
<1>2. PICK c \in Ids : /\ Named(r, c) /\ c \in {Zero, owner[e]} /\ req[r].kind = "login"
                       /\ UNCHANGED <<owner, password, user, tokens, moved>>
  BY <1>1 DEF validate_login, LoginUnconfirmed, Accepted, TypeOK, Ids, whmcs, bridge
<1>3. /\ Moves(r)
      /\ req'[r].at = "get" /\ req'[r].email = e /\ req'[r].client = c
      /\ req'[r].kind = "login"
      /\ vouched' \in [Emails -> SUBSET Ids] /\ c \in vouched'[e]
      /\ \A f \in Emails : vouched[f] \subseteq vouched'[f]
      /\ odd' \in 0 .. MAX_ODD
  BY <1>1, <1>2, NamedMoves
<1> HIDE DEF e
<1>4. TypeOK'
  BY <1>2, <1>3 DEF TypeOK, Moves
<1>5. Keeps /\ TableInv'
  BY <1>2, <1>3, TableStays
<1>6. RequestInv(r)'
  BY <1>1, <1>2, <1>3 DEF RequestInv
<1> QED BY <1>3, <1>4, <1>5, <1>6, StepInv

\* An answer that names no client leaves WHMCS as it was.
LEMMA UnprocessedInv ==
  ASSUME TypeOK, AccountInv, NEW r \in Requests, RegisterUnprocessed(r)
  PROVE  TypeOK' /\ AccountInv'
<1> DEFINE e == req[r].email
<1>1. e \in Emails /\ req[r].kind = "register" /\ Zero \in Ids
  BY DEF RegisterUnprocessed, AccountInv, RequestInv, Ids
<1>2. Named(r, Zero) /\ UNCHANGED <<owner, password, user, tokens, moved>>
  BY DEF RegisterUnprocessed, whmcs, bridge
<1>3. /\ Moves(r)
      /\ req'[r].at = "get" /\ req'[r].email = e /\ req'[r].client = Zero
      /\ req'[r].kind = "register"
      /\ vouched' \in [Emails -> SUBSET Ids] /\ Zero \in vouched'[e]
      /\ \A f \in Emails : vouched[f] \subseteq vouched'[f]
      /\ odd' \in 0 .. MAX_ODD
  BY <1>1, <1>2, NamedMoves
<1> HIDE DEF e
<1>4. TypeOK'
  BY <1>2, <1>3 DEF TypeOK, Moves
<1>5. Keeps /\ TableInv'
  BY <1>2, <1>3, TableStays
<1>6. RequestInv(r)'
  BY <1>1, <1>2, <1>3 DEF RequestInv
<1> QED BY <1>3, <1>4, <1>5, <1>6, StepInv

\* WHMCS' new client takes an email that none had.
LEMMA AddClientKeeps ==
  ASSUME TypeOK, AccountInv, NEW r \in Requests, NEW c \in Clients, AddClient(r, c),
         vouched' \in [Emails -> SUBSET Ids],
         \A f \in Emails : vouched[f] \subseteq vouched'[f]
  PROVE  /\ req[r].email \in Emails
         /\ owner' \in [Emails -> Clients \cup {None}] /\ owner'[req[r].email] = c
         /\ password' \in [Clients -> Passwords]
         /\ Keeps /\ TableInv'
<1> USE DEF whmcs, bridge, history
<1>1. req[r].email \in Emails /\ req[r].at = "add"
  BY DEF AddClient, AccountInv, RequestInv
<1>2. owner' \in [Emails -> Clients \cup {None}] /\ owner'[req[r].email] = c
  BY <1>1 DEF AddClient, TypeOK
<1>3. password' \in [Clients -> Passwords]
  BY DEF AddClient, TypeOK, AccountInv, RequestInv
<1>4. \A f \in Emails : owner[f] # None => owner'[f] = owner[f]
  BY <1>1 DEF AddClient, TypeOK
<1>5. Keeps
  BY <1>4 DEF Keeps, AddClient
<1>6. \A f, g \in Emails : owner'[f] = owner'[g] /\ owner'[f] # None => f = g
  BY <1>1 DEF AddClient, TypeOK, AccountInv, Exists
<1>7. MirrorIsTrue'
  BY <1>1, <1>4 DEF AddClient, AccountInv, MirrorIsTrue
<1>8. TableInv'
  BY <1>6, <1>7 DEF AddClient, AccountInv, TableInv, LinkIsVouched, OnlyStaffHavePasswords
<1> QED BY <1>1, <1>2, <1>3, <1>5, <1>8

LEMMA RegisterInv ==
  ASSUME TypeOK, AccountInv, NEW r \in Requests, NEW c \in Clients,
         register(r, c) \/ RegisterUnconfirmed(r, c)
  PROVE  TypeOK' /\ AccountInv'
<1> DEFINE e == req[r].email
<1>1. PICK id \in {c, Zero} : AddClient(r, c) /\ Named(r, id)
  BY DEF register, RegisterUnconfirmed
<1>2. id \in Ids /\ e \in Emails /\ req[r].kind = "register"
      /\ UNCHANGED <<user, tokens, moved>>
  BY <1>1 DEF AddClient, AccountInv, RequestInv, bridge, Ids
<1>3. /\ Moves(r)
      /\ req'[r].at = "get" /\ req'[r].email = e /\ req'[r].client = id
      /\ req'[r].kind = "register"
      /\ vouched' \in [Emails -> SUBSET Ids] /\ id \in vouched'[e]
      /\ \A f \in Emails : vouched[f] \subseteq vouched'[f]
      /\ odd' \in 0 .. MAX_ODD
  BY <1>1, <1>2, NamedMoves
<1>4. /\ owner' \in [Emails -> Clients \cup {None}] /\ owner'[e] = c
      /\ password' \in [Clients -> Passwords] /\ Keeps /\ TableInv'
  BY <1>1, <1>3, AddClientKeeps
<1> HIDE DEF e
<1>5. TypeOK'
  BY <1>2, <1>3, <1>4 DEF TypeOK, Moves
<1>6. RequestInv(r)'
  BY <1>2, <1>3, <1>4 DEF RequestInv
<1> QED BY <1>3, <1>4, <1>5, <1>6, StepInv

LEMMA UnansweredInv ==
  ASSUME TypeOK, AccountInv, NEW r \in Requests, NEW c \in Clients, RegisterUnanswered(r, c)
  PROVE  TypeOK' /\ AccountInv'
<1>1. AddClient(r, c) /\ Finish(r) /\ UNCHANGED <<vouched, odd, user, tokens, moved>>
  BY DEF RegisterUnanswered, AddClient, bridge, history
<1>2. vouched' \in [Emails -> SUBSET Ids]
      /\ \A f \in Emails : vouched[f] \subseteq vouched'[f]
  BY <1>1 DEF TypeOK
<1>3. /\ owner' \in [Emails -> Clients \cup {None}]
      /\ password' \in [Clients -> Passwords] /\ Keeps /\ TableInv'
  BY <1>1, <1>2, AddClientKeeps
<1>4. Moves(r) /\ req'[r].at = "idle"
  BY <1>1, FinishMoves
<1>5. TypeOK'
  BY <1>1, <1>2, <1>3, <1>4 DEF TypeOK, Moves
<1>6. RequestInv(r)'
  BY <1>4, IdleInv
<1> QED BY <1>2, <1>3, <1>4, <1>5, <1>6, StepInv

-----------------------------------------------------------------------------
(* link_to_whmcs *)

\* A step of link_to_whmcs that changes only where its request is.
LEMMA GotoInv ==
  ASSUME TypeOK, AccountInv, NEW r \in Requests, Moves(r), RequestInv(r)',
         req'[r].at # "raised",
         UNCHANGED <<owner, password, user, tokens, vouched, odd, moved>>
  PROVE  TypeOK' /\ AccountInv'
<1>1. TypeOK'
  BY DEF TypeOK, Moves
<1>2. Keeps /\ TableInv'
  BY TableStays
<1>3. vouched' \in [Emails -> SUBSET Ids]
  BY <1>1 DEF TypeOK
<1> QED BY <1>1, <1>2, <1>3, StepInv

\* The row that was found is the row that is kept in mind.
LEMMA FoundInv ==
  ASSUME TypeOK, AccountInv, NEW r \in Requests, req[r].at \in {"get", "reget"},
         user[req[r].email].exists, Found(r, user[req[r].email]),
         UNCHANGED <<owner, password, user, tokens, vouched, odd, moved>>
  PROVE  TypeOK' /\ AccountInv'
<1> DEFINE e == req[r].email
           step == IF user[e].client # req[r].client THEN "update" ELSE "save"
<1>0. req[r] \in Request /\ e \in Emails
  BY DEF TypeOK, AccountInv, RequestInv
<1>1. user[e] \in User
  BY <1>0 DEF TypeOK
<1>2. req' = [req EXCEPT ![r].seen = user[e], ![r].at = step] /\ step \in {"update", "save"}
  BY DEF Found
<1> HIDE DEF step
<1>3. Moves(r) /\ req'[r] = [req[r] EXCEPT !.seen = user[e], !.at = step]
  <2>1. [req[r] EXCEPT !.seen = user[e], !.at = step] \in Request
    BY <1>0, <1>1, <1>2 DEF Request
  <2> QED BY <1>2, <2>1 DEF TypeOK, Moves
<1> HIDE DEF e
<1>4. /\ req'[r].at \in {"update", "save"} /\ req'[r].email = e /\ req'[r].seen = user[e]
      /\ req'[r].client = req[r].client /\ req'[r].kind = req[r].kind
     
  <2>1. step \in {"update", "save"}
    BY <1>2
  <2> QED BY <1>0, <1>3, <2>1 DEF Request, e
<1>5. RequestInv(r)'
  BY <1>0, <1>4 DEF AccountInv, RequestInv, e
<1> QED BY <1>3, <1>4, <1>5, GotoInv

\* While no email has moved, who has a row with a client has the email.
LEMMA LinkedIsMoved ==
  ASSUME TypeOK, AccountInv, NEW r \in Requests,
         req[r].at \in {"create", "update"}, Linked(req[r].email, req[r].client)
  PROVE  moved \/ req[r].client = Zero
<1> SUFFICES ASSUME ~moved, req[r].client # Zero PROVE FALSE
  OBVIOUS
<1> DEFINE e == req[r].email
           c == req[r].client
<1>1. e \in Emails /\ c \in vouched[e] /\ c = owner[e]
  BY DEF AccountInv, RequestInv
<1>2. c # None
  BY <1>1, NoneAssumption, ZeroAssumption DEF TypeOK, Ids
<1>3. PICK f \in Emails \ {e} : user[f].client = c
  BY DEF Linked
<1>4. c = owner[f]
  BY <1>2, <1>3 DEF AccountInv, MirrorIsTrue
<1> QED BY <1>1, <1>2, <1>3, <1>4 DEF AccountInv

LEMMA GetInv ==
  ASSUME TypeOK, AccountInv, NEW r \in Requests, get(r)
  PROVE  TypeOK' /\ AccountInv'
<1> USE DEF whmcs, bridge, history
<1>0. req[r] \in Request
  BY RequestParts
<1>1. CASE user[req[r].email].exists
  BY <1>1, FoundInv DEF get
<1>2. CASE ~user[req[r].email].exists
  <2>1. Goto(r, "create") /\ UNCHANGED <<owner, password, user, tokens, vouched, odd, moved>>
    BY <1>2 DEF get
  <2>2. Moves(r) /\ req'[r] = [req[r] EXCEPT !.at = "create"]
    BY <2>1, GotoMoves
  <2>3. /\ req'[r].at = "create" /\ req'[r].email = req[r].email
        /\ req'[r].client = req[r].client /\ req'[r].kind = req[r].kind
       
    BY <1>0, <2>2 DEF Request
  <2>4. RequestInv(r)'
    BY <2>1, <2>3 DEF get, AccountInv, RequestInv
  <2> QED BY <2>1, <2>2, <2>3, <2>4, GotoInv
<1> QED BY <1>1, <1>2

LEMMA CollidesInv ==
  ASSUME TypeOK, AccountInv, NEW r \in Requests, CreateCollides(r)
  PROVE  TypeOK' /\ AccountInv'
<1> USE DEF whmcs, bridge, history
<1>0. req[r] \in Request
  BY RequestParts
<1>1. Goto(r, "reget") /\ UNCHANGED <<owner, password, user, tokens, vouched, odd, moved>>
  BY DEF CreateCollides
<1>2. Moves(r) /\ req'[r] = [req[r] EXCEPT !.at = "reget"]
  BY <1>1, GotoMoves
<1>3. /\ req'[r].at = "reget" /\ req'[r].email = req[r].email
      /\ req'[r].client = req[r].client /\ req'[r].kind = req[r].kind
     
  BY <1>0, <1>2 DEF Request
<1>4. ~moved /\ req[r].client # Zero => user[req[r].email].exists
  BY LinkedIsMoved DEF CreateCollides
<1>5. RequestInv(r)'
  BY <1>1, <1>3, <1>4 DEF CreateCollides, AccountInv, RequestInv
<1> QED BY <1>1, <1>2, <1>3, <1>5, GotoInv

LEMMA RegetInv ==
  ASSUME TypeOK, AccountInv, NEW r \in Requests, reget(r)
  PROVE  TypeOK' /\ AccountInv'
<1> USE DEF whmcs, bridge, history
<1>1. CASE user[req[r].email].exists
  BY <1>1, FoundInv DEF reget
<1>2. CASE ~user[req[r].email].exists
  <2>1. Raise(r) /\ UNCHANGED <<owner, password, user, tokens, vouched, odd, moved>>
    BY <1>2 DEF reget
  <2>2. moved \/ req[r].client = Zero
    BY <1>2 DEF reget, AccountInv, RequestInv
  <2> QED BY <2>1, <2>2, FinishInv
<1> QED BY <1>1, <1>2

LEMMA UpdateCollidesInv ==
  ASSUME TypeOK, AccountInv, NEW r \in Requests, UpdateCollides(r)
  PROVE  TypeOK' /\ AccountInv'
<1>1. Raise(r) /\ UNCHANGED <<owner, password, user, tokens, vouched, odd, moved>>
  BY DEF UpdateCollides, whmcs, bridge, history
<1>2. moved \/ req[r].client = Zero
  BY LinkedIsMoved DEF UpdateCollides
<1> QED BY <1>1, <1>2, FinishInv

-----------------------------------------------------------------------------
(* What link_to_whmcs and issue_tokens write *)

\* An inserted row: no other row has the email or the client.
LEMMA CreateInv ==
  ASSUME TypeOK, AccountInv, NEW r \in Requests, create(r)
  PROVE  TypeOK' /\ AccountInv'
<1> USE DEF whmcs, history
<1> DEFINE e == req[r].email
           c == req[r].client
<1>0. req[r] \in Request /\ e \in Emails /\ c \in vouched[e] /\ c \in Ids
      /\ (~moved => c \in {Zero, owner[e]})
  BY DEF create, TypeOK, AccountInv, RequestInv
<1>1. /\ user' = [user EXCEPT ![e] = Mirror(c)]
      /\ req' = [req EXCEPT ![r].at = "save", ![r].seen = Mirror(c)]
      /\ ~user[e].exists /\ e \notin tokens \cup Staff
      /\ req[r].kind # "change"
      /\ UNCHANGED <<owner, password, tokens, vouched, odd, moved>>
  BY DEF create, AccountInv, RequestInv
<1>2. Mirror(c) \in User
  BY <1>0 DEF Mirror, User
<1> HIDE DEF e, c
<1>3. Moves(r) /\ req'[r] = [req[r] EXCEPT !.at = "save", !.seen = Mirror(c)]
  <2>1. [req[r] EXCEPT !.at = "save", !.seen = Mirror(c)] \in Request
    BY <1>0, <1>2 DEF Request
  <2> QED BY <1>1, <2>1 DEF TypeOK, Moves
<1>4. /\ req'[r].at = "save" /\ req'[r].email = e /\ req'[r].seen = Mirror(c)
      /\ req'[r].client = c /\ req'[r].kind = req[r].kind
     
  BY <1>0, <1>3 DEF Request, e, c
<1>5. TypeOK'
  BY <1>0, <1>1, <1>2, <1>3 DEF TypeOK, Moves
<1>6. user'[e] = Mirror(c) /\ \A f \in Emails \ {e} : user'[f] = user[f]
  BY <1>0, <1>1 DEF TypeOK
<1>7. Keeps
  BY <1>0, <1>1, <1>6, StaffAssumption DEF Keeps, Mirror
<1>8. TableInv'
  BY <1>0, <1>1, <1>6, StaffAssumption
     DEF AccountInv, TableInv, LinkIsVouched, MirrorIsTrue, OnlyStaffHavePasswords, Mirror, TypeOK
<1>9. RequestInv(r)'
  BY <1>0, <1>1, <1>4, <1>6 DEF RequestInv, Mirror
<1>10. vouched' \in [Emails -> SUBSET Ids]
  BY <1>5 DEF TypeOK
<1> QED BY <1>1, <1>3, <1>4, <1>5, <1>7, <1>8, <1>9, <1>10, StepInv

\* A row linked anew.
LEMMA UpdateInv ==
  ASSUME TypeOK, AccountInv, NEW r \in Requests, update(r)
  PROVE  TypeOK' /\ AccountInv'
<1> USE DEF whmcs, history
<1> DEFINE e == req[r].email
           c == req[r].client
<1>0. req[r] \in Request /\ e \in Emails /\ c \in vouched[e] /\ c \in Ids
      /\ user[e] \in User /\ (~moved => c \in {Zero, owner[e]})
  BY DEF update, TypeOK, AccountInv, RequestInv
<1>1. /\ user' = [user EXCEPT ![e].client = c]
      /\ Goto(r, "save") /\ user[e].exists
      /\ UNCHANGED <<owner, password, tokens, vouched, odd, moved>>
  BY DEF update, AccountInv, RequestInv
<1>2. Moves(r) /\ req'[r] = [req[r] EXCEPT !.at = "save"]
  BY <1>1, GotoMoves
<1> HIDE DEF e, c
<1>3. /\ req'[r].at = "save" /\ req'[r].email = e /\ req'[r].seen = req[r].seen
      /\ req'[r].client = c /\ req'[r].kind = req[r].kind
     
  BY <1>0, <1>2 DEF Request, e, c
<1>4. /\ user'[e] \in User /\ user'[e].client = c
      /\ user'[e].exists = user[e].exists /\ user'[e].usable = user[e].usable
      /\ \A f \in Emails \ {e} : user'[f] = user[f]
  BY <1>0, <1>1 DEF TypeOK, User
<1>5. TypeOK'
  BY <1>0, <1>1, <1>2, <1>4 DEF TypeOK, Moves
<1>6. Keeps
  BY <1>1, <1>4, StaffAssumption DEF Keeps
<1>7. TableInv'
  BY <1>0, <1>1, <1>4, StaffAssumption
     DEF AccountInv, TableInv, LinkIsVouched, MirrorIsTrue, OnlyStaffHavePasswords, TypeOK
<1>8. RequestInv(r)'
  BY <1>0, <1>1, <1>3, <1>4 DEF update, AccountInv, RequestInv, e, c
<1>9. vouched' \in [Emails -> SUBSET Ids]
  BY <1>5 DEF TypeOK, AccountInv
<1> QED BY <1>1, <1>2, <1>3, <1>5, <1>6, <1>7, <1>8, <1>9, StepInv

\* Only customers lose their local password.
LEMMA UnusableInv ==
  ASSUME TypeOK, AccountInv, NEW r \in Requests, set_unusable_password(r)
  PROVE  TypeOK' /\ AccountInv'
<1> USE DEF whmcs, history
<1> DEFINE e == req[r].email
<1>0. req[r] \in Request /\ e \in Emails /\ user[e] \in User /\ user[e].exists
      /\ (~req[r].seen.usable => ~user[e].usable)
  BY DEF set_unusable_password, TypeOK, AccountInv, RequestInv
<1>1. /\ user' = IF req[r].seen.usable /\ e \notin Staff
                   THEN [user EXCEPT ![e].usable = FALSE] ELSE user
      /\ Goto(r, "answer")
      /\ UNCHANGED <<owner, password, tokens, vouched, odd, moved>>
  BY DEF set_unusable_password
<1>2. Moves(r) /\ req'[r] = [req[r] EXCEPT !.at = "answer"]
  BY <1>1, GotoMoves
<1> HIDE DEF e
<1>3. /\ req'[r].at = "answer" /\ req'[r].email = e
      /\ req'[r].client = req[r].client /\ req'[r].kind = req[r].kind
     
  BY <1>0, <1>2 DEF Request, e
<1>4. /\ user' \in [Emails -> User]
      /\ \A f \in Emails : user'[f].exists = user[f].exists /\ user'[f].client = user[f].client
      /\ \A f \in Emails \ {e} : user'[f] = user[f]
  BY <1>0, <1>1 DEF TypeOK, User
<1>5. user'[e].usable <=> e \in Staff
  <2>1. CASE e \in Staff
    BY <1>1, <2>1 DEF AccountInv
  <2>2. CASE e \notin Staff
    <3>1. CASE req[r].seen.usable
      BY <1>0, <1>1, <2>2, <3>1 DEF TypeOK, User
    <3>2. CASE ~req[r].seen.usable
      BY <1>0, <1>1, <2>2, <3>2
    <3> QED BY <3>1, <3>2
  <2> QED BY <2>1, <2>2
<1>6. TypeOK'
  BY <1>1, <1>2, <1>4 DEF TypeOK, Moves
<1>7. Keeps
  BY <1>0, <1>1, <1>4, <1>5, StaffAssumption DEF Keeps, AccountInv
<1>8. TableInv'
  <2>1. \A f \in tokens \cup Staff : user'[f].usable <=> f \in Staff
    BY <1>4, <1>5, StaffAssumption DEF AccountInv, OnlyStaffHavePasswords, TypeOK
  <2> QED BY <1>1, <1>4, <2>1, StaffAssumption
          DEF AccountInv, TableInv, LinkIsVouched, MirrorIsTrue, OnlyStaffHavePasswords, TypeOK
<1>9. RequestInv(r)'
  BY <1>0, <1>1, <1>3, <1>4, <1>5 DEF set_unusable_password, AccountInv, RequestInv, e
<1>10. vouched' \in [Emails -> SUBSET Ids]
  BY <1>6 DEF TypeOK, AccountInv
<1> QED BY <1>1, <1>2, <1>3, <1>6, <1>7, <1>8, <1>9, <1>10, StepInv

LEMMA TokensInv ==
  ASSUME TypeOK, AccountInv, NEW r \in Requests, issue_tokens(r)
  PROVE  TypeOK' /\ AccountInv'
<1> DEFINE e == req[r].email
<1>0. e \in Emails /\ user[e].exists /\ (user[e].usable <=> e \in Staff)
  BY DEF issue_tokens, AccountInv, RequestInv
<1>1. /\ tokens' = tokens \cup {e} /\ Finish(r)
      /\ UNCHANGED <<owner, password, user, vouched, odd, moved>>
  BY DEF issue_tokens, whmcs, history
<1>2. Moves(r) /\ req'[r].at = "idle"
  BY <1>1, FinishMoves
<1> HIDE DEF e
<1>3. TypeOK'
  BY <1>0, <1>1, <1>2 DEF TypeOK, Moves
<1>4. Keeps
  BY <1>1 DEF Keeps
<1>5. TableInv'
  BY <1>0, <1>1 DEF AccountInv, TableInv, LinkIsVouched, MirrorIsTrue, OnlyStaffHavePasswords
<1>6. RequestInv(r)'
  BY <1>2, IdleInv
<1>7. vouched' \in [Emails -> SUBSET Ids]
  BY <1>3 DEF TypeOK
<1> QED BY <1>2, <1>3, <1>4, <1>5, <1>6, <1>7, StepInv

-----------------------------------------------------------------------------
(* The password change *)

LEMMA ReauthenticateInv ==
  ASSUME TypeOK, AccountInv, NEW r \in Requests, Reauthenticate(r)
  PROVE  TypeOK' /\ AccountInv'
<1> DEFINE c == owner[req[r].email]
<1>0. req[r] \in Request /\ req[r].email \in Emails /\ c = req[r].client /\ c \in Clients
      /\ req[r].kind = "change" /\ req[r].wish \in Passwords
  BY DEF Reauthenticate, Accepted, TypeOK, AccountInv, RequestInv
<1>1. /\ req' = [req EXCEPT ![r].at = "write", ![r].proved = c]
      /\ UNCHANGED <<owner, password, user, tokens, vouched, odd, moved>>
  BY DEF Reauthenticate, whmcs, bridge, history
<1> HIDE DEF c
<1>2. Moves(r) /\ req'[r] = [req[r] EXCEPT !.at = "write", !.proved = c]
  <2>1. [req[r] EXCEPT !.at = "write", !.proved = c] \in Request
    BY <1>0 DEF Request
  <2> QED BY <1>1, <2>1 DEF TypeOK, Moves
<1>3. /\ req'[r].at = "write" /\ req'[r].email = req[r].email /\ req'[r].proved = c
      /\ req'[r].client = req[r].client /\ req'[r].kind = req[r].kind
      /\ req'[r].wish = req[r].wish
  BY <1>0, <1>2 DEF Request
<1>4. RequestInv(r)'
  BY <1>0, <1>3 DEF RequestInv
<1> QED BY <1>1, <1>2, <1>3, <1>4, GotoInv

LEMMA UpdateClientInv ==
  ASSUME TypeOK, AccountInv, NEW r \in Requests, UpdateClient(r)
  PROVE  TypeOK' /\ AccountInv'
<1>1. Moves(r) /\ req'[r].at = "idle"
  BY FinishMoves DEF UpdateClient
<1>2. UNCHANGED <<owner, user, tokens, vouched, odd, moved>>
  BY DEF UpdateClient, bridge, history
<1>3. password' \in [Clients -> Passwords]
  BY DEF UpdateClient, AccountInv, RequestInv, TypeOK
<1>4. TypeOK'
  BY <1>1, <1>2, <1>3 DEF TypeOK, Moves
<1>5. Keeps /\ TableInv'
  BY <1>2, TableStays
<1>6. RequestInv(r)'
  BY <1>1, IdleInv
<1>7. vouched' \in [Emails -> SUBSET Ids]
  BY <1>4 DEF TypeOK
<1> QED BY <1>1, <1>4, <1>5, <1>6, <1>7, StepInv

-----------------------------------------------------------------------------
(* WHMCS and the admin site *)

\* Steps in which no request moves.
LEMMA OutsideInv ==
  ASSUME TypeOK, AccountInv, req' = req, Keeps, TableInv',
         vouched' \in [Emails -> SUBSET Ids]
  PROVE  AccountInv'
<1>1. \A s \in Requests : RequestInv(s)'
  BY OthersStay
<1>2. LinkingSucceeds'
  BY DEF AccountInv, LinkingSucceeds, Keeps
<1> QED BY <1>1, <1>2 DEF AccountInv, TableInv

LEMMA MoveEmailInv ==
  ASSUME TypeOK, AccountInv, NEW e \in Emails, NEW f \in Emails, MoveEmail(e, f)
  PROVE  TypeOK' /\ AccountInv'
<1> USE DEF bridge, history
<1>1. TypeOK'
  BY BoundAssumption DEF MoveEmail, Odd, TypeOK
<1>2. Keeps
  BY DEF MoveEmail, Keeps
<1>3. \A g, h \in Emails : owner'[g] = owner'[h] /\ owner'[g] # None => g = h
  BY DEF MoveEmail, TypeOK, AccountInv
<1>4. TableInv'
  BY <1>3 DEF MoveEmail, AccountInv, TableInv, LinkIsVouched, MirrorIsTrue, OnlyStaffHavePasswords
<1>5. vouched' \in [Emails -> SUBSET Ids] /\ req' = req
  BY DEF MoveEmail, TypeOK
<1> QED BY <1>1, <1>2, <1>4, <1>5, OutsideInv

LEMMA OutsidePasswordInv ==
  ASSUME TypeOK, AccountInv, NEW c \in Clients, NEW p \in Passwords, OutsidePassword(c, p)
  PROVE  TypeOK' /\ AccountInv'
<1>1. TypeOK'
  BY DEF OutsidePassword, TypeOK, bridge, history
<1>2. req' = req /\ UNCHANGED <<owner, user, tokens, vouched, odd, moved>>
  BY DEF OutsidePassword, bridge, history
<1>3. vouched' \in [Emails -> SUBSET Ids]
  BY <1>1 DEF TypeOK
<1> QED BY <1>1, <1>2, <1>3, TableStays, OutsideInv

\* A row that the form of /admin has saved keeps its password, and the client it was
\* given is vouched for.
LEMMA AdminSavesInv ==
  ASSUME TypeOK, AccountInv, NEW e \in Emails, NEW c \in Ids \cup {None}, NEW active \in BOOLEAN,
         AdminSaves(e, c, active)
  PROVE  TypeOK' /\ AccountInv'
<1>1. /\ user' = [user EXCEPT ![e].client = c, ![e].active = active]
      /\ user[e].exists
      /\ vouched' = [vouched EXCEPT ![e] = @ \cup (Ids \cap {c})]
      /\ moved' = (moved \/ c \notin {None, Zero, owner[e]})
      /\ odd' \in 0 .. MAX_ODD
      /\ req' = req /\ UNCHANGED <<owner, password, tokens>>
  BY BoundAssumption DEF AdminSaves, Odd, TypeOK
<1>2. /\ user' \in [Emails -> User]
      /\ \A f \in Emails : user'[f].exists = user[f].exists /\ user'[f].usable = user[f].usable
      /\ user'[e].client = c /\ \A f \in Emails \ {e} : user'[f].client = user[f].client
  BY <1>1 DEF TypeOK, User
<1>3. /\ vouched' \in [Emails -> SUBSET Ids]
      /\ \A f \in Emails : vouched[f] \subseteq vouched'[f]
      /\ c # None => c \in vouched'[e]
  BY <1>1 DEF TypeOK
<1>4. moved' \in BOOLEAN /\ (moved => moved') /\ (~moved' => c \in {None, Zero, owner[e]})
  BY <1>1 DEF TypeOK
<1>5. TypeOK'
  BY <1>1, <1>2, <1>3, <1>4 DEF TypeOK
<1>6. Keeps
  BY <1>1, <1>2, <1>3, <1>4, StaffAssumption DEF Keeps
<1>7. LinkIsVouched' /\ MirrorIsTrue'
  BY <1>1, <1>2, <1>3, <1>4 DEF AccountInv, LinkIsVouched, MirrorIsTrue
<1>8. OnlyStaffHavePasswords'
  BY <1>1, <1>2, StaffAssumption DEF AccountInv, OnlyStaffHavePasswords, TypeOK
<1>9. TableInv'
  BY <1>1, <1>2, <1>7, <1>8, StaffAssumption DEF AccountInv, TableInv, TypeOK
<1> QED BY <1>1, <1>3, <1>5, <1>6, <1>9, OutsideInv

LEMMA StutterInv ==
  ASSUME TypeOK, AccountInv, UNCHANGED vars
  PROVE  TypeOK' /\ AccountInv'
<1>1. req' = req /\ UNCHANGED <<owner, password, user, tokens, vouched, odd, moved>>
  BY DEF vars
<1>2. TypeOK'
  BY <1>1 DEF TypeOK
<1>3. vouched' \in [Emails -> SUBSET Ids]
  BY <1>2 DEF TypeOK
<1> QED BY <1>1, <1>2, <1>3, TableStays, OutsideInv

-----------------------------------------------------------------------------
(* The theorems *)

LEMMA NextInv == TypeOK /\ AccountInv /\ [Next]_vars => (TypeOK /\ AccountInv)'
<1> SUFFICES ASSUME TypeOK, AccountInv, [Next]_vars PROVE TypeOK' /\ AccountInv'
  OBVIOUS
<1>1. ASSUME NEW r \in Requests, LinkStep(r) PROVE TypeOK' /\ AccountInv'
  BY <1>1, GetInv, CreateInv, CollidesInv, RegetInv, UpdateInv, UpdateCollidesInv,
     UnusableInv, TokensInv, RefusedInv DEF LinkStep
<1>2. ASSUME NEW r \in Requests, RequestStep(r) PROVE TypeOK' /\ AccountInv'
  BY <1>2, ValidateInv, UnprocessedInv, RefusedInv, ReauthenticateInv, UpdateClientInv DEF RequestStep
<1> QED BY <1>1, <1>2, BeginInv, RegisterInv, UnansweredInv, MoveEmailInv,
           OutsidePasswordInv, AdminSavesInv, StutterInv DEF Next

LEMMA Invariance == Spec => [](TypeOK /\ AccountInv)
  BY InitInv, NextInv, PTL DEF Spec

\* The inductive invariant: what requests under way may rely on, and what the
\* table of users says.
THEOREM AccountInvariance == Spec => []AccountInv
  BY Invariance, PTL

\* The table, the requests and WHMCS' records stay well formed.
THEOREM AccountTypeCorrect == Spec => []TypeOK
  BY Invariance, PTL

\* A row is linked only to a client that WHMCS confirmed for its email or that an
\* administrator gave it, or to the id 0 after an answer that named no client.
THEOREM LinksAreVouched == Spec => []LinkIsVouched
<1>1. AccountInv => LinkIsVouched
  BY DEF AccountInv
<1> QED BY <1>1, AccountInvariance, PTL

\* While no email is moved in WHMCS and no row given another's client, link_to_whmcs
\* never raises for a client, whoever races; a second row of the id 0 makes it raise.
THEOREM LinkingNeverRaises == Spec => []LinkingSucceeds
<1>1. AccountInv => LinkingSucceeds
  BY DEF AccountInv
<1> QED BY <1>1, AccountInvariance, PTL

\* Rows with a JWT have no local password, and staff keep theirs.
THEOREM PasswordsAreStaffs == Spec => []OnlyStaffHavePasswords
<1>1. AccountInv => OnlyStaffHavePasswords
  BY DEF AccountInv
<1> QED BY <1>1, AccountInvariance, PTL

\* A password that a request changes is that of the client the request has
\* proved, whatever was moved, linked or changed since.
LEMMA ChangeStep ==
  ASSUME TypeOK, AccountInv, [Next]_vars, NEW c \in Clients,
         Exists(c), password'[c] # password[c], req' # req
  PROVE  \E r \in Requests : req[r].kind = "change" /\ req[r].proved = c
<1>1. PICK r \in Requests : \/ \E d \in Clients : AddClient(r, d)
                            \/ UpdateClient(r)
  <2>1. password' # password
    OBVIOUS
  <2>2. ASSUME NEW r \in Requests, LinkStep(r) PROVE FALSE
    BY <2>1, <2>2
       DEF LinkStep, get, create, CreateCollides, reget, update, UpdateCollides,
           set_unusable_password, issue_tokens, Disabled, whmcs
  <2>3. ASSUME NEW r \in Requests, RequestStep(r) PROVE UpdateClient(r)
    BY <2>1, <2>3
       DEF RequestStep, validate_login, LoginUnconfirmed, InvalidCredentials,
           RegisterUnprocessed, RegisterRefused, RequestFails, Reauthenticate,
           ReauthenticateUnconfirmed, OtherClient, whmcs
  <2>4. ASSUME NEW r \in Requests, NEW e \in Emails, NEW p \in Passwords,
               \/ Login(r, e, p) \/ Register(r, e, p)
               \/ \E wish \in Passwords : ChangePassword(r, e, p, wish)
        PROVE  FALSE
    BY <2>1, <2>4 DEF Login, Register, ChangePassword, whmcs
  <2>5. ASSUME NEW r \in Requests, NEW d \in Clients,
               register(r, d) \/ RegisterUnconfirmed(r, d) \/ RegisterUnanswered(r, d)
        PROVE  AddClient(r, d)
    BY <2>5 DEF register, RegisterUnconfirmed, RegisterUnanswered
  <2>6. ASSUME NEW e \in Emails, NEW f \in Emails, MoveEmail(e, f) PROVE FALSE
    BY <2>6 DEF MoveEmail, bridge
  <2>7. ASSUME NEW d \in Clients, NEW p \in Passwords, OutsidePassword(d, p) PROVE FALSE
    BY <2>7 DEF OutsidePassword
  <2>8. ASSUME NEW e \in Emails, NEW d \in Ids \cup {None}, NEW active \in BOOLEAN,
               AdminSaves(e, d, active)
        PROVE  FALSE
    BY <2>8 DEF AdminSaves
  <2>9. CASE UNCHANGED vars
    BY <2>9 DEF vars
  <2> QED BY <2>2, <2>3, <2>4, <2>5, <2>6, <2>7, <2>8, <2>9 DEF Next
<1>2. ASSUME NEW d \in Clients, AddClient(r, d) PROVE FALSE
  BY <1>2 DEF AddClient, TypeOK
<1>3. CASE UpdateClient(r)
  <2>1. req[r].client = c
    BY <1>3 DEF UpdateClient, TypeOK
  <2> QED BY <1>3, <2>1 DEF UpdateClient, AccountInv, RequestInv
<1> QED BY <1>1, <1>2, <1>3

\* The bridge changes a client's password only for a request that has shown
\* this client's password.
THEOREM ChangesAreProven == Spec => ChangeIsProven
<1>1. TypeOK /\ AccountInv /\ [Next]_vars =>
        [\A c \in Clients :
           Exists(c) /\ password'[c] # password[c] /\ req' # req =>
             \E r \in Requests : req[r].kind = "change" /\ req[r].proved = c]_vars
  BY ChangeStep
<1> QED BY <1>1, Invariance, PTL DEF Spec, ChangeIsProven
=============================================================================
