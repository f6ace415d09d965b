------------------------------ MODULE Accounts ------------------------------
(***************************************************************************)
(* apps/accounts and AccountService: WHMCS owns customers, their emails and*)
(* their passwords; the bridge keeps one row per email, the mirror, that   *)
(* links the email to a WHMCS client and carries the JWT identity.  Login, *)
(* registration and a password change are modelled with every call to      *)
(* WHMCS and to the database as a step of its own; requests interleave.    *)
(*                                                                         *)
(* WHMCS is external: a client has one email, no two have the same, and    *)
(* its staff may give a client another email.  A password that was never   *)
(* set and a wrong one are the same.  Emails compare as link_to_whmcs      *)
(* stores them, in lower case.  An answer may be a JSON object that says   *)
(* neither success nor error, of WHMCS or of what stands before it: the    *)
(* client in it is then Zero, to_int's default.                            *)
(***************************************************************************)
EXTENDS Naturals, FiniteSets

CONSTANTS
  Emails,     \* email addresses
  Staff,      \* emails of rows made with createsuperuser
  Clients,    \* WHMCS client ids
  Passwords,  \* passwords that anyone may think of
  Requests,   \* requests being served at the same time
  MAX_ODD,    \* the bound of odd
  Zero,       \* the client id 0, which no client has
  None

ASSUME StaffAssumption == Staff \subseteq Emails

ASSUME NoneAssumption == None \notin Clients \cup Passwords

ASSUME BoundAssumption == MAX_ODD \in Nat

ASSUME ZeroAssumption == Zero \notin Clients \cup {None}

VARIABLES
  owner,     \* WHMCS: the client that has an email, or None
  password,  \* WHMCS: the password of a client
  user,      \* the bridge's User table, one row per email
  req,       \* where each request is, and what it has read so far
  tokens,    \* emails whose row has been given a JWT pair
  vouched,   \* history: the clients that answers of WHMCS have named for an
             \* email, by password or birth, or an administrator has; Zero
             \* stands for an answer that named none
  odd,       \* how many answers have named no client, emails been moved and
             \* forms of the admin site been saved
  moved      \* history: has an email ever left its client, or a row been given
             \* another client than its email has?

vars == <<owner, password, user, req, tokens, vouched, odd, moved>>

whmcs   == <<owner, password, moved>>
bridge  == <<user, tokens>>
history == <<vouched, odd>>

-----------------------------------------------------------------------------

Ids == Clients \cup {Zero}

User == [exists : BOOLEAN, client : Ids \cup {None}, usable : BOOLEAN, active : BOOLEAN]

NoUser == [exists |-> FALSE, client |-> None, usable |-> FALSE, active |-> FALSE]

\* get_or_create's INSERT: Django counts an empty password as usable.
Mirror(c) == [exists |-> TRUE, client |-> c, usable |-> TRUE, active |-> TRUE]

\* `client` is the one the request acts for, `proved` the one whose password it
\* has shown, `seen` the row as it was read, `wish` the new password.
Request ==
  [at : {"idle", "validate", "add", "get", "create", "reget", "update", "save",
         "answer", "write", "raised"},
   kind : {"login", "register", "change"},
   email : Emails \cup {None},
   password : Passwords \cup {None}, wish : Passwords \cup {None},
   client : Ids \cup {None}, proved : Clients \cup {None},
   seen : User]

TypeOK ==
  /\ owner \in [Emails -> Clients \cup {None}]
  /\ password \in [Clients -> Passwords]
  /\ user \in [Emails -> User]
  /\ req \in [Requests -> Request]
  /\ tokens \subseteq Emails
  /\ vouched \in [Emails -> SUBSET Ids]
  /\ odd \in 0 .. MAX_ODD
  /\ moved \in BOOLEAN

NoRequest ==
  [at |-> "idle", kind |-> "login", email |-> None, password |-> None, wish |-> None,
   client |-> None, proved |-> None, seen |-> NoUser]

Exists(c) == \E e \in Emails : owner[e] = c

Init ==
  /\ owner \in [Emails -> Clients \cup {None}]
  /\ \A e, f \in Emails : owner[e] = owner[f] /\ owner[e] # None => e = f
  /\ password \in [Clients -> Passwords]
  /\ user = [e \in Emails |-> IF e \in Staff THEN Mirror(None) ELSE NoUser]
  /\ req = [r \in Requests |-> NoRequest]
  /\ tokens = {}
  /\ vouched = [e \in Emails |-> {}]
  /\ odd = 0
  /\ moved = FALSE

Goto(r, step) == req' = [req EXCEPT ![r].at = step]

\* The request is answered; what the answer says beyond the state is left out.
Finish(r) == req' = [req EXCEPT ![r] = NoRequest]

\* IntegrityError ends the request; for whom it was to be linked is kept.
Raise(r) ==
  req' = [req EXCEPT ![r] = [NoRequest EXCEPT !.at = "raised", !.client = req[r].client]]

Odd == odd < MAX_ODD /\ odd' = odd + 1

Idle(r) == req[r].at \in {"idle", "raised"}

-----------------------------------------------------------------------------
(* LoginView and RegisterView, up to WHMCS' answer *)

Login(r, e, p) ==
  /\ Idle(r)
  /\ req' = [req EXCEPT ![r] =
       [NoRequest EXCEPT !.at = "validate", !.kind = "login", !.email = e, !.password = p]]
  /\ UNCHANGED <<whmcs, bridge, history>>

\* validate_email: no row has the email.
Register(r, e, p) ==
  /\ Idle(r)
  /\ ~user[e].exists
  /\ req' = [req EXCEPT ![r] =
       [NoRequest EXCEPT !.at = "add", !.kind = "register", !.email = e, !.password = p]]
  /\ UNCHANGED <<whmcs, bridge, history>>

\* What ValidateLogin says of a request's email and password.
Accepted(r) ==
  LET c == owner[req[r].email] IN c # None /\ password[c] = req[r].password

\* The answer names a client, or none: the request goes on with its id.
Named(r, c) ==
  /\ req' = [req EXCEPT ![r].at = "get", ![r].client = c, ![r].password = None]
  /\ vouched' = [vouched EXCEPT ![req[r].email] = @ \cup {c}]
  /\ IF c = Zero THEN Odd ELSE UNCHANGED odd

\* Fault: another field of the answer is read.
validate_login_OtherField(r) ==
  /\ req[r].at = "validate"
  /\ req[r].kind = "login"
  /\ Accepted(r)
  /\ req' = [req EXCEPT ![r].at = "get", ![r].client = req[r].password]
  /\ UNCHANGED <<whmcs, bridge, history>>

validate_login(r) ==
  LET c == owner[req[r].email] IN
    /\ req[r].at = "validate"
    /\ req[r].kind = "login"
    /\ Accepted(r)
    /\ Named(r, c)
    /\ UNCHANGED <<whmcs, bridge>>

InvalidCredentials(r) ==
  /\ req[r].at = "validate"
  /\ ~Accepted(r)
  /\ Finish(r)
  /\ UNCHANGED <<whmcs, bridge, history>>

\* The answer names no client: a login goes on with the id 0, and a password change
\* is for another client.
LoginUnconfirmed(r) ==
  /\ req[r].at = "validate"
  /\ req[r].kind = "login"
  /\ Named(r, Zero)
  /\ UNCHANGED <<whmcs, bridge>>

ReauthenticateUnconfirmed(r) ==
  /\ req[r].at = "validate"
  /\ req[r].kind = "change"
  /\ Finish(r)
  /\ UNCHANGED <<whmcs, bridge, history>>

\* AddClient: WHMCS makes a client of an email that none has.
AddClient(r, c) ==
  /\ req[r].at = "add"
  /\ owner[req[r].email] = None
  /\ ~Exists(c)
  /\ owner' = [owner EXCEPT ![req[r].email] = c]
  /\ password' = [password EXCEPT ![c] = req[r].password]
  /\ UNCHANGED <<bridge, moved>>

register(r, c) ==
  /\ AddClient(r, c)
  /\ Named(r, c)

\* The answer names no client, whether or not there is one now: the id is 0.
RegisterUnconfirmed(r, c) == AddClient(r, c) /\ Named(r, Zero)

RegisterUnprocessed(r) ==
  /\ req[r].at = "add"
  /\ Named(r, Zero)
  /\ UNCHANGED <<whmcs, bridge>>

\* The answer is lost: there is a client, and no row.
RegisterUnanswered(r, c) ==
  /\ AddClient(r, c)
  /\ Finish(r)
  /\ UNCHANGED history

\* Fault: find_client_id_by_email instead of an error.
RegisterRefused_Finds(r) ==
  /\ req[r].at = "add"
  /\ owner[req[r].email] # None
  /\ req' = [req EXCEPT ![r].at = "get", ![r].client = owner[req[r].email]]
  /\ UNCHANGED <<whmcs, bridge, history>>

RegisterRefused(r) ==
  /\ req[r].at = "add"
  /\ owner[req[r].email] # None
  /\ Finish(r)
  /\ UNCHANGED <<whmcs, bridge, history>>

\* WhmcsTransportError, or the request dies: nothing happens any more.
RequestFails(r) ==
  /\ ~Idle(r)
  /\ Finish(r)
  /\ UNCHANGED <<whmcs, bridge, history>>

-----------------------------------------------------------------------------
(* UserManager.link_to_whmcs *)

\* The row was found: it may have to be linked anew.
Found(r, row) ==
  req' = [req EXCEPT ![r].seen = row,
                     ![r].at = IF row.client # req[r].client THEN "update" ELSE "save"]

\* get_or_create: SELECT by email.
get(r) ==
  /\ req[r].at = "get"
  /\ IF user[req[r].email].exists THEN Found(r, user[req[r].email]) ELSE Goto(r, "create")
  /\ UNCHANGED <<whmcs, bridge, history>>

\* The unique column: another row has the client already.
Linked(e, c) == \E f \in Emails \ {e} : user[f].exists /\ user[f].client = c

\* INSERT.
create(r) ==
  LET e == req[r].email
      c == req[r].client
  IN  /\ req[r].at = "create"
      /\ ~user[e].exists /\ ~Linked(e, c)
      /\ user' = [user EXCEPT ![e] = Mirror(c)]
      /\ req' = [req EXCEPT ![r].at = "save", ![r].seen = Mirror(c)]
      /\ UNCHANGED <<whmcs, tokens, history>>

\* Fault: create instead of get_or_create.
CreateCollides_Raises(r) ==
  /\ req[r].at = "create"
  /\ user[req[r].email].exists \/ Linked(req[r].email, req[r].client)
  /\ Raise(r)
  /\ UNCHANGED <<whmcs, bridge, history>>

\* IntegrityError: the email, or the client, has a row by now; get_or_create
\* looks the email up again ...
CreateCollides(r) ==
  /\ req[r].at = "create"
  /\ user[req[r].email].exists \/ Linked(req[r].email, req[r].client)
  /\ Goto(r, "reget")
  /\ UNCHANGED <<whmcs, bridge, history>>

\* ... and raises when it was not the email.
reget(r) ==
  /\ req[r].at = "reget"
  /\ IF user[req[r].email].exists THEN Found(r, user[req[r].email]) ELSE Raise(r)
  /\ UNCHANGED <<whmcs, bridge, history>>

\* save(update_fields=["whmcs_client_id"]).
update(r) ==
  /\ req[r].at = "update"
  /\ ~Linked(req[r].email, req[r].client)
  /\ user' = [user EXCEPT ![req[r].email].client = req[r].client]
  /\ Goto(r, "save")
  /\ UNCHANGED <<whmcs, tokens, history>>

UpdateCollides(r) ==
  /\ req[r].at = "update"
  /\ Linked(req[r].email, req[r].client)
  /\ Raise(r)
  /\ UNCHANGED <<whmcs, bridge, history>>

\* Fault: staff lose their password for /admin.
set_unusable_password_Staff(r) ==
  /\ req[r].at = "save"
  /\ user' = [user EXCEPT ![req[r].email].usable = FALSE]
  /\ Goto(r, "answer")
  /\ UNCHANGED <<whmcs, tokens, history>>

\* save(update_fields=["password"]), as the row was when it was read.
set_unusable_password(r) ==
  /\ req[r].at = "save"
  /\ user' = IF req[r].seen.usable /\ req[r].email \notin Staff
               THEN [user EXCEPT ![req[r].email].usable = FALSE] ELSE user
  /\ Goto(r, "answer")
  /\ UNCHANGED <<whmcs, tokens, history>>

\* Only the login looks at is_active.
issue_tokens(r) ==
  /\ req[r].at = "answer"
  /\ req[r].kind = "register" \/ req[r].seen.active
  /\ tokens' = tokens \cup {req[r].email}
  /\ Finish(r)
  /\ UNCHANGED <<whmcs, user, history>>

Disabled(r) ==
  /\ req[r].at = "answer"
  /\ req[r].kind = "login" /\ ~req[r].seen.active
  /\ Finish(r)
  /\ UNCHANGED <<whmcs, bridge, history>>

-----------------------------------------------------------------------------
(* PasswordChangeView *)

\* The JWT names the row; its client is read once, when the request is
\* authenticated (IsLinkedToWhmcsClient: neither missing nor 0).
ChangePassword(r, e, p, wish) ==
  /\ Idle(r)
  /\ e \in tokens
  /\ user[e].active
  /\ user[e].client \notin {None, Zero}
  /\ p # wish
  /\ req' = [req EXCEPT ![r] =
       [NoRequest EXCEPT !.at = "validate", !.kind = "change", !.email = e,
                         !.password = p, !.wish = wish, !.client = user[e].client]]
  /\ UNCHANGED <<whmcs, bridge, history>>

\* Fault: the password of whichever client has the email is good enough.
Reauthenticate_AnyClient(r) ==
  /\ req[r].at = "validate"
  /\ req[r].kind = "change"
  /\ Accepted(r)
  /\ req' = [req EXCEPT ![r].at = "write", ![r].proved = owner[req[r].email]]
  /\ UNCHANGED <<whmcs, bridge, history>>

\* The email and the password must be those of the session's client.
Reauthenticate(r) ==
  /\ req[r].at = "validate"
  /\ req[r].kind = "change"
  /\ Accepted(r)
  /\ owner[req[r].email] = req[r].client
  /\ req' = [req EXCEPT ![r].at = "write", ![r].proved = owner[req[r].email]]
  /\ UNCHANGED <<whmcs, bridge, history>>

OtherClient(r) ==
  /\ req[r].at = "validate"
  /\ req[r].kind = "change"
  /\ Accepted(r)
  /\ owner[req[r].email] # req[r].client
  /\ Finish(r)
  /\ UNCHANGED <<whmcs, bridge, history>>

\* UpdateClient, carried out or not, answered or not: an answer that says neither
\* success nor error counts as one.
UpdateClient(r) ==
  /\ req[r].at = "write"
  /\ password' \in {password, [password EXCEPT ![req[r].client] = req[r].wish]}
  /\ Finish(r)
  /\ UNCHANGED <<owner, moved, bridge, history>>

-----------------------------------------------------------------------------
(* WHMCS and the admin site *)

\* Staff give a client another email, that nobody has.
MoveEmail(e, f) ==
  /\ owner[e] # None /\ owner[f] = None
  /\ owner' = [owner EXCEPT ![e] = None, ![f] = owner[e]]
  /\ Odd
  /\ moved' = TRUE
  /\ UNCHANGED <<password, bridge, req, vouched>>

\* A password is set in WHMCS.
OutsidePassword(c, p) ==
  /\ password' = [password EXCEPT ![c] = p]
  /\ UNCHANGED <<owner, moved, bridge, req, history>>

\* The form of /admin: a row is disabled or enabled, or given a client that no
\* other row has, which no one checks with WHMCS.
AdminSaves(e, c, active) ==
  /\ user[e].exists
  /\ c # None => ~Linked(e, c)
  /\ user' = [user EXCEPT ![e].client = c, ![e].active = active]
  /\ vouched' = [vouched EXCEPT ![e] = @ \cup (Ids \cap {c})]
  /\ Odd
  /\ moved' = (moved \/ c \notin {None, Zero, owner[e]})
  /\ UNCHANGED <<owner, password, req, tokens>>

LinkStep(r) ==
  \/ get(r) \/ create(r) \/ CreateCollides(r) \/ reget(r) \/ update(r) \/ UpdateCollides(r)
  \/ set_unusable_password(r) \/ issue_tokens(r) \/ Disabled(r)

RequestStep(r) ==
  \/ validate_login(r) \/ LoginUnconfirmed(r) \/ InvalidCredentials(r)
  \/ RegisterUnprocessed(r) \/ RegisterRefused(r) \/ RequestFails(r)
  \/ Reauthenticate(r) \/ ReauthenticateUnconfirmed(r) \/ OtherClient(r) \/ UpdateClient(r)

Next ==
  \/ \E r \in Requests : LinkStep(r) \/ RequestStep(r)
  \/ \E r \in Requests, e \in Emails, p \in Passwords :
       \/ Login(r, e, p) \/ Register(r, e, p)
       \/ \E wish \in Passwords : ChangePassword(r, e, p, wish)
  \/ \E r \in Requests, c \in Clients :
       register(r, c) \/ RegisterUnconfirmed(r, c) \/ RegisterUnanswered(r, c)
  \/ \E e, f \in Emails : MoveEmail(e, f)
  \/ \E c \in Clients, p \in Passwords : OutsidePassword(c, p)
  \/ \E e \in Emails, c \in Ids \cup {None}, active \in BOOLEAN : AdminSaves(e, c, active)

Spec == Init /\ [][Next]_vars

-----------------------------------------------------------------------------
(* Safety *)

\* Whatever interleaves, a row is linked only to a client that WHMCS confirmed for
\* this very email, by its password or by making it, or that an administrator gave
\* it - or to none, id 0, after an answer that named no client (link_to_whmcs).
LinkIsVouched ==
  \A e \in Emails : user[e].client # None => user[e].client \in vouched[e]

\* As long as WHMCS has not moved an email, nor an administrator given a row another
\* client, no two first logins, registrations and relinkings that race make
\* link_to_whmcs raise for a client: whoever WHMCS confirmed is let in.  Of the rows
\* whose answers named no client, only one can have the id 0.
LinkingSucceeds ==
  ~moved => \A r \in Requests : req[r].at = "raised" => req[r].client = Zero

\* models.py: "Deliberately absent: customer passwords."  Who has a JWT has no
\* local password, except staff, who keep theirs for /admin.
OnlyStaffHavePasswords ==
  \A e \in tokens \cup Staff : user[e].usable <=> e \in Staff

\* models.py: link_to_whmcs is to "get-or-create the local mirror of a WHMCS
\* client": whoever WHMCS confirmed is let in.
ConfirmedIsLinked ==
  \A r \in Requests : req[r].at = "raised" => req[r].client = Zero

\* What requests under way may rely on.
RequestInv(r) ==
  LET q == req[r] IN
    /\ q.at \notin {"idle", "raised"} => q.email \in Emails
    /\ q.at = "validate" /\ q.kind = "change" => q.wish \in Passwords
    /\ q.at = "add" => q.kind = "register" /\ q.password \in Passwords
    /\ q.at \in {"get", "create", "reget", "update", "save", "answer"} =>
         /\ q.kind # "change"
         /\ q.client \in vouched[q.email]
         /\ ~moved => q.client \in {Zero, owner[q.email]}
    /\ q.at \in {"update", "save", "answer"} => user[q.email].exists
    /\ q.at = "reget" /\ ~moved /\ q.client # Zero => user[q.email].exists
    /\ q.at = "answer" => (user[q.email].usable <=> q.email \in Staff)
    /\ q.at \in {"update", "save"} /\ ~q.seen.usable => ~user[q.email].usable
    /\ q.at = "write" => /\ q.kind = "change" /\ q.proved = q.client
                         /\ q.client \in Clients /\ q.wish \in Passwords

MirrorIsTrue ==
  ~moved => \A e \in Emails : user[e].client \in {None, Zero, owner[e]}

AccountInv ==
  /\ \A r \in Requests : RequestInv(r)
  /\ \A e \in Emails : user[e].client # None => user[e].exists
  /\ \A e \in tokens \cup Staff : user[e].exists
  /\ \A e \in Staff : user[e].usable
  /\ \A e, f \in Emails : owner[e] = owner[f] /\ owner[e] # None => e = f
  /\ LinkIsVouched /\ MirrorIsTrue /\ LinkingSucceeds /\ OnlyStaffHavePasswords

\* services/accounts.py: "possession of a JWT is not enough to change the
\* password behind it".  The bridge changes a client's password only for a
\* request that has shown this client's password.
ChangeIsProven ==
  [][\A c \in Clients :
       Exists(c) /\ password'[c] # password[c] /\ req' # req =>
         \E r \in Requests : req[r].kind = "change" /\ req[r].proved = c]_vars
=============================================================================
