------------------------------- MODULE Accounts -------------------------------
(* Accounts and their administration: the users table, the sessions that the   *)
(* browsers hold, the verification of a request against both, and the handlers *)
(* that change accounts.  Between the verification, in the middleware, and the *)
(* handler lie awaits, so requests overlap.  The command line runs in          *)
(* processes of its own.                                                       *)
EXTENDS Naturals, FiniteSets

CONSTANTS Users,        \* user names, each with at most one account
          Browsers,
          Bootstrapped, \* the name that deployment gives an account
          NoUser,       \* None, for a user
          NoSession,    \* no cookie, or a page without forms
          MaxLogins,    \* bound: sessions ever issued
          MaxInFlight,  \* bound: requests between verification and handler
          MaxOutages,   \* bound: verifications in which the database fails
          MaxCommands   \* bound: rejections on the command line

ASSUME AccountsAssumption ==
    /\ Bootstrapped \in Users
    /\ NoUser \notin Users
    /\ MaxLogins \in Nat /\ MaxInFlight \in Nat
    /\ MaxOutages \in Nat /\ MaxCommands \in Nat

(* What a cookie holds, signed: it says what was true at the login.  id stands *)
(* for the CSRF token in it.                                                   *)
Sessions == [user : Users, admin : BOOLEAN, id : 1..MaxLogins]

ASSUME NoSessionAssumption == NoSession \notin Sessions

VARIABLES status,    \* status[u]: users.status, "none" without a row
          admin,     \* admin[u]: users.is_admin
          cookie,    \* cookie[b]: the session of browser b
          page,      \* page[b]: the session whose token is in the forms b shows
          expired,   \* the sessions, by id, that are past their time
          reqs,      \* requests verified and not yet handled
          logins, outages, commands,  \* how many there have been
          overlapped \* history: two requests were in flight at once

vars == <<status, admin, cookie, page, expired, reqs, logins, outages, commands,
          overlapped>>

Kinds == {"approve", "reject", "create", "createAdmin"}

(* session and shown are what the request carries, user and admin what the     *)
(* middleware made of it (request.state).                                      *)
Requests == [session : Sessions, shown : Sessions, user : Users \union {NoUser},
             admin : BOOLEAN, kind : Kinds, target : Users]

TypeOK ==
    /\ status \in [Users -> {"none", "pending", "active", "rejected"}]
    /\ admin \in [Users -> BOOLEAN]
    /\ cookie \in [Browsers -> Sessions \union {NoSession}]
    /\ page \in [Browsers -> Sessions \union {NoSession}]
    /\ expired \subseteq 1..MaxLogins
    /\ reqs \subseteq Requests
    /\ logins \in 0..MaxLogins
    /\ outages \in 0..MaxOutages
    /\ commands \in 0..MaxCommands
    /\ overlapped \in BOOLEAN

Init ==
    /\ status = [u \in Users |-> "none"]
    /\ admin = [u \in Users |-> FALSE]
    /\ cookie = [b \in Browsers |-> NoSession]
    /\ page = [b \in Browsers |-> NoSession]
    /\ expired = {}
    /\ reqs = {}
    /\ logins = 0 /\ outages = 0 /\ commands = 0
    /\ overlapped = FALSE

Exists(u) == status[u] # "none"

ActiveAdmin(u) == status[u] = "active" /\ admin[u]

(* A name is inserted once: username is UNIQUE, and every caller takes the     *)
(* exception for an answer.                                                    *)
CreateUser(u, isAdmin, st) ==
    /\ ~Exists(u)
    /\ status' = [status EXCEPT ![u] = st]
    /\ admin' = [admin EXCEPT ![u] = isAdmin]

SetStatus(u, st) ==
    /\ Exists(u)
    /\ status' = [status EXCEPT ![u] = st]
    /\ UNCHANGED admin

--------------------------------------------------------------------------------
(* Browsers: registration, login, logout.                                      *)

Register(u) ==
    /\ CreateUser(u, FALSE, "pending")
    /\ UNCHANGED <<cookie, page, expired, reqs, logins, outages, commands, overlapped>>

(* With the right password; the page that the browser shows stays.             *)
Login(b, u) ==
    /\ logins < MaxLogins
    /\ status[u] = "active"
    /\ logins' = logins + 1
    /\ cookie' = [cookie EXCEPT ![b] =
                     [user |-> u, admin |-> admin[u], id |-> logins + 1]]
    /\ UNCHANGED <<status, admin, page, expired, reqs, outages, commands, overlapped>>

(* verify_session and get_csrf_token: signed by us, and not past its time.     *)
Verifies(s) == s # NoSession /\ s.id \notin expired

(* require_csrf: the form was rendered for the session that comes with it.     *)
CsrfHolds(s, shown) == Verifies(s) /\ shown.id = s.id

Logout(b) ==
    /\ page[b] # NoSession
    /\ CsrfHolds(cookie[b], page[b])
    /\ cookie' = [cookie EXCEPT ![b] = NoSession]
    /\ UNCHANGED <<status, admin, page, expired, reqs, logins, outages, commands, overlapped>>

(* A token outlives its time, and with max_age the cookie does as well.        *)
Expire(s) ==
    /\ s \in 1..logins \ expired
    /\ expired' = expired \union {s}
    /\ UNCHANGED <<status, admin, cookie, page, reqs, logins, outages, commands, overlapped>>

--------------------------------------------------------------------------------
(* The middleware.                                                             *)

Identities == [user : Users \union {NoUser}, admin : BOOLEAN]

(* Whom the middleware takes the sender for: what the table says now of the    *)
(* user in the cookie.                                                         *)
Verified(s) == IF status[s.user] = "active"
                 THEN [user |-> s.user, admin |-> admin[s.user]]
                 ELSE [user |-> NoUser, admin |-> FALSE]

(* When the database fails, what the cookie says has to do.                    *)
Middleware(s, who) ==
    \/ who = Verified(s) /\ UNCHANGED outages
    \/ /\ outages < MaxOutages
       /\ outages' = outages + 1
       /\ who = [user |-> s.user, admin |-> s.admin]

(* Any page with a form: at least the one to log out, for who is logged in.    *)
ShowPage(b) ==
    /\ Verifies(cookie[b])
    /\ \E who \in Identities : Middleware(cookie[b], who) /\ who.user # NoUser
    /\ page' = [page EXCEPT ![b] = cookie[b]]
    /\ UNCHANGED <<status, admin, cookie, expired, reqs, logins, commands, overlapped>>

(* A request to a route of the administrators, with the token of the page and  *)
(* the cookie that the browser has by now.  An account is approved or rejected *)
(* by its id, so it has one.                                                   *)
Post(b, kind, target) ==
    /\ Cardinality(reqs) < MaxInFlight
    /\ page[b] # NoSession
    /\ Verifies(cookie[b])
    /\ kind \in {"approve", "reject"} => Exists(target)
    /\ \E who \in Identities :
          /\ Middleware(cookie[b], who)
          /\ reqs' = reqs \union {[session |-> cookie[b], shown |-> page[b],
                                  user |-> who.user, admin |-> who.admin,
                                  kind |-> kind, target |-> target]}
    /\ overlapped' = (overlapped \/ reqs # {})
    /\ UNCHANGED <<status, admin, cookie, page, expired, logins, commands>>

--------------------------------------------------------------------------------
(* The handlers of the administrators.                                         *)

(* Mistakes: any form of a session will do; a session is enough.               *)
AllowedByAnyForm(r) == Verifies(r.session) /\ r.admin
AllowedToUsers(r) == CsrfHolds(r.session, r.shown) /\ r.user # NoUser

Allowed(r) == CsrfHolds(r.session, r.shown) /\ r.admin

(* The request is answered; what it may still change is users.                 *)
Answer(r) ==
    /\ reqs' = reqs \ {r}
    /\ UNCHANGED <<cookie, page, expired, logins, outages, commands, overlapped>>

ApproveUser(r) ==
    /\ r.kind = "approve" /\ Allowed(r)
    /\ SetStatus(r.target, "active")
    /\ Answer(r)

(* Mistake: anybody may reject herself.                                        *)
RejectAnyUser(r) ==
    /\ r.kind = "reject" /\ Allowed(r)
    /\ SetStatus(r.target, "rejected")
    /\ Answer(r)

(* Nobody rejects herself.                                                     *)
RejectUser(r) ==
    /\ r.kind = "reject" /\ Allowed(r)
    /\ r.target # r.user
    /\ SetStatus(r.target, "rejected")
    /\ Answer(r)

CreateUserRoute(r) ==
    /\ r.kind \in {"create", "createAdmin"} /\ Allowed(r)
    /\ CreateUser(r.target, r.kind = "createAdmin", "active")
    /\ Answer(r)

(* A redirect, or a 403, and nothing else.                                     *)
Refuse(r) ==
    /\ \/ ~Allowed(r)
       \/ r.kind = "reject" /\ r.target = r.user
       \/ r.kind \in {"create", "createAdmin"} /\ Exists(r.target)
    /\ Answer(r)
    /\ UNCHANGED <<status, admin>>

--------------------------------------------------------------------------------
(* The command line.                                                           *)

Bootstrap ==
    /\ CreateUser(Bootstrapped, TRUE, "active")
    /\ UNCHANGED <<cookie, page, expired, reqs, logins, outages, commands, overlapped>>

CreateCommand(u, isAdmin) ==
    /\ CreateUser(u, isAdmin, "active")
    /\ UNCHANGED <<cookie, page, expired, reqs, logins, outages, commands, overlapped>>

ApproveCommand(u) ==
    /\ SetStatus(u, "active")
    /\ UNCHANGED <<cookie, page, expired, reqs, logins, outages, commands, overlapped>>

RejectCommand(u) ==
    /\ commands < MaxCommands
    /\ commands' = commands + 1
    /\ SetStatus(u, "rejected")
    /\ UNCHANGED <<cookie, page, expired, reqs, logins, outages, overlapped>>

--------------------------------------------------------------------------------
Next ==
    \/ \E u \in Users : Register(u) \/ ApproveCommand(u) \/ RejectCommand(u)
    \/ \E u \in Users, isAdmin \in BOOLEAN : CreateCommand(u, isAdmin)
    \/ Bootstrap
    \/ \E b \in Browsers, u \in Users : Login(b, u)
    \/ \E b \in Browsers : Logout(b) \/ ShowPage(b)
    \/ \E s \in 1..MaxLogins : Expire(s)
    \/ \E b \in Browsers, kind \in Kinds, target \in Users : Post(b, kind, target)
    \/ \E r \in reqs : \/ ApproveUser(r) \/ RejectUser(r)
                       \/ CreateUserRoute(r) \/ Refuse(r)

Spec == Init /\ [][Next]_vars

--------------------------------------------------------------------------------
(* Nothing but these can lead to the loss of the last administrator, or to a   *)
(* change by one who no longer is: two requests in flight at once, a database  *)
(* that fails a verification, the command line.                                *)
Excused == overlapped \/ outages > 0 \/ commands > 0

(* Once there is an administrator, there is an active one, whoever rejects     *)
(* whom ("prevents lockout", admin_routes.py:106).  Of two who reject each     *)
(* other at the same time, neither remains.                                    *)
AdminRemains ==
    ~Excused /\ (\E u \in Users : admin[u]) => \E u \in Users : ActiveAdmin(u)

(* An account is changed by an active administrator: a request that was        *)
(* verified says at its handler what the table still says, unless excused.     *)
ActiveAdminsDecide ==
    [][\A r \in reqs \ reqs' :
         <<status, admin>>' # <<status, admin>> => Excused \/ ActiveAdmin(r.user)]_vars

(* A change is made in the name of the user for whom the page with its form    *)
(* was rendered: a login in another tab, an expired session, an old page, and  *)
(* a database that fails do not carry it over to another account.              *)
ActsAsShown ==
    [][\A r \in reqs \ reqs' :
         <<status, admin>>' # <<status, admin>> => r.shown.user = r.user]_vars

(* An account stays what it was decided to be: registering, creating or        *)
(* bootstrapping a name that is taken changes nothing, and a rejection is      *)
(* taken back by an approval only.                                             *)
AccountsStand ==
    [][\A u \in Users : Exists(u) =>
         /\ admin'[u] = admin[u]
         /\ status'[u] \in {status[u], "rejected", "active"}
         /\ status[u] # "active" /\ status'[u] = "active" =>
              \A r \in reqs \ reqs' : r.kind = "approve" /\ r.target = u]_vars
================================================================================
