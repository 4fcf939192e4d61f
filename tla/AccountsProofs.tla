---------------------------- MODULE AccountsProofs ----------------------------
(* Theorems about Accounts, for any users and browsers and any bounds.         *)
EXTENDS Accounts, TLAPS

LEMMA InitTyped == Init => TypeOK
<1> USE AccountsAssumption
<1> SUFFICES ASSUME Init PROVE TypeOK
  OBVIOUS
<1>1. 0 \in 0..MaxLogins /\ 0 \in 0..MaxOutages /\ 0 \in 0..MaxCommands
  OBVIOUS
<1>2. /\ status \in [Users -> {"none", "pending", "active", "rejected"}]
      /\ admin \in [Users -> BOOLEAN]
  BY DEF Init
<1>3. /\ cookie \in [Browsers -> Sessions \union {NoSession}]
      /\ page \in [Browsers -> Sessions \union {NoSession}]
  BY DEF Init
<1> QED
  BY <1>1, <1>2, <1>3 DEF Init, TypeOK

LEMMA NextTyped == TypeOK /\ [Next]_vars => TypeOK'
<1> USE AccountsAssumption, NoSessionAssumption
<1> SUFFICES ASSUME TypeOK, [Next]_vars PROVE TypeOK'
  OBVIOUS
<1> USE DEF TypeOK
<1>1. ASSUME NEW u \in Users, Register(u) PROVE TypeOK'
  BY <1>1 DEF Register, CreateUser
<1>2. ASSUME NEW u \in Users, ApproveCommand(u) PROVE TypeOK'
  BY <1>2 DEF ApproveCommand, SetStatus
<1>3. ASSUME NEW u \in Users, RejectCommand(u) PROVE TypeOK'
  BY <1>3 DEF RejectCommand, SetStatus
<1>4. ASSUME NEW u \in Users, NEW a \in BOOLEAN, CreateCommand(u, a) PROVE TypeOK'
  BY <1>4 DEF CreateCommand, CreateUser
<1>5. CASE Bootstrap
  BY <1>5 DEF Bootstrap, CreateUser
<1>6. ASSUME NEW b \in Browsers, NEW u \in Users, Login(b, u) PROVE TypeOK'
  <2>1. [user |-> u, admin |-> admin[u], id |-> logins + 1] \in Sessions
    BY <1>6 DEF Login, Sessions
  <2> QED
    BY <1>6, <2>1 DEF Login
<1>7. ASSUME NEW b \in Browsers, Logout(b) PROVE TypeOK'
  BY <1>7 DEF Logout
<1>8. ASSUME NEW b \in Browsers, ShowPage(b) PROVE TypeOK'
  BY <1>8 DEF ShowPage, Middleware
<1>9. ASSUME NEW s \in 1..MaxLogins, Expire(s) PROVE TypeOK'
  BY <1>9 DEF Expire
<1>10. ASSUME NEW b \in Browsers, NEW k \in Kinds, NEW t \in Users, Post(b, k, t)
       PROVE TypeOK'
  <2>1. PICK who \in Identities :
          /\ Middleware(cookie[b], who)
          /\ reqs' = reqs \union {[session |-> cookie[b], shown |-> page[b],
                                  user |-> who.user, admin |-> who.admin,
                                  kind |-> k, target |-> t]}
    BY <1>10 DEF Post
  <2>2. cookie[b] \in Sessions /\ page[b] \in Sessions
    BY <1>10 DEF Post, Verifies
  <2>3. reqs' \subseteq Requests
    BY <2>1, <2>2 DEF Requests, Identities
  <2>4. outages' \in 0..MaxOutages
    BY <2>1 DEF Middleware
  <2> QED
    BY <1>10, <2>3, <2>4 DEF Post
<1>11. ASSUME NEW r \in reqs,
              ApproveUser(r) \/ RejectUser(r) \/ CreateUserRoute(r) \/ Refuse(r)
       PROVE TypeOK'
  <2>1. r.target \in Users
    BY DEF Requests
  <2> QED
    BY <1>11, <2>1 DEF ApproveUser, RejectUser, CreateUserRoute, Refuse, Answer,
       SetStatus, CreateUser
<1>12. CASE UNCHANGED vars
  BY <1>12 DEF vars
<1> QED
  BY <1>1, <1>2, <1>3, <1>4, <1>5, <1>6, <1>7, <1>8, <1>9, <1>10, <1>11, <1>12 DEF Next

(* Accounts, cookies, pages and requests keep their shapes, and the counters   *)
(* their bounds.                                                               *)
THEOREM TypeCorrect == Spec => []TypeOK
  BY InitTyped, NextTyped, PTL DEF Spec

--------------------------------------------------------------------------------
(* What a request was verified to be is still so while nothing excuses, for    *)
(* it is the only one, and nobody else rejects.                                *)
VerifiedStands ==
    ~Excused => /\ \A r, q \in reqs : r = q
                /\ \A r \in reqs : r.admin => r.user \in Users /\ ActiveAdmin(r.user)

AdminSafe == TypeOK /\ VerifiedStands /\ AdminRemains

(* Whoever is an active administrator stays one when a name is inserted, and   *)
(* when an administrator is inserted, she is active.                           *)
LEMMA CreationKeeps ==
    ASSUME TypeOK, NEW u \in Users, NEW st, NEW isAdmin \in BOOLEAN,
           st = "active" \/ ~isAdmin, CreateUser(u, isAdmin, st)
    PROVE  /\ \A v \in Users : ActiveAdmin(v) => ActiveAdmin(v)'
           /\ \A v \in Users : admin'[v] => admin[v] \/ ActiveAdmin(v)'
  BY DEF TypeOK, CreateUser, ActiveAdmin, Exists

(* Only a rejection ends an active administrator, and only one.                *)
LEMMA StatusKeeps ==
    ASSUME TypeOK, NEW u \in Users, NEW st, SetStatus(u, st)
    PROVE  /\ \A v \in Users : v # u \/ st = "active" => (ActiveAdmin(v) => ActiveAdmin(v)')
           /\ \A v \in Users : admin'[v] = admin[v]
  BY DEF TypeOK, SetStatus, ActiveAdmin, Exists

(* While active administrators remain such and requests only go, AdminSafe     *)
(* holds on.                                                                   *)
LEMMA SafeWhileKept ==
    ASSUME AdminSafe, TypeOK', Excused' = Excused, reqs' \subseteq reqs,
           \A v \in Users : ActiveAdmin(v) => ActiveAdmin(v)',
           \A v \in Users : admin'[v] => admin[v] \/ ActiveAdmin(v)'
    PROVE  AdminSafe'
  BY DEF AdminSafe, VerifiedStands, AdminRemains

(* Once excused, excused for good.                                             *)
LEMMA SafeWhenExcused == ASSUME TypeOK', Excused' PROVE AdminSafe'
  BY DEF AdminSafe, VerifiedStands, AdminRemains

LEMMA AdminSafeHolds == Spec => []AdminSafe
<1> USE AccountsAssumption, NoSessionAssumption
<1>1. Init => AdminSafe
  <2> SUFFICES ASSUME Init PROVE TypeOK => AdminSafe
    BY InitTyped
  <2> QED
    BY DEF Init, AdminSafe, VerifiedStands, AdminRemains
<1>2. AdminSafe /\ [Next]_vars => AdminSafe'
  <2> SUFFICES ASSUME AdminSafe, [Next]_vars PROVE AdminSafe'
    OBVIOUS
  <2>0. TypeOK /\ TypeOK'
    BY NextTyped DEF AdminSafe
  <2>1. ASSUME NEW u \in Users, Register(u) PROVE AdminSafe'
    BY <2>0, <2>1, CreationKeeps, SafeWhileKept DEF Register, Excused
  <2>2. ASSUME NEW u \in Users, ApproveCommand(u) PROVE AdminSafe'
    BY <2>0, <2>2, StatusKeeps, SafeWhileKept DEF ApproveCommand, Excused
  <2>3. ASSUME NEW u \in Users, RejectCommand(u) PROVE AdminSafe'
    <3>1. commands' > 0
      BY <2>0, <2>3 DEF RejectCommand, TypeOK
    <3> QED
      BY <2>0, <3>1, SafeWhenExcused DEF Excused
  <2>4. ASSUME NEW u \in Users, NEW a \in BOOLEAN, CreateCommand(u, a) PROVE AdminSafe'
    BY <2>0, <2>4, CreationKeeps, SafeWhileKept DEF CreateCommand, Excused
  <2>5. CASE Bootstrap
    BY <2>0, <2>5, CreationKeeps, SafeWhileKept DEF Bootstrap, Excused
  <2>6. ASSUME UNCHANGED <<status, admin, outages, commands, overlapped, reqs>>
        PROVE  AdminSafe'
    BY <2>0, <2>6, SafeWhileKept DEF Excused, ActiveAdmin
  <2>7. ASSUME NEW b \in Browsers, ShowPage(b) PROVE AdminSafe'
    <3>1. outages' = outages \/ outages' > 0
      BY <2>0, <2>7 DEF ShowPage, Middleware, TypeOK
    <3>2. CASE outages' = outages
      BY <3>2, <2>6, <2>7 DEF ShowPage
    <3>3. CASE outages' > 0
      BY <2>0, <3>3, SafeWhenExcused DEF Excused
    <3> QED
      BY <3>1, <3>2, <3>3
  <2>8. ASSUME NEW b \in Browsers, NEW k \in Kinds, NEW t \in Users, Post(b, k, t)
        PROVE  AdminSafe'
    <3>1. PICK who \in Identities :
            /\ Middleware(cookie[b], who)
            /\ reqs' = reqs \union {[session |-> cookie[b], shown |-> page[b],
                                    user |-> who.user, admin |-> who.admin,
                                    kind |-> k, target |-> t]}
      BY <2>8 DEF Post
    <3>2. CASE Excused'
      BY <2>0, <3>2, SafeWhenExcused
    <3>3. CASE ~Excused'
      <4> DEFINE s == cookie[b]
      <4>a. /\ overlapped' = (overlapped \/ reqs # {}) /\ commands' = commands
            /\ Verifies(s)
        BY <2>8 DEF Post
      <4>b. ~overlapped' /\ ~(outages' > 0) /\ ~(commands' > 0)
        BY <3>3 DEF Excused
      <4>c. outages' = outages /\ who = Verified(s)
        BY <2>0, <3>1, <4>b DEF Middleware, TypeOK
      <4>1. reqs = {} /\ ~Excused
        <5>1. reqs = {} /\ ~overlapped
          BY <4>a, <4>b
        <5> QED
          BY <4>a, <4>b, <4>c, <5>1 DEF Excused
      <4>2. who = Verified(s) /\ s \in Sessions
        BY <2>0, <4>a, <4>c DEF Verifies, TypeOK
      <4>3. who.admin => who.user \in Users /\ ActiveAdmin(who.user)
        BY <4>2 DEF Verified, ActiveAdmin, Sessions
      <4>4. UNCHANGED <<status, admin>>
        BY <2>8 DEF Post
      <4>5. VerifiedStands'
        BY <3>1, <4>1, <4>3, <4>4 DEF VerifiedStands, ActiveAdmin
      <4>6. AdminRemains'
        BY <4>1, <4>4 DEF AdminSafe, AdminRemains, ActiveAdmin
      <4> QED
        BY <2>0, <4>5, <4>6 DEF AdminSafe
    <3> QED
      BY <3>2, <3>3
  <2>9. ASSUME NEW r \in reqs, ApproveUser(r) PROVE AdminSafe'
    <3>1. r.target \in Users
      BY <2>0 DEF TypeOK, Requests
    <3>2. SetStatus(r.target, "active") /\ reqs' \subseteq reqs /\ Excused' = Excused
      BY <2>9 DEF ApproveUser, Answer, Excused
    <3> QED
      BY <2>0, <3>1, <3>2, StatusKeeps, SafeWhileKept
  <2>10. ASSUME NEW r \in reqs, CreateUserRoute(r) PROVE AdminSafe'
    <3>1. r.target \in Users
      BY <2>0 DEF TypeOK, Requests
    <3>2. /\ CreateUser(r.target, r.kind = "createAdmin", "active")
          /\ reqs' \subseteq reqs /\ Excused' = Excused
      BY <2>10 DEF CreateUserRoute, Answer, Excused
    <3> QED
      BY <2>0, <3>1, <3>2, CreationKeeps, SafeWhileKept
  <2>11. ASSUME NEW r \in reqs, Refuse(r) PROVE AdminSafe'
    <3>1. /\ UNCHANGED <<status, admin>>
          /\ reqs' \subseteq reqs /\ Excused' = Excused
      BY <2>11 DEF Refuse, Answer, Excused
    <3> QED
      BY <2>0, <3>1, SafeWhileKept DEF ActiveAdmin
  <2>12. ASSUME NEW r \in reqs, RejectUser(r) PROVE AdminSafe'
    <3>1. r.target \in Users /\ r.admin
      BY <2>0, <2>12 DEF TypeOK, Requests, RejectUser, Allowed
    <3>2. /\ SetStatus(r.target, "rejected") /\ r.target # r.user
          /\ reqs' = reqs \ {r} /\ Excused' = Excused
      BY <2>12 DEF RejectUser, Answer, Excused
    <3>3. CASE Excused
      BY <2>0, <3>2, <3>3, SafeWhenExcused
    <3>4. CASE ~Excused
      <4>1. /\ \A q \in reqs : q = r
            /\ r.user \in Users /\ ActiveAdmin(r.user)
        BY <3>1, <3>4 DEF AdminSafe, VerifiedStands
      <4>2. ActiveAdmin(r.user)'
        BY <2>0, <3>1, <3>2, <4>1, StatusKeeps
      <4>3. reqs' = {}
        BY <3>2, <4>1
      <4> QED
        BY <2>0, <4>1, <4>2, <4>3 DEF AdminSafe, VerifiedStands, AdminRemains
    <3> QED
      BY <3>3, <3>4
  <2> QED
    <3>1. ASSUME NEW b \in Browsers, NEW u \in Users, Login(b, u) PROVE AdminSafe'
      BY <2>6, <3>1 DEF Login
    <3>2. ASSUME NEW b \in Browsers, Logout(b) PROVE AdminSafe'
      BY <2>6, <3>2 DEF Logout
    <3>3. ASSUME NEW x \in 1..MaxLogins, Expire(x) PROVE AdminSafe'
      BY <2>6, <3>3 DEF Expire
    <3>4. CASE UNCHANGED vars
      BY <2>6, <3>4 DEF vars
    <3> QED
      BY <2>1, <2>2, <2>3, <2>4, <2>5, <2>7, <2>8, <2>9, <2>10, <2>11, <2>12,
         <3>1, <3>2, <3>3, <3>4 DEF Next
<1> QED
  BY <1>1, <1>2, PTL DEF Spec

(* An administrator remains active, whatever single requests ask for.          *)
THEOREM LockoutNeedsCause == Spec => []AdminRemains
<1>1. AdminSafe => AdminRemains
  BY DEF AdminSafe
<1> QED
  BY <1>1, AdminSafeHolds, PTL

(* A step that changes an account and answers a request was allowed to.        *)
LEMMA ChangingStep ==
    ASSUME Next, <<status, admin>>' # <<status, admin>>, NEW r \in reqs, r \notin reqs'
    PROVE  Allowed(r) /\ reqs' = reqs \ {r}
  BY DEF Next, Register, ApproveCommand, RejectCommand, CreateCommand, Bootstrap, Login,
     Logout, ShowPage, Expire, Post, ApproveUser, RejectUser, CreateUserRoute, Refuse, Answer

(* Each action of an administrator is by one who still is, unless excused.     *)
THEOREM ChangesAreAdmins == Spec => ActiveAdminsDecide
<1>1. AdminSafe /\ [Next]_vars =>
        [\A r \in reqs \ reqs' :
           <<status, admin>>' # <<status, admin>> => Excused \/ ActiveAdmin(r.user)]_vars
  <2> SUFFICES ASSUME AdminSafe, Next, NEW r \in reqs, r \notin reqs',
                      <<status, admin>>' # <<status, admin>>, ~Excused
               PROVE  ActiveAdmin(r.user)
    BY DEF vars
  <2>1. Allowed(r)
    BY ChangingStep
  <2>2. r.admin
    BY <2>1 DEF Allowed
  <2> QED
    BY <2>2 DEF AdminSafe, VerifiedStands
<1> QED
  BY <1>1, AdminSafeHolds, PTL DEF Spec, ActiveAdminsDecide

--------------------------------------------------------------------------------
(* The sessions that are about: in cookies, behind forms, in requests.         *)
Held == ({cookie[b] : b \in Browsers} \union {page[b] : b \in Browsers}
         \union {r.session : r \in reqs} \union {r.shown : r \in reqs}) \ {NoSession}

(* Two of the same login are the same, and the next login is like none.        *)
LoginsDiffer ==
    /\ \A s \in Held : s.id <= logins
    /\ \A s, t \in Held : s.id = t.id => s = t

(* The middleware gives a request to the user of its cookie, or to nobody.     *)
SenderIsUser == \A r \in reqs : r.admin => r.user = r.session.user

NamesSafe == TypeOK /\ LoginsDiffer /\ SenderIsUser

LEMMA NamesWhileKept ==
    ASSUME NamesSafe, TypeOK', logins' = logins, reqs' \subseteq reqs,
           Held' \subseteq Held
    PROVE  NamesSafe'
  BY DEF NamesSafe, LoginsDiffer, SenderIsUser

LEMMA NamesSafeHolds == Spec => []NamesSafe
<1>1. Init => NamesSafe
  <2> SUFFICES ASSUME Init PROVE NamesSafe
    OBVIOUS
  <2>1. Held = {}
    BY DEF Init, Held
  <2> QED
    BY <2>1, InitTyped DEF Init, NamesSafe, LoginsDiffer, SenderIsUser
<1>2. NamesSafe /\ [Next]_vars => NamesSafe'
  <2> SUFFICES ASSUME NamesSafe, [Next]_vars PROVE NamesSafe'
    OBVIOUS
  <2>0. TypeOK /\ TypeOK'
    BY NextTyped DEF NamesSafe
  <2>1. ASSUME UNCHANGED <<cookie, page, logins>>, reqs' \subseteq reqs PROVE NamesSafe'
    <3>1. Held' \subseteq Held
      BY <2>1 DEF Held
    <3> QED
      BY <2>0, <2>1, <3>1, NamesWhileKept
  <2>2. ASSUME NEW b \in Browsers, Logout(b) PROVE NamesSafe'
    <3>1. Held' \subseteq Held
      BY <2>0, <2>2 DEF Held, Logout, TypeOK
    <3> QED
      BY <2>0, <2>2, <3>1, NamesWhileKept DEF Logout
  <2>3. ASSUME NEW b \in Browsers, ShowPage(b) PROVE NamesSafe'
    <3>1. Held' \subseteq Held
      BY <2>0, <2>3 DEF Held, ShowPage, TypeOK
    <3> QED
      BY <2>0, <2>3, <3>1, NamesWhileKept DEF ShowPage
  <2>4. ASSUME NEW b \in Browsers, NEW u \in Users, Login(b, u) PROVE NamesSafe'
    <3> DEFINE new == [user |-> u, admin |-> admin[u], id |-> logins + 1]
    <3>1. Held' \subseteq Held \union {new}
      BY <2>0, <2>4 DEF Held, Login, TypeOK
    <3>2. logins \in Nat /\ logins' = logins + 1 /\ Held \subseteq Sessions
      BY <2>0, <2>4, AccountsAssumption DEF TypeOK, Login, Held, Requests
    <3>3. \A s \in Held : s.id \in Nat /\ s.id <= logins
      BY <3>2, AccountsAssumption DEF NamesSafe, LoginsDiffer, Sessions
    <3>4. new.id = logins + 1
      OBVIOUS
    <3>5. LoginsDiffer'
      <4> HIDE DEF new
      <4>1. \A s \in Held' : s.id <= logins'
        BY <3>1, <3>2, <3>3, <3>4
      <4>2. \A s, t \in Held' : s.id = t.id => s = t
        BY <3>1, <3>2, <3>3, <3>4 DEF NamesSafe, LoginsDiffer
      <4> QED
        BY <4>1, <4>2 DEF LoginsDiffer
    <3> QED
      BY <2>0, <2>4, <3>5 DEF NamesSafe, SenderIsUser, Login
  <2>5. ASSUME NEW b \in Browsers, NEW k \in Kinds, NEW t \in Users, Post(b, k, t)
        PROVE  NamesSafe'
    <3>1. PICK who \in Identities :
            /\ Middleware(cookie[b], who)
            /\ reqs' = reqs \union {[session |-> cookie[b], shown |-> page[b],
                                    user |-> who.user, admin |-> who.admin,
                                    kind |-> k, target |-> t]}
      BY <2>5 DEF Post
    <3>2. who.admin => who.user = cookie[b].user
      BY <3>1 DEF Middleware, Verified
    <3>3. SenderIsUser'
      BY <3>1, <3>2 DEF NamesSafe, SenderIsUser
    <3>4. Held' \subseteq Held /\ logins' = logins
      BY <2>5, <3>1 DEF Held, Post
    <3>5. LoginsDiffer'
      BY <3>4 DEF NamesSafe, LoginsDiffer
    <3> QED
      BY <2>0, <3>3, <3>5 DEF NamesSafe
  <2> QED
    <3>1. ASSUME NEW u \in Users, Register(u) \/ ApproveCommand(u) \/ RejectCommand(u)
          PROVE  NamesSafe'
      BY <2>1, <3>1 DEF Register, ApproveCommand, RejectCommand
    <3>2. ASSUME NEW u \in Users, NEW a \in BOOLEAN, CreateCommand(u, a) PROVE NamesSafe'
      BY <2>1, <3>2 DEF CreateCommand
    <3>3. CASE Bootstrap
      BY <2>1, <3>3 DEF Bootstrap
    <3>4. ASSUME NEW x \in 1..MaxLogins, Expire(x) PROVE NamesSafe'
      BY <2>1, <3>4 DEF Expire
    <3>5. ASSUME NEW r \in reqs,
                 ApproveUser(r) \/ RejectUser(r) \/ CreateUserRoute(r) \/ Refuse(r)
          PROVE  NamesSafe'
      BY <2>1, <3>5 DEF ApproveUser, RejectUser, CreateUserRoute, Refuse, Answer
    <3>6. CASE UNCHANGED vars
      BY <2>1, <3>6 DEF vars
    <3> QED
      BY <2>2, <2>3, <2>4, <2>5, <3>1, <3>2, <3>3, <3>4, <3>5, <3>6 DEF Next
<1> QED
  BY <1>1, <1>2, PTL DEF Spec

(* A change is made in the name of the one whose page asked for it.            *)
THEOREM PagesDecide == Spec => ActsAsShown
<1>1. NamesSafe /\ [Next]_vars =>
        [\A r \in reqs \ reqs' :
           <<status, admin>>' # <<status, admin>> => r.shown.user = r.user]_vars
  <2> SUFFICES ASSUME NamesSafe, Next, NEW r \in reqs, r \notin reqs',
                      <<status, admin>>' # <<status, admin>>
               PROVE  r.shown.user = r.user
    BY DEF vars
  <2>1. Allowed(r)
    BY ChangingStep
  <2>2. r.admin /\ r.shown.id = r.session.id
    BY <2>1 DEF Allowed, CsrfHolds
  <2>3. r.shown \in Held /\ r.session \in Held
    <3>1. r.shown # NoSession /\ r.session # NoSession
      BY NoSessionAssumption DEF NamesSafe, TypeOK, Requests
    <3> QED
      BY <3>1 DEF Held
  <2> QED
    BY <2>2, <2>3 DEF NamesSafe, LoginsDiffer, SenderIsUser
<1> QED
  BY <1>1, NamesSafeHolds, PTL DEF Spec, ActsAsShown

(* What was decided of an account stands until an administrator decides.       *)
THEOREM DecisionsStand == Spec => AccountsStand
<1> DEFINE Stands(u) ==
        /\ admin'[u] = admin[u]
        /\ status'[u] \in {status[u], "rejected", "active"}
        /\ status[u] # "active" /\ status'[u] = "active" =>
             \A r \in reqs \ reqs' : r.kind = "approve" /\ r.target = u
<1>1. TypeOK /\ [Next]_vars => [\A u \in Users : Exists(u) => Stands(u)]_vars
  <2> SUFFICES ASSUME TypeOK, Next, NEW u \in Users, Exists(u) PROVE Stands(u)
    BY DEF vars
  <2> USE DEF TypeOK, Exists
  <2>1. CASE UNCHANGED <<status, admin>>
    BY <2>1
  <2>2. ASSUME NEW v \in Users, NEW st, NEW a \in BOOLEAN, CreateUser(v, a, st)
        PROVE  Stands(u)
    BY <2>2 DEF CreateUser
  <2>3. ASSUME NEW v \in Users, SetStatus(v, "active") \/ SetStatus(v, "rejected"), reqs' = reqs
        PROVE  Stands(u)
    BY <2>3 DEF SetStatus
  <2>4. ASSUME NEW r \in reqs, ApproveUser(r) PROVE Stands(u)
    BY <2>4 DEF ApproveUser, Answer, SetStatus, Requests
  <2>5. ASSUME NEW r \in reqs, RejectUser(r) PROVE Stands(u)
    BY <2>5 DEF RejectUser, Answer, SetStatus, Requests
  <2>6. ASSUME NEW r \in reqs, CreateUserRoute(r) PROVE Stands(u)
    BY <2>2, <2>6 DEF CreateUserRoute, Requests
  <2> QED
    BY <2>1, <2>2, <2>3, <2>4, <2>5, <2>6, AccountsAssumption
       DEF Next, Register, ApproveCommand, RejectCommand, CreateCommand, Bootstrap, Login,
           Logout, ShowPage, Expire, Post, Refuse
<1> QED
  BY <1>1, TypeCorrect, PTL DEF Spec, AccountsStand

================================================================================
