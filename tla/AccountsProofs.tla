---------------------------- MODULE AccountsProofs ----------------------------
(***************************************************************************)
(* Mailed links, the limit on failures and impersonations, whatever number *)
(* of users, links, sessions and requests there is.                        *)
(***************************************************************************)
EXTENDS AccountsProperties, FiniteSetTheorems, TLAPS

Steps == {"idle", "welcome", "mail", "commit", "follow", "lookup", "reject", "accept",
          "opened", "extend", "start", "mint", "mark", "revoke", "end", "leave"}

RequestShape == [pc : Steps, user : Users \cup {None}, password : Passwords \cup {None},
                 link : Links \cup {None}, session : Sessions \cup {None}]
LinkShape    == [state : {"unused", "pending", "live", "void", "expired", "spent"},
                 kind : {"verify", "reset"}, user : Users \cup {None}]
SessionShape == [user : Users \cup {None}, acting : Users \cup {None},
                 state : {"none", "live", "expired", "revoked"}]

Shape ==
    /\ request \in [Requests -> RequestShape]
    /\ link \in [Links -> LinkShape]
    /\ session \in [Sessions -> SessionShape]
    /\ account \in [Users -> [password : Passwords \cup {None}, verified : BOOLEAN]]
    /\ jar \in [page : Sessions \cup {None}, admin : Sessions \cup {None}]
    /\ log \in [Sessions -> {"none", "open", "ended"}]
    /\ uses \in [Links -> Nat]

-----------------------------------------------------------------------------
(* The ways a request moves on: the others stay where they are.            *)

Others(r) == \A q \in Requests \ {r} : request'[q] = request[q]

LEMMA IdleShape == Idle \in RequestShape
BY DEF Idle, RequestShape, Steps

LEMMA Begun ==
    ASSUME Shape, NEW r \in Requests, NEW pc \in Steps, NEW with, Begin(r, pc, with),
           "user" \in DOMAIN with => with["user"] \in Users \cup {None},
           "password" \in DOMAIN with => with["password"] \in Passwords \cup {None},
           "link" \in DOMAIN with => with["link"] \in Links \cup {None},
           "session" \in DOMAIN with => with["session"] \in Sessions \cup {None}
    PROVE  /\ request' \in [Requests -> RequestShape] /\ Others(r)
           /\ request[r] = Idle /\ request'[r].pc = pc
           /\ request'[r].user = (IF "user" \in DOMAIN with THEN with["user"] ELSE None)
           /\ request'[r].link = (IF "link" \in DOMAIN with THEN with["link"] ELSE None)
           /\ request'[r].session = (IF "session" \in DOMAIN with THEN with["session"] ELSE None)
<1> DEFINE q == [f \in DOMAIN Idle |-> IF f = "pc" THEN pc
                                       ELSE IF f \in DOMAIN with THEN with[f] ELSE None]
<1>1. request' = [request EXCEPT ![r] = q] /\ request[r] = Idle
  BY DEF Begin
<1>2. DOMAIN Idle = {"pc", "user", "password", "link", "session"}
  BY DEF Idle
<1>3. q \in RequestShape
  BY <1>2 DEF RequestShape
<1>4. /\ q.pc = pc
      /\ q.user = (IF "user" \in DOMAIN with THEN with["user"] ELSE None)
      /\ q.link = (IF "link" \in DOMAIN with THEN with["link"] ELSE None)
      /\ q.session = (IF "session" \in DOMAIN with THEN with["session"] ELSE None)
  BY <1>2
<1> HIDE DEF q
<1> QED
  BY <1>1, <1>3, <1>4 DEF Shape, Others

LEMMA Stepped ==
    ASSUME Shape, NEW r \in Requests, NEW pc \in Steps, Step(r, pc)
    PROVE  /\ request' \in [Requests -> RequestShape] /\ Others(r)
           /\ request'[r].pc = pc
           /\ request'[r].user = request[r].user
           /\ request'[r].link = request[r].link
           /\ request'[r].session = request[r].session
<1> DEFINE q == [request[r] EXCEPT !.pc = pc]
<1>1. request[r] \in RequestShape
  BY DEF Shape
<1>2. /\ q \in RequestShape /\ q.pc = pc /\ q.user = request[r].user
      /\ q.link = request[r].link /\ q.session = request[r].session
  BY <1>1 DEF RequestShape
<1>3. request' = [request EXCEPT ![r] = q]
  BY DEF Step
<1> HIDE DEF q
<1> QED
  BY <1>2, <1>3 DEF Shape, Others

LEMMA Finished ==
    ASSUME Shape, NEW r \in Requests, Done(r)
    PROVE  /\ request' \in [Requests -> RequestShape] /\ Others(r)
           /\ request'[r] = Idle /\ request'[r].pc = "idle"
BY IdleShape DEF Done, Shape, Others, Idle

LEMMA GivenSession ==
    ASSUME Shape, NEW r \in Requests, NEW pc \in Steps, NEW s \in Sessions,
           request' = [request EXCEPT ![r].pc = pc, ![r].session = s]
    PROVE  /\ request' \in [Requests -> RequestShape] /\ Others(r)
           /\ request'[r].pc = pc /\ request'[r].session = s
           /\ request'[r].user = request[r].user
<1> DEFINE q == [[request[r] EXCEPT !.pc = pc] EXCEPT !.session = s]
<1>1. request[r] \in RequestShape
  BY DEF Shape
<1>2. q \in RequestShape /\ q.pc = pc /\ q.session = s /\ q.user = request[r].user
  BY <1>1 DEF RequestShape
<1>3. request' = [request EXCEPT ![r] = q]
  BY DEF Shape
<1> HIDE DEF q
<1> QED
  BY ZenonT(60), <1>2, <1>3 DEF Shape, Others

-----------------------------------------------------------------------------
(* Every step keeps the shape of the state.                                *)

LEMMA InitShape == Init => Shape
BY IdleShape, AccountConstants DEF Init, Shape, LinkShape, SessionShape, NoSession

\* A step that moves a request.
LEMMA RequestShapeStep ==
    ASSUME Shape, NEW r \in Requests, Arrive(r) \/ Serve(r)
    PROVE  request' \in [Requests -> RequestShape]
<1> USE DEF Steps
<1>0. request[r] \in RequestShape
  BY DEF Shape
<1>1. ASSUME NEW u \in Users, NEW p \in Passwords, LoginCheck(r, u, p)
      PROVE  request' \in [Requests -> RequestShape]
  BY <1>1, Begun DEF LoginCheck
<1>2. ASSUME NEW u \in Users, NEW p \in Passwords, NEW l \in Links, Signup(r, u, p, l)
      PROVE  request' \in [Requests -> RequestShape]
  BY <1>2, Begun DEF Signup
<1>3. ASSUME NEW u \in Users, NEW l \in Links, NEW kind, Ask(r, u, kind, l)
      PROVE  request' \in [Requests -> RequestShape]
  BY <1>3, Begun DEF Ask
<1>4. ASSUME NEW l \in Links, NEW p \in Passwords, Follow(r, l, p)
      PROVE  request' \in [Requests -> RequestShape]
  BY <1>4, Begun DEF Follow
<1>5. ASSUME AdminPage(r) PROVE request' \in [Requests -> RequestShape]
  <2>1. jar.admin \in Sessions /\ session[jar.admin].user \in Users \cup {None}
    BY <1>5 DEF AdminPage, Live, Shape, SessionShape
  <2> QED
    BY <1>5, <2>1, Begun DEF AdminPage
<1>6. ASSUME Stop(r) PROVE request' \in [Requests -> RequestShape]
  <2>1. jar.page \in Sessions /\ session[jar.page].acting \in Users \cup {None}
    BY <1>6 DEF Stop, Live, Shape, SessionShape
  <2> QED
    BY <1>6, <2>1, Begun DEF Stop
<1>7. ASSUME Mail(r) \/ CommitLink(r) \/ Consume(r) \/ LoginLookup(r) \/ LoginReject(r)
             \/ LoginDone(r) \/ AdminExtend(r) \/ StartMint(r) \/ StopRevoke(r)
             \/ \E u \in Users : StartMark(r, u)
      PROVE  request' \in [Requests -> RequestShape]
  BY <1>7, Stepped, Finished DEF Mail, CommitLink, Consume, LoginLookup, LoginReject, LoginDone,
     AdminExtend, StartMint, StopRevoke, StartMark
<1>8. ASSUME NEW s \in Sessions, LoginCreate(r, s) \/ StartLog(r, s)
      PROVE  request' \in [Requests -> RequestShape]
  BY <1>8, GivenSession, Finished DEF LoginCreate, StartLog
<1>9. ASSUME StopEnd(r) PROVE request' \in [Requests -> RequestShape]
  <2>1. [Idle EXCEPT !.pc = "leave", !.session = jar.admin] \in RequestShape
    BY AccountConstants DEF Idle, RequestShape, Shape
  <2> QED
    BY <1>9, <2>1, Finished DEF StopEnd, Shape
<1> QED
  BY <1>1, <1>2, <1>3, <1>4, <1>5, <1>6, <1>7, <1>8, <1>9 DEF Arrive, Serve

\* Accounts and links.
LEMMA LinkShapeStep ==
    ASSUME Shape, Next
    PROVE  /\ link' \in [Links -> LinkShape]
           /\ account' \in [Users -> [password : Passwords \cup {None}, verified : BOOLEAN]]
           /\ uses' \in [Links -> Nat]
<1> DEFINE G == /\ link' \in [Links -> LinkShape]
                /\ account' \in [Users -> [password : Passwords \cup {None}, verified : BOOLEAN]]
                /\ uses' \in [Links -> Nat]
<1> USE DEF Shape, links
<1>1. ASSUME NEW r \in Requests, NEW u \in Users, NEW p \in Passwords, NEW l \in Links,
             Signup(r, u, p, l)
      PROVE  G
  <2>1. [state |-> "live", kind |-> "verify", user |-> u] \in LinkShape
    BY DEF LinkShape
  <2> QED
    BY <1>1, <2>1 DEF Signup, Issue
<1>2. ASSUME NEW r \in Requests, NEW u \in Users, NEW l \in Links, NEW kind \in {"verify", "reset"},
             Ask(r, u, kind, l)
      PROVE  G
  <2>1. [state |-> "pending", kind |-> kind, user |-> u] \in LinkShape
    BY DEF LinkShape
  <2> QED
    BY <1>2, <2>1 DEF Ask, Issue
<1>3. ASSUME NEW r \in Requests, CommitLink(r) PROVE G
  BY <1>3 DEF CommitLink, LinkShape
<1>4. ASSUME NEW r \in Requests, Consume(r) PROVE G
  <2>1. request[r].password \in Passwords \cup {None}
    BY DEF RequestShape
  <2>2. CASE UNCHANGED <<account, link, uses>>
    BY <2>2
  <2>3. CASE Effect(request[r].link, request[r].password)
             /\ link' = [link EXCEPT ![request[r].link].state = "spent"]
             /\ uses' = [uses EXCEPT ![request[r].link] = @ + 1]
    <3> DEFINE l == request[r].link
               a == account[link[l].user]
    <3>0. uses' \in [Links -> Nat]
      <4>1. l \in Links => uses[l] + 1 \in Nat
        OBVIOUS
      <4>2. uses' = [uses EXCEPT ![l] = uses[l] + 1]
        BY <2>3
      <4> HIDE DEF l
      <4> QED
        BY <4>1, <4>2
    <3>1. link' \in [Links -> LinkShape]
      <4>1. l \in Links => [link[l] EXCEPT !.state = "spent"] \in LinkShape
        BY SMTT(30) DEF LinkShape
      <4> QED
        BY <2>3, <4>1
    <3>2. ASSUME link[l].user \in Users
          PROVE  /\ [a EXCEPT !.password = request[r].password] \in
                       [password : Passwords \cup {None}, verified : BOOLEAN]
                 /\ [a EXCEPT !.verified = TRUE] \in
                       [password : Passwords \cup {None}, verified : BOOLEAN]
      BY <2>1, <3>2
    <3>3. \/ account' = [account EXCEPT ![link[l].user] = [a EXCEPT !.password = request[r].password]]
          \/ account' = [account EXCEPT ![link[l].user] = [a EXCEPT !.verified = TRUE]]
          \/ account' = account
      BY <2>3 DEF Effect
    <3> HIDE DEF l, a
    <3> QED
      BY <3>0, <3>1, <3>2, <3>3
  <2> QED
    BY <1>4, <2>2, <2>3 DEF Consume
<1>5. ASSUME NEW l \in Links, ExpireLink(l) PROVE G
  BY SMTT(30), <1>5 DEF ExpireLink, LinkShape
<1>6. ASSUME Crash PROVE G
  BY SMTT(30), <1>6 DEF Crash, LinkShape
<1>7. ASSUME UNCHANGED account, UNCHANGED link, UNCHANGED uses PROVE G
  BY <1>7
<1>8. ASSUME NEW r \in Requests, Arrive(r) PROVE G
  <2>1. ASSUME NEW u \in Users, NEW p \in Passwords, LoginCheck(r, u, p) PROVE G
    BY <1>7, <2>1 DEF LoginCheck
  <2>2. ASSUME NEW l \in Links, NEW p \in Passwords, Follow(r, l, p) PROVE G
    BY <1>7, <2>2 DEF Follow
  <2>3. ASSUME AdminPage(r) \/ Stop(r) PROVE G
    BY <1>7, <2>3 DEF AdminPage, Stop
  <2> HIDE DEF G
  <2> QED
    BY <1>1, <1>2, <1>8, <2>1, <2>2, <2>3 DEF Arrive
<1>9. ASSUME NEW r \in Requests, Serve(r) PROVE G
  <2>1. ASSUME Mail(r) \/ LoginLookup(r) \/ LoginReject(r) \/ LoginDone(r) \/ AdminExtend(r)
               \/ StartMint(r) \/ StopRevoke(r) \/ StopEnd(r)
        PROVE  G
    BY <1>7, <2>1 DEF Mail, LoginLookup, LoginReject, LoginDone, AdminExtend, StartMint, StopRevoke,
       StopEnd
  <2>2. ASSUME NEW s \in Sessions, LoginCreate(r, s) \/ StartLog(r, s) PROVE G
    BY <1>7, <2>2 DEF LoginCreate, StartLog
  <2>3. ASSUME NEW u \in Users, StartMark(r, u) PROVE G
    BY <1>7, <2>3 DEF StartMark
  <2> QED
    BY <1>3, <1>4, <1>9, <2>1, <2>2, <2>3 DEF Serve
<1>10. ASSUME \/ Tick
              \/ \E which \in {"page", "admin"} : Logout(which)
              \/ \E u \in Users, p \in Passwords, s \in Sessions : AdminLogin(u, p, s)
              \/ \E s \in Sessions : ExpireSession(s)
       PROVE  G
  BY <1>7, <1>10 DEF Tick, Logout, AdminLogin, ExpireSession
<1> QED
  BY <1>5, <1>6, <1>8, <1>9, <1>10 DEF Next

\* Sessions, cookies and the log.
LEMMA AdminShapeStep ==
    ASSUME Shape, Next
    PROVE  /\ session' \in [Sessions -> SessionShape]
           /\ jar' \in [page : Sessions \cup {None}, admin : Sessions \cup {None}]
           /\ log' \in [Sessions -> {"none", "open", "ended"}]
<1> DEFINE G == /\ session' \in [Sessions -> SessionShape]
                /\ jar' \in [page : Sessions \cup {None}, admin : Sessions \cup {None}]
                /\ log' \in [Sessions -> {"none", "open", "ended"}]
<1> USE DEF Shape, admin
<1>0. ASSUME NEW s, NEW v \in {"none", "live", "expired", "revoked"},
             session' = [session EXCEPT ![s].state = v]
      PROVE  session' \in [Sessions -> SessionShape]
  <2>1. s \in Sessions => [session[s] EXCEPT !.state = v] \in SessionShape
    BY DEF SessionShape
  <2> QED
    BY <1>0, <2>1
<1>1. ASSUME NEW s \in Sessions, NEW u \in Users \cup {None}, Create(s, u)
      PROVE  session' \in [Sessions -> SessionShape]
  <2>1. [user |-> u, acting |-> None, state |-> "live"] \in SessionShape
    BY DEF SessionShape
  <2> QED
    BY <1>1, <2>1 DEF Create
<1>2. ASSUME NEW r \in Requests, NEW s \in Sessions, LoginCreate(r, s) PROVE G
  <2>1. request[r].user \in Users \cup {None}
    BY DEF RequestShape
  <2> QED
    BY <1>1, <1>2, <2>1 DEF LoginCreate
<1>3. ASSUME NEW r \in Requests, StartMint(r) PROVE G
  <2>1. request[r].user \in Users \cup {None} /\ request[r].session \in Sessions \cup {None}
    BY DEF RequestShape
  <2>2. CASE session' = session
    BY <1>3, <2>2 DEF StartMint
  <2>3. CASE Create(request[r].session, request[r].user)
    <3>1. [user |-> request[r].user, acting |-> None, state |-> "live"] \in SessionShape
      BY <2>1 DEF SessionShape
    <3> QED
      BY <1>3, <2>3, <3>1 DEF StartMint, Create
  <2> QED
    BY <1>3, <2>2, <2>3 DEF StartMint
<1>4. ASSUME NEW u \in Users, NEW p, NEW s \in Sessions, AdminLogin(u, p, s) PROVE G
  BY <1>1, <1>4 DEF AdminLogin
<1>5. ASSUME NEW r \in Requests, NEW u \in Users, StartMark(r, u) PROVE G
  <2>1. request[r].session \in Sessions \cup {None}
    BY DEF RequestShape
  <2>2. [session EXCEPT ![request[r].session].acting = u] \in [Sessions -> SessionShape]
    BY ZenonT(60) DEF SessionShape
  <2> QED
    BY <1>5, <2>1, <2>2 DEF StartMark
<1>6. ASSUME NEW which \in {"page", "admin"}, Logout(which) PROVE G
  <2>1. session' \in [Sessions -> SessionShape]
    BY <1>0, <1>6 DEF Logout, Revoke
  <2>2. [jar EXCEPT !["page"] = None] \in [page : Sessions \cup {None}, admin : Sessions \cup {None}]
    OBVIOUS
  <2>3. [jar EXCEPT !["admin"] = None] \in [page : Sessions \cup {None}, admin : Sessions \cup {None}]
    OBVIOUS
  <2> QED
    BY <1>6, <2>1, <2>2, <2>3 DEF Logout
<1>7. ASSUME NEW r \in Requests, StopRevoke(r) PROVE G
  <2>1. session' = [session EXCEPT ![request[r].session].state = "revoked"] \/ session' = session
    BY <1>7 DEF StopRevoke, Revoke
  <2> QED
    BY <1>0, <1>7, <2>1 DEF StopRevoke
<1>8. ASSUME NEW r \in Requests, StopEnd(r) PROVE G
  BY <1>8 DEF StopEnd
<1>9. ASSUME NEW r \in Requests, AdminExtend(r) PROVE G
  <2> DEFINE s == request[r].session
  <2>1. session' = [session EXCEPT ![s].state = IF session[s].state = "expired" THEN "live"
                                                ELSE session[s].state]
    BY <1>9 DEF AdminExtend
  <2>2. s \in Sessions => session[s].state \in {"none", "live", "expired", "revoked"}
    BY DEF SessionShape
  <2>3. s \notin Sessions => session' = session
    BY <2>1
  <2>4. s \in Sessions => session' \in [Sessions -> SessionShape]
    BY <1>0, <2>1, <2>2
  <2> QED
    BY <1>9, <2>3, <2>4 DEF AdminExtend
<1>10. ASSUME NEW s \in Sessions, ExpireSession(s) PROVE G
  BY <1>0, <1>10 DEF ExpireSession
<1>11. ASSUME NEW r \in Requests, NEW s \in Sessions, StartLog(r, s) PROVE G
  BY <1>11 DEF StartLog
<1>12. ASSUME NEW r \in Requests, LoginDone(r) PROVE G
  <2>1. request[r].session \in Sessions \cup {None}
    BY DEF RequestShape
  <2> QED
    BY <1>12, <2>1 DEF LoginDone
<1>13. ASSUME UNCHANGED session, UNCHANGED jar, UNCHANGED log PROVE G
  BY <1>13
<1>14. \/ UNCHANGED session /\ UNCHANGED jar /\ UNCHANGED log
       \/ \E r \in Requests :
             \/ \E s \in Sessions : LoginCreate(r, s) \/ StartLog(r, s)
             \/ \E u \in Users : StartMark(r, u)
             \/ StartMint(r) \/ StopRevoke(r) \/ StopEnd(r) \/ AdminExtend(r) \/ LoginDone(r)
       \/ \E u \in Users, p \in Passwords, s \in Sessions : AdminLogin(u, p, s)
       \/ \E which \in {"page", "admin"} : Logout(which)
       \/ \E s \in Sessions : ExpireSession(s)
  BY ZenonT(60) DEF Next, Arrive, Serve, LoginCheck, Signup, Ask, Follow, AdminPage, Stop, Mail, CommitLink,
     Consume, LoginLookup, LoginReject, Tick, ExpireLink, Crash
<1> QED
  BY <1>2, <1>3, <1>4, <1>5, <1>6, <1>7, <1>8, <1>9, <1>10, <1>11, <1>12, <1>13, <1>14

LEMMA ShapeStep == Shape /\ [Next]_vars => Shape'
<1>1. Shape /\ UNCHANGED vars => Shape'
  BY DEF vars, links, admin, Shape
<1>2. ASSUME Shape, Next PROVE request' \in [Requests -> RequestShape]
  <2>1. request' = request \/ Crash \/ \E r \in Requests : Arrive(r) \/ Serve(r)
    BY <1>2 DEF Next, Logout, AdminLogin, Tick, ExpireLink, ExpireSession
  <2> QED
    BY <1>2, <2>1, IdleShape, RequestShapeStep DEF Crash, Shape
<1> QED
  BY <1>1, <1>2, LinkShapeStep, AdminShapeStep DEF Shape

-----------------------------------------------------------------------------
(* Mailed links work once.                                                 *)

Writing(r)   == request[r].pc \in {"mail", "commit"}
Following(r) == request[r].pc = "follow"

\* A job has a link of its own, which nobody can use before its commit, and
\* who follows a link was mailed it.
LinkInv ==
    /\ \A r \in Requests : Writing(r) =>
          request[r].link \in Links /\ link[request[r].link].state = "pending"
    /\ \A r, q \in Requests :
          Writing(r) /\ Writing(q) /\ r # q => request[r].link # request[q].link
    /\ \A r \in Requests : Following(r) => request[r].link \in inbox
    /\ \A r \in Requests : request[r].pc = "welcome" => request[r].link \in Links
    /\ inbox \subseteq Links
    /\ LinkWorksOnce

LEMMA InitLinkInv == Init => LinkInv
BY DEF Init, LinkInv, LinkWorksOnce, Writing, Following, Idle

\* No request takes up a link, whatever else it does.
LEMMA LinkFrame ==
    ASSUME LinkInv, UNCHANGED account, UNCHANGED link, UNCHANGED uses,
           inbox \subseteq inbox', inbox' \subseteq Links,
           \A r \in Requests :
              /\ Writing(r)' => Writing(r) /\ request'[r].link = request[r].link
              /\ Following(r)' => Following(r) /\ request'[r].link = request[r].link
              /\ request'[r].pc = "welcome" =>
                    request[r].pc = "welcome" /\ request'[r].link = request[r].link
    PROVE  LinkInv'
<1>1. LinkWorksOnce'
  BY DEF LinkInv, LinkWorksOnce
<1>2. \A r \in Requests :
         /\ Writing(r)' => Writing(r) /\ request[r].link' = request[r].link
         /\ Following(r)' => Following(r) /\ request[r].link' = request[r].link
  OBVIOUS
<1> HIDE DEF Writing, Following
<1> QED
  BY <1>1, <1>2 DEF LinkInv

\* One link moves on, and no other request is at work on it.
LEMMA LinkMoves ==
    ASSUME Shape, LinkInv, NEW l \in Links, NEW v \in LinkShape,
           link' = [link EXCEPT ![l] = v], UNCHANGED uses, UNCHANGED inbox,
           link[l].state # "spent", v.state # "spent",
           \A u \in Users : account'[u].verified => account[u].verified,
           \A r \in Requests :
              /\ Writing(r)' => \/ /\ Writing(r) /\ request'[r].link = request[r].link
                                   /\ request[r].link = l => v.state = "pending"
                                \/ /\ request'[r].link = l /\ v.state = "pending"
                                   /\ \A q \in Requests \ {r} :
                                         Writing(q)' => Writing(q) /\ request'[q].link = request[q].link
                                                        /\ request[q].link # l
              /\ Following(r)' => Following(r) /\ request'[r].link = request[r].link
              /\ request'[r].pc = "welcome" => request'[r].link \in Links
    PROVE  LinkInv'
<1>0. \A m \in Links : link'[m] = IF m = l THEN v ELSE link[m]
  BY DEF Shape
<1>1. LinkWorksOnce'
  <2>1. \A m \in Links : (link'[m].state = "spent") <=> (link[m].state = "spent")
    BY <1>0
  <2>2. \A m \in Links : link[m].state = "spent" => link'[m] = link[m]
    BY <1>0
  <2>3. \A m, u : link[m] = [state |-> "spent", kind |-> "verify", user |-> u] =>
                    link[m].state = "spent"
    OBVIOUS
  <2>4. \A m \in Links : uses'[m] = IF link'[m].state = "spent" THEN 1 ELSE 0
    BY <2>1 DEF LinkInv, LinkWorksOnce
  <2>5. ASSUME NEW u \in Users, account'[u].verified, u \notin PlatformAdmins
        PROVE  \E m \in inbox' : link'[m] = [state |-> "spent", kind |-> "verify", user |-> u]
    <3>1. PICK m \in inbox : link[m] = [state |-> "spent", kind |-> "verify", user |-> u]
      BY <2>5 DEF LinkInv, LinkWorksOnce
    <3>2. link'[m] = link[m]
      BY <2>2, <2>3, <3>1 DEF LinkInv
    <3> QED
      BY <3>1, <3>2
  <2> QED
    BY <2>4, <2>5 DEF LinkWorksOnce
<1>2. \A r \in Requests : Writing(r)' =>
         request'[r].link \in Links /\ link'[request'[r].link].state = "pending"
  BY <1>0 DEF LinkInv
<1>3. \A r, q \in Requests :
         Writing(r)' /\ Writing(q)' /\ r # q => request'[r].link # request'[q].link
  BY DEF LinkInv
<1>4. \A r \in Requests : Following(r)' => request'[r].link \in inbox'
  BY DEF LinkInv
<1> QED
  BY <1>1, <1>2, <1>3, <1>4 DEF LinkInv

\* The steps that change links.
LEMMA LinkChanges ==
    ASSUME Shape, LinkInv,
           \/ \E r \in Requests :
                 \/ \E u \in Users, p \in Passwords, l \in Links : Signup(r, u, p, l)
                 \/ \E u \in Users, l \in Links, kind \in {"verify", "reset"} : Ask(r, u, kind, l)
                 \/ CommitLink(r) \/ Consume(r)
           \/ \E l \in Links : ExpireLink(l)
           \/ Crash
    PROVE  LinkInv'
<1> USE DEF links, Steps
<1>1. ASSUME NEW r \in Requests, NEW u \in Users, NEW p \in Passwords, NEW l \in Links,
             Signup(r, u, p, l)
      PROVE  LinkInv'
  <2> DEFINE v == [state |-> "live", kind |-> "verify", user |-> u]
  <2>1. /\ link' = [link EXCEPT ![l] = v] /\ link[l].state = "unused"
        /\ UNCHANGED uses /\ UNCHANGED inbox
        /\ account' = [account EXCEPT ![u] = [password |-> p, verified |-> FALSE]]
    BY <1>1 DEF Signup, Issue
  <2>2. request'[r].pc = "welcome" /\ request'[r].link = l /\ Others(r)
    BY <1>1, Begun DEF Signup
  <2>3. v \in LinkShape /\ v.state = "live"
    BY DEF LinkShape
  <2>4. \A x \in Users : account'[x].verified => account[x].verified
    BY <2>1 DEF Shape
  <2>5. \A q \in Requests : Writing(q) => request[q].link # l
    BY <2>1 DEF LinkInv
  <2> HIDE DEF v
  <2>6. \A q \in Requests :
           /\ Writing(q)' => Writing(q) /\ request'[q].link = request[q].link
           /\ Following(q)' => Following(q) /\ request'[q].link = request[q].link
           /\ request'[q].pc = "welcome" => request'[q].link \in Links
    BY <2>2 DEF Writing, Following, Others, LinkInv
  <2> QED
    BY <2>1, <2>3, <2>4, <2>5, <2>6, LinkMoves
<1>2. ASSUME NEW r \in Requests, NEW u \in Users, NEW l \in Links, NEW kind \in {"verify", "reset"},
             Ask(r, u, kind, l)
      PROVE  LinkInv'
  <2> DEFINE v == [state |-> "pending", kind |-> kind, user |-> u]
  <2>1. /\ link' = [link EXCEPT ![l] = v] /\ link[l].state = "unused"
        /\ UNCHANGED uses /\ UNCHANGED inbox /\ UNCHANGED account
    BY <1>2 DEF Ask, Issue
  <2>2. request'[r].pc = "mail" /\ request'[r].link = l /\ Others(r)
    BY <1>2, Begun DEF Ask
  <2>3. v \in LinkShape /\ v.state = "pending"
    BY DEF LinkShape
  <2>5. \A q \in Requests : Writing(q) => request[q].link # l
    BY <2>1 DEF LinkInv
  <2> HIDE DEF v
  <2>6. \A q \in Requests :
           /\ q # r => (Writing(q)' => Writing(q) /\ request'[q].link = request[q].link)
           /\ Following(q)' => Following(q) /\ request'[q].link = request[q].link
           /\ request'[q].pc = "welcome" => request'[q].link \in Links
    BY <2>2 DEF Writing, Following, Others, LinkInv
  <2>7. \A q \in Requests : Writing(q)' =>
           \/ Writing(q) /\ request'[q].link = request[q].link /\ request[q].link # l
           \/ q = r /\ request'[q].link = l
    BY <2>2, <2>5, <2>6
  <2>8. \A q \in Requests \ {r} : Writing(q)' =>
           Writing(q) /\ request'[q].link = request[q].link /\ request[q].link # l
    BY <2>5, <2>6
  <2>9. \A x \in Users : account'[x].verified => account[x].verified
    BY <2>1
  <2>10. ASSUME NEW q \in Requests, Writing(q)'
         PROVE  \/ /\ Writing(q) /\ request'[q].link = request[q].link
                   /\ request[q].link = l => v.state = "pending"
                \/ /\ request'[q].link = l /\ v.state = "pending"
                   /\ \A o \in Requests \ {q} :
                         Writing(o)' => Writing(o) /\ request'[o].link = request[o].link
                                        /\ request[o].link # l
    BY <2>3, <2>7, <2>8, <2>10
  <2>11. \A q \in Requests :
            /\ Writing(q)' => \/ /\ Writing(q) /\ request'[q].link = request[q].link
                                 /\ request[q].link = l => v.state = "pending"
                              \/ /\ request'[q].link = l /\ v.state = "pending"
                                 /\ \A o \in Requests \ {q} :
                                       Writing(o)' => Writing(o) /\ request'[o].link = request[o].link
                                                      /\ request[o].link # l
            /\ Following(q)' => Following(q) /\ request'[q].link = request[q].link
            /\ request'[q].pc = "welcome" => request'[q].link \in Links
    BY <2>6, <2>10
  <2>12. UNCHANGED uses /\ UNCHANGED inbox /\ link[l].state # "spent" /\ v.state # "spent"
         /\ link' = [link EXCEPT ![l] = v] /\ v \in LinkShape
    BY <2>1, <2>3
  <2> QED
    BY <2>9, <2>11, <2>12, LinkMoves
<1>3. ASSUME NEW r \in Requests, CommitLink(r) PROVE LinkInv'
  <2> DEFINE l == request[r].link
  <2>1. l \in Links /\ link[l].state = "pending"
    BY <1>3 DEF CommitLink, LinkInv, Writing
  <2>2. PICK to \in {"live", "void"} : link' = [link EXCEPT ![l] = [link[l] EXCEPT !.state = to]]
    BY <1>3 DEF CommitLink
  <2> DEFINE v == [link[l] EXCEPT !.state = to]
  <2>3. v \in LinkShape /\ v.state # "spent"
    BY <2>1 DEF Shape, LinkShape
  <2>4. request'[r].pc = "idle" /\ Others(r)
    BY <1>3, Finished DEF CommitLink
  <2>5. \A q \in Requests \ {r} : Writing(q) => request[q].link # l
    BY <1>3 DEF LinkInv, CommitLink, Writing
  <2>6. UNCHANGED uses /\ UNCHANGED inbox /\ UNCHANGED account
    BY <1>3 DEF CommitLink
  <2> HIDE DEF v, l
  <2>7. \A q \in Requests :
           /\ Writing(q)' => q # r /\ Writing(q) /\ request'[q].link = request[q].link
           /\ Following(q)' => Following(q) /\ request'[q].link = request[q].link
           /\ request'[q].pc = "welcome" => request'[q].link \in Links
    BY <2>4 DEF Writing, Following, Others, LinkInv
  <2>8. \A q \in Requests : Writing(q)' =>
           Writing(q) /\ request'[q].link = request[q].link /\ request[q].link # l
    BY <2>5, <2>7
  <2>9. \A x \in Users : account'[x].verified => account[x].verified
    BY <2>6
  <2>10. link' = [link EXCEPT ![l] = v] /\ link[l].state # "spent"
    BY <2>1, <2>2 DEF v
  <2>11. \A q \in Requests :
            /\ Writing(q)' => \/ /\ Writing(q) /\ request'[q].link = request[q].link
                                 /\ request[q].link = l => v.state = "pending"
                              \/ /\ request'[q].link = l /\ v.state = "pending"
                                 /\ \A o \in Requests \ {q} :
                                       Writing(o)' => Writing(o) /\ request'[o].link = request[o].link
                                                      /\ request[o].link # l
            /\ Following(q)' => Following(q) /\ request'[q].link = request[q].link
            /\ request'[q].pc = "welcome" => request'[q].link \in Links
    BY <2>7, <2>8
  <2>12. UNCHANGED uses /\ UNCHANGED inbox /\ link[l].state # "spent" /\ v.state # "spent"
         /\ link' = [link EXCEPT ![l] = v] /\ v \in LinkShape /\ l \in Links
    BY <2>1, <2>3, <2>6, <2>10
  <2> QED
    BY <2>9, <2>11, <2>12, LinkMoves
<1>4. ASSUME NEW l \in Links, ExpireLink(l) PROVE LinkInv'
  <2> DEFINE v == [link[l] EXCEPT !.state = "expired"]
  <2>1. /\ link' = [link EXCEPT ![l] = v] /\ link[l].state = "live"
        /\ UNCHANGED uses /\ UNCHANGED inbox /\ UNCHANGED account /\ UNCHANGED request
    BY <1>4 DEF ExpireLink
  <2>2. v \in LinkShape /\ v.state = "expired"
    BY SMTT(30) DEF Shape, LinkShape
  <2>3. \A q \in Requests : Writing(q) => request[q].link # l
    BY <2>1 DEF LinkInv
  <2> HIDE DEF v
  <2>4. \A q \in Requests : Writing(q)' = Writing(q) /\ Following(q)' = Following(q)
    BY <2>1 DEF Writing, Following
  <2> QED
    BY <2>1, <2>2, <2>3, <2>4, LinkMoves DEF LinkInv
<1>5. ASSUME Crash PROVE LinkInv'
  <2>1. \A r \in Requests : request'[r].pc = "idle"
    BY <1>5 DEF Crash, Idle
  <2>2. UNCHANGED uses /\ UNCHANGED inbox /\ UNCHANGED account
    BY <1>5 DEF Crash
  <2>3. \A l \in Links : /\ link'[l].state = "spent" <=> link[l].state = "spent"
                         /\ link[l].state = "spent" => link'[l] = link[l]
    BY <1>5 DEF Crash, Shape, LinkShape
  <2>4. \A m, u : link[m] = [state |-> "spent", kind |-> "verify", user |-> u] =>
                    link[m].state = "spent"
    OBVIOUS
  <2>5. LinkWorksOnce'
    <3>1. \A m \in Links : uses'[m] = IF link'[m].state = "spent" THEN 1 ELSE 0
      BY <2>2, <2>3 DEF LinkInv, LinkWorksOnce
    <3>2. ASSUME NEW u \in Users, account'[u].verified, u \notin PlatformAdmins
          PROVE  \E m \in inbox' : link'[m] = [state |-> "spent", kind |-> "verify", user |-> u]
      BY <2>2, <2>3, <2>4, <3>2 DEF LinkInv, LinkWorksOnce
    <3> QED
      BY <3>1, <3>2 DEF LinkWorksOnce
  <2> QED
    BY <2>1, <2>2, <2>5 DEF LinkInv, Writing, Following
<1>6. ASSUME NEW r \in Requests, Consume(r) PROVE LinkInv'
  <2> DEFINE l == request[r].link
  <2>1. request'[r].pc = "idle" /\ Others(r) /\ UNCHANGED inbox /\ l \in inbox /\ inbox \subseteq Links
    BY <1>6, Finished DEF Consume, LinkInv, Following
  <2>2. \A q \in Requests :
           /\ Writing(q)' => Writing(q) /\ request'[q].link = request[q].link
           /\ Following(q)' => Following(q) /\ request'[q].link = request[q].link
           /\ request'[q].pc = "welcome" =>
                 request[q].pc = "welcome" /\ request'[q].link = request[q].link
    BY <2>1 DEF Writing, Following, Others
  <2>3. CASE UNCHANGED <<account, link, uses>>
    BY <2>1, <2>2, <2>3, LinkFrame DEF LinkInv
  <2>4. CASE /\ Consumable(l) /\ Effect(l, request[r].password)
             /\ link' = [link EXCEPT ![l].state = "spent"]
             /\ uses' = [uses EXCEPT ![l] = @ + 1]
    <3>1. l \in Links /\ link[l].state \in {"live", "expired"}
      BY <2>1, <2>4 DEF Consumable
    <3>2. \A m \in Links : link'[m] = IF m = l THEN [link[l] EXCEPT !.state = "spent"] ELSE link[m]
      BY <2>4, <3>1 DEF Shape
    <3>3. link[l] \in LinkShape
      BY <3>1 DEF Shape
    <3>4. [link[l] EXCEPT !.state = "spent"] =
             [state |-> "spent", kind |-> link[l].kind, user |-> link[l].user]
      BY <3>3 DEF LinkShape
    <3>5. \A m \in Links : uses'[m] = IF m = l THEN uses[l] + 1 ELSE uses[m]
      BY <2>4, <3>1 DEF Shape
    <3> HIDE DEF l
    <3>6. \A m \in Links : uses'[m] = IF link'[m].state = "spent" THEN 1 ELSE 0
      BY <3>1, <3>2, <3>4, <3>5 DEF LinkInv, LinkWorksOnce
    <3>7. ASSUME NEW u \in Users, account'[u].verified, u \notin PlatformAdmins
          PROVE  \E m \in inbox' : link'[m] = [state |-> "spent", kind |-> "verify", user |-> u]
      <4>1. account[u].verified \/ (u = link[l].user /\ link[l].kind = "verify")
        BY <2>4, <3>3, <3>7 DEF Effect, Shape, LinkShape
      <4>2. CASE u = link[l].user /\ link[l].kind = "verify"
        BY <2>1, <3>1, <3>2, <3>4, <4>2
      <4>3. CASE account[u].verified
        <5>1. PICK m \in inbox : link[m] = [state |-> "spent", kind |-> "verify", user |-> u]
          BY <3>7, <4>3 DEF LinkInv, LinkWorksOnce
        <5>2. link[m].state = "spent"
          BY <5>1
        <5>3. m \in Links /\ m # l
          BY <2>1, <3>1, <5>2
        <5> QED
          BY <2>1, <3>2, <5>1, <5>3
      <4> QED
        BY <4>1, <4>2, <4>3
    <3>8. \A q \in Requests : Writing(q)' =>
             request'[q].link \in Links /\ link'[request'[q].link].state = "pending"
      BY <2>2, <3>1, <3>2 DEF LinkInv
    <3> QED
      BY <2>1, <2>2, <3>6, <3>7, <3>8 DEF LinkInv, LinkWorksOnce
  <2> QED
    BY <1>6, <2>3, <2>4 DEF Consume
<1> QED
  BY <1>1, <1>2, <1>3, <1>4, <1>5, <1>6

LEMMA LinkStep == Shape /\ LinkInv /\ [Next]_vars => LinkInv'
<1> SUFFICES ASSUME Shape, LinkInv, [Next]_vars PROVE LinkInv'
  OBVIOUS
<1> USE DEF Steps
<1>1. ASSUME UNCHANGED account, UNCHANGED link, UNCHANGED uses, UNCHANGED inbox,
             \/ request' = request
             \/ \E r \in Requests :
                   /\ Others(r)
                   /\ \/ request'[r].pc \notin {"welcome", "mail", "commit", "follow"}
                      \/ request'[r].pc = "follow" /\ request'[r].link \in inbox
                      \/ /\ request'[r].pc = "commit" /\ Writing(r)
                         /\ request'[r].link = request[r].link
      PROVE  LinkInv'
  <2>1. LinkWorksOnce'
    BY <1>1 DEF LinkInv, LinkWorksOnce
  <2>2. \A r \in Requests : Writing(r)' => Writing(r) /\ request'[r].link = request[r].link
    BY <1>1 DEF Others, Writing
  <2>3. \A r \in Requests : Following(r)' => request'[r].link \in inbox
    BY <1>1 DEF Others, Following, LinkInv
  <2>4. \A r \in Requests : request'[r].pc = "welcome" => request'[r].link \in Links
    BY <1>1 DEF Others, LinkInv
  <2>5. \A r \in Requests : Writing(r)' =>
           request'[r].link \in Links /\ link'[request'[r].link].state = "pending"
    BY <1>1, <2>2 DEF LinkInv
  <2>6. \A r, q \in Requests :
           Writing(r)' /\ Writing(q)' /\ r # q => request'[r].link # request'[q].link
    BY <2>2 DEF LinkInv
  <2> QED
    BY <1>1, <2>1, <2>3, <2>4, <2>5, <2>6 DEF LinkInv
<1>2. ASSUME NEW r \in Requests, Arrive(r) PROVE LinkInv'
  <2>1. ASSUME NEW u \in Users, NEW p \in Passwords, LoginCheck(r, u, p) PROVE LinkInv'
    <3>1. Others(r) /\ request'[r].pc = "lookup"
      BY <2>1, Begun DEF LoginCheck
    <3> QED
      BY <1>1, <2>1, <3>1 DEF LoginCheck, links
  <2>2. ASSUME NEW l \in Links, NEW p \in Passwords, Follow(r, l, p) PROVE LinkInv'
    <3>1. Others(r) /\ request'[r].pc = "follow" /\ request'[r].link = l
      BY <2>2, Begun DEF Follow
    <3> QED
      BY <1>1, <2>2, <3>1 DEF Follow, links
  <2>3. ASSUME AdminPage(r) PROVE LinkInv'
    <3>0. jar.admin \in Sessions /\ session[jar.admin].user \in Users \cup {None}
      BY <2>3 DEF AdminPage, Live, Shape, SessionShape
    <3>1. Others(r) /\ request'[r].pc = "extend"
      BY <2>3, <3>0, Begun DEF AdminPage
    <3> QED
      BY <1>1, <2>3, <3>1 DEF AdminPage, links
  <2>4. ASSUME Stop(r) PROVE LinkInv'
    <3>0. jar.page \in Sessions /\ session[jar.page].acting \in Users \cup {None}
      BY <2>4 DEF Stop, Live, Shape, SessionShape
    <3>1. Others(r) /\ request'[r].pc = "revoke"
      BY <2>4, <3>0, Begun DEF Stop
    <3> QED
      BY <1>1, <2>4, <3>1 DEF Stop, links
  <2> QED
    BY <1>2, <2>1, <2>2, <2>3, <2>4, LinkChanges DEF Arrive
<1>3. ASSUME NEW r \in Requests, Serve(r) PROVE LinkInv'
  <2>1. ASSUME Mail(r) PROVE LinkInv'
    <3>1. /\ UNCHANGED account /\ UNCHANGED link /\ UNCHANGED uses
          /\ inbox' = inbox \cup {request[r].link} \/ inbox' = inbox
          /\ request[r].pc \in {"welcome", "mail"}
      BY <2>1 DEF Mail
    <3>2. /\ Others(r)
          /\ \/ request'[r].pc = "idle"
             \/ /\ request'[r].pc = "commit" /\ request'[r].link = request[r].link
                /\ request[r].pc = "mail"
      BY <2>1, Stepped, Finished DEF Mail
    <3>3. request[r].link \in Links
      BY <3>1 DEF LinkInv, Writing
    <3>4. inbox \subseteq inbox' /\ inbox' \subseteq Links
      BY <3>1, <3>3 DEF LinkInv
    <3>5. \A q \in Requests :
             /\ Writing(q)' => Writing(q) /\ request'[q].link = request[q].link
             /\ Following(q)' => Following(q) /\ request'[q].link = request[q].link
             /\ request'[q].pc = "welcome" =>
                   request[q].pc = "welcome" /\ request'[q].link = request[q].link
      BY <3>2 DEF Writing, Following, Others
    <3> QED
      BY <3>1, <3>4, <3>5, LinkFrame
  <2>2. ASSUME LoginLookup(r) \/ LoginReject(r) \/ LoginDone(r) \/ AdminExtend(r) \/ StartMint(r)
               \/ StopRevoke(r) \/ \E u \in Users : StartMark(r, u)
        PROVE  LinkInv'
    <3>1. Others(r) /\ request'[r].pc \in {"idle", "reject", "accept", "start", "mark", "end"}
      BY <2>2, Stepped, Finished DEF LoginLookup, LoginReject, LoginDone, AdminExtend, StartMint,
         StopRevoke, StartMark
    <3>2. UNCHANGED account /\ UNCHANGED link /\ UNCHANGED uses /\ UNCHANGED inbox
      BY <2>2 DEF LoginLookup, LoginReject, LoginDone, AdminExtend, StartMint, StopRevoke,
         StartMark, links
    <3> QED
      BY <1>1, <3>1, <3>2
  <2>3. ASSUME NEW s \in Sessions, LoginCreate(r, s) \/ StartLog(r, s) PROVE LinkInv'
    <3>1. Others(r) /\ request'[r].pc \in {"idle", "opened", "mint"}
      BY <2>3, GivenSession, Finished DEF LoginCreate, StartLog
    <3>2. UNCHANGED account /\ UNCHANGED link /\ UNCHANGED uses /\ UNCHANGED inbox
      BY <2>3 DEF LoginCreate, StartLog, links
    <3> QED
      BY <1>1, <3>1, <3>2
  <2>4. ASSUME StopEnd(r) PROVE LinkInv'
    <3>1. [Idle EXCEPT !.pc = "leave", !.session = jar.admin].pc = "leave" /\ Idle.pc = "idle"
      BY DEF Idle
    <3>2. Others(r) /\ request'[r].pc \in {"idle", "leave"}
      BY <2>4, <3>1 DEF StopEnd, Done, Others, Shape
    <3> QED
      BY <1>1, <2>4, <3>2 DEF StopEnd, links
  <2> QED
    BY <1>3, <2>1, <2>2, <2>3, <2>4, LinkChanges DEF Serve
<1>4. ASSUME \/ \E which \in {"page", "admin"} : Logout(which)
             \/ \E u \in Users, p \in Passwords, s \in Sessions : AdminLogin(u, p, s)
             \/ \E s \in Sessions : ExpireSession(s)
             \/ Tick \/ UNCHANGED vars
      PROVE  LinkInv'
  <2>1. UNCHANGED account /\ UNCHANGED link /\ UNCHANGED uses /\ UNCHANGED inbox /\ UNCHANGED request
    BY <1>4 DEF Logout, AdminLogin, ExpireSession, Tick, vars, links
  <2> QED
    BY <1>1, <2>1
<1> QED
  BY <1>2, <1>3, <1>4, LinkChanges DEF Next

\* A mailed link changes an account once, in whatever number of tabs it is
\* followed, and nobody is verified but by a link that reached them.
THEOREM LinkWorksOnceAlways == Spec => []LinkWorksOnce
<1>1. Shape /\ LinkInv /\ [Next]_vars => (Shape /\ LinkInv)'
  BY ShapeStep, LinkStep
<1>2. LinkInv => LinkWorksOnce
  BY DEF LinkInv
<1> QED
  BY <1>1, <1>2, InitShape, InitLinkInv, PTL DEF Spec

-----------------------------------------------------------------------------
(* Impersonations are in the log.                                          *)

Making(r) == request[r].pc \in {"mint", "mark"}
Using(r)  == request[r].pc \in {"revoke", "end", "opened"}

\* A session in the making has its entry in the log and belongs to the one
\* request that makes it: it is in no cookie and is not being stopped.
ActInv ==
    /\ \A r \in Requests : Making(r) =>
          /\ request[r].session \in Sessions
          /\ log[request[r].session] = "open"
          /\ (request[r].pc = "mint") <=> (session[request[r].session].state = "none")
          /\ jar.page # request[r].session
    /\ \A r, q \in Requests :
          Making(r) /\ Making(q) /\ r # q => request[r].session # request[q].session
    /\ \A r \in Requests : Using(r) =>
          /\ request[r].session \in Sessions
          /\ session[request[r].session].state # "none"
          /\ \A q \in Requests : Making(q) => request[q].session # request[r].session
    /\ \A s \in {jar.page, jar.admin} : s # None => session[s].state # "none"
    /\ \A r \in Requests : request[r].pc = "end" =>
          session[request[r].session].state = "revoked" \/ request[r].session \in unrevoked
    /\ \A s \in Sessions :
          session[s].acting # None /\ session[s].state \in {"live", "expired"} =>
              log[s] = "open" \/ s \in unrevoked

LEMMA InitActInv == Init => ActInv
BY DEF Init, ActInv, Making, Using, Idle, NoSession

\* What sessions and the log may do in a step.
Sober ==
    /\ \A s \in Sessions :
          /\ session[s].state # "none" => session'[s].state # "none"
          /\ session[s].state = "revoked" => session'[s].state = "revoked"
          /\ session'[s].acting # None /\ session'[s].state \in {"live", "expired"} =>
                \/ session[s].acting # None /\ session[s].state \in {"live", "expired"}
                \/ log[s] = "open" /\ log'[s] = "open"
          /\ \/ log'[s] = log[s]
             \/ log'[s] = "open"
             \/ \E r \in Requests : request[r].pc = "end" /\ request[r].session = s
    /\ unrevoked \subseteq unrevoked'

LEMMA ActKeeps ==
    ASSUME Shape, ActInv, Sober,
           jar'.page # jar.page /\ jar'.page # None =>
              /\ session'[jar'.page].state # "none"
              /\ \A q \in Requests : Making(q)' => request'[q].session # jar'.page,
           jar'.admin # jar.admin /\ jar'.admin # None => session'[jar'.admin].state # "none",
           \A r \in Requests :
              /\ Making(r)' => /\ Making(r) /\ request'[r].session = request[r].session
                               /\ (request'[r].pc = "mint") <=>
                                     (session'[request[r].session].state = "none")
              /\ Using(r)' => \/ Using(r) /\ request'[r].session = request[r].session
                              \/ /\ request'[r].session \in Sessions
                                 /\ session'[request'[r].session].state # "none"
                                 /\ log[request'[r].session] = "none" \/ request'[r].session = jar.page
              /\ request'[r].pc = "end" =>
                    \/ request[r].pc = "end" /\ request'[r].session = request[r].session
                    \/ session'[request'[r].session].state = "revoked"
                    \/ request'[r].session \in unrevoked'
    PROVE  ActInv'
<1>1. \A r \in Requests : Making(r) => log'[request[r].session] = "open"
  <2> SUFFICES ASSUME NEW r \in Requests, Making(r) PROVE log'[request[r].session] = "open"
    OBVIOUS
  <2>1. \A q \in Requests : request[q].pc = "end" => request[q].session # request[r].session
    BY DEF ActInv, Using
  <2> QED
    BY <2>1 DEF ActInv, Sober
<1>2. \A r \in Requests : Making(r)' =>
          /\ request'[r].session \in Sessions
          /\ log'[request'[r].session] = "open"
          /\ (request'[r].pc = "mint") <=> (session'[request'[r].session].state = "none")
          /\ jar'.page # request'[r].session
  <2> SUFFICES ASSUME NEW r \in Requests, Making(r)'
               PROVE  /\ request'[r].session \in Sessions
                      /\ log'[request'[r].session] = "open"
                      /\ (request'[r].pc = "mint") <=> (session'[request'[r].session].state = "none")
                      /\ jar'.page # request'[r].session
    OBVIOUS
  <2>1. request[r].session \in Sessions /\ jar.page # request[r].session
    BY DEF ActInv
  <2>2. jar'.page # request'[r].session
    BY <2>1, AccountConstants
  <2> QED
    BY <1>1, <2>1, <2>2
<1>3. \A r, q \in Requests :
          Making(r)' /\ Making(q)' /\ r # q => request'[r].session # request'[q].session
  BY DEF ActInv
<1>4. \A r \in Requests : Using(r)' =>
          /\ request'[r].session \in Sessions
          /\ session'[request'[r].session].state # "none"
          /\ \A q \in Requests : Making(q)' => request'[q].session # request'[r].session
  <2> SUFFICES ASSUME NEW r \in Requests, Using(r)'
               PROVE  /\ request'[r].session \in Sessions
                      /\ session'[request'[r].session].state # "none"
                      /\ \A q \in Requests : Making(q)' => request'[q].session # request'[r].session
    OBVIOUS
  <2>1. CASE Using(r) /\ request'[r].session = request[r].session
    BY <2>1 DEF ActInv, Sober
  <2>2. CASE /\ request'[r].session \in Sessions
             /\ session'[request'[r].session].state # "none"
             /\ log[request'[r].session] = "none" \/ request'[r].session = jar.page
    BY <2>2 DEF ActInv
  <2> QED
    BY <2>1, <2>2
<1>5. \A s \in {jar'.page, jar'.admin} : s # None => session'[s].state # "none"
  <2>1. \A s \in {jar.page, jar.admin} : s # None => session'[s].state # "none"
    BY DEF Sober, ActInv, Shape
  <2> QED
    BY <2>1
<1>6. \A r \in Requests : request'[r].pc = "end" =>
          session'[request'[r].session].state = "revoked" \/ request'[r].session \in unrevoked'
  BY DEF ActInv, Sober, Using
<1>7. \A s \in Sessions :
          session'[s].acting # None /\ session'[s].state \in {"live", "expired"} =>
              log'[s] = "open" \/ s \in unrevoked'
  <2> SUFFICES ASSUME NEW s \in Sessions,
                      session'[s].acting # None, session'[s].state \in {"live", "expired"},
                      log'[s] # "open", s \notin unrevoked
               PROVE  FALSE
    BY DEF Sober
  <2>1. session[s].acting # None /\ session[s].state \in {"live", "expired"}
    BY DEF Sober
  <2>2. log[s] = "open"
    BY <2>1 DEF ActInv
  <2>3. PICK r \in Requests : request[r].pc = "end" /\ request[r].session = s
    BY <2>2 DEF Sober
  <2>4. session[s].state = "revoked"
    BY <2>3 DEF ActInv
  <2> QED
    BY <2>1, <2>4
<1> QED
  BY <1>2, <1>3, <1>4, <1>5, <1>6, <1>7 DEF ActInv

\* A request that makes and uses no session, and sessions left alone.
LEMMA ActFrame ==
    ASSUME Shape, ActInv, UNCHANGED session, UNCHANGED log,
           unrevoked \subseteq unrevoked',
           jar'.page \in {jar.page, None}, jar'.admin \in {jar.admin, None},
           \/ request' = request
           \/ \A r \in Requests : request'[r].pc = "idle"
           \/ \E r \in Requests :
                 /\ Others(r)
                 /\ \/ request'[r].pc \notin {"mint", "mark", "revoke", "end", "opened"}
                    \/ request'[r].pc = "revoke" /\ request'[r].session = jar.page /\ jar.page # None
    PROVE  ActInv'
<1>1. Sober
  BY DEF Sober, ActInv
<1>2. \A r \in Requests :
         /\ Making(r)' => /\ Making(r) /\ request'[r].session = request[r].session
                          /\ request'[r].pc = request[r].pc
         /\ Using(r)' => \/ Using(r) /\ request'[r].session = request[r].session
                         \/ request'[r].session = jar.page /\ jar.page # None
         /\ request'[r].pc = "end" =>
               request[r].pc = "end" /\ request'[r].session = request[r].session
  BY DEF Others, Making, Using
<1>3. jar.page # None => jar.page \in Sessions /\ session[jar.page].state # "none"
  BY DEF Shape, ActInv
<1>4. \A r \in Requests :
         /\ Making(r)' => /\ Making(r) /\ request'[r].session = request[r].session
                          /\ (request'[r].pc = "mint") <=>
                                (session'[request[r].session].state = "none")
         /\ Using(r)' => \/ Using(r) /\ request'[r].session = request[r].session
                         \/ /\ request'[r].session \in Sessions
                            /\ session'[request'[r].session].state # "none"
                            /\ log[request'[r].session] = "none" \/ request'[r].session = jar.page
         /\ request'[r].pc = "end" =>
               \/ request[r].pc = "end" /\ request'[r].session = request[r].session
               \/ session'[request'[r].session].state = "revoked"
               \/ request'[r].session \in unrevoked'
  BY <1>2, <1>3 DEF ActInv, Making
<1> QED
  BY <1>1, <1>4, ActKeeps

\* A session that comes into being, or changes its state.
LEMMA ActSession ==
    ASSUME Shape, ActInv, NEW s, NEW v \in SessionShape, session' = [session EXCEPT ![s] = v],
           UNCHANGED log, unrevoked \subseteq unrevoked',
           s \in Sessions => session[s].state # "revoked" \/ v.state = "revoked",
           s \in Sessions => v.state # "none",
           s \in Sessions => \/ v.state = "revoked" \/ v.acting = None
                             \/ log[s] = "open"
                             \/ v.acting = session[s].acting /\ session[s].state \in {"live", "expired"},
           jar'.page \in {jar.page, None} \/
              (jar'.page = s /\ s \in Sessions /\ \A q \in Requests : Making(q)' => request'[q].session # s),
           jar'.admin \in {jar.admin, None, s} /\ (jar'.admin = s => s \in Sessions \/ s = None),
           \A r \in Requests :
              /\ Making(r)' => /\ Making(r) /\ request'[r].session = request[r].session
                               /\ IF request[r].session = s THEN request'[r].pc = "mark"
                                  ELSE request'[r].pc = request[r].pc
              /\ Using(r)' => \/ Using(r) /\ request'[r].session = request[r].session
                              \/ /\ request'[r].session = s /\ s \in Sessions
                                 /\ log[s] = "none"
              /\ request'[r].pc = "end" =>
                    \/ request[r].pc = "end" /\ request'[r].session = request[r].session
                    \/ request'[r].session = s /\ s \in Sessions /\ v.state = "revoked"
    PROVE  ActInv'
<1>1. \A x \in Sessions : session'[x] = IF x = s THEN v ELSE session[x]
  BY DEF Shape
<1>2. Sober
  BY <1>1 DEF Sober, Shape
<1>3. s \in Sessions => session'[s].state # "none"
  BY <1>1
<1>4. jar'.page # jar.page /\ jar'.page # None =>
              /\ session'[jar'.page].state # "none"
              /\ \A q \in Requests : Making(q)' => request'[q].session # jar'.page
  BY <1>3
<1>5. jar'.admin # jar.admin /\ jar'.admin # None => session'[jar'.admin].state # "none"
  BY <1>3
<1>6. \A r \in Requests :
         /\ Making(r)' => /\ Making(r) /\ request'[r].session = request[r].session
                          /\ (request'[r].pc = "mint") <=>
                                (session'[request[r].session].state = "none")
         /\ Using(r)' => \/ Using(r) /\ request'[r].session = request[r].session
                         \/ /\ request'[r].session \in Sessions
                            /\ session'[request'[r].session].state # "none"
                            /\ log[request'[r].session] = "none" \/ request'[r].session = jar.page
         /\ request'[r].pc = "end" =>
               \/ request[r].pc = "end" /\ request'[r].session = request[r].session
               \/ session'[request'[r].session].state = "revoked"
               \/ request'[r].session \in unrevoked'
  <2>1. \A r \in Requests : Making(r) =>
           /\ request[r].session \in Sessions
           /\ (request[r].pc = "mint") <=> (session[request[r].session].state = "none")
    BY DEF ActInv
  <2> QED
    BY <1>1, <1>3, <2>1
<1> QED
  BY <1>2, <1>4, <1>5, <1>6, ActKeeps

LEMMA ActServe ==
    ASSUME Shape, ActInv, NEW r \in Requests, Serve(r)
    PROVE  ActInv'
<1> USE DEF Steps, admin
<1>0. /\ request[r] \in RequestShape /\ Idle.pc = "idle"
      /\ request[r].session \in Sessions =>
            /\ session[request[r].session] \in SessionShape
            /\ \A v \in {"none", "live", "expired", "revoked"} :
                  LET w == [session[request[r].session] EXCEPT !.state = v]
                  IN  w \in SessionShape /\ w.state = v /\ w.acting = session[request[r].session].acting
  BY DEF Shape, Idle, SessionShape
<1>1. ASSUME Mail(r) \/ CommitLink(r) \/ Consume(r) \/ LoginLookup(r) \/ LoginReject(r) PROVE ActInv'
  <2>1. Others(r) /\ request'[r].pc \in {"idle", "commit", "reject", "accept"}
    BY <1>1, Stepped, Finished DEF Mail, CommitLink, Consume, LoginLookup, LoginReject
  <2>2. UNCHANGED session /\ UNCHANGED log /\ UNCHANGED unrevoked /\ UNCHANGED jar
    BY <1>1 DEF Mail, CommitLink, Consume, LoginLookup, LoginReject
  <2> QED
    BY <2>1, <2>2, ActFrame
<1>2. ASSUME LoginDone(r) PROVE ActInv'
  <2> DEFINE s == request[r].session
  <2>1. /\ UNCHANGED session /\ UNCHANGED log /\ UNCHANGED unrevoked
        /\ jar' = [jar EXCEPT !.page = s] /\ request[r].pc = "opened"
    BY <1>2 DEF LoginDone
  <2>2. Others(r) /\ request'[r].pc = "idle"
    BY <1>2, Finished DEF LoginDone
  <2>3. /\ s \in Sessions /\ session[s].state # "none"
        /\ \A q \in Requests : Making(q) => request[q].session # s
    BY <2>1 DEF ActInv, Using
  <2>4. jar'.page = s /\ jar'.admin = jar.admin
    BY <2>1 DEF Shape
  <2>5. \A q \in Requests : request'[q] = request[q] \/ request'[q].pc = "idle"
    BY <2>2 DEF Others
  <2>6. Sober
    BY <2>1 DEF Sober, ActInv
  <2>7. \A q \in Requests :
           /\ Making(q)' => Making(q) /\ request'[q] = request[q]
           /\ Using(q)' => Using(q) /\ request'[q] = request[q]
           /\ request'[q].pc = "end" => request'[q] = request[q]
    BY <2>5 DEF Making, Using
  <2>8. \A q \in Requests : Making(q) =>
           (request[q].pc = "mint") <=> (session[request[q].session].state = "none")
    BY DEF ActInv
  <2> QED
    BY <2>1, <2>3, <2>4, <2>6, <2>7, <2>8, ActKeeps
<1>3. ASSUME NEW s \in Sessions, LoginCreate(r, s) PROVE ActInv'
  <2>1. CASE session' = session /\ Done(r)
    <3>1. Others(r) /\ request'[r].pc = "idle"
      BY <2>1, Finished
    <3>2. UNCHANGED log /\ UNCHANGED unrevoked /\ UNCHANGED jar
      BY <1>3 DEF LoginCreate
    <3> QED
      BY <2>1, <3>1, <3>2, ActFrame
  <2>2. CASE Create(s, request[r].user)
             /\ request' = [request EXCEPT ![r].pc = "opened", ![r].session = s]
    <3> DEFINE v == [user |-> request[r].user, acting |-> None, state |-> "live"]
    <3>1. Others(r) /\ request'[r].pc = "opened" /\ request'[r].session = s
      BY <2>2, GivenSession
    <3>2. /\ session' = [session EXCEPT ![s] = v] /\ session[s].state = "none" /\ log[s] = "none"
          /\ UNCHANGED log /\ UNCHANGED unrevoked /\ UNCHANGED jar
      BY <1>3, <2>2 DEF LoginCreate, Create
    <3>3. v \in SessionShape /\ v.acting = None /\ v.state = "live"
      BY <1>0 DEF SessionShape, RequestShape
    <3>4. \A q \in Requests : Making(q) => request[q].session # s
      BY <3>2 DEF ActInv
    <3> HIDE DEF v
    <3>5. \A q \in Requests \ {r} : request'[q] = request[q]
      BY <3>1 DEF Others
    <3>6. \A q \in Requests :
             /\ Making(q)' => Making(q) /\ request'[q] = request[q]
             /\ Using(q)' => \/ Using(q) /\ request'[q] = request[q]
                             \/ request'[q].session = s
             /\ request'[q].pc = "end" => request'[q] = request[q]
      BY <3>1, <3>5 DEF Making, Using
    <3> QED
      BY ZenonT(60), <3>2, <3>3, <3>4, <3>6, ActSession
  <2> QED
    BY <1>3, <2>1, <2>2 DEF LoginCreate
<1>4. ASSUME NEW s \in Sessions, StartLog(r, s) PROVE ActInv'
  <2>1. Others(r) /\ request'[r].pc = "mint" /\ request'[r].session = s
    BY <1>4, GivenSession DEF StartLog
  <2>2. /\ log' = [log EXCEPT ![s] = "open"] /\ log[s] = "none" /\ session[s].state = "none"
        /\ UNCHANGED session /\ UNCHANGED unrevoked /\ UNCHANGED jar
    BY <1>4 DEF StartLog
  <2>3. \A x \in Sessions : log'[x] = IF x = s THEN "open" ELSE log[x]
    BY <2>2 DEF Shape
  <2>4. \A q \in Requests \ {r} : request'[q] = request[q]
    BY <2>1 DEF Others
  <2>5. jar.page # s
    BY <2>2, AccountConstants DEF ActInv
  <2>6. \A q \in Requests : Making(q)' =>
           /\ request'[q].session \in Sessions
           /\ log'[request'[q].session] = "open"
           /\ (request'[q].pc = "mint") <=> (session'[request'[q].session].state = "none")
           /\ jar'.page # request'[q].session
    <3>1. \A q \in Requests \ {r} : Making(q)' => Making(q)
      BY <2>4 DEF Making
    <3> QED
      BY <2>1, <2>2, <2>3, <2>4, <2>5, <3>1 DEF ActInv
  <2>7. \A q \in Requests \ {r} :
           /\ Making(q)' => Making(q) /\ request'[q].session # s
           /\ Using(q)' => Using(q) /\ request'[q].session # s
    BY <2>2, <2>4 DEF ActInv, Making, Using
  <2>8. \A p, q \in Requests :
           Making(p)' /\ Making(q)' /\ p # q => request'[p].session # request'[q].session
    BY <2>1, <2>4, <2>7 DEF ActInv
  <2>9. \A q \in Requests : Using(q)' =>
           /\ request'[q].session \in Sessions
           /\ session'[request'[q].session].state # "none"
           /\ \A p \in Requests : Making(p)' => request'[p].session # request'[q].session
    BY <2>1, <2>2, <2>4, <2>7 DEF ActInv, Using
  <2>10. \A q \in Requests : request'[q].pc = "end" =>
            session'[request'[q].session].state = "revoked" \/ request'[q].session \in unrevoked'
    BY <2>1, <2>2, <2>4 DEF ActInv
  <2>11. \A x \in {jar'.page, jar'.admin} : x # None => session'[x].state # "none"
    BY <2>2 DEF ActInv
  <2>12. \A x \in Sessions :
            session'[x].acting # None /\ session'[x].state \in {"live", "expired"} =>
                log'[x] = "open" \/ x \in unrevoked'
    BY <2>2, <2>3 DEF ActInv
  <2> QED
    BY <2>6, <2>8, <2>9, <2>10, <2>11, <2>12 DEF ActInv
<1>5. ASSUME AdminExtend(r) PROVE ActInv'
  <2> DEFINE s == request[r].session
             v == [session[s] EXCEPT !.state = "live"]
  <2>1. Others(r) /\ request'[r].pc \in {"idle", "start"}
    BY <1>5, Stepped, Finished DEF AdminExtend
  <2>2. /\ UNCHANGED log /\ UNCHANGED unrevoked /\ UNCHANGED jar
        /\ session' = [session EXCEPT ![s].state = IF session[s].state = "expired" THEN "live"
                                                   ELSE session[s].state]
    BY <1>5 DEF AdminExtend
  <2>3. CASE s \notin Sessions \/ session[s].state # "expired"
    <3>1. session' = session
      BY <2>2, <2>3 DEF Shape, SessionShape
    <3> QED
      BY <2>1, <2>2, <3>1, ActFrame
  <2>4. CASE s \in Sessions /\ session[s].state = "expired"
    <3>1. session' = [session EXCEPT ![s] = v]
      BY <2>2, <2>4
    <3>2. v \in SessionShape /\ v.state = "live" /\ v.acting = session[s].acting
      BY <1>0, <2>4
    <3> HIDE DEF v
    <3>3. \A q \in Requests :
             /\ Making(q)' => Making(q) /\ request'[q] = request[q]
             /\ Using(q)' => Using(q) /\ request'[q] = request[q]
             /\ request'[q].pc = "end" => request'[q] = request[q]
      BY <2>1 DEF Making, Using, Others
    <3>4. Sober
      BY <2>2, <3>1, <3>2, <2>4 DEF Sober, Shape
    <3>5. \A q \in Requests : Making(q) =>
             (request[q].pc = "mint") <=> (session'[request[q].session].state = "none")
      BY <3>1, <3>2, <2>4 DEF ActInv, Shape
    <3> QED
      BY <2>2, <3>3, <3>4, <3>5, ActKeeps
  <2> QED
    BY <2>3, <2>4
<1>6. ASSUME StartMint(r) PROVE ActInv'
  <2> DEFINE s == request[r].session
             v == [user |-> request[r].user, acting |-> None, state |-> "live"]
  <2>1. UNCHANGED log /\ UNCHANGED unrevoked /\ UNCHANGED jar /\ request[r].pc = "mint"
    BY <1>6 DEF StartMint
  <2>2. CASE session' = session /\ Done(r)
    <3>1. Others(r) /\ request'[r].pc = "idle"
      BY <2>2, Finished
    <3> QED
      BY <2>1, <2>2, <3>1, ActFrame
  <2>3. CASE Create(s, request[r].user) /\ Step(r, "mark")
    <3>1. Others(r) /\ request'[r].pc = "mark" /\ request'[r].session = s
      BY <2>3, Stepped
    <3>2. session' = [session EXCEPT ![s] = v]
      BY <2>3 DEF Create
    <3>3. v \in SessionShape /\ v.acting = None /\ v.state = "live"
      BY <1>0 DEF SessionShape, RequestShape
    <3>4. /\ s \in Sessions /\ session[s].state = "none"
          /\ \A q \in Requests \ {r} : Making(q) => request[q].session # s
      BY <2>1 DEF ActInv, Making
    <3> HIDE DEF v, s
    <3>5. \A q \in Requests \ {r} : request'[q] = request[q]
      BY <3>1 DEF Others
    <3>6. \A q \in Requests :
             /\ Making(q)' => /\ Making(q) /\ request'[q].session = request[q].session
                              /\ IF request[q].session = s THEN request'[q].pc = "mark"
                                 ELSE request'[q].pc = request[q].pc
             /\ Using(q)' => Using(q) /\ request'[q] = request[q]
             /\ request'[q].pc = "end" => request'[q] = request[q]
      BY <2>1, <3>1, <3>4, <3>5 DEF Making, Using, s
    <3>7. \A q \in Requests :
           /\ Making(q)' => /\ Making(q) /\ request'[q].session = request[q].session
                            /\ IF request[q].session = s THEN request'[q].pc = "mark"
                               ELSE request'[q].pc = request[q].pc
           /\ Using(q)' => \/ Using(q) /\ request'[q].session = request[q].session
                           \/ /\ request'[q].session = s /\ s \in Sessions
                              /\ log[s] = "none"
           /\ request'[q].pc = "end" =>
                 \/ request[q].pc = "end" /\ request'[q].session = request[q].session
                 \/ request'[q].session = s /\ s \in Sessions /\ v.state = "revoked"
      BY <3>4, <3>6
    <3> QED
      BY <2>1, <3>2, <3>3, <3>4, <3>7, ActSession
  <2> QED
    BY <1>6, <2>2, <2>3 DEF StartMint
<1>7. ASSUME NEW u \in Users, StartMark(r, u) PROVE ActInv'
  <2> DEFINE s == request[r].session
             v == [session[s] EXCEPT !.acting = u]
  <2>1. UNCHANGED log /\ UNCHANGED unrevoked /\ request[r].pc = "mark"
    BY <1>7 DEF StartMark
  <2>2. Others(r) /\ request'[r].pc = "idle"
    BY <1>7, Finished DEF StartMark
  <2>3. CASE UNCHANGED <<session, jar>>
    BY <2>1, <2>2, <2>3, ActFrame
  <2>4. CASE session' = [session EXCEPT ![s].acting = u] /\ jar' = [jar EXCEPT !.page = s]
    <3>1. /\ s \in Sessions /\ log[s] = "open" /\ session[s].state # "none"
          /\ \A q \in Requests \ {r} : Making(q) => request[q].session # s
      BY <2>1 DEF ActInv, Making
    <3>2. v \in SessionShape /\ v.state = session[s].state
      BY <3>1 DEF Shape, SessionShape
    <3>3. session' = [session EXCEPT ![s] = v] /\ jar'.page = s /\ jar'.admin = jar.admin
      BY <2>4 DEF Shape
    <3> HIDE DEF v, s
    <3>4. \A q \in Requests \ {r} : request'[q] = request[q]
      BY <2>2 DEF Others
    <3>5. \A q \in Requests :
             /\ Making(q)' => /\ Making(q) /\ request'[q] = request[q] /\ request[q].session # s
             /\ Using(q)' => Using(q) /\ request'[q] = request[q]
             /\ request'[q].pc = "end" => request'[q] = request[q]
      BY <2>2, <3>1, <3>4 DEF Making, Using
    <3>6. Sober
      BY <2>1, <3>1, <3>2, <3>3 DEF Sober, Shape
    <3>7. \A q \in Requests : Making(q) =>
             (request[q].pc = "mint") <=> (session'[request[q].session].state = "none")
      BY <3>1, <3>2, <3>3 DEF ActInv, Shape
    <3>8. session'[s].state # "none"
      BY <3>1, <3>2, <3>3 DEF Shape
    <3> QED
      BY <3>3, <3>5, <3>6, <3>7, <3>8, ActKeeps
  <2> QED
    BY <1>7, <2>3, <2>4 DEF StartMark
<1>8. ASSUME StopRevoke(r) PROVE ActInv'
  <2> DEFINE s == request[r].session
             v == [session[s] EXCEPT !.state = "revoked"]
  <2>1. UNCHANGED log /\ UNCHANGED jar /\ request[r].pc = "revoke"
    BY <1>8 DEF StopRevoke
  <2>2. Others(r) /\ request'[r].pc = "end" /\ request'[r].session = s
    BY <1>8, Stepped DEF StopRevoke
  <2>3. /\ s \in Sessions
        /\ \A q \in Requests : Making(q) => request[q].session # s
    BY <2>1 DEF ActInv, Using
  <2>4. v \in SessionShape /\ v.state = "revoked"
    BY <1>0, <2>3
  <2>5. \/ session' = [session EXCEPT ![s] = v] /\ unrevoked' = unrevoked
        \/ session' = session /\ unrevoked' = unrevoked \cup {s}
    BY <1>8 DEF StopRevoke, Revoke
  <2>6. Using(r)
    BY <2>1 DEF Using
  <2> HIDE DEF v, s
  <2>7. \A q \in Requests \ {r} : request'[q] = request[q]
    BY <2>2 DEF Others
  <2>8. \A q \in Requests :
           /\ Making(q)' => /\ Making(q) /\ request'[q] = request[q] /\ request[q].session # s
           /\ Using(q)' => Using(q) /\ request'[q].session = request[q].session
           /\ request'[q].pc = "end" => request'[q] = request[q] \/ request'[q].session = s
    BY <2>2, <2>3, <2>6, <2>7 DEF Making, Using, s
  <2>9. CASE session' = [session EXCEPT ![s] = v] /\ unrevoked' = unrevoked
    <3>1. \A q \in Requests :
           /\ Making(q)' => /\ Making(q) /\ request'[q].session = request[q].session
                            /\ IF request[q].session = s THEN request'[q].pc = "mark"
                               ELSE request'[q].pc = request[q].pc
           /\ Using(q)' => \/ Using(q) /\ request'[q].session = request[q].session
                           \/ /\ request'[q].session = s /\ s \in Sessions
                              /\ log[s] = "none"
           /\ request'[q].pc = "end" =>
                 \/ request[q].pc = "end" /\ request'[q].session = request[q].session
                 \/ request'[q].session = s /\ s \in Sessions /\ v.state = "revoked"
      BY <2>3, <2>4, <2>8
    <3> QED
      BY ZenonT(60), <2>1, <2>3, <2>4, <2>9, <3>1, ActSession
  <2>10. CASE session' = session /\ unrevoked' = unrevoked \cup {s}
    <3>1. Sober
      BY <2>1, <2>10 DEF Sober, ActInv
    <3>2. \A q \in Requests : Making(q) =>
             (request[q].pc = "mint") <=> (session[request[q].session].state = "none")
      BY DEF ActInv
    <3> QED
      BY <2>1, <2>8, <2>10, <3>1, <3>2, ActKeeps
  <2> QED
    BY <2>5, <2>9, <2>10
<1>9. ASSUME StopEnd(r) PROVE ActInv'
  <2>1. /\ UNCHANGED session /\ UNCHANGED unrevoked /\ request[r].pc = "end"
        /\ jar' = [jar EXCEPT !.page = None]
        /\ \/ log' = log
           \/ log' = [log EXCEPT ![request[r].session] =
                 IF @ = "open" /\ request[r].user # None THEN "ended" ELSE @]
    BY <1>9 DEF StopEnd
  <2>2. jar'.page = None /\ jar'.admin = jar.admin
    BY <2>1 DEF Shape
  <2>3. [Idle EXCEPT !.pc = "leave", !.session = jar.admin].pc = "leave"
    BY DEF Idle
  <2>4. Others(r) /\ request'[r].pc \in {"idle", "leave"}
    BY <1>0, <1>9, <2>3 DEF StopEnd, Done, Others, Shape
  <2>5. \A q \in Requests \ {r} : request'[q] = request[q]
    BY <2>4 DEF Others
  <2>6. \A x \in Sessions : log'[x] = log[x] \/ request[r].session = x
    BY <2>1 DEF Shape
  <2>7. Sober
    BY <2>1, <2>6 DEF Sober, ActInv
  <2>8. \A q \in Requests :
           /\ Making(q)' => Making(q) /\ request'[q] = request[q]
           /\ Using(q)' => Using(q) /\ request'[q] = request[q]
           /\ request'[q].pc = "end" => request'[q] = request[q]
    BY <2>4, <2>5 DEF Making, Using
  <2>9. \A q \in Requests : Making(q) =>
           (request[q].pc = "mint") <=> (session[request[q].session].state = "none")
    BY DEF ActInv
  <2> QED
    BY <2>1, <2>2, <2>7, <2>8, <2>9, ActKeeps
<1> QED
  BY <1>1, <1>2, <1>3, <1>4, <1>5, <1>6, <1>7, <1>8, <1>9 DEF Serve

LEMMA ActStep == Shape /\ ActInv /\ [Next]_vars => ActInv'
<1> SUFFICES ASSUME Shape, ActInv, [Next]_vars PROVE ActInv'
  OBVIOUS
<1> USE DEF Steps, admin
<1>0. /\ Idle.pc = "idle"
      /\ \A s \in Sessions : \A x \in {"none", "live", "expired", "revoked"} :
            LET w == [session[s] EXCEPT !.state = x]
            IN  w \in SessionShape /\ w.state = x /\ w.acting = session[s].acting
  BY ZenonT(60) DEF Shape, Idle, SessionShape
<1>1. ASSUME NEW r \in Requests, Arrive(r) PROVE ActInv'
  <2>1. ASSUME NEW u \in Users, NEW p \in Passwords, LoginCheck(r, u, p) PROVE ActInv'
    <3>1. Others(r) /\ request'[r].pc = "lookup"
      BY <2>1, Begun DEF LoginCheck
    <3> QED
      BY <2>1, <3>1, ActFrame DEF LoginCheck
  <2>2. ASSUME NEW u \in Users, NEW p \in Passwords, NEW l \in Links, Signup(r, u, p, l) PROVE ActInv'
    <3>1. Others(r) /\ request'[r].pc = "welcome"
      BY <2>2, Begun DEF Signup
    <3> QED
      BY <2>2, <3>1, ActFrame DEF Signup
  <2>3. ASSUME NEW u \in Users, NEW l \in Links, NEW kind, Ask(r, u, kind, l) PROVE ActInv'
    <3>1. Others(r) /\ request'[r].pc = "mail"
      BY <2>3, Begun DEF Ask
    <3> QED
      BY <2>3, <3>1, ActFrame DEF Ask
  <2>4. ASSUME NEW l \in Links, NEW p \in Passwords, Follow(r, l, p) PROVE ActInv'
    <3>1. Others(r) /\ request'[r].pc = "follow"
      BY <2>4, Begun DEF Follow
    <3> QED
      BY <2>4, <3>1, ActFrame DEF Follow
  <2>5. ASSUME AdminPage(r) PROVE ActInv'
    <3>1. jar.admin \in Sessions /\ session[jar.admin].user \in Users \cup {None}
      BY <2>5 DEF AdminPage, Live, Shape, SessionShape
    <3>2. Others(r) /\ request'[r].pc = "extend"
      BY <2>5, <3>1, Begun DEF AdminPage
    <3> QED
      BY <2>5, <3>2, ActFrame DEF AdminPage
  <2>6. ASSUME Stop(r) PROVE ActInv'
    <3>1. jar.page \in Sessions /\ session[jar.page].acting \in Users \cup {None} /\ jar.page # None
      BY <2>6 DEF Stop, Live, Shape, SessionShape
    <3>2. Others(r) /\ request'[r].pc = "revoke" /\ request'[r].session = jar.page
      BY <2>6, <3>1, Begun DEF Stop
    <3> QED
      BY <2>6, <3>1, <3>2, ActFrame DEF Stop
  <2> QED
    BY <1>1, <2>1, <2>2, <2>3, <2>4, <2>5, <2>6 DEF Arrive
<1>2. ASSUME NEW which \in {"page", "admin"}, Logout(which) PROVE ActInv'
  <2> DEFINE s == jar[which]
             v == [session[s] EXCEPT !.state = "revoked"]
  <2>1. UNCHANGED log /\ UNCHANGED request
    BY <1>2 DEF Logout
  <2>2. jar'.page \in {jar.page, None} /\ jar'.admin \in {jar.admin, None}
    BY <1>2 DEF Logout, Shape
  <2>3. s \in Sessions /\ session[s].state # "none"
    BY <1>2 DEF Logout, Shape, ActInv
  <2>4. v \in SessionShape /\ v.state = "revoked"
    BY <1>0, <2>3
  <2>5. \/ session' = [session EXCEPT ![s] = v] /\ unrevoked' = unrevoked
        \/ session' = session /\ unrevoked' = unrevoked \cup {s}
    BY <1>2 DEF Logout, Revoke
  <2> HIDE DEF v, s
  <2>6. CASE session' = [session EXCEPT ![s] = v] /\ unrevoked' = unrevoked
    <3>1. Sober
      BY <2>1, <2>3, <2>4, <2>6 DEF Sober, Shape
    <3>2. \A q \in Requests : Making(q) =>
             (request[q].pc = "mint") <=> (session'[request[q].session].state = "none")
      BY <2>3, <2>4, <2>6 DEF ActInv, Shape
    <3>3. \A q \in Requests : Making(q)' = Making(q) /\ Using(q)' = Using(q)
      BY <2>1 DEF Making, Using
    <3> QED
      BY <2>1, <2>2, <2>6, <3>1, <3>2, <3>3, ActKeeps
  <2>7. CASE session' = session /\ unrevoked' = unrevoked \cup {s}
    BY <2>1, <2>2, <2>7, ActFrame
  <2> QED
    BY <2>5, <2>6, <2>7
<1>3. ASSUME NEW u \in Users, NEW p, NEW s \in Sessions, AdminLogin(u, p, s) PROVE ActInv'
  <2> DEFINE v == [user |-> u, acting |-> None, state |-> "live"]
  <2>1. /\ UNCHANGED log /\ UNCHANGED request /\ UNCHANGED unrevoked /\ log[s] = "none"
        /\ session' = [session EXCEPT ![s] = v] /\ session[s].state = "none"
    BY <1>3 DEF AdminLogin, Create
  <2>2. jar'.page = jar.page /\ jar'.admin = s
    BY <1>3 DEF AdminLogin, Shape
  <2>3. v \in SessionShape /\ v.acting = None /\ v.state = "live"
    BY DEF SessionShape
  <2> HIDE DEF v
  <2>4. \A q \in Requests :
           /\ Making(q)' = Making(q) /\ Using(q)' = Using(q)
           /\ Making(q) => request[q].session # s
    BY <2>1 DEF Making, Using, ActInv
  <2>5. \A q \in Requests :
         /\ Making(q)' => /\ Making(q) /\ request'[q].session = request[q].session
                          /\ IF request[q].session = s THEN request'[q].pc = "mark"
                             ELSE request'[q].pc = request[q].pc
         /\ Using(q)' => \/ Using(q) /\ request'[q].session = request[q].session
                         \/ /\ request'[q].session = s /\ s \in Sessions
                            /\ log[s] = "none"
         /\ request'[q].pc = "end" =>
               \/ request[q].pc = "end" /\ request'[q].session = request[q].session
               \/ request'[q].session = s /\ s \in Sessions /\ v.state = "revoked"
    BY <2>1, <2>4 DEF Making
  <2> QED
    BY <2>1, <2>2, <2>3, <2>5, ActSession
<1>4. ASSUME NEW s \in Sessions, ExpireSession(s) PROVE ActInv'
  <2> DEFINE v == [session[s] EXCEPT !.state = "expired"]
  <2>1. /\ UNCHANGED log /\ UNCHANGED request /\ UNCHANGED unrevoked /\ UNCHANGED jar
        /\ session' = [session EXCEPT ![s] = v] /\ session[s].state = "live"
    BY <1>4 DEF ExpireSession
  <2>2. v \in SessionShape /\ v.state = "expired" /\ v.acting = session[s].acting
    BY <1>0
  <2> HIDE DEF v
  <2>3. Sober
    BY <2>1, <2>2 DEF Sober, Shape
  <2>4. \A q \in Requests : Making(q) =>
           (request[q].pc = "mint") <=> (session'[request[q].session].state = "none")
    BY <2>1, <2>2 DEF ActInv, Shape
  <2>5. \A q \in Requests : Making(q)' = Making(q) /\ Using(q)' = Using(q)
    BY <2>1 DEF Making, Using
  <2> QED
    BY <2>1, <2>3, <2>4, <2>5, ActKeeps
<1>5. ASSUME Crash PROVE ActInv'
  BY <1>0, <1>5, ActFrame DEF Crash
<1>6. ASSUME Tick \/ (\E l \in Links : ExpireLink(l)) \/ UNCHANGED vars PROVE ActInv'
  <2>1. UNCHANGED session /\ UNCHANGED log /\ UNCHANGED unrevoked /\ UNCHANGED jar /\ UNCHANGED request
    BY <1>6 DEF Tick, ExpireLink, vars
  <2> QED
    BY <2>1, ActFrame
<1> QED
  BY <1>1, <1>2, <1>3, <1>4, <1>5, <1>6, ActServe DEF Next

\* Whoever acts for a user is in the log for as long as they do.
THEOREM ActingIsLoggedAlways == Spec => []ActingIsLogged
<1>1. Shape /\ ActInv /\ [Next]_vars => (Shape /\ ActInv)'
  BY ShapeStep, ActStep
<1>2. ActInv => ActingIsLogged
  BY DEF ActInv, ActingIsLogged, Live
<1> QED
  BY <1>1, <1>2, InitShape, InitActInv, PTL DEF Spec

-----------------------------------------------------------------------------
(* The limit on failures.                                                  *)

Pending == {r \in Requests : request[r].pc \in {"lookup", "reject"}}

\* Each request that was let in may still add a failure.
FailInv ==
    /\ failures \in Seq(Int)
    /\ Len(failures) + Cardinality(Pending) < MaxPerWindow + Cardinality(Requests)

LEMMA PendingFinite ==
    /\ IsFiniteSet(Pending) /\ Cardinality(Pending) \in Nat
    /\ IsFiniteSet(Requests) /\ Cardinality(Requests) \in Nat
    /\ Cardinality(Pending) <= Cardinality(Requests)
BY AccountConstants, FS_Subset, FS_CardinalityType DEF Pending

LEMMA InitFailInv == Init => FailInv
<1> SUFFICES ASSUME Init PROVE FailInv
  OBVIOUS
<1>1. Pending = {} /\ failures = <<>>
  BY DEF Init, Pending, Idle
<1> QED
  BY <1>1, PendingFinite, FS_EmptySet, AccountConstants DEF FailInv

LEMMA FailFrame ==
    ASSUME FailInv, failures' \in Seq(Int), Len(failures') <= Len(failures), Pending' \subseteq Pending
    PROVE  FailInv'
<1>1. Cardinality(Pending') <= Cardinality(Pending) /\ Cardinality(Pending') \in Nat
  BY PendingFinite, FS_Subset, FS_CardinalityType
<1>2. /\ Len(failures) \in Nat /\ Len(failures') \in Nat
      /\ MaxPerWindow \in Nat /\ Cardinality(Pending) \in Nat /\ Cardinality(Requests) \in Nat
  BY PendingFinite, AccountConstants DEF FailInv
<1> QED
  BY <1>1, <1>2 DEF FailInv

LEMMA FailStep == Shape /\ FailInv /\ [Next]_vars => FailInv'
<1> SUFFICES ASSUME Shape, FailInv, [Next]_vars PROVE FailInv'
  OBVIOUS
<1> USE DEF Steps, limiter
<1>0. /\ Len(failures) \in Nat /\ failures \in Seq(Int) /\ Idle.pc = "idle"
      /\ MaxPerWindow \in Nat /\ Cardinality(Pending) \in Nat /\ Cardinality(Requests) \in Nat
  BY PendingFinite, AccountConstants DEF FailInv, Idle
<1>1. ASSUME UNCHANGED failures,
             \/ request' = request
             \/ \E r \in Requests : /\ Others(r)
                                    /\ \/ request'[r].pc \notin {"lookup", "reject"}
                                       \/ request[r].pc \in {"lookup", "reject"}
      PROVE  FailInv'
  <2>1. Pending' \subseteq Pending
    BY <1>1 DEF Pending, Others
  <2> QED
    BY <1>0, <1>1, <2>1, FailFrame
<1>2. ASSUME NEW r \in Requests, Arrive(r) PROVE FailInv'
  <2>1. ASSUME NEW u \in Users, NEW p \in Passwords, LoginCheck(r, u, p) PROVE FailInv'
    <3>1. Others(r) /\ request'[r].pc = "lookup" /\ request[r].pc = "idle"
      BY <1>0, <2>1, Begun DEF LoginCheck
    <3>2. Pending' = Pending \cup {r} /\ r \notin Pending
      BY <3>1 DEF Pending, Others
    <3>3. Cardinality(Pending) < Cardinality(Requests)
      <4>1. Pending \cup {r} \subseteq Requests
        BY DEF Pending
      <4>2. Cardinality(Pending \cup {r}) = Cardinality(Pending) + 1
        BY <3>2, PendingFinite, FS_AddElement
      <4>3. Cardinality(Pending \cup {r}) <= Cardinality(Requests)
        BY <4>1, PendingFinite, FS_Subset
      <4> QED
        BY <1>0, <4>2, <4>3
    <3>4. Cardinality(Pending') = Cardinality(Pending) + 1
      BY <3>2, PendingFinite, FS_AddElement
    <3>5. failures' = failures /\ Len(failures) < MaxPerWindow
      BY <2>1 DEF LoginCheck, Allowed
    <3> QED
      BY <1>0, <3>3, <3>4, <3>5 DEF FailInv
  <2>2. ASSUME NEW u \in Users, NEW p \in Passwords, NEW l \in Links, Signup(r, u, p, l) PROVE FailInv'
    <3>1. Others(r) /\ request'[r].pc = "welcome"
      BY <2>2, Begun DEF Signup
    <3> QED
      BY <1>1, <2>2, <3>1 DEF Signup
  <2>3. ASSUME NEW u \in Users, NEW l \in Links, NEW kind, Ask(r, u, kind, l) PROVE FailInv'
    <3>1. Others(r) /\ request'[r].pc = "mail"
      BY <2>3, Begun DEF Ask
    <3> QED
      BY <1>1, <2>3, <3>1 DEF Ask
  <2>4. ASSUME NEW l \in Links, NEW p \in Passwords, Follow(r, l, p) PROVE FailInv'
    <3>1. Others(r) /\ request'[r].pc = "follow"
      BY <2>4, Begun DEF Follow
    <3> QED
      BY <1>1, <2>4, <3>1 DEF Follow
  <2>5. ASSUME AdminPage(r) PROVE FailInv'
    <3>1. jar.admin \in Sessions /\ session[jar.admin].user \in Users \cup {None}
      BY <2>5 DEF AdminPage, Live, Shape, SessionShape
    <3>2. Others(r) /\ request'[r].pc = "extend"
      BY <2>5, <3>1, Begun DEF AdminPage
    <3> QED
      BY <1>1, <2>5, <3>2 DEF AdminPage
  <2>6. ASSUME Stop(r) PROVE FailInv'
    <3>1. jar.page \in Sessions /\ session[jar.page].acting \in Users \cup {None}
      BY <2>6 DEF Stop, Live, Shape, SessionShape
    <3>2. Others(r) /\ request'[r].pc = "revoke"
      BY <2>6, <3>1, Begun DEF Stop
    <3> QED
      BY <1>1, <2>6, <3>2 DEF Stop
  <2> QED
    BY <1>2, <2>1, <2>2, <2>3, <2>4, <2>5, <2>6 DEF Arrive
<1>3. ASSUME NEW r \in Requests, Serve(r) PROVE FailInv'
  <2>1. ASSUME \/ Mail(r) \/ CommitLink(r) \/ Consume(r) \/ AdminExtend(r) \/ StartMint(r)
               \/ StopRevoke(r) \/ \E u \in Users : StartMark(r, u)
        PROVE  FailInv'
    <3>1. Others(r) /\ request'[r].pc \in {"idle", "commit", "start", "mark", "end"}
      BY <2>1, Stepped, Finished DEF Mail, CommitLink, Consume, AdminExtend, StartMint, StopRevoke,
         StartMark
    <3>2. UNCHANGED failures
      BY <2>1 DEF Mail, CommitLink, Consume, AdminExtend, StartMint, StopRevoke, StartMark
    <3> QED
      BY <1>1, <3>1, <3>2
  <2>2. ASSUME LoginLookup(r) PROVE FailInv'
    <3>1. Others(r) /\ request[r].pc = "lookup"
      BY <2>2, Stepped, Finished DEF LoginLookup
    <3> QED
      BY <1>1, <2>2, <3>1 DEF LoginLookup
  <2>3. ASSUME LoginReject(r) PROVE FailInv'
    <3>1. Others(r) /\ request'[r].pc = "idle" /\ request[r].pc = "reject"
      BY <2>3, Finished DEF LoginReject
    <3>2. Pending' = Pending \ {r} /\ r \in Pending
      BY <3>1 DEF Pending, Others
    <3>3. Cardinality(Pending') = Cardinality(Pending) - 1
      BY <3>2, PendingFinite, FS_RemoveElement
    <3>4. failures' = Append(failures, Window) /\ Window \in Int
      BY <2>3, AccountConstants DEF LoginReject, RecordFailure
    <3>5. failures' \in Seq(Int) /\ Len(failures') = Len(failures) + 1
      BY <1>0, <3>4
    <3> QED
      BY <1>0, <3>3, <3>5 DEF FailInv
  <2>4. ASSUME LoginDone(r) PROVE FailInv'
    <3>1. failures' = <<>> /\ Others(r) /\ request'[r].pc = "idle"
      BY <2>4, Finished DEF LoginDone, RecordSuccess
    <3>2. Pending' \subseteq Pending
      BY <3>1 DEF Pending, Others
    <3> QED
      BY <1>0, <3>1, <3>2, FailFrame
  <2>5. ASSUME NEW s \in Sessions, LoginCreate(r, s) \/ StartLog(r, s) PROVE FailInv'
    <3>1. Others(r) /\ request'[r].pc \in {"idle", "opened", "mint"}
      BY <2>5, GivenSession, Finished DEF LoginCreate, StartLog
    <3> QED
      BY <1>1, <2>5, <3>1 DEF LoginCreate, StartLog
  <2>6. ASSUME StopEnd(r) PROVE FailInv'
    <3>1. [Idle EXCEPT !.pc = "leave", !.session = jar.admin].pc = "leave"
      BY DEF Idle
    <3>2. Others(r) /\ request'[r].pc \in {"idle", "leave"}
      BY <1>0, <2>6, <3>1 DEF StopEnd, Done, Others, Shape
    <3> QED
      BY <1>1, <2>6, <3>2 DEF StopEnd
  <2> QED
    BY <1>3, <2>1, <2>2, <2>3, <2>4, <2>5, <2>6 DEF Serve
<1>4. ASSUME Tick PROVE FailInv'
  <2>1. PICK k \in 0..Len(failures) : failures' = Pruned(k)
    BY <1>4 DEF Tick
  <2>2. \A i \in 1..Len(failures) - k : failures[k + i] \in Int
    BY <1>0
  <2>3. failures' \in Seq(Int) /\ Len(failures') = Len(failures) - k
    BY <1>0, <2>1, <2>2 DEF Pruned
  <2>4. Pending' = Pending
    BY <1>4 DEF Tick, Pending
  <2> QED
    BY <1>0, <2>3, <2>4, FailFrame
<1>5. ASSUME Crash PROVE FailInv'
  <2>1. failures' = <<>> /\ Pending' = {}
    BY <1>0, <1>5 DEF Crash, RecordSuccess, Pending
  <2> QED
    BY <1>0, <2>1, FailFrame
<1>6. ASSUME \/ \E which \in {"page", "admin"} : Logout(which)
             \/ \E u \in Users, p \in Passwords, s \in Sessions : AdminLogin(u, p, s)
             \/ \E l \in Links : ExpireLink(l)
             \/ \E s \in Sessions : ExpireSession(s)
             \/ UNCHANGED vars
      PROVE  FailInv'
  <2>1. UNCHANGED failures /\ UNCHANGED request
    BY <1>6 DEF Logout, AdminLogin, ExpireLink, ExpireSession, vars
  <2> QED
    BY <1>1, <2>1
<1> QED
  BY <1>2, <1>3, <1>4, <1>5, <1>6 DEF Next

\* However many logins are under way at once, an address gets no further past
\* the limit than by one failure for each of them.
THEOREM FailuresBoundedAlways == Spec => []FailuresBounded
<1>1. Shape /\ FailInv /\ [Next]_vars => (Shape /\ FailInv)'
  BY ShapeStep, FailStep
<1>2. FailInv => FailuresBounded
  <2> SUFFICES ASSUME FailInv PROVE FailuresBounded
    OBVIOUS
  <2>1. Len(failures) \in Nat /\ MaxPerWindow \in Nat
    BY AccountConstants DEF FailInv
  <2> QED
    BY <2>1, PendingFinite DEF FailInv, FailuresBounded
<1> QED
  BY <1>1, <1>2, InitShape, InitFailInv, PTL DEF Spec

=============================================================================
