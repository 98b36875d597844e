------------------------------ MODULE Accounts ------------------------------
(***************************************************************************)
(* Accounts and who acts for them: signup and the mailed links that verify *)
(* an address or reset a password, the login with its limiter, the         *)
(* sessions, and the administrators who act as a user of a tenant.         *)
(*                                                                         *)
(* The requests are those of one address and one browser, whose tabs share *)
(* a cookie for the pages and one for the admin area.  A transaction reads *)
(* in one step and, as its updates wait for the locks of others and show   *)
(* at the commit, writes in another.  Time is relative: a failed login is  *)
(* known by the ticks until it leaves the window.                          *)
(***************************************************************************)
EXTENDS Naturals, Sequences, FiniteSets

CONSTANTS
    Users,
    PlatformAdmins, \* rows of platform_admins
    Passwords,
    Requests,       \* requests and background jobs under way at a time
    Links,          \* bound: links the server mails
    Sessions,       \* bound: sessions, and impersonations, begun
    MaxPerWindow,   \* failed logins of an address in a window
    Window,         \* ticks a failed login counts
    BackoffAfter,   \* failures in a row before an address must wait
    MaxBackoff,     \* largest exponent of that wait
    MaxFaults,      \* bound: failing statements and mails, crashes
    None

ASSUME AccountConstants ==
    /\ PlatformAdmins \subseteq Users
    /\ None \notin Users \cup Passwords \cup Links \cup Sessions
    /\ {MaxPerWindow, Window, BackoffAfter, MaxBackoff, MaxFaults} \subseteq Nat
    /\ MaxPerWindow > 0 /\ Window > 0
    /\ IsFiniteSet(Requests)

VARIABLES
    account,    \* password of each user, None before the signup, and whether
                \* the address is verified
    link,       \* each token: its kind, its user and where it stands
    inbox,      \* links that have reached their user
    session,    \* each session: its user, the user it acts for, its standing
    log,        \* impersonation_log, an entry by the session it is for
    jar,        \* the sessions in the browser's two cookies
    failures,   \* failed logins of the address, by ticks left in the window
    streak,     \* failed logins since the last success
    lock,       \* ticks until lockUntil
    request,    \* each request: its step, and what it has read or made
    uses,       \* history: how often a link has had its effect
    unrevoked,  \* history: sessions that could not be revoked
    faults      \* history: how many faults there were

links    == <<link, inbox, uses>>
limiter  == <<failures, streak, lock>>
admin    == <<session, log, jar, unrevoked>>
vars     == <<account, links, admin, limiter, request, faults>>

Idle == [pc |-> "idle", user |-> None, password |-> None, link |-> None, session |-> None]

NoSession == [user |-> None, acting |-> None, state |-> "none"]

\* Administrators are seeded.
Init ==
    /\ account \in [Users -> [password : Passwords \cup {None}, verified : BOOLEAN]]
    /\ \A u \in Users : account[u].verified = (u \in PlatformAdmins)
                        /\ (account[u].password # None) = (u \in PlatformAdmins)
    /\ link = [l \in Links |-> [state |-> "unused", kind |-> "verify", user |-> None]]
    /\ inbox = {}
    /\ session = [s \in Sessions |-> NoSession]
    /\ log = [s \in Sessions |-> "none"]
    /\ jar = [page |-> None, admin |-> None]
    /\ failures = <<>> /\ streak = 0 /\ lock = 0
    /\ request = [r \in Requests |-> Idle]
    /\ uses = [l \in Links |-> 0]
    /\ unrevoked = {} /\ faults = 0

Begin(r, pc, with) ==
    /\ request[r] = Idle
    /\ request' = [request EXCEPT ![r] =
          [f \in DOMAIN Idle |-> IF f = "pc" THEN pc
                                 ELSE IF f \in DOMAIN with THEN with[f] ELSE None]]

Step(r, pc) == request' = [request EXCEPT ![r].pc = pc]
Done(r)     == request' = [request EXCEPT ![r] = Idle]

Fault  == faults < MaxFaults /\ faults' = faults + 1
Fine   == faults' = faults

-----------------------------------------------------------------------------
(* Links: signup, resend, forgotten password.                              *)

Issue(l, kind, u, state) ==
    /\ link[l].state = "unused"
    /\ link' = [link EXCEPT ![l] = [state |-> state, kind |-> kind, user |-> u]]

\* Signup: the rows and the token are committed before the mail is sent.
Signup(r, u, p, l) ==
    /\ account[u].password = None
    /\ account' = [account EXCEPT ![u] = [password |-> p, verified |-> FALSE]]
    /\ Issue(l, "verify", u, "live")
    /\ Begin(r, "welcome", [link |-> l])
    /\ UNCHANGED <<inbox, uses, admin, limiter, faults>>

\* ResendVerification and Forgot: a job in the background, whatever older links
\* there are.
Ask(r, u, kind, l) ==
    /\ account[u].password # None
    /\ kind = "verify" => ~ account[u].verified
    /\ Issue(l, kind, u, "pending")
    /\ Begin(r, "mail", [link |-> l])
    /\ UNCHANGED <<account, inbox, uses, admin, limiter, faults>>

\* The job sends its mail before it commits; an error is logged or ignored.
Mail(r) ==
    /\ request[r].pc \in {"welcome", "mail"}
    /\ \/ inbox' = inbox \cup {request[r].link} /\ Fine
       \/ inbox' = inbox /\ Fault
    /\ IF request[r].pc = "welcome" THEN Done(r) ELSE Step(r, "commit")
    /\ UNCHANGED <<account, link, uses, admin, limiter>>

CommitLink(r) ==
    /\ request[r].pc = "commit"
    /\ \/ link' = [link EXCEPT ![request[r].link].state = "live"] /\ Fine
       \/ link' = [link EXCEPT ![request[r].link].state = "void"] /\ Fault
    /\ Done(r)
    /\ UNCHANGED <<account, inbox, uses, admin, limiter>>

\* GetActiveByTokenHash, for VerifyEmail, or for Reset with a password typed.
Follow(r, l, p) ==
    /\ l \in inbox /\ link[l].state = "live"
    /\ Begin(r, "follow", [link |-> l, password |-> IF link[l].kind = "reset" THEN p ELSE None])
    /\ UNCHANGED <<account, links, admin, limiter, faults>>

\* Consume updates by id alone.
BugConsumable(l) == link[l].state \in {"live", "expired", "spent"}

\* Consume asks only that the token has not been consumed meanwhile.
Consumable(l) == link[l].state \in {"live", "expired"}

Effect(l, p) ==
    account' = [account EXCEPT ![link[l].user] =
                  IF link[l].kind = "reset" THEN [@ EXCEPT !.password = p]
                                            ELSE [@ EXCEPT !.verified = TRUE]]

\* Consume, MarkEmailVerified or UpdatePassword, and the commit or rollback.
\* Sessions and other links stay.
Consume(r) ==
    LET l == request[r].link IN
    /\ request[r].pc = "follow"
    /\ \/ /\ Consumable(l) /\ Fine
          /\ Effect(l, request[r].password)
          /\ link' = [link EXCEPT ![l].state = "spent"]
          /\ uses' = [uses EXCEPT ![l] = @ + 1]
       \/ /\ Fine \/ Fault
          /\ faults' = faults => ~ Consumable(l)
          /\ UNCHANGED <<account, link, uses>>
    /\ Done(r)
    /\ UNCHANGED <<inbox, admin, limiter>>

-----------------------------------------------------------------------------
(* LoginLimiter.                                                           *)

BugAllowed == lock = 0 /\ Len(failures) <= MaxPerWindow

\* Check.
Allowed == lock = 0 /\ Len(failures) < MaxPerWindow

CapAt(n, most) == IF n < most THEN n ELSE most

\* The streak is counted as far as it matters.
RecordFailure ==
    LET s == CapAt(streak + 1, BackoffAfter + MaxBackoff) IN
    /\ failures' = Append(failures, Window)
    /\ streak' = s
    /\ lock' = IF s > BackoffAfter THEN 2 ^ (s - BackoffAfter) ELSE lock

RecordSuccess == failures' = <<>> /\ streak' = 0 /\ lock' = 0

\* Failures count for ever.
BugPruned(k) == failures

\* What pruneBefore leaves of the failures a tick later, when the first k are
\* out of the window.
Pruned(k) == [i \in 1..Len(failures) - k |-> failures[k + i] - 1]

Tick ==
    /\ failures # <<>> \/ lock > 0
    /\ \E k \in 0..Len(failures) :
          /\ \A i \in 1..k : failures[i] <= 1
          /\ k < Len(failures) => failures[k + 1] > 1
          /\ failures' = Pruned(k)
    /\ lock' = IF lock > 0 THEN lock - 1 ELSE 0
    /\ UNCHANGED <<account, links, admin, streak, request, faults>>

-----------------------------------------------------------------------------
(* Sessions: login and logout.                                             *)

Live(s) == s # None /\ session[s].state = "live"

\* SessionStore.Create and the failure of its INSERT.
Create(s, u) ==
    /\ session[s].state = "none"
    /\ session' = [session EXCEPT ![s] = [user |-> u, acting |-> None, state |-> "live"]]

\* Revoke, whose error is ignored, by the id in the cookie.
Revoke(s) ==
    \/ /\ session' = [session EXCEPT ![s].state = "revoked"]
       /\ Fine /\ unrevoked' = unrevoked
    \/ /\ session' = session
       /\ Fault /\ unrevoked' = unrevoked \cup {s}

LoginCheck(r, u, p) ==
    /\ Allowed
    /\ Begin(r, "lookup", [user |-> u, password |-> p])
    /\ UNCHANGED <<account, links, admin, limiter, faults>>

\* GetByEmail and VerifyPassword; an unverified account ends at the page that
\* asks for verification, neither a failure nor a success.
LoginLookup(r) ==
    LET a == account[request[r].user] IN
    /\ request[r].pc = "lookup"
    /\ IF a.password # request[r].password THEN Step(r, "reject")
       ELSE IF ~ a.verified THEN Done(r)
       ELSE Step(r, "accept")
    /\ UNCHANGED <<account, links, admin, limiter, faults>>

LoginReject(r) ==
    /\ request[r].pc = "reject"
    /\ RecordFailure
    /\ Done(r)
    /\ UNCHANGED <<account, links, admin, faults>>

LoginCreate(r, s) ==
    /\ request[r].pc = "accept" /\ log[s] = "none"
    /\ \/ /\ Create(s, request[r].user)
          /\ request' = [request EXCEPT ![r].pc = "opened", ![r].session = s]
          /\ Fine
       \/ session' = session /\ Done(r) /\ Fault
    /\ UNCHANGED <<account, links, log, jar, unrevoked, limiter>>

LoginDone(r) ==
    /\ request[r].pc = "opened"
    /\ jar' = [jar EXCEPT !.page = request[r].session]
    /\ RecordSuccess
    /\ Done(r)
    /\ UNCHANGED <<account, links, session, log, unrevoked, faults>>

\* Logout of the pages, or of the admin area.
Logout(which) ==
    /\ jar[which] # None
    /\ Revoke(jar[which])
    /\ jar' = [jar EXCEPT ![which] = None]
    /\ UNCHANGED <<account, links, log, limiter, request>>

\* AdminHandlers.Login, past no limiter.
AdminLogin(u, p, s) ==
    /\ u \in PlatformAdmins /\ account[u].password = p
    /\ log[s] = "none"
    /\ Create(s, u)
    /\ jar' = [jar EXCEPT !.admin = s]
    /\ UNCHANGED <<account, links, log, unrevoked, limiter, request, faults>>

-----------------------------------------------------------------------------
(* Administrators acting for a user.                                       *)

\* adminCtx finds the session of the cookie,
AdminPage(r) ==
    /\ Live(jar.admin) /\ session[jar.admin].user \in PlatformAdmins
    /\ Begin(r, "extend", [session |-> jar.admin, user |-> session[jar.admin].user])
    /\ UNCHANGED <<account, links, admin, limiter, faults>>

\* and extends it, one that has expired since included.  The request is for
\* ImpersonationStart or for a page.
AdminExtend(r) ==
    LET s == request[r].session IN
    /\ request[r].pc \in {"extend", "leave"}
    /\ session' = [session EXCEPT ![s].state = IF @ = "expired" THEN "live" ELSE @]
    /\ Done(r) \/ (request[r].pc = "extend" /\ Step(r, "start"))
    /\ UNCHANGED <<account, links, log, jar, unrevoked, limiter, faults>>

\* ImpersonationStart: the entry of the log first,
StartLog(r, s) ==
    /\ request[r].pc = "start"
    /\ log[s] = "none" /\ session[s].state = "none"
    /\ log' = [log EXCEPT ![s] = "open"]
    /\ request' = [request EXCEPT ![r].pc = "mint", ![r].session = s]
    /\ UNCHANGED <<account, links, session, jar, unrevoked, limiter, faults>>

\* then a session of the administrator's,
StartMint(r) ==
    /\ request[r].pc = "mint"
    /\ \/ Create(request[r].session, request[r].user) /\ Step(r, "mark") /\ Fine
       \/ session' = session /\ Done(r) /\ Fault
    /\ UNCHANGED <<account, links, log, jar, unrevoked, limiter>>

\* then SetImpersonation, and the cookie over the one there was.
StartMark(r, u) ==
    LET s == request[r].session IN
    /\ request[r].pc = "mark" /\ account[u].password # None
    /\ \/ /\ session' = [session EXCEPT ![s].acting = u]
          /\ jar' = [jar EXCEPT !.page = s]
          /\ Fine
       \/ UNCHANGED <<session, jar>> /\ Fault
    /\ Done(r)
    /\ UNCHANGED <<account, links, log, unrevoked, limiter>>

\* ImpersonationStop, of an impersonation or of any session of the pages.
Stop(r) ==
    /\ Live(jar.page)
    /\ Begin(r, "revoke", [session |-> jar.page, user |-> session[jar.page].acting])
    /\ UNCHANGED <<account, links, admin, limiter, faults>>

\* The log first.
BugStopRevoke(r) ==
    LET s == request[r].session IN
    /\ request[r].pc = "revoke"
    /\ session' = session /\ unrevoked' = unrevoked /\ Fine
    /\ log' = [log EXCEPT ![s] = IF @ = "open" THEN "ended" ELSE @]
    /\ Step(r, "end")
    /\ UNCHANGED <<account, links, jar, limiter>>

StopRevoke(r) ==
    /\ request[r].pc = "revoke"
    /\ Revoke(request[r].session)
    /\ Step(r, "end")
    /\ UNCHANGED <<account, links, log, jar, limiter>>

\* The UPDATE of the log, whose error is ignored, the cookie's removal, and
\* adminCtx once more.
StopEnd(r) ==
    LET s == request[r].session IN
    /\ request[r].pc = "end"
    /\ \/ /\ log' = [log EXCEPT ![s] = IF @ = "open" /\ request[r].user # None THEN "ended" ELSE @]
          /\ Fine
       \/ log' = log /\ Fault
    /\ jar' = [jar EXCEPT !.page = None]
    /\ IF Live(jar.admin) /\ session[jar.admin].user \in PlatformAdmins
       THEN request' = [request EXCEPT ![r] = [Idle EXCEPT !.pc = "leave", !.session = jar.admin]]
       ELSE Done(r)
    /\ UNCHANGED <<account, links, session, unrevoked, limiter>>

-----------------------------------------------------------------------------
(* Time, and a server that stops.                                          *)

ExpireLink(l) ==
    /\ link[l].state = "live"
    /\ link' = [link EXCEPT ![l].state = "expired"]
    /\ UNCHANGED <<account, inbox, uses, admin, limiter, request, faults>>

ExpireSession(s) ==
    /\ session[s].state = "live"
    /\ session' = [session EXCEPT ![s].state = "expired"]
    /\ UNCHANGED <<account, links, log, jar, unrevoked, limiter, request, faults>>

\* Open transactions are rolled back; the limiter is in memory.
Crash ==
    /\ Fault
    /\ request' = [r \in Requests |-> Idle]
    /\ link' = [l \in Links |-> IF link[l].state = "pending"
                                THEN [link[l] EXCEPT !.state = "void"] ELSE link[l]]
    /\ RecordSuccess
    /\ UNCHANGED <<account, inbox, uses, admin>>

-----------------------------------------------------------------------------
Arrive(r) ==
    \/ \E u \in Users, p \in Passwords :
          \/ LoginCheck(r, u, p)
          \/ \E l \in Links : Signup(r, u, p, l)
    \/ \E u \in Users, l \in Links, kind \in {"verify", "reset"} : Ask(r, u, kind, l)
    \/ \E l \in Links, p \in Passwords : Follow(r, l, p)
    \/ AdminPage(r) \/ Stop(r)

Serve(r) ==
    \/ Mail(r) \/ CommitLink(r) \/ Consume(r)
    \/ LoginLookup(r) \/ LoginReject(r) \/ LoginDone(r)
    \/ \E s \in Sessions : LoginCreate(r, s) \/ StartLog(r, s)
    \/ AdminExtend(r) \/ StartMint(r)
    \/ \E u \in Users : StartMark(r, u)
    \/ StopRevoke(r) \/ StopEnd(r)

Next ==
    \/ \E r \in Requests : Arrive(r) \/ Serve(r)
    \/ \E which \in {"page", "admin"} : Logout(which)
    \/ \E u \in Users, p \in Passwords, s \in Sessions : AdminLogin(u, p, s)
    \/ Tick
    \/ \E l \in Links : ExpireLink(l)
    \/ \E s \in Sessions : ExpireSession(s)
    \/ Crash

\* Time passes, and a request is served to its end.
Fairness == WF_vars(Tick) /\ \A r \in Requests : WF_vars(Serve(r))

Spec == Init /\ [][Next]_vars /\ Fairness

=============================================================================
