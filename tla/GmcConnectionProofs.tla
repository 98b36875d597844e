------------------------- MODULE GmcConnectionProofs -------------------------
(***************************************************************************)
(* Tokens stay with the connection they were granted for, whatever number  *)
(* of connections, grants, pages and syncs there is.                       *)
(***************************************************************************)
EXTENDS GmcConnectionProperties, WellFoundedInduction, TLAPS

FlowSteps == {"idle", "away", "linking", "picker", "picked", "disconnecting"}
TaskSteps == {"idle", "token", "mint", "call", "refused", "notify", "done", "failed"}

RowShape  == [status : {"none", "active", "revoked"}, grant : Grants \cup {None}]
TaskShape == [pc : TaskSteps, on : Connections \cup {None}, grant : Grants \cup {None},
              left : Int, late : BOOLEAN]
FlowShape == [pc : FlowSteps, grant : Grants \cup {None}, on : Connections \cup {None}]

Shape ==
    /\ row \in [Connections -> RowShape]
    /\ created \in Seq(Connections)
    /\ cache \in [Processes -> [Connections -> Grants \cup {None}]]
    /\ task \in [Tasks -> TaskShape]
    /\ flow \in [Flows -> FlowShape]
    /\ held \in [Connections -> SUBSET Grants]

\* Who is on the way with a connection or a grant has one.
Underway ==
    /\ \A f \in Flows :
          /\ flow[f].pc # "idle" => flow[f].on \in Connections
          /\ flow[f].pc \in {"linking", "picker", "picked"} => flow[f].grant \in Grants
    /\ \A t \in Tasks : task[t].pc # "idle" => task[t].on \in Connections

IInv == Shape /\ Underway /\ TokensStayHome

-----------------------------------------------------------------------------
(* The youngest row of a store is a row.                                   *)

Less == {p \in Nat \X Nat : p[1] < p[2]}

LEMMA LessWellFounded == IsWellFoundedOn(Less, Nat)
<1>1. OpToRel(<, Nat) = Less
  BY Zenon DEF OpToRel, Less
<1> QED
  BY <1>1, NatLessThanWellFounded, Zenon

\* A set of numbers that ends has a greatest.
LEMMA Greatest ==
    ASSUME NEW n \in Nat, NEW S, S \subseteq 1 .. n, S # {}
    PROVE  \E i \in S : \A j \in S : j <= i
<1> DEFINE T == {n - i : i \in S}
<1>1. ASSUME NEW i \in S PROVE n - i \in Nat /\ n - i \in T /\ i \in Nat
  OBVIOUS
<1>2. T \subseteq Nat /\ T # {}
  BY <1>1
<1>3. PICK x \in T : \A y \in T : <<y, x>> \notin Less
  <2> HIDE DEF T
  <2> QED
    BY <1>2, LessWellFounded, WFMin
<1>4. \A y \in T : ~ (y < x)
  BY <1>2, <1>3 DEF Less
<1>5. PICK i \in S : x = n - i
  OBVIOUS
<1>6. ASSUME NEW j \in S PROVE j <= i
  <2>1. ~ (n - j < n - i) /\ j \in Nat /\ i \in Nat
    BY <1>1, <1>4, <1>5
  <2> HIDE DEF T
  <2> QED
    BY <2>1
<1> QED
  BY <1>6

LEMMA NewestIsConnection ==
    ASSUME Shape, NEW s, Newest(s) # None
    PROVE  Newest(s) \in Connections
<1> DEFINE live == {i \in DOMAIN created : StoreOf[created[i]] = s /\ row[created[i]].status # "revoked"}
<1>1. live # {} /\ Newest(s) = created[CHOOSE i \in live : \A j \in live : j <= i]
  BY DEF Newest
<1>2. live \subseteq 1 .. Len(created) /\ Len(created) \in Nat
  BY DEF Shape
<1>3. \E i \in live : \A j \in live : j <= i
  <2> HIDE DEF live
  <2> QED
    BY <1>1, <1>2, Greatest
<1>4. (CHOOSE i \in live : \A j \in live : j <= i) \in DOMAIN created
  BY <1>3
<1> QED
  BY <1>1, <1>4 DEF Shape

-----------------------------------------------------------------------------

LEMMA InitIInv == Init => IInv
<1> USE GmcConstants DEF Init, AtRest, NoFlow
<1>1. Init => Shape
  BY DEF Shape, RowShape, TaskShape, FlowShape, FlowSteps, TaskSteps
<1>2. Init => Underway
  BY DEF Underway
<1>3. Init => TokensStayHome
  BY DEF TokensStayHome, Tasks
<1> QED
  BY <1>1, <1>2, <1>3 DEF IInv

\* The pages touch neither caches nor syncs.
LEMMA PageKeeps ==
    ASSUME IInv, NEW f \in Flows,
           UNCHANGED <<cache, task>>,
           \A g \in Flows \ {f} : flow'[g] = flow[g],
           flow' \in [Flows -> FlowShape],
           flow'[f].pc # "idle" => flow'[f].on \in Connections,
           flow'[f].pc \in {"linking", "picker", "picked"} => flow'[f].grant \in Grants,
           created' \in Seq(Connections),
           \/ UNCHANGED <<row, held>>
           \/ \E c \in Connections : row' = Revoked(c) /\ held' = held
           \/ \E c \in Connections, g \in Grants :
                 /\ row' = [row EXCEPT ![c] = [status |-> "active", grant |-> g]]
                 /\ held' = [held EXCEPT ![c] = @ \cup {g}]
    PROVE  IInv'
<1>1. Shape'
  <2>1. \A g \in Grants : [status |-> "active", grant |-> g] \in RowShape
    BY DEF RowShape
  <2>2. [status |-> "revoked", grant |-> None] \in RowShape
    BY DEF RowShape
  <2>3. row' \in [Connections -> RowShape]
    <3>1. row \in [Connections -> RowShape]
      BY DEF IInv, Shape
    <3> QED
      BY <2>1, <2>2, <3>1 DEF Revoked
  <2>4. held' \in [Connections -> SUBSET Grants]
    <3>1. held \in [Connections -> SUBSET Grants]
      BY DEF IInv, Shape
    <3>2. ASSUME NEW c \in Connections, NEW g \in Grants
          PROVE  [held EXCEPT ![c] = @ \cup {g}] \in [Connections -> SUBSET Grants]
      BY <3>1
    <3> QED
      BY <3>1, <3>2
  <2> QED
    BY <2>3, <2>4 DEF IInv, Shape
<1>2. Underway'
  BY DEF IInv, Underway
<1>3. CASE UNCHANGED <<row, held>>
  BY <1>1, <1>2, <1>3 DEF IInv, TokensStayHome
<1>4. ASSUME NEW c \in Connections, row' = Revoked(c), held' = held PROVE IInv'
  BY <1>1, <1>2, <1>4, GmcConstants DEF IInv, TokensStayHome, Shape, RowShape, Revoked
<1>5. ASSUME NEW c \in Connections, NEW g \in Grants,
             row' = [row EXCEPT ![c] = [status |-> "active", grant |-> g]],
             held' = [held EXCEPT ![c] = @ \cup {g}]
      PROVE  IInv'
  BY <1>1, <1>2, <1>5, GmcConstants DEF IInv, TokensStayHome, Shape, RowShape, Underway
<1> QED
  BY <1>3, <1>4, <1>5

LEMMA PageStep == IInv /\ Page => IInv'
<1> SUFFICES ASSUME IInv, NEW f \in Flows,
                    \/ \E c \in Connections : Connect(f, c) \/ Pick(f, c)
                    \/ \E g \in Grants : Callback(f, g)
                    \/ Save(f) \/ GiveUp(f) \/ Disconnect(f)
                    \/ \E s \in Stores : AskDisconnect(f, s)
             PROVE  IInv'
  BY DEF Page
<1> USE DEF otherThanFlow, FlowTo
<1>0. flow[f] \in FlowShape /\ NoFlow \in FlowShape
  BY DEF IInv, Shape, FlowShape, FlowSteps, NoFlow
<1>1. ASSUME NEW c \in Connections, Connect(f, c) PROVE IInv'
  <2>1. [pc |-> "away", grant |-> None, on |-> c] \in FlowShape
    BY DEF FlowShape, FlowSteps
  <2> QED
    BY <1>1, <2>1, PageKeeps DEF Connect, IInv, Shape
<1>2. ASSUME NEW c \in Connections, Pick(f, c) PROVE IInv'
  <2>1. flow[f].grant \in Grants
    BY <1>2 DEF Pick, IInv, Underway
  <2>2. [pc |-> "picked", grant |-> flow[f].grant, on |-> c] \in FlowShape
    BY <2>1 DEF FlowShape, FlowSteps
  <2> QED
    BY <1>2, <2>1, <2>2, PageKeeps DEF Pick, IInv, Shape
<1>3. ASSUME NEW g \in Grants, Callback(f, g) PROVE IInv'
  <2>1. flow[f].on \in Connections
    BY <1>3 DEF Callback, IInv, Underway
  <2>2. \A step \in {"linking", "picker"} : [pc |-> step, grant |-> g, on |-> flow[f].on] \in FlowShape
    BY <2>1 DEF FlowShape, FlowSteps
  <2> QED
    BY <1>3, <2>1, <2>2, PageKeeps DEF Callback, IInv, Shape
<1>4. ASSUME Save(f) PROVE IInv'
  <2> DEFINE c == flow[f].on
             g == flow[f].grant
  <2>1. c \in Connections /\ g \in Grants
    BY <1>4 DEF Save, IInv, Underway
  <2>2. /\ row' = [row EXCEPT ![c] = [status |-> "active", grant |-> g]]
        /\ held' = [held EXCEPT ![c] = @ \cup {g}]
        /\ created' = created \/ created' = Append(created, c)
        /\ UNCHANGED <<cache, task>>
    BY <1>4 DEF Save, Upsert
  <2>3. flow' = [flow EXCEPT ![f] = [flow[f] EXCEPT !.pc = "picker"]] \/ flow' = [flow EXCEPT ![f] = NoFlow]
    BY <1>4 DEF Save, IInv, Shape
  <2>4. created' \in Seq(Connections)
    <3>1. created \in Seq(Connections)
      BY DEF IInv, Shape
    <3> HIDE DEF c
    <3> QED
      BY <2>1, <2>2, <3>1
  <2>5. [flow[f] EXCEPT !.pc = "picker"] \in FlowShape
    BY <1>0 DEF FlowShape, FlowSteps
  <2>6. flow' \in [Flows -> FlowShape] /\ \A x \in Flows \ {f} : flow'[x] = flow[x]
    BY <1>0, <2>3, <2>5 DEF IInv, Shape
  <2>7. /\ flow'[f].pc # "idle" => flow'[f].on = c
        /\ flow'[f].pc \in {"linking", "picker", "picked"} => flow'[f].grant = g
    <3>1. flow'[f] = [flow[f] EXCEPT !.pc = "picker"] \/ flow'[f] = NoFlow
      BY <2>3 DEF IInv, Shape
    <3> QED
      BY <1>0, <3>1 DEF FlowShape, NoFlow
  <2> QED
    BY <2>1, <2>2, <2>4, <2>6, <2>7, PageKeeps
<1>5. ASSUME GiveUp(f) PROVE IInv'
  BY <1>0, <1>5, PageKeeps DEF GiveUp, IInv, Shape, NoFlow
<1>6. ASSUME Disconnect(f) PROVE IInv'
  BY <1>0, <1>6, PageKeeps DEF Disconnect, IInv, Shape, Underway, NoFlow
<1>7. ASSUME NEW s \in Stores, AskDisconnect(f, s) PROVE IInv'
  <2>1. Newest(s) \in Connections
    BY <1>7, NewestIsConnection DEF AskDisconnect, IInv
  <2>2. [pc |-> "disconnecting", grant |-> None, on |-> Newest(s)] \in FlowShape
    BY <2>1 DEF FlowShape, FlowSteps
  <2> QED
    BY <1>7, <2>1, <2>2, PageKeeps DEF AskDisconnect, IInv, Shape
<1> QED
  BY <1>1, <1>2, <1>3, <1>4, <1>5, <1>6, <1>7

\* A sync leaves the pages alone, and of rows and grants it takes from a row
\* only what it holds.
LEMMA SyncKeeps ==
    ASSUME IInv, NEW t \in Tasks,
           UNCHANGED <<created, flow, held>>,
           row' = row \/ row' = Revoked(task[t].on),
           cache' \in [Processes -> [Connections -> Grants \cup {None}]],
           \A p \in Processes, c \in Connections : cache'[p][c] \in held[c] \cup {None},
           NEW step \in TaskShape, task' = [task EXCEPT ![t] = step],
           step.pc # "idle" => step.on \in Connections,
           step.pc \in {"mint", "call", "refused"} => step.grant \in held[step.on]
    PROVE  IInv'
<1>1. row' \in [Connections -> RowShape]
  <2>1. row \in [Connections -> RowShape]
    BY DEF IInv, Shape
  <2>2. [status |-> "revoked", grant |-> None] \in RowShape
    BY DEF RowShape
  <2> QED
    BY <2>1, <2>2 DEF Revoked
<1>2. Shape'
  BY <1>1 DEF IInv, Shape
<1>3. Underway'
  BY DEF IInv, Shape, Underway
<1>4. TokensStayHome'
  <2>1. \A c \in Connections : (row'[c].status = "active") <=> (row'[c].grant \in held'[c])
    BY SMTT(30), GmcConstants DEF IInv, Shape, TokensStayHome, Revoked
  <2>2. \A s \in Tasks : task'[s].pc \in {"mint", "call", "refused"} =>
            task'[s].grant \in held'[task'[s].on]
    BY DEF IInv, Shape, TokensStayHome
  <2> QED
    BY <2>1, <2>2 DEF TokensStayHome
<1> QED
  BY <1>2, <1>3, <1>4 DEF IInv

\* What a change of some fields makes of a sync.
LEMMA Stepped ==
    ASSUME NEW r \in TaskShape, NEW pc \in TaskSteps, NEW s, s = [r EXCEPT !.pc = pc]
    PROVE  s \in TaskShape /\ s.pc = pc /\ s.on = r.on /\ s.grant = r.grant
BY DEF TaskShape

LEMMA Belated ==
    ASSUME NEW r \in TaskShape, NEW s, s = [r EXCEPT !.late = TRUE]
    PROVE  s \in TaskShape /\ s.pc = r.pc /\ s.on = r.on /\ s.grant = r.grant
BY DEF TaskShape

LEMMA Started ==
    ASSUME NEW c \in Connections, NEW n \in Int,
           NEW s, s = [AtRest EXCEPT !.pc = "token", !.on = c, !.left = n]
    PROVE  s \in TaskShape /\ s.pc = "token" /\ s.on = c
BY DEF AtRest, TaskShape, TaskSteps

LEMMA SyncStep == IInv /\ Sync => IInv'
<1> SUFFICES ASSUME IInv, Sync PROVE IInv'
  OBVIOUS
<1> USE GmcConstants DEF otherThanSync
<1>1. /\ row \in [Connections -> RowShape]
      /\ cache \in [Processes -> [Connections -> Grants \cup {None}]]
      /\ task \in [Tasks -> TaskShape]
      /\ held \in [Connections -> SUBSET Grants]
      /\ \A p \in Processes, c \in Connections : cache[p][c] \in held[c] \cup {None}
  BY DEF IInv, Shape, TokensStayHome
<1>2. \A t \in Tasks : ProcessOf(t) \in Processes
  BY DEF ProcessOf, Processes
<1>3. AtRest \in TaskShape /\ AtRest.pc = "idle"
  BY DEF AtRest, TaskShape, TaskSteps
<1>4. ASSUME NEW t \in Tasks, NEW c \in Connections, Start(t, c),
             UNCHANGED <<row, cache, created, flow, held>>
      PROVE  IInv'
  <2> DEFINE s == [AtRest EXCEPT !.pc = "token", !.on = c, !.left = Requests(t)]
  <2>1. Requests(t) \in Int
    BY DEF Requests
  <2>2. s \in TaskShape /\ s.pc = "token" /\ s.on = c
    BY <2>1, Started
  <2>3. task' = [task EXCEPT ![t] = s]
    BY <1>4 DEF Start
  <2> HIDE DEF s
  <2> QED
    BY <1>1, <1>4, <2>2, <2>3, SyncKeeps
<1>5. \A x \in {"token", "mint", "call", "refused", "notify", "done", "failed"} : x \in TaskSteps
  BY DEF TaskSteps
<1>6. ASSUME NEW t \in Tasks, NEW s \in Stores, AuditSync(t, s) PROVE IInv'
  BY <1>4, <1>6, NewestIsConnection DEF AuditSync, IInv
<1>7. ASSUME LoadDue PROVE IInv'
  BY <1>7 DEF LoadDue, IInv, Shape, Underway, TokensStayHome
<1>8. ASSUME NEW b \in batch, RefreshOne(b) PROVE IInv'
  <2>1. Refresher \in Tasks
    BY DEF Tasks
  <2>2. CASE task' = task
    BY <1>8, <2>2 DEF RefreshOne, IInv, Shape, Underway, TokensStayHome
  <2>3. CASE Start(Refresher, Newest(StoreOf[b])) /\ Newest(StoreOf[b]) # None
    BY <1>4, <1>8, <2>1, <2>3, NewestIsConnection DEF RefreshOne, IInv
  <2> QED
    BY <1>8, <2>2, <2>3 DEF RefreshOne
<1>9. ASSUME NEW t \in Tasks, CachedToken(t) PROVE IInv'
  <2> DEFINE g == cache[ProcessOf(t)][task[t].on]
             s == [task[t] EXCEPT !.pc = "call", !.grant = g]
  <2>1. task[t].on \in Connections
    BY <1>9 DEF CachedToken, IInv, Underway
  <2>2. g \in held[task[t].on] /\ g \in Grants
    BY <1>1, <1>2, <1>9, <2>1 DEF CachedToken
  <2>3. s \in TaskShape /\ s.pc = "call" /\ s.on = task[t].on /\ s.grant = g
    <3>1. "call" \in TaskSteps /\ g \in Grants \cup {None} /\ task[t] \in TaskShape
      BY <1>1, <1>5, <2>2
    <3> HIDE DEF g
    <3> QED
      BY <3>1 DEF TaskShape
  <2>4. task' = [task EXCEPT ![t] = s] /\ UNCHANGED <<row, cache, created, flow, held>>
    BY <1>9 DEF CachedToken
  <2> HIDE DEF s, g
  <2> QED
    BY <1>1, <2>1, <2>2, <2>3, <2>4, SyncKeeps
<1>10. ASSUME NEW t \in Tasks, LoadToken(t) PROVE IInv'
  <2> DEFINE r == row[task[t].on]
             pc == IF r.status = "active" THEN "mint" ELSE "failed"
             s == [task[t] EXCEPT !.pc = pc, !.grant = r.grant]
  <2>1. task[t].on \in Connections
    BY <1>10 DEF LoadToken, IInv, Underway
  <2>2. r.grant \in Grants \cup {None} /\ (r.status = "active" => r.grant \in held[task[t].on])
    BY <1>1, <2>1 DEF IInv, TokensStayHome, RowShape
  <2>3. s \in TaskShape /\ s.pc = pc /\ s.on = task[t].on /\ s.grant = r.grant
    <3>1. pc \in TaskSteps /\ r.grant \in Grants \cup {None} /\ task[t] \in TaskShape
      BY <1>1, <1>5, <2>2
    <3> HIDE DEF pc, r
    <3> QED
      BY <3>1 DEF TaskShape
  <2>4. task' = [task EXCEPT ![t] = s] /\ UNCHANGED <<row, cache, created, flow, held>>
    BY <1>10 DEF LoadToken
  <2> HIDE DEF s
  <2> QED
    BY <1>1, <2>1, <2>2, <2>3, <2>4, SyncKeeps
<1>11. ASSUME NEW t \in Tasks, Mint(t) PROVE IInv'
  <2> DEFINE s == [task[t] EXCEPT !.pc = "call"]
  <2>1. task[t].on \in Connections /\ task[t].grant \in held[task[t].on]
    BY <1>11 DEF Mint, IInv, Underway, TokensStayHome
  <2>2. /\ cache' = [cache EXCEPT ![ProcessOf(t)][task[t].on] = task[t].grant]
        /\ task' = [task EXCEPT ![t] = s] /\ UNCHANGED <<row, created, flow, held>>
    BY <1>11 DEF Mint, Step
  <2>3. /\ cache' \in [Processes -> [Connections -> Grants \cup {None}]]
        /\ \A p \in Processes, c \in Connections : cache'[p][c] \in held[c] \cup {None}
    BY <1>1, <1>2, <2>1, <2>2
  <2>4. s \in TaskShape /\ s.pc = "call" /\ s.on = task[t].on /\ s.grant = task[t].grant
    BY <1>1, <1>5, Stepped
  <2> HIDE DEF s
  <2> QED
    BY <2>1, <2>2, <2>3, <2>4, SyncKeeps
<1>12. ASSUME NEW t \in Tasks, Answered(t) PROVE IInv'
  <2> DEFINE pc == IF task[t].left = 1 THEN "done" ELSE "token"
             s == [task[t] EXCEPT !.left = task[t].left - 1, !.pc = pc]
  <2>1. task[t].on \in Connections
    BY <1>12 DEF Answered, IInv, Underway
  <2>2. s \in TaskShape /\ s.pc = pc /\ s.on = task[t].on
    <3>1. task[t].left - 1 \in Int
      BY <1>1 DEF TaskShape
    <3>2. pc \in TaskSteps /\ task[t] \in TaskShape
      BY <1>1, <1>5
    <3> HIDE DEF pc
    <3> QED
      BY <3>1, <3>2 DEF TaskShape
  <2>3. task' = [task EXCEPT ![t] = s] /\ UNCHANGED <<row, cache, created, flow, held>>
    BY <1>12 DEF Answered
  <2> HIDE DEF s
  <2> QED
    BY <1>1, <2>1, <2>2, <2>3, SyncKeeps
<1>13. ASSUME NEW t \in Tasks, Oversleep(t) PROVE IInv'
  <2> DEFINE s == [task[t] EXCEPT !.late = TRUE]
  <2>1. task[t].on \in Connections /\ task[t].grant \in held[task[t].on]
    BY <1>13 DEF Oversleep, IInv, Underway, TokensStayHome
  <2>2. s \in TaskShape /\ s.pc = task[t].pc /\ s.on = task[t].on /\ s.grant = task[t].grant
    BY <1>1, Belated
  <2>3. task' = [task EXCEPT ![t] = s] /\ UNCHANGED <<row, cache, created, flow, held>>
    BY <1>13 DEF Oversleep
  <2> HIDE DEF s
  <2> QED
    BY <1>1, <2>1, <2>2, <2>3, SyncKeeps
<1>14. ASSUME NEW t \in Tasks, Unauthorized(t) \/ Failed(t) PROVE IInv'
  <2>1. /\ task[t].on \in Connections
        /\ task[t].grant \in held[task[t].on]
    BY <1>14 DEF Unauthorized, Failed, IInv, Underway, TokensStayHome
  <2>2. PICK pc \in {"refused", "failed"} :
            /\ task' = [task EXCEPT ![t] = [task[t] EXCEPT !.pc = pc]]
            /\ UNCHANGED <<row, cache, created, flow, held>>
    BY <1>14 DEF Unauthorized, Failed, Step
  <2> DEFINE s == [task[t] EXCEPT !.pc = pc]
  <2>3. s \in TaskShape /\ s.pc = pc /\ s.on = task[t].on /\ s.grant = task[t].grant
    BY <1>1, <1>5, Stepped
  <2> HIDE DEF s
  <2> QED
    BY <1>1, <2>1, <2>2, <2>3, SyncKeeps DEF s
<1>15. ASSUME NEW t \in Tasks, MarkRevoked(t) PROVE IInv'
  <2> DEFINE s == [task[t] EXCEPT !.pc = "notify"]
  <2>1. task[t].on \in Connections
    BY <1>15 DEF MarkRevoked, IInv, Underway
  <2>2. /\ cache' = [cache EXCEPT ![ProcessOf(t)][task[t].on] = None]
        /\ row' = row \/ row' = Revoked(task[t].on)
        /\ task' = [task EXCEPT ![t] = s] /\ UNCHANGED <<created, flow, held>>
    BY <1>15 DEF MarkRevoked, Step
  <2>3. /\ cache' \in [Processes -> [Connections -> Grants \cup {None}]]
        /\ \A p \in Processes, c \in Connections : cache'[p][c] \in held[c] \cup {None}
    BY <1>1, <1>2, <2>1, <2>2
  <2>4. s \in TaskShape /\ s.pc = "notify" /\ s.on = task[t].on
    BY <1>1, <1>5, Stepped
  <2> HIDE DEF s
  <2> QED
    BY <2>1, <2>2, <2>3, <2>4, SyncKeeps
<1>16. ASSUME NEW t \in Tasks, Notify(t) \/ Record(t) PROVE IInv'
  <2>1. task' = [task EXCEPT ![t] = AtRest] /\ UNCHANGED <<row, cache, created, flow, held>>
    BY <1>16 DEF Notify, Record
  <2> QED
    BY <1>1, <1>3, <2>1, SyncKeeps
<1> QED
  BY <1>6, <1>7, <1>8, <1>9, <1>10, <1>11, <1>12, <1>13, <1>14, <1>15, <1>16
  DEF Sync, Refresh, Call, Outcome, Tasks

LEMMA WorldStep == IInv /\ World => IInv'
<1> SUFFICES ASSUME IInv, World PROVE IInv'
  OBVIOUS
<1>1. ASSUME NEW g \in Grants, Withdraw(g) PROVE IInv'
  BY <1>1 DEF Withdraw, IInv, Shape, Underway, TokensStayHome
<1>2. ASSUME NEW c \in Connections, FallDue(c) PROVE IInv'
  BY <1>2 DEF FallDue, IInv, Shape, Underway, TokensStayHome
<1>3. ASSUME NEW p \in Processes, NEW c \in Connections, Expire(p, c) PROVE IInv'
  BY <1>3 DEF Expire, IInv, Shape, Underway, TokensStayHome
<1>4. ASSUME NEW p \in Processes, Restart(p) PROVE IInv'
  <2>1. AtRest \in TaskShape /\ AtRest.pc = "idle"
    BY GmcConstants DEF AtRest, TaskShape, TaskSteps
  <2>2. \A t \in Tasks : task'[t] \in {AtRest, task[t]}
    BY <1>4 DEF Restart
  <2>3. \A q \in Processes, c \in Connections : cache'[q][c] \in {cache[q][c], None}
    BY <1>4 DEF Restart, IInv, Shape
  <2>4. Shape'
    BY <1>4, <2>1 DEF Restart, IInv, Shape
  <2>5. Underway'
    BY <1>4, <2>1, <2>2 DEF Restart, IInv, Underway
  <2>6. TokensStayHome'
    BY <1>4, <2>1, <2>2, <2>3 DEF Restart, IInv, TokensStayHome
  <2> QED
    BY <2>4, <2>5, <2>6 DEF IInv
<1> QED
  BY <1>1, <1>2, <1>3, <1>4 DEF World

-----------------------------------------------------------------------------

LEMMA IInvStep == IInv /\ [Next]_vars => IInv'
<1>1. IInv /\ UNCHANGED vars => IInv'
  BY DEF vars, IInv, Shape, Underway, TokensStayHome
<1> QED
  BY <1>1, PageStep, SyncStep, WorldStep DEF Next

LEMMA Invariance == Spec => []IInv
BY InitIInv, IInvStep, PTL DEF Spec

\* No token ever crosses from one connection to another, in no cache and no
\* sync, and a row has a refresh token exactly while it is active.
THEOREM TokensStayHomeAlways == Spec => []TokensStayHome
<1>1. IInv => TokensStayHome
  BY DEF IInv
<1> QED
  BY <1>1, Invariance, PTL

-----------------------------------------------------------------------------
(* Refusals are Google's.                                                  *)

Away == {"linking", "picker", "picked"}

\* Grants in use were given by users, and what Google once refused it will not
\* accept again.
Consent ==
    /\ google \in [Grants -> {"unused", "good", "barred", "gone"}]
    /\ \A c \in Connections : \A g \in held[c] : google[g] # "unused"
    /\ \A f \in Flows : flow[f].pc \in Away => google[flow[f].grant] # "unused"
    /\ \A t \in Tasks : task[t].pc = "refused" =>
                           google[task[t].grant] \in {"barred", "gone"} \/ task[t].late

LEMMA ConsentKeeps ==
    ASSUME IInv, Consent,
           google' \in [Grants -> {"unused", "good", "barred", "gone"}],
           \A g \in Grants :
              /\ google[g] # "unused" => google'[g] # "unused"
              /\ google[g] \in {"barred", "gone"} => google'[g] \in {"barred", "gone"},
           \A c \in Connections : \A g \in held'[c] : g \in held[c] \/ google'[g] # "unused",
           \A f \in Flows : flow'[f].pc \in Away =>
              \/ flow[f].pc \in Away /\ flow'[f].grant = flow[f].grant
              \/ google'[flow'[f].grant] # "unused",
           \A t \in Tasks : task'[t].pc = "refused" =>
              \/ task[t].pc = "refused" /\ task'[t].grant = task[t].grant /\ task'[t].late = task[t].late
              \/ google'[task'[t].grant] \in {"barred", "gone"} \/ task'[t].late
    PROVE  Consent'
<1>1. \A c \in Connections : held[c] \subseteq Grants
  BY DEF IInv, Shape
<1>2. \A f \in Flows : flow[f].pc \in Away => flow[f].grant \in Grants
  BY DEF IInv, Underway, Away
<1>3. \A t \in Tasks : task[t].pc = "refused" => task[t].grant \in Grants
  BY <1>1 DEF IInv, Underway, TokensStayHome
<1>4. \A c \in Connections : \A g \in held'[c] : google'[g] # "unused"
  BY <1>1 DEF Consent
<1>5. \A f \in Flows : flow'[f].pc \in Away => google'[flow'[f].grant] # "unused"
  BY <1>2 DEF Consent
<1>6. \A t \in Tasks : task'[t].pc = "refused" =>
         google'[task'[t].grant] \in {"barred", "gone"} \/ task'[t].late
  BY <1>3 DEF Consent
<1> QED
  BY <1>4, <1>5, <1>6 DEF Consent

\* What a page does with its flow.
LEMMA PageConsent == IInv /\ Consent /\ Page => Consent'
<1> SUFFICES ASSUME IInv, Consent, NEW f \in Flows,
                    \/ \E c \in Connections : Connect(f, c) \/ Pick(f, c)
                    \/ \E g \in Grants : Callback(f, g)
                    \/ Save(f) \/ GiveUp(f) \/ Disconnect(f)
                    \/ \E s \in Stores : AskDisconnect(f, s)
             PROVE  Consent'
  BY DEF Page
<1> USE DEF FlowTo, otherThanFlow, Away
<1>1. flow[f] \in FlowShape /\ flow \in [Flows -> FlowShape]
  BY DEF IInv, Shape
<1>2. google \in [Grants -> {"unused", "good", "barred", "gone"}]
  BY DEF Consent
<1>3. ASSUME UNCHANGED google, UNCHANGED held, UNCHANGED task,
             \/ \E c \in Connections, step \in {"away", "disconnecting"} :
                   flow' = [flow EXCEPT ![f] = [pc |-> step, grant |-> None, on |-> c]]
             \/ flow' = [flow EXCEPT ![f] = NoFlow]
             \/ /\ flow[f].pc = "picker"
                /\ \E c \in Connections :
                      flow' = [flow EXCEPT ![f] = [pc |-> "picked", grant |-> flow[f].grant, on |-> c]]
      PROVE  Consent'
  <2>1. \A h \in Flows : flow'[h].pc \in Away => flow[h].pc \in Away /\ flow'[h].grant = flow[h].grant
    BY <1>1, <1>3 DEF NoFlow
  <2> QED
    BY <1>2, <1>3, <2>1, ConsentKeeps
<1>4. ASSUME NEW c \in Connections, Connect(f, c) PROVE Consent'
  BY <1>3, <1>4 DEF Connect
<1>5. ASSUME NEW c \in Connections, Pick(f, c) PROVE Consent'
  BY <1>3, <1>5 DEF Pick
<1>6. ASSUME GiveUp(f) \/ Disconnect(f) PROVE Consent'
  BY <1>3, <1>6 DEF GiveUp, Disconnect
<1>7. ASSUME NEW g \in Grants, Callback(f, g) PROVE Consent'
  <2>1. /\ google' = [google EXCEPT ![g] = "good"] /\ google[g] = "unused"
        /\ UNCHANGED held /\ UNCHANGED task
        /\ \E step \in {"linking", "picker"} :
              flow' = [flow EXCEPT ![f] = [pc |-> step, grant |-> g, on |-> flow[f].on]]
    BY <1>7 DEF Callback
  <2>2. \A h \in Flows : flow'[h] = flow[h] \/ flow'[h].grant = g
    BY <1>1, <2>1
  <2>3. google'[g] # "unused" /\ \A h \in Grants : google[h] # "unused" => google'[h] = google[h]
    BY <1>2, <2>1
  <2>4. google' \in [Grants -> {"unused", "good", "barred", "gone"}]
    BY <1>2, <2>1
  <2> QED
    BY <2>1, <2>2, <2>3, <2>4, ConsentKeeps
<1>8. ASSUME Save(f) PROVE Consent'
  <2>1. /\ UNCHANGED google /\ UNCHANGED task
        /\ held' = [held EXCEPT ![flow[f].on] = @ \cup {flow[f].grant}]
        /\ flow' = [flow EXCEPT ![f] = IF flow[f].pc = "picked" THEN [flow[f] EXCEPT !.pc = "picker"]
                                       ELSE NoFlow]
        /\ flow[f].pc \in Away
    BY <1>1, <1>8 DEF Save, Upsert
  <2>2. google[flow[f].grant] # "unused"
    BY <2>1 DEF Consent
  <2>3. \A c \in Connections : held'[c] \subseteq held[c] \cup {flow[f].grant}
    BY <2>1 DEF IInv, Shape
  <2>4. [flow[f] EXCEPT !.pc = "picker"].grant = flow[f].grant
    BY <1>1 DEF FlowShape
  <2>5. \A h \in Flows : flow'[h].pc \in Away => flow[h].pc \in Away /\ flow'[h].grant = flow[h].grant
    BY <1>1, <2>1, <2>4 DEF NoFlow
  <2> QED
    BY <1>2, <2>1, <2>2, <2>3, <2>5, ConsentKeeps
<1>9. ASSUME NEW s \in Stores, AskDisconnect(f, s) PROVE Consent'
  <2> DEFINE c == Newest(s)
  <2>1. /\ google' = google \/ google' = [google EXCEPT ![row[c].grant] = "gone"]
        /\ flow' = [flow EXCEPT ![f] = [pc |-> "disconnecting", grant |-> None, on |-> c]]
        /\ UNCHANGED held /\ UNCHANGED task
    BY <1>9 DEF AskDisconnect
  <2> HIDE DEF c
  <2>2. \A h \in Flows : flow'[h].pc \in Away => flow[h].pc \in Away /\ flow'[h].grant = flow[h].grant
    BY <1>1, <2>1
  <2>3. /\ google' \in [Grants -> {"unused", "good", "barred", "gone"}]
        /\ \A h \in Grants : google'[h] \in {google[h], "gone"}
    BY <1>2, <2>1
  <2> QED
    BY <1>2, <2>1, <2>2, <2>3, ConsentKeeps
<1> QED
  BY <1>4, <1>5, <1>6, <1>7, <1>8, <1>9

\* What a sync does with its task.
LEMMA SyncConsent == IInv /\ Consent /\ Sync => Consent'
<1> SUFFICES ASSUME IInv, Consent, Sync PROVE Consent'
  OBVIOUS
<1> USE DEF otherThanSync
<1>1. /\ task \in [Tasks -> TaskShape]
      /\ google \in [Grants -> {"unused", "good", "barred", "gone"}]
  BY DEF IInv, Shape, Consent
<1>2. UNCHANGED google /\ UNCHANGED held /\ UNCHANGED flow
  BY DEF Sync, Refresh, Call, Outcome, CachedToken, LoadToken, Mint, Answered, Unauthorized,
     Failed, Oversleep, MarkRevoked, Notify, Record, AuditSync, LoadDue, RefreshOne
<1>3. ASSUME \A u \in Tasks : task'[u].pc = "refused" =>
                task[u].pc = "refused" /\ task'[u].grant = task[u].grant /\ task'[u].late = task[u].late
      PROVE  Consent'
  BY <1>1, <1>2, <1>3, ConsentKeeps
<1>4. ASSUME NEW t \in Tasks, NEW s, s.pc # "refused", task' = [task EXCEPT ![t] = s]
      PROVE  Consent'
  BY <1>1, <1>3, <1>4
<1>5. ASSUME NEW t \in Tasks, NEW pc, pc # "refused",
             task' = [task EXCEPT ![t] = [task[t] EXCEPT !.pc = pc]]
      PROVE  Consent'
  <2>1. [task[t] EXCEPT !.pc = pc].pc # "refused"
    BY <1>1, <1>5 DEF TaskShape
  <2> QED
    BY <1>4, <1>5, <2>1
<1>6. AtRest.pc # "refused"
  BY DEF AtRest
<1>7. ASSUME NEW t \in Tasks, NEW c, Start(t, c) PROVE Consent'
  <2>1. [AtRest EXCEPT !.pc = "token", !.on = c, !.left = Requests(t)].pc # "refused"
    BY DEF AtRest
  <2> QED
    BY <1>4, <1>7, <2>1 DEF Start
<1>8. ASSUME NEW t \in Tasks, Unauthorized(t) PROVE Consent'
  <2>1. task' = [task EXCEPT ![t] = [task[t] EXCEPT !.pc = "refused"]]
    BY <1>8 DEF Unauthorized, Step
  <2>2. task[t].grant \in Grants
    BY <1>8 DEF Unauthorized, IInv, Shape, Underway, TokensStayHome
  <2>3. google[task[t].grant] # "unused"
    BY <1>8 DEF Unauthorized, IInv, Underway, TokensStayHome, Consent
  <2>4. google[task[t].grant] \in {"barred", "gone"} \/ task[t].late
    BY <1>1, <1>8, <2>2, <2>3 DEF Unauthorized
  <2>5. /\ [task[t] EXCEPT !.pc = "refused"].grant = task[t].grant
        /\ [task[t] EXCEPT !.pc = "refused"].late = task[t].late
    BY <1>1 DEF TaskShape
  <2>6. \A u \in Tasks :
           \/ task'[u] = task[u]
           \/ u = t /\ task'[u].grant = task[t].grant /\ task'[u].late = task[t].late
    BY <1>1, <2>1, <2>5
  <2> QED
    BY <1>1, <1>2, <2>4, <2>6, ConsentKeeps
<1>9. ASSUME NEW t \in Tasks, CachedToken(t) PROVE Consent'
  <2>1. task' = [task EXCEPT ![t] = [[task[t] EXCEPT !.pc = "call"]
                                      EXCEPT !.grant = cache[ProcessOf(t)][task[t].on]]]
    BY <1>1, <1>9 DEF CachedToken
  <2>2. [[task[t] EXCEPT !.pc = "call"] EXCEPT !.grant = cache[ProcessOf(t)][task[t].on]].pc # "refused"
    BY <1>1 DEF TaskShape
  <2> QED
    BY <1>4, <2>1, <2>2
<1>10. ASSUME NEW t \in Tasks, LoadToken(t) PROVE Consent'
  <2> DEFINE r == row[task[t].on]
             s == [[task[t] EXCEPT !.pc = IF r.status = "active" THEN "mint" ELSE "failed"]
                     EXCEPT !.grant = r.grant]
  <2>1. task' = [task EXCEPT ![t] = s]
    BY <1>1, <1>10 DEF LoadToken
  <2>2. s.pc # "refused"
    BY <1>1 DEF TaskShape
  <2> HIDE DEF s
  <2> QED
    BY <1>4, <2>1, <2>2
<1>11. ASSUME NEW t \in Tasks, Answered(t) PROVE Consent'
  <2> DEFINE s == [[task[t] EXCEPT !.left = @ - 1]
                     EXCEPT !.pc = IF task[t].left = 1 THEN "done" ELSE "token"]
  <2>1. task' = [task EXCEPT ![t] = s]
    BY <1>1, <1>11 DEF Answered
  <2>2. s.pc # "refused"
    BY <1>1 DEF TaskShape
  <2> HIDE DEF s
  <2> QED
    BY <1>4, <2>1, <2>2
<1>12. ASSUME NEW t \in Tasks, Oversleep(t) PROVE Consent'
  <2> DEFINE s == [task[t] EXCEPT !.late = TRUE]
  <2>1. task' = [task EXCEPT ![t] = s] /\ task[t].pc = "call"
    BY <1>12 DEF Oversleep
  <2>2. s.pc # "refused"
    BY <1>1, <2>1 DEF TaskShape
  <2> HIDE DEF s
  <2> QED
    BY <1>4, <2>1, <2>2
<1>13. ASSUME NEW t \in Tasks, Mint(t) \/ Failed(t) \/ MarkRevoked(t) PROVE Consent'
  BY <1>5, <1>13 DEF Mint, Failed, MarkRevoked, Step
<1>14. ASSUME NEW t \in Tasks, Notify(t) \/ Record(t) PROVE Consent'
  BY <1>4, <1>6, <1>14 DEF Notify, Record
<1>15. ASSUME LoadDue PROVE Consent'
  BY <1>3, <1>15 DEF LoadDue
<1>16. ASSUME NEW b \in batch, RefreshOne(b) PROVE Consent'
  <2>1. Refresher \in Tasks
    BY DEF Tasks
  <2>2. Start(Refresher, Newest(StoreOf[b])) \/ task' = task
    BY <1>16 DEF RefreshOne
  <2> QED
    BY <1>3, <1>7, <2>1, <2>2
<1>17. ASSUME NEW t \in Audits, NEW s \in Stores, AuditSync(t, s) PROVE Consent'
  BY <1>7, <1>17 DEF AuditSync, Tasks
<1> QED
  BY <1>8, <1>9, <1>10, <1>11, <1>12, <1>13, <1>14, <1>15, <1>16, <1>17
  DEF Sync, Refresh, Call, Outcome

LEMMA ConsentStep == IInv /\ Consent /\ [Next]_vars => Consent'
<1> SUFFICES ASSUME IInv, Consent, World \/ UNCHANGED vars PROVE Consent'
  BY PageConsent, SyncConsent DEF Next
<1>1. /\ google \in [Grants -> {"unused", "good", "barred", "gone"}]
      /\ task \in [Tasks -> TaskShape]
  BY DEF Consent, IInv, Shape
<1>2. ASSUME NEW g \in Grants, Withdraw(g) PROVE Consent'
  <2>1. /\ UNCHANGED held /\ UNCHANGED flow /\ UNCHANGED task
        /\ google' \in [Grants -> {"unused", "good", "barred", "gone"}]
        /\ \A h \in Grants : google'[h] = google[h]
                             \/ (google[h] = "good" /\ google'[h] \in {"barred", "gone"})
    BY <1>1, <1>2 DEF Withdraw
  <2> QED
    BY <1>1, <2>1, ConsentKeeps
<1>3. ASSUME NEW p \in Processes, Restart(p) PROVE Consent'
  <2>1. /\ UNCHANGED held /\ UNCHANGED flow /\ UNCHANGED google
        /\ \A t \in Tasks : task'[t] = task[t] \/ task'[t].pc = "idle"
    BY <1>3 DEF Restart, AtRest
  <2> QED
    BY <1>1, <2>1, ConsentKeeps
<1>4. ASSUME \/ \E p \in Processes, c \in Connections : Expire(p, c)
             \/ \E c \in Connections : FallDue(c)
             \/ UNCHANGED vars
      PROVE  Consent'
  <2>1. UNCHANGED held /\ UNCHANGED flow /\ UNCHANGED task /\ UNCHANGED google
    BY <1>4 DEF Expire, FallDue, vars
  <2> QED
    BY <1>1, <2>1, ConsentKeeps
<1> QED
  BY <1>2, <1>3, <1>4 DEF World

\* No sync ever revokes a connection for another reason than that Google refused
\* a token of its own, which had been withdrawn or had expired.
THEOREM RevocationIsEarned == Spec => RevocationEarned
<1>1. Init => Consent
  BY DEF Init, Consent, NoFlow, AtRest, Away
<1>2. Spec => [](IInv /\ Consent)
  BY <1>1, InitIInv, IInvStep, ConsentStep, PTL DEF Spec
<1>3. IInv /\ Consent /\ [Next]_vars =>
        [\A c \in Connections :
            (row[c].status = "active" /\ row'[c].status = "revoked") =>
                \/ \E f \in Flows : flow[f].pc = "disconnecting" /\ flow[f].on = c
                \/ \E t \in Tasks :
                      /\ task[t].pc = "refused" /\ task[t].on = c
                      /\ task[t].grant \in held[c]
                      /\ google[task[t].grant] # "good" \/ task[t].late]_vars
  <2> SUFFICES ASSUME IInv, Consent, Next, NEW c \in Connections,
                      row[c].status = "active", row'[c].status = "revoked"
               PROVE  \/ \E f \in Flows : flow[f].pc = "disconnecting" /\ flow[f].on = c
                      \/ \E t \in Tasks :
                            /\ task[t].pc = "refused" /\ task[t].on = c
                            /\ task[t].grant \in held[c]
                            /\ google[task[t].grant] # "good" \/ task[t].late
    OBVIOUS
  <2>1. \A d : row' = Revoked(d) => d = c
    BY DEF Revoked, IInv, Shape
  <2>2. ASSUME NEW f \in Flows, Save(f) PROVE FALSE
    BY <2>2 DEF Save, Upsert, IInv, Shape, RowShape
  <2>3. \/ \E f \in Flows : Save(f) \/ Disconnect(f)
        \/ \E t \in Tasks : MarkRevoked(t)
        \/ row' = row
    BY DEF Next, Page, Sync, World, Refresh, Call, Outcome, Tasks, Connect, Pick, Callback,
       GiveUp, AskDisconnect, CachedToken, LoadToken, Mint, Answered, Unauthorized, Failed,
       Oversleep, Notify, Record, AuditSync, LoadDue, RefreshOne, Withdraw, Expire, FallDue,
       Restart
  <2>4. ASSUME NEW t \in Tasks, MarkRevoked(t)
        PROVE  /\ task[t].pc = "refused" /\ task[t].on = c
               /\ task[t].grant \in held[c]
               /\ google[task[t].grant] # "good" \/ task[t].late
    <3>1. task[t].pc = "refused" /\ task[t].on = c
      BY <2>1, <2>4 DEF MarkRevoked
    <3> QED
      BY <3>1 DEF IInv, TokensStayHome, Consent
  <2> QED
    BY <2>1, <2>2, <2>3, <2>4 DEF Disconnect
<1> QED
  BY <1>2, <1>3, PTL DEF Spec, RevocationEarned

=============================================================================
