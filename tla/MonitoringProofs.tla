--------------------------- MODULE MonitoringProofs ---------------------------
(***************************************************************************)
(* Monitoring, whatever number of stores, schedulers, subscribers, audits  *)
(* and dispatches there is: no date of a store is spent twice, and a user  *)
(* gets no more alerts than the limit allows.                              *)
(***************************************************************************)
EXTENDS MonitorSchedulerProperties, AlertDispatchProperties, FiniteSetTheorems, TLAPS

-----------------------------------------------------------------------------
(* The scheduler.                                                          *)

\* Whether the timetable still has a date for s.
Listed(s) == IF next[s] = "ahead" THEN 0 ELSE 1

Shape ==
    /\ monitor \in [Stores -> {"absent", "on", "off", "gone"}]
    /\ next \in [Stores -> {"null", "ahead", "past"}]
    /\ batch \in [Schedulers -> SUBSET Stores]
    /\ open \in [Stores -> Int]
    /\ locked \subseteq Stores

\* A store that is not there yet is in nobody's hands.
Accounted(s) ==
    /\ IsFiniteSet(Holders(s))
    /\ monitor[s] = "absent" => Holders(s) = {} /\ open[s] = 0 /\ next[s] = "null" /\ s \notin locked
    /\ s \in Existing => open[s] = Cardinality(Holders(s)) + Listed(s)

IInv == Shape /\ \A s \in Stores : Accounted(s)

LEMMA InitIInv == Init => IInv
<1> SUFFICES ASSUME Init PROVE IInv
  OBVIOUS
<1>1. Shape
  BY DEF Init, Shape
<1>2. \A s \in Stores : Holders(s) = {}
  BY DEF Init, Holders
<1> QED
  BY <1>1, <1>2, FS_EmptySet DEF Init, IInv, Accounted, Existing

\* One scheduler lets go of a store, which has its audit or has lost it.
LEMMA LetGo ==
    ASSUME IInv, NEW s \in Stores, NEW p \in Schedulers, s \in batch[p], s \notin batch'[p],
           \A q \in Schedulers \ {p} : s \in batch'[q] <=> s \in batch[q],
           open'[s] = open[s] - 1, next'[s] = next[s], monitor'[s] = monitor[s]
    PROVE  Accounted(s)'
<1>1. Holders(s)' = Holders(s) \ {p} /\ p \in Holders(s)
  BY DEF Holders
<1>2. IsFiniteSet(Holders(s)) /\ open[s] \in Int
  BY DEF IInv, Accounted, Shape
<1>3. /\ IsFiniteSet(Holders(s)') /\ Cardinality(Holders(s)) \in Nat
      /\ Cardinality(Holders(s)') = Cardinality(Holders(s)) - 1
  BY <1>1, <1>2, FS_RemoveElement, FS_CardinalityType
<1>4. Listed(s)' = Listed(s) /\ Listed(s) \in {0, 1}
  BY DEF Listed
<1>5. monitor[s] # "absent"
  BY <1>1 DEF IInv, Accounted
<1>6. s \in Existing' => open'[s] = Cardinality(Holders(s)') + Listed(s)'
  BY <1>2, <1>3, <1>4 DEF IInv, Accounted, Existing
<1> QED
  BY <1>3, <1>5, <1>6 DEF Accounted

LEMMA WebStep ==
    ASSUME IInv, NEW s \in Stores,
           \/ StoreCreate(s) \/ MonitoringOn(s) \/ MonitoringOff(s)
           \/ StoreDelete(s) \/ RequestEnds(s) \/ TimePasses(s)
    PROVE  IInv'
<1>0. Shape /\ \A t \in Stores : Accounted(t)
  BY DEF IInv
<1>1. CASE StoreCreate(s)
  <2>1. Shape'
    BY <1>0, <1>1 DEF StoreCreate, ComesDue, Shape
  <2>2. ASSUME NEW t \in Stores, t # s PROVE Accounted(t)'
    BY <1>0, <1>1, <2>2 DEF StoreCreate, ComesDue, Shape, Accounted, Holders, Listed, Existing
  <2>3. Accounted(s)'
    <3>1. Holders(s)' = {} /\ open'[s] = 1 /\ next'[s] = "null" /\ monitor'[s] = "on"
      <4>1. /\ monitor[s] = "absent" /\ batch' = batch /\ next' = next
            /\ monitor' = [monitor EXCEPT ![s] = "on"]
            /\ open' = [open EXCEPT ![s] = open[s] + 1]
        BY <1>1 DEF StoreCreate, ComesDue
      <4>2. Holders(s) = {} /\ open[s] = 0 /\ next[s] = "null"
        BY <1>0, <4>1 DEF Accounted
      <4> QED
        BY <1>0, <4>1, <4>2 DEF Shape, Holders
    <3> QED
      BY <3>1, FS_EmptySet DEF Accounted, Listed
  <2> QED
    BY <2>1, <2>2, <2>3 DEF IInv
<1>2. CASE TimePasses(s)
  <2>1. Shape'
    BY <1>0, <1>2 DEF TimePasses, ComesDue, Shape, Existing
  <2>2. ASSUME NEW t \in Stores, t # s PROVE Accounted(t)'
    BY <1>0, <1>2, <2>2 DEF TimePasses, ComesDue, Shape, Accounted, Holders, Listed, Existing
  <2>3. Accounted(s)'
    <3>1. /\ Holders(s)' = Holders(s) /\ s \in Existing /\ Existing' = Existing
          /\ open'[s] = open[s] + 1 /\ next[s] = "ahead" /\ next'[s] = "past"
          /\ monitor'[s] # "absent"
      BY <1>0, <1>2 DEF TimePasses, ComesDue, Shape, Holders, Existing
    <3>2. IsFiniteSet(Holders(s)) /\ Cardinality(Holders(s)) \in Nat /\ open[s] = Cardinality(Holders(s))
      BY <1>0, <3>1, FS_CardinalityType DEF Accounted, Listed
    <3> QED
      BY <3>1, <3>2 DEF Accounted, Listed
  <2> QED
    BY <2>1, <2>2, <2>3 DEF IInv
<1>3. CASE MonitoringOn(s) \/ MonitoringOff(s) \/ StoreDelete(s)
  <2>1. Shape'
    BY <1>0, <1>3 DEF MonitoringOn, MonitoringOff, StoreDelete, Shape, Existing
  <2>2. /\ UNCHANGED batch /\ UNCHANGED open /\ Existing' = Existing /\ s \in Existing
        /\ \A t \in Stores : (next'[t] = "ahead") <=> (next[t] = "ahead")
        /\ \A t \in Stores : t # s => monitor'[t] = monitor[t] /\ next'[t] = next[t]
        /\ locked' \subseteq locked \cup {s}
    BY <1>0, <1>3 DEF MonitoringOn, MonitoringOff, StoreDelete, Shape, Existing
  <2>3. ASSUME NEW t \in Stores PROVE Accounted(t)'
    <3>1. Holders(t)' = Holders(t) /\ Listed(t)' = Listed(t)
      BY <2>2 DEF Holders, Listed
    <3>2. monitor'[t] = "absent" => t # s
      BY <2>2 DEF Existing
    <3> QED
      BY <1>0, <2>2, <3>1, <3>2 DEF Accounted
  <2> QED
    BY <2>1, <2>3 DEF IInv
<1>4. CASE RequestEnds(s)
  <2>1. Shape'
    BY <1>0, <1>4 DEF RequestEnds, Shape
  <2>2. /\ UNCHANGED batch /\ UNCHANGED open /\ UNCHANGED next /\ locked' \subseteq locked
        /\ \A t \in Stores : monitor'[t] = monitor[t] \/ (monitor'[t] = "gone")
    BY <1>0, <1>4 DEF RequestEnds, Shape
  <2>3. ASSUME NEW t \in Stores PROVE Accounted(t)'
    <3>1. Holders(t)' = Holders(t) /\ Listed(t)' = Listed(t)
      BY <2>2 DEF Holders, Listed
    <3> QED
      BY <1>0, <2>2, <3>1 DEF Accounted, Existing
  <2> QED
    BY <2>1, <2>3 DEF IInv
<1> QED
  BY <1>1, <1>2, <1>3, <1>4

LEMMA SchedulerStep ==
    ASSUME IInv, NEW p \in Schedulers,
           \/ Start(p) \/ ClaimDue(p) \/ ClaimLost(p)
           \/ Cancel(p) \/ Stop(p) \/ Killed(p)
           \/ \E s \in Stores : EnqueueAudit(p, s) \/ EnqueueFails(p, s)
    PROVE  IInv'
<1>0. Shape /\ \A t \in Stores : Accounted(t)
  BY DEF IInv
<1>1. CASE Start(p) \/ Cancel(p) \/ Stop(p)
  <2>1. UNCHANGED <<monitor, locked, next, batch, open>>
    BY <1>1 DEF Start, Cancel, Stop, storeVars
  <2> QED
    BY <1>0, <2>1 DEF IInv, Shape, Accounted, Holders, Listed, Existing
<1>2. CASE ClaimDue(p)
  <2>1. PICK S \in Batches : MoveAhead(S) /\ batch' = [batch EXCEPT ![p] = S]
    BY <1>2 DEF ClaimDue
  <2>2. /\ batch[p] = {} /\ UNCHANGED monitor /\ UNCHANGED locked /\ UNCHANGED open
        /\ S \subseteq Stores
        /\ \A t \in S : monitor[t] = "on" /\ next[t] # "ahead"
        /\ \A t \in Stores : next'[t] = IF t \in S THEN "ahead" ELSE next[t]
        /\ next' \in [Stores -> {"null", "ahead", "past"}]
    BY <1>0, <1>2, <2>1 DEF ClaimDue, Batches, Due, MoveAhead, Shape
  <2>3. Shape'
    BY <1>0, <2>1, <2>2 DEF Shape
  <2>4. ASSUME NEW t \in Stores \ S PROVE Accounted(t)'
    <3>1. Holders(t)' = Holders(t) /\ Listed(t)' = Listed(t) /\ next'[t] = next[t]
      BY <1>0, <2>1, <2>2 DEF Holders, Listed, Shape
    <3> QED
      BY <1>0, <2>2, <3>1 DEF Accounted, Existing
  <2>5. ASSUME NEW t \in S PROVE Accounted(t)'
    <3>1. Holders(t)' = Holders(t) \cup {p} /\ p \notin Holders(t)
      BY <1>0, <2>1, <2>2 DEF Holders, Shape
    <3>2. IsFiniteSet(Holders(t)) /\ t \in Existing /\ open[t] \in Int
      BY <1>0, <2>2 DEF Accounted, Existing, Shape
    <3>3. /\ IsFiniteSet(Holders(t)') /\ Cardinality(Holders(t)) \in Nat
          /\ Cardinality(Holders(t)') = Cardinality(Holders(t)) + 1
      BY <3>1, <3>2, FS_AddElement, FS_CardinalityType
    <3>4. Listed(t) = 1 /\ Listed(t)' = 0
      BY <2>2 DEF Listed
    <3>5. open[t] = Cardinality(Holders(t)) + Listed(t)
      BY <1>0, <2>2, <3>2 DEF Accounted
    <3> QED
      BY <2>2, <3>3, <3>4, <3>5 DEF Accounted
  <2> QED
    BY <2>2, <2>3, <2>4, <2>5 DEF IInv
<1>3. CASE ClaimLost(p)
  <2>1. PICK S \in Batches : MoveAhead(S) /\ Lose(p, S)
    BY <1>3 DEF ClaimLost
  <2>2. /\ UNCHANGED monitor /\ UNCHANGED locked /\ UNCHANGED batch
        /\ S \subseteq Stores
        /\ \A t \in S : monitor[t] = "on" /\ next[t] # "ahead"
        /\ \A t \in Stores : next'[t] = IF t \in S THEN "ahead" ELSE next[t]
        /\ \A t \in Stores : open'[t] = IF t \in S THEN open[t] - 1 ELSE open[t]
        /\ next' \in [Stores -> {"null", "ahead", "past"}]
        /\ open' \in [Stores -> Int]
    BY <1>0, <1>3, <2>1 DEF ClaimLost, Batches, Due, MoveAhead, Lose, Shape
  <2>3. Shape'
    BY <1>0, <2>2 DEF Shape
  <2>4. ASSUME NEW t \in Stores PROVE Accounted(t)'
    <3>1. Holders(t)' = Holders(t) /\ (t \notin S => Listed(t)' = Listed(t))
      BY <2>2 DEF Holders, Listed
    <3>2. t \in S => t \in Existing /\ Listed(t) = 1 /\ Listed(t)' = 0
      BY <2>2 DEF Existing, Listed
    <3>3. IsFiniteSet(Holders(t)) /\ Cardinality(Holders(t)) \in Nat /\ open[t] \in Int
      BY <1>0, FS_CardinalityType DEF Accounted, Shape
    <3> QED
      BY <1>0, <2>2, <3>1, <3>2, <3>3 DEF Accounted, Existing
  <2> QED
    BY <2>3, <2>4 DEF IInv
<1>4. ASSUME NEW s \in Stores, EnqueueAudit(p, s) \/ EnqueueFails(p, s) PROVE IInv'
  <2>1. /\ UNCHANGED monitor /\ UNCHANGED locked /\ UNCHANGED next
        /\ batch' = [batch EXCEPT ![p] = batch[p] \ {s}] /\ s \in batch[p]
        /\ open' \in [Stores -> Int] /\ open'[s] = open[s] - 1
        /\ \A t \in Stores \ {s} : open'[t] = open[t]
    BY <1>0, <1>4 DEF EnqueueAudit, EnqueueFails, Lose, Shape, storeVars
  <2>2. Shape'
    BY <1>0, <2>1 DEF Shape
  <2>3. ASSUME NEW t \in Stores, t # s PROVE Accounted(t)'
    <3>1. Holders(t)' = Holders(t) /\ Listed(t)' = Listed(t)
      BY <1>0, <2>1, <2>3 DEF Holders, Listed, Shape
    <3> QED
      BY <1>0, <2>1, <2>3, <3>1 DEF Accounted, Existing
  <2>4. /\ s \notin batch'[p]
        /\ \A q \in Schedulers \ {p} : s \in batch'[q] <=> s \in batch[q]
    BY <1>0, <2>1 DEF Shape
  <2> QED
    BY <2>1, <2>2, <2>3, <2>4, LetGo DEF IInv
<1>5. CASE Killed(p)
  <2>1. /\ UNCHANGED monitor /\ UNCHANGED locked /\ UNCHANGED next
        /\ batch' = [batch EXCEPT ![p] = {}]
        /\ open' \in [Stores -> Int]
        /\ \A t \in Stores : open'[t] = IF t \in batch[p] THEN open[t] - 1 ELSE open[t]
    BY <1>0, <1>5 DEF Killed, Lose, Shape, storeVars
  <2>2. Shape'
    BY <1>0, <2>1 DEF Shape
  <2>3. ASSUME NEW t \in Stores \ batch[p] PROVE Accounted(t)'
    <3>1. Holders(t)' = Holders(t) /\ Listed(t)' = Listed(t)
      BY <1>0, <2>1 DEF Holders, Listed, Shape
    <3> QED
      BY <1>0, <2>1, <3>1 DEF Accounted, Existing
  <2>4. ASSUME NEW t \in batch[p] PROVE Accounted(t)'
    <3>1. /\ t \in Stores /\ t \notin batch'[p]
          /\ \A q \in Schedulers \ {p} : t \in batch'[q] <=> t \in batch[q]
      BY <1>0, <2>1 DEF Shape
    <3> QED
      BY <2>1, <3>1, LetGo
  <2> QED
    BY <2>2, <2>3, <2>4 DEF IInv
<1> QED
  BY <1>1, <1>2, <1>3, <1>4, <1>5

LEMMA IInvStep == IInv /\ [Next]_vars => IInv'
<1>1. IInv /\ UNCHANGED vars => IInv'
  BY DEF vars, storeVars, IInv, Shape, Accounted, Holders, Listed, Existing
<1>2. IInv /\ PlanChanges => IInv'
  BY DEF PlanChanges, IInv, Shape, Accounted, Holders, Listed, Existing
<1> QED
  BY <1>1, <1>2, WebStep, SchedulerStep DEF Next

\* Whatever schedulers run side by side, stop or lose what they claimed, a date
\* is on the timetable, in the hands of one of them, or spent.
THEOREM EachDateOnceAlways == Spec => []EachDateOnce
<1>1. IInv => EachDateOnce
  BY DEF IInv, Accounted, EachDateOnce, Listed, Existing
<1> QED
  BY <1>1, InitIInv, IInvStep, PTL DEF Spec

-----------------------------------------------------------------------------
(* The limit on alerts.                                                    *)

AtStep == {"new", "started", "looping", "sending", "mailing", "done", "crashed"}

\* The rows the limit counts for a user.
Counted(u) == {x \in log \ old : x[2] = u /\ x[3] \notin AlwaysSend}

\* Who is about to log an alert of the limited kind.
Announcing(d) == at[d] = "sending" /\ RowAt(d)[3] \notin AlwaysSend

\* While dispatches follow one another, the one that is about to log a limited
\* alert has seen that its user has none, and nobody else can log one.
Serial ==
    /\ \A d, e \in Dispatches : Active(d) /\ Active(e) => d = e
    /\ \A d \in Dispatches : Announcing(d) => Counted(RowAt(d)[2]) = {}
    /\ \A u \in Users : \A x, y \in Counted(u) : x = y

LimitInv == at \in [Dispatches -> AtStep] /\ (serial => Serial)

LEMMA InitLimitInv == AlertInit => LimitInv
<1> SUFFICES ASSUME AlertInit PROVE LimitInv
  OBVIOUS
<1>1. at \in [Dispatches -> AtStep] /\ \A d \in Dispatches : at[d] = "new"
  BY DEF AlertInit, AtStep
<1>2. \A u : Counted(u) = {}
  BY DEF AlertInit, Counted
<1> QED
  BY <1>1, <1>2 DEF LimitInv, Serial, Active, Announcing

\* A goroutine goes on and logs nothing.
LEMMA GoesOn ==
    ASSUME LimitInv, NEW d \in Dispatches, Active(d), NEW step \in AtStep, Goto(d, step),
           UNCHANGED log, UNCHANGED old, serial' => serial,
           step = "sending" =>
              UNCHANGED todo /\ (serial' => RowAt(d)[3] \in AlwaysSend \/ Counted(RowAt(d)[2]) = {})
    PROVE  LimitInv'
<1>1. /\ at' \in [Dispatches -> AtStep] /\ at'[d] = step
      /\ \A e \in Dispatches \ {d} : at'[e] = at[e]
  BY DEF LimitInv, Goto
<1>2. ASSUME serial' PROVE Serial'
  <2>1. Serial
    BY <1>2 DEF LimitInv
  <2>2. \A e \in Dispatches : Active(e)' => Active(e)
    BY <1>1 DEF Active
  <2>3. \A e \in Dispatches \ {d} : ~ Active(e)'
    BY <2>1, <2>2 DEF Serial
  <2>4. \A u : Counted(u)' = Counted(u)
    BY DEF Counted
  <2>5. ASSUME NEW e \in Dispatches, Announcing(e)' PROVE (Counted(RowAt(e)[2]) = {})'
    <3>1. e = d /\ step = "sending"
      BY <1>1, <2>3, <2>5 DEF Announcing, Active
    <3>2. UNCHANGED todo /\ (RowAt(d)[3] \in AlwaysSend \/ Counted(RowAt(d)[2]) = {})
      BY <1>2, <3>1
    <3>3. RowAt(d)' = RowAt(d)
      BY <3>2 DEF RowAt
    <3> QED
      BY <2>4, <2>5, <3>1, <3>2, <3>3 DEF Announcing
  <2> QED
    BY <2>1, <2>2, <2>4, <2>5 DEF Serial
<1> QED
  BY <1>1, <1>2 DEF LimitInv

LEMMA LimitInvStep == LimitInv /\ [AlertNext]_alerting => LimitInv'
<1> SUFFICES ASSUME LimitInv, [AlertNext]_alerting PROVE LimitInv'
  OBVIOUS
<1> USE DEF AtStep
<1>1. ASSUME NEW d \in Dispatches, StartDispatch(d) PROVE LimitInv'
  <2>1. /\ at' \in [Dispatches -> AtStep] /\ at'[d] = "started"
        /\ \A e \in Dispatches \ {d} : at'[e] = at[e]
        /\ UNCHANGED log /\ UNCHANGED old
        /\ serial' => serial /\ \A e \in Dispatches : ~ Active(e)
    BY <1>1 DEF StartDispatch, Goto, LimitInv
  <2>2. ASSUME serial' PROVE Serial'
    <3>1. \A e \in Dispatches : Active(e)' => e = d
      BY <2>1, <2>2 DEF Active
    <3>2. \A e \in Dispatches : ~ Announcing(e)'
      BY <2>1, <3>1 DEF Announcing, Active
    <3>3. \A u : Counted(u)' = Counted(u)
      BY <2>1 DEF Counted
    <3> QED
      BY <2>1, <2>2, <3>1, <3>2, <3>3 DEF Serial, LimitInv
  <2> QED
    BY <2>1, <2>2 DEF LimitInv
<1>2. ASSUME NEW d \in Dispatches,
             Load(d) \/ LoadFails(d) \/ Skip(d) \/ Finish(d) \/ LogFails(d) \/ Mail(d)
             \/ MailFails(d) \/ Crash(d)
      PROVE  LimitInv'
  <2>1. Active(d)
    BY <1>2 DEF Load, LoadFails, Skip, Finish, LogFails, Mail, MailFails, Crash, Active
  <2>2. /\ Goto(d, "looping") \/ Goto(d, "done") \/ Goto(d, "crashed")
        /\ UNCHANGED log /\ UNCHANGED old /\ UNCHANGED serial
    BY <1>2 DEF Load, LoadFails, Skip, Finish, LogFails, Mail, MailFails, Crash, Advance
  <2> QED
    BY <2>1, <2>2, GoesOn
<1>3. ASSUME NEW d \in Dispatches, Admit(d) PROVE LimitInv'
  <2>1. /\ Active(d) /\ Goto(d, "sending") /\ UNCHANGED log /\ UNCHANGED old /\ UNCHANGED todo
        /\ serial' => serial /\ ~ Limited(d)
    BY <1>3 DEF Admit, Active
  <2>2. ~ Limited(d) => RowAt(d)[3] \in AlwaysSend \/ Counted(RowAt(d)[2]) = {}
    BY DEF Limited, RecentlyAlerted, Counted
  <2> QED
    BY <2>1, <2>2, GoesOn
<1>4. ASSUME NEW d \in Dispatches, LogRow(d) PROVE LimitInv'
  <2>1. /\ at' \in [Dispatches -> AtStep] /\ at'[d] = "mailing" /\ at[d] = "sending"
        /\ \A e \in Dispatches \ {d} : at'[e] = at[e]
        /\ log' = log \cup {RowAt(d)} /\ UNCHANGED old /\ UNCHANGED serial
    BY <1>4 DEF LogRow, Goto, LimitInv
  <2>2. ASSUME serial PROVE Serial'
    <3>1. Serial
      BY <2>2 DEF LimitInv
    <3>2. \A e \in Dispatches : Active(e)' => e = d
      BY <2>1, <3>1 DEF Active, Serial
    <3>3. \A e \in Dispatches : ~ Announcing(e)'
      BY <2>1, <3>2 DEF Announcing, Active
    <3>4. ASSUME NEW u \in Users, NEW x \in Counted(u)', NEW y \in Counted(u)' PROVE x = y
      <4>1. CASE x \in Counted(u) /\ y \in Counted(u)
        BY <3>1, <4>1 DEF Serial
      <4>2. CASE x \notin Counted(u) \/ y \notin Counted(u)
        <5>1. RowAt(d)[2] = u /\ RowAt(d)[3] \notin AlwaysSend
          BY <2>1, <4>2 DEF Counted
        <5>2. Counted(u) = {}
          BY <2>1, <3>1, <5>1 DEF Serial, Announcing
        <5> QED
          BY <2>1, <5>2 DEF Counted
      <4> QED
        BY <4>1, <4>2
    <3> QED
      BY <3>2, <3>3, <3>4 DEF Serial
  <2> QED
    BY <2>1, <2>2 DEF LimitInv
<1>5. ASSUME Age PROVE LimitInv'
  <2>1. /\ UNCHANGED at /\ UNCHANGED todo /\ UNCHANGED log /\ UNCHANGED serial
        /\ old \subseteq old'
    BY <1>5 DEF Age
  <2>2. \A u : Counted(u)' \subseteq Counted(u)
    BY <2>1 DEF Counted
  <2>3. \A d \in Dispatches : Announcing(d)' = Announcing(d) /\ RowAt(d)' = RowAt(d)
                              /\ Active(d)' = Active(d)
    BY <2>1 DEF Announcing, RowAt, Active
  <2>4. Serial => \A d \in Dispatches : Announcing(d)' => Counted(RowAt(d)[2])' = {}
    BY <2>2, <2>3 DEF Serial
  <2> QED
    BY <2>1, <2>2, <2>3, <2>4 DEF LimitInv, Serial
<1>6. ASSUME (\E u \in Users : SetFlags(u)) \/ UNCHANGED alerting PROVE LimitInv'
  <2>1. UNCHANGED at /\ UNCHANGED todo /\ UNCHANGED log /\ UNCHANGED old /\ UNCHANGED serial
    BY <1>6 DEF SetFlags, alerting
  <2> QED
    BY <2>1 DEF LimitInv, Serial, Active, Announcing, RowAt, Counted
<1> QED
  BY <1>1, <1>2, <1>3, <1>4, <1>5, <1>6 DEF AlertNext, Work

\* Dispatches that follow one another send a user one alert of the limited
\* kinds a day, however many emails fail and whatever the alerts are about.
THEOREM RateLimitAlways == AlertSpec => []RateLimit
<1>1. LimitInv => RateLimit
  <2> SUFFICES ASSUME LimitInv, serial, NEW u \in Users PROVE Cardinality(Counted(u)) <= 1
    BY DEF RateLimit, Counted
  <2>1. CASE Counted(u) = {}
    BY <2>1, FS_EmptySet
  <2>2. CASE Counted(u) # {}
    <3>1. PICK x \in Counted(u) : Counted(u) = {x}
      BY <2>2 DEF LimitInv, Serial
    <3> QED
      BY <3>1, FS_Singleton
  <2> QED
    BY <2>1, <2>2
<1> QED
  BY <1>1, InitLimitInv, LimitInvStep, PTL DEF AlertSpec

=============================================================================
