-------------------------- MODULE EnrichmentProofs --------------------------
(***************************************************************************)
(* Proof that a fix is kept for the issue it was written for and that only *)
(* an exhausted budget leaves issues without, for any number of audits,    *)
(* issues, calls and attempts.                                             *)
(***************************************************************************)
EXTENDS EnrichmentProperties, TLAPS

Entry ==
    [stage : {"idle", "enrich", "fixes", "summarize", "summary", "done"}, issues : 0..MaxIssues,
     start : Nat, used : Nat, attempt : Nat,
     fix : [1..MaxIssues -> {None, Fallback} \cup Nat], summary : {"none", "ai", "fallback"}]

Readings == {"rest", "look", "load", "fill", "read"}

\* The types the steps of an audit need: those of the settings are not theirs.
Shape ==
    /\ audit \in [Audits -> Entry]
    /\ client \in {"mock", "openai"}
    /\ reader = [r \in Readers |-> reader[r]]
    /\ \A r \in Readers :
          "pc" \in DOMAIN reader[r] /\ reader[r].pc \in Readings

\* An audit reads settings only for a call that is under way, and not for the mock.
AsksInCall == \A a \in Audits : reader[a].pc # "rest" => Calling(a) /\ client = "openai"

\* Issues up to start have had their turn, and no others.
FixInTurn ==
    \A a \in Audits, i \in 1..MaxIssues :
        IF i <= audit[a].start /\ i <= audit[a].issues
        THEN audit[a].fix[i] \in {Fallback, i}
        ELSE audit[a].fix[i] = None

\* A batch is paid for before it is asked for, and no more than the budget has.
BatchIsPaid ==
    \A a \in Audits :
        /\ audit[a].used <= Limit
        /\ audit[a].stage \in {"enrich", "summarize"} =>
              audit[a].start = BatchSize * audit[a].used
        /\ audit[a].stage = "fixes" =>
              /\ audit[a].start + BatchSize = BatchSize * audit[a].used
              /\ audit[a].start < audit[a].issues
        /\ audit[a].stage \in {"summarize", "summary", "done"} =>
              /\ audit[a].start <= BatchSize * Limit
              /\ audit[a].start < audit[a].issues => audit[a].used = Limit

EInv == Shape /\ AsksInCall /\ FixInTurn /\ BatchIsPaid

-----------------------------------------------------------------------------
(* What a step does to the readers.                                        *)

\* Only reader r moves on, and stays at work or rests.
Reads(r) ==
    /\ reader' = [s \in Readers |-> reader'[s]]
    /\ \A s \in Readers \ {r} : reader'[s] = reader[s]
    /\ "pc" \in DOMAIN reader'[r] /\ reader'[r].pc \in Readings

LEMMA AskReads ==
    ASSUME Shape, NEW r \in Readers, Ask(r)
    PROVE  Reads(r)
BY DEF Shape, Ask, Reads, Resting, Readings

LEMMA RestReads ==
    ASSUME Shape, NEW r \in Readers, Rest(r)
    PROVE  Reads(r) /\ reader'[r].pc = "rest"
BY DEF Shape, Rest, Reads, Resting, Readings

LEMMA ReturnsReads ==
    ASSUME Shape, NEW r \in Readers, NEW v, NEW last,
           reader' = [reader EXCEPT ![r] = Returns(r, v, last)]
    PROVE  Reads(r)
<1>1. /\ "pc" \in DOMAIN Returns(r, v, last)
      /\ Returns(r, v, last).pc \in {"read", "look"}
  BY DEF Shape, Returns
<1> QED
  BY <1>1 DEF Shape, Reads, Readings

LEMMA GetReads ==
    ASSUME Shape, NEW r \in Readers, NEW last, NEW failed,
           Look(r, last) \/ Load(r, last, failed) \/ Fill(r, last)
    PROVE  Reads(r) /\ reader[r].pc # "rest"
<1>1. reader[r].pc \in {"look", "load", "fill"}
  BY DEF Look, Load, Fill
<1>2. CASE Look(r, last)
  <2>1. CASE Fresh(Home[r], Key(r))
    BY <1>2, <2>1, ReturnsReads DEF Look
  <2>2. CASE ~ Fresh(Home[r], Key(r))
    BY <1>2, <2>2 DEF Look, Shape, Reads, Readings
  <2> QED
    BY <1>1, <2>1, <2>2
<1>3. CASE Load(r, last, failed)
  <2>1. CASE failed \/ row[Key(r)] = None
    BY <1>3, <2>1, ReturnsReads DEF Load
  <2>2. CASE ~ (failed \/ row[Key(r)] = None)
    BY <1>3, <2>2 DEF Load, Shape, Reads, Readings
  <2> QED
    BY <1>1, <2>1, <2>2
<1>4. CASE Fill(r, last)
  BY <1>1, <1>4, ReturnsReads DEF Fill
<1> QED
  BY <1>2, <1>3, <1>4

\* A step that leaves the audits alone keeps what is known of them.
LEMMA ReadingKeeps ==
    ASSUME EInv, NEW r \in Readers, Reads(r), audit' = audit, client' = client,
           r \in Audits => Calling(r) /\ client = "openai"
    PROVE  EInv'
<1>1. Shape'
  BY DEF EInv, Shape, Reads
<1>2. AsksInCall'
  BY EnrichmentConstants DEF EInv, Shape, Reads, AsksInCall, Calling
<1>3. FixInTurn' /\ BatchIsPaid'
  BY DEF EInv, FixInTurn, BatchIsPaid
<1> QED
  BY <1>1, <1>2, <1>3 DEF EInv

LEMMA OthersKeep ==
    ASSUME EInv, UNCHANGED <<audit, client, reader>>
    PROVE  EInv'
BY DEF EInv, Shape, AsksInCall, Calling, FixInTurn, BatchIsPaid

-----------------------------------------------------------------------------
(* The steps of an audit.                                                  *)

\* What is known of one audit's record.
InTurn(e) ==
    \A i \in 1..MaxIssues :
        IF i <= e.start /\ i <= e.issues THEN e.fix[i] \in {Fallback, i} ELSE e.fix[i] = None

Paid(e) ==
    /\ e.used <= Limit
    /\ e.stage \in {"enrich", "summarize"} => e.start = BatchSize * e.used
    /\ e.stage = "fixes" => e.start + BatchSize = BatchSize * e.used /\ e.start < e.issues
    /\ e.stage \in {"summarize", "summary", "done"} =>
          e.start <= BatchSize * Limit /\ (e.start < e.issues => e.used = Limit)

Kept(e) == InTurn(e) /\ Paid(e)

LEMMA StepKeeps ==
    ASSUME EInv, NEW a \in Audits, NEW e \in Entry, Kept(e),
           audit' = [audit EXCEPT ![a] = e], client' = client,
           \/ reader' = reader /\ reader[a].pc = "rest"
           \/ reader' = reader /\ e.stage \in {"fixes", "summary"}
           \/ Reads(a) /\ reader'[a].pc = "rest"
           \/ Reads(a) /\ client = "openai" /\ e.stage \in {"fixes", "summary"}
    PROVE  EInv'
<1>1. audit'[a] = e /\ \A b \in Audits \ {a} : audit'[b] = audit[b]
  BY DEF EInv, Shape
<1>2. Shape'
  BY EnrichmentConstants DEF EInv, Shape, Reads
<1>3. AsksInCall'
  BY <1>1, EnrichmentConstants DEF EInv, Shape, Reads, AsksInCall, Calling
<1>4. FixInTurn'
  BY <1>1 DEF EInv, FixInTurn, Kept, InTurn, Paid
<1>5. BatchIsPaid'
  BY <1>1 DEF EInv, BatchIsPaid, Kept, InTurn, Paid
<1> QED
  BY <1>2, <1>3, <1>4, <1>5 DEF EInv

LEMMA KeptIsKnown ==
    ASSUME EInv, NEW a \in Audits
    PROVE  audit[a] \in Entry /\ Kept(audit[a])
BY DEF EInv, Shape, FixInTurn, BatchIsPaid, Kept, InTurn, Paid

LEMMA PayIsEntry ==
    ASSUME NEW e \in Entry, NEW stage \in {"fixes", "summary"}
    PROVE  LET f == [e EXCEPT !.stage = stage, !.used = @ + 1, !.attempt = 1]
           IN  /\ f \in Entry /\ f.stage = stage /\ f.used = e.used + 1
               /\ f.start = e.start /\ f.issues = e.issues /\ f.fix = e.fix
<1>1. ASSUME NEW u \in Nat
      PROVE  [e EXCEPT !.stage = stage, !.used = u, !.attempt = 1] \in Entry
  BY DEF Entry
<1>2. e.used + 1 \in Nat
  BY DEF Entry
<1>3. [e EXCEPT !.stage = stage, !.used = e.used + 1, !.attempt = 1] \in Entry
  BY <1>1, <1>2
<1> QED
  BY <1>3 DEF Entry

LEMMA IdleIsKept == Idle \in Entry /\ Kept(Idle)
BY EnrichmentConstants DEF Idle, Entry, Kept, InTurn, Paid

LEMMA BeginKeeps ==
    ASSUME EInv, NEW a \in Audits, Begin(a)
    PROVE  EInv'
<1>1. PICK n \in 0..MaxIssues :
          audit' = [audit EXCEPT ![a] = [Idle EXCEPT !.stage = "enrich", !.issues = n]]
  BY DEF Begin
<1> DEFINE e == [Idle EXCEPT !.stage = "enrich", !.issues = n]
<1>2. e \in Entry
  BY EnrichmentConstants DEF Idle, Entry
<1>3. Kept(e)
  BY EnrichmentConstants DEF Idle, Kept, InTurn, Paid
<1>4. reader' = reader /\ client' = client /\ reader[a].pc = "rest"
  BY DEF Begin, settings, EInv, AsksInCall, Calling
<1> QED
  BY <1>1, <1>2, <1>3, <1>4, StepKeeps

LEMMA NextBatchKeeps ==
    ASSUME EInv, NEW a \in Audits, NextBatch(a)
    PROVE  EInv'
<1> DEFINE e == audit[a]
<1>1. e \in Entry /\ Kept(e) /\ e.stage = "enrich" /\ client' = client /\ reader[a].pc = "rest"
  BY KeptIsKnown DEF NextBatch, EInv, AsksInCall, Calling
<1>2. a \in Readers
  BY EnrichmentConstants
<1>3. CASE Enriching(a)
  <2> DEFINE f == Pay(a, "fixes")
  <2>1. e.start < e.issues /\ e.used < Limit
    BY <1>1, <1>3 DEF Enriching, Left, Use, Entry
  <2>2. /\ f \in Entry /\ f.stage = "fixes" /\ f.used = e.used + 1
        /\ f.start = e.start /\ f.issues = e.issues /\ f.fix = e.fix
    BY <1>1, PayIsEntry DEF Pay
  <2>3. e.start + BatchSize = BatchSize * (e.used + 1)
    BY <1>1, EnrichmentConstants DEF Entry, Kept, InTurn, Paid
  <2> HIDE DEF f
  <2>4. Kept(f)
    <3>1. InTurn(f)
      BY <1>1, <2>2 DEF Kept, InTurn
    <3>2. e.used \in Nat /\ Limit \in Nat
      BY <1>1, EnrichmentConstants DEF Entry
    <3>3. Paid(f)
      BY <2>1, <2>2, <2>3, <3>2 DEF Paid
    <3> QED
      BY <3>1, <3>3 DEF Kept
  <2> USE DEF f
  <2>5. reader' = reader \/ (Reads(a) /\ client = "openai")
    BY <1>2, AskReads DEF NextBatch, EInv
  <2> QED
    BY <1>1, <1>3, <2>2, <2>4, <2>5, StepKeeps DEF NextBatch
<1>4. CASE ~ Enriching(a)
  <2> DEFINE f == [e EXCEPT !.stage = "summarize"]
  <2>1. e.start < e.issues => e.used = Limit
    BY <1>1, <1>4, EnrichmentConstants DEF Enriching, Left, Use, Entry, Kept, Paid
  <2>2. /\ f \in Entry /\ f.stage = "summarize" /\ f.used = e.used
        /\ f.start = e.start /\ f.issues = e.issues /\ f.fix = e.fix
    BY <1>1 DEF Entry
  <2>3. BatchSize * e.used <= BatchSize * Limit
    BY <1>1, EnrichmentConstants DEF Entry, Kept, InTurn, Paid
  <2>4. Kept(f)
    BY <1>1, <2>1, <2>2, <2>3 DEF Kept, InTurn, Paid
  <2> QED
    BY <1>1, <1>4, <2>2, <2>4, StepKeeps DEF NextBatch
<1> QED
  BY <1>3, <1>4

LEMMA SummarizeKeeps ==
    ASSUME EInv, NEW a \in Audits, Summarize(a)
    PROVE  EInv'
<1> DEFINE e == audit[a]
<1>1. e \in Entry /\ Kept(e) /\ e.stage = "summarize" /\ client' = client /\ reader[a].pc = "rest"
  BY KeptIsKnown DEF Summarize, EInv, AsksInCall, Calling
<1>2. a \in Readers
  BY EnrichmentConstants
<1>3. CASE Use(a)
  <2> DEFINE f == Pay(a, "summary")
  <2>1. e.used < Limit /\ e.start >= e.issues
    BY <1>1, <1>3, EnrichmentConstants DEF Use, Entry, Kept, Paid
  <2>2. /\ f \in Entry /\ f.stage = "summary" /\ f.used = e.used + 1
        /\ f.start = e.start /\ f.issues = e.issues /\ f.fix = e.fix
    BY <1>1, PayIsEntry DEF Pay
  <2> HIDE DEF f
  <2>3. Kept(f)
    <3>1. InTurn(f)
      BY <1>1, <2>2 DEF Kept, InTurn
    <3>2. e.used \in Nat /\ Limit \in Nat /\ e.start \in Nat /\ e.issues \in Nat
      BY <1>1, EnrichmentConstants DEF Entry
    <3>3. Paid(f)
      BY <1>1, <2>1, <2>2, <3>2 DEF Kept, Paid
    <3> QED
      BY <3>1, <3>3 DEF Kept
  <2> USE DEF f
  <2>4. reader' = reader \/ (Reads(a) /\ client = "openai")
    BY <1>2, AskReads DEF Summarize, EInv
  <2> QED
    BY <1>1, <1>3, <2>2, <2>3, <2>4, StepKeeps DEF Summarize
<1>4. CASE ~ Use(a)
  <2> DEFINE f == [e EXCEPT !.stage = "done", !.summary = "fallback"]
  <2>1. /\ f \in Entry /\ f.stage = "done" /\ f.used = e.used
        /\ f.start = e.start /\ f.issues = e.issues /\ f.fix = e.fix
    BY <1>1 DEF Entry
  <2>2. Kept(f)
    BY <1>1, <2>1 DEF Kept, InTurn, Paid
  <2> QED
    BY <1>1, <1>4, <2>1, <2>2, StepKeeps DEF Summarize
<1> QED
  BY <1>3, <1>4

\* However a call ends, each issue of its batch gets a fix of its own or the
\* fallback.
Fitting == {g \in [1..MaxIssues -> {Fallback} \cup Nat] :
              \A i \in 1..MaxIssues : g[i] \in {Fallback, i}}

EndsWith(a, g, text) ==
    audit' = [audit EXCEPT ![a] =
          IF audit[a].stage = "fixes"
          THEN [audit[a] EXCEPT !.stage = "enrich", !.start = @ + BatchSize,
                                !.fix = [i \in 1..MaxIssues |-> IF i \in BatchOf(a) THEN g[i] ELSE @[i]]]
          ELSE [audit[a] EXCEPT !.stage = "done", !.summary = text]]

LEMMA CallsFit ==
    ASSUME EInv, NEW a \in Audits, Mocked(a) \/ Answered(a) \/ Failed(a)
    PROVE  \E g \in Fitting, text \in {"ai", "fallback"} : EndsWith(a, g, text)
<1>1. audit[a] \in Entry /\ DOMAIN audit[a].fix = 1..MaxIssues
  BY KeptIsKnown DEF Entry
<1>2. CASE Mocked(a)
  <2> DEFINE g == [i \in 1..MaxIssues |-> i]
  <2>1. g \in Fitting
    BY EnrichmentConstants DEF Fitting
  <2>2. EndsWith(a, g, "ai")
    BY <1>1, <1>2 DEF Mocked, Ended, EndsWith
  <2> QED
    BY <2>1, <2>2
<1>3. CASE Answered(a)
  <2>1. PICK markers : Ended(a, LAMBDA i : Parsed(a, markers, i), "ai")
    BY <1>3 DEF Answered, Ended
  <2> DEFINE g == [i \in 1..MaxIssues |-> Parsed(a, markers, i)]
  <2>2. ASSUME NEW i \in 1..MaxIssues PROVE Parsed(a, markers, i) \in {Fallback, i}
    <3>1. audit[a].start \in Nat /\ i \in Nat
      BY <1>1, EnrichmentConstants DEF Entry
    <3>2. audit[a].start + (i - audit[a].start) = i
      BY <3>1
    <3> QED
      BY <3>2 DEF Parsed
  <2>3. 1..MaxIssues \subseteq Nat
    BY EnrichmentConstants
  <2>4. g \in Fitting
    BY <2>2, <2>3 DEF Fitting
  <2>5. EndsWith(a, g, "ai")
    BY <1>1, <2>1 DEF Ended, EndsWith
  <2> QED
    BY <2>4, <2>5
<1>4. CASE Failed(a)
  <2> DEFINE g == [i \in 1..MaxIssues |-> Fallback]
  <2>1. g \in Fitting
    BY EnrichmentConstants DEF Fitting
  <2>2. EndsWith(a, g, "fallback")
    BY <1>1, <1>4 DEF Failed, Ended, EndsWith
  <2> QED
    BY <2>1, <2>2
<1> QED
  BY <1>2, <1>3, <1>4

LEMMA EndKeeps ==
    ASSUME EInv, NEW a \in Audits, Calling(a), client' = client,
           NEW g \in Fitting, NEW text \in {"ai", "fallback"}, EndsWith(a, g, text),
           \/ reader' = reader /\ reader[a].pc = "rest"
           \/ Reads(a) /\ reader'[a].pc = "rest"
    PROVE  EInv'
<1> DEFINE e == audit[a]
<1>1. e \in Entry /\ Kept(e) /\ e.stage \in {"fixes", "summary"}
  BY KeptIsKnown DEF Calling
<1>2. CASE e.stage = "fixes"
  <2> DEFINE h == [i \in 1..MaxIssues |-> IF i \in BatchOf(a) THEN g[i] ELSE e.fix[i]]
             f == [e EXCEPT !.stage = "enrich", !.start = @ + BatchSize, !.fix = h]
  <2>1. h \in [1..MaxIssues -> {None, Fallback} \cup Nat]
    BY <1>1 DEF Fitting, Entry
  <2>2. /\ f \in Entry /\ f.stage = "enrich" /\ f.used = e.used /\ f.fix = h
        /\ f.start = e.start + BatchSize /\ f.issues = e.issues
    <3>1. ASSUME NEW n \in Nat
          PROVE  [e EXCEPT !.stage = "enrich", !.start = n, !.fix = h] \in Entry
      BY <1>1, <2>1 DEF Entry
    <3>2. e.start + BatchSize \in Nat
      BY <1>1, EnrichmentConstants DEF Entry
    <3>3. f \in Entry
      BY <3>1, <3>2
    <3> QED
      BY <1>1, <3>3 DEF Entry
  <2> HIDE DEF f
  <2>3. ASSUME NEW i \in 1..MaxIssues
        PROVE  IF i <= f.start /\ i <= f.issues THEN h[i] \in {Fallback, i} ELSE h[i] = None
    <3>1. i \in BatchOf(a) <=> e.start < i /\ i <= f.start /\ i <= f.issues
      <4>1. /\ e.start \in Nat /\ e.issues \in Nat /\ BatchSize \in Nat
            /\ f.start = e.start + BatchSize /\ f.issues = e.issues
        BY <1>1, <2>2, EnrichmentConstants DEF Entry
      <4>2. CASE e.issues - e.start < BatchSize
        BY <4>1, <4>2 DEF BatchOf, Left
      <4>3. CASE ~ (e.issues - e.start < BatchSize)
        BY <4>1, <4>3 DEF BatchOf, Left
      <4> QED
        BY <4>2, <4>3
    <3>2. CASE i \in BatchOf(a)
      BY <3>1, <3>2 DEF Fitting
    <3>3. CASE i \notin BatchOf(a)
      <4>1. i <= f.start /\ i <= f.issues <=> i <= e.start /\ i <= e.issues
        <5>1. /\ e.start \in Nat /\ e.issues \in Nat /\ BatchSize \in Nat /\ i \in Nat
              /\ f.start = e.start + BatchSize /\ f.issues = e.issues
          BY <1>1, <2>2, EnrichmentConstants DEF Entry
        <5> QED
          BY <3>1, <3>3, <5>1
      <4>2. h[i] = e.fix[i]
        BY <3>3
      <4> QED
        BY <1>1, <4>1, <4>2 DEF Kept, InTurn, Paid
    <3> QED
      BY <3>2, <3>3
  <2>4. Kept(f)
    BY <1>1, <1>2, <2>2, <2>3 DEF Kept, InTurn, Paid
  <2>5. audit' = [audit EXCEPT ![a] = f]
    BY <1>2 DEF EndsWith, f
  <2> QED
    BY <2>2, <2>4, <2>5, StepKeeps
<1>3. CASE e.stage = "summary"
  <2> DEFINE f == [e EXCEPT !.stage = "done", !.summary = text]
  <2>1. /\ f \in Entry /\ f.stage = "done" /\ f.used = e.used
        /\ f.start = e.start /\ f.issues = e.issues /\ f.fix = e.fix
    BY <1>1 DEF Entry
  <2>2. Kept(f)
    BY <1>1, <1>3, <2>1 DEF Kept, InTurn, Paid
  <2>3. audit' = [audit EXCEPT ![a] = f]
    BY <1>3 DEF EndsWith
  <2> QED
    BY <2>1, <2>2, <2>3, StepKeeps
<1> QED
  BY <1>1, <1>2, <1>3

LEMMA WorkKeeps ==
    ASSUME EInv, NEW a \in Audits, Work(a)
    PROVE  EInv'
<1>1. a \in Readers
  BY EnrichmentConstants
<1>2. CASE Mocked(a)
  <2>1. /\ Calling(a) /\ client' = client /\ reader' = reader
        /\ reader[a].pc = "rest"
    BY <1>2 DEF Mocked, settings, EInv, AsksInCall
  <2> QED
    BY <1>2, <2>1, CallsFit, EndKeeps
<1>3. CASE Configure(a)
  <2>1. Reads(a) /\ reader[a].pc # "rest"
    BY <1>1, <1>3, GetReads DEF Configure, Get, EInv
  <2> QED
    BY <1>1, <1>3, <2>1, ReadingKeeps DEF Configure, EInv, AsksInCall
<1>4. CASE Unconfigured(a) \/ Complete(a)
  <2>1. Calling(a) /\ client' = client
    BY <1>4 DEF Unconfigured, Complete, EInv, AsksInCall
  <2>2. CASE (Failed(a) \/ Answered(a)) /\ Rest(a)
    <3>1. Reads(a) /\ reader'[a].pc = "rest"
      BY <1>1, <2>2, RestReads DEF EInv
    <3> QED
      BY <2>1, <2>2, <3>1, CallsFit, EndKeeps
  <2>3. CASE Retry(a) /\ reader' = reader
    <3> DEFINE f == [audit[a] EXCEPT !.attempt = @ + 1]
    <3>1. audit[a] \in Entry /\ Kept(audit[a])
      BY KeptIsKnown
    <3>2. /\ f \in Entry /\ f.stage = audit[a].stage /\ f.used = audit[a].used
          /\ f.start = audit[a].start /\ f.issues = audit[a].issues /\ f.fix = audit[a].fix
      BY <3>1 DEF Entry
    <3>3. Kept(f)
      BY <3>1, <3>2 DEF Kept, InTurn, Paid
    <3>4. audit' = [audit EXCEPT ![a] = f]
      BY <2>3 DEF Retry
    <3> QED
      BY <2>1, <2>3, <3>2, <3>3, <3>4, StepKeeps DEF Calling
  <2> QED
    BY <1>4, <2>2, <2>3 DEF Unconfigured, Complete
<1> QED
  BY <1>2, <1>3, <1>4, NextBatchKeeps, SummarizeKeeps DEF Work

LEMMA RestartKeeps ==
    ASSUME EInv, Restart
    PROVE  EInv'
<1>1. /\ audit' = [a \in Audits |-> Idle]
      /\ reader' = [r \in Readers |-> IF r \in Audits THEN Resting ELSE reader[r]]
      /\ client' \in {"mock", "openai"}
  BY DEF Restart, ClientFor
<1>2. Shape'
  BY <1>1, IdleIsKept DEF EInv, Shape, Resting, Readings
<1>3. AsksInCall'
  BY <1>1, EnrichmentConstants DEF AsksInCall, Resting
<1>4. \A a \in Audits : audit'[a] = Idle
  BY <1>1
<1>5. FixInTurn' /\ BatchIsPaid'
  BY <1>4, IdleIsKept DEF FixInTurn, BatchIsPaid, Kept, InTurn, Paid
<1> QED
  BY <1>2, <1>3, <1>5 DEF EInv

LEMMA InitEInv == Init => EInv
<1> SUFFICES ASSUME Init PROVE EInv
  OBVIOUS
<1>1. Shape
  BY IdleIsKept DEF Init, SettingsInit, Shape, Resting, Readings, ClientFor
<1>2. AsksInCall
  BY EnrichmentConstants DEF Init, SettingsInit, AsksInCall, Resting
<1>3. \A a \in Audits : audit[a] = Idle
  BY DEF Init
<1>4. FixInTurn /\ BatchIsPaid
  BY <1>3, IdleIsKept DEF FixInTurn, BatchIsPaid, Kept, InTurn, Paid
<1> QED
  BY <1>1, <1>2, <1>4 DEF EInv

LEMMA EInvStep == EInv /\ [Next]_vars => EInv'
<1> SUFFICES ASSUME EInv, [Next]_vars PROVE EInv'
  OBVIOUS
<1>1. ASSUME NEW a \in Audits, Begin(a) \/ Work(a) PROVE EInv'
  BY <1>1, BeginKeeps, WorkKeeps
<1>2. ASSUME NEW r \in Testers, Test(r) \/ Tested(r) PROVE EInv'
  <2>1. r \in Readers /\ r \notin Audits
    BY DEF Testers
  <2>2. Reads(r) /\ audit' = audit /\ client' = client
    BY <1>2, <2>1, AskReads, GetReads DEF Test, Tested, Get, EInv
  <2> QED
    BY <2>1, <2>2, ReadingKeeps
<1>3. CASE Submit /\ UNCHANGED <<audit, client, faults>>
  BY <1>3, OthersKeep DEF Submit
<1>4. CASE Save \/ Tick
  BY <1>4, OthersKeep DEF Save, Tick, SetRow, DropEntry, Age
<1>5. CASE SettingFails
  <2>1. CASE SetRow(TRUE)
    BY <1>5, <2>1, OthersKeep DEF SettingFails, SetRow
  <2>2. ASSUME NEW r \in Readers, NEW last, Load(r, last, TRUE) PROVE EInv'
    <3>1. Reads(r) /\ reader[r].pc # "rest"
      BY <2>2, GetReads DEF EInv
    <3> QED
      BY <1>5, <3>1, ReadingKeeps DEF SettingFails, EInv, AsksInCall
  <2> QED
    BY <1>5, <2>1, <2>2 DEF SettingFails
<1>6. CASE Restart
  BY <1>6, RestartKeeps
<1>7. CASE UNCHANGED vars
  BY <1>7, OthersKeep DEF vars, settings
<1> QED
  BY <1>1, <1>2, <1>3, <1>4, <1>5, <1>6, <1>7 DEF Next

\* However calls fail, are retried or answered with markers out of order, a fix
\* stays with its issue, and an issue is left without only by a spent budget.
THEOREM FixFitsIssueAlways == Spec => []FixFitsIssue
<1>1. Spec => []EInv
  BY InitEInv, EInvStep, PTL DEF Spec
<1>2. EInv => FixFitsIssue
  <2> SUFFICES ASSUME EInv, NEW a \in Audits, NEW i \in 1..MaxIssues,
                      audit[a].stage \in {"summarize", "summary", "done"}
               PROVE  IF i <= audit[a].start /\ i <= audit[a].issues
                      THEN audit[a].fix[i] \in {Fallback, i} /\ i <= BatchSize * Limit
                      ELSE audit[a].fix[i] = None /\ (i <= audit[a].issues => audit[a].used = Limit)
    BY DEF FixFitsIssue
  <2>1. audit[a] \in Entry /\ Kept(audit[a])
    BY KeptIsKnown
  <2> QED
    BY <2>1, EnrichmentConstants DEF Entry, Kept, InTurn, Paid
<1> QED
  BY <1>1, <1>2, PTL

=============================================================================
