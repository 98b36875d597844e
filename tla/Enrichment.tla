----------------------------- MODULE Enrichment -----------------------------
(***************************************************************************)
(* The stages of an audit that ask a language model: fixes for the issues  *)
(* in batches, then a summary, each call paid for from the audit's budget, *)
(* configured from platform_settings and tried again when the provider is  *)
(* busy.  Whatever goes wrong, the audit falls back and goes on.           *)
(*                                                                         *)
(* Several audits of one worker share its client and its cache of          *)
(* settings.  A fix is known by the issue it was written for.              *)
(***************************************************************************)
EXTENDS PlatformSettings

CONSTANTS
    Fallback,       \* the sentence the code writes for want of a fix
    Audits,         \* audits under way at a time in a worker
    Worker,
    MaxIssues,      \* bound: issues of an audit that a fix can be asked for
    BatchSize,
    Limit,          \* calls an audit may make
    MaxAttempts,    \* requests a call may make
    MaxFaults       \* bound: failing statements, restarts

ASSUME EnrichmentConstants ==
    /\ Audits \subseteq Readers /\ Worker \in Processes
    /\ \A a \in Audits : Home[a] = Worker
    /\ {MaxIssues, Limit, MaxFaults} \subseteq Nat /\ {BatchSize, MaxAttempts} \subseteq Nat \ {0}

VARIABLES
    audit,      \* each audit: its stage, its budget, what it has so far
    client,     \* the worker's client, chosen when it started
    faults      \* history

vars == <<settings, audit, client, faults>>

Idle == [stage |-> "idle", issues |-> 0, start |-> 0, used |-> 0, attempt |-> 0,
         fix |-> [i \in 1..MaxIssues |-> None], summary |-> "none"]

\* main picks the client: the mock when there is no key, or it cannot be read.
ClientFor(failed) == IF failed \/ row["ai_api_key"] = None THEN "mock" ELSE "openai"

Keyed(kind) == [[k \in KeySet |-> None] EXCEPT !["ai_api_key"] =
                  IF kind = "mock" THEN None ELSE [value |-> row["ai_api_key"], age |-> 0]]

Init ==
    /\ SettingsInit
    /\ audit = [a \in Audits |-> Idle]
    /\ client = ClientFor(FALSE)
    /\ faults = 0

Fault == faults < MaxFaults /\ faults' = faults + 1
Fine  == faults' = faults

Left(a)    == audit[a].issues - audit[a].start
BatchOf(a) == audit[a].start + 1 .. audit[a].start + (IF Left(a) < BatchSize THEN Left(a) ELSE BatchSize)

Begin(a) ==
    /\ audit[a].stage \in {"idle", "done"}
    /\ \E n \in 0..MaxIssues : audit' = [audit EXCEPT ![a] = [Idle EXCEPT !.stage = "enrich", !.issues = n]]
    /\ UNCHANGED <<settings, client, faults>>

-----------------------------------------------------------------------------
(* runEnrich and runSummarize.                                             *)

\* Use, with a limit that is passed by one.
BugUse(a) == audit[a].used <= Limit

\* Budget.Use refuses a call when the limit is reached.
Use(a) == audit[a].used < Limit

Pay(a, stage) == [audit[a] EXCEPT !.stage = stage, !.used = @ + 1, !.attempt = 1]

Enriching(a) == Left(a) > 0 /\ Use(a)

NextBatch(a) ==
    /\ audit[a].stage = "enrich"
    /\ audit' = [audit EXCEPT ![a] = IF Enriching(a) THEN Pay(a, "fixes") ELSE [@ EXCEPT !.stage = "summarize"]]
    /\ IF Enriching(a) /\ client = "openai" THEN Ask(a) ELSE UNCHANGED reader
    /\ UNCHANGED <<row, cache, form, saves, client, faults>>

Summarize(a) ==
    /\ audit[a].stage = "summarize"
    /\ audit' = [audit EXCEPT ![a] = IF Use(a) THEN Pay(a, "summary")
                                     ELSE [@ EXCEPT !.stage = "done", !.summary = "fallback"]]
    /\ IF Use(a) /\ client = "openai" THEN Ask(a) ELSE UNCHANGED reader
    /\ UNCHANGED <<row, cache, form, saves, client, faults>>

\* parseFixBatch by the wrong offset.
BugParsed(a, markers, i) ==
    LET n == i - audit[a].start IN IF n - 1 \in markers THEN i - 1 ELSE Fallback

\* parseFixBatch: the text behind marker N is for the batch's issue N; an issue
\* without one falls back, and a marker beyond the batch is ignored.
Parsed(a, markers, i) ==
    LET n == i - audit[a].start IN IF n \in markers THEN audit[a].start + n ELSE Fallback

\* A call that has ended leaves fixes or a summary, or the fallback for them.
Ended(a, fixes(_), text) ==
    audit' = [audit EXCEPT ![a] =
          IF audit[a].stage = "fixes"
          THEN [audit[a] EXCEPT !.stage = "enrich", !.start = @ + BatchSize,
                                !.fix = [i \in 1..MaxIssues |-> IF i \in BatchOf(a) THEN fixes(i) ELSE @[i]]]
          ELSE [audit[a] EXCEPT !.stage = "done", !.summary = text]]

Calling(a) == audit[a].stage \in {"fixes", "summary"}

Answered(a) ==
    \E markers \in SUBSET (0..BatchSize + 1) :
        /\ audit[a].stage = "summary" => markers = {}
        /\ Ended(a, LAMBDA i : Parsed(a, markers, i), "ai")

Failed(a) == Ended(a, LAMBDA i : Fallback, "fallback")

\* The mock answers at once.
Mocked(a) ==
    /\ client = "mock" /\ Calling(a)
    /\ Ended(a, LAMBDA i : i, "ai")
    /\ UNCHANGED <<settings, client, faults>>

-----------------------------------------------------------------------------
(* OpenAIClient.                                                           *)

\* config: the three keys one after another.
Configure(a) ==
    /\ Get(a, Len(Keys))
    /\ UNCHANGED <<audit, client, faults>>

Configured(a) == \A k \in KeySet : reader[a].config[k] # None

Rest(a) == reader' = [reader EXCEPT ![a] = Resting]

\* ErrNoConfig, before any request.
Unconfigured(a) ==
    /\ reader[a].pc = "read" /\ ~ Configured(a)
    /\ Failed(a) /\ Rest(a)
    /\ UNCHANGED <<row, cache, form, saves, client, faults>>

\* 429, 5xx or no answer, while there are attempts left.
Retry(a) == audit[a].attempt < MaxAttempts /\ audit' = [audit EXCEPT ![a].attempt = @ + 1]

\* complete: a request is answered, tried again, or the call has failed: it was
\* refused, unreadable, cut off by the audit's context, or the last attempt.
Complete(a) ==
    /\ reader[a].pc = "read" /\ Configured(a)
    /\ \/ Answered(a) /\ Rest(a)
       \/ Retry(a) /\ UNCHANGED reader
       \/ Failed(a) /\ Rest(a)
    /\ UNCHANGED <<row, cache, form, saves, client, faults>>

-----------------------------------------------------------------------------
(* The admin area reads one setting to test the connection.                *)

Testers == Readers \ Audits

Test(r) ==
    /\ reader[r].pc \in {"rest", "read"}
    /\ Ask(r)
    /\ UNCHANGED <<row, cache, form, saves, audit, client, faults>>

Tested(r) == Get(r, 1) /\ UNCHANGED <<audit, client, faults>>

\* A statement of the settings fails.
SettingFails ==
    /\ Fault
    /\ SetRow(TRUE) \/ \E r \in Readers : Load(r, IF r \in Audits THEN Len(Keys) ELSE 1, TRUE)
    /\ UNCHANGED <<audit, client>>

\* The worker starts anew; its audits are begun again by the queue.
Restart ==
    /\ Fault
    /\ \E failed \in BOOLEAN :
          /\ client' = ClientFor(failed)
          /\ cache' = [cache EXCEPT ![Worker] = Keyed(client')]
    /\ audit' = [a \in Audits |-> Idle]
    /\ reader' = [r \in Readers |-> IF r \in Audits THEN Resting ELSE reader[r]]
    /\ UNCHANGED <<row, form, saves>>

Save == (SetRow(FALSE) \/ DropEntry) /\ UNCHANGED <<audit, client, faults>>

Tick == Age /\ UNCHANGED <<audit, client, faults>>

-----------------------------------------------------------------------------
Work(a) ==
    \/ NextBatch(a) \/ Summarize(a)
    \/ Mocked(a) \/ Configure(a) \/ Unconfigured(a) \/ Complete(a)

Next ==
    \/ \E a \in Audits : Begin(a) \/ Work(a)
    \/ \E r \in Testers : Test(r) \/ Tested(r)
    \/ Submit /\ UNCHANGED <<audit, client, faults>>
    \/ Save \/ Tick
    \/ SettingFails \/ Restart

\* Goroutines run, every request ends by the client's timeout, a form is saved
\* to its end, and time passes.
Fairness ==
    /\ \A a \in Audits : WF_vars(Work(a))
    /\ \A r \in Testers : WF_vars(Tested(r))
    /\ WF_vars(Save) /\ WF_vars(Tick)

Spec == Init /\ [][Next]_vars /\ Fairness

=============================================================================
