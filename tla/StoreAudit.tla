----------------------------- MODULE StoreAudit -----------------------------
(***************************************************************************)
(* Audits of stores, from the crawl to the report: what Google says is     *)
(* added, every check runs over what was fetched, the issues are scored    *)
(* and compared with those of the store's audit before.                    *)
(***************************************************************************)
EXTENDS Crawler

VARIABLES
    report,     \* the saved report of each audit, None without one
    saved       \* audits in the order in which they were saved

vars == <<crawling, report, saved>>

Init ==
    /\ CrawlInit
    /\ report = [c \in Crawls |-> None]
    /\ saved = <<>>

-----------------------------------------------------------------------------
\* runGMCSync: a store that is not connected, or a sync that fails, leaves the
\* audit without Google's data.
Sync(c) ==
    /\ stage[c] = "crawled"
    /\ stage' = [stage EXCEPT ![c] = "synced"]
    /\ \/ seen' = [seen EXCEPT ![c].gmc = Of(c).google # None] /\ lost' = lost
       \/ /\ Of(c).google # None /\ lost[c] < MaxLost
          /\ lost' = [lost EXCEPT ![c] = @ + 1] /\ seen' = seen
    /\ UNCHANGED <<store, fetch, todo, cancelled, report, saved>>

\* The audit of the store that was saved last, if there is one.
Before(c) ==
    LET earlier == {n \in DOMAIN saved : store[saved[n]] = store[c]} IN
    IF earlier = {} THEN {None}
    ELSE {saved[n] : n \in {m \in earlier : \A l \in earlier : l <= m}}

Fresh(before, rows) == IF before = None THEN rows ELSE NewIssues(report[before].rows, rows)

Reported(before, results, rows) ==
    [score |-> Score(results), counts |-> Counts(results), rows |-> rows,
     before |-> before, new |-> Fresh(before, rows)]

\* Detect, score, persist: nothing is saved by an audit that was cancelled.
Report(c) ==
    /\ stage[c] = "synced"
    /\ IF cancelled[c]
       THEN /\ stage' = [stage EXCEPT ![c] = "unsaved"]
            /\ UNCHANGED <<report, saved>>
       ELSE /\ \E baseline \in Baselines(Context(c)), before \in Before(c) :
                  \E results \in {Results(Context(c), baseline)} :
                      report' = [report EXCEPT ![c] = Reported(before, results, Rows(results))]
            /\ stage' = [stage EXCEPT ![c] = "saved"]
            /\ saved' = Append(saved, c)
    /\ UNCHANGED <<store, fetch, todo, seen, lost, cancelled>>

Step(c) == (CrawlStep(c) /\ UNCHANGED <<report, saved>>) \/ Sync(c) \/ Report(c)

Next == \E c \in Crawls : Step(c) \/ (CrawlEvent(c) /\ UNCHANGED <<report, saved>>)

\* Goroutines run, and every fetch ends by the client's timeout.
Fairness == \A c \in Crawls : WF_vars(Step(c))

Spec == Init /\ [][Next]_vars /\ Fairness

=============================================================================
