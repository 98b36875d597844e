------------------------- MODULE EnrichmentProperties -------------------------
(***************************************************************************)
(* What the enrichment of an audit promises.                               *)
(***************************************************************************)
EXTENDS Enrichment

\* Every issue the budget reaches ends with a fix written for it, or with the
\* fallback, and no other issue has one: neither a marker out of order nor a batch
\* that failed moves a fix to another issue, and only an exhausted budget leaves
\* issues without (Budget.Use, runEnrich, parseFixBatch).
FixFitsIssue ==
    \A a \in Audits : audit[a].stage \in {"summarize", "summary", "done"} =>
        \A i \in 1..MaxIssues :
            IF i <= audit[a].start /\ i <= audit[a].issues
            THEN audit[a].fix[i] \in {Fallback, i} /\ i <= BatchSize * Limit
            ELSE audit[a].fix[i] = None /\ (i <= audit[a].issues => audit[a].used = Limit)

\* An audit that has begun is enriched to its end or begun again: neither the
\* provider nor the settings hold it up (runEnrich and runSummarize are best-effort).
EnrichmentEnds == \A a \in Audits : audit[a].stage = "enrich" ~> audit[a].stage \in {"idle", "done"}

\* What an admin has saved comes to be what every process works with, also one
\* whose reader stored a value after it was replaced: an entry serves for a
\* limited time, however often it is read (Service.Get, Service.Set).
SavedIsUsed == <>[](\A p \in Processes, k \in KeySet : Fresh(p, k) => cache[p][k].value = row[k])

=============================================================================
