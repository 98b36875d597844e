-------------------------- MODULE PlatformSettings --------------------------
(***************************************************************************)
(* platform_settings and the cache each process keeps of it: an admin      *)
(* saves a form key by key, and the readers of another process see what    *)
(* their cache says until it is too old.                                   *)
(*                                                                         *)
(* An entry of a cache is known by its age in ticks: TTL is too old, and   *)
(* stays.  A reader takes the keys in the order in which config asks for   *)
(* them; the row is loaded in one step and the cache filled in another.    *)
(* No environment variable stands in for a row that is missing.            *)
(***************************************************************************)
EXTENDS Naturals, Sequences

CONSTANTS
    Values,     \* what a setting may be
    Readers,    \* requests and audits that read settings
    Processes,
    Home,       \* the process each reader belongs to
    Server,     \* the process of the admin area
    TTL,        \* ticks an entry of the cache serves
    Forms,      \* what a form may set: sequences of a key and a value
    MaxSaves,   \* bound: forms submitted
    None

Keys == <<"ai_base_url", "ai_api_key", "ai_model">>

KeySet == {Keys[i] : i \in DOMAIN Keys}

ASSUME SettingsConstants ==
    /\ Home \in [Readers -> Processes] /\ Server \in Processes
    /\ TTL \in Nat \ {0} /\ MaxSaves \in Nat
    /\ Forms \subseteq Seq(KeySet \X Values)
    /\ None \notin Values

VARIABLES
    row,        \* platform_settings: the value of each key, None without one
    cache,      \* Service.cache of each process
    form,       \* SettingsSave: what it has still to set, and its step
    reader,     \* Service.Get of each reader: its step, the next key, what it holds
    saves       \* history: forms submitted

settings == <<row, cache, form, reader, saves>>

Fresh(p, k) == cache[p][k] # None /\ cache[p][k].age < TTL

Resting == [pc |-> "rest", next |-> 1, held |-> None, config |-> [k \in KeySet |-> None]]

SettingsInit ==
    /\ row \in [KeySet -> Values \cup {None}]
    /\ cache = [p \in Processes |-> [k \in KeySet |-> None]]
    /\ form = [pc |-> "rest", todo |-> <<>>]
    /\ reader = [r \in Readers |-> Resting]
    /\ saves = 0

-----------------------------------------------------------------------------
(* SettingsSave: one Set after another, whose errors are ignored.          *)

Submit ==
    /\ form.pc = "rest" /\ saves < MaxSaves
    /\ \E f \in Forms : form' = [pc |-> "set", todo |-> f]
    /\ saves' = saves + 1
    /\ UNCHANGED <<row, cache, reader>>

\* Set, or a backend that fails,
SetRow(failed) ==
    /\ form.pc = "set"
    /\ IF form.todo = <<>> THEN form' = [form EXCEPT !.pc = "rest"] /\ row' = row /\ ~ failed
       ELSE IF failed THEN form' = [form EXCEPT !.todo = Tail(@)] /\ row' = row
       ELSE /\ row' = [row EXCEPT ![Head(form.todo)[1]] = Head(form.todo)[2]]
            /\ form' = [form EXCEPT !.pc = "drop"]
    /\ UNCHANGED <<cache, reader, saves>>

\* and the entry of this process is dropped; what the log says of it is ignored.
DropEntry ==
    /\ form.pc = "drop"
    /\ cache' = [cache EXCEPT ![Server][Head(form.todo)[1]] = None]
    /\ form' = [pc |-> "set", todo |-> Tail(form.todo)]
    /\ UNCHANGED <<row, reader, saves>>

-----------------------------------------------------------------------------
(* Get.                                                                    *)

Key(r) == Keys[reader[r].next]

\* Get returns v, None for an error, and the reader turns to the next of the
\* keys it asks for.
Returns(r, v, last) ==
    [reader[r] EXCEPT !.config[Key(r)] = v, !.held = None, !.next = @ + 1,
                      !.pc = IF reader[r].next = last THEN "read" ELSE "look"]

\* A reader asks for the first keys up to last.
Ask(r) == reader' = [reader EXCEPT ![r] = [Resting EXCEPT !.pc = "look"]]

\* A hit starts the entry's time again.
BugLook(r, last) ==
    /\ reader[r].pc = "look"
    /\ LET p == Home[r]  k == Key(r) IN
       IF Fresh(p, k)
       THEN /\ reader' = [reader EXCEPT ![r] = Returns(r, cache[p][k].value, last)]
            /\ cache' = [cache EXCEPT ![p][k].age = 0]
       ELSE reader' = [reader EXCEPT ![r].pc = "load"] /\ cache' = cache
    /\ UNCHANGED <<row, form, saves>>

Look(r, last) ==
    /\ reader[r].pc = "look"
    /\ LET p == Home[r]  k == Key(r) IN
       reader' = [reader EXCEPT ![r] =
          IF Fresh(p, k) THEN Returns(r, cache[p][k].value, last) ELSE [@ EXCEPT !.pc = "load"]]
    /\ UNCHANGED <<row, cache, form, saves>>

\* A key without a value is waited for.
BugLoad(r, last, failed) ==
    /\ reader[r].pc = "load"
    /\ reader' = [reader EXCEPT ![r].pc = IF failed \/ row[Key(r)] = None THEN "look" ELSE "fill",
                                ![r].held = row[Key(r)]]
    /\ UNCHANGED <<row, cache, form, saves>>

\* The row, or an error: none is there or the backend fails.
Load(r, last, failed) ==
    /\ reader[r].pc = "load"
    /\ reader' = [reader EXCEPT ![r] =
          IF failed \/ row[Key(r)] = None THEN Returns(r, None, last)
          ELSE [@ EXCEPT !.pc = "fill", !.held = row[Key(r)]]]
    /\ UNCHANGED <<row, cache, form, saves>>

\* What was loaded is stored as of now.
Fill(r, last) ==
    /\ reader[r].pc = "fill"
    /\ cache' = [cache EXCEPT ![Home[r]][Key(r)] = [value |-> reader[r].held, age |-> 0]]
    /\ reader' = [reader EXCEPT ![r] = Returns(r, reader[r].held, last)]
    /\ UNCHANGED <<row, form, saves>>

Get(r, last) == Look(r, last) \/ Load(r, last, FALSE) \/ Fill(r, last)

\* Time passes for the entries of every process.
Age ==
    /\ cache' = [p \in Processes |-> [k \in KeySet |->
                   IF Fresh(p, k) THEN [cache[p][k] EXCEPT !.age = @ + 1] ELSE cache[p][k]]]
    /\ cache' # cache
    /\ UNCHANGED <<row, form, reader, saves>>

=============================================================================
