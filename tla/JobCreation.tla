----------------------------- MODULE JobCreation -----------------------------
(***************************************************************************)
(* The last steps of the "new localization" wizard and POST                *)
(* /localization-jobs, for one organization.                               *)
(*                                                                         *)
(*   apps/web/app/projects/new/{wizard,targets,estimate,submit}-step.tsx   *)
(*   apps/api/src/services/jobs.ts   estimate, create                      *)
(*   apps/api/src/idempotency.ts     beginIdempotent, finishIdempotent     *)
(*                                                                         *)
(* Every tab has one Idempotency-Key for as long as it is open.  A request *)
(* is a transaction at READ COMMITTED: each query sees what is committed   *)
(* when it runs, an INSERT of a key another transaction has inserted waits *)
(* for that transaction's end.  The answer to the tab may be lost while    *)
(* the transaction goes on, and the user submits again.                    *)
(***************************************************************************)
EXTENDS JobEstimate, FiniteSets

CONSTANTS
    Tabs,            \* open wizards; a tab's key is named after it
    Requests,        \* <<w, n>>: the n-th request of wizard w (bound)
    Strayers,        \* tabs left through the stepper while a request is under
                     \* way; until it is answered they choose other targets and
                     \* go no further (bound)
    Selections,      \* sets of targets a user may select
    Durations,       \* minutes of the sources the project is given
    Budget,          \* organizations.monthly_budget_cents
    MaxConcurrent,   \* quotas.maxConcurrentTargetJobs
    MaxLost,         \* answers that may be lost (bound)
    None

ASSUME CreationAssumption ==
    /\ \A c \in Selections :
          c # {} /\ c \subseteq Target /\ IsFiniteSet(c) /\ Acceptable(c)
    /\ \A r \in Requests : r[1] \in Tabs /\ \A k \in 1..r[2] - 1 : <<r[1], k>> \in Requests
    /\ Durations \subseteq Nat /\ Budget \in Nat /\ MaxConcurrent \in Nat
    /\ MaxLost \in Nat
    /\ None \notin Requests \cup Tabs
    /\ None \notin [body : Selections \cup {{}}, job : Requests \cup {None}]

VARIABLES
    tab,       \* tab -> [step, choices, asking, estimate, beta, job, and of its
               \* requests: sent (not answered yet), busy (the one its submit
               \* step waits for), strayed (whether one of them was sent from
               \* a step that was left)]
    tx,        \* request -> where its transaction stands
    keys,      \* idempotency_keys: key -> what is committed or reserved
    jobs,      \* localization_jobs, named after the request that made them
    running,   \* target_jobs in a state that counts as running
    minutes,   \* length of the project's source
    lost,      \* answers lost so far
    raced,     \* whether two creations ever read before the other committed
    regained   \* whether a target was ever brought back to work

vars == <<tab, tx, keys, jobs, running, minutes, lost, raced, regained>>

NoTx == [phase |-> "none", key |-> None, body |-> {}]

\* What the user has been shown: the cost of these targets of that source.
Estimate == [choices : Selections, minutes : Durations, ok : BOOLEAN]

Init ==
    /\ tab \in [Tabs -> [step : {"targets"}, choices : {{}}, asking : {None},
                         estimate : {None}, beta : {FALSE}, sent : {{}},
                         busy : {None}, strayed : {FALSE}, job : {None}]]
    /\ tx = [r \in Requests |-> NoTx]
    /\ keys = [w \in Tabs |-> None]
    /\ jobs = [r \in {} |-> None]
    /\ running = {}
    /\ minutes \in Durations
    /\ lost = 0 /\ raced = FALSE /\ regained = FALSE

-----------------------------------------------------------------------------
(* The wizard. *)

At(w, step) == tab[w].step = step

OnlyTabs == UNCHANGED <<tx, keys, jobs, running, minutes, lost, raced, regained>>

\* A box is ticked or cleared; choices are only made on their own step.
Choose(w, c) ==
    /\ At(w, "targets") /\ tab' = [tab EXCEPT ![w].choices = c]
    /\ OnlyTabs

\* EstimateStep asks when it is shown and nothing has been estimated.
Asking(t) == IF t.estimate = None THEN t.choices ELSE None

Shown(t, step) ==
    [t EXCEPT !.step = step, !.asking = IF step = "estimate" THEN Asking(t) ELSE None]

\* A plausible bug: an estimate once made is kept.
ContinueKeepingEstimate(w) ==
    /\ At(w, "targets") /\ tab[w].choices # {}
    /\ tab' = [tab EXCEPT ![w] = Shown(@, "estimate")]
    /\ OnlyTabs

\* TargetsStep.onContinue drops the estimate.  (Bound: a wizard that came back
\* here while a request was under way waits for its answer.)
Continue(w) ==
    /\ At(w, "targets") /\ tab[w].choices # {} /\ tab[w].sent = {}
    /\ tab' = [tab EXCEPT ![w] = Shown([@ EXCEPT !.estimate = None], "estimate")]
    /\ OnlyTabs

\* checkBudget: what was reserved this month, and is never given back.
Reserved == SumFunction([r \in DOMAIN jobs |-> jobs[r].reserved])

Headroom(cents) == Reserved + cents <= Budget

\* POST .../estimate: costs nothing and reserves nothing.
EstimateArrives(w) ==
    /\ tab[w].asking # None
    /\ LET c == tab[w].asking IN
         tab' = [tab EXCEPT ![w].asking = None,
            ![w].estimate = [choices |-> c, minutes |-> minutes,
                             ok |-> Headroom(TotalHigh(minutes, c))]]
    /\ OnlyTabs

\* The request fails.  "Retry" hides the error: the step asks again when it
\* is shown again.
EstimateFails(w) ==
    /\ tab[w].asking # None /\ lost < MaxLost
    /\ lost' = lost + 1
    /\ tab' = [tab EXCEPT ![w].asking = None]
    /\ UNCHANGED <<tx, keys, jobs, running, minutes, raced, regained>>

AcceptBeta(w) ==
    /\ At(w, "estimate") /\ tab[w].estimate # None /\ HasBeta(tab[w].choices)
    /\ ~tab[w].beta
    /\ tab' = [tab EXCEPT ![w].beta = TRUE]
    /\ OnlyTabs

\* canContinue
ToSubmit(w) ==
    /\ At(w, "estimate") /\ tab[w].estimate # None /\ tab[w].estimate.ok
    /\ HasBeta(tab[w].choices) => tab[w].beta
    /\ tab' = [tab EXCEPT ![w] = Shown(@, "submit")]
    /\ OnlyTabs

Before(step) == CASE step = "submit"   -> {"targets", "estimate"}
                  [] step = "estimate" -> {"targets"}
                  [] OTHER             -> {}

\* A step that is left forgets what it was waiting for.
LeaveFor(w, step) ==
    /\ tab' = [tab EXCEPT ![w] = [Shown(@, step) EXCEPT !.busy = None,
                      !.strayed = tab[w].strayed \/ tab[w].sent # {}]]
    /\ OnlyTabs

Back(w) ==
    \/ At(w, "estimate") /\ LeaveFor(w, "targets")
    \/ At(w, "submit") /\ tab[w].busy = None /\ LeaveFor(w, "estimate")

\* The stepper leads to every step that is done, whatever is under way.
StepperSelect(w) ==
    /\ tab[w].sent # {} => w \in Strayers
    /\ \E step \in Before(tab[w].step) : LeaveFor(w, step)

FreeRequest(r) == tx[r].phase = "none" /\ r \notin DOMAIN jobs

JobRequest(w) == tab[w].choices

\* The button works once per answer (`submitting`).
Submit(w) == \E r \in Requests :
    /\ r[1] = w /\ At(w, "submit") /\ tab[w].busy = None
    /\ FreeRequest(r) /\ \A k \in 1..r[2] - 1 : ~FreeRequest(<<w, k>>)
    /\ tab' = [tab EXCEPT ![w].sent = @ \cup {r}, ![w].busy = r]
    /\ tx' = [tx EXCEPT ![r] = [phase |-> "arrived", key |-> w,
                                body |-> JobRequest(w)]]
    /\ UNCHANGED <<keys, jobs, running, minutes, lost, raced, regained>>

\* The tab learns that its request failed; the user may submit again.
Told(w, r) ==
    [tab EXCEPT ![w].sent = @ \ {r}, ![w].busy = IF @ = r THEN None ELSE @,
                ![w].strayed = @ /\ tab[w].sent # {r}]

\* The tab learns of the job and leaves for the project's page, whichever
\* step it is at.
ToldJob(w, r, j) ==
    IF r \in tab[w].sent
    THEN [tab EXCEPT ![w] = [Shown(@, "done") EXCEPT !.sent = {}, !.busy = None, !.job = j]]
    ELSE tab

\* The connection breaks; the server does not notice.
AnswerLost(w) ==
    /\ lost < MaxLost /\ lost' = lost + 1
    /\ \E r \in tab[w].sent : tab' = Told(w, r)
    /\ UNCHANGED <<tx, keys, jobs, running, minutes, raced, regained>>

-----------------------------------------------------------------------------
(* JobService.create. *)

In(r, phase) == tx[r].phase = phase
Goes(r, phase) == tx' = [tx EXCEPT ![r].phase = phase]

\* The request is over; its transaction was rolled back.
Refused(r) ==
    /\ tx' = [tx EXCEPT ![r] = NoTx]
    /\ tab' = Told(tx[r].key, r)

\* A committed key: what it stored answers the same body again.
Known(w) == keys[w] # None /\ keys[w].job # None
\* A key that a transaction has inserted and not committed.
Held(w) == keys[w] # None /\ keys[w].job = None

\* beginIdempotent finds the key: a replay, or a CONFLICT of bodies.
Replay(r) ==
    /\ In(r, "arrived") /\ Known(tx[r].key)
    /\ LET k == keys[tx[r].key] IN
         tab' = IF k.body = tx[r].body THEN ToldJob(tx[r].key, r, k.job)
                                       ELSE Told(tx[r].key, r)
    /\ tx' = [tx EXCEPT ![r] = NoTx]
    /\ UNCHANGED <<keys, jobs, running, minutes, lost, raced, regained>>

\* A plausible bug: a lookup without a reservation; the key is stored with
\* the answer.
LookUpOnly(r) ==
    /\ In(r, "arrived") /\ ~Known(tx[r].key)
    /\ Goes(r, "begun")
    /\ UNCHANGED <<tab, keys, jobs, running, minutes, lost, raced, regained>>

\* It finds none (an uncommitted one is invisible) and inserts the key,
Reserve(r) ==
    /\ In(r, "arrived") /\ ~Known(tx[r].key)
    /\ IF Held(tx[r].key)
       THEN Goes(r, "waits") /\ UNCHANGED keys
       ELSE /\ Goes(r, "begun")
            /\ keys' = [keys EXCEPT ![tx[r].key] = [body |-> tx[r].body, job |-> None]]
    /\ UNCHANGED <<tab, jobs, running, minutes, lost, raced, regained>>

\* A plausible bug: an insert that meets the key does nothing, and goes on.
WaitEndsAnyway(r) ==
    /\ In(r, "waits") /\ ~Held(tx[r].key)
    /\ Goes(r, "begun")
    /\ keys' = [keys EXCEPT ![tx[r].key] = IF @ = None THEN [body |-> tx[r].body, job |-> None] ELSE @]
    /\ UNCHANGED <<tab, jobs, running, minutes, lost, raced, regained>>

\* or waits for the transaction that has, and then inserts it or violates
\* the primary key.
WaitEnds(r) ==
    /\ In(r, "waits") /\ ~Held(tx[r].key)
    /\ IF Known(tx[r].key)
       THEN Refused(r) /\ UNCHANGED keys
       ELSE /\ Goes(r, "begun") /\ UNCHANGED tab
            /\ keys' = [keys EXCEPT ![tx[r].key] = [body |-> tx[r].body, job |-> None]]
    /\ UNCHANGED <<jobs, running, minutes, lost, raced, regained>>

\* finishIdempotent: what will be answered again.
Stored(r) == [keys EXCEPT ![tx[r].key] = [body |-> tx[r].body, job |-> r]]

Freed(r) == [keys EXCEPT ![tx[r].key] = None]

\* Budget and quota are read by two queries of one transaction.
Reading == {r \in Requests : tx[r].phase \in {"in budget", "in quota"}}

HighOf(r) == TotalHigh(minutes, tx[r].body)

\* The reservations, then
ReadBudget(r) ==
    /\ In(r, "begun")
    /\ IF Headroom(HighOf(r))
       THEN /\ Goes(r, "in budget") /\ raced' = (raced \/ Reading # {})
            /\ UNCHANGED <<tab, keys>>
       ELSE Refused(r) /\ keys' = Freed(r) /\ UNCHANGED raced
    /\ UNCHANGED <<jobs, running, minutes, lost, regained>>

\* A plausible bug: only what runs already is compared with the quota.
ReadOldQuota(r) ==
    /\ In(r, "in budget")
    /\ IF Cardinality(running) <= MaxConcurrent
       THEN Goes(r, "in quota") /\ UNCHANGED <<tab, keys>>
       ELSE Refused(r) /\ keys' = Freed(r)
    /\ UNCHANGED <<jobs, running, minutes, lost, raced, regained>>

\* the targets that run already and those of this job.
ReadQuota(r) ==
    /\ In(r, "in budget")
    /\ IF Cardinality(running) + Cardinality(tx[r].body) <= MaxConcurrent
       THEN Goes(r, "in quota") /\ UNCHANGED <<tab, keys>>
       ELSE Refused(r) /\ keys' = Freed(r)
    /\ UNCHANGED <<jobs, running, minutes, lost, raced, regained>>

\* A plausible bug: the low bound is reserved.
CreateAtLow(r) ==
    /\ In(r, "in quota")
    /\ jobs' = [s \in DOMAIN jobs \cup {r} |-> IF s = r
           THEN [key |-> tx[r].key, targets |-> tx[r].body, minutes |-> minutes,
                 reserved |-> TotalLow(minutes, tx[r].body)]
           ELSE jobs[s]]
    /\ running' = running \cup {<<r, Locale(t)>> : t \in tx[r].body}
    /\ keys' = Stored(r)
    /\ tab' = ToldJob(tx[r].key, r, r)
    /\ tx' = [tx EXCEPT ![r] = NoTx]
    /\ UNCHANGED <<minutes, lost, raced, regained>>

\* Job, targets, first stages, project and stored answer; then COMMIT.
Create(r) ==
    /\ In(r, "in quota")
    /\ jobs' = [s \in DOMAIN jobs \cup {r} |-> IF s = r
           THEN [key |-> tx[r].key, targets |-> tx[r].body, minutes |-> minutes,
                 reserved |-> HighOf(r)]
           ELSE jobs[s]]
    /\ running' = running \cup {<<r, Locale(t)>> : t \in tx[r].body}
    /\ keys' = Stored(r)
    /\ tab' = ToldJob(tx[r].key, r, r)
    /\ tx' = [tx EXCEPT ![r] = NoTx]
    /\ UNCHANGED <<minutes, lost, raced, regained>>

-----------------------------------------------------------------------------
(* What else moves while jobs are made. *)

\* A target reaches review, READY or a terminal state (TargetPipeline).
TargetRests(t) ==
    /\ t \in running
    /\ running' = running \ {t}
    /\ UNCHANGED <<tab, tx, keys, jobs, minutes, lost, raced, regained>>

\* Regeneration, or packaging after the last approval: no quota is read.
TargetReturns(t) ==
    /\ t \notin running
    /\ running' = running \cup {t} /\ regained' = TRUE
    /\ UNCHANGED <<tab, tx, keys, jobs, minutes, lost, raced>>

\* The project is given another source between an estimate and a job.  (A
\* source that changes during a transaction is SourceAssets' matter.)
SourceReplaced(m) ==
    /\ m # minutes /\ \A r \in Requests : tx[r].phase \in {"none", "arrived"}
    /\ minutes' = m
    /\ UNCHANGED <<tab, tx, keys, jobs, running, lost, raced, regained>>

TargetJobs == UNION {{<<r, Locale(t)>> : t \in jobs[r].targets} : r \in DOMAIN jobs}

Wizard(w) ==
    \/ \E c \in Selections : Choose(w, c)
    \/ Continue(w) \/ EstimateArrives(w) \/ EstimateFails(w) \/ AcceptBeta(w)
    \/ ToSubmit(w) \/ Back(w) \/ StepperSelect(w) \/ Submit(w) \/ AnswerLost(w)

Transaction(r) ==
    \/ Replay(r) \/ Reserve(r) \/ WaitEnds(r)
    \/ ReadBudget(r) \/ ReadQuota(r) \/ Create(r)

Next ==
    \/ \E w \in Tabs : Wizard(w)
    \/ \E r \in Requests : Transaction(r)
    \/ \E t \in TargetJobs : TargetRests(t) \/ TargetReturns(t)
    \/ \E m \in Durations : SourceReplaced(m)

Spec == Init /\ [][Next]_vars

-----------------------------------------------------------------------------
(* What is checked. *)

TypeOK ==
    /\ tab \in [Tabs -> [step : {"targets", "estimate", "submit", "done"},
                         choices : Selections \cup {{}},
                         asking : Selections \cup {None},
                         estimate : Estimate \cup {None}, beta : BOOLEAN,
                         sent : SUBSET Requests, busy : Requests \cup {None},
                         strayed : BOOLEAN, job : Requests \cup {None}]]
    /\ tx \in [Requests -> [phase : {"none", "arrived", "waits", "begun",
                                     "in budget", "in quota"},
                            key : Tabs \cup {None}, body : Selections \cup {{}}]]
    /\ keys \in [Tabs -> {None} \cup [body : Selections, job : Requests \cup {None}]]
    /\ jobs \in [DOMAIN jobs -> [key : Tabs, targets : Selections,
                                 minutes : Durations, reserved : Nat]]
    /\ running \subseteq TargetJobs
    /\ minutes \in Durations /\ lost \in 0..MaxLost
    /\ raced \in BOOLEAN /\ regained \in BOOLEAN

\* However often a wizard submits, and whatever becomes of the answers: its
\* key makes one job ("the job is never created twice", submit-step.tsx:56).
OneJobPerKey ==
    \A r, s \in DOMAIN jobs : jobs[r].key = jobs[s].key => r = s

\* A wizard that arrives at a job has got the targets it shows, at the price
\* it shows, unless the project's source was replaced after the estimate or the
\* stepper was used while a request was under way.
ChargedAsShown ==
    \A w \in Tabs : At(w, "done") /\ ~tab[w].strayed =>
        LET shown == tab[w].estimate
            job   == jobs[tab[w].job]
        IN  /\ job.key = w /\ job.targets = tab[w].choices
            /\ job.targets = shown.choices
            /\ HasBeta(job.targets) => tab[w].beta
            /\ job.minutes = shown.minutes
                 => job.reserved = TotalHigh(shown.minutes, shown.choices)

\* BR-01: what the jobs of a month may cost stays within the budget, as long
\* as no two creations read it side by side.
WithinBudget ==
    ~raced => SumFunction([r \in DOMAIN jobs |->
                              TotalHigh(jobs[r].minutes, jobs[r].targets)]) <= Budget

\* FR-051, under the same condition and as long as nothing that had come to
\* rest was brought back to work.
WithinQuota == ~raced /\ ~regained => Cardinality(running) <= MaxConcurrent

\* Every submission is answered: a request a wizard waits for has a transaction
\* at work, or one that waits for a key whose holder is at work.
SubmitIsAnswered ==
    \A w \in Tabs : \A r \in tab[w].sent :
        /\ tx[r].phase # "none"
        /\ In(r, "waits") /\ Held(w) =>
              \E s \in Requests : tx[s].key = w /\ tx[s].phase \in {"begun", "in budget", "in quota"}

(***************************************************************************)
(* The transactions amount to a ledger that is written one job at a time.  *)
(***************************************************************************)
Ledger == INSTANCE JobLedger WITH
    Wizards  <- Tabs, Names <- Requests,
    High     <- [m \in Durations |-> [c \in Selections |-> TotalHigh(m, c)]],
    Size     <- [c \in Selections |-> Cardinality(c)],
    jobs     <- [r \in DOMAIN jobs |-> [key     |-> jobs[r].key,
                                       targets |-> jobs[r].targets,
                                       minutes |-> jobs[r].minutes]],
    reserved <- Reserved,
    active   <- Cardinality(running),
    told     <- [w \in Tabs |-> tab[w].job]

\* However requests of one key and of several interleave: each job is made as
\* if alone, under a key no job has, from a budget and a quota that are what
\* the rows add up to at that moment (BR-01, FR-051; once creations have read
\* side by side the limits are not promised), and a wizard is told of one job
\* only, that of its own key.
ImplementsLedger == Ledger!Spec
==============================================================================
