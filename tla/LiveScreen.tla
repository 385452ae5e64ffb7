------------------------------ MODULE LiveScreen ------------------------------
(***************************************************************************)
(* How a browser screen follows the targets of a project.                  *)
(*                                                                         *)
(*   apps/api/src/events/outbox.ts, hub.ts     events and their fan-out    *)
(*   apps/api/src/routes/events.ts             the SSE stream              *)
(*   apps/web/lib/use-project-events.ts        the subscription            *)
(*   apps/web/app/projects/[id]/processing-view.tsx  and                   *)
(*   .../targets/[targetId]/review/review-studio.tsx the two screens       *)
(*                                                                         *)
(* A transaction that moves a target locks its row, draws the event's id   *)
(* (a UUID v7: ids are in the order they are drawn) and notifies when it   *)
(* commits.  Notifications reach the hub in the order of the commits; what *)
(* is written to a connection arrives in order or is lost with it.         *)
(* Answers to a screen's requests arrive in any order.                     *)
(***************************************************************************)
EXTENDS Naturals, Sequences, FiniteSets

CONSTANTS
    Targets,      \* target jobs of the project
    Reviewed,     \* the target the review screen is about
    Screens,      \* kinds of screen: a subset of {"processing", "review"}
    MaxChanges,   \* transactions that move a target (bound)
    MaxEdits,     \* edits of other reviewers (bound)
    MaxFaults,    \* broken connections, outages, failed requests (bound)
    MaxFetches,   \* requests of the screen in flight (bound)
    None,
    Ready         \* the first message of a stream

ASSUME ScreenAssumption ==
    /\ Reviewed \in Targets /\ Screens \subseteq {"processing", "review"}
    /\ {MaxChanges, MaxEdits, MaxFaults, MaxFetches} \subseteq Nat

VARIABLES
    now,       \* what the database says of each target
    open,      \* the event of a target's uncommitted transaction, or None
    drawn,     \* ids drawn so far
    log,       \* domain_events in the order of their commits
    edits,     \* edits made so far
    hub,       \* [listening, queue]: the LISTEN connection of the API
    phase,     \* where the stream's handler stands
    wire,      \* what it has written and the browser has not received
    screen,    \* the kind of screen
    link,      \* connection as the screen knows it
    lastId,    \* what the browser will send as Last-Event-ID
    reconciled,
    received,  \* ids of the events the screen has received
    asked,     \* requests of the screen the API has not read for yet
    answers,   \* answers on their way to it
    shown,     \* what the screen shows of each target
    newest,    \* the newest answer it has shown, or could not get
    error,     \* whether it says that it could not be brought up to date
    faults,
    missed,    \* whether an event has passed a stream that was open
    crossed    \* whether an older answer ever replaced a newer one

db     == <<now, open, drawn, log, edits>>
server == <<hub, phase>>
page   == <<screen, link, lastId, reconciled, received, asked, answers, shown, newest, error>>
flags  == <<faults, missed, crossed>>
vars   == <<db, server, wire, page, flags>>

Event == [id : 1..MaxChanges, target : Targets, state : 1..MaxChanges,
          rests : BOOLEAN]

\* What is not an event is told apart from one.
ASSUME EventAssumption == None \notin Event /\ Ready \notin Event

\* A target: the number of its moves, the version of its texts and issues,
\* and the version at which it last came to rest (NEEDS_REVIEW or READY).
Version == 0..MaxChanges + MaxEdits
Row == [state : 0..MaxChanges, doc : Version, restDoc : Version]

\* An answer: the rows, and which commits the API had seen when it read them.
Answer == [rows : [Targets -> Row], at : Version, has : SUBSET (1..MaxChanges)]

Init ==
    /\ now = [t \in Targets |-> [state |-> 0, doc |-> 0, restDoc |-> 0]]
    /\ open = [t \in Targets |-> None]
    /\ drawn = 0 /\ log = <<>> /\ edits = 0
    /\ hub = [listening |-> TRUE, queue |-> <<>>]
    /\ phase = "down" /\ wire = <<>>
    /\ screen \in Screens
    /\ link = "connecting" /\ lastId = 0 /\ reconciled = FALSE
    /\ received = {}
    /\ asked = 0 /\ answers = {}
    /\ shown = now          \* rendered by the server with the page
    /\ newest = 0 /\ error = FALSE
    /\ faults = 0 /\ missed = FALSE /\ crossed = FALSE

-----------------------------------------------------------------------------
(* The database. *)

\* transitionTarget: the row is locked, the event is inserted.  Whether the
\* target comes to rest matters to the screen that reviews it only.
Begin(t) ==
    /\ open[t] = None /\ drawn < MaxChanges
    /\ drawn' = drawn + 1
    /\ \E rests \in IF screen = "review" /\ t = Reviewed THEN BOOLEAN ELSE {TRUE} :
         open' = [open EXCEPT ![t] =
           [id |-> drawn + 1, target |-> t, state |-> now[t].state + 1,
            rests |-> rests]]
    /\ UNCHANGED <<now, log, edits, server, wire, page, flags>>

\* pg_notify takes effect with the commit; nobody listens during an outage.
Commit(t) ==
    /\ open[t] # None
    /\ LET e == open[t] IN
         /\ log' = Append(log, e)
         /\ now' = [now EXCEPT ![t] =
              [state |-> e.state, doc |-> @.doc + 1,
               restDoc |-> IF e.rests THEN @.doc + 1 ELSE @.restDoc]]
         /\ hub' = IF hub.listening THEN [hub EXCEPT !.queue = Append(@, e)] ELSE hub
    /\ missed' = (missed \/ (~hub.listening /\ phase # "down"))
    /\ open' = [open EXCEPT ![t] = None]
    /\ UNCHANGED <<drawn, edits, phase, wire, page, faults, crossed>>

\* Another reviewer edits a text, closes an issue or approves: no event.
EditElsewhere ==
    /\ edits < MaxEdits /\ open[Reviewed] = None
    /\ edits' = edits + 1
    /\ now' = [now EXCEPT ![Reviewed].doc = @ + 1]
    /\ UNCHANGED <<open, drawn, log, server, wire, page, flags>>

-----------------------------------------------------------------------------
(* The API. *)

HubFails ==
    /\ hub.listening /\ faults < MaxFaults
    /\ hub' = [listening |-> FALSE, queue |-> <<>>]
    /\ missed' = (missed \/ (hub.queue # <<>> /\ phase # "down"))
    /\ faults' = faults + 1
    /\ UNCHANGED <<db, phase, wire, page, crossed>>

\* reconnect, half a second later; nothing is replayed.
HubReconnects ==
    /\ ~hub.listening
    /\ hub' = [hub EXCEPT !.listening = TRUE]
    /\ UNCHANGED <<db, phase, wire, page, flags>>

\* A notification is handed to the streams that have subscribed.
HubDelivers ==
    /\ hub.queue # <<>>
    /\ hub' = [hub EXCEPT !.queue = Tail(@)]
    /\ wire' = IF phase = "on" THEN Append(wire, Head(hub.queue)) ELSE wire
    /\ missed' = (missed \/ phase \in {"ready", "replayed"})
    /\ UNCHANGED <<db, phase, page, faults, crossed>>

\* A plausible bug: a stream is only ever about what comes next.
ConnectUnreplayed ==
    /\ phase = "down"
    /\ wire' = <<Ready>> /\ phase' = "on"
    /\ UNCHANGED <<db, hub, page, flags>>

\* GET /events: "ready" is written first.  Without a Last-Event-ID the handler
\* goes on to subscribe at once.
Connect ==
    /\ phase = "down"
    /\ wire' = <<Ready>>
    /\ phase' = IF lastId = 0 THEN "on" ELSE "ready"
    /\ UNCHANGED <<db, hub, page, flags>>

Later(id) == {log[i] : i \in {k \in DOMAIN log : log[k].id > id}}

\* SELECT ... WHERE id > Last-Event-ID ORDER BY id (its LIMIT 500 is above
\* what the bounds make).
After(id) == {s \in [1..Cardinality(Later(id)) -> Later(id)] :
                /\ \A e \in Later(id) : \E i \in DOMAIN s : s[i] = e
                /\ \A i, k \in DOMAIN s : i < k => s[i].id < s[k].id}

Replay ==
    /\ phase = "ready"
    /\ \E rows \in After(lastId) : wire' = wire \o rows
    /\ phase' = "replayed"
    /\ UNCHANGED <<db, hub, page, flags>>

Subscribe ==
    /\ phase = "replayed"
    /\ phase' = "on"
    /\ UNCHANGED <<db, hub, wire, page, flags>>

-----------------------------------------------------------------------------
(* The browser. *)

Refresh ==
    /\ asked + Cardinality(answers) < MaxFetches
    /\ asked' = asked + 1

ReadyArrives == wire # <<>> /\ wire[1] = Ready
EventArrives == wire # <<>> /\ wire[1] # Ready

\* A plausible bug: the first connection is taken for granted.
LiveUnreconciled ==
    /\ ReadyArrives /\ wire' = Tail(wire)
    /\ link' = "live" /\ reconciled' = TRUE
    /\ UNCHANGED <<db, server, screen, lastId, received, asked, answers, shown, newest, error,
                   flags>>

\* onopen and "ready": polling stops, and the screen is read again, once.
Live ==
    /\ ReadyArrives /\ wire' = Tail(wire)
    /\ link' = "live" /\ reconciled' = TRUE
    /\ IF reconciled THEN UNCHANGED asked ELSE Refresh
    /\ UNCHANGED <<db, server, screen, lastId, received, answers, shown, newest, error,
                   flags>>

\* Which events a screen is interested in, and which make it ask again.
Concerns(e) == screen = "processing" \/ e.target = Reviewed
Refetches(e) == screen = "processing" \/ (e.target = Reviewed /\ e.rests)

\* onEvent: the row is patched at once with what the event says.
Receive ==
    /\ EventArrives /\ wire' = Tail(wire)
    /\ LET e == wire[1] IN
         /\ lastId' = e.id
         /\ received' = received \cup {e.id}
         /\ shown' = IF Concerns(e) THEN [shown EXCEPT ![e.target].state = e.state]
                                    ELSE shown
         /\ IF Refetches(e) THEN Refresh ELSE UNCHANGED asked
    /\ UNCHANGED <<db, server, screen, link, reconciled, answers, newest, error, flags>>

\* The connection breaks; what was written and not received is lost.
Breaks ==
    /\ phase # "down" /\ faults < MaxFaults
    /\ phase' = "down" /\ wire' = <<>>
    /\ link' = "polling" /\ reconciled' = FALSE
    /\ Refresh
    /\ faults' = faults + 1
    /\ UNCHANGED <<db, hub, screen, lastId, received, answers, shown, newest, error,
                   missed, crossed>>

\* Every five seconds while the stream is down.
Poll ==
    /\ link = "polling"
    /\ Refresh
    /\ UNCHANGED <<db, server, wire, screen, link, lastId, reconciled, received,
                   answers, shown, newest, error, flags>>

\* The API reads the rows in one transaction.
Serve ==
    /\ asked > 0 /\ asked' = asked - 1
    /\ answers' = answers \cup {[rows |-> now, at |-> Len(log) + edits,
                                has |-> {log[i].id : i \in DOMAIN log}]}
    /\ UNCHANGED <<db, server, wire, screen, link, lastId, reconciled, received,
                   shown, newest, error, flags>>

\* A request fails: what is shown stays, with an error beside it; it is not
\* asked again unless the screen is polling or an event comes.  (The buttons of
\* a screen clear the error and ask again themselves: see ReviewStudio.)
FetchFails ==
    /\ asked > 0 /\ asked' = asked - 1
    /\ faults < MaxFaults /\ faults' = faults + 1
    /\ error' = TRUE
    /\ newest' = IF newest < Len(log) + edits THEN Len(log) + edits ELSE newest
    /\ UNCHANGED <<db, server, wire, screen, link, lastId, reconciled, received,
                   answers, shown, missed, crossed>>

\* An answer replaces what is shown, whatever came in since it was asked for.
\* The studio asks no more after most events, so an answer from before one
\* that has been shown counts as overtaken as well.
Show(a) ==
    /\ a \in answers
    /\ answers' = answers \ {a}
    /\ shown' = a.rows /\ newest' = a.at /\ error' = FALSE
    /\ crossed' = \/ crossed \/ a.at < newest
                  \/ screen = "review" /\ ~(received \subseteq a.has)
    /\ UNCHANGED <<db, server, wire, screen, link, lastId, reconciled, received,
                   asked, faults, missed>>

-----------------------------------------------------------------------------
Api == HubReconnects \/ HubDelivers \/ Replay \/ Subscribe
Browser == Connect \/ Live \/ Receive \/ Poll

Next ==
    \/ \E t \in Targets : Begin(t) \/ Commit(t)
    \/ EditElsewhere \/ HubFails \/ Breaks
    \/ Api \/ Browser
    \/ Serve \/ FetchFails \/ \E a \in answers : Show(a)

Spec == Init /\ [][Next]_vars

\* The network delivers, EventSource reconnects, transactions end.
FairSpec ==
    /\ Spec
    /\ \A t \in Targets : WF_vars(Commit(t))
    /\ WF_vars(HubReconnects) /\ WF_vars(HubDelivers)
    /\ WF_vars(Replay) /\ WF_vars(Subscribe) /\ WF_vars(Connect)
    /\ SF_vars(Live) /\ SF_vars(Receive)
    /\ WF_vars(Serve) /\ WF_vars(\E a \in answers : Show(a))

-----------------------------------------------------------------------------
(* What is checked. *)

TypeOK ==
    /\ now \in [Targets -> Row] /\ shown \in [Targets -> Row]
    /\ open \in [Targets -> Event \cup {None}]
    /\ log \in Seq(Event) /\ drawn \in 0..MaxChanges /\ edits \in 0..MaxEdits
    /\ hub \in [listening : BOOLEAN, queue : Seq(Event)]
    /\ phase \in {"down", "ready", "replayed", "on"}
    /\ wire \in Seq(Event \cup {Ready})
    /\ screen \in Screens
    /\ link \in {"connecting", "live", "polling"} /\ lastId \in 0..MaxChanges
    /\ reconciled \in BOOLEAN /\ (reconciled => link = "live")
    /\ received \subseteq 1..drawn
    /\ answers \subseteq Answer /\ asked \in Nat
    /\ asked + Cardinality(answers) \in 0..MaxFetches
    /\ newest \in Version /\ faults \in 0..MaxFaults
    /\ {error, missed, crossed} \subseteq BOOLEAN

Ids(s) == {s[i].id : i \in {k \in DOMAIN s : s[k] # Ready}}

\* Ids are drawn before their transactions commit.
Inverted == \E i, k \in DOMAIN log : i < k /\ log[i].id > log[k].id

\* "Last-Event-ID replays missed events" (routes/events.ts:15): once a screen
\* has received an event, later ones reach it, are under way, or will be
\* replayed, across any number of broken connections; unless they passed an
\* open stream (missed) or were committed in another order than their ids.
LogHasNoHoles ==
    ~missed /\ ~Inverted /\ received # {} =>
        LET later == {id \in Ids(log) : \E r \in received : id > r}
        IN  \A id \in later \ (received \cup Ids(wire) \cup Ids(hub.queue)) :
              phase \in {"down", "ready"} /\ id > lastId

\* The state shown, and the texts as of the target's last coming to rest.
\* The texts of the reviewed target matter only to the review screen.
UpToDate ==
    \A t \in IF screen = "review" THEN {Reviewed} ELSE Targets :
        /\ shown[t].state = now[t].state
        /\ shown[t].doc >= now[t].restDoc

\* "so the screen never goes stale" (use-project-events.ts:25): when all is
\* quiet the screen shows what the database says, or says that it could not
\* be read, unless an event passed an open stream or an old answer came after
\* a newer one.  A failed read while the stream is open is not repeated.
ScreenCatchesUp == <>[](missed \/ crossed \/ error \/ UpToDate)
==============================================================================
