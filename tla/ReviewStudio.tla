----------------------------- MODULE ReviewStudio -----------------------------
(***************************************************************************)
(* Reviewers at work on one target, each at a screen of their own.         *)
(*                                                                         *)
(*   apps/web/app/projects/[id]/targets/[targetId]/review/review-studio.tsx *)
(*   apps/web/lib/review-issues.ts                  walking through issues *)
(*   apps/api/src/services/review.ts                what the requests do   *)
(*                                                                         *)
(* A screen shows what its last answer said.  Requests carry the segment   *)
(* they are about, never the version that was on the screen, and whatever  *)
(* version is current when they are served is approved or replaced.  The   *)
(* stream of events works (LiveScreen is about its faults).  The pipeline  *)
(* of a regeneration is one step; TargetArtefacts is about what it makes.  *)
(***************************************************************************)
EXTENDS Naturals, Sequences, FiniteSets, FiniteSetsExt

CONSTANTS
    Reviewers,
    Others,        \* reviewers whose screens are not looked at
    OthersAsk,     \* the kinds of requests they make (bound)
    N,             \* segments, in their order
    Critical,      \* segments whose issues are critical ones
    MaxVersions,   \* generations of a translation (bound)
    MaxRegens,     \* regenerations (bound)
    MaxRequests,   \* requests of a screen under way at once (bound)
    MaxReads,      \* refetches of a screen under way at once (bound)
    MaxFaults,     \* calls of the screens that fail (bound)
    None

ASSUME StudioAssumption ==
    /\ N \in Nat \ {0} /\ Critical \subseteq 1..N
    /\ {MaxVersions, MaxRegens, MaxRequests, MaxReads, MaxFaults} \subseteq Nat
    /\ OthersAsk \subseteq {"approve", "approveAll", "regenerate", "save", "accept", "dismiss"}
    /\ None \notin Reviewers \cup Others /\ Reviewers \cap Others = {}

Segments == 1..N

VARIABLES
    state,     \* "review", "working" or "done": NEEDS_REVIEW, a stage, READY and on
    version,   \* the generation of each segment's current translation
    author,    \* who wrote it: a reviewer, or None for the pipeline
    approved,  \* segments with a fresh approval of their current generation
    open,      \* segments with an open issue
    regens, scope,
    screen,    \* [shown, sel, draft, busy] of each reviewer
    seen,      \* the newest generations each screen has ever shown (history)
    dark,      \* segments whose generation was new to the screen when a call of
               \* its own failed, until it is shown (history)
    sent,      \* requests under way: <<kind, segment>>
    reads,     \* refetches the API has not read for yet: <<after a request, after an event>>
    answers,   \* answers on their way: <<whether after a request, what they say>>
    events,    \* events on their way to each screen
    faults

db   == <<state, version, author, approved, open, regens, scope>>
trouble == <<dark, faults>>
page == <<screen, seen, sent, reads, answers, trouble>>
vars == <<db, page, events>>

\* What GET .../review answers.
Said == [state |-> state, version |-> version, open |-> open, approved |-> approved]

-----------------------------------------------------------------------------
(* Walking through the open issues. *)

\* nextOpenIssueIndex: the first flagged segment after `from`, round the end,
\* `from` itself last; 0 when there is none.
NextOpenIssue(flagged, from) ==
    IF flagged = {} THEN 0
    ELSE LET step == Min({k \in 1..N : ((from + k - 1) % N) + 1 \in flagged})
         IN  ((from + step - 1) % N) + 1

\* What the reviewer sees of the selected segment, typed over or not.
Untouched(shown, sel) ==
    [segment |-> sel, version |-> shown.version[sel], typed |-> FALSE]

Init ==
    /\ state = "review"
    /\ version = [s \in Segments |-> 1] /\ author = [s \in Segments |-> None]
    /\ approved = {}
    /\ open \in SUBSET Segments
    /\ regens = 0 /\ scope = {}
    /\ screen = [r \in Reviewers |->
         LET sel == IF open = {} THEN 1 ELSE Min(open)
         IN  [shown |-> Said, sel |-> sel, draft |-> Untouched(Said, sel), busy |-> FALSE]]
    /\ seen = [r \in Reviewers |-> version]
    /\ dark = [r \in Reviewers |-> {}] /\ faults = 0
    /\ sent = [r \in Reviewers |-> {}]
    /\ reads = [r \in Reviewers |-> <<0, 0>>]
    /\ answers = [r \in Reviewers |-> {}]
    /\ events = [r \in Reviewers |-> <<>>]

-----------------------------------------------------------------------------
(* A reviewer. *)

\* A plausible bug: the draft stays in the editor.
SelectKeepingDraft(r, s) ==
    /\ s # screen[r].sel
    /\ screen' = [screen EXCEPT ![r].sel = s]
    /\ UNCHANGED <<db, seen, sent, reads, answers, events, trouble>>

\* The draft is replaced when another segment is selected.
Select(r, s) ==
    /\ s # screen[r].sel
    /\ screen' = [screen EXCEPT ![r].sel = s, ![r].draft = Untouched(screen[r].shown, s)]
    /\ UNCHANGED <<db, seen, sent, reads, answers, events, trouble>>

GoToNextIssue(r) ==
    LET s == NextOpenIssue(screen[r].shown.open, screen[r].sel)
    IN  s # 0 /\ Select(r, s)

\* Every handler sets busy, and asks for the segment it was started on.
Send(r, kind) ==
    LET request == <<kind, screen[r].sel>> IN
    /\ Cardinality(sent[r]) < MaxRequests /\ request \notin sent[r]
    /\ sent' = [sent EXCEPT ![r] = @ \cup {request}]
    /\ screen' = [screen EXCEPT ![r].busy = TRUE]
    /\ UNCHANGED <<db, seen, reads, answers, events, trouble>>

Approve(r)         == Send(r, "approve")
ApproveTarget(r)   == Send(r, "approveAll")
Regenerate(r)      == Send(r, "regenerate")
Resolve(r, how)    == how \in {"accept", "dismiss"} /\ Send(r, how)
\* What is sent is the draft, whichever version it was typed over.
SaveTranslation(r) == Send(r, "save")
AddComment(r)      == Send(r, "comment")

Free(r)    == ~screen[r].busy
Flagged(r) == screen[r].sel \in screen[r].shown.open

\* openIssueProgress: how many open issues come before the selected segment's,
\* and how many there are.
IssueProgress(flagged, sel) ==
    <<IF sel \in flagged THEN Cardinality({s \in flagged : s <= sel}) ELSE 0,
      Cardinality(flagged)>>

\* j, k, n, r and a; none of them waits for an answer.
Keys(r) ==
    LET sel == screen[r].sel IN
    \/ sel < N /\ Select(r, sel + 1)
    \/ sel > 1 /\ Select(r, sel - 1)
    \/ GoToNextIssue(r) \/ Regenerate(r) \/ Approve(r)

\* The header: the whole target, once it shows no open issue.
HeaderButton(r) ==
    /\ Free(r) /\ screen[r].shown.open = {}
    /\ screen[r].shown.state \in {"review", "done"}
    /\ ApproveTarget(r)

\* The bar over the list.
NextIssueButton(r) ==
    /\ IssueProgress(screen[r].shown.open, screen[r].sel)[2] # 0
    /\ GoToNextIssue(r)

\* The list: any segment, and the open issues of the selected one.
ListButtons(r) ==
    \/ \E s \in Segments : Select(r, s)
    \/ /\ Free(r) /\ Flagged(r)
       /\ (\E how \in {"accept", "dismiss"} : Resolve(r, how)) \/ Regenerate(r)

\* The panel of the selected segment.
PanelButtons(r) ==
    /\ Free(r)
    /\ \/ Flagged(r) /\ \E how \in {"accept", "dismiss"} : Resolve(r, how)
       \/ Regenerate(r)
       \/ screen[r].sel \notin screen[r].shown.approved /\ Approve(r)

\* The text under the selected segment: typed over, then saved.
EditForm(r) ==
    \/ /\ ~screen[r].draft.typed
       /\ screen' = [screen EXCEPT ![r].draft.typed = TRUE]
       /\ UNCHANGED <<db, seen, sent, reads, answers, events, trouble>>
    \/ Free(r) /\ screen[r].draft.typed /\ SaveTranslation(r)

\* A comment goes to the segment selected when it is posted.
CommentForm(r) == Free(r) /\ AddComment(r)

-----------------------------------------------------------------------------
(* The API. *)

Announce(what) == events' = [r \in Reviewers |-> Append(events[r], what)]

\* tryReady: every segment approved in its current version, nothing open.
Passes(approvals) == open = {} /\ approvals = Segments

Regenerated(s) ==
    /\ state = "review" /\ regens < MaxRegens /\ version[s] < MaxVersions
    /\ state' = "working" /\ regens' = regens + 1 /\ scope' = {s}
    /\ approved' = approved \ {s} /\ open' = open \ {s}
    /\ Announce("working")
    /\ UNCHANGED <<version, author>>

Saved(r, s) ==
    /\ state = "review" /\ version[s] < MaxVersions
    /\ version' = [version EXCEPT ![s] = @ + 1] /\ author' = [author EXCEPT ![s] = r]
    /\ approved' = approved \ {s}
    /\ UNCHANGED <<state, open, regens, scope, events>>

Dismissable(s, how) == how # "dismiss" \/ s \notin Critical

\* In any state of the target.
Resolved(s, how) ==
    /\ s \in open /\ Dismissable(s, how)
    /\ open' = open \ {s}
    /\ UNCHANGED <<state, version, author, approved, regens, scope, events>>

\* A comment is a row of its own, which nothing else reads.
Commented == UNCHANGED <<db, events>>

\* Segments with an open issue are refused.
Approved(S) ==
    /\ state = "review" /\ S \cap open = {}
    /\ approved' = approved \cup S
    /\ IF Passes(approved') THEN state' = "done" /\ Announce("done")
                            ELSE UNCHANGED <<state, events>>
    /\ UNCHANGED <<version, author, open, regens, scope>>

Does(r, q) ==
    \/ q[1] = "approve" /\ Approved({q[2]})
    \/ q[1] = "approveAll" /\ Approved(Segments)
    \/ q[1] = "regenerate" /\ Regenerated(q[2])
    \/ q[1] = "save" /\ Saved(r, q[2])
    \/ q[1] \in {"accept", "dismiss"} /\ Resolved(q[2], q[1])
    \/ q[1] = "comment" /\ Commented

\* Every request is checked against the rows as they are, not as shown.
Refused(q) ==
    \/ q[1] \in {"approve", "approveAll", "regenerate", "save"} /\ state # "review"
    \/ q[1] \in {"accept", "dismiss"} /\ (q[2] \notin open \/ ~Dismissable(q[2], q[1]))
    \/ q[1] = "approve" /\ q[2] \in open
    \/ q[1] = "approveAll" /\ open # {}

Replied(r, q) == sent' = [sent EXCEPT ![r] = @ \ {q}]

\* Success: the screen asks again, and is busy until the answer is there.
Succeeds(r, q) ==
    /\ q \in sent[r] /\ Does(r, q) /\ Replied(r, q)
    /\ reads[r][1] + reads[r][2] + Cardinality(answers[r]) < MaxReads
    /\ reads' = [reads EXCEPT ![r][1] = @ + 1]
    /\ UNCHANGED <<screen, seen, answers, trouble>>

\* A call of a screen fails.
Fault == faults < MaxFaults /\ faults' = faults + 1

\* The catch and the finally of a handler: the error is shown, nothing is read.
Released(r) == screen' = [screen EXCEPT ![r].busy = FALSE]

\* The request is refused, or it does not get through.
Fails(r, q) ==
    /\ q \in sent[r] /\ Replied(r, q) /\ Released(r)
    /\ \/ Refused(q) /\ UNCHANGED faults
       \/ Fault
    /\ UNCHANGED <<db, seen, dark, reads, answers, events>>

\* What is current and has never been on the screen.
Unseen(r, current) == {s \in Segments : current[s] # seen[r][s]}

\* The request is served, and its answer is lost: a failure to the screen.
Unanswered(r, q) ==
    /\ q \in sent[r] /\ Does(r, q) /\ Replied(r, q) /\ Released(r) /\ Fault
    /\ dark' = [dark EXCEPT ![r] = @ \cup Unseen(r, version')]
    /\ UNCHANGED <<seen, reads, answers>>

\* A request of somebody else is served.
Elsewhere(o) ==
    /\ \E kind \in OthersAsk, s \in Segments : Does(o, <<kind, s>>)
    /\ UNCHANGED page

\* The pipeline comes back to its reviewers with a translation of its own
\* and what its quality control found.
PipelineReturns ==
    /\ state = "working" /\ state' = "review"
    /\ version' = [s \in Segments |-> IF s \in scope THEN version[s] + 1 ELSE version[s]]
    /\ author' = [s \in Segments |-> IF s \in scope THEN None ELSE author[s]]
    /\ scope' = {}
    /\ \E found \in SUBSET scope : open' = open \cup found
    /\ Announce("review")
    /\ UNCHANGED <<approved, regens, page>>

\* GET .../review reads in one transaction.
Serve(r) ==
    /\ \E k \in {1, 2} :
         /\ reads[r][k] > 0
         /\ reads' = [reads EXCEPT ![r][k] = @ - 1]
         /\ answers' = [answers EXCEPT ![r] = @ \cup {<<k = 1, Said>>}]
    /\ UNCHANGED <<db, screen, seen, sent, events, trouble>>

\* refetch fails: the error is shown over what was there, which nothing asks
\* for again.
FetchFails(r) ==
    /\ \E k \in {1, 2} :
         /\ reads[r][k] > 0
         /\ reads' = [reads EXCEPT ![r][k] = @ - 1]
         /\ IF k = 1 THEN Released(r) ELSE UNCHANGED screen
    /\ dark' = [dark EXCEPT ![r] = @ \cup Unseen(r, version)] /\ Fault
    /\ UNCHANGED <<db, seen, sent, answers, events>>

-----------------------------------------------------------------------------
(* The screen. *)

\* The effect on [segment, translation]: a draft lasts as long as the version
\* it is typed over is the one shown.
Redrafted(scr, shown) ==
    IF shown.version[scr.sel] = scr.draft.version THEN scr.draft ELSE Untouched(shown, scr.sel)

\* The newer of two versions of each segment.
Newer(old, new) == [s \in Segments |-> IF new[s] > old[s] THEN new[s] ELSE old[s]]

\* An answer replaces everything shown, though it be older than what is shown.
Show(r, a) ==
    /\ a \in answers[r]
    /\ answers' = [answers EXCEPT ![r] = @ \ {a}]
    /\ screen' = [screen EXCEPT ![r].shown = a[2],
                    ![r].draft = Redrafted(screen[r], a[2]),
                    ![r].busy = IF a[1] THEN FALSE ELSE @]
    /\ seen' = [seen EXCEPT ![r] = Newer(@, a[2].version)]
    /\ dark' = [dark EXCEPT ![r] = {s \in @ : version[s] # seen'[r][s]}]
    /\ UNCHANGED <<db, sent, reads, events, faults>>

\* A plausible bug: the event is all the screen needs.
HearOnly(r) ==
    /\ events[r] # <<>>
    /\ events' = [events EXCEPT ![r] = Tail(@)]
    /\ screen' = [screen EXCEPT ![r].shown.state = Head(events[r])]
    /\ UNCHANGED <<db, seen, sent, answers, reads, trouble>>

\* An event patches the state, and asks again when the target has come to rest.
Hear(r) ==
    /\ events[r] # <<>>
    /\ events' = [events EXCEPT ![r] = Tail(@)]
    /\ screen' = [screen EXCEPT ![r].shown.state = Head(events[r])]
    /\ IF Head(events[r]) = "working" THEN UNCHANGED reads
       ELSE /\ reads[r][1] + reads[r][2] + Cardinality(answers[r]) < MaxReads
            /\ reads' = [reads EXCEPT ![r][2] = @ + 1]
    /\ UNCHANGED <<db, seen, sent, answers, trouble>>

-----------------------------------------------------------------------------
Reviewer(r) ==
    \/ Keys(r) \/ HeaderButton(r) \/ NextIssueButton(r) \/ ListButtons(r)
    \/ PanelButtons(r) \/ EditForm(r) \/ CommentForm(r)

Arrives(r) ==
    \/ \E q \in sent[r] : Succeeds(r, q) \/ Fails(r, q) \/ Unanswered(r, q)
    \/ Serve(r) \/ FetchFails(r) \/ Hear(r)
    \/ \E a \in answers[r] : Show(r, a)

Next ==
    \/ \E r \in Reviewers : Reviewer(r) \/ Arrives(r)
    \/ \E o \in Others : Elsewhere(o)
    \/ PipelineReturns

Spec == Init /\ [][Next]_vars

-----------------------------------------------------------------------------
(* What is checked. *)

\* What an answer may say, and a screen show.
Answer == [state : {"review", "working", "done"}, version : [Segments -> Nat],
           open : SUBSET Segments, approved : SUBSET Segments]

Draft == [segment : Segments, version : Nat, typed : BOOLEAN]

Screen == [shown : Answer, sel : Segments, draft : Draft, busy : BOOLEAN]

Kinds == {"approve", "approveAll", "regenerate", "save", "accept", "dismiss", "comment"}

Request == Kinds \X Segments

Rows ==
    /\ state \in {"review", "working", "done"}
    /\ version \in [Segments -> Nat]
    /\ open \in SUBSET Segments /\ approved \in SUBSET Segments
    /\ scope \in SUBSET Segments

Screens ==
    /\ screen \in [Reviewers -> Screen]
    /\ seen \in [Reviewers -> [Segments -> Nat]] /\ dark \in [Reviewers -> SUBSET Segments]
    /\ sent \in [Reviewers -> SUBSET Request]
    /\ answers \in [Reviewers -> SUBSET (BOOLEAN \X Answer)]
    /\ events \in [Reviewers -> Seq({"review", "working", "done"})]

\* Rows, screens and messages hold what the code can write.
TypeOK == Rows /\ Screens

\* Whatever is fetched, selected or heard while a reviewer types, a text that
\* is saved was typed over the translation of the selected segment that is on
\* the screen.
DraftIsOfTheSelected ==
    \A r \in Reviewers :
        LET scr == screen[r]
        IN  scr.draft.segment = scr.sel /\ scr.draft.version = scr.shown.version[scr.sel]

\* Whether the API knows or has said something the screen has yet to show.
Behind(r) == reads[r] # <<0, 0>> \/ answers[r] # {} \/ events[r] # <<>>

\* "approvals attach to the artefact version they approved"
\* (docs/architecture.md:226), and a reviewer approves what was on the screen:
\* the version has been there, unless another reviewer wrote it, the screen is
\* about to learn of it, or the call that would have shown it has failed.  The
\* code approves in these cases too.  The version need not be on the screen any
\* more: an older answer may have come last.
ApprovedAsSeen ==
    [][\A r \in Reviewers, s \in Segments :
         sent'[r] # sent[r] /\ s \in approved' \ approved =>
           \/ version[s] = seen[r][s]
           \/ author[s] \notin {r, None} \/ Behind(r) \/ s \in dark[r]]_vars
===============================================================================
