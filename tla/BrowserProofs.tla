---------------------------- MODULE BrowserProofs ----------------------------
(***************************************************************************)
(* Proofs about what runs in a browser, in three parts.                    *)
(*                                                                         *)
(*   ReviewStudio, for any reviewers, segments and bounds: what a reviewer *)
(*     types belongs to the segment and the version that are on the        *)
(*     screen, and what is approved has been on it.                        *)
(*   Sessions, for any users, organizations, tabs and instances of the     *)
(*     API, however tokens expire, keys rotate and calls fail.             *)
(*   LiveScreen, for any number of targets, changes, edits and faults:     *)
(*     what a stream does not lose.                                        *)
(*                                                                         *)
(* The second and the third are about instances, whose assumptions are the *)
(* hypotheses of their theorems.  An instance shares names with the studio *)
(* (open, screen, faults), never a behaviour: its specification says all   *)
(* that is known of them.                                                  *)
(***************************************************************************)
EXTENDS ReviewStudio, WellFoundedInduction, FiniteSetTheorems, TLAPS

Inv == Rows /\ Screens /\ DraftIsOfTheSelected

LEMMA Least ==
    ASSUME NEW T \in SUBSET Nat, T # {}  PROVE \E x \in T : \A y \in T : x <= y
<1> DEFINE R == OpToRel(<, Nat)
<1>1. IsWellFoundedOn(R, Nat)
  BY NatLessThanWellFounded
<1>2. PICK x \in T : \A y \in T : <<y, x>> \notin R
  BY <1>1, WFMin
<1>3. \A y \in T : y < x => <<y, x>> \in R
  BY DEF OpToRel
<1>4. \A y \in T : ~(y < x)
  BY <1>2, <1>3
<1> HIDE DEF R
<1> QED  BY <1>4

LEMMA MinIsThere == ASSUME NEW T \in SUBSET Nat, T # {}  PROVE Min(T) \in T
BY Least DEF Min

\* Going on leads to a segment, when it leads anywhere.
LEMMA NextIsSegment ==
    ASSUME NEW flagged \in SUBSET Segments, NEW from \in Segments,
           NextOpenIssue(flagged, from) # 0
    PROVE  NextOpenIssue(flagged, from) \in Segments
<1>1. N \in Nat \ {0} /\ from \in 1..N /\ flagged \subseteq 1..N /\ flagged # {}
  BY StudioAssumption DEF Segments, NextOpenIssue
<1> DEFINE reach == {k \in 1..N : ((from + k - 1) % N) + 1 \in flagged}
           step == Min(reach)
<1>2. reach # {}
  <2>1. PICK s \in flagged : TRUE
    BY <1>1
  <2>2. CASE s > from
    <3>1. s - from \in 1..N /\ s - 1 \in 0..N - 1
      BY <1>1, <2>1, <2>2
    <3>2. (s - 1) % N = s - 1
      BY <1>1, <3>1
    <3>3. (from + (s - from) - 1) = s - 1 /\ (s - 1) + 1 = s
      BY <1>1, <2>1
    <3>4. s - from \in reach
      BY <2>1, <3>1, <3>2, <3>3
    <3> QED  BY <3>4
  <2>3. CASE s <= from
    <3>1. s - from + N \in 1..N /\ s - 1 \in 0..N - 1
      BY <1>1, <2>1, <2>3
    <3>2. (s - 1 + N) % N = s - 1
      BY <1>1, <3>1
    <3>3. (from + (s - from + N) - 1) = s - 1 + N /\ (s - 1) + 1 = s
      BY <1>1, <2>1
    <3>4. s - from + N \in reach
      BY <2>1, <3>1, <3>2, <3>3
    <3> QED  BY <3>4
  <2> QED  BY <1>1, <2>1, <2>2, <2>3
<1>3. step \in 1..N
  BY <1>2, MinIsThere
<1> HIDE DEF step
<1>4. (from + step - 1) % N \in 0..N - 1
  BY <1>1, <1>3
<1> QED  BY <1>1, <1>4 DEF NextOpenIssue, Segments, step

LEMMA SaidTypes == ASSUME Rows  PROVE Said \in Answer
BY DEF Rows, Said, Answer

\* A draft that starts over is of the segment it is started for.
LEMMA Fresh ==
    ASSUME NEW shown \in Answer, NEW s \in Segments
    PROVE  /\ Untouched(shown, s) \in Draft
           /\ Untouched(shown, s).segment = s
           /\ Untouched(shown, s).version = shown.version[s]
BY DEF Untouched, Answer, Draft

LEMMA InitInv == Init => Inv
<1> SUFFICES ASSUME Init  PROVE Inv
  OBVIOUS
<1>1. Rows
  BY DEF Init, Rows
<1> DEFINE first == IF open = {} THEN 1 ELSE Min(open)
<1>2. first \in Segments
  <2>1. CASE open = {}
    BY <2>1, StudioAssumption DEF Segments
  <2>2. CASE open # {}
    <3>1. open \in SUBSET Segments /\ open \in SUBSET Nat
      BY DEF Init, Segments
    <3> QED  BY <2>2, <3>1, MinIsThere
  <2> QED  BY <2>1, <2>2
<1>3. screen = [r \in Reviewers |->
                   [shown |-> Said, sel |-> first, draft |-> Untouched(Said, first),
                    busy |-> FALSE]]
  BY DEF Init
<1> HIDE DEF first
<1>4. Screens
  <2>1. screen \in [Reviewers -> Screen]
    BY <1>1, <1>2, <1>3, SaidTypes, Fresh DEF Screen
  <2>2. answers \in [Reviewers -> SUBSET (BOOLEAN \X Answer)]
        /\ dark \in [Reviewers -> SUBSET Segments]
        /\ seen \in [Reviewers -> [Segments -> Nat]] /\ sent \in [Reviewers -> SUBSET Request]
    BY DEF Init
  <2>3. events \in [Reviewers -> Seq({"review", "working", "done"})]
    BY DEF Init
  <2> QED  BY <2>1, <2>2, <2>3 DEF Screens
<1>5. DraftIsOfTheSelected
  BY <1>1, <1>2, <1>3, SaidTypes, Fresh DEF DraftIsOfTheSelected
<1> QED  BY <1>1, <1>4, <1>5 DEF Inv

-----------------------------------------------------------------------------
(* What the reviewer does: a screen changes its segment with its draft, or *)
(* sends a request and changes neither.                                    *)

\* The screens of everybody are as before, but for the draft and the segment
\* of one reviewer, whose draft belongs to what that screen shows.
LEMMA OneScreen ==
    ASSUME Inv, NEW r \in Reviewers, NEW scr \in Screen,
           scr.draft.segment = scr.sel, scr.draft.version = scr.shown.version[scr.sel],
           screen' = [screen EXCEPT ![r] = scr]
    PROVE  screen' \in [Reviewers -> Screen] /\ DraftIsOfTheSelected'
<1>1. \A q \in Reviewers : screen'[q] = IF q = r THEN scr ELSE screen[q]
  BY DEF Inv, Screens
<1>2. screen' \in [Reviewers -> Screen]
  BY DEF Inv, Screens
<1> QED  BY <1>1, <1>2 DEF DraftIsOfTheSelected, Inv

LEMMA SelectInv ==
    ASSUME Inv, NEW r \in Reviewers, NEW s \in Segments, Select(r, s)  PROVE Inv'
<1> DEFINE scr == [screen[r] EXCEPT !.sel = s, !.draft = Untouched(screen[r].shown, s)]
<1>1. screen[r] \in Screen /\ screen[r].shown \in Answer
  BY DEF Inv, Screens, Screen
<1>2. /\ scr \in Screen /\ scr.draft.segment = s
      /\ scr.draft.version = screen[r].shown.version[s]
      /\ scr.sel = s /\ scr.shown = screen[r].shown
  BY <1>1, Fresh DEF Screen
<1>3. screen' = [screen EXCEPT ![r] = scr]
  BY DEF Select, Inv, Screens
<1> HIDE DEF scr
<1>4. screen' \in [Reviewers -> Screen] /\ DraftIsOfTheSelected'
  BY <1>2, <1>3, OneScreen
<1> QED  BY <1>4 DEF Select, db, trouble, Inv, Rows, Screens

LEMMA SendInv ==
    ASSUME Inv, NEW r \in Reviewers, NEW kind \in Kinds, Send(r, kind)  PROVE Inv'
<1> DEFINE scr == [screen[r] EXCEPT !.busy = TRUE]
<1>1. screen[r] \in Screen
  BY DEF Inv, Screens
<1>2. /\ scr \in Screen /\ scr.draft = screen[r].draft
      /\ scr.sel = screen[r].sel /\ scr.shown = screen[r].shown
  BY <1>1 DEF Screen
<1>3. screen' = [screen EXCEPT ![r] = scr]
  BY DEF Send, Inv, Screens
<1> HIDE DEF scr
<1>4. screen' \in [Reviewers -> Screen] /\ DraftIsOfTheSelected'
  BY <1>1, <1>2, <1>3, OneScreen DEF Inv, DraftIsOfTheSelected
<1>5. sent' \in [Reviewers -> SUBSET Request]
  <2>1. <<kind, screen[r].sel>> \in Request
    BY <1>1 DEF Screen, Request
  <2> QED  BY <2>1 DEF Send, Inv, Screens
<1> QED  BY <1>4, <1>5 DEF Send, db, trouble, Inv, Rows, Screens

LEMMA TypeOverInv ==
    ASSUME Inv, NEW r \in Reviewers,
           screen' = [screen EXCEPT ![r].draft.typed = TRUE],
           UNCHANGED <<db, seen, sent, reads, answers, events, trouble>>
    PROVE  Inv'
<1> DEFINE scr == [screen[r] EXCEPT !.draft.typed = TRUE]
<1>1. screen[r] \in Screen /\ screen[r].draft \in Draft
  BY DEF Inv, Screens, Screen
<1>2. [screen[r].draft EXCEPT !.typed = TRUE] \in Draft
  BY <1>1 DEF Draft
<1>3. /\ scr \in Screen /\ scr.draft.segment = screen[r].draft.segment
      /\ scr.draft.version = screen[r].draft.version
      /\ scr.sel = screen[r].sel /\ scr.shown = screen[r].shown
  BY <1>1, <1>2 DEF Screen, Draft
<1>4. screen' = [screen EXCEPT ![r] = scr]
  BY DEF Inv, Screens
<1> HIDE DEF scr
<1>5. screen' \in [Reviewers -> Screen] /\ DraftIsOfTheSelected'
  <2>1. scr.draft.segment = scr.sel /\ scr.draft.version = scr.shown.version[scr.sel]
    BY <1>3 DEF Inv, DraftIsOfTheSelected
  <2> QED  BY <1>3, <1>4, <2>1, OneScreen
<1> QED  BY <1>5 DEF db, trouble, Inv, Rows, Screens

LEMMA ReviewerInv ==
    ASSUME Inv, NEW r \in Reviewers, Reviewer(r)  PROVE Inv'
<1>1. N \in Nat /\ screen[r].sel \in 1..N /\ screen[r].shown.open \in SUBSET Segments
  BY StudioAssumption DEF Inv, Screens, Screen, Answer, Segments
<1>2. GoToNextIssue(r) => \E s \in Segments : Select(r, s)
  BY <1>1, NextIsSegment DEF GoToNextIssue, Segments
<1>3. Keys(r) => \/ \E s \in Segments : Select(r, s)
                 \/ \E kind \in Kinds : Send(r, kind)
  BY <1>1, <1>2 DEF Keys, Regenerate, Approve, Segments, Kinds
<1>4. \/ \E s \in Segments : Select(r, s)
      \/ \E kind \in Kinds : Send(r, kind)
      \/ /\ screen' = [screen EXCEPT ![r].draft.typed = TRUE]
         /\ UNCHANGED <<db, seen, sent, reads, answers, events, trouble>>
  BY <1>2, <1>3 DEF Reviewer, HeaderButton, NextIssueButton, ListButtons, PanelButtons,
       EditForm, CommentForm, ApproveTarget, Resolve, Regenerate, Approve,
       SaveTranslation, AddComment, Kinds
<1> QED  BY <1>4, SelectInv, SendInv, TypeOverInv

-----------------------------------------------------------------------------
(* What the API does: rows change, screens do not. *)

LEMMA DoesRows ==
    ASSUME Inv, NEW o, NEW q, q[2] \in Segments, Does(o, q)
    PROVE  /\ Rows'
           /\ events' \in [Reviewers -> Seq({"review", "working", "done"})]
<1>0. ASSUME NEW what \in {"review", "working", "done"}, Announce(what)
      PROVE  events' \in [Reviewers -> Seq({"review", "working", "done"})]
  BY <1>0 DEF Announce, Inv, Screens
<1>1. CASE \E S \in SUBSET Segments : Approved(S)
  <2>1. Rows'
    BY <1>1 DEF Approved, Inv, Rows
  <2>2. UNCHANGED events \/ Announce("done")
    BY <1>1 DEF Approved
  <2> QED  BY <1>0, <2>1, <2>2 DEF Inv, Screens
<1>2. CASE Regenerated(q[2])
  <2>1. Rows' /\ Announce("working")
    BY <1>2 DEF Regenerated, Inv, Rows
  <2> QED  BY <1>0, <2>1
<1>3. CASE Saved(o, q[2])
  BY <1>3 DEF Saved, Inv, Rows, Screens
<1>4. CASE Resolved(q[2], q[1])
  BY <1>4 DEF Resolved, Inv, Rows, Screens
<1>5. CASE Commented
  BY <1>5 DEF Commented, db, Inv, Rows, Screens
<1> QED  BY <1>1, <1>2, <1>3, <1>4, <1>5 DEF Does

\* A screen keeps its draft, whatever the database does.
LEMMA ScreensStay ==
    ASSUME Inv, screen' \in [Reviewers -> Screen],
           \A r \in Reviewers : /\ screen'[r].sel = screen[r].sel
                                /\ screen'[r].draft = screen[r].draft
                                /\ screen'[r].shown.version = screen[r].shown.version
    PROVE  DraftIsOfTheSelected'
BY DEF Inv, DraftIsOfTheSelected

\* A request that is answered is no longer under way.
LEMMA RepliedType ==
    ASSUME Inv, NEW r \in Reviewers, NEW q, Replied(r, q)
    PROVE  sent' \in [Reviewers -> SUBSET Request]
BY DEF Replied, Inv, Screens

LEMMA SucceedsInv ==
    ASSUME Inv, NEW r \in Reviewers, NEW q \in sent[r], Succeeds(r, q)  PROVE Inv'
<1>1. q[2] \in Segments
  BY DEF Inv, Screens, Request
<1>2. Rows' /\ events' \in [Reviewers -> Seq({"review", "working", "done"})]
  BY <1>1, DoesRows DEF Succeeds
<1>3. UNCHANGED <<screen, seen, answers, dark>> /\ sent' \in [Reviewers -> SUBSET Request]
  BY RepliedType DEF Succeeds, trouble
<1> QED  BY <1>2, <1>3 DEF Inv, Screens, DraftIsOfTheSelected

\* What a handler leaves of its screen when its request fails.
LEMMA ReleasedInv ==
    ASSUME Inv, NEW r \in Reviewers, Released(r)
    PROVE  screen' \in [Reviewers -> Screen] /\ DraftIsOfTheSelected'
<1>1. screen' = [screen EXCEPT ![r].busy = FALSE]
  BY DEF Released
<1>2. screen' \in [Reviewers -> Screen]
  BY <1>1 DEF Inv, Screens, Screen
<1>3. \A p \in Reviewers : /\ screen'[p].sel = screen[p].sel
                           /\ screen'[p].draft = screen[p].draft
                           /\ screen'[p].shown = screen[p].shown
  BY <1>1 DEF Inv, Screens, Screen
<1> QED  BY <1>2, <1>3, ScreensStay

LEMMA FailsInv ==
    ASSUME Inv, NEW r \in Reviewers, NEW q \in sent[r], Fails(r, q)  PROVE Inv'
<1>1. UNCHANGED <<db, seen, dark, answers, events>> /\ sent' \in [Reviewers -> SUBSET Request]
  BY RepliedType DEF Fails
<1>2. screen' \in [Reviewers -> Screen] /\ DraftIsOfTheSelected'
  BY ReleasedInv DEF Fails
<1> QED  BY <1>1, <1>2 DEF db, Inv, Rows, Screens

\* Segments are added to those a failed call left in the dark.
LEMMA DarkerType ==
    ASSUME Inv, NEW r \in Reviewers, NEW current,
           dark' = [dark EXCEPT ![r] = @ \cup Unseen(r, current)]
    PROVE  dark' \in [Reviewers -> SUBSET Segments]
BY DEF Inv, Screens, Unseen

LEMMA UnansweredInv ==
    ASSUME Inv, NEW r \in Reviewers, NEW q \in sent[r], Unanswered(r, q)  PROVE Inv'
<1>1. q[2] \in Segments
  BY DEF Inv, Screens, Request
<1>2. Rows' /\ events' \in [Reviewers -> Seq({"review", "working", "done"})]
  BY <1>1, DoesRows DEF Unanswered
<1>3. UNCHANGED <<seen, answers>> /\ sent' \in [Reviewers -> SUBSET Request]
  BY RepliedType DEF Unanswered
<1>4. screen' \in [Reviewers -> Screen] /\ DraftIsOfTheSelected'
  BY ReleasedInv DEF Unanswered
<1>5. dark' \in [Reviewers -> SUBSET Segments]
  BY DarkerType DEF Unanswered
<1> QED  BY <1>2, <1>3, <1>4, <1>5 DEF Inv, Screens

LEMMA FetchFailsInv == ASSUME Inv, NEW r \in Reviewers, FetchFails(r)  PROVE Inv'
<1>1. UNCHANGED <<db, seen, sent, answers, events>> /\ (Released(r) \/ UNCHANGED screen)
  BY DEF FetchFails
<1>2. screen' \in [Reviewers -> Screen] /\ DraftIsOfTheSelected'
  <2>1. CASE Released(r)
    BY <2>1, ReleasedInv
  <2>2. CASE UNCHANGED screen
    BY <2>2 DEF Inv, Screens, DraftIsOfTheSelected
  <2> QED  BY <1>1, <2>1, <2>2
<1>3. dark' \in [Reviewers -> SUBSET Segments]
  BY DarkerType DEF FetchFails
<1> QED  BY <1>1, <1>2, <1>3 DEF db, Inv, Rows, Screens

LEMMA ServeInv == ASSUME Inv, NEW r \in Reviewers, Serve(r)  PROVE Inv'
<1>1. PICK k \in {1, 2} : answers' = [answers EXCEPT ![r] = @ \cup {<<k = 1, Said>>}]
  BY DEF Serve
<1>2. <<k = 1, Said>> \in BOOLEAN \X Answer
  BY SaidTypes DEF Inv
<1>3. answers' \in [Reviewers -> SUBSET (BOOLEAN \X Answer)]
  BY <1>1, <1>2 DEF Inv, Screens
<1> QED  BY <1>3 DEF Serve, db, trouble, Inv, Rows, Screens, DraftIsOfTheSelected

\* A draft lasts as long as the version it is typed over is the one shown.
LEMMA ShowInv ==
    ASSUME Inv, NEW r \in Reviewers, NEW a \in answers[r], Show(r, a)  PROVE Inv'
<1> DEFINE scr == [screen[r] EXCEPT !.shown = a[2], !.draft = Redrafted(screen[r], a[2]),
                                    !.busy = IF a[1] THEN FALSE ELSE @]
<1>1. screen[r] \in Screen /\ a[2] \in Answer /\ a[1] \in BOOLEAN
  BY DEF Inv, Screens
<1>2. screen[r].sel \in Segments /\ screen[r].draft \in Draft
      /\ screen[r].draft.segment = screen[r].sel
  BY <1>1 DEF Screen, Inv, DraftIsOfTheSelected
<1>3. /\ Redrafted(screen[r], a[2]) \in Draft
      /\ Redrafted(screen[r], a[2]).segment = screen[r].sel
      /\ Redrafted(screen[r], a[2]).version = a[2].version[screen[r].sel]
  BY <1>1, <1>2, Fresh DEF Redrafted
<1>4. /\ scr \in Screen /\ scr.sel = screen[r].sel /\ scr.shown = a[2]
      /\ scr.draft = Redrafted(screen[r], a[2])
  BY <1>1, <1>3 DEF Screen
<1>5. screen' = [screen EXCEPT ![r] = scr]
  BY DEF Show, Inv, Screens
<1> HIDE DEF scr
<1>6. screen' \in [Reviewers -> Screen] /\ DraftIsOfTheSelected'
  BY <1>3, <1>4, <1>5, OneScreen
<1>7. answers' \in [Reviewers -> SUBSET (BOOLEAN \X Answer)]
  BY DEF Show, Inv, Screens
<1>8. seen' \in [Reviewers -> [Segments -> Nat]]
  <2>1. seen[r] \in [Segments -> Nat] /\ a[2].version \in [Segments -> Nat]
    BY <1>1 DEF Inv, Screens, Answer
  <2>2. Newer(seen[r], a[2].version) \in [Segments -> Nat]
    BY <2>1 DEF Newer
  <2> QED  BY <2>2 DEF Show, Inv, Screens
<1>9. dark' \in [Reviewers -> SUBSET Segments]
  BY DEF Show, Inv, Screens
<1> QED  BY <1>6, <1>7, <1>8, <1>9 DEF Show, db, Inv, Rows, Screens

\* An event patches the state that is shown, and nothing a draft is about.
LEMMA HearInv == ASSUME Inv, NEW r \in Reviewers, Hear(r)  PROVE Inv'
<1> DEFINE what == Head(events[r])
<1>1. /\ what \in {"review", "working", "done"}
      /\ events' \in [Reviewers -> Seq({"review", "working", "done"})]
  BY DEF Hear, Inv, Screens
<1> HIDE DEF what
<1>2. screen' = [screen EXCEPT ![r].shown.state = what]
  BY DEF Hear, what
<1>3. screen[r] \in Screen /\ [screen[r].shown EXCEPT !.state = what] \in Answer
  <2>1. screen[r] \in Screen
    BY DEF Inv, Screens
  <2>2. screen[r].shown \in Answer
    BY <2>1 DEF Screen
  <2> QED  BY <1>1, <2>1, <2>2 DEF Answer
<1>4. screen' \in [Reviewers -> Screen]
  BY <1>2, <1>3 DEF Inv, Screens, Screen
<1>5. [screen[r].shown EXCEPT !.state = what].version = screen[r].shown.version
  BY <1>3 DEF Inv, Screens, Screen, Answer
<1>6. \A p \in Reviewers : /\ screen'[p].sel = screen[p].sel
                           /\ screen'[p].draft = screen[p].draft
                           /\ screen'[p].shown.version = screen[p].shown.version
  BY <1>2, <1>5 DEF Inv, Screens, Screen
<1>7. UNCHANGED <<db, seen, dark, sent, answers>>
  BY DEF Hear, trouble
<1> QED  BY <1>1, <1>4, <1>6, <1>7, ScreensStay DEF db, Inv, Rows, Screens

LEMMA ElsewhereInv == ASSUME Inv, NEW o \in Others, Elsewhere(o)  PROVE Inv'
<1>1. PICK kind \in Kinds, s \in Segments : Does(o, <<kind, s>>)
  BY StudioAssumption DEF Elsewhere, Kinds
<1>2. Rows' /\ events' \in [Reviewers -> Seq({"review", "working", "done"})]
  BY <1>1, DoesRows
<1> QED  BY <1>2 DEF Elsewhere, page, trouble, Inv, Screens, DraftIsOfTheSelected

LEMMA PipelineInv == ASSUME Inv, PipelineReturns  PROVE Inv'
<1>1. Rows'
  <2>1. \E found \in SUBSET scope : open' = open \cup found
    BY DEF PipelineReturns
  <2> QED  BY <2>1 DEF PipelineReturns, Inv, Rows
<1>2. events' \in [Reviewers -> Seq({"review", "working", "done"})]
  BY DEF PipelineReturns, Announce, Inv, Screens
<1> QED  BY <1>1, <1>2 DEF PipelineReturns, page, trouble, Inv, Screens, DraftIsOfTheSelected

LEMMA NextInv == ASSUME Inv, [Next]_vars  PROVE Inv'
<1>1. CASE \E r \in Reviewers : Reviewer(r)
  BY <1>1, ReviewerInv
<1>2. CASE \E r \in Reviewers : Arrives(r)
  BY <1>2, SucceedsInv, FailsInv, UnansweredInv, ServeInv, FetchFailsInv, ShowInv, HearInv DEF Arrives
<1>3. CASE \E o \in Others : Elsewhere(o)
  BY <1>3, ElsewhereInv
<1>4. CASE PipelineReturns
  BY <1>4, PipelineInv
<1>5. CASE UNCHANGED vars
  BY <1>5 DEF vars, db, page, trouble, Inv, Rows, Screens, DraftIsOfTheSelected
<1> QED  BY <1>1, <1>2, <1>3, <1>4, <1>5 DEF Next

-----------------------------------------------------------------------------
(* What a screen has shown.  A version that its own reviewer or the        *)
(* pipeline wrote has been on the screen, or is on its way there: a read   *)
(* not served yet, an answer that holds it, an event that will be followed *)
(* by a read; or the call that would have brought it has failed.  Answers   *)
(* may overtake each other; what was shown stays seen.                     *)

\* The target has come to rest, and the screen will hear so.
Rests(r) == \E i \in 1..Len(events[r]) : events[r][i] # "working"

Coming(r, s) ==
    \/ reads[r] # <<0, 0>>
    \/ \E a \in answers[r] : a[2].version[s] = version[s]
    \/ Rests(r)

Told(r, s) ==
    \/ version[s] = seen[r][s] \/ author[s] \notin {r, None}
    \/ Coming(r, s) \/ s \in dark[r]

NotAhead(r, s) ==
    /\ seen[r][s] <= version[s]
    /\ \A a \in answers[r] : a[2].version[s] <= version[s]

Known ==
    /\ reads \in [Reviewers -> Nat \X Nat]
    /\ author \in [Segments -> Reviewers \cup Others \cup {None}]
    /\ \A r \in Reviewers, s \in Segments : Told(r, s) /\ NotAhead(r, s)

\* An announcement leaves those under way where they are, and follows them.
LEMMA Announced ==
    ASSUME Inv, NEW what, Announce(what), NEW r \in Reviewers
    PROVE  Rests(r) \/ what # "working" => Rests(r)'
<1>1. events[r] \in Seq({"review", "working", "done"}) /\ events'[r] = Append(events[r], what)
  BY DEF Announce, Inv, Screens
<1>2. /\ Len(events'[r]) = Len(events[r]) + 1 /\ Len(events[r]) \in Nat
      /\ events'[r][Len(events[r]) + 1] = what
      /\ \A i \in 1..Len(events[r]) : events'[r][i] = events[r][i]
  BY <1>1
<1>3. Rests(r) => Rests(r)'
  BY <1>2 DEF Rests
<1>4. what # "working" => Rests(r)'
  BY <1>2 DEF Rests
<1> QED  BY <1>3, <1>4

\* A step that writes and shows no text keeps what screens know, as long as
\* nothing that will make them read is forgotten.
LEMMA KnownKept ==
    ASSUME Known, UNCHANGED <<version, author, seen, answers>>,
           reads' \in [Reviewers -> Nat \X Nat],
           \A r \in Reviewers : dark[r] \subseteq dark'[r],
           \A r \in Reviewers : reads[r] # <<0, 0>> => reads'[r] # <<0, 0>>,
           \A r \in Reviewers : Rests(r) => Rests(r)'
    PROVE  Known'
<1>1. ASSUME NEW r \in Reviewers, NEW s \in Segments  PROVE Told(r, s)' /\ NotAhead(r, s)'
  <2>1. NotAhead(r, s)'
    BY DEF Known, NotAhead
  <2>2. Coming(r, s) => Coming(r, s)'
    BY DEF Coming
  <2> QED  BY <2>1, <2>2 DEF Known, Told
<1> QED  BY <1>1 DEF Known

\* Requests other than a save change no text.
LEMMA DoesKnown ==
    ASSUME Inv, NEW o, NEW q, Does(o, q)
    PROVE  \/ Saved(o, q[2])
           \/ /\ UNCHANGED <<version, author>>
              /\ \A r \in Reviewers : Rests(r) => Rests(r)'
<1>0. UNCHANGED events => \A r \in Reviewers : Rests(r) => Rests(r)'
  BY DEF Rests
<1>1. CASE \E S : Approved(S)
  <2>1. UNCHANGED <<version, author>> /\ (Announce("done") \/ UNCHANGED events)
    BY <1>1 DEF Approved
  <2> QED  BY <1>0, <2>1, Announced
<1>2. CASE Regenerated(q[2])
  <2>1. UNCHANGED <<version, author>> /\ Announce("working")
    BY <1>2 DEF Regenerated
  <2> QED  BY <2>1, Announced
<1>3. CASE Resolved(q[2], q[1]) \/ Commented
  BY <1>0, <1>3 DEF Resolved, Commented, db
<1> QED  BY <1>1, <1>2, <1>3 DEF Does

\* A version somebody wrote is unknown to the screens of the others.
LEMMA SavedKnown ==
    ASSUME Inv, Known, NEW o \in Reviewers \cup Others, NEW t \in Segments, Saved(o, t),
           UNCHANGED <<seen, answers>>, reads' \in [Reviewers -> Nat \X Nat],
           \A r \in Reviewers : r # o => reads'[r] = reads[r],
           \A r \in Reviewers : dark[r] \subseteq dark'[r],
           o \in Reviewers => reads'[o] # <<0, 0>> \/ Unseen(o, version') \subseteq dark'[o]
    PROVE  Known'
<1>1. /\ version \in [Segments -> Nat] /\ o # None
      /\ version' = [version EXCEPT ![t] = @ + 1] /\ author' = [author EXCEPT ![t] = o]
      /\ UNCHANGED events
  BY StudioAssumption DEF Saved, Inv, Rows
<1>2. author' \in [Segments -> Reviewers \cup Others \cup {None}]
  BY <1>1 DEF Known
<1>3. ASSUME NEW r \in Reviewers, NEW s \in Segments  PROVE Told(r, s)' /\ NotAhead(r, s)'
  <2>1. version[s] \in Nat /\ version'[s] \in Nat /\ version[s] <= version'[s]
    BY <1>1
  <2>2. seen[r][s] \in Nat /\ \A a \in answers[r] : a[2].version[s] \in Nat
    BY DEF Inv, Screens, Answer
  <2>3. NotAhead(r, s)'
    BY <2>1, <2>2 DEF Known, NotAhead
  <2>4. CASE r = o
    BY <2>3, <2>4 DEF Told, Coming, Unseen
  <2>5. CASE r # o /\ s = t
    <3>1. author'[s] = o
      BY <1>1, <2>5 DEF Known
    <3> QED  BY <1>1, <2>3, <2>5, <3>1 DEF Told
  <2>6. CASE r # o /\ s # t
    <3>1. version'[s] = version[s] /\ author'[s] = author[s]
      BY <1>1, <2>6 DEF Known
    <3>2. Coming(r, s) => Coming(r, s)'
      BY <1>1, <2>6, <3>1 DEF Coming, Rests
    <3>3. Told(r, s)
      BY DEF Known
    <3>4. s \in dark[r] => s \in dark'[r]
      OBVIOUS
    <3> QED  BY <1>1, <2>3, <3>1, <3>2, <3>3, <3>4 DEF Told
  <2> QED  BY <2>4, <2>5, <2>6
<1> QED  BY <1>2, <1>3 DEF Known

LEMMA InitKnown == Init => Known
<1> SUFFICES ASSUME Init  PROVE Known
  OBVIOUS
<1>1. reads \in [Reviewers -> Nat \X Nat]
  BY DEF Init
<1>2. version \in [Segments -> Nat] /\ answers = [r \in Reviewers |-> {}]
      /\ seen = [r \in Reviewers |-> version]
  BY DEF Init
<1>3. author \in [Segments -> Reviewers \cup Others \cup {None}]
  BY DEF Init
<1>4. \A r \in Reviewers, s \in Segments : Told(r, s) /\ NotAhead(r, s)
  BY <1>2 DEF Told, NotAhead
<1> QED  BY <1>1, <1>3, <1>4 DEF Known

LEMMA ReviewerKnown ==
    ASSUME Inv, Known, NEW r \in Reviewers, Reviewer(r)  PROVE Known'
<1>1. UNCHANGED <<db, seen, dark, reads, answers, events>>
  BY DEF Reviewer, Keys, HeaderButton, NextIssueButton, ListButtons, PanelButtons, EditForm,
     CommentForm, GoToNextIssue, ApproveTarget, Resolve, Regenerate, Approve,
     SaveTranslation, AddComment, Select, Send, trouble
<1>2. \A q \in Reviewers : Rests(q) => Rests(q)'
  BY <1>1 DEF Rests
<1> QED  BY <1>1, <1>2, KnownKept DEF db, Known

LEMMA SucceedsKnown ==
    ASSUME Inv, Known, NEW r \in Reviewers, NEW q \in sent[r], Succeeds(r, q)  PROVE Known'
<1>1. /\ q[2] \in Segments /\ Does(r, q) /\ UNCHANGED <<seen, dark, answers>>
      /\ reads' = [reads EXCEPT ![r][1] = @ + 1]
  BY DEF Succeeds, trouble, Inv, Screens, Request
<1>2. PICK i \in Nat, j \in Nat : reads[r] = <<i, j>>
  BY DEF Known
<1>3. reads'[r] = <<i + 1, j>> /\ \A p \in Reviewers : p # r => reads'[p] = reads[p]
  BY <1>1, <1>2 DEF Known
<1>4. /\ reads'[r] # <<0, 0>>
      /\ reads' \in [Reviewers -> Nat \X Nat]
  <2>1. i + 1 \in Nat /\ i + 1 # 0
    BY <1>2
  <2>2. <<i + 1, j>> \in Nat \X Nat /\ <<i + 1, j>> # <<0, 0>>
    BY <2>1
  <2>3. reads' = [p \in Reviewers |-> reads'[p]]
    BY <1>1 DEF Known
  <2>4. \A p \in Reviewers : reads'[p] \in Nat \X Nat
    BY <1>3, <2>2 DEF Known
  <2> QED  BY <1>3, <2>2, <2>3, <2>4
<1>5. CASE Saved(r, q[2])
  BY <1>1, <1>3, <1>4, <1>5, SavedKnown
<1>6. CASE /\ UNCHANGED <<version, author>>
           /\ \A p \in Reviewers : Rests(p) => Rests(p)'
  <2>1. \A p \in Reviewers : reads[p] # <<0, 0>> => reads'[p] # <<0, 0>>
    BY <1>3, <1>4
  <2> QED  BY <1>1, <1>4, <1>6, <2>1, KnownKept
<1> QED  BY <1>1, <1>5, <1>6, DoesKnown

\* What was written and is never answered is in the dark.
LEMMA UnansweredKnown ==
    ASSUME Inv, Known, NEW r \in Reviewers, NEW q \in sent[r], Unanswered(r, q)  PROVE Known'
<1>1. /\ q[2] \in Segments /\ Does(r, q) /\ UNCHANGED <<seen, reads, answers>>
      /\ dark' = [dark EXCEPT ![r] = @ \cup Unseen(r, version')]
  BY DEF Unanswered, Inv, Screens, Request
<1>2. dark'[r] = dark[r] \cup Unseen(r, version') /\ \A p \in Reviewers : dark[p] \subseteq dark'[p]
  BY <1>1 DEF Inv, Screens
<1>3. CASE Saved(r, q[2])
  BY <1>1, <1>2, <1>3, SavedKnown DEF Known
<1>4. CASE UNCHANGED <<version, author>> /\ \A p \in Reviewers : Rests(p) => Rests(p)'
  BY <1>1, <1>2, <1>4, KnownKept DEF Known
<1> QED  BY <1>1, <1>3, <1>4, DoesKnown

\* So is what a failed read would have brought.
LEMMA FetchFailsKnown == ASSUME Inv, Known, NEW r \in Reviewers, FetchFails(r)  PROVE Known'
<1>1. PICK k \in {1, 2} : reads[r][k] > 0 /\ reads' = [reads EXCEPT ![r][k] = @ - 1]
  BY DEF FetchFails
<1>2. /\ UNCHANGED <<version, author, seen, answers, events>>
      /\ dark' = [dark EXCEPT ![r] = @ \cup Unseen(r, version)]
  BY DEF FetchFails, db
<1>3. reads' \in [Reviewers -> Nat \X Nat] /\ \A p \in Reviewers \ {r} : reads'[p] = reads[p]
  <2>1. reads[r] \in Nat \X Nat /\ reads[r][k] \in Nat /\ reads[r][k] - 1 \in Nat
    BY <1>1 DEF Known
  <2>2. [reads[r] EXCEPT ![k] = @ - 1] \in Nat \X Nat
    BY <2>1
  <2> QED  BY <1>1, <2>2 DEF Known
<1>4. ASSUME NEW p \in Reviewers, NEW s \in Segments  PROVE Told(p, s)' /\ NotAhead(p, s)'
  <2>1. Told(p, s) /\ NotAhead(p, s)
    BY DEF Known
  <2>2. NotAhead(p, s)'
    BY <1>2, <2>1 DEF NotAhead
  <2>3. CASE p = r
    <3>1. dark'[r] = dark[r] \cup Unseen(r, version)
      BY <1>2 DEF Inv, Screens
    <3> QED  BY <1>2, <2>2, <2>3, <3>1 DEF Told, Unseen
  <2>4. CASE p # r
    <3>1. reads'[p] = reads[p] /\ dark'[p] = dark[p]
      BY <1>2, <1>3, <2>4 DEF Inv, Screens
    <3>2. Coming(p, s) => Coming(p, s)'
      BY <1>2, <3>1 DEF Coming, Rests
    <3> QED  BY <1>2, <2>1, <2>2, <3>1, <3>2 DEF Told
  <2> QED  BY <2>3, <2>4
<1> QED  BY <1>2, <1>3, <1>4 DEF Known

LEMMA ServeKnown == ASSUME Inv, Known, NEW r \in Reviewers, Serve(r)  PROVE Known'
<1>1. PICK k \in {1, 2} :
        /\ reads[r][k] > 0 /\ reads' = [reads EXCEPT ![r][k] = @ - 1]
        /\ answers' = [answers EXCEPT ![r] = @ \cup {<<k = 1, Said>>}]
  BY DEF Serve
<1>2. UNCHANGED <<version, author, seen, dark, events>>
  BY DEF Serve, db, trouble
<1>3. Said.version = version
  BY DEF Said
<1>4. reads' \in [Reviewers -> Nat \X Nat] /\ \A p \in Reviewers \ {r} : reads'[p] = reads[p]
  <2>1. reads[r] \in Nat \X Nat /\ reads[r][k] \in Nat /\ reads[r][k] - 1 \in Nat
    BY <1>1 DEF Known
  <2>2. [reads[r] EXCEPT ![k] = @ - 1] \in Nat \X Nat
    BY <2>1
  <2> QED  BY <1>1, <2>2 DEF Known
<1>5. ASSUME NEW p \in Reviewers, NEW s \in Segments  PROVE Told(p, s)' /\ NotAhead(p, s)'
  <2>1. Told(p, s) /\ NotAhead(p, s) /\ version[s] \in Nat
    BY DEF Known, Inv, Rows
  <2>2. CASE p = r
    <3>1. answers'[r] = answers[r] \cup {<<k = 1, Said>>}
      BY <1>1 DEF Inv, Screens
    <3>2. Coming(r, s)'
      <4>1. <<k = 1, Said>> \in answers'[r] /\ <<k = 1, Said>>[2] = Said
        BY <3>1
      <4>2. \E a \in answers'[r] : a[2].version[s] = version[s]
        BY <1>3, <4>1
      <4> QED  BY <1>2, <4>2 DEF Coming
    <3>3. NotAhead(r, s)'
      BY <1>2, <1>3, <2>1, <2>2, <3>1 DEF NotAhead
    <3> QED  BY <2>2, <3>2, <3>3 DEF Told
  <2>3. CASE p # r
    <3>1. answers'[p] = answers[p] /\ reads'[p] = reads[p]
      BY <1>1, <1>4, <2>3 DEF Inv, Screens
    <3>2. Coming(p, s) => Coming(p, s)'
      BY <1>2, <3>1 DEF Coming, Rests
    <3> QED  BY <1>2, <2>1, <3>1, <3>2 DEF Told, NotAhead
  <2> QED  BY <2>2, <2>3
<1> QED  BY <1>2, <1>4, <1>5 DEF Known

\* The answer that is shown may be an old one: what has been seen stays seen.
LEMMA ShowKnown ==
    ASSUME Inv, Known, NEW r \in Reviewers, NEW a \in answers[r], Show(r, a)  PROVE Known'
<1>1. /\ answers' = [answers EXCEPT ![r] = @ \ {a}]
      /\ seen' = [seen EXCEPT ![r] = Newer(@, a[2].version)]
      /\ UNCHANGED <<version, author, reads, events>>
  BY DEF Show, db
<1>2. ASSUME NEW p \in Reviewers, NEW s \in Segments  PROVE Told(p, s)' /\ NotAhead(p, s)'
  <2>1. Told(p, s) /\ NotAhead(p, s) /\ version[s] \in Nat /\ seen[p][s] \in Nat
    BY DEF Known, Inv, Rows, Screens
  <2>2. CASE p = r
    <3>1. a[2].version[s] \in Nat /\ a[2].version[s] <= version[s]
      BY <2>1, <2>2 DEF NotAhead, Inv, Screens, Answer
    <3>2. seen'[r][s] = IF a[2].version[s] > seen[r][s] THEN a[2].version[s] ELSE seen[r][s]
      BY <1>1 DEF Newer, Inv, Screens
    <3>3. answers'[r] = answers[r] \ {a}
      BY <1>1 DEF Inv, Screens
    <3>8. s \in dark[r] => s \in dark'[r] \/ version'[s] = seen'[r][s]
      BY <1>1 DEF Show, Inv, Screens
    <3>4. NotAhead(r, s)'
      BY <1>1, <2>1, <2>2, <3>1, <3>2, <3>3 DEF NotAhead
    <3>5. version[s] = seen[r][s] => version'[s] = seen'[r][s]
      BY <1>1, <2>1, <3>1, <3>2
    <3>6. a[2].version[s] = version[s] => version'[s] = seen'[r][s]
      BY <1>1, <2>1, <2>2, <3>1, <3>2 DEF NotAhead
    <3>7. Coming(r, s) => Coming(r, s)' \/ a[2].version[s] = version[s]
      BY <1>1, <3>3 DEF Coming, Rests
    <3> QED  BY <1>1, <2>1, <2>2, <3>4, <3>5, <3>6, <3>7, <3>8 DEF Told
  <2>3. CASE p # r
    <3>1. answers'[p] = answers[p] /\ seen'[p] = seen[p] /\ dark'[p] = dark[p]
      BY <1>1, <2>3 DEF Show, Inv, Screens
    <3>2. Coming(p, s) => Coming(p, s)'
      BY <1>1, <3>1 DEF Coming, Rests
    <3> QED  BY <1>1, <2>1, <3>1, <3>2 DEF Told, NotAhead
  <2> QED  BY <2>2, <2>3
<1> QED  BY <1>1, <1>2 DEF Known

\* An event that the target has come to rest becomes a read.
LEMMA HearKnown == ASSUME Inv, Known, NEW r \in Reviewers, Hear(r)  PROVE Known'
<1> DEFINE told == events[r]
<1>1. /\ told \in Seq({"review", "working", "done"}) /\ told # <<>>
      /\ events' = [events EXCEPT ![r] = Tail(@)]
      /\ UNCHANGED <<version, author, seen, dark, answers>>
  BY DEF Hear, db, trouble, Inv, Screens
<1>2. /\ Len(told) \in Nat /\ Len(Tail(told)) = Len(told) - 1 /\ Head(told) = told[1]
      /\ \A i \in 1..Len(told) - 1 : Tail(told)[i] = told[i + 1]
  BY <1>1
<1>3. events'[r] = Tail(told) /\ \A p \in Reviewers : p # r => events'[p] = events[p]
  BY <1>1 DEF Inv, Screens
<1> HIDE DEF told
<1>4. ASSUME Head(told) = "working", NEW p \in Reviewers, Rests(p)  PROVE Rests(p)'
  <2>1. CASE p = r
    <3>1. PICK i \in 1..Len(told) : told[i] # "working"
      BY <1>4, <2>1 DEF Rests, told
    <3>2. i # 1
      BY <1>2, <1>4, <3>1
    <3>3. i - 1 \in 1..Len(told) - 1 /\ i = (i - 1) + 1
      BY <1>2, <3>1, <3>2
    <3>4. Tail(told)[i - 1] # "working"
      BY <1>2, <3>1, <3>3
    <3> QED  BY <1>2, <1>3, <2>1, <3>3, <3>4 DEF Rests
  <2>2. CASE p # r
    BY <1>3, <1>4, <2>2 DEF Rests
  <2> QED  BY <2>1, <2>2
<1>5. CASE Head(told) = "working"
  <2>1. UNCHANGED reads
    BY <1>5 DEF Hear, told
  <2> QED  BY <1>1, <1>4, <1>5, <2>1, KnownKept DEF Known
<1>6. CASE Head(told) # "working"
  <2>1. reads' = [reads EXCEPT ![r][2] = @ + 1]
    BY <1>6 DEF Hear, told
  <2>2. PICK i \in Nat, j \in Nat : reads[r] = <<i, j>>
    BY DEF Known
  <2>3. reads'[r] = <<i, j + 1>> /\ \A p \in Reviewers : p # r => reads'[p] = reads[p]
    BY <2>1, <2>2 DEF Known
  <2>4. j + 1 \in Nat /\ j + 1 # 0
    BY <2>2
  <2>5. reads'[r] \in Nat \X Nat /\ reads'[r] # <<0, 0>>
    BY <2>3, <2>4
  <2>6. reads' \in [Reviewers -> Nat \X Nat]
    <3>1. reads' = [p \in Reviewers |-> reads'[p]]
      BY <2>1 DEF Known
    <3>2. \A p \in Reviewers : reads'[p] \in Nat \X Nat
      BY <2>3, <2>5 DEF Known
    <3> QED  BY <3>1, <3>2
  <2>7. ASSUME NEW p \in Reviewers, NEW s \in Segments  PROVE Told(p, s)' /\ NotAhead(p, s)'
    <3>1. Told(p, s) /\ NotAhead(p, s)
      BY DEF Known
    <3>2. NotAhead(p, s)'
      BY <1>1, <3>1 DEF NotAhead
    <3>3. CASE p = r
      BY <2>5, <3>2, <3>3 DEF Told, Coming
    <3>4. CASE p # r
      <4>1. Coming(p, s) => Coming(p, s)'
        BY <1>1, <1>3, <2>3, <3>4 DEF Coming, Rests
      <4> QED  BY <1>1, <3>1, <3>2, <4>1 DEF Told
    <3> QED  BY <3>3, <3>4
  <2> QED  BY <1>1, <2>6, <2>7 DEF Known
<1> QED  BY <1>5, <1>6

LEMMA ElsewhereKnown == ASSUME Inv, Known, NEW o \in Others, Elsewhere(o)  PROVE Known'
<1>1. UNCHANGED <<seen, dark, reads, answers>> /\ o \notin Reviewers
  BY StudioAssumption DEF Elsewhere, page, trouble
<1>2. PICK kind \in Kinds, s \in Segments : Does(o, <<kind, s>>)
  BY StudioAssumption DEF Elsewhere, Kinds
<1>3. CASE Saved(o, s)
  BY <1>1, <1>3, SavedKnown DEF Known
<1>4. CASE UNCHANGED <<version, author>> /\ \A r \in Reviewers : Rests(r) => Rests(r)'
  BY <1>1, <1>4, KnownKept DEF Known
<1>5. <<kind, s>>[2] = s
  OBVIOUS
<1> QED  BY <1>2, <1>3, <1>4, <1>5, DoesKnown

\* The pipeline announces that it is back to every screen.
LEMMA PipelineKnown == ASSUME Inv, Known, PipelineReturns  PROVE Known'
<1>1. Announce("review") /\ UNCHANGED <<seen, reads, answers>>
  BY DEF PipelineReturns, page
<1>2. \A s \in Segments : version[s] \in Nat /\ version'[s] \in {version[s], version[s] + 1}
  BY DEF PipelineReturns, Inv, Rows
<1>3. author' \in [Segments -> Reviewers \cup Others \cup {None}]
  BY DEF PipelineReturns, Known
<1>4. ASSUME NEW r \in Reviewers, NEW s \in Segments  PROVE Told(r, s)' /\ NotAhead(r, s)'
  <2>1. Rests(r)'
    BY <1>1, Announced
  <2>2. seen[r][s] \in Nat /\ \A a \in answers[r] : a[2].version[s] \in Nat
    BY DEF Inv, Screens, Answer
  <2>3. version[s] <= version'[s]
    BY <1>2
  <2>4. NotAhead(r, s)'
    BY <1>1, <1>2, <2>2, <2>3 DEF Known, NotAhead
  <2> QED  BY <2>1, <2>4 DEF Told, Coming
<1> QED  BY <1>1, <1>3, <1>4 DEF Known

LEMMA NextKnown == ASSUME Inv, Known, [Next]_vars  PROVE Known'
<1>1. CASE \E r \in Reviewers : Reviewer(r)
  BY <1>1, ReviewerKnown
<1>2. ASSUME NEW r \in Reviewers, NEW q \in sent[r], Fails(r, q)  PROVE Known'
  <2>1. UNCHANGED <<db, seen, dark, reads, answers, events>>
    BY <1>2 DEF Fails
  <2>2. \A p \in Reviewers : Rests(p) => Rests(p)'
    BY <2>1 DEF Rests
  <2> QED  BY <2>1, <2>2, KnownKept DEF db, Known
<1>3. CASE \E r \in Reviewers : Arrives(r)
  BY <1>2, <1>3, SucceedsKnown, UnansweredKnown, ServeKnown, FetchFailsKnown, ShowKnown,
     HearKnown DEF Arrives
<1>4. CASE \E o \in Others : Elsewhere(o)
  BY <1>4, ElsewhereKnown
<1>5. CASE PipelineReturns
  BY <1>5, PipelineKnown
<1>6. CASE UNCHANGED vars
  <2>1. UNCHANGED <<db, seen, dark, reads, answers, events>>
    BY <1>6 DEF vars, page, trouble
  <2>2. \A p \in Reviewers : Rests(p) => Rests(p)'
    BY <2>1 DEF Rests
  <2> QED  BY <2>1, <2>2, KnownKept DEF db, Known
<1> QED  BY <1>1, <1>3, <1>4, <1>5, <1>6 DEF Next

-----------------------------------------------------------------------------
(* The theorems. *)

LEMMA AlwaysInv == Spec => []Inv
<1>1. Init => Inv
  BY InitInv
<1>2. Inv /\ [Next]_vars => Inv'
  BY NextInv
<1> QED  BY <1>1, <1>2, PTL DEF Spec

\* For any number of segments, reviewers, requests and failures: what a reviewer
\* types was typed over the translation of the selected segment that is on the
\* screen, and goes to that segment.  Which version it replaces there is decided
\* when the request is served: a save carries none.
THEOREM DraftsStayPut == Spec => []DraftIsOfTheSelected
<1>1. Inv => DraftIsOfTheSelected
  BY DEF Inv
<1> QED  BY AlwaysInv, <1>1, PTL

\* Rows, screens, requests and answers keep their types: the keys and buttons
\* never select a segment that is not there, whatever is shown.
THEOREM TypeCorrect == Spec => []TypeOK
<1>1. Inv => TypeOK
  BY DEF Inv, TypeOK
<1> QED  BY AlwaysInv, <1>1, PTL

\* However requests, reads, answers and events overtake each other, and however
\* many are under way: nobody approves a text that never was on the screen, unless
\* another reviewer wrote it, the screen is about to learn of it, or the call that
\* would have shown it has failed.
THEOREM ApprovesWhatWasShown == Spec => ApprovedAsSeen
<1> DEFINE Step == \A r \in Reviewers, s \in Segments :
                      sent'[r] # sent[r] /\ s \in approved' \ approved =>
                        \/ version[s] = seen[r][s]
                        \/ author[s] \notin {r, None} \/ Behind(r) \/ s \in dark[r]
<1>1. Init => Inv /\ Known
  BY InitInv, InitKnown
<1>2. Inv /\ Known /\ [Next]_vars => (Inv /\ Known)'
  BY NextInv, NextKnown
<1>3. Inv /\ Known => Step
  <2> SUFFICES ASSUME Inv, Known, NEW r \in Reviewers, NEW s \in Segments,
                      s \in approved' \ approved
               PROVE  \/ version[s] = seen[r][s]
                      \/ author[s] \notin {r, None} \/ Behind(r) \/ s \in dark[r]
    OBVIOUS
  <2>1. s \in Segments => Told(r, s)
    BY DEF Known
  <2>2. Rests(r) => events[r] # <<>>
    BY DEF Rests
  <2>3. Coming(r, s) => Behind(r)
    BY <2>2 DEF Coming, Behind
  <2> QED  BY <2>1, <2>3 DEF Told
<1>4. Inv /\ Known /\ [Next]_vars => [Step]_vars
  BY <1>3
<1> HIDE DEF Step
<1>5. Spec => [][Step]_vars
  BY <1>1, <1>2, <1>4, PTL DEF Spec
<1> QED  BY <1>5 DEF ApprovedAsSeen, Step

-----------------------------------------------------------------------------
(* Sessions.  Handlers read the cookies when they start and write them when *)
(* they are answered.  One that has read the organization chosen last       *)
(* writes it again, because its user belongs to it; one that has read       *)
(* another is noted (undone).                                               *)

CONSTANTS Users, Orgs, Founders, Tabs, Instances, MaxKeys, MaxSignIns, MaxMinutes

VARIABLES jar, tab, known, recent, signing, member, minted, minutes, chosen, undone

Ses == INSTANCE Sessions

Busy == {"refreshing", "callback", "choosing"}

Places == Ses!Settled \cup Busy \cup {"load", "refresh"}

\* What a handler under way has read.
Args(at, arg) ==
    /\ at = "refreshing" => arg \in Users \X (Orgs \cup {None})
    /\ at = "callback" => arg \in BOOLEAN \X Users \X (Orgs \cup {None})
    /\ at = "choosing" => arg \in Ses!Token \X Orgs

TabsOK ==
    /\ DOMAIN tab = Tabs
    /\ \A t \in Tabs : tab[t].at \in Places /\ Args(tab[t].at, tab[t].arg)

\* Everything but the tabs.
DataOK ==
    /\ jar \in Ses!Jar
    /\ signing \in 1..MaxKeys /\ minted \in 0..MaxSignIns
    /\ known \in [Instances -> 0..signing] /\ recent \in [Instances -> BOOLEAN]
    /\ member \in [Users -> SUBSET Orgs]
    /\ minutes \in 0..MaxMinutes /\ faults \in 0..MaxFaults
    /\ chosen \in (Users \X Orgs) \cup {None} /\ undone \in BOOLEAN

\* The organization chosen last is its user's, and the one acted in.
Kept ==
    /\ chosen # None => chosen[2] \in member[chosen[1]]
    /\ Ses!ChosenSurvives

SesInv == Ses!SessionsAssumption /\ DataOK /\ TabsOK /\ Kept

LEMMA SesInitInv == ASSUME Ses!SessionsAssumption, Ses!Init  PROVE SesInv
<1>1. jar \in Ses!Jar
  <2>1. Ses!Empty \in Ses!Jar
    BY DEF Ses!Empty, Ses!Jar
  <2>2. ASSUME NEW u \in Users, NEW o \in Orgs  PROVE Ses!SignedIn(u, o) \in Ses!Jar
    <3>1. <<u, 1, TRUE>> \in Ses!Token /\ <<u, o>> \in Users \X Orgs
      <4>1. 1 \in 1..MaxKeys
        BY DEF Ses!SessionsAssumption
      <4> QED  BY <4>1 DEF Ses!Token
    <3> QED  BY <3>1 DEF Ses!SignedIn, Ses!Empty, Ses!Jar
  <2> QED  BY <2>1, <2>2 DEF Ses!Init
<1>2. DataOK
  <2>1. undone \in BOOLEAN /\ chosen = None
    BY DEF Ses!Init
  <2>2. /\ signing \in 1..MaxKeys /\ minted \in 0..MaxSignIns
        /\ known \in [Instances -> 0..signing] /\ recent \in [Instances -> BOOLEAN]
        /\ member \in [Users -> SUBSET Orgs]
        /\ minutes \in 0..MaxMinutes /\ faults \in 0..MaxFaults
    BY DEF Ses!Init, Ses!SessionsAssumption
  <2> QED  BY <1>1, <2>1, <2>2 DEF DataOK
<1>3. TabsOK
  BY DEF Ses!Init, TabsOK, Args, Places, Ses!Settled
<1>4. Kept
  BY DEF Ses!Init, Kept, Ses!ChosenSurvives
<1> QED  BY <1>2, <1>3, <1>4 DEF SesInv

-----------------------------------------------------------------------------
(* A step of one tab. *)

LEMMA OneTab ==
    ASSUME SesInv, NEW t \in Tabs, NEW at \in Places, NEW arg, Args(at, arg),
           Ses!Go(t, at, arg), DataOK', Kept'
    PROVE  SesInv'
<1>1. /\ DOMAIN tab' = Tabs /\ tab'[t] = [at |-> at, arg |-> arg]
      /\ \A s \in Tabs \ {t} : tab'[s] = tab[s]
  BY DEF Ses!Go, SesInv, TabsOK
<1>2. TabsOK'
  BY <1>1 DEF SesInv, TabsOK, Args
<1> QED  BY <1>2 DEF SesInv

\* A step that leaves the tabs alone.
LEMMA NoTab == ASSUME SesInv, UNCHANGED tab, DataOK', Kept'  PROVE SesInv'
BY DEF SesInv, TabsOK, Args

\* A step that leaves the choice, the memberships and the organization alone,
\* or clears the organization.
LEMMA KeptOn ==
    ASSUME SesInv, UNCHANGED <<member, Ses!choice>>, jar'.scope \in {jar.scope, None}
    PROVE  Kept'
BY DEF SesInv, Kept, Ses!choice, Ses!ChosenSurvives

\* The caches after a token was looked at.
LEMMA Caches ==
    ASSUME SesInv, NEW i \in Instances, NEW token,
           Ses!Verifies(i, token) \/ Ses!Checks(i) \/ UNCHANGED Ses!api
    PROVE  known' \in [Instances -> 0..signing] /\ recent' \in [Instances -> BOOLEAN]
<1>1. known \in [Instances -> 0..signing] /\ recent \in [Instances -> BOOLEAN] /\ signing \in Nat
  BY DEF SesInv, DataOK, Ses!SessionsAssumption
<1>2. ASSUME NEW tok, Ses!Verifies(i, tok)
      PROVE  known' \in [Instances -> 0..signing] /\ recent' \in [Instances -> BOOLEAN]
  <2>1. Ses!KnownAfter(i, tok[2]) \in 0..signing
    BY <1>1 DEF Ses!KnownAfter
  <2>2. (recent[i] \/ Ses!Fetches(i, tok[2])) \in BOOLEAN
    OBVIOUS
  <2> QED  BY <1>1, <1>2, <2>1, <2>2 DEF Ses!Verifies
<1> QED  BY <1>1, <1>2 DEF Ses!Checks, Ses!api

-----------------------------------------------------------------------------
(* Pages. *)

LEMMA PagesInv ==
    ASSUME SesInv, NEW t \in Tabs,
           \/ Ses!Visit(t) \/ Ses!Turned(t) \/ Ses!Start(t)
           \/ \E i \in Instances : Ses!Load(t, i) \/ Ses!Call(t, i)
    PROVE  SesInv'
<1>1. CASE Ses!Visit(t) \/ Ses!Turned(t)
  <2>1. \E at \in {"load", "login", "refresh"} : \E arg : Ses!Go(t, at, arg)
    BY <1>1 DEF Ses!Visit, Ses!Turned
  <2>2. UNCHANGED <<jar, Ses!api, Ses!pool, member, minutes, faults, Ses!choice>>
    BY <1>1 DEF Ses!Visit, Ses!Turned
  <2>3. DataOK' /\ Kept'
    BY <2>2, KeptOn DEF SesInv, DataOK, Ses!api, Ses!pool, Ses!choice
  <2> QED  BY <2>1, <2>2, <2>3, OneTab DEF Places, Ses!Settled, Args
<1>2. CASE Ses!Start(t)
  <2>1. /\ jar' = [jar EXCEPT !.oauth = minted + 1] /\ minted' = minted + 1
        /\ minted < MaxSignIns /\ Ses!Go(t, "hosted", minted + 1)
        /\ UNCHANGED <<Ses!api, signing, member, minutes, faults, Ses!choice>>
    BY <1>2 DEF Ses!Start
  <2>2. minted \in Nat /\ minted + 1 \in 1..MaxSignIns
    BY <2>1 DEF SesInv, DataOK, Ses!SessionsAssumption
  <2>3. jar' \in Ses!Jar /\ jar'.scope = jar.scope
    BY <2>1, <2>2 DEF SesInv, DataOK, Ses!Jar
  <2>4. DataOK' /\ Kept'
    BY <2>1, <2>2, <2>3, KeptOn DEF SesInv, DataOK, Ses!api, Ses!choice
  <2> QED  BY <2>1, <2>4, OneTab DEF Places, Ses!Settled, Args
<1>3. CASE \E i \in Instances : Ses!Load(t, i)
  <2>1. PICK i \in Instances : Ses!Load(t, i)
    BY <1>3
  <2>2. \E at \in {"refresh", "refused", "page"} : \E arg : Ses!Go(t, at, arg)
    BY <2>1 DEF Ses!Load, Ses!SentToRenewal
  <2>3. Ses!Checks(i) /\ UNCHANGED <<jar, Ses!pool, member, minutes, faults, Ses!choice>>
    BY <2>1 DEF Ses!Load
  <2>4. DataOK' /\ Kept'
    BY <2>3, Caches, KeptOn DEF SesInv, DataOK, Ses!pool, Ses!choice
  <2> QED  BY <2>2, <2>3, <2>4, OneTab DEF Places, Ses!Settled, Args
<1>4. CASE \E i \in Instances : Ses!Call(t, i)
  <2>1. PICK i \in Instances : Ses!Call(t, i)
    BY <1>4
  <2>2. Ses!Go(t, "refresh", "unauthorized") \/ UNCHANGED tab
    BY <2>1 DEF Ses!Call, Ses!SentToRenewal
  <2>3. Ses!Checks(i) /\ UNCHANGED <<jar, Ses!pool, member, minutes, faults, Ses!choice>>
    BY <2>1 DEF Ses!Call
  <2>4. DataOK' /\ Kept'
    BY <2>3, Caches, KeptOn DEF SesInv, DataOK, Ses!pool, Ses!choice
  <2> QED  BY <2>2, <2>3, <2>4, OneTab, NoTab DEF Places, Args
<1> QED  BY <1>1, <1>2, <1>3, <1>4

-----------------------------------------------------------------------------
(* Handlers that write the session and the organization. *)

\* What a handler may leave of the cookies before the profile is asked for.
LEMMA EstablishedInv ==
    ASSUME SesInv, NEW t \in Tabs, NEW i \in Instances, NEW user \in Users,
           NEW rest \in Ses!Jar, rest.scope = jar.scope,
           Ses!Established(t, i, user, Ses!ReadOrg(t), rest),
           UNCHANGED <<Ses!pool, member, minutes>>
    PROVE  SesInv'
<1> DEFINE token == Ses!Issued(user)
           org == Ses!ReadOrg(t)
           orgs == IF Ses!Resolves(user, org) # {} THEN Ses!Resolves(user, org)
                                               ELSE Ses!Resolves(user, None)
<1>1. token \in Ses!Token
  BY DEF Ses!Issued, Ses!Token, SesInv, DataOK
<1>2. orgs \subseteq Orgs
  BY DEF Ses!Resolves, SesInv, DataOK
<1>3. chosen # None /\ user = chosen[1] /\ org = chosen[2] => orgs = {chosen[2]}
  <2> SUFFICES ASSUME chosen # None, user = chosen[1], org = chosen[2]  PROVE orgs = {chosen[2]}
    OBVIOUS
  <2>1. chosen[2] \in Orgs /\ chosen[2] \in member[user]
    BY DEF SesInv, DataOK, Kept
  <2>2. Ses!Resolves(user, org) = {chosen[2]}
    BY <2>1 DEF Ses!Resolves, SesInv, Ses!SessionsAssumption
  <2> QED  BY <2>2
<1>4. /\ Ses!Verifies(i, token) /\ UNCHANGED faults
      /\ \/ /\ chosen # None /\ chosen[1] = user
            /\ chosen' = chosen /\ undone' = (undone \/ org # chosen[2])
         \/ chosen' = None /\ undone' = FALSE
      /\ \/ /\ \E o \in orgs : jar' = [rest EXCEPT !.session = token, !.scope = <<user, o>>]
            /\ Ses!Go(t, "load", None)
         \/ orgs = {} /\ jar' = [rest EXCEPT !.session = token] /\ Ses!Go(t, "organization", None)
  BY DEF Ses!Established, Ses!Keeps
<1> HIDE DEF token, org, orgs
<1>5. jar' \in Ses!Jar
  <2>1. \A o \in orgs : <<user, o>> \in Users \X Orgs
    BY <1>2
  <2> QED  BY <1>1, <1>4, <2>1 DEF Ses!Jar
<1>6. DataOK'
  <2>1. chosen' \in (Users \X Orgs) \cup {None} /\ undone' \in BOOLEAN
    BY <1>4 DEF SesInv, DataOK
  <2> QED  BY <1>4, <1>5, <2>1, Caches DEF SesInv, DataOK, Ses!pool
<1>7. Kept'
  <2>1. chosen' = None \/ (chosen' = chosen /\ chosen[2] \in member[chosen[1]])
    BY <1>4 DEF SesInv, Kept
  <2>2. ASSUME chosen' # None, ~undone', jar'.scope # None, jar'.scope[1] = chosen'[1]
        PROVE  jar'.scope = chosen'
    <3>1. chosen' = chosen /\ chosen # None /\ chosen[1] = user /\ ~undone /\ org = chosen[2]
      BY <1>4, <2>2
    <3>2. CASE \E o \in orgs : jar' = [rest EXCEPT !.session = token, !.scope = <<user, o>>]
      <4>1. jar' = [rest EXCEPT !.session = token, !.scope = <<user, chosen[2]>>]
        BY <1>3, <3>1, <3>2
      <4>2. chosen = <<chosen[1], chosen[2]>>
        BY <3>1 DEF SesInv, DataOK
      <4> QED  BY <3>1, <4>1, <4>2 DEF Ses!Jar
    <3>3. CASE jar' = [rest EXCEPT !.session = token]
      <4>1. jar'.scope = jar.scope
        BY <3>3 DEF Ses!Jar
      <4> QED  BY <2>2, <3>1, <4>1 DEF SesInv, Kept, Ses!ChosenSurvives
    <3> QED  BY <1>4, <3>2, <3>3
  <2> QED  BY <2>1, <2>2 DEF Kept, Ses!ChosenSurvives
<1> QED  BY <1>4, <1>6, <1>7, OneTab DEF Places, Ses!Settled, Args

LEMMA ProfileFailsInv ==
    ASSUME SesInv, NEW t \in Tabs, NEW i \in Instances, NEW user \in Users, NEW rest \in Ses!Jar,
           Ses!ProfileFails(t, i, user, rest), UNCHANGED <<Ses!pool, member, minutes>>
    PROVE  SesInv'
<1>1. /\ Ses!Verifies(i, Ses!Issued(user)) \/ UNCHANGED Ses!api
      /\ UNCHANGED faults \/ (faults < MaxFaults /\ faults' = faults + 1)
      /\ jar' = [rest EXCEPT !.session = None, !.scope = None] /\ UNCHANGED Ses!choice
      /\ Ses!Go(t, "login", None)
  BY DEF Ses!ProfileFails
<1>2. jar' \in Ses!Jar /\ jar'.scope = None
  BY <1>1 DEF Ses!Jar
<1>3. faults' \in 0..MaxFaults
  BY <1>1 DEF SesInv, DataOK, Ses!SessionsAssumption
<1>4. DataOK' /\ Kept'
  BY <1>1, <1>2, <1>3, Caches, KeptOn DEF SesInv, DataOK, Ses!pool, Ses!choice
<1> QED  BY <1>1, <1>4, OneTab DEF Places, Ses!Settled, Args

\* A handler that ends in nothing: cookies cleared, the login page.
LEMMA Nothing ==
    ASSUME SesInv, NEW t \in Tabs, jar' \in Ses!Jar, jar'.scope = None, Ses!Go(t, "login", None),
           UNCHANGED Ses!choice \/ (chosen' = None /\ undone' = FALSE),
           faults' \in 0..MaxFaults, UNCHANGED <<Ses!api, Ses!pool, member, minutes>>
    PROVE  SesInv'
<1>1. DataOK'
  BY DEF SesInv, DataOK, Ses!api, Ses!pool, Ses!choice
<1>2. Kept'
  BY KeptOn DEF Kept, Ses!ChosenSurvives
<1> QED  BY <1>1, <1>2, OneTab DEF Places, Ses!Settled, Args

LEMMA Emptied ==
    ASSUME SesInv
    PROVE  /\ Ses!Empty \in Ses!Jar /\ Ses!SessionCleared \in Ses!Jar
           /\ Ses!Empty.scope = None /\ Ses!SessionCleared.scope = None
           /\ [jar EXCEPT !.oauth = None] \in Ses!Jar
           /\ [jar EXCEPT !.guard = TRUE] \in Ses!Jar
BY DEF SesInv, DataOK, Ses!Empty, Ses!SessionCleared, Ses!Jar

LEMMA RenewalInv ==
    ASSUME SesInv, NEW t \in Tabs,
           Ses!Refresh(t) \/ Ses!RenewalFails(t) \/ \E i \in Instances : Ses!Renewed(t, i)
    PROVE  SesInv'
<1>1. CASE Ses!Refresh(t)
  <2>1. /\ UNCHANGED <<Ses!api, Ses!pool, member, minutes, faults, Ses!choice>>
        /\ faults \in 0..MaxFaults
    BY <1>1 DEF Ses!Refresh, SesInv, DataOK
  <2>2. CASE Ses!Go(t, "login", None) /\ jar' \in {Ses!SessionCleared, Ses!Empty}
    BY <2>1, <2>2, Emptied, Nothing
  <2>3. CASE /\ jar.refresh # None /\ Ses!Go(t, "refreshing", <<jar.refresh, Ses!OrgOf(jar.scope)>>)
             /\ UNCHANGED jar
    <3> DEFINE arg == <<jar.refresh, Ses!OrgOf(jar.scope)>>
    <3>1. arg \in Users \X (Orgs \cup {None})
      BY <2>3 DEF Ses!OrgOf, SesInv, DataOK, Ses!Jar
    <3> HIDE DEF arg
    <3>2. Args("refreshing", arg)
      BY <3>1 DEF Args
    <3>3. DataOK' /\ Kept'
      BY <2>1, <2>3, KeptOn DEF SesInv, DataOK, Ses!api, Ses!pool, Ses!choice
    <3> QED  BY <2>3, <3>2, <3>3, OneTab DEF Places, Busy, arg
  <2> QED  BY <1>1, <2>2, <2>3 DEF Ses!Refresh
<1>2. CASE Ses!RenewalFails(t)
  <2>1. faults' \in 0..MaxFaults
    BY <1>2 DEF Ses!RenewalFails, SesInv, DataOK, Ses!SessionsAssumption
  <2> QED  BY <1>2, <2>1, Emptied, Nothing DEF Ses!RenewalFails
<1>3. CASE \E i \in Instances : Ses!Renewed(t, i)
  <2>1. PICK i \in Instances : Ses!Renewed(t, i)
    BY <1>3
  <2> DEFINE user == tab[t].arg[1]
  <2>2. tab[t].at = "refreshing" /\ UNCHANGED <<Ses!pool, member, minutes>>
    BY <2>1 DEF Ses!Renewed
  <2>3. user \in Users /\ tab[t].arg[2] = Ses!ReadOrg(t)
    BY <2>2 DEF SesInv, TabsOK, Args, Ses!ReadOrg
  <2>4. \/ Ses!Established(t, i, user, Ses!ReadOrg(t), [jar EXCEPT !.guard = TRUE])
        \/ Ses!ProfileFails(t, i, user, jar)
    BY <2>1, <2>3 DEF Ses!Renewed
  <2>5. jar \in Ses!Jar /\ [jar EXCEPT !.guard = TRUE].scope = jar.scope
    BY DEF SesInv, DataOK, Ses!Jar
  <2> HIDE DEF user
  <2> QED  BY <2>2, <2>3, <2>4, <2>5, Emptied, EstablishedInv, ProfileFailsInv
<1> QED  BY <1>1, <1>2, <1>3

LEMMA SignInInv ==
    ASSUME SesInv, NEW t \in Tabs,
           \/ \E u \in Users : Ses!Returns(t, u)
           \/ \E i \in Instances : Ses!Callback(t, i)
           \/ Ses!Logout(t)
    PROVE  SesInv'
<1>1. CASE \E u \in Users : Ses!Returns(t, u)
  <2>1. PICK u \in Users : Ses!Returns(t, u)
    BY <1>1
  <2> DEFINE arg == <<jar.oauth = tab[t].arg, u, Ses!OrgOf(jar.scope)>>
  <2>2. Ses!Go(t, "callback", arg) /\ UNCHANGED <<jar, Ses!api, Ses!pool, member, minutes, faults, Ses!choice>>
    BY <2>1 DEF Ses!Returns
  <2>3. Ses!OrgOf(jar.scope) \in Orgs \cup {None}
    BY DEF Ses!OrgOf, SesInv, DataOK, Ses!Jar
  <2>4. (jar.oauth = tab[t].arg) \in BOOLEAN
    OBVIOUS
  <2>5. Args("callback", arg)
    BY <2>3, <2>4 DEF Args
  <2>6. DataOK' /\ Kept'
    BY <2>2, KeptOn DEF SesInv, DataOK, Ses!api, Ses!pool, Ses!choice
  <2> HIDE DEF arg
  <2> QED  BY <2>2, <2>5, <2>6, OneTab DEF Places, Busy
<1>2. CASE \E i \in Instances : Ses!Callback(t, i)
  <2>1. PICK i \in Instances : Ses!Callback(t, i)
    BY <1>2
  <2> DEFINE user == tab[t].arg[2]
             rest == [jar EXCEPT !.oauth = None]
             signed == [rest EXCEPT !.refresh = user]
  <2>2. tab[t].at = "callback" /\ UNCHANGED <<Ses!pool, member, minutes>>
    BY <2>1 DEF Ses!Callback
  <2>3. user \in Users /\ tab[t].arg[3] = Ses!ReadOrg(t)
    BY <2>2 DEF SesInv, TabsOK, Args, Ses!ReadOrg
  <2>5. signed \in Ses!Jar /\ signed.scope = jar.scope
    BY <2>3 DEF SesInv, DataOK, Ses!Jar
  <2>6. \/ /\ faults' = faults \/ (faults < MaxFaults /\ faults' = faults + 1)
           /\ jar' = [rest EXCEPT !.session = None, !.scope = None]
           /\ Ses!Go(t, "login", None) /\ UNCHANGED <<Ses!api, Ses!choice>>
        \/ Ses!Established(t, i, user, Ses!ReadOrg(t), signed)
        \/ Ses!ProfileFails(t, i, user, signed)
    BY <2>1, <2>3 DEF Ses!Callback
  <2>7. faults' = faults \/ (faults < MaxFaults /\ faults' = faults + 1) => faults' \in 0..MaxFaults
    BY DEF SesInv, DataOK, Ses!SessionsAssumption
  <2>8. /\ [rest EXCEPT !.session = None, !.scope = None] \in Ses!Jar
        /\ [rest EXCEPT !.session = None, !.scope = None].scope = None
    BY DEF SesInv, DataOK, Ses!Jar
  <2> HIDE DEF user, rest, signed
  <2> QED  BY <2>2, <2>3, <2>5, <2>6, <2>7, <2>8, EstablishedInv, ProfileFailsInv, Nothing
<1>3. CASE Ses!Logout(t)
  BY <1>3, Emptied, Nothing DEF Ses!Logout, SesInv, DataOK
<1> QED  BY <1>1, <1>2, <1>3

-----------------------------------------------------------------------------
(* Organizations, time and administration. *)

LEMMA ChoiceInv ==
    ASSUME SesInv, NEW t \in Tabs,
           (\E o \in Orgs : Ses!Choose(t, o)) \/ \E i \in Instances : Ses!Chosen(t, i)
    PROVE  SesInv'
<1>1. CASE \E o \in Orgs : Ses!Choose(t, o)
  <2>1. PICK o \in Orgs : Ses!Choose(t, o)
    BY <1>1
  <2>2. /\ jar.session \in Ses!Token /\ Ses!Go(t, "choosing", <<jar.session, o>>)
        /\ UNCHANGED <<jar, Ses!api, Ses!pool, member, minutes, faults, Ses!choice>>
    BY <2>1 DEF Ses!Choose, SesInv, DataOK, Ses!Jar
  <2>3. DataOK' /\ Kept'
    BY <2>2, KeptOn DEF SesInv, DataOK, Ses!api, Ses!pool, Ses!choice
  <2> QED  BY <2>2, <2>3, OneTab DEF Places, Busy, Args
<1>2. CASE \E i \in Instances : Ses!Chosen(t, i)
  <2>1. PICK i \in Instances : Ses!Chosen(t, i)
    BY <1>2
  <2> DEFINE token == tab[t].arg[1]  org == tab[t].arg[2]  user == token[1]
  <2>2. /\ tab[t].at = "choosing" /\ Ses!Verifies(i, token) /\ UNCHANGED <<Ses!pool, minutes, faults>>
        /\ \/ /\ member' = [member EXCEPT ![user] = @ \cup {org}]
              /\ jar' = [jar EXCEPT !.scope = <<user, org>>]
              /\ chosen' = <<user, org>> /\ undone' = FALSE
              /\ Ses!Go(t, "load", None)
           \/ Ses!Go(t, "login", None) /\ UNCHANGED <<jar, member, Ses!choice>>
    BY <2>1 DEF Ses!Chosen
  <2>3. user \in Users /\ org \in Orgs /\ token \in Ses!Token
    BY <2>2 DEF SesInv, TabsOK, Args, Ses!Token
  <2> HIDE DEF token, org, user
  <2>4. CASE Ses!Go(t, "login", None) /\ UNCHANGED <<jar, member, Ses!choice>>
    <3>1. DataOK' /\ Kept'
      BY <2>2, <2>4, Caches, KeptOn DEF SesInv, DataOK, Ses!pool, Ses!choice
    <3> QED  BY <2>4, <3>1, OneTab DEF Places, Ses!Settled, Args
  <2>5. CASE /\ member' = [member EXCEPT ![user] = @ \cup {org}]
             /\ jar' = [jar EXCEPT !.scope = <<user, org>>]
             /\ chosen' = <<user, org>> /\ undone' = FALSE
             /\ Ses!Go(t, "load", None)
    <3>1. jar' \in Ses!Jar /\ jar'.scope = <<user, org>>
      BY <2>3, <2>5 DEF SesInv, DataOK, Ses!Jar
    <3>2. member' \in [Users -> SUBSET Orgs] /\ org \in member'[user]
      BY <2>3, <2>5 DEF SesInv, DataOK
    <3>3. DataOK'
      BY <2>2, <2>3, <2>5, <3>1, <3>2, Caches DEF SesInv, DataOK, Ses!pool
    <3>4. Kept'
      BY <2>5, <3>1, <3>2 DEF Kept, Ses!ChosenSurvives
    <3> QED  BY <2>5, <3>3, <3>4, OneTab DEF Places, Args
  <2> QED  BY <2>2, <2>4, <2>5
<1> QED  BY <1>1, <1>2

LEMMA AroundInv ==
    ASSUME SesInv, \/ Ses!Minute \/ Ses!Rotate
                   \/ \E u \in Users, o \in Orgs : Ses!Revoke(u, o)
                   \/ UNCHANGED Ses!vars
    PROVE  SesInv'
<1>1. CASE Ses!Minute
  <2>1. PICK s \in {jar.session, None} \cup Ses!Expired(jar.session) :
          jar' = [jar EXCEPT !.guard = FALSE, !.session = s]
    BY <1>1 DEF Ses!Minute
  <2>2. s \in Ses!Token \cup {None}
    <3>1. ASSUME NEW token \in Ses!Token  PROVE <<token[1], token[2], FALSE>> \in Ses!Token
      BY DEF Ses!Token
    <3>2. jar.session \in Ses!Token \cup {None}
      BY DEF SesInv, DataOK, Ses!Jar
    <3> QED  BY <2>1, <3>1, <3>2 DEF Ses!Expired
  <2>3. jar' \in Ses!Jar /\ jar'.scope = jar.scope
    BY <2>1, <2>2 DEF SesInv, DataOK, Ses!Jar
  <2>4. /\ minutes' \in 0..MaxMinutes /\ recent' \in [Instances -> BOOLEAN]
        /\ UNCHANGED <<tab, known, Ses!pool, member, faults, Ses!choice>>
    <3>1. minutes \in 0..MaxMinutes /\ minutes < MaxMinutes /\ minutes' = minutes + 1
      BY <1>1 DEF Ses!Minute, SesInv, DataOK
    <3>2. minutes' \in 0..MaxMinutes
      BY <3>1 DEF SesInv, Ses!SessionsAssumption
    <3> QED  BY <1>1, <3>2 DEF Ses!Minute
  <2>5. DataOK' /\ Kept'
    BY <2>3, <2>4, KeptOn DEF SesInv, DataOK, Ses!pool, Ses!choice
  <2> QED  BY <2>4, <2>5, NoTab
<1>2. CASE Ses!Rotate
  <2>1. /\ signing' \in 1..MaxKeys /\ signing' = signing + 1 /\ signing \in Nat
        /\ UNCHANGED <<jar, tab, Ses!api, minted, member, minutes, faults, Ses!choice>>
    BY <1>2 DEF Ses!Rotate, SesInv, DataOK, Ses!SessionsAssumption
  <2>2. known' \in [Instances -> 0..signing']
    BY <2>1 DEF SesInv, DataOK, Ses!api
  <2>3. DataOK' /\ Kept'
    BY <2>1, <2>2, KeptOn DEF SesInv, DataOK, Ses!api, Ses!choice
  <2> QED  BY <2>1, <2>3, NoTab
<1>3. CASE \E u \in Users, o \in Orgs : Ses!Revoke(u, o)
  <2>1. PICK u \in Users, o \in Orgs : Ses!Revoke(u, o)
    BY <1>3
  <2>2. /\ member' = [member EXCEPT ![u] = @ \ {o}]
        /\ faults < MaxFaults /\ faults' = faults + 1
        /\ \/ chosen' = None /\ undone' = FALSE
           \/ chosen # <<u, o>> /\ UNCHANGED Ses!choice
        /\ UNCHANGED <<jar, tab, Ses!api, Ses!pool, minutes>>
    BY <2>1 DEF Ses!Revoke
  <2>3. DataOK'
    <3>1. chosen' \in (Users \X Orgs) \cup {None} /\ undone' \in BOOLEAN
      BY <2>2 DEF SesInv, DataOK, Ses!choice
    <3>2. member' \in [Users -> SUBSET Orgs] /\ faults' \in 0..MaxFaults
      BY <2>2 DEF SesInv, DataOK, Ses!SessionsAssumption
    <3> QED  BY <2>2, <3>1, <3>2 DEF SesInv, DataOK, Ses!api, Ses!pool
  <2>4. Kept'
    <3>1. CASE chosen' = None
      BY <3>1 DEF Kept, Ses!ChosenSurvives
    <3>2. CASE chosen # None /\ chosen # <<u, o>> /\ UNCHANGED Ses!choice
      <4>1. chosen \in Users \X Orgs /\ chosen[2] \in member[chosen[1]]
        BY <3>2 DEF SesInv, DataOK, Kept
      <4>2. ~(chosen[1] = u /\ chosen[2] = o)
        BY <3>2, <4>1
      <4>3. chosen[2] \in member'[chosen[1]]
        BY <2>2, <4>1, <4>2 DEF SesInv, DataOK
      <4> QED  BY <2>2, <3>2, <4>3 DEF SesInv, Kept, Ses!choice, Ses!ChosenSurvives
    <3> QED  BY <2>2, <3>1, <3>2 DEF Ses!choice
  <2> QED  BY <2>2, <2>3, <2>4, NoTab
<1>4. CASE UNCHANGED Ses!vars
  <2>1. DataOK' /\ Kept'
    BY <1>4, KeptOn DEF Ses!vars, Ses!api, Ses!pool, Ses!choice, SesInv, DataOK
  <2> QED  BY <1>4, <2>1, NoTab DEF Ses!vars
<1> QED  BY <1>1, <1>2, <1>3, <1>4

LEMMA SesNextInv == ASSUME SesInv, [Ses!Next]_(Ses!vars)  PROVE SesInv'
BY PagesInv, RenewalInv, SignInInv, ChoiceInv, AroundInv DEF Ses!Next, Ses!Handlers

LEMMA AlwaysSesInv == ASSUME Ses!SessionsAssumption  PROVE Ses!Spec => []SesInv
<1>1. Ses!SessionsAssumption /\ Ses!Init => SesInv
  BY SesInitInv
<1>2. SesInv /\ [Ses!Next]_(Ses!vars) => SesInv'
  BY SesNextInv
<1> QED  BY <1>1, <1>2, PTL DEF Ses!Spec

\* Cookies, tabs and key caches keep their types, and no instance of the API
\* knows a key the pool has not made.
THEOREM SessionsTypeCorrect == ASSUME Ses!SessionsAssumption  PROVE Ses!Spec => []Ses!TypeOK
<1>1. SesInv => Ses!TypeOK
  BY DEF SesInv, DataOK, TabsOK, Ses!TypeOK, Places, Busy
<1> QED  BY AlwaysSesInv, <1>1, PTL

\* "the chosen organization survives a refresh" (lib/auth-session.ts:112): for
\* any number of tabs, users and failures, a renewal or a sign-in that has read
\* the organization chosen last stores it again.  One that has read another, or
\* none because a failure deleted it, is what undoes the choice.
THEOREM ChoiceSurvives == ASSUME Ses!SessionsAssumption  PROVE Ses!Spec => []Ses!ChosenSurvives
<1>1. SesInv => Ses!ChosenSurvives
  BY DEF SesInv, Kept
<1> QED  BY AlwaysSesInv, <1>1, PTL

-----------------------------------------------------------------------------
(* LiveScreen. *)

CONSTANTS Targets, Reviewed, Views, MaxChanges, MaxEdits, MaxFetches, Ready

VARIABLES now, drawn, log, edits, hub, phase, wire, link, lastId, reconciled, received,
          asked, shown, newest, error, missed, crossed

Sse == INSTANCE LiveScreen WITH Screens <- Views

Assumed == Sse!ScreenAssumption /\ Sse!EventAssumption

\* An instance has a Cardinality of its own, defined as the library's is.
LEMMA SameCount == \A S : Sse!Cardinality(S) = Cardinality(S)
BY DEF Cardinality, Sse!Cardinality

Begun == {t \in Targets : open[t] # None}

\* Ids are drawn once: in the log or by one transaction under way; and a
\* target moves by its own transactions only, one after the other.
Drawn ==
    /\ IsFiniteSet(Begun) /\ Len(log) + Cardinality(Begun) = drawn
    /\ \A id \in Sse!Ids(log) : id <= drawn
    /\ \A t \in Begun :
          /\ open[t].id \notin Sse!Ids(log) /\ open[t].id <= drawn
          /\ open[t].target = t /\ open[t].state = now[t].state + 1
          /\ \A u \in Begun : open[u].id = open[t].id => u = t
    /\ \A t \in Targets : /\ now[t].state <= Len(log)
                          /\ now[t].doc <= Len(log) + edits

\* What a stream and its screen know is in the log, and at which phase.
Placed ==
    /\ received \cup Sse!Ids(wire) \cup Sse!Ids(hub.queue) \subseteq Sse!Ids(log)
    /\ ~hub.listening => hub.queue = <<>>
    /\ lastId = 0 <=> received = {}
    /\ received # {} => lastId \in received
    /\ phase \in {"ready", "replayed"} => received # {}
    /\ phase \in {"down", "ready"} => Sse!Ids(wire) = {}

\* Ids written to the wire before its n-th message.
Before(s, n) == {s[i].id : i \in {k \in 1..n - 1 : s[k] # Ready}}

\* Events are queued in the order of their ids, and everything after the
\* first of them is queued too.
QueueIsTheEnd ==
    /\ \A i, k \in DOMAIN hub.queue : i < k => hub.queue[i].id < hub.queue[k].id
    /\ \A id \in Sse!Ids(log), q \in Sse!Ids(hub.queue) : id > q => id \in Sse!Ids(hub.queue)

\* Nothing comes in below what has been received, or below the first event of
\* a stream that nothing has been received from.
FromTheFirst ==
    /\ received # {} => \A id \in Sse!Ids(wire) \cup Sse!Ids(hub.queue) :
                           \E r \in received : r <= id
    /\ received = {} =>
          \A i \in DOMAIN wire : wire[i] # Ready =>
             /\ \A k \in DOMAIN wire : i < k /\ wire[k] # Ready => wire[i].id <= wire[k].id
             /\ \A id \in Sse!Ids(hub.queue) : wire[i].id <= id

\* Between two events received, and between one known and a later one on the
\* wire, the log has none that has not come before.
NoGaps ==
    /\ \A r, s \in received, id \in Sse!Ids(log) : r < id /\ id < s => id \in received
    /\ \A n \in DOMAIN wire : wire[n] # Ready =>
          \A r \in received \cup Before(wire, n), id \in Sse!Ids(log) :
             r < id /\ id < wire[n].id => id \in received \cup Before(wire, n)

\* A stream that is on has what follows, or will be handed it.
NothingBehind ==
    phase \in {"replayed", "on"} =>
        \A r \in received \cup Sse!Ids(wire), id \in Sse!Ids(log) :
            r < id => id \in received \cup Sse!Ids(wire) \cup Sse!Ids(hub.queue)

\* As long as no event has passed the stream and ids follow the commits.
Tracked == ~missed /\ ~Sse!Inverted

Whole == QueueIsTheEnd /\ FromTheFirst /\ NoGaps /\ NothingBehind

SseInv == /\ Assumed /\ Sse!TypeOK /\ IsFiniteSet(answers) /\ Drawn /\ Placed
          /\ Tracked => Whole

-----------------------------------------------------------------------------
(* Ids of sequences of messages. *)

Message == Sse!Event \cup {Ready}

LEMMA BeforeAll == ASSUME Assumed, NEW s \in Seq(Message)  PROVE Sse!Ids(s) = Before(s, Len(s) + 1)
BY DEF Sse!Ids, Before

LEMMA IdOf ==
    ASSUME Assumed, NEW s \in Seq(Message), NEW n \in DOMAIN s, s[n] # Ready
    PROVE  s[n].id \in Sse!Ids(s) /\ s[n] \in Sse!Event /\ Before(s, n) \subseteq Sse!Ids(s)
BY DEF Sse!Ids, Before, Message

LEMMA IdsAreIds ==
    ASSUME Assumed, NEW s \in Seq(Message)
    PROVE  /\ \A id \in Sse!Ids(s) : id \in 1..MaxChanges /\ id \in Nat /\ MaxChanges \in Nat
           /\ \A i \in DOMAIN s : s[i] # Ready => s[i].id \in Sse!Ids(s)
<1>1. \A i \in DOMAIN s : s[i] # Ready => s[i].id \in 1..MaxChanges
  BY DEF Message, Sse!Event
<1>2. MaxChanges \in Nat /\ 1..MaxChanges \subseteq Nat
  BY DEF Assumed, Sse!ScreenAssumption
<1>3. ASSUME NEW id \in Sse!Ids(s)  PROVE id \in 1..MaxChanges
  BY <1>1 DEF Sse!Ids
<1>4. \A i \in DOMAIN s : s[i] # Ready => s[i].id \in Sse!Ids(s)
  BY DEF Sse!Ids
<1> QED  BY <1>2, <1>3, <1>4

LEMMA EventSeqs == \A s \in Seq(Sse!Event) : s \in Seq(Message)
<1>1. Sse!Event \subseteq Message
  BY DEF Message
<1> QED  BY <1>1

LEMMA InBefore ==
    ASSUME Assumed, NEW s \in Seq(Message), NEW n \in Nat, NEW x
    PROVE  x \in Before(s, n) <=> \E i \in 1..n - 1 : s[i] # Ready /\ s[i].id = x
BY DEF Before

LEMMA AppendIds ==
    ASSUME Assumed, NEW s \in Seq(Message), NEW e \in Sse!Event
    PROVE  /\ Sse!Ids(Append(s, e)) = Sse!Ids(s) \cup {e.id}
           /\ \A n \in 1..Len(s) + 1 : Before(Append(s, e), n) = Before(s, n)
<1>1. /\ Append(s, e) \in Seq(Message) /\ Len(Append(s, e)) = Len(s) + 1 /\ Len(s) \in Nat
      /\ \A i \in 1..Len(s) : Append(s, e)[i] = s[i]
      /\ Append(s, e)[Len(s) + 1] = e /\ e # Ready
  BY DEF Assumed, Message, Sse!EventAssumption
<1> DEFINE u == Append(s, e)  m == Len(s)
<1> HIDE DEF u, m
<1>2. /\ u \in Seq(Message) /\ m \in Nat /\ Len(u) = m + 1 /\ u[m + 1] = e /\ e # Ready
      /\ m = Len(s) /\ u = Append(s, e) /\ \A i \in 1..m : u[i] = s[i]
      /\ m + 2 \in Nat /\ m + 1 \in Nat /\ 1..(m + 2) - 1 = 1..m + 1 /\ 1..(m + 1) - 1 = 1..m
      /\ m + 1 \in 1..m + 1 /\ \A i \in 1..m + 1 : i \in 1..m \/ i = m + 1
      /\ 1..m \subseteq 1..m + 1
  BY <1>1 DEF u, m
<1>3. ASSUME NEW n \in 1..m + 1  PROVE Before(u, n) = Before(s, n)
  BY <1>2 DEF Before
<1>4. ASSUME NEW x  PROVE x \in Before(u, m + 2) <=> x \in Before(s, m + 1) \cup {e.id}
  <2>1. x \in Before(u, m + 2) <=> \E i \in 1..m + 1 : u[i] # Ready /\ u[i].id = x
    BY <1>2 DEF Before
  <2>2. x \in Before(s, m + 1) <=> \E i \in 1..m : s[i] # Ready /\ s[i].id = x
    BY <1>2 DEF Before
  <2> QED  BY <1>2, <2>1, <2>2
<1>5. Sse!Ids(u) = Before(u, m + 2) /\ Sse!Ids(s) = Before(s, m + 1)
  <2>1. Len(u) + 1 = m + 2
    BY <1>2
  <2> QED  BY <1>2, <2>1, BeforeAll
<1> QED  BY <1>2, <1>3, <1>4, <1>5

LEMMA ConcatIds ==
    ASSUME Assumed, NEW s \in Seq(Message), NEW u \in Seq(Message)
    PROVE  /\ Sse!Ids(s \o u) = Sse!Ids(s) \cup Sse!Ids(u)
           /\ \A n \in 1..Len(s) + 1 : Before(s \o u, n) = Before(s, n)
           /\ \A n \in 1..Len(u) : Before(s \o u, Len(s) + n) = Sse!Ids(s) \cup Before(u, n)
<1> DEFINE c == s \o u  m == Len(s)  l == Len(u)
<1>1. /\ c \in Seq(Message) /\ Len(c) = m + l /\ m \in Nat /\ l \in Nat
      /\ \A i \in 1..m : c[i] = s[i]
      /\ \A i \in 1..l : c[m + i] = u[i]
  OBVIOUS
<1> HIDE DEF c, m, l
<1>2. ASSUME NEW n \in 1..m + 1  PROVE Before(c, n) = Before(s, n)
  BY <1>1 DEF Before
<1>3. ASSUME NEW n \in 1..l + 1, NEW x
      PROVE  x \in Before(c, m + n) <=> x \in Before(s, m + 1) \cup Before(u, n)
  <2>0. /\ m + n \in Nat /\ m + 1 \in Nat /\ n \in Nat /\ (m + 1) - 1 = m
        /\ 1..m \subseteq 1..m + n - 1
    BY <1>1
  <2>1. ASSUME x \in Before(c, m + n)  PROVE x \in Before(s, m + 1) \cup Before(u, n)
    <3>1. PICK i \in 1..m + n - 1 : c[i] # Ready /\ c[i].id = x
      BY <1>1, <2>0, <2>1, InBefore
    <3>2. CASE i \in 1..m
      BY <1>1, <2>0, <3>1, <3>2, InBefore
    <3>3. CASE i \notin 1..m
      <4>1. i - m \in 1..n - 1 /\ i - m \in 1..l /\ i = m + (i - m)
        BY <1>1, <3>3
      <4>2. c[i] = u[i - m]
        BY <1>1, <4>1
      <4> QED  BY <3>1, <4>1, <4>2, InBefore
    <3> QED  BY <3>2, <3>3
  <2>2. ASSUME x \in Before(s, m + 1)  PROVE x \in Before(c, m + n)
    <3>1. PICK i \in 1..m : s[i] # Ready /\ s[i].id = x
      BY <2>0, <2>2, InBefore
    <3> QED  BY <1>1, <2>0, <3>1, InBefore
  <2>3. ASSUME x \in Before(u, n)  PROVE x \in Before(c, m + n)
    <3>1. PICK i \in 1..n - 1 : u[i] # Ready /\ u[i].id = x
      BY <2>3, InBefore
    <3>2. m + i \in 1..m + n - 1 /\ c[m + i] = u[i]
      BY <1>1
    <3> QED  BY <1>1, <3>1, <3>2, InBefore
  <2> QED  BY <2>1, <2>2, <2>3
<1>4. Sse!Ids(s) = Before(s, m + 1) /\ Sse!Ids(u) = Before(u, l + 1) /\ Sse!Ids(c) = Before(c, m + (l + 1))
  <2>1. Len(c) + 1 = m + (l + 1)
    BY <1>1
  <2> QED  BY <1>1, <2>1, BeforeAll DEF m, l
<1>5. Sse!Ids(c) = Sse!Ids(s) \cup Sse!Ids(u)
  <2>1. l + 1 \in 1..l + 1
    BY <1>1
  <2> QED  BY <1>3, <1>4, <2>1
<1>6. ASSUME NEW n \in 1..l  PROVE Before(c, m + n) = Sse!Ids(s) \cup Before(u, n)
  <2>1. n \in 1..l + 1
    BY <1>1
  <2> QED  BY <1>3, <1>4, <2>1
<1> QED  BY <1>2, <1>5, <1>6 DEF c, m, l

First(s) == IF s[1] = Ready THEN {} ELSE {s[1].id}

LEMMA TailIds ==
    ASSUME Assumed, NEW s \in Seq(Message), s # <<>>
    PROVE  /\ Sse!Ids(s) = First(s) \cup Sse!Ids(Tail(s))
           /\ \A n \in DOMAIN Tail(s) : /\ Tail(s)[n] = s[n + 1] /\ n + 1 \in DOMAIN s
                                        /\ Before(s, n + 1) = First(s) \cup Before(Tail(s), n)
<1> DEFINE u == Tail(s)  l == Len(u)
<1>1. /\ u \in Seq(Message) /\ l \in Nat /\ Len(s) = l + 1
      /\ \A i \in 1..l : u[i] = s[i + 1]
  OBVIOUS
<1> HIDE DEF u, l
<1>2. ASSUME NEW n \in 1..l + 1, NEW x
      PROVE  x \in Before(s, n + 1) <=> x \in First(s) \cup Before(u, n)
  <2>1. ASSUME x \in Before(s, n + 1)  PROVE x \in First(s) \cup Before(u, n)
    <3>1. PICK i \in 1..n : s[i] # Ready /\ s[i].id = x
      BY <1>1, <2>1, InBefore
    <3>2. CASE i = 1
      BY <3>1, <3>2 DEF First
    <3>3. CASE i # 1
      <4>1. i - 1 \in 1..n - 1 /\ i - 1 \in 1..l /\ i = (i - 1) + 1
        BY <1>1, <3>3
      <4>2. s[i] = u[i - 1]
        BY <1>1, <4>1
      <4> QED  BY <1>1, <3>1, <4>1, <4>2, InBefore
    <3> QED  BY <3>2, <3>3
  <2>2. x \in First(s) => x \in Before(s, n + 1)
    <3>1. 1 \in 1..(n + 1) - 1 /\ n + 1 \in Nat
      OBVIOUS
    <3> QED  BY <3>1, InBefore DEF First
  <2>3. ASSUME x \in Before(u, n)  PROVE x \in Before(s, n + 1)
    <3>1. PICK i \in 1..n - 1 : u[i] # Ready /\ u[i].id = x
      BY <1>1, <2>3, InBefore
    <3>2. i + 1 \in 1..(n + 1) - 1 /\ u[i] = s[i + 1] /\ n + 1 \in Nat
      BY <1>1
    <3> QED  BY <3>1, <3>2, InBefore
  <2> QED  BY <2>1, <2>2, <2>3
<1>3. Sse!Ids(s) = Before(s, (l + 1) + 1) /\ Sse!Ids(u) = Before(u, l + 1)
  BY <1>1, BeforeAll DEF l
<1>4. Sse!Ids(s) = First(s) \cup Sse!Ids(u)
  BY <1>1, <1>2, <1>3
<1>5. ASSUME NEW n \in 1..l  PROVE Before(s, n + 1) = First(s) \cup Before(u, n)
  BY <1>1, <1>2
<1>6. DOMAIN u = 1..l /\ DOMAIN s = 1..l + 1
  BY <1>1 DEF l
<1>7. \A n \in 1..l : n + 1 \in 1..l + 1
  BY <1>1
<1> QED  BY <1>1, <1>4, <1>5, <1>6, <1>7 DEF u, l

-----------------------------------------------------------------------------
(* The database. *)

\* There is room for what has begun: the counts of moves and of commits stay
\* in their bounds.
LEMMA Counts ==
    ASSUME Assumed, Sse!TypeOK, Drawn
    PROVE  /\ Cardinality(Begun) \in Nat /\ Len(log) \in Nat /\ edits \in Nat /\ drawn \in Nat
           /\ MaxChanges \in Nat /\ MaxEdits \in Nat /\ drawn <= MaxChanges /\ edits <= MaxEdits
           /\ Len(log) <= drawn /\ Len(log) + edits \in Sse!Version
<1>1. Cardinality(Begun) \in Nat
  BY FS_CardinalityType DEF Drawn
<1>2. Len(log) \in Nat /\ edits \in 0..MaxEdits /\ drawn \in 0..MaxChanges
  BY DEF Sse!TypeOK
<1>3. MaxChanges \in Nat /\ MaxEdits \in Nat
  BY DEF Assumed, Sse!ScreenAssumption
<1>4. Len(log) + Cardinality(Begun) = drawn
  BY DEF Drawn
<1> QED  BY <1>1, <1>2, <1>3, <1>4 DEF Sse!Version

LEMMA BeginKeeps ==
    ASSUME Assumed, Sse!TypeOK, Drawn, NEW t \in Targets, Sse!Begin(t)
    PROVE  /\ Drawn' /\ open' \in [Targets -> Sse!Event \cup {None}] /\ drawn' \in 0..MaxChanges
           /\ log' = log
<1>1. PICK rests \in BOOLEAN :
        open' = [open EXCEPT ![t] = [id |-> drawn + 1, target |-> t,
                                     state |-> now[t].state + 1, rests |-> rests]]
  BY DEF Sse!Begin
<1> DEFINE e == [id |-> drawn + 1, target |-> t, state |-> now[t].state + 1, rests |-> rests]
<1>2. /\ open[t] = None /\ drawn < MaxChanges /\ drawn' = drawn + 1
      /\ UNCHANGED <<now, log, edits>>
  BY DEF Sse!Begin
<1>3. now[t].state \in Nat /\ now[t].state <= Len(log)
  BY DEF Sse!TypeOK, Sse!Row, Drawn
<1>4. e \in Sse!Event
  BY <1>2, <1>3, Counts DEF Sse!Event
<1>5. e # None
  BY <1>4 DEF Assumed, Sse!EventAssumption
<1>6. e.id = drawn + 1 /\ e.target = t /\ e.state = now[t].state + 1
  OBVIOUS
<1> HIDE DEF e
<1>7. open' = [open EXCEPT ![t] = e] /\ open \in [Targets -> Sse!Event \cup {None}]
  BY <1>1 DEF e, Sse!TypeOK
<1>8. Begun' = Begun \cup {t} /\ t \notin Begun
  BY <1>2, <1>5, <1>7 DEF Begun
<1>9. IsFiniteSet(Begun') /\ Cardinality(Begun') = Cardinality(Begun) + 1
  BY <1>8, FS_AddElement DEF Drawn
<1>10. \A id \in Sse!Ids(log) : id \in Nat /\ id <= drawn
  BY IdsAreIds, EventSeqs DEF Drawn, Sse!TypeOK
<1>11. ASSUME NEW u \in Begun'
       PROVE  /\ open'[u].id \notin Sse!Ids(log) /\ open'[u].id <= drawn'
              /\ open'[u].target = u /\ open'[u].state = now[u].state + 1
              /\ \A v \in Begun' : open'[v].id = open'[u].id => v = u
  <2>1. \A v \in Begun : open'[v] = open[v] /\ open[v].id \in Nat /\ open[v].id <= drawn /\ v # t
    BY <1>7, <1>8 DEF Drawn, Begun, Sse!Event
  <2>2. open'[t] = e
    BY <1>7
  <2>3. CASE u = t
    BY <1>2, <1>6, <1>8, <1>10, <2>1, <2>2, <2>3, Counts
  <2>4. CASE u # t
    <3>1. drawn \in Nat
      BY Counts
    <3> QED  BY <1>2, <1>6, <1>8, <2>1, <2>2, <2>4, <3>1 DEF Drawn
  <2> QED  BY <2>3, <2>4
<1>12. Drawn'
  BY <1>2, <1>9, <1>10, <1>11, Counts DEF Drawn
<1> QED  BY <1>2, <1>4, <1>7, <1>12, Counts

LEMMA CommitKeeps ==
    ASSUME Assumed, Sse!TypeOK, Drawn, NEW t \in Targets, Sse!Commit(t)
    PROVE  /\ Drawn' /\ open' \in [Targets -> Sse!Event \cup {None}] /\ log' \in Seq(Sse!Event)
           /\ now' \in [Targets -> Sse!Row] /\ hub' \in [listening : BOOLEAN, queue : Seq(Sse!Event)]
           /\ open[t] \in Sse!Event /\ open[t].id \notin Sse!Ids(log)
           /\ log' = Append(log, open[t]) /\ Sse!Ids(log') = Sse!Ids(log) \cup {open[t].id}
<1> DEFINE e == open[t]
<1>1. t \in Begun /\ e \in Sse!Event
  BY DEF Sse!Commit, Begun, Sse!TypeOK
<1>2. /\ log' = Append(log, e) /\ open' = [open EXCEPT ![t] = None]
      /\ UNCHANGED <<drawn, edits>>
      /\ now' = [now EXCEPT ![t] =
             [state |-> e.state, doc |-> now[t].doc + 1,
              restDoc |-> IF e.rests THEN now[t].doc + 1 ELSE now[t].restDoc]]
      /\ hub' = IF hub.listening THEN [hub EXCEPT !.queue = Append(@, e)] ELSE hub
  BY DEF Sse!Commit
<1>3. /\ e.id \notin Sse!Ids(log) /\ e.id <= drawn /\ e.state = now[t].state + 1 /\ e.target = t
      /\ e.id \in Nat
  BY <1>1 DEF Drawn, Sse!Event
<1> HIDE DEF e
<1>4. Begun' = Begun \ {t} /\ open' \in [Targets -> Sse!Event \cup {None}]
      /\ \A u \in Begun' : open'[u] = open[u]
  BY <1>2 DEF Sse!TypeOK, Begun
<1>5. IsFiniteSet(Begun') /\ Cardinality(Begun') = Cardinality(Begun) - 1
  BY <1>1, <1>4, FS_RemoveElement DEF Drawn
<1>6. log' \in Seq(Sse!Event) /\ Len(log') = Len(log) + 1
  BY <1>1, <1>2 DEF e, Sse!TypeOK
<1>7. Sse!Ids(log') = Sse!Ids(log) \cup {e.id}
  BY <1>1, <1>2, AppendIds, EventSeqs DEF Sse!TypeOK, e
<1>8. Cardinality(Begun') \in Nat /\ Len(log) + 1 <= drawn
  BY <1>5, FS_CardinalityType, Counts DEF Drawn
<1>9. /\ now \in [Targets -> Sse!Row] /\ now[t].state <= Len(log) /\ now[t].doc <= Len(log) + edits
  BY DEF Sse!TypeOK, Drawn
<1>10. now[t].state \in Nat /\ now[t].doc \in Nat /\ now[t].restDoc \in Sse!Version
  BY <1>9 DEF Sse!Row, Sse!Version
<1>11. now[t].state + 1 \in 0..MaxChanges /\ now[t].doc + 1 \in Sse!Version
  <2>1. /\ Len(log) \in Nat /\ edits \in Nat /\ drawn \in Nat /\ MaxChanges \in Nat
        /\ MaxEdits \in Nat /\ drawn <= MaxChanges /\ edits <= MaxEdits
    BY Counts
  <2> QED  BY SMTT(30), <1>8, <1>9, <1>10, <2>1 DEF Sse!Version
<1>12. /\ DOMAIN now' = Targets /\ \A u \in Targets \ {t} : now'[u] = now[u]
       /\ now'[t] = [state |-> now[t].state + 1, doc |-> now[t].doc + 1,
                     restDoc |-> IF e.rests THEN now[t].doc + 1 ELSE now[t].restDoc]
  BY <1>2, <1>3, <1>9
<1>13. /\ now' \in [Targets -> Sse!Row] /\ now'[t].state = now[t].state + 1
       /\ now'[t].doc = now[t].doc + 1 /\ \A u \in Targets \ {t} : now'[u] = now[u]
  <2>2. now'[t] \in Sse!Row
    BY <1>10, <1>11, <1>12 DEF Sse!Row
  <2>3. now' = [u \in Targets |-> now'[u]]
    BY <1>2, <1>9
  <2>4. \A u \in Targets : now'[u] \in Sse!Row
    BY <1>9, <1>12, <2>2
  <2>5. now' \in [Targets -> Sse!Row]
    BY <2>3, <2>4
  <2> QED  BY <1>12, <2>5
<1>14. hub' \in [listening : BOOLEAN, queue : Seq(Sse!Event)]
  <2>1. hub \in [listening : BOOLEAN, queue : Seq(Sse!Event)] /\ e \in Sse!Event
    BY <1>1 DEF e, Sse!TypeOK
  <2>2. CASE hub.listening
    <3>1. Append(hub.queue, e) \in Seq(Sse!Event)
      BY <2>1
    <3> QED  BY <1>2, <2>1, <2>2, <3>1
  <2> QED  BY <1>2, <2>1, <2>2
<1>15. ASSUME NEW u \in Begun'
       PROVE  /\ open'[u].id \notin Sse!Ids(log') /\ open'[u].id <= drawn'
              /\ open'[u].target = u /\ open'[u].state = now'[u].state + 1
              /\ \A v \in Begun' : open'[v].id = open'[u].id => v = u
  BY <1>1, <1>2, <1>4, <1>7, <1>13 DEF Drawn, e, Begun
<1>16. ASSUME NEW u \in Targets
       PROVE  now'[u].state <= Len(log') /\ now'[u].doc <= Len(log') + edits'
  <2>1. now[u].state \in Nat /\ now[u].doc \in Nat
    BY <1>9 DEF Sse!Row, Sse!Version
  <2>2. CASE u = t
    BY <1>2, <1>6, <1>9, <1>10, <1>13, <2>2, Counts
  <2>3. CASE u # t
    <3>1. now[u].state <= Len(log) /\ now[u].doc <= Len(log) + edits /\ now'[u] = now[u]
      BY <1>13, <2>3 DEF Drawn
    <3> QED  BY <1>2, <1>6, <2>1, <3>1, Counts
  <2> QED  BY <2>2, <2>3
<1>17. Drawn'
  <2>1. Len(log') + Cardinality(Begun') = drawn'
    <3>1. /\ Cardinality(Begun) \in Nat /\ Len(log) \in Nat /\ drawn \in Nat
          /\ Len(log) + Cardinality(Begun) = drawn
      BY Counts DEF Drawn
    <3> QED  BY <1>2, <1>5, <1>6, <3>1
  <2>2. \A id \in Sse!Ids(log') : id <= drawn'
    BY <1>2, <1>3, <1>7 DEF Drawn
  <2> QED  BY <1>5, <1>15, <1>16, <2>1, <2>2 DEF Drawn
<1> QED  BY <1>1, <1>2, <1>3, <1>4, <1>6, <1>7, <1>13, <1>14, <1>17 DEF e

LEMMA EditKeeps ==
    ASSUME Assumed, Sse!TypeOK, Drawn, Sse!EditElsewhere
    PROVE  Drawn' /\ now' \in [Targets -> Sse!Row] /\ edits' \in 0..MaxEdits
<1>1. /\ edits < MaxEdits /\ edits' = edits + 1 /\ now' = [now EXCEPT ![Reviewed].doc = @ + 1]
      /\ UNCHANGED <<open, drawn, log>> /\ Reviewed \in Targets
  BY DEF Assumed, Sse!EditElsewhere, Sse!ScreenAssumption
<1>2. now \in [Targets -> Sse!Row] /\ now[Reviewed].doc <= Len(log) + edits
  BY <1>1 DEF Sse!TypeOK, Drawn
<1>3. \A t \in Targets : now[t].state \in Nat /\ now[t].doc \in Nat
  BY <1>2 DEF Sse!Row, Sse!Version
<1>4. now[Reviewed].doc + 1 \in Sse!Version
  BY <1>1, <1>2, <1>3, Counts DEF Sse!Version
<1>5. /\ now' \in [Targets -> Sse!Row] /\ now'[Reviewed].doc = now[Reviewed].doc + 1
      /\ \A t \in Targets : /\ now'[t].state = now[t].state
                            /\ t # Reviewed => now'[t] = now[t]
  BY <1>1, <1>2, <1>4 DEF Sse!Row
<1>6. \A t \in Targets : now'[t].doc <= Len(log) + edits'
  BY <1>1, <1>2, <1>3, <1>5, Counts DEF Drawn
<1>7. Begun' = Begun
  BY <1>1 DEF Begun
<1>8. Drawn'
  BY <1>1, <1>5, <1>6, <1>7 DEF Drawn
<1> QED  BY <1>1, <1>5, <1>8, Counts

-----------------------------------------------------------------------------
(* The replay. *)

\* What is replayed: the events of the log after `id`, in the order of ids.
LEMMA AfterIs ==
    ASSUME Assumed, log \in Seq(Sse!Event), NEW id \in Nat, NEW rows \in Sse!After(id)
    PROVE  /\ rows \in Seq(Sse!Event) /\ Sse!Ids(rows) = {x \in Sse!Ids(log) : x > id}
           /\ \A i, k \in DOMAIN rows : i < k => rows[i].id < rows[k].id
<1> DEFINE from == {k \in DOMAIN log : log[k].id > id}
<1>1. IsFiniteSet(from)
  <2>1. IsFiniteSet(1..Len(log)) /\ from \in SUBSET (1..Len(log))
    <3>1. 1 \in Int /\ Len(log) \in Int /\ DOMAIN log = 1..Len(log)
      OBVIOUS
    <3> QED  BY <3>1, FS_Interval
  <2> QED  BY <2>1, FS_Subset
<1>2. IsFiniteSet(Sse!Later(id))
  <2> DEFINE f == [k \in from |-> log[k]]
  <2>1. f \in Surjection(from, Sse!Later(id))
    BY DEF Surjection, Sse!Later
  <2> QED  BY <1>1, <2>1, FS_Surjection
<1>3. Cardinality(Sse!Later(id)) \in Nat
  BY <1>2, FS_CardinalityType
<1>4. Sse!Later(id) \subseteq Sse!Event
  BY DEF Sse!Later
<1>5. /\ rows \in [1..Cardinality(Sse!Later(id)) -> Sse!Later(id)]
      /\ \A e \in Sse!Later(id) : \E i \in DOMAIN rows : rows[i] = e
      /\ \A i, k \in DOMAIN rows : i < k => rows[i].id < rows[k].id
  BY SameCount DEF Sse!After
<1>6. rows \in Seq(Sse!Event)
  <2>1. rows \in [1..Cardinality(Sse!Later(id)) -> Sse!Event]
    BY <1>4, <1>5
  <2> QED  BY <1>3, <2>1
<1>7. \A e \in Sse!Event : e # Ready
  BY DEF Assumed, Sse!EventAssumption
<1>8. ASSUME NEW x  PROVE x \in Sse!Ids(rows) <=> \E e \in Sse!Later(id) : e.id = x
  <2>1. x \in Sse!Ids(rows) <=> \E i \in DOMAIN rows : rows[i].id = x
    BY <1>4, <1>5, <1>7 DEF Sse!Ids
  <2> QED  BY <1>5, <2>1
<1>9. ASSUME NEW x  PROVE x \in Sse!Ids(log) /\ x > id <=> \E e \in Sse!Later(id) : e.id = x
  BY <1>7 DEF Sse!Ids, Sse!Later
<1>10. Sse!Ids(rows) = {x \in Sse!Ids(log) : x > id}
  BY <1>8, <1>9
<1> QED  BY <1>5, <1>6, <1>10

-----------------------------------------------------------------------------
(* Types. *)

LEMMA RequestsKeep ==
    ASSUME Assumed, Sse!TypeOK, IsFiniteSet(answers),
           \/ UNCHANGED <<asked, answers>> \/ (Sse!Refresh /\ UNCHANGED answers)
           \/ Sse!Serve \/ Sse!FetchFails \/ \E a \in answers : Sse!Show(a)
    PROVE  /\ IsFiniteSet(answers') /\ asked' \in Nat
           /\ asked' + Cardinality(answers') \in 0..MaxFetches
<1>1. /\ asked \in Nat /\ Cardinality(answers) \in Nat /\ MaxFetches \in Nat
      /\ asked + Cardinality(answers) <= MaxFetches
  BY FS_CardinalityType, SameCount DEF Assumed, Sse!TypeOK, Sse!ScreenAssumption
<1>2. CASE Sse!Refresh /\ UNCHANGED answers
  BY <1>1, <1>2, SameCount DEF Sse!Refresh
<1>3. CASE Sse!Serve
  <2>1. PICK a : asked > 0 /\ asked' = asked - 1 /\ answers' = answers \cup {a}
    BY <1>3 DEF Sse!Serve
  <2>2. /\ IsFiniteSet(answers')
        /\ Cardinality(answers') \in {Cardinality(answers), Cardinality(answers) + 1}
    BY <2>1, FS_AddElement
  <2> QED  BY <1>1, <2>1, <2>2
<1>4. CASE \E a \in answers : Sse!Show(a)
  <2>1. PICK a \in answers : answers' = answers \ {a} /\ asked' = asked
    BY <1>4 DEF Sse!Show
  <2>2. IsFiniteSet(answers') /\ Cardinality(answers') = Cardinality(answers) - 1
    BY <2>1, FS_RemoveElement
  <2>3. Cardinality(answers') \in Nat
    BY <2>2, FS_CardinalityType
  <2> QED  BY <1>1, <2>1, <2>2, <2>3
<1>5. CASE Sse!FetchFails
  BY <1>1, <1>5, SameCount DEF Sse!FetchFails
<1> QED  BY <1>1, <1>2, <1>3, <1>4, <1>5

\* The types of the API's and the browser's steps, the requests aside.
LEMMA StreamTypes ==
    ASSUME Assumed, Sse!TypeOK, Drawn, Placed,
           Sse!Api \/ Sse!Connect \/ Sse!Live \/ Sse!Receive \/ Sse!HubFails \/ Sse!Breaks
    PROVE  /\ hub' \in [listening : BOOLEAN, queue : Seq(Sse!Event)]
           /\ phase' \in {"down", "ready", "replayed", "on"}
           /\ wire' \in Seq(Sse!Event \cup {Ready})
           /\ shown' \in [Targets -> Sse!Row] /\ lastId' \in 0..MaxChanges
           /\ link' \in {"connecting", "live", "polling"}
           /\ reconciled' \in BOOLEAN /\ (reconciled' => link' = "live")
           /\ received' \subseteq 1..drawn
           /\ faults' \in 0..MaxFaults /\ {error', missed', crossed'} \subseteq BOOLEAN
<1> USE DEF Sse!db, Sse!server, Sse!page, Sse!flags
<1>1. CASE Sse!HubReconnects
  BY <1>1 DEF Sse!HubReconnects, Sse!TypeOK
<1>2. CASE Sse!HubDelivers
  <2>1. /\ hub \in [listening : BOOLEAN, queue : Seq(Sse!Event)] /\ hub.queue # <<>>
        /\ hub' = [hub EXCEPT !.queue = Tail(@)]
        /\ wire' = IF phase = "on" THEN Append(wire, Head(hub.queue)) ELSE wire
        /\ wire \in Seq(Sse!Event \cup {Ready}) /\ missed' \in BOOLEAN
    BY <1>2 DEF Sse!HubDelivers, Sse!TypeOK
  <2>2. hub.queue \in Seq(Sse!Event) /\ Tail(hub.queue) \in Seq(Sse!Event) /\ Head(hub.queue) \in Sse!Event
    BY <2>1
  <2>3. hub' \in [listening : BOOLEAN, queue : Seq(Sse!Event)]
    BY <2>1, <2>2
  <2>4. wire' \in Seq(Sse!Event \cup {Ready})
    BY <2>1, <2>2
  <2> QED  BY <1>2, <2>1, <2>3, <2>4 DEF Sse!HubDelivers, Sse!TypeOK
<1>3. CASE Sse!Replay
  <2>1. PICK rows \in Sse!After(lastId) : wire' = wire \o rows
    BY <1>3 DEF Sse!Replay
  <2>2. rows \in Seq(Sse!Event)
    BY AfterIs DEF Sse!TypeOK
  <2>3. wire' \in Seq(Sse!Event \cup {Ready})
    <3>1. rows \in Seq(Sse!Event \cup {Ready}) /\ wire \in Seq(Sse!Event \cup {Ready})
      BY <2>2, EventSeqs DEF Sse!TypeOK, Message
    <3> QED  BY <2>1, <3>1
  <2> QED  BY <1>3, <2>3 DEF Sse!Replay, Sse!TypeOK
<1>4. CASE Sse!Subscribe
  BY <1>4 DEF Sse!Subscribe, Sse!TypeOK
<1>5. CASE Sse!Connect
  <2>1. <<Ready>> \in Seq(Sse!Event \cup {Ready})
    OBVIOUS
  <2> QED  BY <1>5, <2>1 DEF Sse!Connect, Sse!TypeOK
<1>6. CASE Sse!Live
  <2>1. Tail(wire) \in Seq(Sse!Event \cup {Ready})
    BY <1>6 DEF Sse!Live, Sse!ReadyArrives, Sse!TypeOK
  <2> QED  BY <1>6, <2>1 DEF Sse!Live, Sse!TypeOK
<1>7. CASE Sse!Receive
  <2> DEFINE e == wire[1]
  <2>1. wire \in Seq(Message) /\ wire # <<>> /\ e # Ready
    BY <1>7 DEF Sse!Receive, Sse!EventArrives, Sse!TypeOK, Message
  <2>2. e \in Sse!Event /\ e.id \in Sse!Ids(wire) /\ Tail(wire) \in Seq(Sse!Event \cup {Ready})
    BY <2>1, IdOf DEF Message
  <2>3. /\ e.id \in 1..MaxChanges /\ e.id <= drawn /\ e.target \in Targets
        /\ e.state \in 0..MaxChanges /\ e.id \in 1..drawn
    <3>1. /\ e.id \in 1..MaxChanges /\ e.target \in Targets /\ e.state \in 1..MaxChanges
          /\ MaxChanges \in Nat
      BY <2>2 DEF Assumed, Sse!Event, Sse!ScreenAssumption
    <3>2. e.id <= drawn /\ drawn \in Nat
      BY <2>2, Counts DEF Placed, Drawn
    <3> HIDE DEF e
    <3> QED  BY <3>1, <3>2
  <2>4. /\ wire' = Tail(wire) /\ lastId' = e.id /\ received' = received \cup {e.id}
        /\ shown' = shown \/ shown' = [shown EXCEPT ![e.target].state = e.state]
        /\ UNCHANGED <<hub, phase, screen, link, reconciled, error, faults, missed, crossed>>
    BY <1>7 DEF Sse!Receive
  <2> HIDE DEF e
  <2>5. shown' \in [Targets -> Sse!Row]
    <3>1. shown[e.target] \in Sse!Row /\ shown \in [Targets -> Sse!Row]
      BY <2>3 DEF Sse!TypeOK
    <3>2. [shown[e.target] EXCEPT !.state = e.state] \in Sse!Row
      BY <2>3, <3>1 DEF Sse!Row
    <3> QED  BY <2>3, <2>4, <3>1, <3>2
  <2> QED  BY <2>2, <2>3, <2>4, <2>5 DEF Assumed, Sse!TypeOK, Sse!ScreenAssumption
<1>8. ASSUME faults < MaxFaults, faults' = faults + 1  PROVE faults' \in 0..MaxFaults
  BY <1>8 DEF Assumed, Sse!TypeOK, Sse!ScreenAssumption
<1>9. CASE Sse!HubFails
  <2>1. [listening |-> FALSE, queue |-> <<>>] \in [listening : BOOLEAN, queue : Seq(Sse!Event)]
    OBVIOUS
  <2>2. hub' \in [listening : BOOLEAN, queue : Seq(Sse!Event)]
    BY <1>9, <2>1 DEF Sse!HubFails
  <2> QED  BY <1>8, <1>9, <2>2 DEF Sse!HubFails, Sse!TypeOK
<1>10. CASE Sse!Breaks
  <2>1. wire' \in Seq(Sse!Event \cup {Ready})
    BY <1>10 DEF Sse!Breaks
  <2> QED  BY <1>8, <1>10, <2>1 DEF Sse!Breaks, Sse!TypeOK
<1> QED  BY <1>1, <1>2, <1>3, <1>4, <1>5, <1>6, <1>7, <1>9, <1>10 DEF Sse!Api

LEMMA AnswerTypes ==
    ASSUME Assumed, Sse!TypeOK, Drawn,
           Sse!Serve \/ Sse!FetchFails \/ \E a \in answers : Sse!Show(a)
    PROVE  /\ answers' \subseteq Sse!Answer /\ shown' \in [Targets -> Sse!Row] /\ newest' \in Sse!Version
           /\ faults' \in 0..MaxFaults /\ {error', crossed'} \subseteq BOOLEAN
<1>1. CASE Sse!Serve
  <2> DEFINE has == {log[i].id : i \in DOMAIN log}
  <2>1. has \subseteq 1..MaxChanges
    <3>1. \A i \in DOMAIN log : log[i] \in Sse!Event
      BY DEF Sse!TypeOK
    <3> QED  BY <3>1 DEF Sse!Event
  <2>2. Len(log) + edits \in Sse!Version /\ now \in [Targets -> Sse!Row] /\ answers \subseteq Sse!Answer
    BY Counts DEF Sse!TypeOK
  <2> HIDE DEF has
  <2>3. [rows |-> now, at |-> Len(log) + edits, has |-> has] \in Sse!Answer
    BY <2>1, <2>2 DEF Sse!Answer
  <2>4. answers' = answers \cup {[rows |-> now, at |-> Len(log) + edits, has |-> has]}
    BY <1>1 DEF Sse!Serve, has
  <2> QED  BY <1>1, <2>2, <2>3, <2>4 DEF Sse!Serve, Sse!TypeOK, Sse!flags
<1>2. CASE \E a \in answers : Sse!Show(a)
  <2>1. PICK a \in answers : Sse!Show(a)
    BY <1>2
  <2>2. a.rows \in [Targets -> Sse!Row] /\ a.at \in Sse!Version
    BY DEF Sse!TypeOK, Sse!Answer
  <2> QED  BY <2>1, <2>2 DEF Sse!Show, Sse!TypeOK
<1>3. CASE Sse!FetchFails
  <2>1. faults' \in 0..MaxFaults
    BY <1>3 DEF Sse!FetchFails, Assumed, Sse!TypeOK, Sse!ScreenAssumption
  <2>2. newest' \in Sse!Version
    BY <1>3, Counts DEF Sse!FetchFails, Sse!TypeOK
  <2> QED  BY <1>3, <2>1, <2>2 DEF Sse!FetchFails, Sse!TypeOK
<1> QED  BY <1>1, <1>2, <1>3

LEMMA TypeInv ==
    ASSUME Assumed, Sse!TypeOK, IsFiniteSet(answers), Drawn, Placed, [Sse!Next]_(Sse!vars)
    PROVE  Sse!TypeOK' /\ IsFiniteSet(answers') /\ Drawn'
<1> USE DEF Sse!db, Sse!server, Sse!page, Sse!flags
<1>1. ASSUME NEW t \in Targets, Sse!Begin(t)  PROVE Sse!TypeOK' /\ IsFiniteSet(answers') /\ Drawn'
  <2>1. drawn' = drawn + 1 /\ drawn \in Nat
    BY <1>1, Counts DEF Sse!Begin
  <2>2. received \subseteq 1..drawn'
    BY <2>1 DEF Sse!TypeOK
  <2> QED  BY <1>1, <2>2, BeginKeeps DEF Sse!Begin, Sse!TypeOK
<1>2. ASSUME NEW t \in Targets, Sse!Commit(t)  PROVE Sse!TypeOK' /\ IsFiniteSet(answers') /\ Drawn'
  <2>1. missed' \in BOOLEAN
    BY <1>2 DEF Sse!Commit, Sse!TypeOK
  <2> QED  BY <1>2, <2>1, CommitKeeps DEF Sse!Commit, Sse!TypeOK
<1>3. CASE Sse!EditElsewhere
  BY <1>3, EditKeeps DEF Sse!EditElsewhere, Sse!TypeOK
<1>4. ASSUME UNCHANGED Sse!db  PROVE Drawn'
  BY <1>4 DEF Drawn, Begun
<1>5. CASE Sse!Api \/ Sse!Connect \/ Sse!Live \/ Sse!Receive \/ Sse!HubFails \/ Sse!Breaks
  <2>1. UNCHANGED <<Sse!db, screen, newest, answers>>
    BY <1>5 DEF Sse!Api, Sse!HubReconnects, Sse!HubDelivers, Sse!Replay, Sse!Subscribe,
       Sse!Connect, Sse!Live, Sse!Receive,
                Sse!HubFails, Sse!Breaks
  <2>2. UNCHANGED asked \/ Sse!Refresh
    BY <1>5 DEF Sse!Api, Sse!HubReconnects, Sse!HubDelivers, Sse!Replay, Sse!Subscribe,
       Sse!Connect, Sse!Live, Sse!Receive,
                Sse!HubFails, Sse!Breaks
  <2>3. /\ IsFiniteSet(answers') /\ asked' \in Nat
        /\ asked' + Cardinality(answers') \in 0..MaxFetches
    BY <2>1, <2>2, RequestsKeep
  <2> QED  BY <1>4, <1>5, <2>1, <2>3, StreamTypes, SameCount DEF Sse!TypeOK
<1>6. CASE Sse!Serve \/ Sse!FetchFails \/ Sse!Poll \/ \E a \in answers : Sse!Show(a)
  <2>1. UNCHANGED <<Sse!db, Sse!server, wire, screen, link, lastId, reconciled, received, missed>>
    BY <1>6 DEF Sse!Serve, Sse!FetchFails, Sse!Poll, Sse!Show
  <2>2. /\ IsFiniteSet(answers') /\ asked' \in Nat
        /\ asked' + Cardinality(answers') \in 0..MaxFetches
    BY <1>6, RequestsKeep DEF Sse!Poll
  <2>3. /\ answers' \subseteq Sse!Answer /\ shown' \in [Targets -> Sse!Row] /\ newest' \in Sse!Version
        /\ faults' \in 0..MaxFaults /\ {error', crossed'} \subseteq BOOLEAN
    BY <1>6, AnswerTypes DEF Sse!Poll, Sse!TypeOK
  <2> QED  BY <1>4, <2>1, <2>2, <2>3, SameCount DEF Sse!TypeOK
<1>7. CASE UNCHANGED Sse!vars
  BY <1>4, <1>7 DEF Sse!vars, Sse!TypeOK
<1> QED  BY <1>1, <1>2, <1>3, <1>5, <1>6, <1>7 DEF Sse!Next, Sse!Browser

-----------------------------------------------------------------------------
(* Where the stream stands. *)

StreamState == <<log, hub, phase, wire, lastId, received, missed>>

LEMMA Types ==
    ASSUME Assumed, Sse!TypeOK
    PROVE  /\ log \in Seq(Sse!Event) /\ log \in Seq(Message)
           /\ hub.queue \in Seq(Sse!Event) /\ hub.queue \in Seq(Message)
           /\ wire \in Seq(Message) /\ hub \in [listening : BOOLEAN, queue : Seq(Sse!Event)]
           /\ missed \in BOOLEAN /\ lastId \in Nat
           /\ \A e \in Sse!Event : e # Ready
<1>1. log \in Seq(Sse!Event) /\ hub.queue \in Seq(Sse!Event)
  BY DEF Sse!TypeOK
<1> QED  BY <1>1, EventSeqs DEF Assumed, Sse!TypeOK, Message, Sse!ScreenAssumption,
            Sse!EventAssumption

LEMMA NoIds == Sse!Ids(<<>>) = {} /\ Sse!Ids(<<Ready>>) = {}
BY DEF Sse!Ids

\* The event at the head of the queue, and what is left behind it.
LEMMA Delivered ==
    ASSUME Assumed, Sse!TypeOK, Sse!HubDelivers
    PROVE  LET e == Head(hub.queue) IN
           /\ e \in Sse!Event /\ e = hub.queue[1] /\ 1 \in DOMAIN hub.queue
           /\ hub'.queue = Tail(hub.queue) /\ hub'.listening = hub.listening
           /\ Sse!Ids(hub.queue) = {e.id} \cup Sse!Ids(hub'.queue)
           /\ wire' = IF phase = "on" THEN Append(wire, e) ELSE wire
           /\ Sse!Ids(wire') = IF phase = "on" THEN Sse!Ids(wire) \cup {e.id} ELSE Sse!Ids(wire)
           /\ phase \in {"ready", "replayed"} => missed'
           /\ UNCHANGED <<log, phase, lastId, received>>
<1>1. /\ hub.queue # <<>> /\ hub' = [hub EXCEPT !.queue = Tail(@)]
      /\ wire' = IF phase = "on" THEN Append(wire, Head(hub.queue)) ELSE wire
      /\ phase \in {"ready", "replayed"} => missed'
      /\ UNCHANGED <<log, phase, lastId, received>>
  BY DEF Sse!HubDelivers, Sse!db, Sse!page
<1>2. /\ Head(hub.queue) \in Sse!Event /\ Head(hub.queue) = hub.queue[1] /\ 1 \in DOMAIN hub.queue
      /\ hub.queue[1] # Ready
  BY <1>1, Types
<1>3. hub'.queue = Tail(hub.queue) /\ hub'.listening = hub.listening
  BY <1>1, Types
<1>4. Sse!Ids(hub.queue) = {Head(hub.queue).id} \cup Sse!Ids(hub'.queue)
  BY <1>1, <1>2, <1>3, Types, TailIds DEF First
<1>5. Sse!Ids(wire') = IF phase = "on" THEN Sse!Ids(wire) \cup {Head(hub.queue).id} ELSE Sse!Ids(wire)
  BY <1>1, <1>2, Types, AppendIds
<1> QED  BY <1>1, <1>2, <1>3, <1>4, <1>5

\* The message at the head of the wire.
LEMMA Taken ==
    ASSUME Assumed, Sse!TypeOK, Sse!Live \/ Sse!Receive
    PROVE  /\ wire # <<>> /\ wire' = Tail(wire) /\ UNCHANGED <<log, hub, phase, missed>>
           /\ Sse!Ids(wire) = First(wire) \cup Sse!Ids(wire')
           /\ received' = received \cup First(wire)
           /\ wire[1] = Ready => lastId' = lastId
           /\ wire[1] # Ready => lastId' = wire[1].id
           /\ First(wire) = {} <=> wire[1] = Ready
<1>1. wire # <<>> /\ wire' = Tail(wire) /\ UNCHANGED <<log, hub, phase, missed>>
  BY DEF Sse!Live, Sse!Receive, Sse!ReadyArrives, Sse!EventArrives, Sse!db, Sse!server, Sse!flags
<1>2. Sse!Ids(wire) = First(wire) \cup Sse!Ids(wire')
  BY <1>1, Types, TailIds
<1>3. First(wire) = {} <=> wire[1] = Ready
  BY DEF First
<1> QED  BY <1>1, <1>2, <1>3 DEF Sse!Live, Sse!Receive, Sse!ReadyArrives, Sse!EventArrives, First

LEMMA Replayed ==
    ASSUME Assumed, Sse!TypeOK, Sse!Replay
    PROVE  \E rows \in Seq(Sse!Event) :
              /\ wire' = wire \o rows /\ rows \in Seq(Message)
              /\ Sse!Ids(rows) = {x \in Sse!Ids(log) : x > lastId}
              /\ \A i, k \in DOMAIN rows : i < k => rows[i].id < rows[k].id
              /\ Sse!Ids(wire') = Sse!Ids(wire) \cup Sse!Ids(rows)
              /\ phase = "ready" /\ phase' = "replayed"
              /\ UNCHANGED <<log, hub, lastId, received, missed>>
<1>1. PICK rows \in Sse!After(lastId) : wire' = wire \o rows
  BY DEF Sse!Replay
<1>2. /\ rows \in Seq(Sse!Event) /\ Sse!Ids(rows) = {x \in Sse!Ids(log) : x > lastId}
      /\ \A i, k \in DOMAIN rows : i < k => rows[i].id < rows[k].id
  BY AfterIs, Types
<1>3. Sse!Ids(wire') = Sse!Ids(wire) \cup Sse!Ids(rows) /\ rows \in Seq(Message)
  BY <1>1, <1>2, Types, ConcatIds, EventSeqs
<1>4. phase = "ready" /\ phase' = "replayed" /\ UNCHANGED <<log, hub, lastId, received, missed>>
  BY DEF Sse!Replay, Sse!db, Sse!page, Sse!flags
<1> QED  BY <1>1, <1>2, <1>3, <1>4

LEMMA Committed ==
    ASSUME Assumed, Sse!TypeOK, Drawn, NEW t \in Targets, Sse!Commit(t)
    PROVE  LET e == open[t] IN
           /\ e \in Sse!Event /\ e.id \notin Sse!Ids(log) /\ log' = Append(log, e)
           /\ Sse!Ids(log') = Sse!Ids(log) \cup {e.id}
           /\ hub'.queue = IF hub.listening THEN Append(hub.queue, e) ELSE hub.queue
           /\ Sse!Ids(hub'.queue) = IF hub.listening THEN Sse!Ids(hub.queue) \cup {e.id}
                                                 ELSE Sse!Ids(hub.queue)
           /\ hub'.listening = hub.listening
           /\ missed' = (missed \/ (~hub.listening /\ phase # "down"))
           /\ UNCHANGED <<phase, wire, lastId, received>>
<1>1. /\ open[t] \in Sse!Event /\ open[t].id \notin Sse!Ids(log) /\ log' = Append(log, open[t])
      /\ Sse!Ids(log') = Sse!Ids(log) \cup {open[t].id}
  BY CommitKeeps
<1>2. /\ hub' = IF hub.listening THEN [hub EXCEPT !.queue = Append(@, open[t])] ELSE hub
      /\ missed' = (missed \/ (~hub.listening /\ phase # "down"))
      /\ UNCHANGED <<phase, wire, lastId, received>>
  BY DEF Sse!Commit, Sse!page
<1>3. /\ hub'.listening = hub.listening
      /\ hub'.queue = IF hub.listening THEN Append(hub.queue, open[t]) ELSE hub.queue
  BY <1>2, Types
<1>4. Sse!Ids(hub'.queue) = IF hub.listening THEN Sse!Ids(hub.queue) \cup {open[t].id}
                                         ELSE Sse!Ids(hub.queue)
  BY <1>1, <1>3, Types, AppendIds
<1> QED  BY <1>1, <1>2, <1>3, <1>4

LEMMA PlacedInv == ASSUME Assumed, Sse!TypeOK, Drawn, Placed, [Sse!Next]_(Sse!vars)  PROVE Placed'
<1> USE DEF Sse!db, Sse!server, Sse!page, Sse!flags
<1>1. ASSUME NEW t \in Targets, Sse!Commit(t)  PROVE Placed'
  <2> DEFINE e == open[t]
  <2>1. /\ Sse!Ids(log') = Sse!Ids(log) \cup {e.id}
        /\ UNCHANGED <<phase, wire, lastId, received>> /\ hub'.listening = hub.listening
        /\ Sse!Ids(hub'.queue) \subseteq Sse!Ids(hub.queue) \cup {e.id}
        /\ ~hub.listening => hub'.queue = hub.queue
    BY <1>1, Committed
  <2> HIDE DEF e
  <2>2. received \cup Sse!Ids(wire) \cup Sse!Ids(hub'.queue) \subseteq Sse!Ids(log')
    BY <2>1 DEF Placed
  <2>3. Sse!Ids(wire') = Sse!Ids(wire)
    BY <2>1
  <2> QED  BY <2>1, <2>2, <2>3 DEF Placed
<1>2. CASE Sse!HubFails
  <2>1. hub'.listening = FALSE /\ hub'.queue = <<>>
        /\ UNCHANGED <<log, phase, wire, lastId, received>>
    BY <1>2 DEF Sse!HubFails
  <2> QED  BY <2>1, NoIds DEF Placed
<1>3. CASE Sse!HubReconnects
  <2>1. hub'.listening = TRUE /\ hub'.queue = hub.queue
        /\ UNCHANGED <<log, phase, wire, lastId, received>>
    BY <1>3, Types DEF Sse!HubReconnects
  <2> QED  BY <2>1 DEF Placed
<1>4. CASE Sse!HubDelivers
  BY <1>4, Delivered DEF Placed
<1>5. CASE Sse!Connect
  BY <1>5, NoIds DEF Sse!Connect, Placed
<1>6. CASE Sse!Replay
  BY <1>6, Replayed DEF Placed
<1>7. CASE Sse!Subscribe
  BY <1>7 DEF Sse!Subscribe, Placed
<1>8. CASE Sse!Live \/ Sse!Receive
  <2>1. wire[1] # Ready => wire[1].id \in Sse!Ids(wire) /\ wire[1].id # 0
    <3>1. wire # <<>> /\ wire \in Seq(Message)
      BY <1>8, Taken, Types
    <3>2. 1 \in DOMAIN wire
      BY <3>1
    <3>3. wire[1] # Ready => wire[1].id \in Sse!Ids(wire) /\ wire[1] \in Sse!Event
      BY <3>1, <3>2, IdOf
    <3> QED  BY <3>3 DEF Assumed, Sse!Event, Sse!ScreenAssumption
  <2>2. First(wire) \subseteq Sse!Ids(wire) /\ Sse!Ids(wire') \subseteq Sse!Ids(wire)
    BY <1>8, Taken
  <2>3. CASE wire[1] = Ready
    BY <1>8, <2>2, <2>3, Taken DEF Placed
  <2>4. CASE wire[1] # Ready
    <3>1. received' = received \cup {wire[1].id} /\ lastId' = wire[1].id
      BY <1>8, <2>4, Taken DEF First
    <3> QED  BY <1>8, <2>1, <2>2, <3>1, Taken DEF Placed
  <2> QED  BY <2>3, <2>4
<1>9. CASE Sse!Breaks
  BY <1>9, NoIds DEF Sse!Breaks, Placed
<1>10. ASSUME UNCHANGED StreamState  PROVE Placed'
  BY <1>10 DEF StreamState, Placed
<1>11. CASE \/ \E t \in Targets : Sse!Begin(t)
            \/ Sse!EditElsewhere \/ Sse!Poll \/ Sse!Serve \/ Sse!FetchFails
            \/ UNCHANGED Sse!vars \/ \E a \in answers : Sse!Show(a)
  BY <1>10, <1>11 DEF Sse!Begin, Sse!EditElsewhere, Sse!Poll, Sse!Serve, Sse!FetchFails, Sse!Show, Sse!vars,
     StreamState
<1> QED  BY <1>1, <1>2, <1>3, <1>4, <1>5, <1>6, <1>7, <1>8, <1>9, <1>11 DEF Sse!Next, Sse!Api,
            Sse!Browser

-----------------------------------------------------------------------------
(* What is whole stays whole. *)

\* Every id is a number, and what stream and screen know is in the log.
LEMMA Numbers ==
    ASSUME Assumed, Sse!TypeOK, Placed
    PROVE  /\ \A id \in Sse!Ids(log) : id \in Nat
           /\ received \subseteq Sse!Ids(log) /\ Sse!Ids(wire) \subseteq Sse!Ids(log)
           /\ Sse!Ids(hub.queue) \subseteq Sse!Ids(log) /\ lastId \in Nat
           /\ \A i \in DOMAIN hub.queue : hub.queue[i].id \in Sse!Ids(hub.queue)
           /\ \A i \in DOMAIN wire : /\ wire[i] # Ready => wire[i].id \in Sse!Ids(wire)
                                     /\ Before(wire, i) \subseteq Sse!Ids(wire)
<1>1. \A id \in Sse!Ids(log) : id \in Nat
  BY Types, IdsAreIds
<1>2. \A i \in DOMAIN hub.queue : hub.queue[i].id \in Sse!Ids(hub.queue)
  <2>1. \A i \in DOMAIN hub.queue : hub.queue[i] # Ready
    BY Types
  <2> QED  BY <2>1, Types, IdsAreIds
<1>3. \A i \in DOMAIN wire : wire[i] # Ready => wire[i].id \in Sse!Ids(wire)
  BY Types, IdsAreIds
<1>4. \A i \in DOMAIN wire : Before(wire, i) \subseteq Sse!Ids(wire)
  BY Types DEF Before, Sse!Ids
<1> QED  BY <1>1, <1>2, <1>3, <1>4, Types DEF Placed

\* What passed a stream, or was committed out of order, stays so.
LEMMA TrackedBack == ASSUME Assumed, Sse!TypeOK, Drawn, [Sse!Next]_(Sse!vars), Tracked'  PROVE Tracked
<1> USE DEF Sse!db, Sse!server, Sse!page, Sse!flags
<1>1. missed => missed'
  BY DEF Sse!Next, Sse!Begin, Sse!Commit, Sse!EditElsewhere, Sse!HubFails, Sse!Breaks, Sse!Api,
     Sse!HubReconnects, Sse!HubDelivers,
         Sse!Replay, Sse!Subscribe, Sse!Browser, Sse!Connect, Sse!Live, Sse!Receive, Sse!Poll,
         Sse!Serve, Sse!FetchFails, Sse!Show, Sse!vars
<1>2. log' = log \/ \E e \in Sse!Event : log' = Append(log, e)
  <2>1. ASSUME NEW t \in Targets, Sse!Commit(t)  PROVE \E e \in Sse!Event : log' = Append(log, e)
    BY <2>1, CommitKeeps
  <2>2. CASE ~ \E t \in Targets : Sse!Commit(t)
    BY <2>2 DEF Sse!Next, Sse!Begin, Sse!EditElsewhere, Sse!HubFails, Sse!Breaks, Sse!Api,
       Sse!HubReconnects, Sse!HubDelivers,
                Sse!Replay, Sse!Subscribe, Sse!Browser, Sse!Connect, Sse!Live, Sse!Receive, Sse!Poll,
         Sse!Serve, Sse!FetchFails, Sse!Show, Sse!vars
  <2> QED  BY <2>1, <2>2
<1>3. \A i \in DOMAIN log : i \in DOMAIN log' /\ log'[i] = log[i]
  <2>1. log \in Seq(Sse!Event)
    BY Types
  <2> QED  BY <1>2, <2>1
<1>4. Sse!Inverted => Sse!Inverted'
  BY <1>3 DEF Sse!Inverted
<1> QED  BY <1>1, <1>4 DEF Tracked

\* A commit in the order of the ids adds the newest of them.
LEMMA CommitWhole ==
    ASSUME Assumed, Sse!TypeOK, Drawn, Placed, Whole, Tracked', NEW t \in Targets, Sse!Commit(t)
    PROVE  Whole'
<1> DEFINE e == open[t]
<1>1. /\ e \in Sse!Event /\ e.id \notin Sse!Ids(log) /\ log' = Append(log, e)
      /\ Sse!Ids(log') = Sse!Ids(log) \cup {e.id}
      /\ hub'.queue = IF hub.listening THEN Append(hub.queue, e) ELSE hub.queue
      /\ Sse!Ids(hub'.queue) = IF hub.listening THEN Sse!Ids(hub.queue) \cup {e.id} ELSE Sse!Ids(hub.queue)
      /\ missed' = (missed \/ (~hub.listening /\ phase # "down"))
      /\ UNCHANGED <<phase, wire, lastId, received>>
  BY Committed
<1> HIDE DEF e
<1>2. e.id \in Nat
  BY <1>1 DEF Assumed, Sse!Event, Sse!ScreenAssumption
<1>3. \A id \in Sse!Ids(log) : id < e.id
  <2>1. /\ log \in Seq(Sse!Event) /\ Len(log) + 1 \in DOMAIN log' /\ log'[Len(log) + 1] = e
        /\ \A i \in DOMAIN log : i \in DOMAIN log' /\ log'[i] = log[i] /\ i < Len(log) + 1
    BY <1>1, Types
  <2>2. \A i \in DOMAIN log : ~(log[i].id > e.id)
    BY <2>1 DEF Tracked, Sse!Inverted
  <2>3. \A id \in Sse!Ids(log) : ~(id > e.id)
    BY <2>2 DEF Sse!Ids
  <2> QED  BY <1>1, <1>2, <2>3, Numbers
<1>4. QueueIsTheEnd'
  <2>1. CASE hub.listening
    <3>1. \A id \in Sse!Ids(log'), q \in Sse!Ids(hub'.queue) : id > q => id \in Sse!Ids(hub'.queue)
      BY <1>1, <1>2, <1>3, <2>1, Numbers DEF Whole, QueueIsTheEnd
    <3>2. /\ hub.queue \in Seq(Sse!Event) /\ hub'.queue = Append(hub.queue, e)
          /\ \A i \in DOMAIN hub.queue : hub.queue[i].id < e.id
      BY <1>1, <1>3, <2>1, Types, Numbers
    <3>3. \A i, k \in DOMAIN hub'.queue : i < k => hub'.queue[i].id < hub'.queue[k].id
      BY <3>2 DEF Whole, QueueIsTheEnd
    <3> QED  BY <3>1, <3>3 DEF QueueIsTheEnd
  <2>2. CASE ~hub.listening
    <3>1. hub'.queue = <<>>
      BY <1>1, <2>2 DEF Placed
    <3> QED  BY <3>1, NoIds DEF QueueIsTheEnd
  <2> QED  BY <2>1, <2>2
<1>5. Sse!Ids(hub'.queue) \subseteq Sse!Ids(hub.queue) \cup {e.id}
  BY <1>1
<1>6. FromTheFirst'
  <2>1. received # {} => \A id \in Sse!Ids(wire) \cup Sse!Ids(hub'.queue) : \E r \in received : r <= id
    BY <1>2, <1>3, <1>5, Numbers DEF Whole, FromTheFirst
  <2>2. ASSUME received = {}, NEW i \in DOMAIN wire, wire[i] # Ready
        PROVE  \A id \in Sse!Ids(hub'.queue) : wire[i].id <= id
    BY <1>2, <1>3, <1>5, <2>2, Numbers DEF Whole, FromTheFirst
  <2> QED  BY <1>1, <2>1, <2>2 DEF Whole, FromTheFirst
<1>7. NoGaps'
  <2>1. \A r, s \in received, id \in Sse!Ids(log') : r < id /\ id < s => id \in received
    BY <1>1, <1>2, <1>3, Numbers DEF Whole, NoGaps
  <2>2. ASSUME NEW n \in DOMAIN wire, wire[n] # Ready
        PROVE  \A r \in received \cup Before(wire, n), id \in Sse!Ids(log') :
                  r < id /\ id < wire[n].id => id \in received \cup Before(wire, n)
    BY <1>1, <1>2, <1>3, <2>2, Numbers DEF Whole, NoGaps
  <2> QED  BY <1>1, <2>1, <2>2 DEF NoGaps
<1>8. NothingBehind'
  <2>1. phase # "down" => hub.listening
    BY <1>1 DEF Tracked
  <2> QED  BY <1>1, <2>1 DEF Whole, NothingBehind
<1> QED  BY <1>4, <1>6, <1>7, <1>8 DEF Whole

\* A stream that is on is handed the first event of the queue, after which it
\* lacks nothing but the rest of the queue.
LEMMA HubDeliversWhole ==
    ASSUME Assumed, Sse!TypeOK, Placed, Whole, Tracked', Sse!HubDelivers
    PROVE  Whole'
<1> DEFINE e == Head(hub.queue)
<1>1. /\ e \in Sse!Event /\ e = hub.queue[1] /\ 1 \in DOMAIN hub.queue
      /\ hub'.queue = Tail(hub.queue)
      /\ Sse!Ids(hub.queue) = {e.id} \cup Sse!Ids(hub'.queue)
      /\ wire' = IF phase = "on" THEN Append(wire, e) ELSE wire
      /\ Sse!Ids(wire') = IF phase = "on" THEN Sse!Ids(wire) \cup {e.id} ELSE Sse!Ids(wire)
      /\ UNCHANGED <<log, phase, lastId, received>>
  BY Delivered
<1>2. phase \in {"down", "on"}
  BY Delivered DEF Tracked, Sse!TypeOK
<1> HIDE DEF e
<1>3. e.id \in Nat /\ e.id \in Sse!Ids(log)
  BY <1>1, Numbers
<1>4. /\ \A i \in DOMAIN Tail(hub.queue) : /\ i + 1 \in DOMAIN hub.queue /\ 1 < i + 1
                                           /\ Tail(hub.queue)[i] = hub.queue[i + 1]
  <2>1. hub.queue \in Seq(Sse!Event) /\ hub.queue # <<>>
    BY <1>1, Types
  <2> QED  BY <2>1
<1>5. \A q \in Sse!Ids(hub'.queue) : e.id < q
  <2>1. \A i \in DOMAIN hub'.queue : e.id < hub'.queue[i].id
    BY <1>1, <1>4 DEF Whole, QueueIsTheEnd
  <2> QED  BY <2>1 DEF Sse!Ids
<1>6. QueueIsTheEnd'
  <2>1. \A i, k \in DOMAIN hub'.queue : i < k => hub'.queue[i].id < hub'.queue[k].id
    <3>1. \A i, k \in DOMAIN hub'.queue : i < k => i + 1 < k + 1
      BY <1>1, Types
    <3> QED  BY <1>1, <1>4, <3>1 DEF Whole, QueueIsTheEnd
  <2>2. \A id \in Sse!Ids(log), q \in Sse!Ids(hub'.queue) : id > q => id \in Sse!Ids(hub'.queue)
    BY <1>1, <1>3, <1>5, Numbers DEF Whole, QueueIsTheEnd
  <2> QED  BY <1>1, <2>1, <2>2 DEF QueueIsTheEnd
<1>7. CASE phase = "down"
  <2>1. UNCHANGED <<log, phase, wire, received>> /\ Sse!Ids(hub'.queue) \subseteq Sse!Ids(hub.queue)
    BY <1>1, <1>7
  <2>2. FromTheFirst'
    BY <2>1 DEF Whole, FromTheFirst
  <2>3. NoGaps'
    BY <2>1 DEF Whole, NoGaps
  <2>4. NothingBehind'
    BY <1>7, <2>1 DEF NothingBehind
  <2> QED  BY <1>6, <2>2, <2>3, <2>4 DEF Whole
<1>8. CASE phase = "on"
  <2> DEFINE l == Len(wire) + 1
  <2>1. /\ DOMAIN wire' = DOMAIN wire \cup {l} /\ wire'[l] = e
        /\ \A i \in DOMAIN wire : wire'[i] = wire[i] /\ i \in Nat /\ i < l
        /\ Before(wire', l) = Sse!Ids(wire) /\ l \in Nat
        /\ \A i \in DOMAIN wire : Before(wire', i) = Before(wire, i)
    <3>1. wire' = Append(wire, e) /\ wire \in Seq(Message)
      BY <1>1, <1>8, Types
    <3>2. /\ DOMAIN wire' = DOMAIN wire \cup {l} /\ wire'[l] = e /\ l \in Nat
          /\ \A i \in DOMAIN wire : wire'[i] = wire[i] /\ i \in Nat /\ i < l /\ i \in 1..l
          /\ l \in 1..l
      BY <3>1
    <3>3. \A n \in 1..l : Before(wire', n) = Before(wire, n)
      BY <1>1, <3>1, AppendIds
    <3> QED  BY <3>1, <3>2, <3>3, BeforeAll
  <2> HIDE DEF l
  <2>2. FromTheFirst'
    <3>1. received # {} => \A id \in Sse!Ids(wire') \cup Sse!Ids(hub'.queue) : \E r \in received : r <= id
      BY <1>1, <1>8 DEF Whole, FromTheFirst
    <3>2. ASSUME received = {}, NEW i \in DOMAIN wire', wire'[i] # Ready
          PROVE  /\ \A k \in DOMAIN wire' : i < k /\ wire'[k] # Ready => wire'[i].id <= wire'[k].id
                 /\ \A id \in Sse!Ids(hub'.queue) : wire'[i].id <= id
      <4>1. CASE i \in DOMAIN wire
        BY <1>1, <2>1, <3>2, <4>1 DEF Whole, FromTheFirst
      <4>2. CASE i = l
        BY <1>3, <1>5, <1>1, <2>1, <4>2, Numbers
      <4> QED  BY <2>1, <4>1, <4>2
    <3> QED  BY <1>1, <3>1, <3>2 DEF FromTheFirst
  <2>3. NoGaps'
    <3>1. \A r \in received \cup Sse!Ids(wire), id \in Sse!Ids(log) :
              r < id /\ id < e.id => id \in received \cup Sse!Ids(wire)
      <4>1. \A q \in Sse!Ids(hub.queue) : ~(q < e.id)
        BY <1>1, <1>3, <1>5, Numbers
      <4> QED  BY <1>8, <4>1 DEF Whole, NothingBehind
    <3>2. \A n \in DOMAIN wire' : wire'[n] # Ready =>
             \A r \in received \cup Before(wire', n), id \in Sse!Ids(log) :
                r < id /\ id < wire'[n].id => id \in received \cup Before(wire', n)
      BY <2>1, <3>1 DEF Whole, NoGaps
    <3> QED  BY <1>1, <3>2 DEF Whole, NoGaps
  <2>4. NothingBehind'
    BY <1>1, <1>8 DEF Whole, NothingBehind, QueueIsTheEnd
  <2> QED  BY <1>6, <2>2, <2>3, <2>4 DEF Whole
<1> QED  BY <1>2, <1>7, <1>8

\* What is replayed is all there is beyond the last event received.
LEMMA ReplayWhole ==
    ASSUME Assumed, Sse!TypeOK, Placed, Whole, Sse!Replay
    PROVE  Whole'
<1>1. PICK rows \in Seq(Sse!Event) :
              /\ wire' = wire \o rows /\ rows \in Seq(Message)
              /\ Sse!Ids(rows) = {x \in Sse!Ids(log) : x > lastId}
              /\ \A i, k \in DOMAIN rows : i < k => rows[i].id < rows[k].id
              /\ Sse!Ids(wire') = Sse!Ids(wire) \cup Sse!Ids(rows)
              /\ phase = "ready" /\ phase' = "replayed"
              /\ UNCHANGED <<log, hub, lastId, received, missed>>
  BY Replayed
<1>2. /\ Sse!Ids(wire) = {} /\ received # {} /\ lastId \in received /\ Sse!Ids(wire') = Sse!Ids(rows)
  BY <1>1 DEF Placed
<1>3. \A r \in received, id \in Sse!Ids(log) : r < id => id \in received \/ id > lastId
  BY <1>1, <1>2, Numbers DEF Whole, NoGaps
<1>4. QueueIsTheEnd'
  BY <1>1 DEF Whole, QueueIsTheEnd
<1>5. FromTheFirst'
  BY <1>1, <1>2, Numbers DEF Whole, FromTheFirst
<1>6. ASSUME NEW n \in DOMAIN wire', wire'[n] # Ready
      PROVE  \A r \in received \cup Before(wire', n), id \in Sse!Ids(log) :
                r < id /\ id < wire'[n].id => id \in received \cup Before(wire', n)
  <2>1. n \notin DOMAIN wire
    <3>1. \A i \in DOMAIN wire : wire[i] = Ready
      BY <1>2, Types, IdsAreIds
    <3>2. \A i \in DOMAIN wire : wire'[i] = wire[i]
      BY <1>1, Types
    <3> QED  BY <1>6, <3>1, <3>2
  <2>2. PICK m \in DOMAIN rows : n = Len(wire) + m /\ wire'[n] = rows[m] /\ m \in 1..Len(rows)
    <3>1. /\ wire \in Seq(Message) /\ rows \in Seq(Message) /\ n \in 1..Len(wire) + Len(rows)
      BY <1>1, Types
    <3>2. n - Len(wire) \in 1..Len(rows) /\ n = Len(wire) + (n - Len(wire))
      BY <2>1, <3>1
    <3> QED  BY <1>1, <3>1, <3>2
  <2>3. Before(wire', n) = Before(rows, m)
    <3>1. wire \in Seq(Message) /\ rows \in Seq(Message)
      BY <1>1, Types
    <3>2. Before(wire \o rows, Len(wire) + m) = Sse!Ids(wire) \cup Before(rows, m)
      BY <2>2, <3>1, ConcatIds
    <3> QED  BY <1>1, <1>2, <2>2, <3>2
  <2>4. \A x \in Before(rows, m) : x > lastId /\ x \in Nat
    <3>1. Before(rows, m) \subseteq Sse!Ids(rows)
      BY <1>1 DEF Before, Sse!Ids
    <3> QED  BY <1>1, <3>1, Numbers
  <2>5. ASSUME NEW id \in Sse!Ids(log), id > lastId, id < rows[m].id  PROVE id \in Before(rows, m)
    <3>1. PICK j \in DOMAIN rows : rows[j].id = id /\ rows[j] # Ready
      BY <1>1, <2>5 DEF Sse!Ids
    <3>2. j \in 1..m - 1 /\ m \in Nat
      <4>1. rows[m].id \in Nat /\ id \in Nat
        <5>1. rows[m] \in Sse!Event
          BY <2>2
        <5> QED  BY <5>1, Numbers DEF Assumed, Sse!Event, Sse!ScreenAssumption
      <4>2. ~(m < j) /\ m # j
        BY <1>1, <2>5, <3>1, <4>1
      <4>3. j \in 1..Len(rows) /\ Len(rows) \in Nat
        BY <1>1
      <4> QED  BY <2>2, <4>2, <4>3
    <3> QED  BY <1>1, <3>1, <3>2, InBefore
  <2> QED  BY <1>2, <1>3, <2>2, <2>3, <2>4, <2>5, Numbers
<1>7. NoGaps'
  BY <1>1, <1>6 DEF Whole, NoGaps
<1>8. NothingBehind'
  BY <1>1, <1>2, <1>3, Numbers DEF NothingBehind
<1> QED  BY <1>4, <1>5, <1>7, <1>8 DEF Whole

\* What is received was next on the wire.
LEMMA TakenWhole ==
    ASSUME Assumed, Sse!TypeOK, Placed, Whole, Sse!Live \/ Sse!Receive
    PROVE  Whole'
<1>1. /\ wire # <<>> /\ wire' = Tail(wire) /\ UNCHANGED <<log, hub, phase, missed>>
      /\ Sse!Ids(wire) = First(wire) \cup Sse!Ids(wire') /\ received' = received \cup First(wire)
  BY Taken
<1>2. \A n \in DOMAIN wire' : /\ wire'[n] = wire[n + 1] /\ n + 1 \in DOMAIN wire
                              /\ Before(wire, n + 1) = First(wire) \cup Before(wire', n)
                              /\ n \in Nat /\ 1 < n + 1
  <2>1. wire \in Seq(Message) /\ wire # <<>> /\ \A n \in DOMAIN Tail(wire) : n \in Nat /\ 1 < n + 1
    BY <1>1, Types
  <2> QED  BY <1>1, <2>1, TailIds
<1>3. QueueIsTheEnd' /\ NothingBehind'
  <2>1. received' \cup Sse!Ids(wire') = received \cup Sse!Ids(wire)
    BY <1>1
  <2> QED  BY <1>1, <2>1 DEF Whole, QueueIsTheEnd, NothingBehind
<1>4. \A n \in DOMAIN wire' : wire'[n] # Ready =>
          \A r \in received' \cup Before(wire', n), id \in Sse!Ids(log) :
             r < id /\ id < wire'[n].id => id \in received' \cup Before(wire', n)
  <2>1. \A n \in DOMAIN wire' : received' \cup Before(wire', n) = received \cup Before(wire, n + 1)
    BY <1>1, <1>2
  <2> QED  BY <1>2, <2>1 DEF Whole, NoGaps
<1>5. CASE wire[1] = Ready
  <2>1. First(wire) = {} /\ received' = received /\ Sse!Ids(wire') = Sse!Ids(wire)
    BY <1>1, <1>5 DEF First
  <2>2. NoGaps'
    BY <1>1, <1>4, <2>1 DEF Whole, NoGaps
  <2>3. FromTheFirst'
    <3>1. \A i, k \in DOMAIN wire' : i < k => i + 1 < k + 1
      BY <1>2
    <3> QED  BY <1>1, <1>2, <2>1, <3>1 DEF Whole, FromTheFirst
  <2> QED  BY <1>3, <2>2, <2>3 DEF Whole
<1>6. CASE wire[1] # Ready
  <2> DEFINE x == wire[1].id
  <2>1. First(wire) = {x} /\ received' = received \cup {x} /\ 1 \in DOMAIN wire
        /\ x \in Sse!Ids(wire) /\ x \in Sse!Ids(log) /\ Before(wire, 1) = {}
    <3>1. wire \in Seq(Message) /\ 1 \in DOMAIN wire
      BY <1>1, Types
    <3>2. First(wire) = {x}
      BY <1>6 DEF First
    <3> QED  BY <1>1, <3>1, <3>2, Numbers DEF Before
  <2>2. ASSUME NEW id \in Sse!Ids(wire') \cup Sse!Ids(hub.queue)
        PROVE  \E r \in received' : r <= id
    <3>1. CASE received # {}
      BY <1>1, <2>1, <2>2, <3>1 DEF Whole, FromTheFirst
    <3>2. CASE received = {} /\ id \in Sse!Ids(hub.queue)
      BY <1>6, <2>1, <3>2 DEF Whole, FromTheFirst
    <3>3. CASE received = {} /\ id \in Sse!Ids(wire')
      <4>1. PICK i \in DOMAIN wire' : wire'[i] # Ready /\ wire'[i].id = id
        BY <3>3 DEF Sse!Ids
      <4> QED  BY <1>2, <1>6, <2>1, <3>3, <4>1 DEF Whole, FromTheFirst
    <3> QED  BY <2>2, <3>1, <3>2, <3>3
  <2>3. FromTheFirst'
    BY <1>1, <2>1, <2>2 DEF FromTheFirst
  <2>4. ASSUME NEW r \in received', NEW s \in received', NEW id \in Sse!Ids(log), r < id, id < s
        PROVE  id \in received'
    <3>1. CASE r \in received /\ s \in received
      BY <2>1, <2>4, <3>1 DEF Whole, NoGaps
    <3>2. CASE r \in received /\ s = x
      BY <1>6, <2>1, <2>4, <3>2 DEF Whole, NoGaps
    <3>3. CASE r = x /\ s \in received
      <4>1. PICK p \in received : p <= x
        BY <2>1, <3>3 DEF Whole, FromTheFirst
      <4>2. p < id
        BY <2>1, <2>4, <3>3, <4>1, Numbers
      <4> QED  BY <2>1, <2>4, <3>3, <4>1, <4>2 DEF Whole, NoGaps
    <3>4. CASE r = x /\ s = x
      BY <2>1, <2>4, <3>4, Numbers
    <3> QED  BY <2>1, <2>4, <3>1, <3>2, <3>3, <3>4
  <2>5. NoGaps'
    BY <1>1, <1>4, <2>4 DEF NoGaps
  <2> QED  BY <1>3, <2>3, <2>5 DEF Whole
<1> QED  BY <1>5, <1>6

LEMMA WholeInv ==
    ASSUME Assumed, Sse!TypeOK, Drawn, Placed, Whole, [Sse!Next]_(Sse!vars), Tracked'
    PROVE  Whole'
<1> USE DEF Sse!db, Sse!server, Sse!page, Sse!flags
<1>1. CASE Sse!HubFails
  <2>1. hub'.queue = <<>> /\ Sse!Ids(hub'.queue) = {} /\ UNCHANGED <<log, phase, wire, received>>
        /\ (hub.queue = <<>> \/ phase = "down")
    BY <1>1, NoIds DEF Sse!HubFails, Tracked
  <2>2. QueueIsTheEnd' /\ FromTheFirst' /\ NoGaps'
    BY <2>1 DEF Whole, QueueIsTheEnd, FromTheFirst, NoGaps
  <2>3. NothingBehind'
    BY <2>1, NoIds DEF Whole, NothingBehind
  <2> QED  BY <2>2, <2>3 DEF Whole
<1>2. ASSUME hub'.queue = hub.queue, UNCHANGED <<log, phase, wire, received>>  PROVE Whole'
  BY <1>2 DEF Whole, QueueIsTheEnd, FromTheFirst, NoGaps, NothingBehind
<1>3. CASE Sse!HubReconnects
  <2>1. hub'.queue = hub.queue
    BY <1>3, Types DEF Sse!HubReconnects
  <2> QED  BY <1>2, <1>3, <2>1 DEF Sse!HubReconnects
<1>4. CASE Sse!Connect \/ Sse!Breaks
  <2>1. /\ wire' = <<>> \/ wire' = <<Ready>>
        /\ UNCHANGED <<log, hub, received>>
        /\ phase' \in {"replayed", "on"} => received = {}
    BY <1>4 DEF Sse!Connect, Sse!Breaks, Placed
  <2>2. Sse!Ids(wire') = {} /\ \A i \in DOMAIN wire' : wire'[i] = Ready
    BY <2>1, NoIds
  <2> QED  BY <2>1, <2>2 DEF Whole, QueueIsTheEnd, FromTheFirst, NoGaps, NothingBehind
<1>5. CASE Sse!Subscribe
  BY <1>5 DEF Sse!Subscribe, Whole, QueueIsTheEnd, FromTheFirst, NoGaps, NothingBehind
<1>6. CASE \/ \E t \in Targets : Sse!Begin(t)
           \/ Sse!EditElsewhere \/ Sse!Poll \/ Sse!Serve \/ Sse!FetchFails
            \/ UNCHANGED Sse!vars \/ \E a \in answers : Sse!Show(a)
  BY <1>2, <1>6 DEF Sse!Begin, Sse!EditElsewhere, Sse!Poll, Sse!Serve, Sse!FetchFails, Sse!Show, Sse!vars
<1> QED  BY <1>1, <1>3, <1>4, <1>5, <1>6, CommitWhole, HubDeliversWhole, ReplayWhole, TakenWhole
         DEF Sse!Next, Sse!Api, Sse!Browser

LEMMA SseInitInv == ASSUME Assumed, Sse!Init  PROVE SseInv
<1>1. Sse!Ids(log) = {} /\ Sse!Ids(wire) = {} /\ Sse!Ids(hub.queue) = {} /\ log = <<>> /\ Begun = {}
  BY NoIds DEF Sse!Init, Begun
<1>2. IsFiniteSet(Begun) /\ Cardinality(Begun) = 0 /\ IsFiniteSet(answers) /\ Cardinality(answers) = 0
  BY <1>1, FS_EmptySet DEF Sse!Init
<1>3. Sse!TypeOK
  <2>1. {MaxChanges, MaxEdits, MaxFaults, MaxFetches} \subseteq Nat
    BY DEF Assumed, Sse!ScreenAssumption
  <2>2. now \in [Targets -> Sse!Row]
    BY <2>1 DEF Sse!Init, Sse!Row, Sse!Version
  <2>3. log \in Seq(Sse!Event) /\ wire \in Seq(Sse!Event \cup {Ready})
        /\ hub \in [listening : BOOLEAN, queue : Seq(Sse!Event)]
    BY DEF Sse!Init
  <2>4. /\ open \in [Targets -> Sse!Event \cup {None}] /\ phase \in {"down", "ready", "replayed", "on"}
        /\ link \in {"connecting", "live", "polling"} /\ screen \in Views
        /\ reconciled = FALSE /\ {error, missed, crossed} \subseteq BOOLEAN /\ answers \subseteq Sse!Answer
    BY DEF Sse!Init
  <2>5. /\ drawn \in 0..MaxChanges /\ edits \in 0..MaxEdits /\ lastId \in 0..MaxChanges
        /\ received \subseteq 1..drawn /\ asked \in Nat /\ newest \in Sse!Version
        /\ asked + Cardinality(answers) \in 0..MaxFetches /\ faults \in 0..MaxFaults
    BY <1>2, <2>1 DEF Sse!Init, Sse!Version
  <2> QED  BY <2>2, <2>3, <2>4, <2>5, SameCount DEF Sse!Init, Sse!TypeOK
<1>4. Drawn
  BY <1>1, <1>2 DEF Assumed, Sse!Init, Drawn, Sse!ScreenAssumption
<1>5. Placed
  BY <1>1 DEF Sse!Init, Placed
<1>6. Whole
  BY <1>1 DEF Sse!Init, Whole, QueueIsTheEnd, FromTheFirst, NoGaps, NothingBehind
<1> QED  BY <1>2, <1>3, <1>4, <1>5, <1>6 DEF SseInv

LEMMA SseNextInv == SseInv /\ [Sse!Next]_(Sse!vars) => SseInv'
<1> SUFFICES ASSUME SseInv, [Sse!Next]_(Sse!vars)  PROVE SseInv'
  OBVIOUS
<1>1. Sse!TypeOK' /\ IsFiniteSet(answers') /\ Drawn' /\ Placed'
  BY TypeInv, PlacedInv DEF SseInv
<1>2. Tracked' => Whole'
  BY TrackedBack, WholeInv DEF SseInv
<1> QED  BY <1>1, <1>2 DEF SseInv

LEMMA AlwaysSseInv == ASSUME Assumed  PROVE Sse!Spec => []SseInv
<1>1. Assumed /\ Sse!Init => SseInv
  BY SseInitInv
<1>2. SseInv /\ [Sse!Next]_(Sse!vars) => SseInv'
  BY SseNextInv
<1> QED  BY <1>1, <1>2, PTL DEF Sse!Spec

\* Every variable of the stream, the hub and the screen keeps its type, for
\* any number of targets and bounds (LiveScreen.tla).
THEOREM StreamTypeCorrect == ASSUME Assumed  PROVE Sse!Spec => []Sse!TypeOK
<1>1. SseInv => Sse!TypeOK
  BY DEF SseInv
<1> QED  BY <1>1, AlwaysSseInv, PTL

\* Once a screen has received an event, every later one of the log reaches it,
\* is under way to it, or will be replayed when it connects again, as long as
\* none passed an open stream and the ids follow the commits (events.ts,
\* outbox.ts, hub.ts, use-project-events.ts).
THEOREM MissesNothing == ASSUME Assumed  PROVE Sse!Spec => []Sse!LogHasNoHoles
<1>1. SseInv => Sse!LogHasNoHoles
  <2> SUFFICES ASSUME SseInv, ~missed, ~Sse!Inverted, received # {},
                      NEW id \in Sse!Ids(log), NEW r \in received, id > r,
                      id \notin received \cup Sse!Ids(wire) \cup Sse!Ids(hub.queue)
               PROVE  phase \in {"down", "ready"} /\ id > lastId
    BY DEF Sse!LogHasNoHoles
  <2>1. Sse!TypeOK /\ Placed /\ NoGaps /\ NothingBehind
    BY DEF SseInv, Tracked, Whole
  <2>2. r \in Nat /\ id \in Nat /\ lastId \in Nat /\ lastId \in received /\ r < id
    BY <2>1, Numbers DEF Placed
  <2>3. phase \notin {"replayed", "on"}
    BY <2>1, <2>2 DEF NothingBehind
  <2>4. ~(id < lastId) /\ id # lastId
    BY <2>1, <2>2 DEF NoGaps
  <2> QED  BY <2>1, <2>2, <2>3, <2>4 DEF Sse!TypeOK
<1> QED  BY <1>1, AlwaysSseInv, PTL
==============================================================================
