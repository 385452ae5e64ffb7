------------------------------- MODULE Sessions -------------------------------
(***************************************************************************)
(* Signing in, silent renewal and the organization a browser acts in, with *)
(* the hosted identity pool (AUTH_MODE=cognito).                           *)
(*                                                                         *)
(*   apps/web/middleware.ts, app/auth/*, app/login/*, app/logout           *)
(*   apps/web/lib/auth-session.ts, auth-redirect.ts, client-api.ts         *)
(*   apps/api/src/auth/cognito.ts, principal.ts                            *)
(*                                                                         *)
(* The tabs of one browser share its cookies.  A handler reads them when   *)
(* its request is sent and changes them when its answer arrives, so two    *)
(* tabs' handlers overlap.  Any instance of the API may answer a request;  *)
(* each caches the pool's signing keys, which rotate.                      *)
(***************************************************************************)
EXTENDS Naturals, FiniteSets

CONSTANTS
    Users, Orgs,
    Founders,    \* the memberships to begin with: Users -> SUBSET Orgs
    Tabs,        \* tabs of the browser
    Instances,   \* instances of the API
    MaxKeys,     \* signing keys the pool ever uses (bound)
    MaxSignIns,  \* sign-ins begun (bound)
    MaxMinutes,  \* passings of a minute (bound)
    MaxFaults,   \* calls to the pool or the API that fail (bound)
    None

ASSUME SessionsAssumption ==
    /\ {MaxKeys, MaxSignIns, MaxMinutes, MaxFaults} \subseteq Nat
    /\ Founders \in [Users -> SUBSET Orgs]
    /\ MaxKeys > 0 /\ None \notin Users \cup Orgs

VARIABLES
    jar,      \* the cookies
    tab,      \* what each tab shows or waits for
    known,    \* the newest key each instance has fetched, 0 before the first
    recent,   \* whether it fetched them within the last minute
    signing,  \* the pool's newest key
    member,   \* memberships
    minted,   \* sign-ins begun
    minutes, faults,
    chosen,   \* the organization the user chose last, or None
    undone    \* whether a handler that had read another one, or none, has
              \* stored what it found since

api  == <<known, recent>>
pool == <<signing, minted>>
choice == <<chosen, undone>>
vars == <<jar, tab, api, pool, member, minutes, faults, choice>>

\* An ID token: whose, signed with which key, and whether it is still valid.
Token == Users \X (1..MaxKeys) \X BOOLEAN

\* pc_session; pc_who and pc_org, which are always written together; pc_refresh;
\* pc_oauth; pc_refreshed.
Jar == [session : Token \cup {None}, scope : (Users \X Orgs) \cup {None},
        refresh : Users \cup {None}, oauth : (1..MaxSignIns) \cup {None},
        guard : BOOLEAN]

Empty == [session |-> None, scope |-> None, refresh |-> None, oauth |-> None,
          guard |-> FALSE]

SignedIn(u, o) ==
    [Empty EXCEPT !.session = <<u, 1, TRUE>>, !.scope = <<u, o>>, !.refresh = u]

\* A browser that comes for the first time, or one that comes back.
Init ==
    /\ member = Founders
    /\ jar \in {Empty} \cup {SignedIn(u, o) : u \in Users, o \in Orgs}
    /\ jar.session # None => jar.scope[2] \in member[jar.session[1]]
    /\ tab = [t \in Tabs |-> [at |-> "login", arg |-> None]]
    /\ signing = 1 /\ minted = 0
    /\ known = [i \in Instances |-> 0] /\ recent = [i \in Instances |-> FALSE]
    /\ minutes = 0 /\ faults = 0 /\ chosen = None /\ undone = FALSE

Go(t, at, arg) == tab' = [tab EXCEPT ![t] = [at |-> at, arg |-> arg]]

\* What a tab does when nothing is under way in it.
Settled == {"login", "page", "refused", "organization", "hosted"}

-----------------------------------------------------------------------------
(* The API. *)

\* key(): the keys are fetched again for an unknown one, but not twice within
\* a minute; and always while there are none.
Fetches(i, kid) == kid > known[i] /\ (~recent[i] \/ known[i] = 0)

KnownAfter(i, kid) == IF Fetches(i, kid) THEN signing ELSE known[i]

\* verify: the key is looked up before the token is looked at.
Verifies(i, token) ==
    /\ known'  = [known EXCEPT ![i] = KnownAfter(i, token[2])]
    /\ recent' = [recent EXCEPT ![i] = @ \/ Fetches(i, token[2])]

Accepts(i, token) == token[3] /\ token[2] <= KnownAfter(i, token[2])

\* The organizations a request acts in: the one it names, or one of the
\* user's; none (403) when the user is not a member.
Resolves(user, org) == IF org = None THEN member[user] ELSE member[user] \cap {org}

OrgOf(scope) == IF scope = None THEN None ELSE scope[2]

\* The API's answer to a request with the session's token and organization.
Answer(i) ==
    IF jar.session = None \/ ~Accepts(i, jar.session) THEN "401"
    ELSE IF Resolves(jar.session[1], OrgOf(jar.scope)) = {} THEN "403"
    ELSE "200"

\* What an instance remembers of it: nothing of a request without a token.
Checks(i) == IF jar.session = None THEN UNCHANGED api ELSE Verifies(i, jar.session)

-----------------------------------------------------------------------------
(* Pages. *)

\* The user follows a link or reloads; the login page, which every page links
\* to (to sign in, to switch the organization), is shown without a session.
Visit(t) ==
    /\ tab[t].at \in Settled
    /\ \E at \in {"load", "login"} : Go(t, at, None)
    /\ UNCHANGED <<jar, api, pool, member, minutes, faults, choice>>

\* middleware: a page requested without a session is renewed first.
Turned(t) ==
    /\ tab[t].at = "load" /\ jar.session = None
    /\ Go(t, "refresh", "absent")
    /\ UNCHANGED <<jar, api, pool, member, minutes, faults, choice>>

\* A 401 sends the browser to renewal, from a page and from its calls.
SentToRenewal(t) == Go(t, "refresh", "unauthorized")

\* The page's own calls are answered; a 403 is shown.
Load(t, i) ==
    /\ tab[t].at = "load" /\ jar.session # None
    /\ Checks(i)
    /\ \/ Answer(i) = "401" /\ SentToRenewal(t)
       \/ Answer(i) = "403" /\ Go(t, "refused", None)
       \/ Answer(i) = "200" /\ Go(t, "page", None)
    /\ UNCHANGED <<jar, pool, member, minutes, faults, choice>>

\* A later call of the page on the screen, through the proxy, which reads the
\* cookies as they are then, whatever another tab has done to them; any
\* answer but 401 leaves the page where it is.
Call(t, i) ==
    /\ tab[t].at = "page" /\ Checks(i)
    /\ IF Answer(i) = "401" THEN SentToRenewal(t) ELSE UNCHANGED tab
    /\ UNCHANGED <<jar, pool, member, minutes, faults, choice>>

-----------------------------------------------------------------------------
(* Cookies written by the handlers. *)

\* A token the pool issues, for a code or for a refresh token, signed with its
\* newest key.
Issued(user) == <<user, signing, TRUE>>

SessionCleared == [jar EXCEPT !.session = None, !.scope = None]

\* The organization the handler under way in a tab has read.
ReadOrg(t) == IF tab[t].at = "refreshing" THEN tab[t].arg[2] ELSE tab[t].arg[3]

\* What a stored session does to the choice made last.
Keeps(t, user) ==
    IF chosen # None /\ chosen[1] = user
    THEN chosen' = chosen /\ undone' = (undone \/ ReadOrg(t) # chosen[2])
    ELSE chosen' = None /\ undone' = FALSE

\* What renewal and sign-in end with, besides a failure: the token is stored,
\* and the organization when there is one.  Each answer names the tab's next
\* stop.  The remembered organization is tried first, then any.
Established(t, i, user, org, rest) ==
    LET token == Issued(user)
        orgs  == IF Resolves(user, org) # {} THEN Resolves(user, org)
                                             ELSE Resolves(user, None)
    IN  /\ Verifies(i, token)
        /\ \/ /\ Accepts(i, token) /\ orgs # {}
              /\ \E o \in orgs :
                   jar' = [rest EXCEPT !.session = token, !.scope = <<user, o>>]
              /\ Go(t, "load", None)
           \/ /\ Accepts(i, token) /\ orgs = {}
              /\ jar' = [rest EXCEPT !.session = token]
              /\ Go(t, "organization", None)
        /\ Keeps(t, user)
        /\ UNCHANGED faults

\* /me fails: the token is refused, or the call does not get through.  The
\* session and the organization go; the refresh token stays.
ProfileFails(t, i, user, rest) ==
    LET token == Issued(user) IN
    /\ \/ Verifies(i, token) /\ ~Accepts(i, token) /\ UNCHANGED faults
       \/ faults < MaxFaults /\ faults' = faults + 1 /\ UNCHANGED api
    /\ jar' = [rest EXCEPT !.session = None, !.scope = None]
    /\ Go(t, "login", None)
    /\ UNCHANGED choice

-----------------------------------------------------------------------------
(* Renewal. *)

\* A plausible bug: a rejected token is renewed however often it is.
RefreshAlways(t) ==
    /\ tab[t].at = "refresh"
    /\ IF jar.refresh = None
         THEN jar' = SessionCleared /\ Go(t, "login", None)
         ELSE Go(t, "refreshing", <<jar.refresh, OrgOf(jar.scope)>>) /\ UNCHANGED jar
    /\ UNCHANGED <<api, pool, member, minutes, faults, choice>>

\* GET /auth/refresh up to its first call.  A token refused within a minute
\* of a renewal is not renewed again.
Refresh(t) ==
    /\ tab[t].at = "refresh"
    /\ \/ /\ jar.refresh = None
          /\ jar' = SessionCleared /\ Go(t, "login", None)
       \/ /\ jar.refresh # None /\ tab[t].arg = "unauthorized" /\ jar.guard
          /\ jar' = Empty /\ Go(t, "login", None)
       \/ /\ jar.refresh # None /\ ~(tab[t].arg = "unauthorized" /\ jar.guard)
          /\ Go(t, "refreshing", <<jar.refresh, OrgOf(jar.scope)>>)
          /\ UNCHANGED jar
    /\ UNCHANGED <<api, pool, member, minutes, faults, choice>>

\* A plausible bug: the API is left to choose the organization again.
RenewedAnew(t, i) ==
    /\ tab[t].at = "refreshing"
    /\ LET user == tab[t].arg[1] IN
         \/ Established(t, i, user, None, [jar EXCEPT !.guard = TRUE])
         \/ ProfileFails(t, i, user, jar)
    /\ UNCHANGED <<pool, member, minutes>>

\* Its answer: the pool has issued a token, and the profile is asked for.
Renewed(t, i) ==
    /\ tab[t].at = "refreshing"
    /\ LET user == tab[t].arg[1]  org == tab[t].arg[2] IN
         \/ Established(t, i, user, org, [jar EXCEPT !.guard = TRUE])
         \/ ProfileFails(t, i, user, jar)
    /\ UNCHANGED <<pool, member, minutes>>

\* The pool refuses or cannot be reached: everything is cleared.
RenewalFails(t) ==
    /\ tab[t].at = "refreshing" /\ faults < MaxFaults
    /\ faults' = faults + 1
    /\ jar' = Empty /\ Go(t, "login", None)
    /\ UNCHANGED <<api, pool, member, minutes, choice>>

-----------------------------------------------------------------------------
(* Signing in and out. *)

\* GET /auth/start: the state of an earlier sign-in is overwritten.
Start(t) ==
    /\ tab[t].at = "login" /\ minted < MaxSignIns
    /\ minted' = minted + 1
    /\ jar' = [jar EXCEPT !.oauth = minted + 1]
    /\ Go(t, "hosted", minted + 1)
    /\ UNCHANGED <<api, signing, member, minutes, faults, choice>>

\* The user signs in at the pool; the callback's request is sent.
Returns(t, user) ==
    /\ tab[t].at = "hosted"
    /\ Go(t, "callback", <<jar.oauth = tab[t].arg, user, OrgOf(jar.scope)>>)
    /\ UNCHANGED <<jar, api, pool, member, minutes, faults, choice>>

\* GET /auth/callback: pc_oauth goes in any case; a failure clears the session
\* another tab may have made; the refresh token is stored before the profile.
Callback(t, i) ==
    /\ tab[t].at = "callback"
    /\ LET matches == tab[t].arg[1]  user == tab[t].arg[2]  org == tab[t].arg[3]
           rest == [jar EXCEPT !.oauth = None]
           cleared == [rest EXCEPT !.session = None, !.scope = None]
       IN  \/ /\ ~matches \/ faults < MaxFaults     \* state, denied, exchange
              /\ faults' = IF matches THEN faults + 1 ELSE faults
              /\ jar' = cleared /\ Go(t, "login", None)
              /\ UNCHANGED <<api, choice>>
           \/ matches /\ Established(t, i, user, org, [rest EXCEPT !.refresh = user])
           \/ matches /\ ProfileFails(t, i, user, [rest EXCEPT !.refresh = user])
    /\ UNCHANGED <<pool, member, minutes>>

\* GET /logout.
Logout(t) ==
    /\ tab[t].at \in Settled \ {"hosted"}
    /\ jar' = Empty /\ Go(t, "login", None)
    /\ chosen' = None /\ undone' = FALSE
    /\ UNCHANGED <<api, pool, member, minutes, faults>>

-----------------------------------------------------------------------------
(* Organizations. *)

\* switchOrganization and createOrganization read the session ...
Choose(t, org) ==
    /\ tab[t].at \in {"login", "organization"} /\ jar.session # None
    /\ Go(t, "choosing", <<jar.session, org>>)
    /\ UNCHANGED <<jar, api, pool, member, minutes, faults, choice>>

\* ... and write the organization the API agreed to (switch), or made with
\* its user as the owner (create).
Chosen(t, i) ==
    /\ tab[t].at = "choosing"
    /\ LET token == tab[t].arg[1]  org == tab[t].arg[2]  user == token[1]
           fresh == \A u \in Users : org \notin member[u]
       IN  /\ Verifies(i, token)
           /\ IF Accepts(i, token) /\ (fresh \/ org \in member[user])
                THEN /\ member' = [member EXCEPT ![user] = @ \cup {org}]
                     /\ jar' = [jar EXCEPT !.scope = <<user, org>>]
                     /\ chosen' = <<user, org>> /\ undone' = FALSE
                     /\ Go(t, "load", None)
                ELSE Go(t, "login", None) /\ UNCHANGED <<jar, member, choice>>
    /\ UNCHANGED <<pool, minutes, faults>>

-----------------------------------------------------------------------------
(* Time, the pool and an administrator. *)

\* The token of a session after its hour.
Expired(session) ==
    IF session = None THEN {} ELSE {<<session[1], session[2], FALSE>>}

\* A minute passes, or an hour: pc_refreshed goes, the keys may be fetched
\* again; a token, which lives for longer than a minute, may expire, and the
\* browser drops its cookie about then.
Minute ==
    /\ minutes < MaxMinutes /\ minutes' = minutes + 1
    /\ \E s \in {jar.session, None} \cup Expired(jar.session) :
         jar' = [jar EXCEPT !.guard = FALSE, !.session = s]
    /\ recent' = [i \in Instances |-> FALSE]
    /\ UNCHANGED <<tab, known, pool, member, faults, choice>>

Rotate ==
    /\ signing < MaxKeys /\ signing' = signing + 1
    /\ UNCHANGED <<jar, tab, api, minted, member, minutes, faults, choice>>

\* A membership is revoked in the database.
Revoke(u, o) ==
    /\ o \in member[u] /\ member' = [member EXCEPT ![u] = @ \ {o}]
    /\ faults < MaxFaults /\ faults' = faults + 1
    /\ IF chosen = <<u, o>> THEN chosen' = None /\ undone' = FALSE ELSE UNCHANGED choice
    /\ UNCHANGED <<jar, tab, api, pool, minutes>>

-----------------------------------------------------------------------------
Handlers(t) ==
    \/ \E i \in Instances : Load(t, i) \/ Renewed(t, i) \/ Callback(t, i) \/ Chosen(t, i)
    \/ Turned(t) \/ Refresh(t)

Next ==
    \/ \E t \in Tabs :
         \/ Visit(t) \/ Start(t) \/ Logout(t) \/ RenewalFails(t) \/ Handlers(t)
         \/ \E i \in Instances : Call(t, i)
         \/ \E u \in Users : Returns(t, u)
         \/ \E o \in Orgs : Choose(t, o)
    \/ Minute \/ Rotate
    \/ \E u \in Users, o \in Orgs : Revoke(u, o)

Spec == Init /\ [][Next]_vars

\* Requests are answered and redirects followed.
FairSpec == Spec /\ \A t \in Tabs : WF_vars(Handlers(t))

-----------------------------------------------------------------------------
(* What is checked. *)

\* The tabs, the cookies and the key caches have their shapes.
TypeOK ==
    /\ jar \in Jar
    /\ \A t \in Tabs :
         tab[t].at \in Settled \cup {"load", "refresh", "refreshing", "callback", "choosing"}
    /\ signing \in 1..MaxKeys /\ minted \in 0..MaxSignIns
    /\ known \in [Instances -> 0..signing] /\ recent \in [Instances -> BOOLEAN]
    /\ member \in [Users -> SUBSET Orgs]
    /\ minutes \in 0..MaxMinutes /\ faults \in 0..MaxFaults
    /\ chosen \in (Users \X Orgs) \cup {None} /\ undone \in BOOLEAN

Shows(t) == tab[t].at \in Settled

\* "so a still-rejected token cannot loop" (lib/auth-session.ts:24): whatever
\* the tokens, the keys and other tabs do, a navigation ends on something to
\* look at, unless the user keeps navigating in another tab for ever.
NavigationsEnd ==
    \A t \in Tabs :
        \/ []<>Shows(t)
        \/ \E s \in Tabs \ {t} : []<>Shows(s) /\ []<>~Shows(s)

\* "the chosen organization survives a refresh" (lib/auth-session.ts:112):
\* until the user signs out, loses the membership or another user is signed in,
\* the cookie names the organization chosen last, or nothing after a failure;
\* unless a handler that had read another organization, or none, has stored
\* what it found since.  There are such handlers: one sent before the choice,
\* in another tab, and any that follows a failed sign-in or profile call, which
\* deletes the organization although the refresh token may stay.
ChosenSurvives ==
    chosen # None /\ ~undone /\ jar.scope # None /\ jar.scope[1] = chosen[1]
        => jar.scope = chosen
===============================================================================
