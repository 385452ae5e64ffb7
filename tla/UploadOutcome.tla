----------------------------- MODULE UploadOutcome -----------------------------
(***************************************************************************)
(* What the uploads of one file come to, seen from outside: there is one   *)
(* under way at a time, it ends once, completed with a whole content or    *)
(* aborted, in a single step, and nothing changes it after that.  A tab    *)
(* that shows "completed" has heard of an upload that is.                  *)
(***************************************************************************)
CONSTANTS UploadIds, Parts, Files, Tabs, None

VARIABLES
    status,    \* of every upload: None, "active", "completed", "aborted"
    content,   \* of the completed ones: part -> file
    heard      \* the completed upload a tab was told of

outcome == <<status, content, heard>>

Init == /\ status = [u \in UploadIds |-> None]
        /\ content = [u \in UploadIds |-> None]
        /\ heard = [c \in Tabs |-> None]

Becomes(u, to) == status' = [status EXCEPT ![u] = to]

Begin(u) == /\ status[u] = None /\ \A v \in UploadIds : status[v] # "active"
            /\ Becomes(u, "active") /\ UNCHANGED <<content, heard>>

Hears(c, u) == heard[c] = None /\ heard' = [heard EXCEPT ![c] = u]

\* Whether the tab that asked for it hears of it is another matter.
Complete(u) ==
    /\ status[u] = "active" /\ Becomes(u, "completed")
    /\ \E whole \in [Parts -> Files] : content' = [content EXCEPT ![u] = whole]
    /\ UNCHANGED heard \/ \E c \in Tabs : Hears(c, u)

Abort(u) == /\ status[u] = "active" /\ Becomes(u, "aborted")
            /\ UNCHANGED <<content, heard>>

Tell(c, u) == /\ status[u] = "completed" /\ Hears(c, u)
              /\ UNCHANGED <<status, content>>

Next == \E u \in UploadIds :
    Begin(u) \/ Complete(u) \/ Abort(u) \/ \E c \in Tabs : Tell(c, u)

Spec == Init /\ [][Next]_outcome
==============================================================================
