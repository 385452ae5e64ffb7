--------------------------- MODULE MCEpisodeEncoder ---------------------------
(* A file that is uploaded twice, its second version in another language.  *)
(* Two files of one episode id meet in the same way as two versions do.    *)
EXTENDS EpisodeEncoder

CONSTANT e1

OneId == [k \in Keys |-> e1]
TwoTargets == <<"es", "fr">>

\* A stray "...", then a sentence that is as long as a chunk but for the blank
\* after it: its last piece is only that blank.
OneText == {<<[size |-> 1, blank |-> {}, stray |-> TRUE],
              [size |-> 3, blank |-> {3}, stray |-> FALSE]>>}

Runs == {[size |-> 1, blank |-> {}, stray |-> TRUE]}
    \cup {[size |-> n, blank |-> b, stray |-> FALSE] : n \in 1..5, b \in {{}, {3}, {5}}}

SmallTexts == UNION {[1..n -> Runs] : n \in 0..3}

\* The chunks of every small text say what it says, in order, and only a
\* sentence that was cut leaves an empty one.
ASSUME SmallTextsAreWhole ==
    \A t \in SmallTexts : LET parts == Chunks(t) IN
        /\ Total(Sounds(parts)) = Total(ToSay(t))
        /\ \A i \in DOMAIN parts :
            /\ parts[i].size \in 1..ChunkSize
            /\ parts[i].heard = 0 => \E k \in DOMAIN t : t[k].size > ChunkSize
==============================================================================
