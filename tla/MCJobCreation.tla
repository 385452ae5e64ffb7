---------------------------- MODULE MCJobCreation ----------------------------
(* Two wizards, one of which wants a language with lip sync or one without, *)
(* a budget for about one job and a quota of two running targets.           *)
EXTENDS JobCreation

All(tier) == [translation |-> tier, speech |-> tier, lipSync |-> tier]

TwoLocales == [es |-> All("beta"), fr |-> All("production")]

Plain(l)  == <<l, FALSE>>
Synced(l) == <<l, TRUE>>

CONSTANTS w1, w2

\* One of them may submit twice.
ThreeRequests == {<<w1, 1>>, <<w1, 2>>, <<w2, 1>>}

TwoSelections == {{Plain("es")}, {Plain("es"), Synced("fr")}}
==============================================================================
