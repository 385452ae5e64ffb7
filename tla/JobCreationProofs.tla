--------------------------- MODULE JobCreationProofs ---------------------------
(***************************************************************************)
(* Proofs about JobCreation, for any number of wizards, requests, targets  *)
(* and lost answers, whatever the rates, the budget and the quota.         *)
(*                                                                         *)
(* Sums come first: SumFunction adds the terms in an order nobody knows,   *)
(* so that it grows by the term that is added has to be proved.  The keys, *)
(* the money and the quota follow, then the refinement of JobLedger and    *)
(* the arithmetic of the estimate.                                         *)
(***************************************************************************)
EXTENDS JobCreation, FiniteSetTheorems, WellFoundedInduction, TLAPS

-----------------------------------------------------------------------------
(* Sums of functions on finite sets. *)

Any(s) == CHOOSE x \in s : TRUE

\* g is the running sum of f over the subsets of D.
Sums(f, D, g) ==
    g = [s \in SUBSET D |-> IF s = {} THEN 0 ELSE f[Any(s)] + g[s \ {Any(s)}]]

LEMMA Least ==
    ASSUME NEW T \in SUBSET Nat, T # {}  PROVE \E x \in T : \A y \in T : x <= y
<1> DEFINE R == OpToRel(<, Nat)
<1>1. IsWellFoundedOn(R, Nat)
  BY NatLessThanWellFounded
<1>2. PICK x \in T : \A y \in T : <<y, x>> \notin R
  BY <1>1, WFMin
<1>3. \A y \in T : y < x => <<y, x>> \in R
  BY DEF OpToRel
<1>4. \A y \in T : ~(y < x)
  BY <1>2, <1>3
<1> HIDE DEF R
<1> QED  BY <1>4

LEMMA AnyIs == \A s : s # {} => Any(s) \in s
BY DEF Any

\* The number of members of the subsets of a finite set.
LEMMA Counts ==
    ASSUME NEW D, IsFiniteSet(D), NEW s \in SUBSET D
    PROVE  /\ Cardinality(s) \in Nat /\ (Cardinality(s) = 0 <=> s = {})
           /\ \A x \in s : s \ {x} \in SUBSET D /\ Cardinality(s \ {x}) = Cardinality(s) - 1
<1>1. IsFiniteSet(s)
  BY FS_Subset
<1>2. Cardinality(s) \in Nat /\ (Cardinality(s) = 0 <=> s = {})
  BY <1>1, FS_CardinalityType, FS_EmptySet
<1>3. ASSUME NEW x \in s  PROVE Cardinality(s \ {x}) = Cardinality(s) - 1
  BY <1>1, FS_RemoveElement
<1> QED  BY <1>2, <1>3

\* What fails for a subset fails for a smallest one.
LEMMA Smallest ==
    ASSUME NEW D, IsFiniteSet(D), NEW Bad \in SUBSET (SUBSET D), Bad # {}
    PROVE  \E s \in Bad : \A x \in s : s \ {x} \notin Bad
<1> DEFINE sizes == {n \in Nat : \E s \in Bad : n = Cardinality(s)}
<1>1. sizes \in SUBSET Nat /\ sizes # {}
  <2>1. PICK s : s \in Bad
    OBVIOUS
  <2>2. Cardinality(s) \in sizes
    BY <2>1, Counts
  <2> QED  BY <2>2
<1>2. PICK n \in sizes : \A m \in sizes : n <= m
  BY <1>1, Least
<1>3. PICK s \in Bad : n = Cardinality(s)
  BY <1>2
<1>4. ASSUME NEW x \in s, s \ {x} \in Bad  PROVE FALSE
  <2>1. Cardinality(s \ {x}) = n - 1 /\ Cardinality(s \ {x}) \in Nat
    BY <1>3, <1>4, Counts
  <2>2. n - 1 \in sizes
    BY <1>4, <2>1
  <2> QED  BY <1>2, <2>2
<1> QED  BY <1>3, <1>4

Small(D, n) == {s \in SUBSET D : Cardinality(s) <= n}

SumsTo(f, D, n, g) ==
    /\ g \in [Small(D, n) -> Nat]
    /\ \A s \in Small(D, n) :
          g[s] = IF s = {} THEN 0 ELSE f[Any(s)] + g[s \ {Any(s)}]

LEMMA SumsToAny ==
    ASSUME NEW D, IsFiniteSet(D), NEW f \in [D -> Nat], NEW n \in Nat
    PROVE  \E g : SumsTo(f, D, n, g)
<1> DEFINE bad == {m \in Nat : ~\E g : SumsTo(f, D, m, g)}
<1> SUFFICES ASSUME bad # {}  PROVE FALSE
  OBVIOUS
<1>1. PICK m \in bad : \A k \in bad : m <= k
  BY Least
<1>2. m \in Nat /\ ~\E g : SumsTo(f, D, m, g)
  BY <1>1
<1>3. CASE m = 0
  <2> DEFINE g == [s \in Small(D, m) |-> 0]
  <2>1. \A s \in Small(D, m) : s = {}
    <3> SUFFICES ASSUME NEW s \in Small(D, m)  PROVE s = {}
      OBVIOUS
    <3>1. s \in SUBSET D /\ Cardinality(s) <= 0
      BY <1>3 DEF Small
    <3>2. Cardinality(s) \in Nat /\ (Cardinality(s) = 0 <=> s = {})
      BY <3>1, Counts
    <3> QED  BY <3>1, <3>2
  <2>2. SumsTo(f, D, m, g)
    BY <2>1 DEF SumsTo
  <2> QED  BY <1>2, <2>2
<1>4. CASE m # 0
  <2>1. m - 1 \in Nat /\ ~(m <= m - 1)
    BY <1>2, <1>4
  <2>2. m - 1 \notin bad
    BY <1>1, <2>1
  <2>3. PICK h : SumsTo(f, D, m - 1, h)
    BY <2>1, <2>2
  <2> DEFINE g == [s \in Small(D, m) |-> IF s = {} THEN 0 ELSE f[Any(s)] + h[s \ {Any(s)}]]
  <2>4. \A s \in Small(D, m) : s # {} =>
          s \ {Any(s)} \in Small(D, m - 1) /\ s \ {Any(s)} \in Small(D, m) /\ Any(s) \in D
    <3> SUFFICES ASSUME NEW s \in Small(D, m), s # {}
                 PROVE  /\ s \ {Any(s)} \in Small(D, m - 1) /\ s \ {Any(s)} \in Small(D, m)
                        /\ Any(s) \in D
      OBVIOUS
    <3>1. s \in SUBSET D /\ Cardinality(s) <= m /\ Any(s) \in s
      BY AnyIs DEF Small
    <3>2. /\ Cardinality(s) \in Nat /\ s \ {Any(s)} \in SUBSET D
          /\ Cardinality(s \ {Any(s)}) = Cardinality(s) - 1
      BY <3>1, Counts
    <3>3. Cardinality(s \ {Any(s)}) <= m - 1 /\ Cardinality(s \ {Any(s)}) <= m
      BY <1>2, <3>1, <3>2
    <3> QED  BY <3>1, <3>2, <3>3 DEF Small
  <2>5. g \in [Small(D, m) -> Nat]
    <3>1. ASSUME NEW s \in Small(D, m), s # {}  PROVE f[Any(s)] + h[s \ {Any(s)}] \in Nat
      <4>1. f[Any(s)] \in Nat /\ h[s \ {Any(s)}] \in Nat
        BY <2>3, <2>4, <3>1 DEF SumsTo
      <4> QED  BY <4>1
    <3> QED  BY <3>1
  <2>6. \A s \in Small(D, m - 1) : s \in Small(D, m) /\ g[s] = h[s]
    <3> SUFFICES ASSUME NEW s \in Small(D, m - 1)  PROVE s \in Small(D, m) /\ g[s] = h[s]
      OBVIOUS
    <3>1. s \in SUBSET D /\ Cardinality(s) <= m - 1 /\ Cardinality(s) \in Nat
      BY Counts DEF Small
    <3>2. s \in Small(D, m)
      BY <1>2, <3>1 DEF Small
    <3> QED  BY <2>3, <3>2 DEF SumsTo
  <2>7. ASSUME NEW s \in Small(D, m)
        PROVE  g[s] = IF s = {} THEN 0 ELSE f[Any(s)] + g[s \ {Any(s)}]
    <3>1. CASE s = {}
      BY <3>1
    <3>2. CASE s # {}
      <4>1. g[s \ {Any(s)}] = h[s \ {Any(s)}]
        BY <2>4, <2>6, <3>2
      <4>2. g[s] = f[Any(s)] + h[s \ {Any(s)}]
        BY <3>2
      <4> HIDE DEF g
      <4> QED  BY <3>2, <4>1, <4>2
    <3> QED  BY <3>1, <3>2
  <2> HIDE DEF g
  <2>8. SumsTo(f, D, m, g)
    BY <2>5, <2>7 DEF SumsTo
  <2> QED  BY <1>2, <2>8
<1> QED  BY <1>3, <1>4

LEMMA SumExists ==
    ASSUME NEW D, IsFiniteSet(D), NEW f \in [D -> Nat]
    PROVE  \E g : Sums(f, D, g)
<1> DEFINE n == Cardinality(D)
<1>1. n \in Nat /\ Small(D, n) = SUBSET D
  BY FS_CardinalityType, FS_Subset DEF Small
<1>2. PICK g : SumsTo(f, D, n, g)
  BY <1>1, SumsToAny
<1>3. Sums(f, D, g)
  BY <1>1, <1>2 DEF SumsTo, Sums
<1> QED  BY <1>3

\* What a running sum is, in whatever order its terms are taken.
LEMMA RunningSum ==
    ASSUME NEW D, IsFiniteSet(D), NEW f \in [D -> Nat], NEW g, Sums(f, D, g)
    PROVE  /\ g[{}] = 0
           /\ \A s \in SUBSET D : g[s] \in Nat
           /\ \A s \in SUBSET D : \A y \in s : g[s] = f[y] + g[s \ {y}]
<1>1. \A s \in SUBSET D : g[s] = IF s = {} THEN 0 ELSE f[Any(s)] + g[s \ {Any(s)}]
  BY DEF Sums
<1>2. \A s \in SUBSET D : g[s] \in Nat
  <2> DEFINE bad == {s \in SUBSET D : g[s] \notin Nat}
  <2> SUFFICES ASSUME bad # {}  PROVE FALSE
    OBVIOUS
  <2>1. PICK s \in bad : \A x \in s : s \ {x} \notin bad
    <3>1. bad \in SUBSET (SUBSET D)
      OBVIOUS
    <3> QED  BY <3>1, Smallest
  <2>2. s \in SUBSET D /\ s # {} /\ g[s] = f[Any(s)] + g[s \ {Any(s)}]
    <3>1. s \in SUBSET D /\ g[s] \notin Nat
      BY <2>1
    <3>2. g[s] = IF s = {} THEN 0 ELSE f[Any(s)] + g[s \ {Any(s)}]
      BY <1>1, <3>1
    <3> QED  BY <3>1, <3>2
  <2>3. Any(s) \in s /\ f[Any(s)] \in Nat
    BY <2>2, AnyIs
  <2>4. g[s \ {Any(s)}] \in Nat
    BY <2>1, <2>2, <2>3
  <2> QED  BY <2>1, <2>2, <2>3, <2>4
<1>3. \A s \in SUBSET D : \A y \in s : g[s] = f[y] + g[s \ {y}]
  <2> DEFINE bad == {s \in SUBSET D : \E y \in s : g[s] # f[y] + g[s \ {y}]}
  <2> SUFFICES ASSUME bad # {}  PROVE FALSE
    OBVIOUS
  <2>1. PICK s \in bad : \A x \in s : s \ {x} \notin bad
    <3>1. bad \in SUBSET (SUBSET D)
      OBVIOUS
    <3> QED  BY <3>1, Smallest
  <2>2. PICK y \in s : g[s] # f[y] + g[s \ {y}]
    BY <2>1
  <2> DEFINE x == Any(s)
  <2>3. s \in SUBSET D /\ x \in s /\ g[s] = f[x] + g[s \ {x}]
    BY <1>1, <2>1, <2>2, AnyIs
  <2> HIDE DEF x
  <2>4. x # y /\ y \in s \ {x} /\ x \in s \ {y}
    BY <2>2, <2>3
  <2>5. s \ {x} \notin bad /\ s \ {y} \notin bad /\ s \ {x} \in SUBSET D /\ s \ {y} \in SUBSET D
    BY <2>1, <2>3, <2>4
  <2>6. g[s \ {x}] = f[y] + g[(s \ {x}) \ {y}] /\ g[s \ {y}] = f[x] + g[(s \ {y}) \ {x}]
    BY <2>4, <2>5
  <2> DEFINE rest == g[(s \ {x}) \ {y}]
  <2>7. (s \ {x}) \ {y} = (s \ {y}) \ {x} /\ (s \ {x}) \ {y} \in SUBSET D
    BY <2>3
  <2>8. g[s \ {x}] = f[y] + rest /\ g[s \ {y}] = f[x] + rest
    BY <2>6, <2>7
  <2>9. f[x] \in Nat /\ f[y] \in Nat /\ rest \in Nat
    BY <1>2, <2>2, <2>3, <2>7
  <2> HIDE DEF bad, rest
  <2>10. g[s] = f[x] + (f[y] + rest) /\ g[s] # f[y] + (f[x] + rest)
    BY <2>2, <2>3, <2>8
  <2> QED  BY <2>9, <2>10
<1> QED  BY <1>1, <1>2, <1>3

LEMMA TakeOut ==
    ASSUME NEW D, IsFiniteSet(D), NEW f \in [D -> Nat], NEW g, Sums(f, D, g), NEW y \in D
    PROVE  g[D] = f[y] + g[D \ {y}]
<1>1. D \in SUBSET D
  OBVIOUS
<1> QED  BY <1>1, RunningSum

\* A running sum over a set is what its terms there make it.
LEMMA SameTerms ==
    ASSUME NEW D, IsFiniteSet(D), NEW f \in [D -> Nat], NEW g, Sums(f, D, g),
           NEW E, IsFiniteSet(E), NEW h \in [E -> Nat], NEW k, Sums(h, E, k),
           D \subseteq E, \A x \in D : f[x] = h[x]
    PROVE  \A s \in SUBSET D : g[s] = k[s]
<1> DEFINE bad == {s \in SUBSET D : g[s] # k[s]}
<1> SUFFICES ASSUME bad # {}  PROVE FALSE
  OBVIOUS
<1>1. PICK s \in bad : \A x \in s : s \ {x} \notin bad
  <2>1. bad \in SUBSET (SUBSET D)
    OBVIOUS
  <2> QED  BY <2>1, Smallest
<1>2. s \in SUBSET D /\ s \in SUBSET E /\ g[s] # k[s]
  BY <1>1
<1>3. s # {}
  BY <1>2, RunningSum
<1>4. PICK x \in s : TRUE
  BY <1>3
<1>5. g[s] = f[x] + g[s \ {x}] /\ k[s] = h[x] + k[s \ {x}]
  BY <1>2, <1>4, RunningSum
<1>6. g[s \ {x}] = k[s \ {x}] /\ f[x] = h[x]
  BY <1>1, <1>2, <1>4
<1> QED  BY <1>2, <1>5, <1>6

LEMMA SumIs ==
    ASSUME NEW f, NEW D, IsFiniteSet(D), f \in [D -> Nat]
    PROVE  \E g : Sums(f, D, g) /\ SumFunction(f) = g[D]
<1> DEFINE g == CHOOSE g : Sums(f, DOMAIN f, g)
<1>1. SumFunction(f) = g[DOMAIN f]
  BY DEF SumFunction, SumFunctionOnSet, FoldFunctionOnSet, MapThenFoldSet, Sums, Any
<1>2. DOMAIN f = D
  OBVIOUS
<1>3. Sums(f, D, g)
  BY <1>2, SumExists
<1> QED  BY <1>1, <1>2, <1>3

LEMMA SumType ==
    ASSUME NEW D, IsFiniteSet(D), NEW f \in [D -> Nat]
    PROVE  SumFunction(f) \in Nat
<1>1. PICK g : Sums(f, D, g) /\ SumFunction(f) = g[D]
  BY SumIs
<1> QED  BY <1>1, RunningSum

LEMMA SumOfNothing == ASSUME NEW f \in [{} -> Nat]  PROVE SumFunction(f) = 0
<1>1. IsFiniteSet({})
  BY FS_EmptySet
<1>2. PICK g : Sums(f, {}, g) /\ SumFunction(f) = g[{}]
  BY <1>1, SumIs
<1> QED  BY <1>1, <1>2, RunningSum

\* One more term.
LEMMA SumOfOneMore ==
    ASSUME NEW D, IsFiniteSet(D), NEW f \in [D -> Nat], NEW r, r \notin D,
           NEW h \in [D \cup {r} -> Nat], \A x \in D : f[x] = h[x]
    PROVE  SumFunction(h) = SumFunction(f) + h[r]
<1> DEFINE E == D \cup {r}
<1>1. IsFiniteSet(E) /\ E \ {r} = D /\ D \in SUBSET D /\ E \in SUBSET E /\ D \subseteq E
      /\ r \in E
  BY FS_AddElement
<1>2. h \in [E -> Nat]
  OBVIOUS
<1> HIDE DEF E
<1>3. PICK g : Sums(f, D, g) /\ SumFunction(f) = g[D]
  BY SumIs
<1>4. PICK k : Sums(h, E, k) /\ SumFunction(h) = k[E]
  BY <1>1, <1>2, SumIs
<1>5. k[E] = h[r] + k[E \ {r}]
  BY <1>1, <1>2, <1>4, TakeOut
<1>6. k[D] = g[D]
  BY <1>1, <1>2, <1>3, <1>4, SameTerms
<1>7. g[D] \in Nat /\ h[r] \in Nat
  BY <1>1, <1>2, <1>3, RunningSum
<1> QED  BY <1>1, <1>3, <1>4, <1>5, <1>6, <1>7

-----------------------------------------------------------------------------
(* What is kept of keys and wizards. *)

Selectable == Selections \cup {{}}

Phases == {"none", "arrived", "waits", "begun", "in budget", "in quota"}

Estimates == [choices : Selectable, minutes : Durations, ok : BOOLEAN]

Wizards == [step : {"targets", "estimate", "submit", "done"},
            choices : Selectable, asking : Selectable \cup {None},
            estimate : Estimates \cup {None}, beta : BOOLEAN,
            sent : SUBSET Requests, busy : Requests \cup {None},
            strayed : BOOLEAN, job : Requests \cup {None}]

TxOK == tx \in [Requests -> [phase : Phases, key : Tabs \cup {None}, body : Selectable]]

KeysOK == keys \in [Tabs -> {None} \cup [body : Selectable, job : Requests \cup {None}]]

-----------------------------------------------------------------------------
(* The keys. *)

\* A transaction that has inserted its key and is not over.
Holds(r) == tx[r].phase \in {"begun", "in budget", "in quota"}

\* A reserved key has one holder, and a job is what its key answers with.
KeyInv ==
    /\ TxOK /\ KeysOK /\ minutes \in Durations
    /\ \A r \in Requests : tx[r].phase # "none" => tx[r].key \in Tabs /\ r \notin DOMAIN jobs
    /\ \A r \in Requests : Holds(r) => Held(tx[r].key)
    /\ \A r, s \in Requests : Holds(r) /\ Holds(s) /\ tx[r].key = tx[s].key => r = s
    /\ \A w \in Tabs : Held(w) => \E r \in Requests : Holds(r) /\ tx[r].key = w
    /\ \A w \in Tabs : Known(w) =>
          /\ keys[w].job \in DOMAIN jobs /\ jobs[keys[w].job].key = w
          /\ jobs[keys[w].job].targets = keys[w].body
    /\ \A r \in DOMAIN jobs :
          /\ r \in Requests /\ jobs[r].key \in Tabs
          /\ Known(jobs[r].key) /\ keys[jobs[r].key].job = r
          /\ jobs[r].reserved = TotalHigh(jobs[r].minutes, jobs[r].targets)

-----------------------------------------------------------------------------
(* The wizards. *)

\* What is shown is the estimate of what is selected, and an answer that is
\* awaited finds the wizard where it was asked for, unless it has strayed.
TabOK(t) ==
    /\ t \in Wizards
    /\ t.step = "submit" => /\ t.estimate # None /\ t.estimate.choices = t.choices
                            /\ HasBeta(t.choices) => t.beta
    /\ t.step = "estimate" => /\ t.estimate # None => t.estimate.choices = t.choices
                              /\ t.asking \in {None, t.choices}
    /\ t.step # "estimate" => t.asking = None
    /\ t.sent # {} /\ ~t.strayed => t.step = "submit"
    /\ t.step = "done" => t.sent = {}

\* The requests a wizard waits for are its own and, unless it has strayed,
\* for what it shows.
Sends(w) ==
    \A r \in tab[w].sent :
        /\ tx[r].phase # "none" /\ tx[r].key = w
        /\ ~tab[w].strayed => tx[r].body = tab[w].choices

\* Where a wizard arrives that has not strayed.
Arrived(w) ==
    tab[w].step = "done" /\ ~tab[w].strayed =>
        /\ tab[w].job \in DOMAIN jobs /\ jobs[tab[w].job].key = w
        /\ jobs[tab[w].job].targets = tab[w].choices
        /\ tab[w].estimate # None /\ tab[w].estimate.choices = tab[w].choices
        /\ HasBeta(tab[w].choices) => tab[w].beta

TabInv ==
    /\ tab \in [Tabs -> Wizards]
    /\ \A w \in Tabs : TabOK(tab[w]) /\ Sends(w) /\ Arrived(w)

Inv == KeyInv /\ TabInv

LEMMA NoneIsNot ==
    /\ None \notin Requests /\ None \notin Tabs
    /\ \A b \in Selectable, j \in Requests \cup {None} : [body |-> b, job |-> j] # None
BY CreationAssumption DEF Selectable

LEMMA InitInv == Init => Inv
<1> SUFFICES ASSUME Init  PROVE Inv
  OBVIOUS
<1>1. KeyInv
  BY NoneIsNot DEF Init, KeyInv, TxOK, KeysOK, NoTx, Phases, Selectable, Holds, Held, Known
<1>2. ASSUME NEW w \in Tabs  PROVE TabOK(tab[w]) /\ Sends(w) /\ Arrived(w)
  <2>1. tab[w] \in [step : {"targets"}, choices : {{}}, asking : {None},
                    estimate : {None}, beta : {FALSE}, sent : {{}},
                    busy : {None}, strayed : {FALSE}, job : {None}]
    BY DEF Init
  <2> QED  BY <2>1 DEF TabOK, Wizards, Selectable, Sends, Arrived
<1>3. tab \in [Tabs -> Wizards]
  <2> DEFINE S == [step : {"targets"}, choices : {{}}, asking : {None},
                   estimate : {None}, beta : {FALSE}, sent : {{}},
                   busy : {None}, strayed : {FALSE}, job : {None}]
  <2>1. tab \in [Tabs -> S]
    BY DEF Init
  <2>2. \A w \in Tabs : tab[w] \in Wizards
    BY <1>2 DEF TabOK
  <2> HIDE DEF S
  <2> QED  BY <2>1, <2>2
<1> QED  BY <1>1, <1>2, <1>3 DEF Inv, TabInv

-----------------------------------------------------------------------------
(* The steps of a wizard by itself. *)

\* What a step of the wizard alone makes of it.
Moves(w, t) ==
    /\ tab' = [tab EXCEPT ![w] = t]
    /\ UNCHANGED <<tx, keys, jobs, minutes>>
    /\ TabOK(t) /\ t.step # "done" /\ t.sent \subseteq tab[w].sent
    /\ t.sent # {} /\ ~t.strayed => ~tab[w].strayed /\ t.choices = tab[w].choices

LEMMA KeysAlone ==
    ASSUME KeyInv, UNCHANGED <<tx, keys, jobs, minutes>>  PROVE KeyInv'
<1>1. \A w \in Tabs : (Known(w)' <=> Known(w)) /\ (Held(w)' <=> Held(w))
  BY DEF Known, Held
<1>2. \A r : Holds(r)' <=> Holds(r)
  BY DEF Holds
<1>3. TxOK' /\ KeysOK' /\ minutes' \in Durations
  BY DEF KeyInv, TxOK, KeysOK
<1>4. \A r \in DOMAIN jobs : jobs'[r].reserved = TotalHigh(jobs'[r].minutes, jobs'[r].targets)
  BY DEF KeyInv
<1>5. \A r \in DOMAIN jobs :
          /\ r \in Requests /\ jobs'[r].key \in Tabs
          /\ Known(jobs[r].key)' /\ keys'[jobs'[r].key].job = r
  BY DEF KeyInv, Known
<1>6. \A w \in Tabs : Known(w)' =>
          /\ keys'[w].job \in DOMAIN jobs' /\ jobs'[keys'[w].job].key = w
          /\ jobs'[keys'[w].job].targets = keys'[w].body
  BY <1>1 DEF KeyInv
<1>7. /\ \A r \in Requests : tx'[r].phase # "none" => tx'[r].key \in Tabs /\ r \notin DOMAIN jobs'
      /\ \A r \in Requests : Holds(r)' => Held(tx[r].key)'
  BY <1>2 DEF KeyInv, Held
<1>8. /\ \A r, s \in Requests : Holds(r)' /\ Holds(s)' /\ tx'[r].key = tx'[s].key => r = s
      /\ \A w \in Tabs : Held(w)' => \E r \in Requests : Holds(r)' /\ tx'[r].key = w
  BY <1>1, <1>2 DEF KeyInv
<1> QED  BY <1>3, <1>4, <1>5, <1>6, <1>7, <1>8 DEF KeyInv

LEMMA MovesKeep ==
    ASSUME Inv, NEW w \in Tabs, NEW t, Moves(w, t)  PROVE Inv'
<1>1. KeyInv'
  BY KeysAlone DEF Inv, Moves
<1>2. tab \in [Tabs -> Wizards] /\ tab' \in [Tabs -> Wizards]
  BY DEF Inv, TabInv, Moves, TabOK
<1>3. ASSUME NEW v \in Tabs  PROVE TabOK(tab[v])' /\ Sends(v)' /\ Arrived(v)'
  <2>1. CASE v = w
    <3>1. tab'[v] = t
      BY <1>2, <2>1 DEF Moves
    <3> QED  BY <1>2, <2>1, <3>1 DEF Inv, TabInv, Moves, Sends, Arrived, TabOK
  <2>2. CASE v # w
    <3>1. tab'[v] = tab[v] /\ UNCHANGED <<tx, jobs>>
      BY <1>2, <2>2 DEF Moves
    <3> QED  BY <3>1 DEF Inv, TabInv, Sends, Arrived, TabOK
  <2> QED  BY <2>1, <2>2
<1> QED  BY <1>1, <1>2, <1>3 DEF Inv, TabInv

LEMMA ShownOK ==
    ASSUME NEW t \in Wizards, NEW step \in {"targets", "estimate"},
           step = "estimate" /\ t.estimate # None => t.estimate.choices = t.choices,
           t.sent # {} => t.strayed
    PROVE  TabOK(Shown(t, step)) /\ Shown(t, step).step # "done"
<1> DEFINE a == IF step = "estimate" THEN Asking(t) ELSE None
           u == Shown(t, step)
<1>1. a \in Selectable \cup {None} /\ a \in {None, t.choices} /\ (step = "targets" => a = None)
  BY DEF Asking, Wizards
<1>2. u = [t EXCEPT !.step = step, !.asking = a]
  BY DEF Shown
<1> HIDE DEF a, u
<1>3. /\ u \in Wizards /\ u.step = step /\ u.asking = a /\ u.estimate = t.estimate
      /\ u.choices = t.choices /\ u.sent = t.sent /\ u.strayed = t.strayed
  BY <1>1, <1>2 DEF Wizards
<1>4. TabOK(u) /\ u.step # "done"
  BY <1>1, <1>3 DEF TabOK
<1> QED  BY <1>4 DEF u

LEMMA WizardNext ==
    ASSUME Inv, NEW w \in Tabs, Wizard(w), ~Submit(w), ~AnswerLost(w)  PROVE Inv'
<1> DEFINE t == tab[w]
<1>0. t \in Wizards /\ TabOK(t) /\ tab \in [Tabs -> Wizards] /\ minutes \in Durations
  BY DEF Inv, TabInv, KeyInv
<1>1. ASSUME NEW c \in Selections, Choose(w, c)  PROVE Inv'
  <2>1. t.step = "targets" /\ tab' = [tab EXCEPT ![w] = [t EXCEPT !.choices = c]]
    BY <1>0, <1>1 DEF Choose, At
  <2>2. TabOK([t EXCEPT !.choices = c])
    BY <1>0, <2>1 DEF TabOK, Wizards, Selectable
  <2>3. Moves(w, [t EXCEPT !.choices = c])
    BY <1>0, <1>1, <2>1, <2>2 DEF Choose, OnlyTabs, Moves, TabOK, Wizards
  <2> QED  BY <2>3, MovesKeep
<1>2. CASE Continue(w)
  <2> DEFINE s == [t EXCEPT !.estimate = None]
  <2>1. s \in Wizards /\ s.estimate = None /\ s.sent = {} /\ t.sent = {}
    BY <1>0, <1>2 DEF Continue, Wizards
  <2>2. TabOK(Shown(s, "estimate")) /\ Shown(s, "estimate").step # "done"
    BY <2>1, ShownOK
  <2>3. Shown(s, "estimate").sent = {}
    BY <2>1 DEF Shown, Wizards
  <2>4. tab' = [tab EXCEPT ![w] = Shown(s, "estimate")]
    BY <1>0, <1>2 DEF Continue
  <2>5. UNCHANGED <<tx, keys, jobs, minutes>>
    BY <1>2 DEF Continue, OnlyTabs
  <2> HIDE DEF s
  <2>6. Moves(w, Shown(s, "estimate"))
    BY <2>2, <2>3, <2>4, <2>5 DEF Moves
  <2> QED  BY <2>6, MovesKeep
<1>3. CASE EstimateArrives(w)
  <2> DEFINE e == [choices |-> t.asking, minutes |-> minutes,
                   ok |-> Headroom(TotalHigh(minutes, t.asking))]
             u == [t EXCEPT !.asking = None, !.estimate = e]
  <2>1. t.asking # None /\ tab' = [tab EXCEPT ![w] = u]
    BY <1>0, <1>3 DEF EstimateArrives
  <2>2. t.step = "estimate" /\ t.asking = t.choices
    BY <1>0, <2>1 DEF TabOK
  <2>3. Headroom(TotalHigh(minutes, t.asking)) \in BOOLEAN
    BY DEF Headroom
  <2>4. e \in Estimates /\ e.choices = t.choices
    BY <1>0, <2>2, <2>3 DEF Estimates, Wizards
  <2> HIDE DEF e
  <2>5. TabOK(u)
    BY <1>0, <2>2, <2>4 DEF TabOK, Wizards
  <2>6. Moves(w, u)
    BY <1>0, <1>3, <2>1, <2>2, <2>5 DEF EstimateArrives, OnlyTabs, Moves, TabOK, Wizards
  <2> QED  BY <2>6, MovesKeep
<1>4. CASE EstimateFails(w)
  <2> DEFINE u == [t EXCEPT !.asking = None]
  <2>1. tab' = [tab EXCEPT ![w] = u] /\ t.asking # None
    BY <1>0, <1>4 DEF EstimateFails
  <2>2. TabOK(u)
    BY <1>0 DEF TabOK, Wizards
  <2>3. Moves(w, u)
    BY <1>0, <1>4, <2>1, <2>2 DEF EstimateFails, Moves, TabOK, Wizards
  <2> QED  BY <2>3, MovesKeep
<1>5. CASE AcceptBeta(w)
  <2> DEFINE u == [t EXCEPT !.beta = TRUE]
  <2>1. tab' = [tab EXCEPT ![w] = u] /\ t.step = "estimate"
    BY <1>0, <1>5 DEF AcceptBeta, At
  <2>2. TabOK(u)
    BY <1>0, <2>1 DEF TabOK, Wizards
  <2>3. Moves(w, u)
    BY <1>0, <1>5, <2>1, <2>2 DEF AcceptBeta, OnlyTabs, Moves, TabOK, Wizards
  <2> QED  BY <2>3, MovesKeep
<1>6. CASE ToSubmit(w)
  <2> DEFINE u == Shown(t, "submit")
  <2>1. /\ t.step = "estimate" /\ t.estimate # None /\ (HasBeta(t.choices) => t.beta)
        /\ tab' = [tab EXCEPT ![w] = u] /\ UNCHANGED <<tx, keys, jobs, minutes>>
    BY <1>0, <1>6 DEF ToSubmit, At, OnlyTabs
  <2>2. /\ u \in Wizards /\ u.step = "submit" /\ u.asking = None /\ u.estimate = t.estimate
        /\ u.choices = t.choices /\ u.sent = t.sent /\ u.strayed = t.strayed
        /\ u.beta = t.beta
    BY <1>0 DEF Shown, Wizards
  <2> HIDE DEF u
  <2>3. TabOK(u)
    BY <1>0, <2>1, <2>2 DEF TabOK
  <2>4. Moves(w, u)
    BY <2>1, <2>2, <2>3 DEF Moves
  <2> QED  BY <2>4, MovesKeep
<1>7. ASSUME NEW step \in {"targets", "estimate"}, LeaveFor(w, step),
             step = "estimate" => t.step = "submit"
      PROVE  Inv'
  <2> DEFINE s == [t EXCEPT !.busy = None, !.strayed = t.strayed \/ t.sent # {}]
  <2>1. s \in Wizards /\ s.sent = t.sent /\ s.strayed = (t.strayed \/ t.sent # {})
        /\ s.choices = t.choices /\ s.estimate = t.estimate
    BY <1>0 DEF Wizards
  <2>2. Shown(s, step) = [Shown(t, step) EXCEPT !.busy = None,
                                                !.strayed = t.strayed \/ t.sent # {}]
    BY <1>0 DEF Shown, Asking, Wizards
  <2> HIDE DEF s
  <2>7. tab' = [tab EXCEPT ![w] = [Shown(t, step) EXCEPT !.busy = None,
                                                !.strayed = t.strayed \/ t.sent # {}]]
    BY <1>7 DEF LeaveFor
  <2>3. tab' = [tab EXCEPT ![w] = Shown(s, step)] /\ UNCHANGED <<tx, keys, jobs, minutes>>
    BY <1>7, <2>2, <2>7 DEF LeaveFor, OnlyTabs
  <2>4. TabOK(Shown(s, step)) /\ Shown(s, step).step # "done"
    BY <1>0, <1>7, <2>1, ShownOK DEF TabOK
  <2>5. Shown(s, step).sent = s.sent /\ Shown(s, step).strayed = s.strayed
        /\ Shown(s, step).choices = s.choices
    BY <2>1 DEF Shown, Wizards
  <2>6. Moves(w, Shown(s, step))
    BY <2>1, <2>3, <2>4, <2>5 DEF Moves, Wizards
  <2> QED  BY <2>6, MovesKeep
<1>8. CASE Back(w)
  BY <1>7, <1>8 DEF Back, At
<1>9. CASE StepperSelect(w)
  BY <1>0, <1>7, <1>9 DEF StepperSelect, Before, Wizards
<1> HIDE DEF t
<1> QED  BY <1>1, <1>2, <1>3, <1>4, <1>5, <1>6, <1>8, <1>9 DEF Wizard

-----------------------------------------------------------------------------
(* Requests leave a wizard, and reach it again. *)

\* A wizard hears that its request came to nothing.
LEMMA ToldTabs ==
    ASSUME Inv, NEW w \in Tabs, NEW r \in Requests, tab' = Told(w, r)
    PROVE  /\ tab' \in [Tabs -> Wizards] /\ \A v \in Tabs : TabOK(tab'[v])
           /\ \A v \in Tabs : tab'[v].sent \subseteq tab[v].sent
                 /\ (v = w => r \notin tab'[v].sent)
                 /\ tab'[v].step = tab[v].step /\ tab'[v].choices = tab[v].choices
                 /\ tab'[v].estimate = tab[v].estimate /\ tab'[v].beta = tab[v].beta
                 /\ tab'[v].job = tab[v].job
                 /\ (tab'[v].sent # {} \/ tab'[v].step = "done"
                        => tab'[v].strayed = tab[v].strayed)
<1> DEFINE t == tab[w]
           u == [t EXCEPT !.sent = @ \ {r}, !.busy = IF @ = r THEN None ELSE @,
                          !.strayed = @ /\ t.sent # {r}]
<1>0. t \in Wizards /\ tab \in [Tabs -> Wizards] /\ \A v \in Tabs : TabOK(tab[v])
  BY DEF Inv, TabInv
<1>1. tab' = [tab EXCEPT ![w] = u]
  BY <1>0 DEF Told
<1>2. /\ u \in Wizards /\ u.sent = t.sent \ {r} /\ u.step = t.step
      /\ u.choices = t.choices /\ u.estimate = t.estimate /\ u.beta = t.beta
      /\ u.asking = t.asking /\ u.job = t.job
      /\ u.strayed = (t.strayed /\ t.sent # {r})
  BY <1>0 DEF Wizards
<1>3. TabOK(t)
  BY <1>0
<1> HIDE DEF t, u
<1>4. u.sent # {} => t.sent # {} /\ u.strayed = t.strayed
  BY <1>0, <1>2 DEF Wizards
<1>5. u.step = "done" => t.sent = {} /\ u.strayed = t.strayed
  BY <1>0, <1>2, <1>3 DEF TabOK, Wizards
<1>6. TabOK(u)
  BY <1>2, <1>3, <1>4 DEF TabOK
<1>7. tab'[w] = u /\ \A v \in Tabs \ {w} : tab'[v] = tab[v]
  BY <1>0, <1>1
<1>8. tab' \in [Tabs -> Wizards]
  BY <1>0, <1>1, <1>2
<1>9. tab[w] = t
  BY DEF t
<1> QED  BY <1>0, <1>2, <1>4, <1>5, <1>6, <1>7, <1>8, <1>9

\* A wizard hears of the job for a request it still waits for.
LEMMA ToldJobTabs ==
    ASSUME Inv, NEW w \in Tabs, NEW r \in Requests, NEW j \in Requests,
           r \in tab[w].sent, tab' = ToldJob(w, r, j)
    PROVE  /\ tab' \in [Tabs -> Wizards] /\ \A v \in Tabs : TabOK(tab'[v])
           /\ \A v \in Tabs \ {w} : tab'[v] = tab[v]
           /\ tab'[w].step = "done" /\ tab'[w].sent = {} /\ tab'[w].job = j
           /\ tab'[w].choices = tab[w].choices /\ tab'[w].estimate = tab[w].estimate
           /\ tab'[w].strayed = tab[w].strayed /\ tab'[w].beta = tab[w].beta
<1> DEFINE t == tab[w]
           u == [Shown(t, "done") EXCEPT !.sent = {}, !.busy = None, !.job = j]
<1>0. t \in Wizards /\ tab \in [Tabs -> Wizards] /\ \A v \in Tabs : TabOK(tab[v])
  BY DEF Inv, TabInv
<1>1. tab' = [tab EXCEPT ![w] = u]
  BY <1>0 DEF ToldJob
<1>2. Shown(t, "done") = [t EXCEPT !.step = "done", !.asking = None]
  BY DEF Shown
<1>3. /\ u \in Wizards /\ u.sent = {} /\ u.step = "done" /\ u.choices = t.choices
      /\ u.estimate = t.estimate /\ u.beta = t.beta /\ u.job = j /\ u.asking = None
      /\ u.strayed = t.strayed
  BY <1>0, <1>2 DEF Wizards
<1> HIDE DEF u
<1>4. TabOK(u)
  BY <1>3 DEF TabOK
<1> QED  BY <1>0, <1>1, <1>3, <1>4

LEMMA SubmitNext == ASSUME Inv, NEW w \in Tabs, Submit(w)  PROVE Inv'
<1>1. PICK r \in Requests :
        /\ At(w, "submit") /\ tab[w].busy = None /\ FreeRequest(r)
        /\ tab' = [tab EXCEPT ![w].sent = @ \cup {r}, ![w].busy = r]
        /\ tx' = [tx EXCEPT ![r] = [phase |-> "arrived", key |-> w, body |-> JobRequest(w)]]
        /\ UNCHANGED <<keys, jobs, running, minutes, lost, raced, regained>>
  BY DEF Submit
<1> DEFINE t == tab[w]
           u == [t EXCEPT !.sent = @ \cup {r}, !.busy = r]
           m == [phase |-> "arrived", key |-> w, body |-> t.choices]
<1>0. /\ t \in Wizards /\ tab \in [Tabs -> Wizards] /\ \A v \in Tabs : TabOK(tab[v])
      /\ TxOK /\ KeyInv /\ \A v \in Tabs : Sends(v) /\ Arrived(v)
  BY DEF Inv, TabInv, KeyInv
<1>2. tab' = [tab EXCEPT ![w] = u]
  BY <1>0, <1>1
<1>3. /\ u \in Wizards /\ u.sent = t.sent \cup {r} /\ u.step = "submit"
      /\ u.choices = t.choices /\ u.estimate = t.estimate /\ u.beta = t.beta
      /\ u.asking = t.asking /\ u.strayed = t.strayed /\ t.step = "submit"
  BY <1>0, <1>1 DEF Wizards, At
<1>4. m \in [phase : Phases, key : Tabs \cup {None}, body : Selectable]
      /\ m.phase = "arrived" /\ m.key = w /\ m.body = t.choices
  BY <1>0 DEF Phases, Wizards
<1>5. tx' = [tx EXCEPT ![r] = m] /\ t = tab[w]
  BY <1>1 DEF JobRequest
<1> HIDE DEF t, u, m
<1>6. TabOK(u)
  BY <1>0, <1>3, <1>5 DEF TabOK
<1>7. tab'[w] = u /\ \A v \in Tabs \ {w} : tab'[v] = tab[v]
  BY <1>0, <1>2
<1>8. tx'[r] = m /\ \A s \in Requests \ {r} : tx'[s] = tx[s]
  BY <1>0, <1>5 DEF TxOK
<1>9. tx[r].phase = "none" /\ r \notin DOMAIN jobs
  BY <1>1 DEF FreeRequest
<1>10. \A v \in Tabs : (Known(v)' <=> Known(v)) /\ (Held(v)' <=> Held(v))
  BY <1>1 DEF Known, Held
<1>11. \A s \in Requests : Holds(s)' <=> Holds(s)
  BY <1>4, <1>8, <1>9 DEF Holds
<1>12. KeyInv'
  <2>1. TxOK' /\ KeysOK' /\ minutes' \in Durations
    BY <1>0, <1>1, <1>4, <1>5 DEF KeyInv, TxOK, KeysOK
  <2>2. \A s \in Requests : tx'[s].phase # "none" => tx'[s].key \in Tabs /\ s \notin DOMAIN jobs'
    BY <1>0, <1>1, <1>4, <1>8, <1>9 DEF KeyInv
  <2>3. \A s \in Requests : Holds(s)' => tx'[s] = tx[s]
    BY <1>4, <1>8 DEF Holds
  <2>4. \A s \in Requests : Holds(s)' => Held(tx[s].key)'
    BY <1>0, <1>1, <1>11, <2>3 DEF KeyInv, Held
  <2>5. \A s, q \in Requests : Holds(s)' /\ Holds(q)' /\ tx'[s].key = tx'[q].key => s = q
    BY <1>0, <1>11, <2>3 DEF KeyInv
  <2>6. \A v \in Tabs : Held(v)' => \E s \in Requests : Holds(s)' /\ tx'[s].key = v
    BY <1>0, <1>10, <1>11, <2>3 DEF KeyInv
  <2>7. \A v \in Tabs : Known(v)' =>
          /\ keys'[v].job \in DOMAIN jobs' /\ jobs'[keys'[v].job].key = v
          /\ jobs'[keys'[v].job].targets = keys'[v].body
    BY <1>0, <1>1, <1>10 DEF KeyInv
  <2>8. \A s \in DOMAIN jobs' :
          /\ s \in Requests /\ jobs'[s].key \in Tabs
          /\ Known(jobs[s].key)' /\ keys'[jobs'[s].key].job = s
          /\ jobs'[s].reserved = TotalHigh(jobs'[s].minutes, jobs'[s].targets)
    BY <1>0, <1>1 DEF KeyInv, Known
  <2> QED  BY <2>1, <2>2, <2>4, <2>5, <2>6, <2>7, <2>8 DEF KeyInv
<1>13. ASSUME NEW v \in Tabs  PROVE TabOK(tab[v])' /\ Sends(v)' /\ Arrived(v)'
  <2>1. \A q \in tab[v].sent : q # r
    BY <1>0, <1>9 DEF Sends
  <2>2. tab[v].sent \subseteq Requests
    BY <1>0 DEF Wizards
  <2>3. CASE v = w
    BY <1>0, <1>3, <1>4, <1>5, <1>6, <1>7, <1>8, <2>1, <2>2, <2>3 DEF Sends, Arrived
  <2>4. CASE v # w
    BY <1>0, <1>1, <1>7, <1>8, <2>1, <2>2, <2>4 DEF Sends, Arrived
  <2> QED  BY <2>3, <2>4
<1>14. tab' \in [Tabs -> Wizards]
  BY <1>0, <1>2, <1>3
<1> QED  BY <1>12, <1>13, <1>14 DEF Inv, TabInv

LEMMA LostNext == ASSUME Inv, NEW w \in Tabs, AnswerLost(w)  PROVE Inv'
<1>1. PICK r \in tab[w].sent : tab' = Told(w, r)
  BY DEF AnswerLost
<1>2. r \in Requests
  BY DEF Inv, TabInv, Wizards
<1>3. KeyInv'
  BY KeysAlone DEF Inv, AnswerLost
<1>4. \A v \in Tabs : Sends(v)' /\ Arrived(v)'
  BY <1>1, <1>2, ToldTabs DEF AnswerLost, Inv, TabInv, Sends, Arrived
<1> QED  BY <1>1, <1>2, <1>3, <1>4, ToldTabs DEF Inv, TabInv

-----------------------------------------------------------------------------
(* The transactions: what they do to the keys. *)

Active == {"begun", "in budget", "in quota"}

\* A request that goes on without touching its key.
LEMMA GoesOn ==
    ASSUME KeyInv, NEW r \in Requests, tx[r].phase # "none",
           NEW phase \in {"waits"} \cup Active, Holds(r) <=> phase \in Active,
           Goes(r, phase), UNCHANGED <<keys, jobs, minutes>>
    PROVE  KeyInv'
<1>0. TxOK /\ KeysOK /\ minutes \in Durations
  BY DEF KeyInv
<1>1. /\ tx' = [tx EXCEPT ![r] = [tx[r] EXCEPT !.phase = phase]]
      /\ [tx[r] EXCEPT !.phase = phase] \in [phase : Phases, key : Tabs \cup {None}, body : Selectable]
  BY <1>0 DEF Goes, TxOK, Phases, Active
<1>2. /\ \A s \in Requests : tx'[s].key = tx[s].key /\ (tx'[s].phase = "none" <=> tx[s].phase = "none")
      /\ \A s \in Requests : Holds(s)' <=> Holds(s)
  BY <1>0, <1>1 DEF TxOK, Holds, Active
<1>3. TxOK' /\ KeysOK' /\ minutes' \in Durations
  BY <1>0, <1>1 DEF TxOK, KeysOK
<1>4. \A s \in Requests : /\ tx'[s].phase # "none" => tx'[s].key \in Tabs /\ s \notin DOMAIN jobs'
                          /\ Holds(s)' => Held(tx[s].key)'
  BY <1>2 DEF KeyInv, Held
<1>5. /\ \A s, q \in Requests : Holds(s)' /\ Holds(q)' /\ tx'[s].key = tx'[q].key => s = q
      /\ \A w \in Tabs : Held(w)' => \E s \in Requests : Holds(s)' /\ tx'[s].key = w
  BY <1>2 DEF KeyInv, Held
<1>6. /\ \A w \in Tabs : Known(w)' =>
          /\ keys'[w].job \in DOMAIN jobs' /\ jobs'[keys'[w].job].key = w
          /\ jobs'[keys'[w].job].targets = keys'[w].body
      /\ \A s \in DOMAIN jobs' :
          /\ s \in Requests /\ jobs'[s].key \in Tabs
          /\ Known(jobs[s].key)' /\ keys'[jobs'[s].key].job = s
          /\ jobs'[s].reserved = TotalHigh(jobs'[s].minutes, jobs'[s].targets)
  BY DEF KeyInv, Known
<1> QED  BY <1>3, <1>4, <1>5, <1>6 DEF KeyInv

\* A request that inserts its key.
LEMMA TakesKey ==
    ASSUME KeyInv, NEW r \in Requests, tx[r].phase \in {"arrived", "waits"},
           keys[tx[r].key] = None, Goes(r, "begun"), UNCHANGED <<jobs, minutes>>,
           keys' = [keys EXCEPT ![tx[r].key] = [body |-> tx[r].body, job |-> None]]
    PROVE  KeyInv'
<1>0. TxOK /\ KeysOK /\ minutes \in Durations /\ ~Holds(r) /\ r \notin DOMAIN jobs
  BY DEF KeyInv, Holds
<1>w. PICK w \in Tabs : tx[r].key = w
  BY DEF KeyInv
<1>k. PICK k : k = [body |-> tx[r].body, job |-> None]
  OBVIOUS
<1>1. /\ tx' = [tx EXCEPT ![r] = [tx[r] EXCEPT !.phase = "begun"]]
      /\ [tx[r] EXCEPT !.phase = "begun"] \in [phase : Phases, key : Tabs \cup {None}, body : Selectable]
  BY <1>0 DEF Goes, TxOK, Phases
<1>2. /\ \A s \in Requests : tx'[s].key = tx[s].key
      /\ \A s \in Requests : s # r => tx'[s] = tx[s]
      /\ tx'[r].phase = "begun"
  BY <1>0, <1>1 DEF TxOK
<1>3. /\ \A s \in Requests : Holds(s)' <=> Holds(s) \/ s = r
      /\ \A s \in Requests : Holds(s) => tx[s].key # w
  BY <1>2, <1>w DEF Holds, KeyInv, Held
<1>4. k \in [body : Selectable, job : Requests \cup {None}] /\ k # None /\ k.job = None
  BY <1>0, <1>k, NoneIsNot DEF TxOK
<1>5. keys' = [keys EXCEPT ![w] = k] /\ keys[w] = None
  BY <1>w, <1>k
<1>6. keys'[w] = k /\ \A v \in Tabs \ {w} : keys'[v] = keys[v]
  BY <1>0, <1>5 DEF KeysOK
<1>7. Held(w)' /\ ~Known(w)' /\ ~Known(w)
  BY <1>4, <1>5, <1>6 DEF Held, Known
<1>8. \A v \in Tabs \ {w} : (Held(v)' <=> Held(v)) /\ (Known(v)' <=> Known(v))
  BY <1>6 DEF Held, Known
<1>9. TxOK' /\ KeysOK' /\ minutes' \in Durations
  BY <1>0, <1>1, <1>4, <1>5 DEF TxOK, KeysOK
<1>10. \A s \in Requests : tx'[s].phase # "none" => tx'[s].key \in Tabs /\ s \notin DOMAIN jobs'
  BY <1>0, <1>2, <1>w DEF KeyInv
<1>11. ASSUME NEW s \in Requests, Holds(s)'  PROVE Held(tx[s].key)'
  <2>1. CASE s = r
    BY <2>1, <1>2, <1>7, <1>w DEF Held
  <2>2. CASE s # r
    <3>1. Holds(s) /\ Held(tx[s].key) /\ tx[s].key \in Tabs \ {w}
      BY <1>3, <1>11, <2>2 DEF KeyInv, Holds
    <3> QED  BY <1>2, <1>8, <3>1 DEF Held
  <2> QED  BY <2>1, <2>2
<1>12. \A s, q \in Requests : Holds(s)' /\ Holds(q)' /\ tx'[s].key = tx'[q].key => s = q
  BY <1>2, <1>3, <1>w DEF KeyInv
<1>13. \A v \in Tabs : Held(v)' => \E s \in Requests : Holds(s)' /\ tx'[s].key = v
  BY <1>2, <1>3, <1>8, <1>w DEF KeyInv
<1>14. \A v \in Tabs : Known(v)' =>
          /\ keys'[v].job \in DOMAIN jobs' /\ jobs'[keys'[v].job].key = v
          /\ jobs'[keys'[v].job].targets = keys'[v].body
  BY <1>6, <1>7, <1>8 DEF KeyInv
<1>15. ASSUME NEW s \in DOMAIN jobs
       PROVE  /\ s \in Requests /\ jobs'[s].key \in Tabs
              /\ Known(jobs[s].key)' /\ keys'[jobs'[s].key].job = s
              /\ jobs'[s].reserved = TotalHigh(jobs'[s].minutes, jobs'[s].targets)
  <2>1. jobs[s].key \in Tabs \ {w} /\ Known(jobs[s].key)
    BY <1>7 DEF KeyInv
  <2>2. Known(jobs[s].key)'
    BY <1>6, <2>1 DEF Known
  <2> QED  BY <1>6, <2>1, <2>2 DEF KeyInv
<1> QED  BY <1>9, <1>10, <1>11, <1>12, <1>13, <1>14, <1>15 DEF KeyInv

\* A request that is over without a job gives back the key, if it held one.
LEMMA GivesUp ==
    ASSUME KeyInv, NEW r \in Requests, tx[r].phase # "none",
           tx' = [tx EXCEPT ![r] = NoTx], UNCHANGED <<jobs, minutes>>,
           keys' = IF Holds(r) THEN Freed(r) ELSE keys
    PROVE  KeyInv'
<1>0. TxOK /\ KeysOK /\ minutes \in Durations
  BY DEF KeyInv
<1>w. PICK w \in Tabs : tx[r].key = w
  BY DEF KeyInv
<1>1. NoTx \in [phase : Phases, key : Tabs \cup {None}, body : Selectable] /\ NoTx.phase = "none"
  BY DEF NoTx, Phases, Selectable
<1>2. tx'[r] = NoTx /\ \A s \in Requests \ {r} : tx'[s] = tx[s]
  BY <1>0 DEF TxOK
<1>3. \A s \in Requests : Holds(s)' <=> Holds(s) /\ s # r
  BY <1>1, <1>2 DEF Holds
<1>4. /\ Holds(r) => keys'[w] = None /\ Held(w)
      /\ ~Holds(r) => keys'[w] = keys[w]
      /\ \A v \in Tabs \ {w} : keys'[v] = keys[v]
  BY <1>0, <1>w DEF Freed, KeysOK, KeyInv
<1>5. /\ Holds(r) => ~Held(w)' /\ ~Known(w)' /\ ~Known(w)
      /\ ~Holds(r) => (Held(w)' <=> Held(w)) /\ (Known(w)' <=> Known(w))
      /\ \A v \in Tabs \ {w} : (Held(v)' <=> Held(v)) /\ (Known(v)' <=> Known(v))
  BY <1>4 DEF Held, Known
<1>6. TxOK' /\ KeysOK' /\ minutes' \in Durations
  BY <1>0, <1>1 DEF TxOK, KeysOK, Freed
<1>7. \A s \in Requests : tx'[s].phase # "none" => tx'[s].key \in Tabs /\ s \notin DOMAIN jobs'
  BY <1>1, <1>2 DEF KeyInv
<1>8. ASSUME NEW s \in Requests, Holds(s)'  PROVE Held(tx[s].key)'
  <2>1. s # r /\ Holds(s) /\ Held(tx[s].key) /\ tx[s].key \in Tabs /\ tx'[s] = tx[s]
    BY <1>2, <1>3, <1>8 DEF KeyInv, Holds
  <2>2. Holds(r) => tx[s].key # w
    BY <1>w, <2>1 DEF KeyInv
  <2> QED  BY <1>4, <2>1, <2>2 DEF Held
<1>9. \A s, q \in Requests : Holds(s)' /\ Holds(q)' /\ tx'[s].key = tx'[q].key => s = q
  BY <1>2, <1>3 DEF KeyInv
<1>10. ASSUME NEW v \in Tabs, Held(v)'  PROVE \E s \in Requests : Holds(s)' /\ tx'[s].key = v
  <2>1. Held(v) /\ (v = w => ~Holds(r))
    BY <1>5, <1>10
  <2>2. PICK s \in Requests : Holds(s) /\ tx[s].key = v
    BY <2>1 DEF KeyInv
  <2> QED  BY <1>2, <1>3, <1>w, <2>1, <2>2
<1>11. \A v \in Tabs : Known(v)' =>
          /\ keys'[v].job \in DOMAIN jobs' /\ jobs'[keys'[v].job].key = v
          /\ jobs'[keys'[v].job].targets = keys'[v].body
  BY <1>4, <1>5 DEF KeyInv
<1>12. ASSUME NEW s \in DOMAIN jobs
       PROVE  /\ s \in Requests /\ jobs'[s].key \in Tabs
              /\ Known(jobs[s].key)' /\ keys'[jobs'[s].key].job = s
              /\ jobs'[s].reserved = TotalHigh(jobs'[s].minutes, jobs'[s].targets)
  <2>1. jobs[s].key \in Tabs /\ Known(jobs[s].key)
    BY DEF KeyInv
  <2>2. keys'[jobs[s].key] = keys[jobs[s].key]
    BY <1>4, <1>5, <2>1
  <2>3. Known(jobs[s].key)'
    BY <2>1, <2>2 DEF Known
  <2> QED  BY <2>1, <2>2, <2>3 DEF KeyInv
<1> QED  BY <1>6, <1>7, <1>8, <1>9, <1>10, <1>11, <1>12 DEF KeyInv

\* A request that makes its job stores it under its key.
LEMMA MakesJob ==
    ASSUME KeyInv, NEW r \in Requests, Create(r)
    PROVE  /\ KeyInv'
           /\ r \in DOMAIN jobs' /\ jobs'[r].key = tx[r].key /\ jobs'[r].targets = tx[r].body
           /\ \A s \in DOMAIN jobs : s \in DOMAIN jobs' /\ jobs'[s] = jobs[s]
<1>0. TxOK /\ KeysOK /\ minutes \in Durations /\ tx[r].phase = "in quota" /\ Holds(r)
  BY DEF KeyInv, Create, In, Holds
<1>w. PICK w \in Tabs : tx[r].key = w
  BY <1>0 DEF KeyInv
<1>k. PICK k : k = [body |-> tx[r].body, job |-> r]
  OBVIOUS
<1>1. NoTx \in [phase : Phases, key : Tabs \cup {None}, body : Selectable] /\ NoTx.phase = "none"
  BY DEF NoTx, Phases, Selectable
<1>2. tx' = [tx EXCEPT ![r] = NoTx] /\ tx'[r] = NoTx /\ \A s \in Requests \ {r} : tx'[s] = tx[s]
  BY <1>0 DEF TxOK, Create
<1>3. \A s \in Requests : Holds(s)' <=> Holds(s) /\ s # r
  BY <1>1, <1>2 DEF Holds
<1>4. /\ k \in [body : Selectable, job : Requests \cup {None}] /\ k # None /\ k.job # None
      /\ k.job = r /\ k.body = tx[r].body
  BY <1>0, <1>k, NoneIsNot DEF TxOK
<1>5. keys' = [keys EXCEPT ![w] = k] /\ keys'[w] = k /\ \A v \in Tabs \ {w} : keys'[v] = keys[v]
  BY <1>0, <1>w, <1>k DEF Create, Stored, KeysOK
<1>6. /\ Held(w) /\ ~Known(w) /\ ~Held(w)' /\ Known(w)'
      /\ \A v \in Tabs \ {w} : (Held(v)' <=> Held(v)) /\ (Known(v)' <=> Known(v))
  BY <1>0, <1>w, <1>4, <1>5 DEF KeyInv, Held, Known
<1>7. /\ DOMAIN jobs' = DOMAIN jobs \cup {r} /\ r \notin DOMAIN jobs
      /\ jobs'[r].key = w /\ jobs'[r].targets = tx[r].body
      /\ jobs'[r].reserved = TotalHigh(jobs'[r].minutes, jobs'[r].targets)
      /\ \A s \in DOMAIN jobs : jobs'[s] = jobs[s]
  <2>1. r \notin DOMAIN jobs
    BY <1>0 DEF KeyInv
  <2>2. PICK new : new = [key |-> tx[r].key, targets |-> tx[r].body, minutes |-> minutes,
                          reserved |-> TotalHigh(minutes, tx[r].body)]
    OBVIOUS
  <2>3. jobs' = [s \in DOMAIN jobs \cup {r} |-> IF s = r THEN new ELSE jobs[s]]
    BY <2>2 DEF Create, HighOf
  <2>4. jobs'[r] = new /\ new.reserved = TotalHigh(new.minutes, new.targets)
    BY <2>2, <2>3
  <2> QED  BY <1>w, <2>1, <2>2, <2>3, <2>4
<1>8. TxOK' /\ KeysOK' /\ minutes' \in Durations
  <2>1. TxOK'
    BY <1>0, <1>1, <1>2 DEF TxOK
  <2>2. KeysOK'
    BY <1>0, <1>4, <1>5 DEF KeysOK
  <2>3. minutes' = minutes
    BY DEF Create
  <2> QED  BY <1>0, <2>1, <2>2, <2>3
<1>9. \A s \in Requests : tx'[s].phase # "none" => tx'[s].key \in Tabs /\ s \notin DOMAIN jobs'
  BY <1>1, <1>2, <1>7 DEF KeyInv
<1>10. ASSUME NEW s \in Requests, Holds(s)'  PROVE Held(tx[s].key)'
  <2>1. s # r /\ Holds(s) /\ Held(tx[s].key) /\ tx[s].key \in Tabs /\ tx'[s] = tx[s]
    BY <1>2, <1>3, <1>10 DEF KeyInv, Holds
  <2>2. tx[s].key # w
    BY <1>0, <1>w, <2>1 DEF KeyInv
  <2> QED  BY <1>5, <2>1, <2>2 DEF Held
<1>11. \A s, q \in Requests : Holds(s)' /\ Holds(q)' /\ tx'[s].key = tx'[q].key => s = q
  BY <1>2, <1>3 DEF KeyInv
<1>12. ASSUME NEW v \in Tabs, Held(v)'  PROVE \E s \in Requests : Holds(s)' /\ tx'[s].key = v
  <2>1. Held(v) /\ v # w
    BY <1>6, <1>12
  <2>2. PICK s \in Requests : Holds(s) /\ tx[s].key = v
    BY <2>1 DEF KeyInv
  <2> QED  BY <1>2, <1>3, <1>w, <2>1, <2>2
<1>13. ASSUME NEW v \in Tabs, Known(v)'
       PROVE  /\ keys'[v].job \in DOMAIN jobs' /\ jobs'[keys'[v].job].key = v
              /\ jobs'[keys'[v].job].targets = keys'[v].body
  <2>1. CASE v = w
    BY <1>4, <1>5, <1>7, <2>1
  <2>2. CASE v # w
    BY <1>5, <1>6, <1>7, <1>13, <2>2 DEF KeyInv
  <2> QED  BY <2>1, <2>2
<1>14. ASSUME NEW s \in DOMAIN jobs'
       PROVE  /\ s \in Requests /\ jobs'[s].key \in Tabs
              /\ Known(jobs[s].key)' /\ keys'[jobs'[s].key].job = s
              /\ jobs'[s].reserved = TotalHigh(jobs'[s].minutes, jobs'[s].targets)
  <2>1. CASE s = r
    <3>1. keys'[jobs'[s].key] = k
      BY <1>5, <1>7, <2>1
    <3> QED  BY <1>4, <1>7, <2>1, <3>1 DEF Known
  <2>2. CASE s \in DOMAIN jobs
    <3>1. jobs[s].key \in Tabs \ {w} /\ Known(jobs[s].key) /\ jobs'[s] = jobs[s]
      BY <1>6, <1>7, <2>2 DEF KeyInv
    <3>2. keys'[jobs'[s].key] = keys[jobs[s].key]
      BY <1>5, <3>1
    <3> QED  BY <2>2, <3>1, <3>2 DEF KeyInv, Known
  <2> QED  BY <1>7, <2>1, <2>2
<1>15. KeyInv'
  BY <1>8, <1>9, <1>10, <1>11, <1>12, <1>13, <1>14 DEF KeyInv
<1> QED  BY <1>7, <1>15, <1>w

-----------------------------------------------------------------------------
(* The transactions: what the wizards hear of them. *)

LEMMA OwnRequest ==
    ASSUME Inv, NEW r \in Requests, tx[r].phase # "none"
    PROVE  /\ tx[r].key \in Tabs
           /\ \A v \in Tabs : r \in tab[v].sent => v = tx[r].key
           /\ \A v \in Tabs : tab[v].sent \subseteq Requests
  BY DEF Inv, KeyInv, TabInv, Sends, Wizards

\* Nothing, as long as the transaction goes on,
LEMMA HearNothing ==
    ASSUME Inv, NEW r \in Requests, tx[r].phase # "none", NEW phase \in Phases \ {"none"},
           Goes(r, phase), UNCHANGED <<tab, jobs>>
    PROVE  TabInv'
<1>1. \A s \in Requests : tx'[s].key = tx[s].key /\ tx'[s].body = tx[s].body
                          /\ (tx'[s].phase = "none" <=> tx[s].phase = "none")
  BY DEF Inv, KeyInv, TxOK, Goes
<1>2. \A v \in Tabs : Sends(v)' /\ Arrived(v)'
  BY <1>1, OwnRequest DEF Inv, TabInv, Sends, Arrived
<1> QED  BY <1>2 DEF Inv, TabInv

\* an error,
LEMMA HearError ==
    ASSUME Inv, NEW r \in Requests, tx[r].phase # "none",
           tx' = [tx EXCEPT ![r] = NoTx], tab' = Told(tx[r].key, r), UNCHANGED jobs
    PROVE  TabInv'
<1>0. PICK w \in Tabs : tx[r].key = w
  BY OwnRequest
<1>1. tab' = Told(w, r)
  BY <1>0
<1>2. \A s \in Requests \ {r} : tx'[s] = tx[s]
  BY DEF Inv, KeyInv, TxOK
<1>3. \A v \in Tabs : r \notin tab'[v].sent /\ tab'[v].sent \subseteq Requests
  BY <1>0, <1>1, ToldTabs, OwnRequest
<1>4. ASSUME NEW v \in Tabs  PROVE Sends(v)' /\ Arrived(v)'
  <2>1. Sends(v) /\ Arrived(v)
    BY DEF Inv, TabInv
  <2> QED  BY <1>1, <1>2, <1>3, <2>1, ToldTabs DEF Sends, Arrived
<1> QED  BY <1>1, <1>4, ToldTabs DEF TabInv

\* or a job that has the targets asked for.
LEMMA HearJob ==
    ASSUME Inv, NEW r \in Requests, tx[r].phase # "none", NEW j \in Requests,
           tx' = [tx EXCEPT ![r] = NoTx], tab' = ToldJob(tx[r].key, r, j),
           j \in DOMAIN jobs', jobs'[j].key = tx[r].key, jobs'[j].targets = tx[r].body,
           \A s \in DOMAIN jobs : s \in DOMAIN jobs' /\ jobs'[s] = jobs[s]
    PROVE  TabInv'
<1>0. PICK w \in Tabs : tx[r].key = w
  BY OwnRequest
<1>1. \A s \in Requests \ {r} : tx'[s] = tx[s]
  BY DEF Inv, KeyInv, TxOK
<1>2. CASE r \notin tab[w].sent
  <2>1. tab' = tab
    BY <1>0, <1>2 DEF ToldJob
  <2>2. ASSUME NEW v \in Tabs  PROVE Sends(v)' /\ Arrived(v)'
    <3>1. Sends(v) /\ Arrived(v) /\ r \notin tab[v].sent
      BY <1>0, <1>2, OwnRequest DEF Inv, TabInv
    <3> QED  BY <1>1, <2>1, <3>1, OwnRequest DEF Sends, Arrived
  <2> QED  BY <2>1, <2>2 DEF Inv, TabInv
<1>3. CASE r \in tab[w].sent
  <2>1. /\ tab' \in [Tabs -> Wizards] /\ \A v \in Tabs : TabOK(tab'[v])
        /\ \A v \in Tabs \ {w} : tab'[v] = tab[v]
        /\ tab'[w].step = "done" /\ tab'[w].sent = {} /\ tab'[w].job = j
        /\ tab'[w].choices = tab[w].choices /\ tab'[w].estimate = tab[w].estimate
        /\ tab'[w].strayed = tab[w].strayed /\ tab'[w].beta = tab[w].beta
    BY <1>0, <1>3, ToldJobTabs
  <2>2. ASSUME NEW v \in Tabs \ {w}  PROVE Sends(v)' /\ Arrived(v)'
    <3>1. Sends(v) /\ Arrived(v) /\ r \notin tab[v].sent
      BY <1>0, OwnRequest DEF Inv, TabInv
    <3> QED  BY <1>1, <2>1, <3>1, OwnRequest DEF Sends, Arrived
  <2>3. Sends(w)'
    BY <2>1 DEF Sends
  <2>4. Arrived(w)'
    <3>1. ASSUME ~tab[w].strayed
          PROVE  /\ tx[r].body = tab[w].choices /\ tab[w].estimate # None
                 /\ tab[w].estimate.choices = tab[w].choices
                 /\ HasBeta(tab[w].choices) => tab[w].beta
      BY <1>3, <3>1 DEF Inv, TabInv, Sends, TabOK
    <3> QED  BY <1>0, <2>1, <3>1 DEF Arrived
  <2> QED  BY <2>1, <2>2, <2>3, <2>4 DEF TabInv
<1> QED  BY <1>2, <1>3

LEMMA TransactionNext ==
    ASSUME Inv, NEW r \in Requests, Transaction(r)  PROVE Inv'
<1>0. KeyInv /\ TxOK /\ KeysOK
  BY DEF Inv, KeyInv
<1>1. CASE Replay(r)
  <2>1. /\ tx[r].phase # "none" /\ ~Holds(r) /\ Known(tx[r].key)
        /\ tx' = [tx EXCEPT ![r] = NoTx] /\ UNCHANGED <<keys, jobs, minutes>>
        /\ tab' = IF keys[tx[r].key].body = tx[r].body
                  THEN ToldJob(tx[r].key, r, keys[tx[r].key].job) ELSE Told(tx[r].key, r)
    BY <1>1 DEF Replay, In, Holds
  <2>2. KeyInv'
    BY <1>0, <2>1, GivesUp
  <2>3. CASE keys[tx[r].key].body = tx[r].body
    <3>1. PICK j \in Requests : j = keys[tx[r].key].job /\ j \in DOMAIN jobs
                                /\ jobs[j].key = tx[r].key /\ jobs[j].targets = tx[r].body
      BY <1>0, <2>1, <2>3, OwnRequest DEF KeyInv
    <3> QED  BY <2>1, <2>2, <2>3, <3>1, HearJob DEF Inv
  <2>4. CASE keys[tx[r].key].body # tx[r].body
    BY <2>1, <2>2, <2>4, HearError DEF Inv
  <2> QED  BY <2>3, <2>4
<1>2. CASE Reserve(r)
  <2>1. /\ tx[r].phase = "arrived" /\ ~Holds(r) /\ ~Known(tx[r].key)
        /\ UNCHANGED <<tab, jobs, minutes>>
    BY <1>2 DEF Reserve, In, Holds
  <2>2. CASE Held(tx[r].key)
    <3>1. Goes(r, "waits") /\ UNCHANGED keys
      BY <1>2, <2>2 DEF Reserve
    <3>2. KeyInv'
      BY <1>0, <2>1, <3>1, GoesOn DEF Active
    <3> QED  BY <2>1, <3>1, <3>2, HearNothing DEF Inv, Phases
  <2>3. CASE ~Held(tx[r].key)
    <3>1. /\ Goes(r, "begun") /\ keys[tx[r].key] = None
          /\ keys' = [keys EXCEPT ![tx[r].key] = [body |-> tx[r].body, job |-> None]]
      BY <1>2, <2>1, <2>3 DEF Reserve, Held, Known
    <3>2. KeyInv'
      BY <1>0, <2>1, <3>1, TakesKey
    <3> QED  BY <2>1, <3>1, <3>2, HearNothing DEF Inv, Phases
  <2> QED  BY <2>2, <2>3
<1>3. CASE WaitEnds(r)
  <2>1. /\ tx[r].phase = "waits" /\ ~Holds(r) /\ ~Held(tx[r].key)
        /\ UNCHANGED <<jobs, minutes>>
    BY <1>3 DEF WaitEnds, In, Holds
  <2>2. CASE Known(tx[r].key)
    <3>1. tx' = [tx EXCEPT ![r] = NoTx] /\ tab' = Told(tx[r].key, r) /\ UNCHANGED keys
      BY <1>3, <2>2 DEF WaitEnds, Refused
    <3>2. KeyInv'
      BY <1>0, <2>1, <3>1, GivesUp
    <3> QED  BY <2>1, <3>1, <3>2, HearError DEF Inv
  <2>3. CASE ~Known(tx[r].key)
    <3>1. /\ Goes(r, "begun") /\ keys[tx[r].key] = None /\ UNCHANGED tab
          /\ keys' = [keys EXCEPT ![tx[r].key] = [body |-> tx[r].body, job |-> None]]
      BY <1>3, <2>1, <2>3 DEF WaitEnds, Held, Known
    <3>2. KeyInv'
      BY <1>0, <2>1, <3>1, TakesKey
    <3> QED  BY <2>1, <3>1, <3>2, HearNothing DEF Inv, Phases
  <2> QED  BY <2>2, <2>3
<1>4. CASE ReadBudget(r) \/ ReadQuota(r)
  <2>1. /\ Holds(r) /\ tx[r].phase # "none" /\ UNCHANGED <<jobs, minutes>>
        /\ \/ \E phase \in {"in budget", "in quota"} : Goes(r, phase) /\ UNCHANGED <<tab, keys>>
           \/ Refused(r) /\ keys' = Freed(r)
    BY <1>4 DEF ReadBudget, ReadQuota, In, Holds
  <2>2. CASE \E phase \in {"in budget", "in quota"} : Goes(r, phase) /\ UNCHANGED <<tab, keys>>
    <3>1. PICK phase \in {"in budget", "in quota"} : Goes(r, phase) /\ UNCHANGED <<tab, keys>>
      BY <2>2
    <3>2. KeyInv'
      BY <1>0, <2>1, <3>1, GoesOn DEF Active
    <3> QED  BY <2>1, <3>1, <3>2, HearNothing DEF Inv, Phases
  <2>3. CASE Refused(r) /\ keys' = Freed(r)
    <3>1. tx' = [tx EXCEPT ![r] = NoTx] /\ tab' = Told(tx[r].key, r)
      BY <2>3 DEF Refused
    <3>2. KeyInv'
      BY <1>0, <2>1, <2>3, <3>1, GivesUp
    <3> QED  BY <2>1, <3>1, <3>2, HearError DEF Inv
  <2> QED  BY <2>1, <2>2, <2>3
<1>5. CASE Create(r)
  <2>1. /\ tx[r].phase # "none" /\ tx' = [tx EXCEPT ![r] = NoTx]
        /\ tab' = ToldJob(tx[r].key, r, r)
    BY <1>5 DEF Create, In
  <2> QED  BY <1>0, <1>5, <2>1, MakesJob, HearJob DEF Inv
<1> QED  BY <1>1, <1>2, <1>3, <1>4, <1>5 DEF Transaction

LEMMA InvNext == ASSUME Inv, [Next]_vars  PROVE Inv'
<1>1. ASSUME UNCHANGED <<tab, tx, keys, jobs>>, minutes' \in Durations  PROVE Inv'
  <2>1. TabInv'
    BY <1>1 DEF Inv, TabInv, Sends, Arrived
  <2>2. \A s \in DOMAIN jobs : jobs'[s].reserved = TotalHigh(jobs'[s].minutes, jobs'[s].targets)
    BY <1>1 DEF Inv, KeyInv
  <2>3. TxOK' /\ KeysOK' /\ \A r \in Requests : Holds(r)' <=> Holds(r)
    BY <1>1 DEF Inv, KeyInv, TxOK, KeysOK, Holds
  <2>4. KeyInv'
    BY <1>1, <2>2, <2>3 DEF Inv, KeyInv, Known, Held
  <2> QED  BY <2>1, <2>4 DEF Inv
<1>2. ASSUME NEW w \in Tabs, Wizard(w)  PROVE Inv'
  BY <1>2, WizardNext, SubmitNext, LostNext
<1>3. ASSUME NEW r \in Requests, Transaction(r)  PROVE Inv'
  BY <1>3, TransactionNext
<1>4. ASSUME NEW t, TargetRests(t) \/ TargetReturns(t)  PROVE Inv'
  BY <1>1, <1>4 DEF TargetRests, TargetReturns, Inv, KeyInv
<1>5. ASSUME NEW m \in Durations, SourceReplaced(m)  PROVE Inv'
  BY <1>1, <1>5 DEF SourceReplaced
<1>6. CASE UNCHANGED vars
  BY <1>1, <1>6 DEF vars, Inv, KeyInv
<1> QED  BY <1>2, <1>3, <1>4, <1>5, <1>6 DEF Next

LEMMA Invariance == Spec => []Inv
BY InitInv, InvNext, PTL DEF Spec

-----------------------------------------------------------------------------
(* The theorems. *)

\* However often a wizard submits, its key makes one job.
THEOREM OneJob == Spec => []OneJobPerKey
<1>1. Inv => OneJobPerKey
  BY DEF Inv, KeyInv, OneJobPerKey
<1> QED  BY <1>1, Invariance, PTL

\* Who waits for an answer has a transaction at work, or one that waits for
\* the transaction that holds its key.
THEOREM Answers == Spec => []SubmitIsAnswered
<1>1. Inv => SubmitIsAnswered
  BY DEF Inv, KeyInv, TabInv, Sends, SubmitIsAnswered, Holds
<1> QED  BY <1>1, Invariance, PTL

\* A wizard that did not stray gets the targets it shows at the price it
\* shows, unless the source was replaced.
THEOREM ChargesAsShown == Spec => []ChargedAsShown
<1>1. Inv => ChargedAsShown
  BY DEF Inv, KeyInv, TabInv, Arrived, At, ChargedAsShown
<1> QED  BY <1>1, Invariance, PTL
-----------------------------------------------------------------------------
(* Prices. *)

LEMMA PriceType ==
    ASSUME NEW m \in Nat, NEW t
    PROVE  HighCents(m, t) \in Nat
<1> DEFINE base == LowCents(m, t)
<1>1. PICK rate \in Nat : base = m * rate
  <2>1. base = m * (3 + 8 + 1 + 1 + IF LipSync(t) THEN 40 ELSE 0)
    BY DEF LowCents, PerMinuteCents
  <2>2. 3 + 8 + 1 + 1 + (IF LipSync(t) THEN 40 ELSE 0) \in Nat
    OBVIOUS
  <2> QED  BY <2>1, <2>2
<1>2. base \in Nat
  BY <1>1
<1> HIDE DEF base
<1>3. (base * 115 + 100 - 1) \div 100 \in Nat /\ (base * 3 + 2 - 1) \div 2 \in Nat
  BY <1>2
<1>4. WithUncertainty(base, TierOf(t)) \in Nat
  BY <1>3 DEF WithUncertainty, CeilDiv
<1> QED  BY <1>4 DEF HighCents, base

LEMMA CostType ==
    ASSUME NEW m \in Durations, NEW c \in Selections
    PROVE  TotalHigh(m, c) \in Nat
<1> DEFINE f == [t \in c |-> HighCents(m, t)]
<1>1. m \in Nat /\ IsFiniteSet(c)
  BY CreationAssumption
<1>2. f \in [c -> Nat]
  BY <1>1, PriceType
<1> HIDE DEF f
<1>3. SumFunction(f) \in Nat
  BY <1>1, <1>2, SumType
<1>4. m * (2 + 1) \in Nat
  BY <1>1
<1>5. SourceCents(m) \in Nat
  BY <1>4 DEF SourceCents, PerMinuteCents
<1> QED  BY <1>3, <1>5 DEF TotalHigh, f

-----------------------------------------------------------------------------
(* Types.  Nothing is sent before something is selected. *)

WizardType ==
    [step : {"targets", "estimate", "submit", "done"},
     choices : Selections \cup {{}}, asking : Selections \cup {None},
     estimate : Estimate \cup {None}, beta : BOOLEAN,
     sent : SUBSET Requests, busy : Requests \cup {None},
     strayed : BOOLEAN, job : Requests \cup {None}]

JobType == [key : Tabs, targets : Selections, minutes : Durations, reserved : Nat]

GoodTab(t) ==
    /\ t \in WizardType
    /\ t.choices = {} => t.step = "targets" /\ t.sent = {}

Typed ==
    /\ tab \in [Tabs -> WizardType] /\ \A w \in Tabs : GoodTab(tab[w])
    /\ \A r \in Requests : tx[r].phase # "none" => tx[r].body # {}
    /\ keys \in [Tabs -> {None} \cup [body : Selections, job : Requests \cup {None}]]
    /\ jobs \in [DOMAIN jobs -> JobType] /\ IsFiniteSet(DOMAIN jobs)
    /\ running \subseteq TargetJobs
    /\ lost \in 0..MaxLost

LEMMA GoodShown ==
    ASSUME NEW t, GoodTab(t), NEW step \in {"targets", "estimate", "submit", "done"},
           t.choices = {} => step = "targets"
    PROVE  /\ GoodTab(Shown(t, step)) /\ Shown(t, step).sent = t.sent
           /\ Shown(t, step).choices = t.choices /\ Shown(t, step).step = step
<1> DEFINE a == IF step = "estimate" THEN Asking(t) ELSE None
           u == [t EXCEPT !.step = step, !.asking = a]
<1>1. a \in Selections \cup {None}
  BY DEF Asking, GoodTab, WizardType
<1> HIDE DEF a
<1>2. u \in WizardType /\ u.step = step /\ u.choices = t.choices /\ u.sent = t.sent
  BY <1>1 DEF GoodTab, WizardType
<1>3. Shown(t, step) = u
  BY DEF Shown, a
<1> HIDE DEF u
<1> QED  BY <1>2, <1>3 DEF GoodTab

\* What a step makes of one wizard.
LEMMA OneTab ==
    ASSUME Typed, NEW w \in Tabs, NEW u, GoodTab(u), tab' = [tab EXCEPT ![w] = u]
    PROVE  tab' \in [Tabs -> WizardType] /\ \A v \in Tabs : GoodTab(tab'[v])
<1>1. u \in WizardType /\ tab \in [Tabs -> WizardType]
  BY DEF GoodTab, Typed
<1>2. tab'[w] = u /\ \A v \in Tabs \ {w} : tab'[v] = tab[v]
  BY <1>1
<1> QED  BY <1>1, <1>2 DEF Typed

LEMMA GoodLeave ==
    ASSUME Inv, Typed, NEW w \in Tabs, NEW step \in {"targets", "estimate"},
           LeaveFor(w, step), tab[w].step \in {"estimate", "submit", "done"}
    PROVE  tab' \in [Tabs -> WizardType] /\ \A v \in Tabs : GoodTab(tab'[v])
<1> DEFINE t == tab[w]
           s == Shown(t, step)
           b == (t.strayed \/ t.sent # {})
           u == [s EXCEPT !.busy = None, !.strayed = b]
<1>1. GoodTab(t) /\ t.choices # {}
  BY DEF Typed, GoodTab
<1>2. GoodTab(s) /\ s.choices = t.choices
  BY <1>1, GoodShown
<1>3. b \in BOOLEAN
  BY <1>1 DEF GoodTab, WizardType
<1>4. tab' = [tab EXCEPT ![w] = u]
  BY DEF LeaveFor
<1> HIDE DEF s, b, t
<1>5. u \in WizardType /\ u.choices = s.choices
  BY <1>2, <1>3 DEF GoodTab, WizardType
<1>6. GoodTab(u)
  BY <1>1, <1>2, <1>5 DEF GoodTab
<1> HIDE DEF u
<1> QED  BY <1>4, <1>6, OneTab

LEMMA ToldGood ==
    ASSUME Typed, NEW w \in Tabs, NEW r, tab' = Told(w, r)
    PROVE  tab' \in [Tabs -> WizardType] /\ \A v \in Tabs : GoodTab(tab'[v])
<1> DEFINE t == tab[w]
           u == [t EXCEPT !.sent = @ \ {r}, !.busy = IF @ = r THEN None ELSE @,
                          !.strayed = @ /\ t.sent # {r}]
<1>0. t \in WizardType /\ GoodTab(t) /\ tab \in [Tabs -> WizardType]
  BY DEF Typed
<1>1. tab' = [tab EXCEPT ![w] = u]
  BY <1>0 DEF Told
<1>2. u \in WizardType /\ u.choices = t.choices /\ u.step = t.step /\ u.sent = t.sent \ {r}
  BY ZenonT(60), <1>0 DEF WizardType
<1>3. GoodTab(u)
  BY <1>0, <1>2 DEF GoodTab
<1> HIDE DEF u, t
<1> QED  BY <1>1, <1>3, OneTab

LEMMA ToldJobGood ==
    ASSUME Typed, NEW w \in Tabs, NEW r, NEW j \in Requests, tab' = ToldJob(w, r, j)
    PROVE  tab' \in [Tabs -> WizardType] /\ \A v \in Tabs : GoodTab(tab'[v])
<1> DEFINE t == tab[w]
           s == Shown(t, "done")
           u == [s EXCEPT !.sent = {}, !.busy = None, !.job = j]
<1>1. CASE r \notin t.sent
  BY <1>1 DEF ToldJob, Typed
<1>2. CASE r \in t.sent
  <2>1. GoodTab(t) /\ t.choices # {}
    BY <1>2 DEF Typed, GoodTab
  <2>2. GoodTab(s) /\ s.choices = t.choices
    BY <2>1, GoodShown
  <2>3. tab' = [tab EXCEPT ![w] = u]
    BY <1>2 DEF ToldJob
  <2> HIDE DEF s, t
  <2>4. GoodTab(u)
    BY <2>1, <2>2 DEF GoodTab, WizardType
  <2> HIDE DEF u
  <2> QED  BY <2>3, <2>4, OneTab
<1> QED  BY <1>1, <1>2

LEMMA WizardTyped ==
    ASSUME Inv, Typed, NEW w \in Tabs, Wizard(w)
    PROVE  tab' \in [Tabs -> WizardType] /\ \A v \in Tabs : GoodTab(tab'[v])
<1> DEFINE t == tab[w]
           Goal == tab' \in [Tabs -> WizardType] /\ \A v \in Tabs : GoodTab(tab'[v])
<1>0. /\ t \in WizardType /\ GoodTab(t) /\ tab \in [Tabs -> WizardType] /\ TabOK(t)
      /\ {} \notin Selections /\ minutes \in Durations
  BY CreationAssumption DEF Typed, Inv, TabInv, KeyInv
<1>1. ASSUME NEW c \in Selections, Choose(w, c)  PROVE Goal
  <2> DEFINE u == [t EXCEPT !.choices = c]
  <2>1. GoodTab(u)
    BY <1>0 DEF GoodTab, WizardType
  <2>2. tab' = [tab EXCEPT ![w] = u]
    BY <1>1 DEF Choose
  <2> HIDE DEF u
  <2> QED  BY <2>1, <2>2, OneTab
<1>2. CASE Continue(w)
  <2> DEFINE s == [t EXCEPT !.estimate = None]
  <2>1. GoodTab(s) /\ s.choices # {}
    BY <1>0, <1>2 DEF Continue, GoodTab, WizardType
  <2>2. tab' = [tab EXCEPT ![w] = Shown(s, "estimate")]
    BY <1>0, <1>2 DEF Continue
  <2> HIDE DEF s
  <2> QED  BY <2>1, <2>2, GoodShown, OneTab
<1>3. CASE EstimateArrives(w)
  <2> DEFINE e == [choices |-> t.asking, minutes |-> minutes,
                   ok |-> Headroom(TotalHigh(minutes, t.asking))]
             u == [t EXCEPT !.asking = None, !.estimate = e]
  <2>1. t.asking \in Selections /\ tab' = [tab EXCEPT ![w] = u]
    BY <1>0, <1>3 DEF EstimateArrives, WizardType
  <2>2. Headroom(TotalHigh(minutes, t.asking)) \in BOOLEAN
    BY DEF Headroom
  <2>3. e \in Estimate
    BY <1>0, <2>1, <2>2 DEF Estimate
  <2> HIDE DEF e
  <2>4. GoodTab(u)
    BY <1>0, <2>3 DEF GoodTab, WizardType
  <2> HIDE DEF u
  <2> QED  BY <2>1, <2>4, OneTab
<1>4. CASE EstimateFails(w)
  <2> DEFINE u == [t EXCEPT !.asking = None]
  <2>1. tab' = [tab EXCEPT ![w] = u] /\ GoodTab(u)
    BY <1>0, <1>4 DEF EstimateFails, GoodTab, WizardType
  <2> HIDE DEF u
  <2> QED  BY <2>1, OneTab
<1>5. CASE AcceptBeta(w)
  <2> DEFINE u == [t EXCEPT !.beta = TRUE]
  <2>1. tab' = [tab EXCEPT ![w] = u] /\ GoodTab(u)
    BY <1>0, <1>5 DEF AcceptBeta, GoodTab, WizardType
  <2> HIDE DEF u
  <2> QED  BY <2>1, OneTab
<1>6. CASE ToSubmit(w)
  <2>1. t.choices # {} /\ tab' = [tab EXCEPT ![w] = Shown(t, "submit")]
    BY <1>0, <1>6 DEF ToSubmit, At, GoodTab
  <2> QED  BY <1>0, <2>1, GoodShown, OneTab
<1>7. CASE Back(w)
  BY <1>7, GoodLeave DEF Back, At
<1>8. CASE StepperSelect(w)
  <2>1. PICK step \in Before(t.step) : LeaveFor(w, step)
    BY <1>8 DEF StepperSelect
  <2>2. step \in {"targets", "estimate"} /\ t.step \in {"estimate", "submit"}
    BY <1>0, <2>1 DEF Before, WizardType
  <2> QED  BY <2>1, <2>2, GoodLeave
<1>9. CASE Submit(w)
  <2>1. PICK r \in Requests : /\ t.step = "submit"
                              /\ tab' = [tab EXCEPT ![w].sent = @ \cup {r}, ![w].busy = r]
    BY <1>9 DEF Submit, At
  <2> DEFINE u == [t EXCEPT !.sent = @ \cup {r}, !.busy = r]
  <2>2. tab' = [tab EXCEPT ![w] = u]
    BY <1>0, <2>1
  <2>3. GoodTab(u)
    BY <1>0, <2>1 DEF GoodTab, WizardType
  <2> HIDE DEF u
  <2> QED  BY <2>2, <2>3, OneTab
<1>10. CASE AnswerLost(w)
  <2>1. PICK r \in t.sent : tab' = Told(w, r)
    BY <1>10 DEF AnswerLost
  <2> QED  BY <2>1, ToldGood
<1> HIDE DEF t
<1> QED  BY <1>1, <1>2, <1>3, <1>4, <1>5, <1>6, <1>7, <1>8, <1>9, <1>10 DEF Wizard

LEMMA TransactionTabs ==
    ASSUME Inv, Typed, NEW r \in Requests, Transaction(r)
    PROVE  tab' \in [Tabs -> WizardType] /\ \A v \in Tabs : GoodTab(tab'[v])
<1> DEFINE Goal == tab' \in [Tabs -> WizardType] /\ \A v \in Tabs : GoodTab(tab'[v])
<1>1. ASSUME UNCHANGED tab  PROVE Goal
  BY <1>1 DEF Typed
<1>2. ASSUME tx[r].phase # "none", tab' = Told(tx[r].key, r)  PROVE Goal
  BY <1>2, OwnRequest, ToldGood
<1>3. ASSUME tx[r].phase # "none", NEW j \in Requests, tab' = ToldJob(tx[r].key, r, j)
      PROVE  Goal
  BY <1>3, OwnRequest, ToldJobGood
<1>4. CASE Replay(r)
  <2>1. tx[r].phase # "none" /\ tx[r].key \in Tabs /\ Known(tx[r].key)
    BY <1>4, OwnRequest DEF Replay, In
  <2>2. keys[tx[r].key].job \in Requests
    BY <2>1 DEF Typed, Known
  <2>3. \/ tab' = ToldJob(tx[r].key, r, keys[tx[r].key].job)
        \/ tab' = Told(tx[r].key, r)
    BY <1>4 DEF Replay
  <2> QED  BY <1>2, <1>3, <2>1, <2>2, <2>3
<1>5. CASE Reserve(r)
  BY <1>1, <1>5 DEF Reserve
<1>6. CASE WaitEnds(r) \/ ReadBudget(r) \/ ReadQuota(r)
  <2>1. tx[r].phase # "none" /\ (UNCHANGED tab \/ tab' = Told(tx[r].key, r))
    BY <1>6 DEF WaitEnds, ReadBudget, ReadQuota, In, Refused
  <2> QED  BY <1>1, <1>2, <2>1
<1>7. CASE Create(r)
  BY <1>3, <1>7 DEF Create, In
<1> QED  BY <1>4, <1>5, <1>6, <1>7 DEF Transaction

\* A transaction that stores something has a body with targets.
LEMMA TransactionRows ==
    ASSUME Inv, Typed, NEW r \in Requests, Transaction(r)
    PROVE  /\ \A s \in Requests : tx'[s].phase # "none" => tx'[s].body # {}
           /\ keys' \in [Tabs -> {None} \cup [body : Selections, job : Requests \cup {None}]]
           /\ jobs' \in [DOMAIN jobs' -> JobType] /\ IsFiniteSet(DOMAIN jobs')
           /\ running' \subseteq TargetJobs' /\ lost' = lost
<1> DEFINE Kept == [body : Selections, job : Requests \cup {None}]
           k(j) == [body |-> tx[r].body, job |-> j]
<1>0. /\ TxOK /\ keys \in [Tabs -> {None} \cup Kept] /\ minutes \in Durations
      /\ \A s \in Requests : tx[s].phase # "none" => tx[s].body # {}
      /\ jobs \in [DOMAIN jobs -> JobType] /\ IsFiniteSet(DOMAIN jobs)
      /\ running \subseteq TargetJobs
  BY DEF Inv, KeyInv, Typed
<1>1. tx[r].phase # "none" /\ tx[r].key \in Tabs /\ tx[r].body \in Selections
  <2>1. tx[r].phase # "none"
    BY DEF Transaction, Replay, Reserve, WaitEnds, ReadBudget, ReadQuota, Create, In
  <2> QED  BY <1>0, <2>1, OwnRequest DEF TxOK, Selectable
<1>2. \/ tx' = [tx EXCEPT ![r] = NoTx]
      \/ \E phase \in Phases : tx' = [tx EXCEPT ![r].phase = phase]
  BY DEF Transaction, Replay, Reserve, WaitEnds, ReadBudget, ReadQuota, Create, In,
         Goes, Refused, Phases
<1>3. \A s \in Requests : tx'[s].phase # "none" => tx'[s].body # {}
  <2>1. CASE tx' = [tx EXCEPT ![r] = NoTx]
    <3>1. NoTx.phase = "none"
      BY DEF NoTx
    <3> QED  BY <1>0, <2>1, <3>1 DEF TxOK
  <2>2. ASSUME NEW phase \in Phases, tx' = [tx EXCEPT ![r].phase = phase]
        PROVE  \A s \in Requests : tx'[s].phase # "none" => tx'[s].body # {}
    BY <1>0, <1>1, <2>2 DEF TxOK
  <2> QED  BY <1>2, <2>1, <2>2
<1>4. \/ keys' = keys
      \/ keys' = [keys EXCEPT ![tx[r].key] = None]
      \/ \E j \in Requests \cup {None} : keys' = [keys EXCEPT ![tx[r].key] = k(j)]
  BY DEF Transaction, Replay, Reserve, WaitEnds, ReadBudget, ReadQuota, Create, In,
         Stored, Freed
<1>5. \A j \in Requests \cup {None} : k(j) \in Kept
  BY <1>1
<1> HIDE DEF k
<1>6. keys' \in [Tabs -> {None} \cup Kept]
  BY <1>0, <1>1, <1>4, <1>5
<1>7. CASE ~Create(r)
  <2>1. UNCHANGED <<jobs, running, lost>>
    BY <1>7 DEF Transaction, Replay, Reserve, WaitEnds, ReadBudget, ReadQuota
  <2>2. TargetJobs' = TargetJobs
    BY <2>1 DEF TargetJobs
  <2> QED  BY <1>0, <1>3, <1>6, <2>1, <2>2
<1>8. CASE Create(r)
  <2>1. PICK new : new = [key |-> tx[r].key, targets |-> tx[r].body, minutes |-> minutes,
                          reserved |-> HighOf(r)]
    OBVIOUS
  <2>2. /\ jobs' = [s \in DOMAIN jobs \cup {r} |-> IF s = r THEN new ELSE jobs[s]]
        /\ running' = running \cup {<<r, Locale(t)>> : t \in tx[r].body} /\ lost' = lost
    BY <1>8, <2>1 DEF Create
  <2>3. HighOf(r) \in Nat
    BY <1>0, <1>1, CostType DEF HighOf
  <2>4. new \in JobType /\ new.targets = tx[r].body
    BY <1>0, <1>1, <2>1, <2>3 DEF JobType
  <2>5. jobs' \in [DOMAIN jobs' -> JobType] /\ IsFiniteSet(DOMAIN jobs')
    BY <1>0, <2>2, <2>4, FS_AddElement
  <2>6. r \notin DOMAIN jobs
    BY <1>1 DEF Inv, KeyInv
  <2>7. /\ DOMAIN jobs' = DOMAIN jobs \cup {r} /\ jobs'[r].targets = tx[r].body
        /\ \A s \in DOMAIN jobs : jobs'[s].targets = jobs[s].targets
    BY <2>2, <2>4, <2>6
  <2>8. TargetJobs \subseteq TargetJobs'
    BY <2>7 DEF TargetJobs
  <2>9. {<<r, Locale(t)>> : t \in tx[r].body} \subseteq TargetJobs'
    BY <2>7 DEF TargetJobs
  <2> QED  BY <1>0, <1>3, <1>6, <2>2, <2>5, <2>8, <2>9
<1> QED  BY <1>7, <1>8

LEMMA TypedInit == Init => Typed
<1> SUFFICES ASSUME Init  PROVE Typed
  OBVIOUS
<1> DEFINE S == [step : {"targets"}, choices : {{}}, asking : {None},
                 estimate : {None}, beta : {FALSE}, sent : {{}},
                 busy : {None}, strayed : {FALSE}, job : {None}]
<1>1. tab \in [Tabs -> S]
  BY DEF Init
<1>2. \A u \in S : GoodTab(u) /\ u \in WizardType
  BY DEF GoodTab, WizardType
<1> HIDE DEF S
<1>3. tab \in [Tabs -> WizardType] /\ \A w \in Tabs : GoodTab(tab[w])
  BY <1>1, <1>2
<1>4. DOMAIN jobs = {} /\ jobs \in [DOMAIN jobs -> JobType] /\ IsFiniteSet(DOMAIN jobs)
  BY FS_EmptySet DEF Init
<1>5. lost \in 0..MaxLost
  BY CreationAssumption DEF Init
<1> QED  BY <1>3, <1>4, <1>5 DEF Init, Typed, NoTx

LEMMA TypedNext == ASSUME Inv, Typed, [Next]_vars  PROVE Typed'
<1>1. ASSUME UNCHANGED <<tab, tx, keys, jobs, lost>>, running' \subseteq TargetJobs
      PROVE  Typed'
  <2>1. TargetJobs' = TargetJobs
    BY <1>1 DEF TargetJobs
  <2>2. IsFiniteSet(DOMAIN jobs')
    BY <1>1 DEF Typed
  <2> QED  BY <1>1, <2>1, <2>2 DEF Typed
<1>2. ASSUME NEW w \in Tabs, Wizard(w)  PROVE Typed'
  <2>1. tab' \in [Tabs -> WizardType] /\ \A v \in Tabs : GoodTab(tab'[v])
    BY <1>2, WizardTyped
  <2>2. UNCHANGED <<keys, jobs, running>>
    BY <1>2 DEF Wizard, Choose, Continue, EstimateArrives, EstimateFails, AcceptBeta,
                ToSubmit, Back, StepperSelect, LeaveFor, Submit, AnswerLost, OnlyTabs
  <2>3. lost' = lost \/ (lost < MaxLost /\ lost' = lost + 1)
    BY <1>2 DEF Wizard, Choose, Continue, EstimateArrives, EstimateFails, AcceptBeta,
                ToSubmit, Back, StepperSelect, LeaveFor, Submit, AnswerLost, OnlyTabs
  <2>4. lost' \in 0..MaxLost
    BY <2>3, CreationAssumption DEF Typed
  <2>5. \A r \in Requests : tx'[r].phase # "none" => tx'[r].body # {}
    <3>1. CASE Submit(w)
      <4>1. PICK r \in Requests :
              /\ tab[w].step = "submit"
              /\ tx' = [tx EXCEPT ![r] = [phase |-> "arrived", key |-> w,
                                          body |-> tab[w].choices]]
        BY <3>1 DEF Submit, At, JobRequest
      <4>2. tab[w].choices # {}
        BY <4>1 DEF Typed, GoodTab
      <4> QED  BY <4>1, <4>2 DEF Inv, KeyInv, TxOK, Typed
    <3>2. CASE ~Submit(w)
      <4>1. tx' = tx
        BY <1>2, <3>2 DEF Wizard, Choose, Continue, EstimateArrives, EstimateFails,
                AcceptBeta, ToSubmit, Back, StepperSelect, LeaveFor, AnswerLost, OnlyTabs
      <4> QED  BY <4>1 DEF Typed
    <3> QED  BY <3>1, <3>2
  <2>6. TargetJobs' = TargetJobs /\ IsFiniteSet(DOMAIN jobs')
    BY <2>2 DEF TargetJobs, Typed
  <2> QED  BY <2>1, <2>2, <2>4, <2>5, <2>6 DEF Typed
<1>3. ASSUME NEW r \in Requests, Transaction(r)  PROVE Typed'
  BY <1>3, TransactionTabs, TransactionRows DEF Typed
<1>4. ASSUME NEW t \in TargetJobs, TargetRests(t) \/ TargetReturns(t)  PROVE Typed'
  <2>1. UNCHANGED <<tab, tx, keys, jobs, lost>> /\ running' \subseteq TargetJobs
    BY <1>4 DEF TargetRests, TargetReturns, Typed
  <2> QED  BY <1>1, <2>1
<1>5. ASSUME NEW m \in Durations, SourceReplaced(m)  PROVE Typed'
  BY <1>1, <1>5 DEF SourceReplaced, Typed
<1>6. CASE UNCHANGED vars
  BY <1>1, <1>6 DEF vars, Typed
<1> QED  BY <1>2, <1>3, <1>4, <1>5, <1>6 DEF Next

Flags == raced \in BOOLEAN /\ regained \in BOOLEAN

LEMMA FlagsNext == ASSUME Flags, [Next]_vars  PROVE Flags'
<1>1. ASSUME NEW w \in Tabs, Wizard(w)  PROVE UNCHANGED <<raced, regained>>
  BY <1>1 DEF Wizard, Choose, Continue, EstimateArrives, EstimateFails, AcceptBeta,
              ToSubmit, Back, StepperSelect, LeaveFor, Submit, AnswerLost, OnlyTabs
<1>2. ASSUME NEW r \in Requests, Transaction(r)
      PROVE  raced' \in {raced, TRUE, FALSE} /\ regained' = regained
  BY <1>2 DEF Transaction, Replay, Reserve, WaitEnds, ReadBudget, ReadQuota, Create
<1>3. ASSUME NEW t, TargetRests(t) \/ TargetReturns(t)
      PROVE  raced' = raced /\ regained' \in {regained, TRUE}
  BY <1>3 DEF TargetRests, TargetReturns
<1>4. ASSUME NEW m, SourceReplaced(m)  PROVE UNCHANGED <<raced, regained>>
  BY <1>4 DEF SourceReplaced
<1> QED  BY <1>1, <1>2, <1>3, <1>4 DEF Next, vars, Flags

LEMMA TypedMeansTypeOK == ASSUME Inv, Typed, Flags  PROVE TypeOK
<1>1. tab \in [Tabs -> WizardType] /\ keys \in [Tabs -> {None} \cup [body : Selections, job : Requests \cup {None}]]
  BY DEF Typed
<1>2. tx \in [Requests -> [phase : Phases, key : Tabs \cup {None}, body : Selectable]]
      /\ minutes \in Durations
  BY DEF Inv, KeyInv, TxOK
<1>3. jobs \in [DOMAIN jobs -> JobType] /\ running \subseteq TargetJobs /\ lost \in 0..MaxLost
  BY DEF Typed
<1> QED  BY <1>1, <1>2, <1>3 DEF TypeOK, WizardType, JobType, Phases, Selectable, Flags

-----------------------------------------------------------------------------
(* Budget and quota.  What a transaction has read stays true until it makes *)
(* its job, because it is the only one that has read anything.              *)

Money ==
    ~raced =>
        /\ Reserved <= Budget
        /\ \A r \in Reading : Reserved + HighOf(r) <= Budget
        /\ \A r, s \in Reading : r = s

Crowd ==
    /\ IsFiniteSet(running)
    /\ ~raced /\ ~regained =>
        /\ Cardinality(running) <= MaxConcurrent
        /\ \A r \in Requests : tx[r].phase = "in quota" =>
              Cardinality(running) + Cardinality(tx[r].body) <= MaxConcurrent

LEMMA Limits == Budget \in Nat /\ MaxConcurrent \in Nat
BY CreationAssumption

LEMMA BodyIsFinite ==
    ASSUME TxOK, NEW r \in Requests
    PROVE  IsFiniteSet(tx[r].body) /\ Cardinality(tx[r].body) \in Nat
<1>1. tx[r].body \in Selectable
  BY DEF TxOK
<1>2. IsFiniteSet(tx[r].body)
  BY <1>1, CreationAssumption, FS_EmptySet DEF Selectable
<1> QED  BY <1>2, FS_CardinalityType

LEMMA LimitsInit == Init => Money /\ Crowd
<1> SUFFICES ASSUME Init  PROVE Money /\ Crowd
  OBVIOUS
<1>1. Reading = {} /\ \A r \in Requests : tx[r].phase = "none"
  BY DEF Init, Reading, NoTx
<1>2. Reserved = 0
  <2>1. DOMAIN jobs = {}
    BY DEF Init
  <2>2. [r \in DOMAIN jobs |-> jobs[r].reserved] \in [{} -> Nat]
    BY <2>1
  <2> QED  BY <2>2, SumOfNothing DEF Reserved
<1>3. Money
  BY <1>1, <1>2, Limits DEF Money
<1>4. IsFiniteSet(running) /\ Cardinality(running) = 0
  BY FS_EmptySet DEF Init
<1>5. Crowd
  <2>1. Cardinality(running) <= MaxConcurrent
    BY <1>4, Limits
  <2> QED  BY <1>1, <1>4, <2>1 DEF Crowd
<1> QED  BY <1>3, <1>5

\* A step that makes no job, and after which no transaction reads that did not.
LEMMA MoneyKept ==
    ASSUME Money, UNCHANGED jobs, ~raced' => ~raced,
           \A s \in Reading' : s \in Reading /\ HighOf(s)' = HighOf(s)
    PROVE  Money'
<1>1. Reserved' = Reserved
  BY DEF Reserved
<1> QED  BY <1>1 DEF Money

\* A limit that is kept by a set is kept by its subsets.
LEMMA Shrinks ==
    ASSUME NEW S, IsFiniteSet(S), NEW T \in SUBSET S
    PROVE  /\ IsFiniteSet(T)
           /\ Cardinality(S) <= MaxConcurrent => Cardinality(T) <= MaxConcurrent
           /\ \A n \in Nat : Cardinality(S) + n <= MaxConcurrent
                                => Cardinality(T) + n <= MaxConcurrent
<1>1. IsFiniteSet(T) /\ Cardinality(T) <= Cardinality(S)
  BY FS_Subset
<1>2. Cardinality(S) \in Nat /\ Cardinality(T) \in Nat
  BY <1>1, FS_CardinalityType
<1> QED  BY <1>1, <1>2, Limits

LEMMA CrowdKept ==
    ASSUME Crowd, TxOK, running' \subseteq running,
           ~raced' => ~raced, ~regained' => ~regained,
           \A s \in Requests : tx'[s].phase = "in quota" =>
              tx[s].phase = "in quota" /\ tx'[s].body = tx[s].body
    PROVE  Crowd'
<1>1. IsFiniteSet(running)
  BY DEF Crowd
<1>2. /\ IsFiniteSet(running')
      /\ Cardinality(running) <= MaxConcurrent => Cardinality(running') <= MaxConcurrent
      /\ \A n \in Nat : Cardinality(running) + n <= MaxConcurrent
                           => Cardinality(running') + n <= MaxConcurrent
  BY <1>1, Shrinks
<1>3. ASSUME ~raced', ~regained', NEW r \in Requests, tx'[r].phase = "in quota"
      PROVE  Cardinality(running') + Cardinality(tx'[r].body) <= MaxConcurrent
  <2>1. Cardinality(running) + Cardinality(tx[r].body) <= MaxConcurrent
    BY <1>3 DEF Crowd
  <2>2. Cardinality(tx[r].body) \in Nat /\ tx'[r].body = tx[r].body
    BY <1>3, BodyIsFinite
  <2> QED  BY <1>2, <2>1, <2>2
<1>4. ~raced' /\ ~regained' => Cardinality(running') <= MaxConcurrent
  BY <1>2 DEF Crowd
<1> QED  BY <1>2, <1>3, <1>4 DEF Crowd

\* The targets of a job are at most as many as those asked for.
LEMMA Newcomers ==
    ASSUME NEW r, NEW c, IsFiniteSet(c)
    PROVE  LET T == {<<r, Locale(t)>> : t \in c} IN
             IsFiniteSet(T) /\ Cardinality(T) <= Cardinality(c)
<1> DEFINE T == {<<r, Locale(t)>> : t \in c}
           f == [t \in c |-> <<r, Locale(t)>>]
<1>1. f \in Surjection(c, T)
  BY DEF Surjection
<1> HIDE DEF f, T
<1>2. IsFiniteSet(T) /\ Cardinality(T) <= Cardinality(c)
  BY <1>1, FS_Surjection
<1> QED  BY <1>2 DEF T

LEMMA Together ==
    ASSUME NEW S, IsFiniteSet(S), NEW T, IsFiniteSet(T)
    PROVE  /\ IsFiniteSet(S \cup T) /\ Cardinality(S) \in Nat /\ Cardinality(T) \in Nat
           /\ Cardinality(S \cup T) \in Nat
           /\ Cardinality(S \cup T) <= Cardinality(S) + Cardinality(T)
<1>1. /\ IsFiniteSet(S \cup T)
      /\ Cardinality(S \cup T) = Cardinality(S) + Cardinality(T) - Cardinality(S \cap T)
  BY FS_Union
<1>2. IsFiniteSet(S \cap T)
  BY FS_Intersection
<1>3. /\ Cardinality(S) \in Nat /\ Cardinality(T) \in Nat /\ Cardinality(S \cap T) \in Nat
      /\ Cardinality(S \cup T) \in Nat
  BY <1>1, <1>2, FS_CardinalityType
<1> QED  BY <1>1, <1>3

\* What the rows have reserved grows by what the new job may cost.
LEMMA CreateAdds ==
    ASSUME Inv, Typed, NEW r \in Requests, Create(r)
    PROVE  Reserved' = Reserved + HighOf(r) /\ HighOf(r) \in Nat
<1>0. /\ r \notin DOMAIN jobs /\ tx[r].body \in Selections /\ minutes \in Durations
  BY DEF Inv, KeyInv, Create, In, Typed, TxOK, Selectable
<1> DEFINE f == [s \in DOMAIN jobs |-> jobs[s].reserved]
           h == [s \in DOMAIN jobs' |-> jobs'[s].reserved]
           new == [key |-> tx[r].key, targets |-> tx[r].body, minutes |-> minutes,
                   reserved |-> HighOf(r)]
<1>1. jobs' = [s \in DOMAIN jobs \cup {r} |-> IF s = r THEN new ELSE jobs[s]]
  BY DEF Create
<1>2. new.reserved = HighOf(r)
  OBVIOUS
<1> HIDE DEF new
<1>3. /\ DOMAIN jobs' = DOMAIN jobs \cup {r} /\ jobs'[r].reserved = HighOf(r)
      /\ \A s \in DOMAIN jobs : jobs'[s] = jobs[s]
  BY <1>0, <1>1, <1>2
<1>4. HighOf(r) \in Nat
  BY <1>0, CostType DEF HighOf
<1>5. f \in [DOMAIN jobs -> Nat] /\ IsFiniteSet(DOMAIN jobs)
  BY DEF Typed, JobType
<1>6. h \in [DOMAIN jobs \cup {r} -> Nat] /\ h[r] = HighOf(r)
      /\ \A s \in DOMAIN jobs : f[s] = h[s]
  BY <1>3, <1>4, <1>5
<1>7. Reserved = SumFunction(f) /\ Reserved' = SumFunction(h)
  BY DEF Reserved
<1> HIDE DEF f, h
<1>8. SumFunction(h) = SumFunction(f) + h[r]
  <2> DEFINE D == DOMAIN jobs
  <2>1. /\ IsFiniteSet(D) /\ f \in [D -> Nat] /\ r \notin D
        /\ h \in [D \cup {r} -> Nat] /\ \A s \in D : f[s] = h[s]
    BY <1>0, <1>5, <1>6
  <2> HIDE DEF D
  <2> QED  BY <2>1, SumOfOneMore
<1> QED  BY <1>4, <1>6, <1>7, <1>8

\* A transaction makes its job: what it has read was still true.
LEMMA CreateLimits ==
    ASSUME Inv, Typed, Money, Crowd, NEW r \in Requests, Create(r)
    PROVE  Money' /\ Crowd'
<1>0. /\ TxOK /\ tx[r].phase = "in quota" /\ r \in Reading /\ r \notin DOMAIN jobs
      /\ tx[r].body \in Selections /\ minutes \in Durations
      /\ UNCHANGED <<raced, regained>>
  BY DEF Inv, KeyInv, Create, In, Reading, Typed, TxOK, Selectable
<1>1. tx'[r].phase = "none" /\ \A s \in Requests \ {r} : tx'[s] = tx[s]
  BY <1>0 DEF Create, TxOK, NoTx
<1>2. Reading' = Reading \ {r}
  BY <1>1 DEF Reading
<1>3. ~raced => Reading = {r}
  BY <1>0 DEF Money
<1>4. Reserved' = Reserved + HighOf(r)
  BY CreateAdds
<1>5. Money'
  <2> SUFFICES ASSUME ~raced  PROVE Reserved' <= Budget /\ Reading' = {}
    BY <1>0 DEF Money
  <2>1. Reserved + HighOf(r) <= Budget
    BY <1>0 DEF Money
  <2> QED  BY <1>2, <1>3, <1>4, <2>1
<1>6. Crowd'
  <2> DEFINE T == {<<r, Locale(t)>> : t \in tx[r].body}
  <2>1. running' = running \cup T
    BY DEF Create
  <2>2. IsFiniteSet(tx[r].body) /\ Cardinality(tx[r].body) \in Nat
    BY <1>0, BodyIsFinite
  <2>3. IsFiniteSet(T) /\ Cardinality(T) <= Cardinality(tx[r].body)
    BY <2>2, Newcomers
  <2> HIDE DEF T
  <2>4. IsFiniteSet(running)
    BY DEF Crowd
  <2>5. /\ IsFiniteSet(running') /\ Cardinality(running) \in Nat /\ Cardinality(T) \in Nat
        /\ Cardinality(running') \in Nat
        /\ Cardinality(running') <= Cardinality(running) + Cardinality(T)
    BY <2>1, <2>3, <2>4, Together
  <2> SUFFICES ASSUME ~raced, ~regained
               PROVE  /\ Cardinality(running') <= MaxConcurrent
                      /\ \A s \in Requests : tx'[s].phase # "in quota"
    BY <1>0, <2>5 DEF Crowd
  <2>6. Cardinality(running) + Cardinality(tx[r].body) <= MaxConcurrent
    BY <1>0 DEF Crowd
  <2>7. Cardinality(running') <= MaxConcurrent
    BY <2>2, <2>3, <2>5, <2>6, Limits
  <2>8. \A s \in Requests : tx'[s].phase # "in quota"
    BY <1>1, <1>3 DEF Reading
  <2> QED  BY <2>7, <2>8
<1> QED  BY <1>5, <1>6

\* A step in which no transaction reads anything.
LEMMA Unread ==
    ASSUME Inv, Money, Crowd, UNCHANGED <<jobs, minutes, raced, regained>>,
           running' \subseteq running,
           \A s \in Requests : tx'[s].phase \in {"in budget", "in quota"} => tx'[s] = tx[s]
    PROVE  Money' /\ Crowd'
<1>1. Crowd'
  BY CrowdKept DEF Inv, KeyInv
<1>2. \A s \in Reading' : s \in Reading /\ HighOf(s)' = HighOf(s)
  BY DEF Reading, HighOf
<1>3. Money'
  BY <1>2, MoneyKept
<1> QED  BY <1>1, <1>3

\* A transaction compares the reservations with the budget.
LEMMA BudgetLimits ==
    ASSUME Inv, Money, Crowd, NEW r \in Requests, ReadBudget(r),
           Headroom(HighOf(r))
    PROVE  Money' /\ Crowd'
<1>0. TxOK /\ tx[r].phase = "begun"
  BY DEF Inv, KeyInv, ReadBudget, In
<1>1. /\ tx' = [tx EXCEPT ![r].phase = "in budget"] /\ raced' = (raced \/ Reading # {})
      /\ UNCHANGED <<jobs, running, minutes, regained>>
  BY DEF ReadBudget, Goes
<1>2. /\ tx'[r].phase = "in budget" /\ tx'[r].body = tx[r].body
      /\ \A s \in Requests \ {r} : tx'[s] = tx[s]
  BY <1>0, <1>1 DEF TxOK
<1>3. Crowd'
  BY <1>0, <1>1, <1>2, CrowdKept
<1>4. Money'
  <2> SUFFICES ASSUME ~raced'
               PROVE  /\ Reserved' <= Budget
                      /\ \A s \in Reading' : s = r /\ Reserved' + HighOf(s)' <= Budget
    BY DEF Money
  <2>1. ~raced /\ Reading = {}
    BY <1>1
  <2>2. Reserved' = Reserved
    BY <1>1 DEF Reserved
  <2>3. Reading' = {r}
    BY <1>2, <2>1 DEF Reading
  <2>4. HighOf(r)' = HighOf(r) /\ Reserved + HighOf(r) <= Budget
    BY <1>1, <1>2 DEF HighOf, Headroom
  <2>5. Reserved <= Budget
    BY <2>1 DEF Money
  <2> QED  BY <2>2, <2>3, <2>4, <2>5
<1> QED  BY <1>3, <1>4

\* It compares the targets that run, and its own, with the quota.
LEMMA QuotaLimits ==
    ASSUME Inv, Money, Crowd, NEW r \in Requests, ReadQuota(r),
           Cardinality(running) + Cardinality(tx[r].body) <= MaxConcurrent
    PROVE  Money' /\ Crowd'
<1>0. TxOK /\ tx[r].phase = "in budget"
  BY DEF Inv, KeyInv, ReadQuota, In
<1>1. /\ tx' = [tx EXCEPT ![r].phase = "in quota"]
      /\ UNCHANGED <<jobs, running, minutes, raced, regained>>
  BY DEF ReadQuota, Goes
<1>2. /\ tx'[r].phase = "in quota" /\ tx'[r].body = tx[r].body
      /\ \A s \in Requests \ {r} : tx'[s] = tx[s]
  BY <1>0, <1>1 DEF TxOK
<1>3. \A s \in Reading' : s \in Reading /\ HighOf(s)' = HighOf(s)
  BY <1>0, <1>1, <1>2 DEF Reading, HighOf
<1>4. Money'
  BY <1>1, <1>3, MoneyKept
<1>5. Crowd'
  BY <1>1, <1>2 DEF Crowd
<1> QED  BY <1>4, <1>5

LEMMA LimitsNext == ASSUME Inv, Typed, Money, Crowd, [Next]_vars  PROVE Money' /\ Crowd'
<1>0. TxOK
  BY DEF Inv, KeyInv
<1>1. ASSUME NEW w \in Tabs, Wizard(w)  PROVE Money' /\ Crowd'
  <2>1. UNCHANGED <<jobs, minutes, raced, regained, running>>
    BY <1>1 DEF Wizard, Choose, Continue, EstimateArrives, EstimateFails, AcceptBeta,
                ToSubmit, Back, StepperSelect, LeaveFor, Submit, AnswerLost, OnlyTabs
  <2>2. \A s \in Requests : tx'[s].phase \in {"in budget", "in quota"} => tx'[s] = tx[s]
    <3>1. CASE Submit(w)
      <4>1. PICK r \in Requests :
              tx' = [tx EXCEPT ![r] = [phase |-> "arrived", key |-> w,
                                       body |-> JobRequest(w)]]
        BY <3>1 DEF Submit
      <4> QED  BY <1>0, <4>1 DEF TxOK
    <3>2. CASE ~Submit(w)
      BY <1>1, <3>2 DEF Wizard, Choose, Continue, EstimateArrives, EstimateFails,
                AcceptBeta, ToSubmit, Back, StepperSelect, LeaveFor, AnswerLost, OnlyTabs
    <3> QED  BY <3>1, <3>2
  <2> QED  BY <2>1, <2>2, Unread
<1>2. ASSUME NEW r \in Requests, Transaction(r)  PROVE Money' /\ Crowd'
  <2>1. CASE Create(r)
    BY <2>1, CreateLimits
  <2>2. CASE ReadBudget(r) /\ Headroom(HighOf(r))
    BY <2>2, BudgetLimits
  <2>3. CASE ReadQuota(r) /\ Cardinality(running) + Cardinality(tx[r].body) <= MaxConcurrent
    BY <2>3, QuotaLimits
  <2>4. ASSUME UNCHANGED <<jobs, minutes, raced, regained, running>>,
               \/ tx' = [tx EXCEPT ![r] = NoTx]
               \/ \E phase \in {"waits", "begun"} : tx' = [tx EXCEPT ![r].phase = phase]
        PROVE  Money' /\ Crowd'
    <3>1. \A s \in Requests : tx'[s].phase \in {"in budget", "in quota"} => tx'[s] = tx[s]
      <4>1. CASE tx' = [tx EXCEPT ![r] = NoTx]
        <5>1. tx'[r].phase = "none" /\ \A s \in Requests \ {r} : tx'[s] = tx[s]
          BY <1>0, <4>1 DEF TxOK, NoTx
        <5> QED  BY <5>1
      <4>2. ASSUME NEW phase \in {"waits", "begun"}, tx' = [tx EXCEPT ![r].phase = phase]
            PROVE  \A s \in Requests :
                      tx'[s].phase \in {"in budget", "in quota"} => tx'[s] = tx[s]
        <5>1. tx'[r].phase = phase /\ \A s \in Requests \ {r} : tx'[s] = tx[s]
          BY <1>0, <4>2 DEF TxOK
        <5> QED  BY <4>2, <5>1
      <4> QED  BY <2>4, <4>1, <4>2
    <3> QED  BY <2>4, <3>1, Unread
  <2>5. CASE Replay(r) \/ Reserve(r) \/ WaitEnds(r)
    BY <2>4, <2>5 DEF Replay, Reserve, WaitEnds, Refused, Goes
  <2>6. CASE ReadBudget(r) /\ ~Headroom(HighOf(r))
    BY <2>4, <2>6 DEF ReadBudget, Refused
  <2>7. CASE ReadQuota(r) /\ ~(Cardinality(running) + Cardinality(tx[r].body) <= MaxConcurrent)
    BY <2>4, <2>7 DEF ReadQuota, Refused
  <2> QED  BY <1>2, <2>1, <2>2, <2>3, <2>5, <2>6, <2>7 DEF Transaction
<1>3. ASSUME NEW t, TargetRests(t)  PROVE Money' /\ Crowd'
  <2>1. UNCHANGED <<tx, jobs, minutes, raced, regained>> /\ running' \subseteq running
    BY <1>3 DEF TargetRests
  <2> QED  BY <2>1, Unread
<1>4. ASSUME NEW t, TargetReturns(t)  PROVE Money' /\ Crowd'
  <2>1. UNCHANGED <<tx, jobs, minutes, raced>> /\ regained' /\ running' = running \cup {t}
    BY <1>4 DEF TargetReturns
  <2>2. IsFiniteSet(running')
    BY <2>1, FS_AddElement DEF Crowd
  <2>3. \A s \in Reading' : s \in Reading /\ HighOf(s)' = HighOf(s)
    BY <2>1 DEF Reading, HighOf
  <2> QED  BY <2>1, <2>2, <2>3, MoneyKept DEF Crowd
<1>5. ASSUME NEW m, SourceReplaced(m)  PROVE Money' /\ Crowd'
  <2>1. UNCHANGED <<tx, jobs, running, raced, regained>> /\ Reading = {} /\ Reading' = {}
    BY <1>5 DEF SourceReplaced, Reading
  <2>2. Money'
    BY <2>1, MoneyKept
  <2>3. Crowd'
    BY <1>0, <2>1, CrowdKept
  <2> QED  BY <2>2, <2>3
<1>6. CASE UNCHANGED vars
  BY <1>6, Unread DEF vars
<1> QED  BY <1>1, <1>2, <1>3, <1>4, <1>5, <1>6 DEF Next

LEMMA AllInvariance == Spec => [](Inv /\ Typed /\ Flags /\ Money /\ Crowd)
<1>1. Init => Inv /\ Typed /\ Flags /\ Money /\ Crowd
  BY InitInv, TypedInit, LimitsInit DEF Init, Flags
<1>2. Inv /\ Typed /\ Flags /\ Money /\ Crowd /\ [Next]_vars
        => (Inv /\ Typed /\ Flags /\ Money /\ Crowd)'
  BY InvNext, TypedNext, FlagsNext, LimitsNext
<1> QED  BY <1>1, <1>2, PTL DEF Spec

-----------------------------------------------------------------------------
(* The theorems about them. *)

\* For any wizards, requests and lost answers: wizards, transactions, keys and
\* jobs keep their types, and only targets of jobs run.
THEOREM TypeCorrect == Spec => []TypeOK
<1>1. Inv /\ Typed /\ Flags => TypeOK
  BY TypedMeansTypeOK
<1> QED  BY <1>1, AllInvariance, PTL

\* Whatever the rates, the budget and the number of wizards: what the jobs of a
\* month may cost stays within the budget unless two creations read side by side.
THEOREM KeepsToBudget == Spec => []WithinBudget
<1>1. Inv /\ Money => WithinBudget
  <2> SUFFICES ASSUME Inv, Money, ~raced
               PROVE  SumFunction([r \in DOMAIN jobs |->
                          TotalHigh(jobs[r].minutes, jobs[r].targets)]) <= Budget
    BY DEF WithinBudget
  <2>1. \A r \in DOMAIN jobs : jobs[r].reserved = TotalHigh(jobs[r].minutes, jobs[r].targets)
    BY DEF Inv, KeyInv
  <2>2. [r \in DOMAIN jobs |-> jobs[r].reserved]
          = [r \in DOMAIN jobs |-> TotalHigh(jobs[r].minutes, jobs[r].targets)]
    BY <2>1
  <2>3. Reserved <= Budget
    BY DEF Money
  <2> QED  BY <2>2, <2>3 DEF Reserved
<1> QED  BY <1>1, AllInvariance, PTL

\* The targets that run stay within the quota, unless two creations read side by
\* side or a target that had come to rest was brought back to work.
THEOREM KeepsToQuota == Spec => []WithinQuota
<1>1. Crowd => WithinQuota
  BY DEF Crowd, WithinQuota
<1> QED  BY <1>1, AllInvariance, PTL

-----------------------------------------------------------------------------
(* Refinement of JobLedger. *)

\* Only a wizard that is done has heard of a job.
Untold == \A w \in Tabs : tab[w].step # "done" => tab[w].job = None

\* No wizard hears of a job.
Silent ==
    \A v \in Tabs : /\ tab'[v].job = tab[v].job
                    /\ tab[v].step = "done" => tab'[v].step = "done"

Heard == [w \in Tabs |-> tab[w].job]

Booked == [r \in DOMAIN jobs |-> [key     |-> jobs[r].key,
                                 targets |-> jobs[r].targets,
                                 minutes |-> jobs[r].minutes]]

LEMMA SilentTells == ASSUME Untold, Silent  PROVE Untold' /\ Heard' = Heard
BY DEF Untold, Silent, Heard

LEMMA OneSilent ==
    ASSUME Typed, NEW w \in Tabs, NEW u, tab' = [tab EXCEPT ![w] = u],
           u.job = tab[w].job, tab[w].step = "done" => u.step = "done"
    PROVE  Silent
<1>1. tab'[w] = u /\ \A v \in Tabs \ {w} : tab'[v] = tab[v]
  BY DEF Typed
<1> QED  BY <1>1 DEF Silent

LEMMA ShownJob ==
    ASSUME NEW t \in WizardType, NEW step
    PROVE  Shown(t, step).job = t.job /\ Shown(t, step).step = step
BY DEF Shown, WizardType

LEMMA SilentLeave ==
    ASSUME Typed, NEW w \in Tabs, NEW step, LeaveFor(w, step), tab[w].step # "done"
    PROVE  Silent
<1> DEFINE s == Shown(tab[w], step)
           b == tab[w].strayed \/ tab[w].sent # {}
           u == [s EXCEPT !.busy = None, !.strayed = b]
<1>1. tab' = [tab EXCEPT ![w] = u]
  BY DEF LeaveFor
<1>2. s.job = tab[w].job
  BY ShownJob DEF Typed
<1> HIDE DEF s, b
<1>3. u.job = s.job
  OBVIOUS
<1> HIDE DEF u
<1> QED  BY <1>1, <1>2, <1>3, OneSilent

LEMMA ToldSilent ==
    ASSUME Inv, NEW w \in Tabs, NEW r \in Requests, tab' = Told(w, r)
    PROVE  Silent
BY ToldTabs DEF Silent

\* What a wizard does by itself tells it of no job.
LEMMA WizardSilent == ASSUME Inv, Typed, NEW w \in Tabs, Wizard(w)  PROVE Silent
<1> DEFINE t == tab[w]
<1>0. t \in WizardType /\ tab \in [Tabs -> WizardType]
  BY DEF Typed
<1>1. ASSUME NEW c \in Selections, Choose(w, c)  PROVE Silent
  <2> DEFINE u == [t EXCEPT !.choices = c]
  <2>1. tab' = [tab EXCEPT ![w] = u]
    BY <1>1 DEF Choose
  <2>2. u.job = t.job /\ u.step = t.step
    BY <1>0 DEF WizardType
  <2> HIDE DEF u
  <2> QED  BY <2>1, <2>2, OneSilent
<1>2. CASE Continue(w)
  <2> DEFINE s == [t EXCEPT !.estimate = None]
             u == Shown(s, "estimate")
  <2>1. tab' = [tab EXCEPT ![w] = u] /\ t.step = "targets"
    BY <1>0, <1>2 DEF Continue, At
  <2>2. s.job = t.job /\ s \in WizardType
    BY <1>0 DEF WizardType
  <2> HIDE DEF s
  <2>3. u.job = t.job
    BY <2>2, ShownJob
  <2> HIDE DEF u
  <2> QED  BY <2>1, <2>3, OneSilent
<1>3. CASE EstimateArrives(w)
  <2>1. PICK e : tab' = [tab EXCEPT ![w].asking = None, ![w].estimate = e]
    BY <1>3 DEF EstimateArrives
  <2> DEFINE u == [t EXCEPT !.asking = None, !.estimate = e]
  <2>2. tab' = [tab EXCEPT ![w] = u]
    BY <1>0, <2>1
  <2>3. u.job = t.job /\ u.step = t.step
    BY <1>0 DEF WizardType
  <2> HIDE DEF u
  <2> QED  BY <2>2, <2>3, OneSilent
<1>4. CASE EstimateFails(w) \/ AcceptBeta(w)
  <2>1. PICK u \in {[t EXCEPT !.asking = None], [t EXCEPT !.beta = TRUE]} :
            tab' = [tab EXCEPT ![w] = u]
    BY <1>0, <1>4 DEF EstimateFails, AcceptBeta
  <2>2. u.job = t.job /\ u.step = t.step
    BY <1>0, <2>1 DEF WizardType
  <2> QED  BY <2>1, <2>2, OneSilent
<1>5. CASE ToSubmit(w)
  <2>1. tab' = [tab EXCEPT ![w] = Shown(t, "submit")] /\ t.step = "estimate"
    BY <1>0, <1>5 DEF ToSubmit, At
  <2> QED  BY <1>0, <2>1, ShownJob, OneSilent
<1>6. CASE Back(w)
  BY <1>6, SilentLeave DEF Back, At
<1>7. CASE StepperSelect(w)
  <2>1. PICK step \in Before(t.step) : LeaveFor(w, step)
    BY <1>7 DEF StepperSelect
  <2>2. t.step # "done"
    BY <2>1 DEF Before
  <2> QED  BY <2>1, <2>2, SilentLeave
<1>8. CASE Submit(w)
  <2>1. PICK r \in Requests : tab' = [tab EXCEPT ![w].sent = @ \cup {r}, ![w].busy = r]
    BY <1>8 DEF Submit
  <2> DEFINE u == [t EXCEPT !.sent = @ \cup {r}, !.busy = r]
  <2>2. tab' = [tab EXCEPT ![w] = u]
    BY <1>0, <2>1
  <2>3. u.job = t.job /\ u.step = t.step
    BY <1>0 DEF WizardType
  <2> HIDE DEF u
  <2> QED  BY <2>2, <2>3, OneSilent
<1>9. CASE AnswerLost(w)
  <2>1. PICK r \in t.sent : tab' = Told(w, r)
    BY <1>9 DEF AnswerLost
  <2>2. r \in Requests
    BY <1>0, <2>1 DEF WizardType
  <2> QED  BY <2>1, <2>2, ToldSilent
<1> HIDE DEF t
<1> QED  BY <1>1, <1>2, <1>3, <1>4, <1>5, <1>6, <1>7, <1>8, <1>9 DEF Wizard

\* A wizard hears of a job once, if it still waits for that request.
LEMMA HearsOnce ==
    ASSUME Inv, Untold, NEW w \in Tabs, NEW r \in Requests, NEW j \in Requests,
           tab' = ToldJob(w, r, j)
    PROVE  /\ Untold'
           /\ Heard' = Heard \/ (Heard[w] = None /\ Heard' = [Heard EXCEPT ![w] = j])
<1>1. CASE r \notin tab[w].sent
  BY <1>1 DEF ToldJob, Untold, Heard
<1>2. CASE r \in tab[w].sent
  <2>1. tab[w].step # "done" /\ tab[w].job = None
    BY <1>2 DEF Inv, TabInv, TabOK, Untold
  <2>2. /\ \A v \in Tabs \ {w} : tab'[v] = tab[v]
        /\ tab'[w].step = "done" /\ tab'[w].job = j
    BY <1>2, ToldJobTabs
  <2> QED  BY <2>1, <2>2 DEF Untold, Heard
<1> QED  BY <1>1, <1>2

-----------------------------------------------------------------------------
(* The numbers of the ledger. *)

\* A job has as many targets as were asked for: no language twice.
LEMMA NewcomersCount ==
    ASSUME NEW r, NEW c \in Selections
    PROVE  LET T == {<<r, Locale(t)>> : t \in c} IN
             IsFiniteSet(T) /\ Cardinality(T) = Cardinality(c)
<1> DEFINE T == {<<r, Locale(t)>> : t \in c}
           f == [t \in c |-> <<r, Locale(t)>>]
<1>1. IsFiniteSet(c) /\ \A t, u \in c : Locale(t) = Locale(u) => t = u
  BY CreationAssumption DEF Acceptable
<1>2. f \in [c -> T] /\ \A t, u \in c : f[t] = f[u] => t = u
  BY <1>1
<1>3. \A y \in T : \E t \in c : f[t] = y
  OBVIOUS
<1> HIDE DEF f, T
<1>4. f \in Bijection(c, T)
  BY <1>2, <1>3 DEF Bijection, Injection, Surjection, IsInjective
<1>5. IsFiniteSet(T) /\ Cardinality(T) = Cardinality(c)
  BY <1>1, <1>4, FS_Bijection DEF ExistsBijection
<1> QED  BY <1>5 DEF T

\* The targets of a new job are none that run.
LEMMA CreateCounts ==
    ASSUME Inv, Typed, Crowd, NEW r \in Requests, Create(r)
    PROVE  Cardinality(running') = Cardinality(running) + Cardinality(tx[r].body)
<1> DEFINE T == {<<r, Locale(t)>> : t \in tx[r].body}
<1>1. /\ r \notin DOMAIN jobs /\ tx[r].body \in Selections /\ running' = running \cup T
      /\ running \subseteq TargetJobs /\ IsFiniteSet(running)
  BY DEF Inv, KeyInv, Create, In, Typed, TxOK, Selectable, Crowd
<1>2. \A x \in running : \E s \in DOMAIN jobs : x[1] = s
  BY <1>1 DEF TargetJobs
<1>3. running \cap T = {}
  BY <1>1, <1>2
<1>4. IsFiniteSet(T) /\ Cardinality(T) = Cardinality(tx[r].body)
  BY <1>1, NewcomersCount
<1> HIDE DEF T
<1>5. Cardinality(running') = Cardinality(running) + Cardinality(T) - Cardinality(running \cap T)
  BY <1>1, <1>4, FS_Union
<1>6. Cardinality(running \cap T) = 0
  BY <1>3, FS_EmptySet
<1>7. Cardinality(running) \in Nat /\ Cardinality(T) \in Nat
  BY <1>1, <1>4, FS_CardinalityType
<1> QED  BY <1>4, <1>5, <1>6, <1>7

-----------------------------------------------------------------------------
(* The steps of the ledger. *)

\* Its constants, for the selections and sources there are.
LEMMA LedgerPrices ==
    ASSUME NEW m \in Durations, NEW c \in Selections
    PROVE  /\ [n \in Durations |-> [d \in Selections |-> TotalHigh(n, d)]][m][c]
                 = TotalHigh(m, c)
           /\ [d \in Selections |-> Cardinality(d)][c] = Cardinality(c)
OBVIOUS

LEMMA LedgerUnmoved ==
    ASSUME UNCHANGED <<jobs, running, minutes, raced, regained>>, Heard' = Heard
    PROVE  UNCHANGED Ledger!ledger
BY DEF Ledger!ledger, Reserved, Heard

LEMMA BudgetSeen ==
    ASSUME Flags, NEW r \in Requests, ReadBudget(r), UNCHANGED tab
    PROVE  [Ledger!Next]_(Ledger!ledger)
<1>1. UNCHANGED <<jobs, running, minutes, regained>> /\ Reserved' = Reserved
  BY DEF ReadBudget, Reserved
<1>2. raced' = raced \/ raced' = TRUE
  BY DEF ReadBudget, Flags
<1>3. CASE raced' = raced
  BY <1>1, <1>3 DEF Ledger!ledger
<1>4. CASE raced' = TRUE
  BY <1>1, <1>4 DEF Ledger!Overlap, Ledger!Next
<1> QED  BY <1>2, <1>3, <1>4

\* A request that makes its job does so alone, whatever was read before.
LEMMA CreateSeen ==
    ASSUME Inv, Typed, Money, Crowd, Untold, NEW r \in Requests, Create(r)
    PROVE  Ledger!Next /\ Untold'
<1>0. PICK w \in Tabs, c \in Selections : tx[r].key = w /\ tx[r].body = c
  <2>1. tx[r].phase # "none" /\ tx[r].body \in Selectable
    BY DEF Inv, KeyInv, Create, In, TxOK
  <2>2. tx[r].key \in Tabs
    BY <2>1 DEF Inv, KeyInv
  <2>3. tx[r].body \in Selections
    BY <2>1 DEF Typed, Selectable
  <2> QED  BY <2>2, <2>3
<1>1. /\ tx[r].phase = "in quota" /\ r \in Reading /\ r \notin DOMAIN jobs
      /\ minutes \in Durations /\ Held(w) /\ UNCHANGED <<minutes, raced, regained>>
  BY <1>0 DEF Inv, KeyInv, Create, In, Reading, Holds
<1>2. \A s \in DOMAIN jobs : jobs[s].key # w
  BY <1>1 DEF Inv, KeyInv, Held, Known
<1>3. Booked' = [s \in DOMAIN Booked \cup {r} |-> IF s = r
           THEN [key |-> w, targets |-> c, minutes |-> minutes] ELSE Booked[s]]
  <2>1. PICK new : new = [key |-> w, targets |-> c, minutes |-> minutes,
                          reserved |-> HighOf(r)]
    OBVIOUS
  <2>2. jobs' = [s \in DOMAIN jobs \cup {r} |-> IF s = r THEN new ELSE jobs[s]]
    BY <1>0, <2>1 DEF Create
  <2>3. new.key = w /\ new.targets = c /\ new.minutes = minutes
    BY <2>1
  <2>4. /\ DOMAIN jobs' = DOMAIN jobs \cup {r} /\ DOMAIN Booked = DOMAIN jobs
        /\ jobs'[r] = new /\ \A s \in DOMAIN jobs : s # r /\ jobs'[s] = jobs[s]
    BY <1>1, <2>2 DEF Booked
  <2> QED  BY <2>3, <2>4 DEF Booked
<1>4. Reserved' = Reserved + TotalHigh(minutes, c)
  BY <1>0, CreateAdds DEF HighOf
<1>5. Cardinality(running') = Cardinality(running) + Cardinality(c)
  BY <1>0, CreateCounts
<1>6. ~raced => /\ Reserved + TotalHigh(minutes, c) <= Budget
                /\ ~regained => Cardinality(running) + Cardinality(c) <= MaxConcurrent
  BY <1>0, <1>1 DEF Money, Crowd, HighOf
<1>7. Untold' /\ (Heard' = Heard \/ (Heard[w] = None /\ Heard' = [Heard EXCEPT ![w] = r]))
  BY <1>0, HearsOnce DEF Create
<1>8. Ledger!Hears(w, r) \/ Heard' = Heard
  BY <1>7 DEF Ledger!Hears, Heard
<1>9. Ledger!Unused(w) /\ Ledger!Affordable(c)
  <2>1. Ledger!Unused(w)
    BY <1>2 DEF Ledger!Unused
  <2>2. Ledger!Affordable(c)
    BY <1>1, <1>6, LedgerPrices DEF Ledger!Affordable
  <2> QED  BY <2>1, <2>2
<1>10. Ledger!Create(r, w, c)
  BY <1>1, <1>3, <1>4, <1>5, <1>8, <1>9, LedgerPrices DEF Ledger!Create, Booked, Heard
<1> QED  BY <1>7, <1>10 DEF Ledger!Next

LEMMA ReplaySeen ==
    ASSUME Inv, Typed, Untold, NEW r \in Requests, Replay(r)
    PROVE  [Ledger!Next]_(Ledger!ledger) /\ Untold'
<1>1. PICK w \in Tabs : tx[r].key = w /\ Known(w)
  BY DEF Inv, KeyInv, Replay, In
<1>2. PICK j \in Requests : j = keys[w].job /\ j \in DOMAIN jobs /\ jobs[j].key = w
  BY <1>1 DEF Inv, KeyInv
<1>3. tab' = ToldJob(w, r, j) \/ tab' = Told(w, r)
  BY <1>1, <1>2 DEF Replay
<1>4. UNCHANGED <<jobs, running, minutes, raced, regained>> /\ Reserved' = Reserved
  BY DEF Replay, Reserved
<1>5. CASE Heard' = Heard /\ Untold'
  BY <1>4, <1>5, LedgerUnmoved
<1>6. CASE Heard[w] = None /\ Heard' = [Heard EXCEPT ![w] = j] /\ Untold'
  <2>1. Ledger!Hears(w, j)
    BY <1>6 DEF Ledger!Hears, Heard
  <2>2. j \in DOMAIN Booked /\ Booked[j].key = w
    BY <1>2 DEF Booked
  <2>3. Ledger!Tell(j)
    BY <1>4, <2>1, <2>2 DEF Ledger!Tell, Booked
  <2> QED  BY <1>6, <2>3 DEF Ledger!Next
<1> QED  BY <1>3, <1>5, <1>6, HearsOnce, ToldSilent, SilentTells

LEMMA TransactionSeen ==
    ASSUME Inv, Typed, Flags, Money, Crowd, Untold, NEW r \in Requests, Transaction(r)
    PROVE  [Ledger!Next]_(Ledger!ledger) /\ Untold'
<1>1. CASE Create(r)
  BY <1>1, CreateSeen
<1>2. CASE Replay(r)
  BY <1>2, ReplaySeen
<1>3. CASE ReadBudget(r) /\ UNCHANGED tab
  BY <1>3, BudgetSeen DEF Untold
<1>4. CASE \/ Reserve(r) \/ WaitEnds(r) \/ ReadQuota(r)
           \/ ReadBudget(r) /\ ~UNCHANGED tab
  <2>1. UNCHANGED <<jobs, running, minutes, raced, regained>>
    BY <1>4 DEF Reserve, WaitEnds, ReadQuota, ReadBudget
  <2>2. tx[r].phase # "none" /\ (UNCHANGED tab \/ tab' = Told(tx[r].key, r))
    BY <1>4 DEF Reserve, WaitEnds, ReadQuota, ReadBudget, Refused, In
  <2>3. Silent
    BY <2>2, ToldSilent, OwnRequest DEF Silent
  <2> QED  BY <2>1, <2>3, SilentTells, LedgerUnmoved
<1> QED  BY <1>1, <1>2, <1>3, <1>4 DEF Transaction

LEMMA LedgerNext ==
    ASSUME Inv, Typed, Flags, Money, Crowd, Untold, [Next]_vars
    PROVE  [Ledger!Next]_(Ledger!ledger) /\ Untold'
<1>1. ASSUME NEW w \in Tabs, Wizard(w)
      PROVE  [Ledger!Next]_(Ledger!ledger) /\ Untold'
  <2>1. UNCHANGED <<jobs, running, minutes, raced, regained>>
    BY <1>1 DEF Wizard, Choose, Continue, EstimateArrives, EstimateFails, AcceptBeta,
                ToSubmit, Back, StepperSelect, LeaveFor, Submit, AnswerLost, OnlyTabs
  <2> QED  BY <1>1, <2>1, WizardSilent, SilentTells, LedgerUnmoved
<1>2. ASSUME NEW r \in Requests, Transaction(r)
      PROVE  [Ledger!Next]_(Ledger!ledger) /\ Untold'
  BY <1>2, TransactionSeen
<1>3. ASSUME NEW t, TargetRests(t) \/ TargetReturns(t)
      PROVE  [Ledger!Next]_(Ledger!ledger) /\ Untold'
  <2>1. UNCHANGED <<tab, jobs, minutes, raced>> /\ Reserved' = Reserved
    BY <1>3 DEF TargetRests, TargetReturns, Reserved
  <2>2. IsFiniteSet(running) /\ Cardinality(running) \in Nat
    BY FS_CardinalityType DEF Crowd
  <2>3. CASE TargetRests(t)
    <3>1. t \in running /\ running' = running \ {t} /\ UNCHANGED regained
      BY <2>3 DEF TargetRests
    <3>2. Cardinality(running') = Cardinality(running) - 1 /\ Cardinality(running) > 0
      BY <2>2, <3>1, FS_RemoveElement, FS_EmptySet
    <3>3. Ledger!Rest
      BY <2>1, <3>1, <3>2 DEF Ledger!Rest
    <3> QED  BY <2>1, <3>3 DEF Ledger!Next, Untold
  <2>4. CASE TargetReturns(t)
    <3>1. t \notin running /\ running' = running \cup {t} /\ regained' = TRUE
      BY <2>4 DEF TargetReturns
    <3>2. Cardinality(running') = Cardinality(running) + 1
      BY <2>2, <3>1, FS_AddElement
    <3>3. Ledger!Return
      BY <2>1, <3>1, <3>2 DEF Ledger!Return
    <3> QED  BY <2>1, <3>3 DEF Ledger!Next, Untold
  <2> QED  BY <1>3, <2>3, <2>4
<1>4. ASSUME NEW m \in Durations, SourceReplaced(m)
      PROVE  [Ledger!Next]_(Ledger!ledger) /\ Untold'
  <2>1. /\ UNCHANGED <<tab, jobs, running, raced, regained>> /\ Reserved' = Reserved
        /\ minutes' \in Durations
    BY <1>4 DEF SourceReplaced, Reserved
  <2>2. Ledger!Replace
    BY <2>1 DEF Ledger!Replace
  <2> QED  BY <2>1, <2>2 DEF Ledger!Next, Untold
<1>5. CASE UNCHANGED vars
  BY <1>5, SilentTells, LedgerUnmoved DEF vars, Silent
<1> QED  BY <1>1, <1>2, <1>3, <1>4, <1>5 DEF Next

LEMMA LedgerInit == Init => Ledger!Init /\ Untold
<1> SUFFICES ASSUME Init  PROVE Ledger!Init /\ Untold
  OBVIOUS
<1>1. \A w \in Tabs : tab[w].job = None
  BY DEF Init
<1>2. DOMAIN jobs = {} /\ minutes \in Durations /\ raced = FALSE /\ regained = FALSE
  BY DEF Init
<1>3. Reserved = 0
  <2>1. [r \in DOMAIN jobs |-> jobs[r].reserved] \in [{} -> Nat]
    BY <1>2
  <2> QED  BY <2>1, SumOfNothing DEF Reserved
<1>4. Cardinality(running) = 0
  BY FS_EmptySet DEF Init
<1>5. Ledger!Init
  BY <1>1, <1>2, <1>3, <1>4 DEF Ledger!Init
<1> QED  BY <1>1, <1>5 DEF Untold

\* However many wizards and requests there are, and however their queries
\* interleave: jobs are made one at a time, each under a key of its own and
\* from what the rows add up to, and a wizard is told of the job of its key.
THEOREM CreationIsSerial == Spec => ImplementsLedger
<1> DEFINE All == Inv /\ Typed /\ Flags /\ Money /\ Crowd /\ Untold
<1>1. Init => All /\ Ledger!Init
  BY InitInv, TypedInit, LimitsInit, LedgerInit DEF Init, Flags
<1>2. All /\ [Next]_vars => All' /\ [Ledger!Next]_(Ledger!ledger)
  BY InvNext, TypedNext, FlagsNext, LimitsNext, LedgerNext
<1> QED  BY <1>1, <1>2, PTL DEF Spec, ImplementsLedger, Ledger!Spec

-----------------------------------------------------------------------------
(* The estimate (packages/domain/src/estimate.ts), for any registry.       *)

\* A sum of fewer and smaller terms is smaller.
LEMMA SumMonotone ==
    ASSUME NEW E, IsFiniteSet(E), NEW h \in [E -> Nat],
           NEW D \in SUBSET E, NEW f \in [D -> Nat], \A x \in D : f[x] <= h[x]
    PROVE  SumFunction(f) <= SumFunction(h)
<1>0. IsFiniteSet(D)
  BY FS_Subset
<1>1. PICK g : Sums(f, D, g) /\ SumFunction(f) = g[D]
  BY <1>0, SumIs
<1>2. PICK k : Sums(h, E, k) /\ SumFunction(h) = k[E]
  BY SumIs
<1>5. /\ g[{}] = 0
      /\ \A s \in SUBSET D : g[s] \in Nat
      /\ \A s \in SUBSET D : \A y \in s : g[s] = f[y] + g[s \ {y}]
  BY <1>0, <1>1, RunningSum
<1>6. /\ k[{}] = 0
      /\ \A s \in SUBSET E : k[s] \in Nat
      /\ \A s \in SUBSET E : \A y \in s : k[s] = h[y] + k[s \ {y}]
  <2>1. IsFiniteSet(E) /\ h \in [E -> Nat] /\ Sums(h, E, k)
    BY <1>2
  <2> QED  BY ONLY <2>1, RunningSum
<1> DEFINE bad == {s \in SUBSET E : ~(g[s \cap D] <= k[s])}
<1>3. bad = {}
  <2> SUFFICES ASSUME bad # {}  PROVE FALSE
    OBVIOUS
  <2>1. PICK s \in bad : \A x \in s : s \ {x} \notin bad
    <3>1. bad \in SUBSET (SUBSET E)
      OBVIOUS
    <3> QED  BY <3>1, Smallest
  <2>2. s \in SUBSET E /\ ~(g[s \cap D] <= k[s]) /\ s \cap D \in SUBSET D
    BY <2>1
  <2>3. s # {}
    <3>1. {} \cap D = {}
      OBVIOUS
    <3>2. CASE s = {}
      <4>1. g[s \cap D] = 0 /\ k[s] = 0
        BY <1>5, <1>6, <3>1, <3>2
      <4> QED  BY <2>2, <4>1
    <3> QED  BY <3>2
  <2>4. PICK x \in s : TRUE
    BY <2>3
  <2>5. s \ {x} \in SUBSET E /\ g[(s \ {x}) \cap D] <= k[s \ {x}]
    BY <2>1, <2>2, <2>4
  <2>6. k[s] = h[x] + k[s \ {x}] /\ h[x] \in Nat /\ k[s \ {x}] \in Nat
    BY <1>6, <2>2, <2>4, <2>5
  <2>7. CASE x \in D
    <3>1. x \in s \cap D /\ (s \cap D) \ {x} = (s \ {x}) \cap D
          /\ (s \ {x}) \cap D \in SUBSET D
      BY <2>4, <2>7
    <3>2. /\ g[s \cap D] = f[x] + g[(s \ {x}) \cap D]
          /\ g[(s \ {x}) \cap D] \in Nat
      BY <1>5, <2>2, <3>1
    <3>3. f[x] \in Nat /\ f[x] <= h[x]
      BY <2>7
    <3> QED  BY <2>2, <2>5, <2>6, <3>2, <3>3
  <2>8. CASE x \notin D
    <3>1. s \cap D = (s \ {x}) \cap D /\ (s \ {x}) \cap D \in SUBSET D
      BY <2>8
    <3>2. g[(s \ {x}) \cap D] \in Nat
      BY <1>5, <3>1
    <3>3. g[s \cap D] = g[(s \ {x}) \cap D]
      BY <3>1
    <3>4. g[s \cap D] <= k[s]
      BY ONLY <2>5, <2>6, <3>2, <3>3
    <3> QED  BY <2>2, <3>4
  <2> QED  BY <2>7, <2>8
<1>4. E \in SUBSET E /\ E \cap D = D
  OBVIOUS
<1> QED  BY <1>1, <1>2, <1>3, <1>4

\* What one target costs grows with the source, and the low bound is below
\* the high one.
LEMMA LowGrows ==
    ASSUME NEW m \in Nat, NEW n \in Nat, m <= n, NEW t
    PROVE  LowCents(m, t) \in Nat /\ LowCents(n, t) \in Nat
           /\ LowCents(m, t) <= LowCents(n, t)
<1>1. PICK rate \in {13, 53} :
        LowCents(m, t) = m * rate /\ LowCents(n, t) = n * rate
  <2>1. PICK rate : rate = 3 + 8 + 1 + 1 + IF LipSync(t) THEN 40 ELSE 0
    OBVIOUS
  <2>2. LowCents(m, t) = m * rate /\ LowCents(n, t) = n * rate
    BY <2>1 DEF LowCents, PerMinuteCents
  <2> QED  BY <2>1, <2>2
<1> QED  BY <1>1

LEMMA Uncertain ==
    ASSUME NEW b \in Nat, NEW c \in Nat, b <= c, NEW tier
    PROVE  /\ b <= WithUncertainty(b, tier)
           /\ WithUncertainty(b, tier) <= WithUncertainty(c, tier)
<1>1. /\ b <= (b * 115 + 100 - 1) \div 100 /\ b <= (b * 3 + 2 - 1) \div 2
      /\ (b * 115 + 100 - 1) \div 100 <= (c * 115 + 100 - 1) \div 100
      /\ (b * 3 + 2 - 1) \div 2 <= (c * 3 + 2 - 1) \div 2
  OBVIOUS
<1> QED  BY <1>1 DEF WithUncertainty, CeilDiv

LEMMA SourceGrows ==
    ASSUME NEW m \in Nat, NEW n \in Nat, m <= n
    PROVE  SourceCents(m) \in Nat /\ SourceCents(n) \in Nat
           /\ SourceCents(m) <= SourceCents(n)
<1>1. SourceCents(m) = m * 3 /\ SourceCents(n) = n * 3
  BY DEF SourceCents, PerMinuteCents
<1> QED  BY <1>1

\* The two bounds of an estimate never cross: what is reserved for a job, its
\* high bound, covers what the same estimate showed as the least.
THEOREM BoundsInOrder ==
    ASSUME NEW m \in Nat, NEW c, IsFiniteSet(c)
    PROVE  TotalLow(m, c) <= TotalHigh(m, c)
<1> DEFINE low == [t \in c |-> LowCents(m, t)]
           high == [t \in c |-> HighCents(m, t)]
<1>1. low \in [c -> Nat] /\ high \in [c -> Nat]
  BY LowGrows, PriceType
<1>2. \A t \in c : low[t] <= high[t]
  BY LowGrows, Uncertain DEF HighCents
<1>3. TotalLow(m, c) = SourceCents(m) + SumFunction(low)
      /\ TotalHigh(m, c) = SourceCents(m) + SumFunction(high)
  BY DEF TotalLow, TotalHigh
<1> HIDE DEF low, high
<1>4. SumFunction(low) <= SumFunction(high)
  BY <1>1, <1>2, SumMonotone
<1>5. SumFunction(low) \in Nat /\ SumFunction(high) \in Nat
  BY <1>1, SumType
<1> QED  BY <1>3, <1>4, <1>5, SourceGrows

\* A longer source and more targets never cost less: a selection that was
\* refused for the budget is not accepted by adding a target to it.
THEOREM EstimateGrows ==
    ASSUME NEW m \in Nat, NEW n \in Nat, m <= n,
           NEW d, IsFiniteSet(d), NEW c \in SUBSET d
    PROVE  TotalHigh(m, c) <= TotalHigh(n, d)
<1> DEFINE f == [t \in c |-> HighCents(m, t)]
           h == [t \in d |-> HighCents(n, t)]
<1>1. f \in [c -> Nat] /\ h \in [d -> Nat] /\ IsFiniteSet(c)
  BY PriceType, FS_Subset
<1>2. \A t \in c : f[t] <= h[t]
  BY LowGrows, Uncertain DEF HighCents
<1>3. TotalHigh(m, c) = SourceCents(m) + SumFunction(f)
      /\ TotalHigh(n, d) = SourceCents(n) + SumFunction(h)
  BY DEF TotalHigh
<1> HIDE DEF f, h
<1>4. SumFunction(f) <= SumFunction(h)
  BY <1>1, <1>2, SumMonotone
<1>5. SumFunction(f) \in Nat /\ SumFunction(h) \in Nat
  BY <1>1, SumType
<1> QED  BY <1>3, <1>4, <1>5, SourceGrows
==============================================================================
