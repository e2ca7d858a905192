----------------------- MODULE SemanticAuthorityProofs -----------------------
(***************************************************************************)
(* Whose decision on the customer value counts, for any number of commands *)
(* and any sources and answers.  First the context of a decision: what     *)
(* counts as relevant is exactly what calls lead to, and a bundle with no  *)
(* omission presents all of it.  Then the decision: what an edit of        *)
(* stateguard.yaml replaces is what it compared, and what is decided,      *)
(* wherever it is on its way, is the merchant's or was decided by a model  *)
(* that was shown everything.                                              *)
(*                                                                         *)
(* Within and View are functions that recur on a number.  That a function  *)
(* with these equations exists is shown by taking the set of the numbers   *)
(* up to which there is one: 0 is in it, and every successor.              *)
(***************************************************************************)
EXTENDS SemanticAuthority, TLAPS, WellFoundedInduction, FiniteSetTheorems

LEMMA LeastNatural ==
  ASSUME NEW T \in SUBSET Nat, T # {}
  PROVE  \E n \in T : \A m \in T : n <= m
<1> DEFINE R == {ss \in Nat \X Nat : ss[1] < ss[2]}
<1>1. R = OpToRel(<, Nat)
  BY DEF OpToRel
<1>2. IsWellFoundedOn(R, Nat)
  BY <1>1, NatLessThanWellFounded
<1> HIDE DEF R
<1>3. PICK n \in T : \A m \in T : ~(<<m, n>> \in R)
  BY <1>2, WFMin
<1>4. \A m \in T : m \in Nat /\ n \in Nat /\ ~(m < n)
  BY <1>3 DEF R
<1> QED
  BY <1>4

LEMMA InductionUpTo ==
  ASSUME NEW bound \in Nat, NEW G, 0 \in G, \A n \in 0 .. bound - 1 : n \in G => n + 1 \in G
  PROVE  0 .. bound \subseteq G
<1> SUFFICES ASSUME 0 .. bound \ G # {} PROVE FALSE
  OBVIOUS
<1>1. PICK n \in 0 .. bound \ G : \A m \in 0 .. bound \ G : n <= m
  <2>1. 0 .. bound \ G \in SUBSET Nat
    OBVIOUS
  <2> QED
    BY <2>1, LeastNatural
<1>2. n - 1 \in 0 .. bound - 1 /\ n - 1 \in G
  BY <1>1
<1> QED
  BY <1>1, <1>2

LEMMA WithinUnfolds ==
  ASSUME NEW start, NEW arcs, NEW bound \in Nat
  PROVE  LET within == Within(start, arcs, bound)
         IN  /\ DOMAIN within = 0 .. bound
             /\ within[0] = start
             /\ \A n \in 1 .. bound : within[n] = within[n - 1] \cup Successors(arcs, within[n - 1])
<1> DEFINE Next(x) == x \cup Successors(arcs, x)
           Unfolded(g, m) == g = [n \in 0 .. m |-> IF n = 0 THEN start ELSE Next(g[n - 1])]
           G == {m \in Nat : \E g : Unfolded(g, m)}
<1>1. Within(start, arcs, bound) = CHOOSE g : Unfolded(g, bound)
  BY DEF Within
<1> HIDE DEF Next
<1>2. 0 \in G
  <2>1. Unfolded([n \in 0 .. 0 |-> start], 0)
    OBVIOUS
  <2> QED
    BY <2>1
<1>3. ASSUME NEW m \in Nat, m \in G PROVE m + 1 \in G
  <2>1. PICK g : Unfolded(g, m)
    BY <1>3
  <2>2. g[0] = start /\ \A n \in 1 .. m : g[n] = Next(g[n - 1])
    BY <2>1
  <2> DEFINE h == [n \in 0 .. m + 1 |-> IF n <= m THEN g[n] ELSE Next(g[m])]
  <2>3. h[0] = start /\ h = [n \in 0 .. m + 1 |-> h[n]]
    BY <2>2
  <2>4. ASSUME NEW n \in 1 .. m + 1
        PROVE  h[n] = Next(h[n - 1])
    BY <2>2
  <2> HIDE DEF h
  <2>5. \A n \in 0 .. m + 1 : h[n] = IF n = 0 THEN start ELSE Next(h[n - 1])
    <3> SUFFICES ASSUME NEW n \in 0 .. m + 1
                 PROVE  h[n] = IF n = 0 THEN start ELSE Next(h[n - 1])
      OBVIOUS
    <3>1. n = 0 \/ n \in 1 .. m + 1
      OBVIOUS
    <3> QED
      BY <2>3, <2>4, <3>1
  <2>6. Unfolded(h, m + 1)
    BY <2>3, <2>5
  <2> QED
    BY <2>6
<1>4. bound \in G
  <2> HIDE DEF G
  <2>1. 0 .. bound \subseteq G
    BY <1>2, <1>3, InductionUpTo
  <2> QED
    BY <2>1
<1>5. Unfolded(Within(start, arcs, bound), bound)
  BY <1>1, <1>4
<1> DEFINE w == Within(start, arcs, bound)
<1> HIDE DEF w
<1>6. w = [n \in 0 .. bound |-> IF n = 0 THEN start ELSE Next(w[n - 1])]
  BY <1>5 DEF w
<1>7. DOMAIN w = 0 .. bound /\ w[0] = start /\ \A n \in 1 .. bound : w[n] = Next(w[n - 1])
  BY <1>6
<1> QED
  BY <1>7 DEF w, Next

(* What is reached in a number of steps is reached in more.                 *)
LEMMA WithinGrows ==
  ASSUME NEW start, NEW arcs, NEW bound \in Nat
  PROVE  \A m \in 0 .. bound : \A n \in 0 .. m :
           Within(start, arcs, bound)[n] \subseteq Within(start, arcs, bound)[m]
<1> DEFINE w == Within(start, arcs, bound)
           G == {m \in Nat : \A n \in 0 .. m : w[n] \subseteq w[m]}
<1>1. \A m \in 1 .. bound : w[m - 1] \subseteq w[m]
  BY WithinUnfolds
<1> HIDE DEF w
<1>2. 0 \in G
  OBVIOUS
<1>3. ASSUME NEW m \in 0 .. bound - 1, m \in G PROVE m + 1 \in G
  <2>1. w[m] \subseteq w[m + 1]
    <3>1. m + 1 \in 1 .. bound /\ (m + 1) - 1 = m
      OBVIOUS
    <3> QED
      BY <1>1, <3>1
  <2>2. \A n \in 0 .. m : w[n] \subseteq w[m + 1]
    BY <1>3, <2>1
  <2>3. \A n \in 0 .. m + 1 : n \in 0 .. m \/ n = m + 1
    OBVIOUS
  <2> QED
    BY <2>2, <2>3
<1> HIDE DEF G
<1>4. 0 .. bound \subseteq G
  BY <1>2, <1>3, InductionUpTo
<1> QED
  BY <1>4 DEF G, w

Closed(arcs, xs) == \A a \in arcs : a[1] \in xs => a[2] \in xs

LEMMA WithinStays ==
  ASSUME NEW start, NEW arcs, NEW bound \in Nat, NEW xs, start \subseteq xs, Closed(arcs, xs)
  PROVE  \A n \in 0 .. bound : Within(start, arcs, bound)[n] \subseteq xs
<1> DEFINE w == Within(start, arcs, bound)
           G == {n \in Nat : w[n] \subseteq xs}
<1>1. w[0] = start /\ \A n \in 1 .. bound : w[n] = w[n - 1] \cup Successors(arcs, w[n - 1])
  BY WithinUnfolds
<1> HIDE DEF w
<1>2. 0 \in G
  BY <1>1
<1>3. ASSUME NEW n \in 0 .. bound - 1, n \in G PROVE n + 1 \in G
  <2>1. n + 1 \in 1 .. bound /\ (n + 1) - 1 = n
    OBVIOUS
  <2>2. w[n + 1] = w[n] \cup Successors(arcs, w[n])
    BY <1>1, <2>1
  <2>3. Successors(arcs, w[n]) \subseteq xs
    BY <1>3 DEF Successors, Closed
  <2> QED
    BY <1>3, <2>2, <2>3
<1> HIDE DEF G
<1>4. 0 .. bound \subseteq G
  BY <1>2, <1>3, InductionUpTo
<1> QED
  BY <1>4 DEF G, w

(* A step adds something or nothing is left to add: as many steps as there  *)
(* are elements are enough.                                                 *)
LEMMA WithinSaturates ==
  ASSUME NEW all, IsFiniteSet(all), NEW start \in SUBSET all, NEW arcs, Closed(arcs, all),
         NEW bound \in Nat, Cardinality(all) <= bound
  PROVE  Closed(arcs, Within(start, arcs, bound)[bound])
<1> DEFINE w == Within(start, arcs, bound)
           G == {n \in Nat : Closed(arcs, w[n]) \/ Cardinality(w[n]) >= n}
<1>1. \A n \in 1 .. bound : w[n] = w[n - 1] \cup Successors(arcs, w[n - 1])
  BY WithinUnfolds
<1>2. \A n \in 0 .. bound : w[n] \subseteq all
  BY WithinStays
<1> HIDE DEF w
<1>3. \A n \in 0 .. bound : IsFiniteSet(w[n]) /\ Cardinality(w[n]) \in Nat
  BY <1>2, FS_Subset, FS_CardinalityType
<1>4. 0 \in G
  BY <1>3
<1>5. ASSUME NEW n \in 0 .. bound - 1, n \in G PROVE n + 1 \in G
  <2>1. n + 1 \in 1 .. bound /\ (n + 1) - 1 = n /\ n \in 0 .. bound /\ n + 1 \in 0 .. bound
    OBVIOUS
  <2>2. w[n + 1] = w[n] \cup Successors(arcs, w[n])
    BY <1>1, <2>1
  <2>3. CASE Closed(arcs, w[n])
    <3>1. Successors(arcs, w[n]) \subseteq w[n]
      BY <2>3 DEF Closed, Successors
    <3>2. w[n + 1] = w[n]
      BY <2>2, <3>1
    <3> QED
      BY <2>3, <3>2
  <2>4. CASE ~Closed(arcs, w[n])
    <3>1. PICK x \in Successors(arcs, w[n]) : x \notin w[n]
      BY <2>4 DEF Closed, Successors
    <3>2. w[n] \subseteq w[n + 1] \ {x} /\ x \in w[n + 1]
      BY <2>2, <3>1
    <3>3. IsFiniteSet(w[n + 1] \ {x}) /\ Cardinality(w[n + 1] \ {x}) = Cardinality(w[n + 1]) - 1
      BY <1>3, <2>1, <3>2, FS_RemoveElement
    <3>4. Cardinality(w[n]) <= Cardinality(w[n + 1] \ {x})
      BY <3>2, <3>3, FS_Subset
    <3>5. Cardinality(w[n]) >= n /\ Cardinality(w[n]) \in Nat /\ Cardinality(w[n + 1]) \in Nat
      BY <1>3, <1>5, <2>1, <2>4
    <3> QED
      BY <3>3, <3>4, <3>5
  <2> QED
    BY <2>3, <2>4
<1> HIDE DEF G
<1>6. 0 .. bound \subseteq G
  BY <1>4, <1>5, InductionUpTo
<1>7. bound \in G
  BY <1>6
<1>8. ASSUME Cardinality(w[bound]) >= bound PROVE w[bound] = all
  <2>1. w[bound] \in SUBSET all
    BY <1>2
  <2>2. Cardinality(w[bound]) <= Cardinality(all) /\ Cardinality(all) \in Nat
    BY <2>1, FS_Subset, FS_CardinalityType
  <2>3. Cardinality(w[bound]) = Cardinality(all)
    BY <1>3, <1>8, <2>2
  <2> QED
    BY <2>1, <2>3, FS_Subset
<1> QED
  BY <1>7, <1>8 DEF G, w
-----------------------------------------------------------------------------
LEMMA CallableIsFinite ==
  ASSUME NEW src, SourceValid(src)
  PROVE  /\ IsFiniteSet(src.callable) /\ Cardinality(src.symbols) \in Nat
         /\ Cardinality(src.callable) <= Cardinality(src.symbols)
         /\ src.callable \subseteq Nat \ {0}
BY FS_Subset, FS_CardinalityType DEF SourceValid

(* What is relevant is the least set of callables that has the ingress and  *)
(* is closed under calls.                                                   *)
LEMMA RelevantIsLeast ==
  ASSUME NEW src, SourceValid(src)
  PROVE  /\ Relevant(src) \subseteq src.callable /\ src.ingress \subseteq Relevant(src)
         /\ Closed(Callees(src), Relevant(src))
         /\ \A xs : src.ingress \subseteq xs /\ Closed(Callees(src), xs) => Relevant(src) \subseteq xs
<1> DEFINE n == Cardinality(src.symbols)
           start == src.ingress \cap src.callable
<1>1. n \in Nat /\ n \in 0 .. n /\ 0 \in 0 .. n
  BY CallableIsFinite
<1>2. start = src.ingress /\ start \in SUBSET src.callable
  BY DEF SourceValid
<1>3. Closed(Callees(src), src.callable)
  BY DEF Closed, Callees
<1>4. Relevant(src) = Within(start, Callees(src), n)[n]
  BY DEF Relevant, WithinCalls
<1> HIDE DEF n, start
<1>5. Relevant(src) \subseteq src.callable
  BY <1>1, <1>2, <1>3, <1>4, WithinStays
<1>6. start \subseteq Relevant(src)
  <2>1. Within(start, Callees(src), n)[0] = start
    BY <1>1, WithinUnfolds
  <2> QED
    BY <1>1, <1>4, <2>1, WithinGrows
<1>7. Closed(Callees(src), Relevant(src))
  <2>1. Cardinality(src.callable) <= n
    BY CallableIsFinite DEF n
  <2> QED
    BY <1>1, <1>2, <1>3, <1>4, <2>1, WithinSaturates, CallableIsFinite
<1>8. ASSUME NEW xs, src.ingress \subseteq xs, Closed(Callees(src), xs)
      PROVE  Relevant(src) \subseteq xs
  BY <1>1, <1>2, <1>4, <1>8, WithinStays
<1> QED
  BY <1>2, <1>5, <1>6, <1>7, <1>8

LEMMA AroundIsLeast ==
  ASSUME NEW src, SourceValid(src), NEW x \in src.callable
  PROVE  /\ Around(src, x) \subseteq src.callable /\ x \in Around(src, x)
         /\ Closed(Peers(src), Around(src, x))
         /\ \A xs : x \in xs /\ Closed(Peers(src), xs) => Around(src, x) \subseteq xs
<1> DEFINE n == Cardinality(src.symbols)
<1>1. n \in Nat /\ n \in 0 .. n /\ 0 \in 0 .. n
  BY CallableIsFinite
<1>2. {x} \in SUBSET src.callable
  OBVIOUS
<1>3. Closed(Peers(src), src.callable)
  BY DEF Closed, Peers, Callees
<1>4. Around(src, x) = Within({x}, Peers(src), n)[n]
  BY DEF Around
<1> HIDE DEF n
<1>5. Around(src, x) \subseteq src.callable
  BY <1>1, <1>2, <1>3, <1>4, WithinStays
<1>6. x \in Around(src, x)
  <2>1. Within({x}, Peers(src), n)[0] = {x}
    BY <1>1, WithinUnfolds
  <2> QED
    BY <1>1, <1>4, <2>1, WithinGrows
<1>7. Closed(Peers(src), Around(src, x))
  <2>1. Cardinality(src.callable) <= n
    BY CallableIsFinite DEF n
  <2> QED
    BY <1>1, <1>2, <1>3, <1>4, <2>1, WithinSaturates, CallableIsFinite
<1>8. ASSUME NEW xs, x \in xs, Closed(Peers(src), xs)
      PROVE  Around(src, x) \subseteq xs
  <2>1. {x} \subseteq xs
    BY <1>8
  <2> QED
    BY <1>1, <1>4, <1>8, <2>1, WithinStays
<1> QED
  BY <1>5, <1>6, <1>7, <1>8
-----------------------------------------------------------------------------
(* The order of the excerpts is a strict total order on numbers.            *)
LEMMA NearerIsAnOrder ==
  ASSUME NEW src, SourceValid(src)
  PROVE  /\ \A x \in Nat : ~Nearer(src, x, x)
         /\ \A x, y \in Nat : x # y => Nearer(src, x, y) \/ Nearer(src, y, x)
         /\ \A x, y, z \in Nat : Nearer(src, x, y) /\ Nearer(src, y, z) => Nearer(src, x, z)
<1> DEFINE w == WithinCalls(src)
           Sooner(x, y) == \E n \in DOMAIN w : x \in w[n] /\ y \notin w[n]
           Level(x, y) == \A n \in DOMAIN w : x \in w[n] <=> y \in w[n]
<1>1. \A x, y : Nearer(src, x, y) <=> Sooner(x, y) \/ (x < y /\ Level(x, y))
  BY DEF Nearer
<1>2. DOMAIN w \subseteq Nat /\ \A m, n \in DOMAIN w : n <= m => w[n] \subseteq w[m]
  <2>1. Cardinality(src.symbols) \in Nat
    BY CallableIsFinite
  <2>2. DOMAIN w = 0 .. Cardinality(src.symbols)
    BY <2>1, WithinUnfolds DEF WithinCalls
  <2>3. \A m \in 0 .. Cardinality(src.symbols) : \A n \in 0 .. m : w[n] \subseteq w[m]
    BY <2>1, WithinGrows DEF WithinCalls
  <2> HIDE DEF w
  <2> QED
    BY <2>1, <2>2, <2>3
<1> HIDE DEF w
<1>3. \A x \in Nat : ~Nearer(src, x, x)
  BY <1>1
<1>4. ASSUME NEW x \in Nat, NEW y \in Nat, x # y PROVE Nearer(src, x, y) \/ Nearer(src, y, x)
  BY <1>1, <1>4
<1>5. ASSUME NEW x \in Nat, NEW y \in Nat, NEW z \in Nat, Nearer(src, x, y), Nearer(src, y, z)
      PROVE  Nearer(src, x, z)
  <2>1. CASE Sooner(x, y) /\ Sooner(y, z)
    <3>1. PICK n \in DOMAIN w : x \in w[n] /\ y \notin w[n]
      BY <2>1
    <3>2. PICK m \in DOMAIN w : y \in w[m] /\ z \notin w[m]
      BY <2>1
    <3>3. ~(m <= n)
      BY <1>2, <3>1, <3>2
    <3>4. n <= m
      BY <1>2, <3>3
    <3> QED
      BY <1>1, <1>2, <3>1, <3>2, <3>4
  <2>2. CASE Sooner(x, y) /\ Level(y, z)
    BY <1>1, <2>2
  <2>3. CASE Level(x, y) /\ Sooner(y, z)
    BY <1>1, <2>3
  <2>4. CASE x < y /\ Level(x, y) /\ y < z /\ Level(y, z)
    BY <1>1, <2>4
  <2> QED
    BY <1>1, <1>5, <2>1, <2>2, <2>3, <2>4
<1> QED
  BY <1>3, <1>4, <1>5

LEMMA BeforeIsAnOrder ==
  ASSUME NEW src, SourceValid(src)
  PROVE  /\ \A x \in Nat : ~Before(src, x, x)
         /\ \A x, y \in Nat : x # y => Before(src, x, y) \/ Before(src, y, x)
         /\ \A x, y, z \in Nat : Before(src, x, y) /\ Before(src, y, z) => Before(src, x, z)
BY NearerIsAnOrder DEF Before

(* Every element has its own place, and every place its element.            *)
LEMMA InOrderEnumerates ==
  ASSUME NEW src, SourceValid(src), NEW xs \in SUBSET src.callable
  PROVE  /\ InOrder(src, xs) \in Seq(xs)
         /\ \A x \in xs : \E i \in 1 .. Len(InOrder(src, xs)) : InOrder(src, xs)[i] = x
<1> DEFINE n == Cardinality(xs)
           Earlier(x) == {y \in xs : Before(src, y, x)}
           rank == [x \in xs |-> Cardinality(Earlier(x))]
           places == 0 .. n - 1
<1>1. IsFiniteSet(xs) /\ n \in Nat /\ xs \subseteq Nat
  BY CallableIsFinite, FS_Subset, FS_CardinalityType
<1>2. ASSUME NEW x \in xs
      PROVE  IsFiniteSet(Earlier(x)) /\ Cardinality(Earlier(x)) \in Nat /\ rank[x] \in places
  <2>1. Earlier(x) \in SUBSET (xs \ {x})
    BY <1>1, BeforeIsAnOrder
  <2>2. IsFiniteSet(xs \ {x}) /\ Cardinality(xs \ {x}) = n - 1
    BY <1>1, FS_RemoveElement
  <2>3. IsFiniteSet(Earlier(x)) /\ Cardinality(Earlier(x)) <= n - 1 /\ Cardinality(Earlier(x)) \in Nat
    <3> HIDE DEF Earlier, n
    <3> QED
      BY <2>1, <2>2, FS_Subset, FS_CardinalityType
  <2>4. rank[x] = Cardinality(Earlier(x))
    OBVIOUS
  <2> HIDE DEF Earlier, rank, n
  <2> QED
    BY <1>1, <2>3, <2>4
<1>3. ASSUME NEW x \in xs, NEW y \in xs, Before(src, x, y) PROVE rank[x] < rank[y]
  <2>1. x \in Nat /\ y \in Nat
    BY <1>1
  <2>2. x \in Earlier(y) /\ x \notin Earlier(x)
    BY <1>3, <2>1, BeforeIsAnOrder
  <2>3. Earlier(x) \subseteq Earlier(y)
    BY <1>1, <1>3, BeforeIsAnOrder
  <2>4. rank[x] = Cardinality(Earlier(x)) /\ rank[y] = Cardinality(Earlier(y))
    OBVIOUS
  <2>5. IsFiniteSet(Earlier(y)) /\ Cardinality(Earlier(x)) \in Nat /\ Cardinality(Earlier(y)) \in Nat
    BY <1>2
  <2> HIDE DEF Earlier, rank
  <2>6. IsFiniteSet(Earlier(y) \ {x}) /\ Cardinality(Earlier(y) \ {x}) = Cardinality(Earlier(y)) - 1
    BY <2>2, <2>5, FS_RemoveElement
  <2>7. Cardinality(Earlier(x)) <= Cardinality(Earlier(y) \ {x})
    BY <2>2, <2>3, <2>6, FS_Subset
  <2> QED
    BY <2>4, <2>5, <2>6, <2>7
<1>4. \A x \in xs : rank[x] \in places
  BY <1>2
<1>5. rank = [x \in xs |-> rank[x]]
  OBVIOUS
<1>6. \A x \in xs : rank[x] = Cardinality(Earlier(x))
  OBVIOUS
<1>7. InOrder(src, xs) = [i \in 1 .. n |-> CHOOSE x \in xs : Cardinality(Earlier(x)) = i - 1]
  BY DEF InOrder
<1> HIDE DEF rank, n, Earlier
<1>8. rank \in Injection(xs, places)
  <2>1. \A x, y \in xs : x # y => rank[x] # rank[y]
    <3> SUFFICES ASSUME NEW x \in xs, NEW y \in xs, x # y PROVE rank[x] # rank[y]
      OBVIOUS
    <3>1. Before(src, x, y) \/ Before(src, y, x)
      BY <1>1, BeforeIsAnOrder
    <3>2. rank[x] < rank[y] \/ rank[y] < rank[x]
      BY <1>3, <3>1
    <3>3. rank[x] \in Nat /\ rank[y] \in Nat
      BY <1>1, <1>4
    <3> QED
      BY <3>2, <3>3
  <2> QED
    BY <1>4, <1>5, <2>1 DEF Injection, IsInjective
<1>9. rank \in Surjection(xs, places)
  <2>1. IsFiniteSet(places) /\ Cardinality(places) = n
    BY <1>1, FS_Interval
  <2> HIDE DEF places
  <2> QED
    BY <1>8, <2>1, FS_Injection DEF n
<1>10. ASSUME NEW i \in 1 .. n PROVE \E x \in xs : rank[x] = i - 1
  BY <1>1, <1>9 DEF Surjection
<1>11. ASSUME NEW i \in 1 .. n
       PROVE  InOrder(src, xs)[i] \in xs /\ rank[InOrder(src, xs)[i]] = i - 1
  <2>1. InOrder(src, xs)[i] = CHOOSE x \in xs : rank[x] = i - 1
    BY <1>6, <1>7
  <2> QED
    BY <1>10, <2>1
<1>12. InOrder(src, xs) = [i \in 1 .. n |-> InOrder(src, xs)[i]]
  BY <1>7
<1>13. InOrder(src, xs) \in Seq(xs) /\ Len(InOrder(src, xs)) = n
  BY <1>1, <1>11, <1>12
<1>14. ASSUME NEW x \in xs PROVE \E i \in 1 .. n : InOrder(src, xs)[i] = x
  <2>1. rank[x] + 1 \in 1 .. n /\ (rank[x] + 1) - 1 = rank[x]
    BY <1>1, <1>4
  <2>2. InOrder(src, xs)[rank[x] + 1] \in xs /\ rank[InOrder(src, xs)[rank[x] + 1]] = rank[x]
    BY <1>11, <2>1
  <2>3. InOrder(src, xs)[rank[x] + 1] = x
    BY <1>8, <2>2 DEF Injection, IsInjective
  <2> QED
    BY <2>1, <2>3
<1> QED
  BY <1>13, <1>14
-----------------------------------------------------------------------------
(* The views of the first callables, of the first and the second, and so on.*)
LEMMA ViewUnfolds ==
  ASSUME NEW src, NEW xs, Len(xs) \in Nat
  PROVE  \E views :
           /\ View(src, xs) = views[Len(xs)] /\ views[0] = NothingShown
           /\ \A n \in 1 .. Len(xs) : views[n] = Show(src, views[n - 1], xs[n])
<1> DEFINE bound == Len(xs)
           Next(view, n) == Show(src, view, xs[n])
           Unfolded(g, m) == g = [n \in 0 .. m |-> IF n = 0 THEN NothingShown ELSE Next(g[n - 1], n)]
           G == {m \in Nat : \E g : Unfolded(g, m)}
<1>1. View(src, xs) = (CHOOSE g : Unfolded(g, bound))[bound]
  BY DEF View
<1> HIDE DEF Next, bound
<1>2. 0 \in G
  <2>1. Unfolded([n \in 0 .. 0 |-> NothingShown], 0)
    OBVIOUS
  <2> QED
    BY <2>1
<1>3. ASSUME NEW m \in Nat, m \in G PROVE m + 1 \in G
  <2>1. PICK g : Unfolded(g, m)
    BY <1>3
  <2>2. g[0] = NothingShown /\ \A n \in 1 .. m : g[n] = Next(g[n - 1], n)
    BY <2>1
  <2> DEFINE h == [n \in 0 .. m + 1 |-> IF n <= m THEN g[n] ELSE Next(g[m], n)]
  <2>3. h[0] = NothingShown /\ h = [n \in 0 .. m + 1 |-> h[n]]
    BY <2>2
  <2>4. ASSUME NEW n \in 1 .. m + 1
        PROVE  h[n] = Next(h[n - 1], n)
    BY <2>2
  <2> HIDE DEF h
  <2>5. \A n \in 0 .. m + 1 : h[n] = IF n = 0 THEN NothingShown ELSE Next(h[n - 1], n)
    <3> SUFFICES ASSUME NEW n \in 0 .. m + 1
                 PROVE  h[n] = IF n = 0 THEN NothingShown ELSE Next(h[n - 1], n)
      OBVIOUS
    <3>1. n = 0 \/ n \in 1 .. m + 1
      OBVIOUS
    <3> QED
      BY <2>3, <2>4, <3>1
  <2>6. Unfolded(h, m + 1)
    BY <2>3, <2>5
  <2> QED
    BY <2>6
<1>4. bound \in Nat
  BY DEF bound
<1>5. bound \in G
  <2> HIDE DEF G
  <2>1. 0 .. bound \subseteq G
    BY <1>2, <1>3, <1>4, InductionUpTo
  <2> QED
    BY <1>4, <2>1
<1> DEFINE views == CHOOSE g : Unfolded(g, bound)
<1>6. Unfolded(views, bound)
  BY <1>5
<1>7. View(src, xs) = views[bound]
  BY <1>1
<1> HIDE DEF views
<1>8. views[0] = NothingShown /\ \A n \in 1 .. bound : views[n] = Next(views[n - 1], n)
  BY <1>4, <1>6
<1> QED
  BY <1>7, <1>8 DEF Next, bound

ViewOf(size, presented, excerpts, omitted) ==
  [size |-> size, presented |-> presented, excerpts |-> excerpts, omitted |-> omitted]

ShownOrOmitted(src, x, v, a, b, c, d) ==
  \/ \E code \in PresentationDiagnostics :
       Show(src, v, x) = ViewOf(a, b, c, d \cup {Diagnostic(code, "excerpt", x)})
  \/ Show(src, v, x) = ViewOf(a + src.size[x], IF x \in src.owners THEN b ELSE Append(b, x),
                              c \cup {<<x, src.body[x]>>}, d)

LEMMA ShowsOrOmits ==
  ASSUME NEW src, NEW x, NEW a, NEW b, NEW c, NEW d
  PROVE  ShownOrOmitted(src, x, ViewOf(a, b, c, d), a, b, c, d)
<1> DEFINE v == ViewOf(a, b, c, d)
           Larger(z) == d \cup {z}
           Omitting(z) == [v EXCEPT !.omitted = @ \cup {z}]
<1>1. \A z : Omitting(z) = ViewOf(a, b, c, d \cup {z})
  BY DEF ViewOf
<1>2. [v EXCEPT !.size = @ + src.size[x], !.excerpts = @ \cup {<<x, src.body[x]>>},
                !.presented = IF x \in src.owners THEN @ ELSE Append(@, x)]
      = ViewOf(a + src.size[x], IF x \in src.owners THEN b ELSE Append(b, x),
               c \cup {<<x, src.body[x]>>}, d)
  <2>1. \A p, q, r, s, z : [ViewOf(p, q, r, s) EXCEPT !.size = z] = ViewOf(z, q, r, s)
    BY DEF ViewOf
  <2>2. \A p, q, r, s, z : [ViewOf(p, q, r, s) EXCEPT !.excerpts = z] = ViewOf(p, q, z, s)
    BY DEF ViewOf
  <2>3. \A p, q, r, s, z : [ViewOf(p, q, r, s) EXCEPT !.presented = z] = ViewOf(p, z, r, s)
    BY DEF ViewOf
  <2>4. v.size = a /\ v.excerpts = c /\ v.presented = b
    BY DEF ViewOf
  <2> DEFINE size == a + src.size[x]
             excerpts == c \cup {<<x, src.body[x]>>}
             more == IF x \in src.owners THEN b ELSE Append(b, x)
             grown == [v EXCEPT !.size = size]
             wider == [grown EXCEPT !.excerpts = excerpts]
  <2>5. grown = ViewOf(size, b, c, d)
    BY <2>1
  <2> HIDE DEF size, excerpts, more, grown
  <2>6. wider = ViewOf(size, b, excerpts, d)
    BY <2>2, <2>5
  <2> HIDE DEF wider
  <2>7. [wider EXCEPT !.presented = more] = ViewOf(size, more, excerpts, d)
    BY <2>3, <2>6
  <2>8. [v EXCEPT !.size = size, !.excerpts = excerpts, !.presented = more]
        = [wider EXCEPT !.presented = more]
    BY DEF wider, grown
  <2>9. [v EXCEPT !.size = @ + src.size[x], !.excerpts = @ \cup {<<x, src.body[x]>>},
                  !.presented = IF x \in src.owners THEN @ ELSE Append(@, x)]
        = [v EXCEPT !.size = size, !.excerpts = excerpts, !.presented = more]
    BY <2>4 DEF size, excerpts, more
  <2> QED
    BY <2>7, <2>8, <2>9 DEF size, excerpts, more
<1>3. \A code : Omit(v, code, x) = ViewOf(a, b, c, d \cup {Diagnostic(code, "excerpt", x)})
  BY <1>1 DEF Omit
<1> HIDE DEF v
<1> QED
  BY <1>2, <1>3 DEF Show, v, PresentationDiagnostics, ShownOrOmitted

(* Every diagnostic of a view is one of the presentation.  What is          *)
(* presented are callables but owners of routes, and all of them if nothing *)
(* is omitted.                                                              *)
Faithful(src, xs, v, n) ==
  \E a, b, c, d :
    /\ v = ViewOf(a, b, c, d)
    /\ b \in Seq(ToSet(xs) \ src.owners)
    /\ \A o \in d : o.code \in PresentationDiagnostics
    /\ d = {} => \A i \in 1 .. n : xs[i] \in src.owners \/ \E j \in 1 .. Len(b) : b[j] = xs[i]

LEMMA FaithfulStep ==
  ASSUME NEW src, NEW S, NEW xs \in Seq(S), NEW v, NEW n \in 0 .. Len(xs) - 1,
         Faithful(src, xs, v, n)
  PROVE  Faithful(src, xs, Show(src, v, xs[n + 1]), n + 1)
<1>1. PICK a, b, c, d :
        /\ v = ViewOf(a, b, c, d)
        /\ b \in Seq(ToSet(xs) \ src.owners)
        /\ \A o \in d : o.code \in PresentationDiagnostics
        /\ d = {} => \A i \in 1 .. n : xs[i] \in src.owners \/ \E j \in 1 .. Len(b) : b[j] = xs[i]
  BY DEF Faithful
<1> DEFINE x == xs[n + 1]
<1>2. x \in ToSet(xs) /\ \A i \in 1 .. n + 1 : i \in 1 .. n \/ xs[i] = x
  BY DEF ToSet
<1> HIDE DEF x
<1>3. ASSUME NEW code \in PresentationDiagnostics,
             Show(src, v, x) = ViewOf(a, b, c, d \cup {Diagnostic(code, "excerpt", x)})
      PROVE  Faithful(src, xs, Show(src, v, x), n + 1)
  <2> DEFINE e == d \cup {Diagnostic(code, "excerpt", x)}
  <2>1. e # {} /\ \A o \in e : o.code \in PresentationDiagnostics
    <3>1. Diagnostic(code, "excerpt", x).code = code
      BY DEF Diagnostic
    <3> QED
      BY <1>1, <1>3, <3>1
  <2>2. Show(src, v, x) = ViewOf(a, b, c, e)
    BY <1>3
  <2> HIDE DEF e
  <2> QED
    BY <1>1, <2>1, <2>2 DEF Faithful
<1>4. ASSUME Show(src, v, x) = ViewOf(a + src.size[x], IF x \in src.owners THEN b ELSE Append(b, x),
                                      c \cup {<<x, src.body[x]>>}, d)
      PROVE  Faithful(src, xs, Show(src, v, x), n + 1)
  <2> DEFINE more == IF x \in src.owners THEN b ELSE Append(b, x)
             size == a + src.size[x]
             excerpts == c \cup {<<x, src.body[x]>>}
  <2>1. more \in Seq(ToSet(xs) \ src.owners)
    BY <1>1, <1>2
  <2>2. \A j \in 1 .. Len(b) : j \in 1 .. Len(more) /\ more[j] = b[j]
    BY <1>1, <1>2
  <2>3. x \in src.owners \/ \E j \in 1 .. Len(more) : more[j] = x
    <3>1. CASE x \notin src.owners
      <4>1. Len(b) \in Nat /\ more = Append(b, x) /\ Len(more) = Len(b) + 1 /\ more[Len(b) + 1] = x
        BY <1>1, <1>2, <3>1
      <4> HIDE DEF more
      <4> QED
        BY <4>1
    <3> QED
      BY <3>1
  <2>4. Show(src, v, x) = ViewOf(size, more, excerpts, d)
    BY <1>4
  <2> HIDE DEF more, size, excerpts
  <2>5. d = {} => \A i \in 1 .. n + 1 :
                    xs[i] \in src.owners \/ \E j \in 1 .. Len(more) : more[j] = xs[i]
    BY <1>1, <1>2, <2>2, <2>3
  <2> QED
    BY <1>1, <2>1, <2>4, <2>5 DEF Faithful
<1>5. ShownOrOmitted(src, x, v, a, b, c, d)
  BY <1>1, ShowsOrOmits
<1> QED
  BY <1>3, <1>4, <1>5 DEF x, ShownOrOmitted

LEMMA ViewIsFaithful ==
  ASSUME NEW src, NEW S, NEW xs \in Seq(S)
  PROVE  Faithful(src, xs, View(src, xs), Len(xs))
<1>1. Len(xs) \in Nat
  OBVIOUS
<1>2. PICK views :
        /\ View(src, xs) = views[Len(xs)] /\ views[0] = NothingShown
        /\ \A n \in 1 .. Len(xs) : views[n] = Show(src, views[n - 1], xs[n])
  BY <1>1, ViewUnfolds
<1> DEFINE G == {n \in Nat : Faithful(src, xs, views[n], n)}
<1>3. 0 \in G
  <2>1. NothingShown = ViewOf(0, <<>>, {}, {}) /\ <<>> \in Seq(ToSet(xs) \ src.owners)
    BY DEF NothingShown, ViewOf
  <2>2. Faithful(src, xs, NothingShown, 0)
    <3>1. \A i \in 1 .. 0 : FALSE
      OBVIOUS
    <3> DEFINE b == <<>>
               none == {}
    <3>2. /\ NothingShown = ViewOf(0, b, none, none)
          /\ b \in Seq(ToSet(xs) \ src.owners)
          /\ \A o \in none : o.code \in PresentationDiagnostics
          /\ none = {} => \A i \in 1 .. 0 :
                            xs[i] \in src.owners \/ \E j \in 1 .. Len(b) : b[j] = xs[i]
      BY <2>1, <3>1
    <3> HIDE DEF b, none
    <3> QED
      BY <3>2 DEF Faithful
  <2> QED
    BY <1>2, <2>2
<1>4. ASSUME NEW n \in 0 .. Len(xs) - 1, n \in G PROVE n + 1 \in G
  <2>1. n + 1 \in 1 .. Len(xs) /\ (n + 1) - 1 = n
    BY <1>1
  <2>2. views[n + 1] = Show(src, views[n], xs[n + 1])
    BY <1>2, <2>1
  <2> QED
    BY <1>4, <2>2, FaithfulStep
<1> HIDE DEF G
<1>5. 0 .. Len(xs) \subseteq G
  BY <1>1, <1>3, <1>4, InductionUpTo
<1> QED
  BY <1>1, <1>2, <1>5 DEF G

(* What a bundle presents is relevant; without an omission it is all of it  *)
(* but the owners of routes.                                                *)
LEMMA BundlePresents ==
  ASSUME NEW src, SourceValid(src)
  PROVE  LET b == Bounded(src)
         IN  /\ ToSet(b.presented) \subseteq Relevant(src) \ src.owners
             /\ \A o \in b.omitted : o.code \in PresentationDiagnostics
             /\ b.omitted = {} => Relevant(src) \ src.owners \subseteq ToSet(b.presented)
<1> DEFINE xs == InOrder(src, Relevant(src))
<1>1. xs \in Seq(Relevant(src)) /\ \A x \in Relevant(src) : \E i \in 1 .. Len(xs) : xs[i] = x
  <2>1. Relevant(src) \in SUBSET src.callable
    BY RelevantIsLeast
  <2> QED
    BY <2>1, InOrderEnumerates
<1>2. Bounded(src) = View(src, xs)
  BY DEF Bounded
<1> HIDE DEF xs
<1>3. Faithful(src, xs, Bounded(src), Len(xs))
  BY <1>1, <1>2, ViewIsFaithful
<1>4. PICK a, b, c, d :
        /\ Bounded(src) = ViewOf(a, b, c, d)
        /\ b \in Seq(ToSet(xs) \ src.owners)
        /\ \A o \in d : o.code \in PresentationDiagnostics
        /\ d = {} => \A i \in 1 .. Len(xs) : xs[i] \in src.owners \/ \E j \in 1 .. Len(b) : b[j] = xs[i]
  BY <1>3 DEF Faithful
<1>5. Bounded(src).presented = b /\ Bounded(src).omitted = d
  BY <1>4 DEF ViewOf
<1>6. ToSet(xs) \subseteq Relevant(src)
  BY <1>1 DEF ToSet
<1>7. ToSet(b) \subseteq ToSet(xs) \ src.owners
  BY <1>4 DEF ToSet
<1>8. \A j \in 1 .. Len(b) : b[j] \in ToSet(b)
  BY <1>4 DEF ToSet
<1>9. d = {} => Relevant(src) \ src.owners \subseteq ToSet(b)
  BY <1>1, <1>4, <1>8
<1> QED
  BY <1>4, <1>5, <1>6, <1>7, <1>9
-----------------------------------------------------------------------------
(* The context that a callable is decided on, and the callables it is about.*)
ContextOn(src, x) == IF x \in Relevant(src) THEN MainContext(src) ELSE ManualContext(src, x)
ConcernOf(src, x) == IF x \in Relevant(src) THEN Relevant(src) ELSE Around(src, x)
FormOf(src, x) == IF x \in Relevant(src) THEN "main" ELSE "manual"
CallsAmong(src, xs) == {c \in src.calls : {c.caller, c.callee} \subseteq xs}

LEMMA EvidenceOfContext ==
  ASSUME NEW src, NEW x
  PROVE  Fingerprint(ContextOn(src, x)).evidence = Evidence(src, ConcernOf(src, x), FormOf(src, x))
BY DEF ContextOn, ConcernOf, FormOf, MainContext, ManualContext, Descriptor, Fingerprint

LEMMA EvidenceTells ==
  ASSUME NEW s, NEW t, NEW xs, NEW ys, NEW f, NEW g, Evidence(s, xs, f) = Evidence(t, ys, g)
  PROVE  /\ xs = ys /\ s.ingress \cap xs = t.ingress \cap ys
         /\ \A x \in xs : s.body[x] = t.body[x]
         /\ s.ingress \cap xs # {} => f = g
         /\ f = g => CallsAmong(s, xs) = CallsAmong(t, ys)
<1> DEFINE d == Evidence(s, xs, f)
           e == Evidence(t, ys, g)
<1>1. /\ d.relevant = xs /\ d.ingress = s.ingress \cap xs
      /\ d.excerpts = {<<x, s.body[x]>> : x \in xs}
      /\ d.calls = {<<f, c>> : c \in CallsAmong(s, xs)}
      /\ d.facts = {<<f, x, s.label[x]>> : x \in s.ingress \cap xs}
  BY DEF Evidence, CallsAmong
<1>2. /\ e.relevant = ys /\ e.ingress = t.ingress \cap ys
      /\ e.excerpts = {<<x, t.body[x]>> : x \in ys}
      /\ e.calls = {<<g, c>> : c \in CallsAmong(t, ys)}
      /\ e.facts = {<<g, x, t.label[x]>> : x \in t.ingress \cap ys}
  BY DEF Evidence, CallsAmong
<1>3. d = e
  OBVIOUS
<1> HIDE DEF d, e
<1>4. xs = ys /\ s.ingress \cap xs = t.ingress \cap ys
  BY <1>1, <1>2, <1>3
<1>5. ASSUME NEW x \in xs PROVE s.body[x] = t.body[x]
  <2>1. <<x, s.body[x]>> \in e.excerpts
    BY <1>1, <1>3
  <2>2. PICK y \in ys : <<x, s.body[x]>> = <<y, t.body[y]>>
    BY <1>2, <2>1
  <2> QED
    BY <2>2
<1>6. ASSUME s.ingress \cap xs # {} PROVE f = g
  <2>1. PICK x \in s.ingress \cap xs : TRUE
    BY <1>6
  <2>2. <<f, x, s.label[x]>> \in e.facts
    BY <1>1, <1>3, <2>1
  <2>3. PICK y : <<f, x, s.label[x]>> = <<g, y, t.label[y]>>
    BY <1>2, <2>2
  <2> QED
    BY <2>3
<1>7. ASSUME f = g PROVE CallsAmong(s, xs) = CallsAmong(t, ys)
  <2>1. ASSUME NEW c PROVE c \in CallsAmong(s, xs) <=> <<f, c>> \in d.calls
    BY <1>1
  <2>2. ASSUME NEW c PROVE c \in CallsAmong(t, ys) <=> <<g, c>> \in e.calls
    BY <1>2
  <2> QED
    BY <1>3, <1>7, <2>1, <2>2
<1> QED
  BY <1>4, <1>5, <1>6, <1>7

(* Something is relevant only if there is an ingress.                       *)
LEMMA RelevantHasIngress ==
  ASSUME NEW src, SourceValid(src), NEW x \in Relevant(src)
  PROVE  src.ingress \cap Relevant(src) # {}
<1>1. src.ingress \subseteq Relevant(src)
  BY RelevantIsLeast
<1>2. CASE src.ingress = {}
  <2>1. Closed(Callees(src), {}) /\ src.ingress \subseteq {}
    BY <1>2 DEF Closed
  <2> QED
    BY <2>1, RelevantIsLeast
<1> QED
  BY <1>1, <1>2

(* A fingerprint determines what the decision is about, its bodies and its  *)
(* calls.                                                                   *)
LEMMA FingerprintTells ==
  ASSUME NEW s, NEW t, SourceValid(s), SourceValid(t), NEW x,
         Fingerprint(ContextOn(s, x)) = Fingerprint(ContextOn(t, x))
  PROVE  /\ x \in Relevant(s) <=> x \in Relevant(t)
         /\ ConcernOf(s, x) = ConcernOf(t, x)
         /\ \A y \in ConcernOf(s, x) : s.body[y] = t.body[y]
         /\ CallsAmong(s, ConcernOf(s, x)) = CallsAmong(t, ConcernOf(s, x))
<1>1. Evidence(s, ConcernOf(s, x), FormOf(s, x)) = Evidence(t, ConcernOf(t, x), FormOf(t, x))
  BY EvidenceOfContext
<1>2. /\ ConcernOf(s, x) = ConcernOf(t, x)
      /\ s.ingress \cap ConcernOf(s, x) = t.ingress \cap ConcernOf(t, x)
      /\ \A y \in ConcernOf(s, x) : s.body[y] = t.body[y]
      /\ s.ingress \cap ConcernOf(s, x) # {} => FormOf(s, x) = FormOf(t, x)
      /\ FormOf(s, x) = FormOf(t, x) =>
           CallsAmong(s, ConcernOf(s, x)) = CallsAmong(t, ConcernOf(t, x))
  BY <1>1, EvidenceTells
<1>3. FormOf(s, x) = FormOf(t, x)
  <2>1. CASE x \in Relevant(s)
    BY <1>2, <2>1, RelevantHasIngress DEF ConcernOf
  <2>2. CASE x \in Relevant(t)
    BY <1>2, <2>2, RelevantHasIngress DEF ConcernOf
  <2>3. CASE x \notin Relevant(s) /\ x \notin Relevant(t)
    BY <2>3 DEF FormOf
  <2> QED
    BY <2>1, <2>2, <2>3
<1>4. x \in Relevant(s) <=> x \in Relevant(t)
  BY <1>3 DEF FormOf
<1> QED
  BY <1>2, <1>3, <1>4

(* What is known to be missing from a context, but for its presentation.    *)
Missing(src, x) == IF x \in Relevant(src) THEN RelevantDiagnostics(src) ELSE {}

LEMMA DiagnosticsOfContext ==
  ASSUME NEW src, SourceValid(src), NEW x
  PROVE  Fingerprint(ContextOn(src, x)) =
           [evidence |-> Evidence(src, ConcernOf(src, x), FormOf(src, x)), diagnostics |-> Missing(src, x)]
<1>1. \A o \in RelevantDiagnostics(src) : o.code \notin PresentationDiagnostics
  <2>1. \A o \in RelevantDiagnostics(src) : o.code \in {"RELEVANT_DIAGNOSTIC", "RELEVANT_CALL_UNRESOLVED"}
    <3>1. \A a, b, c : Diagnostic(a, b, c).code = a
      BY DEF Diagnostic
    <3>2. \A o \in RelevantDiagnostics(src) :
            \/ \E d : o = Diagnostic("RELEVANT_DIAGNOSTIC", d.kind, d.at)
            \/ \E y : o = Diagnostic("RELEVANT_CALL_UNRESOLVED", "call", y)
      BY DEF RelevantDiagnostics
    <3> QED
      BY <3>1, <3>2
  <2> QED
    BY <2>1 DEF PresentationDiagnostics
<1>2. \A o \in Bounded(src).omitted : o.code \in PresentationDiagnostics
  BY BundlePresents
<1>3. CASE x \in Relevant(src)
  <2>1. ContextOn(src, x).diagnostics = RelevantDiagnostics(src) \cup Bounded(src).omitted
    BY <1>3 DEF ContextOn, MainContext, Descriptor
  <2>2. {o \in ContextOn(src, x).diagnostics : o.code \notin PresentationDiagnostics} = Missing(src, x)
    BY <1>1, <1>2, <1>3, <2>1 DEF Missing
  <2>3. ContextOn(src, x).evidence = Evidence(src, ConcernOf(src, x), FormOf(src, x))
    BY EvidenceOfContext DEF Fingerprint
  <2> QED
    BY <2>2, <2>3 DEF Fingerprint
<1>4. CASE x \notin Relevant(src)
  <2>1. ContextOn(src, x).diagnostics = {} /\ Missing(src, x) = {}
    BY <1>4 DEF ContextOn, ManualContext, Descriptor, Missing
  <2>2. ContextOn(src, x).evidence = Evidence(src, ConcernOf(src, x), FormOf(src, x))
    BY EvidenceOfContext DEF Fingerprint
  <2> QED
    BY <2>1, <2>2 DEF Fingerprint
<1> QED
  BY <1>3, <1>4

(* Nothing is missing: a model is shown all that is relevant but the owners *)
(* of routes.                                                               *)
LEMMA CompletePresentsAll ==
  ASSUME NEW src, SourceValid(src)
  PROVE  LET d == MainContext(src)
         IN  /\ d.presented \subseteq Relevant(src) \ src.owners
             /\ BundleComplete(d) => /\ d.presented = Relevant(src) \ src.owners
                                     /\ src.unresolved \cap Relevant(src) = {}
<1> DEFINE b == Bounded(src)
<1>1. /\ MainContext(src).presented = ToSet(b.presented)
      /\ MainContext(src).diagnostics = RelevantDiagnostics(src) \cup b.omitted
  BY DEF MainContext, Descriptor
<1>2. \A x \in src.unresolved \cap Relevant(src) :
        Diagnostic("RELEVANT_CALL_UNRESOLVED", "call", x) \in RelevantDiagnostics(src)
  BY DEF RelevantDiagnostics
<1> HIDE DEF b
<1> QED
  BY <1>1, <1>2, BundlePresents DEF BundleComplete, b

-----------------------------------------------------------------------------
(* The record of an edit.                                                   *)
Fields(a, b, c, d) == [pc |-> a, update |-> b, original |-> c, raced |-> d]

(* An edit is none, or the record that StartEdit makes of it.               *)
Shaped(e) ==
  \/ e = NoEdit
  \/ e = Fields(e.pc, e.update, e.original, e.raced)

(* Until somebody else writes the file, it holds what the writer that is    *)
(* about to replace it has read.                                            *)
Compared(e, cf) ==
  e.pc = "replace" /\ ~e.raced => Written(cf) = Written(e.original)

EditInv ==
  /\ edit = [w \in Writers |-> edit[w]]
  /\ \A w \in Writers : Shaped(edit[w]) /\ Compared(edit[w], config)
-----------------------------------------------------------------------------
LEMMA EditInvInit == SemanticInit => EditInv
<1> SUFFICES ASSUME SemanticInit PROVE EditInv
  OBVIOUS
<1>1. edit = [w \in Writers |-> NoEdit]
  BY DEF SemanticInit, ConfigInit
<1>2. \A w \in Writers : Shaped(NoEdit) /\ Compared(NoEdit, config)
  BY DEF Shaped, Compared, NoEdit
<1> QED
  BY <1>1, <1>2 DEF EditInv

(* What is written depends on what each section holds.                      *)
LEMMA WrittenBySection ==
  ASSUME NEW cf, NEW of, NEW s \in Sections, cf[s] = of[s]
  PROVE  Written(cf)[s] = Written(of)[s]
BY DEF Written

(* An edit that one writer starts or moves on, and that changes no file.    *)
LEMMA OneWriterMoves ==
  ASSUME EditInv, NEW w \in Writers, NEW e, edit' = [edit EXCEPT ![w] = e], UNCHANGED config,
         Shaped(e), Compared(e, config)
  PROVE  EditInv'
<1>1. edit' = [x \in Writers |-> IF x = w THEN e ELSE edit[x]]
  BY DEF EditInv
<1>2. \A x \in Writers : Shaped(edit'[x]) /\ Compared(edit'[x], config)
  BY <1>1 DEF EditInv
<1> QED
  BY <1>1, <1>2 DEF EditInv

LEMMA Starts ==
  ASSUME EditInv, NEW w \in Writers, NEW update, StartEdit(w, update)
  PROVE  EditInv'
<1> DEFINE e == [pc |-> "read", update |-> update, original |-> Unset, raced |-> FALSE]
<1>1. Shaped(e) /\ Compared(e, config)
  BY DEF Shaped, Compared, Fields
<1>2. edit' = [edit EXCEPT ![w] = e] /\ UNCHANGED config
  BY DEF StartEdit
<1> HIDE DEF e
<1> QED
  BY <1>1, <1>2, OneWriterMoves

(* A writer that has begun has the record of an edit.                       *)
LEMMA Begun ==
  ASSUME EditInv, NEW w \in Writers, edit[w].pc # "none"
  PROVE  edit[w] = Fields(edit[w].pc, edit[w].update, edit[w].original, edit[w].raced)
BY DEF EditInv, Shaped, NoEdit

(* The three updates of the record of an edit.                              *)
MovedTo(e, x) == [e EXCEPT !.pc = x]
Holding(e, x) == [e EXCEPT !.original = x]
ReadIn(e, x, y) == [e EXCEPT !.pc = x, !.original = y]
RacedAs(e, x) == [e EXCEPT !.raced = x]

LEMMA FieldsUpdated ==
  \A a, b, c, d, x, y :
    /\ MovedTo(Fields(a, b, c, d), x) = Fields(x, b, c, d)
    /\ ReadIn(Fields(a, b, c, d), x, y) = Fields(x, b, y, d)
    /\ RacedAs(Fields(a, b, c, d), x) = Fields(a, b, c, x)
<1>1. \A a, b, c, d, x : MovedTo(Fields(a, b, c, d), x) = Fields(x, b, c, d)
  BY SMT DEF MovedTo, Fields
<1>2. \A a, b, c, d, x : Holding(Fields(a, b, c, d), x) = Fields(a, b, x, d)
  BY SMT DEF Holding, Fields
<1>3. \A e, x, y : ReadIn(e, x, y) = Holding(MovedTo(e, x), y)
  BY DEF ReadIn, Holding, MovedTo
<1>4. \A a, b, c, d, x : RacedAs(Fields(a, b, c, d), x) = Fields(a, b, c, x)
  BY SMT DEF RacedAs, Fields
<1> QED
  BY <1>1, <1>2, <1>3, <1>4

LEMMA Reads == ASSUME EditInv, NEW w \in Writers, ReadOriginal(w) PROVE EditInv'
<1> DEFINE e == ReadIn(edit[w], "compare", config)
<1>1. Shaped(e) /\ Compared(e, config)
  <2>1. e = Fields("compare", edit[w].update, config, edit[w].raced)
    BY Begun, FieldsUpdated DEF ReadOriginal
  <2> QED
    BY <2>1 DEF Shaped, Compared, Fields
<1>2. edit' = [edit EXCEPT ![w] = e] /\ UNCHANGED config
  BY DEF ReadOriginal, EditInv, ReadIn
<1> HIDE DEF e
<1> QED
  BY <1>1, <1>2, OneWriterMoves

LEMMA Compares == ASSUME EditInv, NEW w \in Writers, CompareOriginal(w) PROVE EditInv'
<1> DEFINE same == Written(config) = Written(edit[w].original)
           e == MovedTo(edit[w], IF same THEN "replace" ELSE "refused")
<1>1. Shaped(e) /\ e.original = edit[w].original /\ (e.pc = "replace" => same)
  <2>1. e = Fields(IF same THEN "replace" ELSE "refused",
                   edit[w].update, edit[w].original, edit[w].raced)
    BY Begun, FieldsUpdated DEF CompareOriginal
  <2> HIDE DEF e, same
  <2> QED
    BY <2>1 DEF Shaped, Fields
<1>2. Compared(e, config)
  BY <1>1 DEF Compared
<1>3. edit' = [edit EXCEPT ![w] = e] /\ UNCHANGED config
  BY DEF CompareOriginal, EditInv, MovedTo
<1> HIDE DEF e, same
<1> QED
  BY <1>1, <1>2, <1>3, OneWriterMoves

(* Whoever writes the file races all the others that have compared.         *)
LEMMA RacedAreMarked ==
  ASSUME EditInv, NEW ws, NEW w \in ws, w \in Writers
  PROVE  /\ edit[w].pc = "replace" =>
              /\ Shaped(Raced(ws)[w])
              /\ Raced(ws)[w].raced /\ Raced(ws)[w].pc = "replace"
         /\ edit[w].pc # "replace" => Raced(ws)[w] = edit[w]
<1>1. ASSUME edit[w].pc = "replace"
      PROVE  /\ Shaped(Raced(ws)[w])
             /\ Raced(ws)[w].raced /\ Raced(ws)[w].pc = "replace"
  <2> DEFINE yes == TRUE
  <2>1. Raced(ws)[w] = RacedAs(edit[w], yes)
    BY <1>1 DEF Raced, RacedAs
  <2>2. yes
    OBVIOUS
  <2> HIDE DEF yes
  <2>3. Raced(ws)[w] = Fields(edit[w].pc, edit[w].update, edit[w].original, yes)
    BY <1>1, <2>1, Begun, FieldsUpdated
  <2>4. /\ Raced(ws)[w].raced = yes /\ Raced(ws)[w].pc = edit[w].pc
        /\ Raced(ws)[w].update = edit[w].update /\ Raced(ws)[w].original = edit[w].original
    BY <2>3 DEF Fields
  <2> QED
    BY <1>1, <2>2, <2>3, <2>4 DEF Shaped
<1>2. edit[w].pc # "replace" => Raced(ws)[w] = edit[w]
  BY DEF Raced
<1> QED
  BY <1>1, <1>2

LEMMA RacedAreShaped ==
  ASSUME EditInv, NEW ws, NEW w \in ws, w \in Writers, NEW cf
  PROVE  Shaped(Raced(ws)[w]) /\ Compared(Raced(ws)[w], cf)
<1>1. CASE edit[w].pc = "replace"
  BY <1>1, RacedAreMarked DEF Compared
<1>2. CASE edit[w].pc # "replace"
  BY <1>2, RacedAreMarked DEF EditInv, Compared
<1> QED
  BY <1>1, <1>2

LEMMA Replaces == ASSUME EditInv, NEW w \in Writers, Replace(w) PROVE EditInv'
<1> DEFINE others == Writers \ {w}
           e == MovedTo(edit[w], "written")
<1>1. Raced(others)[w] = edit[w]
  BY DEF Raced
<1>2. edit' = [Raced(others) EXCEPT ![w] = e]
  BY <1>1 DEF Replace, Raced, MovedTo
<1>3. edit' = [x \in Writers |-> IF x = w THEN e ELSE Raced(others)[x]]
  BY <1>2 DEF Raced
<1>4. Shaped(e) /\ Compared(e, config')
  <2>1. e = Fields("written", edit[w].update, edit[w].original, edit[w].raced)
    BY Begun, FieldsUpdated DEF Replace
  <2> QED
    BY <2>1 DEF Shaped, Compared, Fields
<1>5. \A x \in others : Shaped(Raced(others)[x]) /\ Compared(Raced(others)[x], config')
  BY RacedAreShaped
<1> HIDE DEF e
<1>6. \A x \in Writers : Shaped(edit'[x]) /\ Compared(edit'[x], config')
  BY <1>3, <1>4, <1>5
<1> QED
  BY <1>3, <1>6 DEF EditInv

LEMMA HandEdits ==
  ASSUME EditInv, NEW s, NEW value, EditByHand(s, value)
  PROVE  EditInv'
<1>1. edit' = [w \in Writers |-> Raced(Writers)[w]]
  BY DEF EditByHand, Raced
<1>2. \A w \in Writers : Shaped(Raced(Writers)[w]) /\ Compared(Raced(Writers)[w], config')
  BY RacedAreShaped
<1> QED
  BY <1>1, <1>2 DEF EditInv

LEMMA NothingEdited == ASSUME EditInv, UNCHANGED configVars PROVE EditInv'
BY DEF EditInv, Compared, Shaped, configVars

LEMMA EditInvStep == ASSUME EditInv, [SemanticNext]_vars PROVE EditInv'
<1>1. CASE UNCHANGED vars
  BY <1>1, NothingEdited DEF vars, configVars
<1>2. CASE EditSource
  BY <1>2, NothingEdited DEF EditSource
<1>3. CASE Withdraw
  BY <1>3, HandEdits DEF Withdraw
<1>4. ASSUME NEW p \in Writers, Resolve(p) \/ Answer(p) \/ WriteArtifact(p) \/ EditEnds(p)
      PROVE  EditInv'
  BY <1>4, NothingEdited DEF Resolve, Answer, WriteArtifact, EditEnds
<1>5. ASSUME NEW p \in Writers, Confirm(p) \/ ConfirmPolicy(p) \/ SetUp(p)
      PROVE  EditInv'
  <2>1. PICK update : StartEdit(p, update)
    BY <1>5 DEF Confirm, ConfirmPolicy, SetUp
  <2> QED
    BY <2>1, Starts
<1>6. ASSUME NEW p \in Writers, Edit(p)
      PROVE  EditInv'
  BY <1>6, Reads, Compares, Replaces DEF Edit, EditStep
<1> QED
  BY <1>1, <1>2, <1>3, <1>4, <1>5, <1>6 DEF SemanticNext

LEMMA EditInvariant == SemanticSpec => []EditInv
<1> QED
  BY EditInvInit, EditInvStep, PTL DEF SemanticSpec
-----------------------------------------------------------------------------
(* The writer that finishes its edit is the one that replaces the file.     *)
LEMMA WhoWrites ==
  ASSUME EditInv, [SemanticNext]_vars, NEW w \in Writers,
         edit[w].pc = "replace", edit'[w].pc = "written"
  PROVE  Replace(w)
<1>1. edit'[w] # edit[w]
  OBVIOUS
<1>2. ~UNCHANGED configVars
  BY <1>1 DEF configVars
<1>3. ASSUME NEW p \in Writers, Confirm(p) \/ ConfirmPolicy(p) \/ SetUp(p) PROVE FALSE
  <2>1. PICK update : StartEdit(p, update)
    BY <1>3 DEF Confirm, ConfirmPolicy, SetUp
  <2>2. edit[p] = NoEdit /\ p # w
    BY <2>1 DEF StartEdit, NoEdit
  <2> QED
    BY <1>1, <2>1, <2>2 DEF StartEdit, EditInv
<1>4. ASSUME Withdraw PROVE FALSE
  <2>1. edit'[w] = Raced(Writers)[w]
    BY <1>4 DEF Withdraw, EditByHand
  <2> QED
    BY <2>1, RacedAreMarked
<1>5. ASSUME NEW p \in Writers, Edit(p), p # w PROVE FALSE
  <2>1. CASE ReadOriginal(p) \/ CompareOriginal(p)
    BY <1>1, <1>5, <2>1 DEF ReadOriginal, CompareOriginal, EditInv
  <2>2. CASE Replace(p)
    <3>1. edit'[w] = Raced(Writers \ {p})[w] /\ w \in Writers \ {p}
      BY <1>5, <2>2 DEF Replace, Raced
    <3> QED
      BY <3>1, RacedAreMarked
  <2> QED
    BY <1>5, <2>1, <2>2 DEF Edit, EditStep
<1>6. ASSUME Edit(w) PROVE Replace(w)
  BY <1>6 DEF Edit, EditStep, ReadOriginal, CompareOriginal
<1> QED
  BY <1>2, <1>3, <1>4, <1>5, <1>6
  DEF SemanticNext, vars, configVars, EditSource, Resolve, Answer, WriteArtifact, EditEnds

(* A guarded edit leaves the sections of others in the file as they are,    *)
(* unless the file was written between its comparison and its rename        *)
(* (workspace/config_edit.py: the bytes of the file are compared, and then  *)
(* it is replaced by what was prepared from them).                          *)
THEOREM OnlyRacingEditsAreLost == SemanticSpec => OnlyRacingEditIsLost
<1>1. ASSUME EditInv, [SemanticNext]_vars, NEW w \in Writers,
             edit[w].pc = "replace", edit'[w].pc = "written", ~edit[w].raced,
             NEW s \in Sections \ Owned(edit[w])
      PROVE  Written(config')[s] = Written(config)[s]
  <2>1. Replace(w)
    BY <1>1, WhoWrites
  <2>2. config'[s] = edit[w].original[s]
    BY <1>1, <2>1 DEF Replace
  <2>3. Written(config) = Written(edit[w].original)
    BY <1>1 DEF EditInv, Compared
  <2> QED
    BY <2>2, <2>3, WrittenBySection
<1>2. EditInv /\ [SemanticNext]_vars =>
        [\A w \in Writers :
           (edit[w].pc = "replace" /\ edit'[w].pc = "written" /\ ~edit[w].raced) =>
             \A s \in Sections \ Owned(edit[w]) : Written(config')[s] = Written(config)[s]]_vars
  BY <1>1
<1> QED
  BY <1>2, EditInvariant, PTL DEF SemanticSpec, OnlyRacingEditIsLost
-----------------------------------------------------------------------------
(* What the properties ask of reachability is what the contexts compute.    *)
LEMMA LeastOfClosed ==
  ASSUME NEW start, NEW arcs, NEW all, NEW xs, xs \subseteq all, start \subseteq xs, Closed(arcs, xs),
         \A ys : ys \subseteq all /\ start \subseteq ys /\ Closed(arcs, ys) => xs \subseteq ys
  PROVE  Least(start, arcs, all) = xs
BY DEF Least, Closed

LEMMA ReachedIsRelevant ==
  ASSUME NEW src, SourceValid(src)
  PROVE  Reached(src) = Relevant(src)
<1>1. /\ Relevant(src) \subseteq src.callable /\ src.ingress \subseteq Relevant(src)
      /\ Closed(Callees(src), Relevant(src))
      /\ \A xs : src.ingress \subseteq xs /\ Closed(Callees(src), xs) => Relevant(src) \subseteq xs
  BY RelevantIsLeast
<1>2. src.ingress \cap src.callable = src.ingress
  BY DEF SourceValid
<1>3. ASSUME NEW xs \in SUBSET src.callable PROVE Closed(Leads(src), xs) <=> Closed(Callees(src), xs)
  BY DEF Closed, Leads, Callees, CallsBetween
<1>4. Closed(Leads(src), Relevant(src))
  BY <1>1, <1>3
<1>5. \A xs : xs \subseteq src.callable /\ src.ingress \subseteq xs /\ Closed(Leads(src), xs)
               => Relevant(src) \subseteq xs
  BY <1>1, <1>3
<1> QED
  BY <1>1, <1>2, <1>4, <1>5, LeastOfClosed DEF Reached

LEMMA ConnectedIsAround ==
  ASSUME NEW src, SourceValid(src), NEW x \in src.callable
  PROVE  Connected(src, x) = Around(src, x)
<1>1. /\ Around(src, x) \subseteq src.callable /\ x \in Around(src, x)
      /\ Closed(Peers(src), Around(src, x))
      /\ \A xs : x \in xs /\ Closed(Peers(src), xs) => Around(src, x) \subseteq xs
  BY AroundIsLeast
<1>2. ASSUME NEW xs \in SUBSET src.callable PROVE Closed(Links(src), xs) <=> Closed(Peers(src), xs)
  BY DEF Closed, Links, Leads, Peers, Callees, CallsBetween
<1>3. Closed(Links(src), Around(src, x))
  BY <1>1, <1>2
<1>4. \A xs : xs \subseteq src.callable /\ {x} \subseteq xs /\ Closed(Links(src), xs)
               => Around(src, x) \subseteq xs
  BY <1>1, <1>2
<1>5. {x} \subseteq Around(src, x)
  BY <1>1
<1> QED
  BY <1>1, <1>3, <1>4, <1>5, LeastOfClosed DEF Connected

LEMMA ConcernIsClosed ==
  ASSUME NEW src, SourceValid(src), NEW x \in src.callable
  PROVE  /\ ConcernOf(src, x) \subseteq src.callable /\ x \in ConcernOf(src, x)
         /\ Closed(Callees(src), ConcernOf(src, x))
         /\ x \in Relevant(src) => src.ingress \subseteq ConcernOf(src, x)
<1>1. Closed(Peers(src), Around(src, x)) => Closed(Callees(src), Around(src, x))
  BY DEF Closed, Peers
<1> QED
  BY <1>1, RelevantIsLeast, AroundIsLeast DEF ConcernOf

LEMMA ConcernComputed ==
  ASSUME NEW n \in DOMAIN Code, NEW x \in Code[n].callable
  PROVE  /\ Concern[n][x] = ConcernOf(Code[n], x) /\ ReachedIn[n] = Relevant(Code[n])
         /\ RelevantTo[n] = Relevant(Code[n])
         /\ CalledIn[n][x] = {c \in CallsBetween(Code[n]) : c.caller = x}
<1>1. SourceValid(Code[n])
  BY CodeAssumption
<1>2. Reached(Code[n]) = Relevant(Code[n]) /\ Connected(Code[n], x) = Around(Code[n], x)
  BY <1>1, ReachedIsRelevant, ConnectedIsAround
<1> QED
  BY <1>2 DEF Concern, ReachedIn, RelevantTo, CalledIn, ConcernOf

(* Two decisions have the same fingerprint if their contexts say the same.  *)
LEMMA FingerprintNamesContent ==
  ASSUME NEW n \in DOMAIN Code, NEW m \in DOMAIN Code,
         NEW x \in Code[n].callable \cap Code[m].callable
  PROVE  FingerprintOf(ContextFor(n, x)) = FingerprintOf(ContextFor(m, x))
           <=> Fingerprint(ContextOn(Code[n], x)) = Fingerprint(ContextOn(Code[m], x))
<1> DEFINE Content(k) == Contents[k[1]][k[2]]
           Name(f) == CHOOSE k \in Keys : Content(k) = f
<1>1. ASSUME NEW l \in {n, m}
      PROVE  /\ ContextFor(l, x) \in Keys
             /\ Content(ContextFor(l, x)) = Fingerprint(ContextOn(Code[l], x))
             /\ FingerprintOf(ContextFor(l, x)) = Name(Content(ContextFor(l, x)))
  <2> DEFINE y == IF x \in Relevant(Code[l]) THEN 0 ELSE x
  <2>1. l \in DOMAIN Code /\ y \in ContextsOf(l) /\ x # 0
    BY CodeAssumption, CallableIsFinite DEF ContextsOf
  <2>2. ContextFor(l, x) = <<l, y>>
    BY <2>1 DEF ContextFor, Main, RelevantTo
  <2>3. <<l, y>> \in Keys
    BY <2>1 DEF Keys
  <2>4. Contents[l][y] = Fingerprint(Contexts[l][y])
    BY <2>1 DEF Contents
  <2>5. Contexts[l][y] = ContextOn(Code[l], x)
    BY <2>1 DEF Contexts, ContextOn
  <2>6. Fingerprints[l][y] = CHOOSE k \in Keys : Contents[k[1]][k[2]] = Contents[l][y]
    <3>1. DOMAIN Contents = DOMAIN Code /\ DOMAIN Contents[l] = ContextsOf(l)
      BY <2>1 DEF Contents
    <3> QED
      BY <2>1, <3>1 DEF Fingerprints, FirstAlike
  <2> HIDE DEF y
  <2> QED
    BY <2>2, <2>3, <2>4, <2>5, <2>6 DEF FingerprintOf
<1>2. \A k \in Keys : Content(Name(Content(k))) = Content(k)
  OBVIOUS
<1> HIDE DEF Content, Name
<1> QED
  BY <1>1, <1>2

(* Of a set that calls do not leave, the calls among its members are the    *)
(* calls of its members.                                                    *)
LEMMA CallsOfMembers ==
  ASSUME NEW src, NEW xs \in SUBSET src.callable, Closed(Callees(src), xs), NEW c
  PROVE  c \in CallsAmong(src, xs) <=> c \in CallsBetween(src) /\ c.caller \in xs
<1>1. ASSUME c \in CallsBetween(src), c.caller \in xs PROVE c.callee \in xs
  <2>1. <<c.caller, c.callee>> \in Callees(src)
    BY <1>1 DEF Callees, CallsBetween
  <2> QED
    BY <1>1, <2>1 DEF Closed
<1> QED
  BY <1>1 DEF CallsAmong, CallsBetween

LEMMA FingerprintIsOfCode ==
  ASSUME NEW n \in DOMAIN Code, NEW m \in DOMAIN Code,
         NEW x \in Code[n].callable \cap Code[m].callable,
         FingerprintOf(ContextFor(n, x)) = FingerprintOf(ContextFor(m, x))
  PROVE  Concern[n][x] = Concern[m][x] /\ SameCode(n, m, Concern[n][x])
<1> DEFINE xs == ConcernOf(Code[n], x)
<1>1. SourceValid(Code[n]) /\ SourceValid(Code[m])
  BY CodeAssumption
<1>2. /\ ConcernOf(Code[m], x) = xs
      /\ \A y \in xs : Code[n].body[y] = Code[m].body[y]
      /\ CallsAmong(Code[n], xs) = CallsAmong(Code[m], xs)
  BY <1>1, FingerprintNamesContent, FingerprintTells
<1>3. Concern[n][x] = xs /\ Concern[m][x] = xs
  BY <1>2, ConcernComputed
<1>4. /\ xs \in SUBSET Code[n].callable /\ Closed(Callees(Code[n]), xs)
      /\ xs \in SUBSET Code[m].callable /\ Closed(Callees(Code[m]), xs)
  BY <1>1, <1>2, ConcernIsClosed
<1> HIDE DEF xs
<1>5. ASSUME NEW y \in xs PROVE CalledIn[n][y] = CalledIn[m][y]
  <2>1. CalledIn[n][y] = {c \in CallsBetween(Code[n]) : c.caller = y}
    BY <1>4, ConcernComputed
  <2>2. CalledIn[m][y] = {c \in CallsBetween(Code[m]) : c.caller = y}
    BY <1>4, ConcernComputed
  <2>3. \A c : c \in CallsBetween(Code[n]) /\ c.caller = y <=> c \in CallsAmong(Code[n], xs) /\ c.caller = y
    BY <1>4, <1>5, CallsOfMembers
  <2>4. \A c : c \in CallsBetween(Code[m]) /\ c.caller = y <=> c \in CallsAmong(Code[m], xs) /\ c.caller = y
    BY <1>4, <1>5, CallsOfMembers
  <2> QED
    BY <1>2, <2>1, <2>2, <2>3, <2>4
<1> QED
  BY <1>2, <1>3, <1>4, <1>5 DEF SameCode

(* What is edited elsewhere does not change a fingerprint.                  *)
LEMMA UntouchedKeepsFingerprint ==
  ASSUME NEW n \in DOMAIN Code, NEW m \in DOMAIN Code, NEW x, Untouched(n, m, x)
  PROVE  FingerprintOf(ContextFor(n, x)) = FingerprintOf(ContextFor(m, x))
<1> DEFINE s == Code[n]
           t == Code[m]
           xs == ConcernOf(s, x)
<1>1. SourceValid(s) /\ SourceValid(t) /\ x \in s.callable /\ x \in t.callable
  BY CodeAssumption DEF Untouched
<1>2. Concern[n][x] = ConcernOf(s, x) /\ Concern[m][x] = ConcernOf(t, x)
      /\ ReachedIn[n] = Relevant(s) /\ ReachedIn[m] = Relevant(t)
  BY <1>1, ConcernComputed
<1>3. /\ ConcernOf(t, x) = xs /\ SameCode(n, m, xs)
      /\ x \in Relevant(s) <=> x \in Relevant(t)
      /\ s.ingress \cap xs = t.ingress \cap xs
      /\ s.unresolved \cap xs = t.unresolved \cap xs
      /\ \A y \in xs : s.label[y] = t.label[y] /\ s.file[y] = t.file[y]
      /\ s.diagnostics = t.diagnostics
  BY <1>1, <1>2 DEF Untouched
<1>4. /\ xs \in SUBSET s.callable /\ Closed(Callees(s), xs)
      /\ xs \in SUBSET t.callable /\ Closed(Callees(t), xs)
      /\ x \in Relevant(s) => s.ingress \subseteq xs /\ t.ingress \subseteq xs
  BY <1>1, <1>3, ConcernIsClosed
<1>5. CallsAmong(s, xs) = CallsAmong(t, xs)
  <2>1. ASSUME NEW c, c.caller \in xs PROVE c \in CallsBetween(s) <=> c \in CallsBetween(t)
    <3>1. CalledIn[n][c.caller] = {d \in CallsBetween(s) : d.caller = c.caller}
      BY <1>4, <2>1, ConcernComputed
    <3>2. CalledIn[m][c.caller] = {d \in CallsBetween(t) : d.caller = c.caller}
      BY <1>4, <2>1, ConcernComputed
    <3>3. CalledIn[n][c.caller] = CalledIn[m][c.caller]
      BY <1>3, <2>1 DEF SameCode
    <3> QED
      BY <3>1, <3>2, <3>3
  <2>2. \A c : c \in CallsAmong(s, xs) <=> c \in CallsBetween(s) /\ c.caller \in xs
    BY <1>4, CallsOfMembers
  <2>3. \A c : c \in CallsAmong(t, xs) <=> c \in CallsBetween(t) /\ c.caller \in xs
    BY <1>4, CallsOfMembers
  <2> QED
    BY <2>1, <2>2, <2>3
<1>6. FormOf(s, x) = FormOf(t, x)
  BY <1>3 DEF FormOf
<1>7. \A y \in xs : s.body[y] = t.body[y]
  BY <1>3 DEF SameCode
<1>8. ASSUME NEW form PROVE Evidence(s, xs, form) = Evidence(t, xs, form)
  <2>1. {<<y, s.body[y]>> : y \in xs} = {<<y, t.body[y]>> : y \in xs}
    BY <1>7
  <2>2. {<<form, y, s.label[y]>> : y \in s.ingress \cap xs} = {<<form, y, t.label[y]>> : y \in t.ingress \cap xs}
    BY <1>3
  <2>3. {<<form, c>> : c \in {k \in s.calls : {k.caller, k.callee} \subseteq xs}}
        = {<<form, c>> : c \in {k \in t.calls : {k.caller, k.callee} \subseteq xs}}
    BY <1>5 DEF CallsAmong
  <2> HIDE DEF s, t, xs
  <2> QED
    BY <1>3, <2>1, <2>2, <2>3 DEF Evidence
<1>9. Missing(s, x) = Missing(t, x)
  <2>1. CASE x \in Relevant(s)
    <3>1. Relevant(s) = xs /\ Relevant(t) = xs /\ s.ingress = t.ingress
      BY <1>3, <1>4, <2>1 DEF ConcernOf
    <3>2. {s.file[y] : y \in xs} = {t.file[y] : y \in xs}
      BY <1>3
    <3>3. s.diagnostics = t.diagnostics /\ s.unresolved \cap xs = t.unresolved \cap xs
      BY <1>3
    <3> HIDE DEF s, t, xs
    <3>4. RelevantDiagnostics(s) = RelevantDiagnostics(t)
      BY <3>1, <3>2, <3>3 DEF RelevantDiagnostics
    <3> QED
      BY <1>3, <3>4 DEF Missing
  <2>2. CASE x \notin Relevant(s)
    BY <1>3, <2>2 DEF Missing
  <2> QED
    BY <2>1, <2>2
<1>10. Fingerprint(ContextOn(s, x)) = Fingerprint(ContextOn(t, x))
  <2> HIDE DEF s, t
  <2>1. /\ Fingerprint(ContextOn(s, x)) =
              [evidence |-> Evidence(s, xs, FormOf(s, x)), diagnostics |-> Missing(s, x)]
        /\ Fingerprint(ContextOn(t, x)) =
              [evidence |-> Evidence(t, xs, FormOf(t, x)), diagnostics |-> Missing(t, x)]
    BY <1>1, <1>3, DiagnosticsOfContext
  <2> HIDE DEF xs
  <2> QED
    BY <1>6, <1>8, <1>9, <2>1
<1> QED
  BY <1>1, <1>10, FingerprintNamesContent
-----------------------------------------------------------------------------
(* A confirmation in the file is of a callable that could be chosen when it *)
(* was made, with the fingerprint that its context had then.                *)
Honest(cv) ==
  /\ cv.seen \in DOMAIN Code /\ Eligible(Code[cv.seen], cv.symbol)
  /\ cv.basis \in HumanBases
  /\ cv.fingerprint = FingerprintOf(ContextFor(cv.seen, cv.symbol))
Right(value) == value = Unset \/ Honest(value)
RightFile(cf) == Right(cf["customer_value"])
RightEdit(e) ==
  /\ e.pc # "none" /\ "customer_value" \in Owned(e) => Right(e.update["customer_value"])
  /\ e.pc \in {"compare", "replace"} => RightFile(e.original)

(* A resolution is the merchant's, or of a model that was shown everything, *)
(* or it decides nothing.                                                   *)
RightResolution(n, r) ==
  \/ r = None
  \/ r.basis \in HumanBases /\ Eligible(Code[n], r.symbol)
  \/ r.basis = "MODEL_UNIQUE" /\ Complete(n) /\ r.symbol \in Presented(n)
  \/ r.basis = "UNRESOLVED" /\ r.state # "UNIQUE"
RightArtifact(art) ==
  art # None => art.source \in DOMAIN Code /\ RightResolution(art.source, art.resolution)
RightCommand(c) ==
  /\ c.pc \in {"store", "edit"} => RightArtifact(c.artifact)
  /\ c.pc = "asked" => c.source \in DOMAIN Code

DecisionInv ==
  /\ source \in DOMAIN Code
  /\ config = [s \in Sections |-> config[s]] /\ RightFile(config)
  /\ \A w \in Writers : RightEdit(edit[w])
  /\ command = [p \in Writers |-> command[p]] /\ \A p \in Writers : RightCommand(command[p])
  /\ RightArtifact(artifact)

LEMMA DecisionInvInit == SemanticInit => DecisionInv
<1> SUFFICES ASSUME SemanticInit PROVE DecisionInv
  OBVIOUS
<1>1. PICK model : config = [s \in Sections |-> IF s = "ai" THEN model ELSE Unset]
  BY DEF SemanticInit, ConfigInit
<1>2. config = [s \in Sections |-> config[s]] /\ config["customer_value"] = Unset
  BY <1>1 DEF Sections
<1>3. \A w \in Writers : RightEdit(edit[w])
  BY DEF SemanticInit, ConfigInit, RightEdit, NoEdit
<1>4. \A p \in Writers : RightCommand(command[p])
  BY DEF SemanticInit, RightCommand, Ready
<1>5. RightArtifact(artifact) /\ source \in DOMAIN Code /\ command = [p \in Writers |-> command[p]]
  BY DEF SemanticInit, RightArtifact
<1> QED
  BY <1>2, <1>3, <1>4, <1>5 DEF DecisionInv, RightFile, Right

(* A confirmation that is taken is of a callable that can be chosen.        *)
LEMMA HumanIsRight ==
  ASSUME NEW n \in DOMAIN Code, NEW cf, RightFile(cf), HumanResolution(n, cf) # None
  PROVE  LET cv == cf["customer_value"]
         IN  /\ cv # Unset /\ Honest(cv) /\ Eligible(Code[n], cv.symbol)
             /\ FingerprintOf(ContextFor(n, cv.symbol)) = cv.fingerprint
             /\ HumanResolution(n, cf) = Resolved("UNIQUE", cv.basis, cv.symbol)
BY DEF HumanResolution, RightFile, Right

LEMMA ModelIsRight ==
  ASSUME NEW n \in DOMAIN Code, NEW answer
  PROVE  LET valid == ClassifyCandidates(answer, Presented(n)).valid
         IN  RightResolution(n, ResolveModelCandidates(valid, Complete(n)))
<1> DEFINE valid == ClassifyCandidates(answer, Presented(n)).valid
<1>1. valid \subseteq Presented(n)
  <2> DEFINE Unknown(i) ==
               IF answer[i].symbol \notin Presented(n) THEN {"UNKNOWN_SYMBOL_REFERENCE"}
               ELSE IF answer[i].cites \subseteq {answer[i].symbol} THEN {}
               ELSE {"UNKNOWN_EXCERPT_REFERENCE"}
             Repeated(i) == IF \E j \in 1 .. i - 1 : answer[j].symbol = answer[i].symbol
                            THEN {"DUPLICATE_CANDIDATE"} ELSE {}
  <2>1. valid = {answer[i].symbol : i \in {j \in DOMAIN answer : Repeated(j) \cup Unknown(j) = {}}}
    BY DEF ClassifyCandidates
  <2>2. \A i : Unknown(i) = {} => answer[i].symbol \in Presented(n)
    OBVIOUS
  <2> HIDE DEF Unknown, Repeated, valid
  <2> QED
    BY <2>1, <2>2
<1> HIDE DEF valid
<1>2. ASSUME Cardinality(valid) = 1 PROVE (CHOOSE x \in valid : TRUE) \in valid
  BY <1>2, FS_EmptySet
<1>3. RightResolution(n, ResolveModelCandidates(valid, Complete(n)))
  BY <1>1, <1>2 DEF RightResolution, ResolveModelCandidates, Resolved
<1> QED
  BY <1>3 DEF valid
-----------------------------------------------------------------------------
(* The commands.                                                            *)
LEMMA Stores ==
  ASSUME DecisionInv, NEW p \in Writers, NEW art, RightArtifact(art), Store(p, art),
         UNCHANGED <<config, source, artifact>>, \A w \in Writers : RightEdit(edit'[w])
  PROVE  DecisionInv'
<1> DEFINE c == command'[p]
<1>1. PICK new \in {[pc |-> "store", artifact |-> art], Done} : command' = [command EXCEPT ![p] = new]
  BY DEF Store
<1>2. RightCommand(new)
  BY <1>1 DEF RightCommand, Done
<1>3. /\ command' = [x \in Writers |-> command'[x]]
      /\ \A x \in Writers : RightCommand(command'[x])
  BY <1>1, <1>2 DEF DecisionInv
<1> QED
  BY <1>3 DEF DecisionInv

LEMMA Resolves == ASSUME DecisionInv, NEW p \in Writers, Resolve(p) PROVE DecisionInv'
<1> DEFINE human == HumanResolution(source, config)
<1>1. source \in DOMAIN Code /\ RightFile(config)
  BY DEF DecisionInv
<1>2. UNCHANGED <<config, edit, source, artifact>> /\ \A w \in Writers : RightEdit(edit'[w])
  BY DEF Resolve, configVars, DecisionInv
<1>3. ASSUME human # None, Store(p, Artifact(source, ContextFor(source, human.symbol), None, {}, human))
      PROVE  DecisionInv'
  <2>1. RightResolution(source, human)
    BY <1>1, <1>3, HumanIsRight DEF RightResolution, Resolved, Honest
  <2>2. RightArtifact(Artifact(source, ContextFor(source, human.symbol), None, {}, human))
    BY <1>1, <2>1 DEF RightArtifact, Artifact
  <2> QED
    BY <1>2, <1>3, <2>2, Stores
<1>4. ASSUME Store(p, Artifact(source, Main(source), None, {}, None))
      PROVE  DecisionInv'
  <2>1. RightArtifact(Artifact(source, Main(source), None, {}, None))
    BY <1>1 DEF RightArtifact, Artifact, RightResolution
  <2> QED
    BY <1>2, <1>4, <2>1, Stores
<1>5. ASSUME command' = [command EXCEPT ![p] =
                           [pc |-> "asked", source |-> source, model |-> config["ai"]]]
      PROVE  DecisionInv'
  <2> DEFINE new == [pc |-> "asked", source |-> source, model |-> config["ai"]]
  <2>1. RightCommand(new)
    BY <1>1 DEF RightCommand
  <2>2. command' = [command EXCEPT ![p] = new]
    BY <1>5
  <2> HIDE DEF new
  <2>3. /\ command' = [x \in Writers |-> command'[x]]
        /\ \A x \in Writers : RightCommand(command'[x])
    BY <2>1, <2>2 DEF DecisionInv
  <2> QED
    BY <1>2, <2>3 DEF DecisionInv
<1> QED
  BY <1>3, <1>4, <1>5 DEF Resolve

LEMMA Answered == ASSUME DecisionInv, NEW p \in Writers, Answer(p) PROVE DecisionInv'
<1> DEFINE n == command[p].source
           bundle == Request(n, command[p].model)
<1>1. n \in DOMAIN Code
  BY DEF Answer, DecisionInv, RightCommand
<1>2. UNCHANGED <<config, edit, source, artifact>> /\ \A w \in Writers : RightEdit(edit'[w])
  BY DEF Answer, configVars, DecisionInv
<1>3. PICK valid, r : RightResolution(n, r) /\ Store(p, Artifact(n, Main(n), bundle, valid, r))
  <2>1. RightResolution(n, None)
    BY DEF RightResolution
  <2>2. \A answer : RightResolution(n, ResolveModelCandidates(
                      ClassifyCandidates(answer, Presented(n)).valid, Complete(n)))
    BY <1>1, ModelIsRight
  <2> QED
    BY <2>1, <2>2 DEF Answer
<1> DEFINE art == Artifact(n, Main(n), bundle, valid, r)
<1>4. RightArtifact(art)
  BY <1>1, <1>3 DEF RightArtifact, Artifact
<1> QED
  BY <1>2, <1>3, <1>4, Stores

LEMMA Writes == ASSUME DecisionInv, NEW p \in Writers, WriteArtifact(p) PROVE DecisionInv'
<1>1. /\ command' = [command EXCEPT ![p] = Done] /\ artifact' = command[p].artifact
      /\ RightArtifact(artifact') /\ RightCommand(Done)
  BY DEF WriteArtifact, DecisionInv, RightCommand, Done
<1>2. /\ command' = [x \in Writers |-> command'[x]]
      /\ \A x \in Writers : RightCommand(command'[x])
  BY <1>1 DEF DecisionInv
<1> QED
  BY <1>1, <1>2 DEF DecisionInv, WriteArtifact, configVars

(* A command that starts an edit with what is right.                        *)
LEMMA StartsRight ==
  ASSUME DecisionInv, EditInv, NEW p \in Writers, NEW update, StartEdit(p, update),
         "customer_value" \in DOMAIN update => Right(update["customer_value"]),
         NEW art, RightArtifact(art),
         command' = [command EXCEPT ![p] = [pc |-> "edit", artifact |-> art]],
         UNCHANGED <<source, artifact>>
  PROVE  DecisionInv'
<1> DEFINE e == [pc |-> "read", update |-> update, original |-> Unset, raced |-> FALSE]
           c == [pc |-> "edit", artifact |-> art]
<1>1. RightEdit(e) /\ RightCommand(c)
  BY DEF RightEdit, Owned, RightCommand
<1>2. edit' = [edit EXCEPT ![p] = e] /\ UNCHANGED config
  BY DEF StartEdit
<1> HIDE DEF e, c
<1>3. \A w \in Writers : RightEdit(edit'[w])
  BY <1>1, <1>2 DEF DecisionInv, EditInv
<1>4. command' = [command EXCEPT ![p] = c]
  BY DEF c
<1>5. /\ command' = [x \in Writers |-> command'[x]]
      /\ \A x \in Writers : RightCommand(command'[x])
  BY <1>1, <1>4 DEF DecisionInv
<1> QED
  BY <1>2, <1>3, <1>5 DEF DecisionInv

LEMMA Confirms == ASSUME DecisionInv, EditInv, NEW p \in Writers, Confirm(p) PROVE DecisionInv'
<1>1. PICK x : \E art \in {Confirmation(source, x,
                            ReusableCandidates(source, config, ContextFor(source, x), artifact))} :
        /\ Eligible(Code[source], x)
        /\ StartEdit(p, [s \in {"customer_value"} |->
             [symbol |-> x, fingerprint |-> FingerprintOf(art.context),
              basis |-> art.resolution.basis, seen |-> source]])
        /\ command' = [command EXCEPT ![p] = [pc |-> "edit", artifact |-> art]]
  BY DEF Confirm
<1> DEFINE art == Confirmation(source, x,
                    ReusableCandidates(source, config, ContextFor(source, x), artifact))
           cv == [symbol |-> x, fingerprint |-> FingerprintOf(art.context),
                  basis |-> art.resolution.basis, seen |-> source]
           update == [s \in {"customer_value"} |-> cv]
<1>2. /\ Eligible(Code[source], x) /\ StartEdit(p, update)
      /\ command' = [command EXCEPT ![p] = [pc |-> "edit", artifact |-> art]]
  BY <1>1
<1>3. /\ art.source = source /\ art.context = ContextFor(source, x)
      /\ art.resolution.basis \in HumanBases /\ art.resolution.symbol = x
  BY DEF Confirmation, Artifact, Resolved, HumanBases
<1> HIDE DEF art
<1>4. source \in DOMAIN Code /\ UNCHANGED <<source, artifact>>
  BY DEF DecisionInv, Confirm
<1>5. RightArtifact(art)
  BY <1>2, <1>3, <1>4 DEF RightArtifact, RightResolution
<1>6. Honest(cv)
  BY <1>2, <1>3, <1>4 DEF Honest
<1>7. Right(update["customer_value"])
  BY <1>6 DEF Right
<1> HIDE DEF update
<1> QED
  BY <1>2, <1>4, <1>5, <1>7, StartsRight

LEMMA OtherEdits ==
  ASSUME DecisionInv, EditInv, NEW p \in Writers, ConfirmPolicy(p) \/ SetUp(p)
  PROVE  DecisionInv'
<1>1. PICK own, v : "customer_value" \notin own /\ StartEdit(p, [s \in own |-> v])
  <2>1. CASE ConfirmPolicy(p)
    BY <2>1 DEF ConfirmPolicy
  <2>2. CASE SetUp(p)
    <3>1. "customer_value" \notin {"ai"}
      OBVIOUS
    <3> QED
      BY <2>2, <3>1 DEF SetUp
  <2> QED
    BY <2>1, <2>2
<1> DEFINE update == [s \in own |-> v]
<1>2. "customer_value" \notin DOMAIN update /\ StartEdit(p, update)
  BY <1>1
<1>3. /\ command' = [command EXCEPT ![p] = [pc |-> "edit", artifact |-> None]]
      /\ UNCHANGED <<source, artifact>> /\ RightArtifact(None)
  BY DEF ConfirmPolicy, SetUp, RightArtifact
<1> HIDE DEF update
<1> QED
  BY <1>2, <1>3, StartsRight
-----------------------------------------------------------------------------
(* The steps of an edit.                                                    *)
LEMMA RightFields ==
  ASSUME NEW a, NEW b, NEW c, NEW d
  PROVE  RightEdit(Fields(a, b, c, d)) <=>
           /\ a # "none" /\ "customer_value" \in DOMAIN b => Right(b["customer_value"])
           /\ a \in {"compare", "replace"} => RightFile(c)
<1> DEFINE e == Fields(a, b, c, d)
<1>1. e.pc = a /\ e.update = b /\ e.original = c
  BY DEF Fields
<1> HIDE DEF e
<1> QED
  BY <1>1 DEF e, RightEdit, Owned

LEMMA EditMovesRight ==
  ASSUME DecisionInv, EditInv, NEW w \in Writers, ReadOriginal(w) \/ CompareOriginal(w)
  PROVE  UNCHANGED config /\ \A x \in Writers : RightEdit(edit'[x])
<1> DEFINE f == edit[w]
<1>1. f = Fields(f.pc, f.update, f.original, f.raced) /\ f.pc \in {"read", "compare"}
  BY Begun DEF ReadOriginal, CompareOriginal
<1>2. RightEdit(Fields(f.pc, f.update, f.original, f.raced))
  BY <1>1 DEF DecisionInv
<1>3. "customer_value" \in DOMAIN f.update => Right(f.update["customer_value"])
  BY <1>1, <1>2, RightFields
<1>4. f.pc = "compare" => RightFile(f.original)
  BY <1>2, RightFields
<1>5. PICK e : edit' = [edit EXCEPT ![w] = e] /\ RightEdit(e)
  <2>1. CASE ReadOriginal(w)
    <3> DEFINE e == ReadIn(f, "compare", config)
    <3>1. e = Fields("compare", f.update, config, f.raced)
      BY <1>1, FieldsUpdated
    <3>2. edit' = [edit EXCEPT ![w] = e]
      BY <2>1 DEF ReadOriginal, EditInv, ReadIn
    <3> HIDE DEF e, f
    <3>3. RightEdit(e)
      BY <1>3, <3>1, RightFields DEF DecisionInv
    <3> QED
      BY <3>2, <3>3
  <2>2. CASE CompareOriginal(w)
    <3> DEFINE pc == IF Written(config) = Written(f.original) THEN "replace" ELSE "refused"
               e == MovedTo(f, pc)
    <3>1. e = Fields(pc, f.update, f.original, f.raced)
      BY <1>1, FieldsUpdated
    <3>2. edit' = [edit EXCEPT ![w] = e]
      BY <2>2 DEF CompareOriginal, EditInv, MovedTo
    <3>3. f.pc = "compare"
      BY <2>2 DEF CompareOriginal
    <3> HIDE DEF e, f, pc
    <3>4. RightEdit(e)
      BY <1>3, <1>4, <3>1, <3>3, RightFields
    <3> QED
      BY <3>2, <3>4
  <2> QED
    BY <2>1, <2>2
<1>6. UNCHANGED config
  BY DEF ReadOriginal, CompareOriginal
<1> QED
  BY <1>5, <1>6 DEF DecisionInv, EditInv

LEMMA RacedAreRight ==
  ASSUME DecisionInv, EditInv, NEW ws, NEW w \in ws, w \in Writers
  PROVE  RightEdit(Raced(ws)[w])
<1> DEFINE f == edit[w]
<1>1. CASE f.pc = "replace"
  <2>1. f = Fields(f.pc, f.update, f.original, f.raced)
    BY <1>1, Begun
  <2> DEFINE yes == TRUE
  <2>2. Raced(ws)[w] = RacedAs(f, yes)
    BY <1>1 DEF Raced, RacedAs
  <2> HIDE DEF yes
  <2>3. Raced(ws)[w] = Fields(f.pc, f.update, f.original, yes)
    BY <2>1, <2>2, FieldsUpdated
  <2>4. RightEdit(Fields(f.pc, f.update, f.original, f.raced))
    BY <2>1 DEF DecisionInv
  <2> HIDE DEF f
  <2> QED
    BY <2>3, <2>4, RightFields
<1>2. CASE f.pc # "replace"
  BY <1>2, RacedAreMarked DEF DecisionInv
<1> QED
  BY <1>1, <1>2

LEMMA ReplacesRight ==
  ASSUME DecisionInv, EditInv, NEW w \in Writers, Replace(w)
  PROVE  /\ config' = [s \in Sections |-> config'[s]] /\ RightFile(config')
         /\ \A x \in Writers : RightEdit(edit'[x])
<1> DEFINE f == edit[w]
           others == Writers \ {w}
           e == MovedTo(f, "written")
<1>1. f.pc = "replace" /\ f = Fields(f.pc, f.update, f.original, f.raced)
  BY Begun DEF Replace
<1>2. RightEdit(Fields(f.pc, f.update, f.original, f.raced))
  BY <1>1 DEF DecisionInv
<1>3. /\ "customer_value" \in DOMAIN f.update => Right(f.update["customer_value"])
      /\ RightFile(f.original)
  BY <1>1, <1>2, RightFields
<1>4. config' = [s \in Sections |-> IF s \in DOMAIN f.update THEN f.update[s] ELSE f.original[s]]
  BY DEF Replace, Owned
<1>5. config' = [s \in Sections |-> config'[s]] /\ RightFile(config')
  BY <1>3, <1>4 DEF RightFile, Sections
<1>6. Raced(others)[w] = f
  BY DEF Raced
<1>7. edit' = [x \in Writers |-> IF x = w THEN e ELSE Raced(others)[x]]
  BY <1>6 DEF Replace, Raced, MovedTo
<1>8. RightEdit(e)
  <2>1. e = Fields("written", f.update, f.original, f.raced)
    BY <1>1, FieldsUpdated
  <2> HIDE DEF e, f
  <2> QED
    BY <1>3, <2>1, RightFields
<1>9. \A x \in others : RightEdit(Raced(others)[x])
  BY RacedAreRight
<1> HIDE DEF e, f
<1> QED
  BY <1>5, <1>7, <1>8, <1>9

LEMMA Edits == ASSUME DecisionInv, EditInv, NEW p \in Writers, Edit(p) PROVE DecisionInv'
<1>1. UNCHANGED <<source, artifact, command>>
  BY DEF Edit, semanticVars
<1>2. /\ config' = [s \in Sections |-> config'[s]] /\ RightFile(config')
      /\ \A x \in Writers : RightEdit(edit'[x])
  <2>1. CASE ReadOriginal(p) \/ CompareOriginal(p)
    BY <2>1, EditMovesRight DEF DecisionInv
  <2>2. CASE Replace(p)
    BY <2>2, ReplacesRight
  <2> QED
    BY <2>1, <2>2 DEF Edit, EditStep
<1> QED
  BY <1>1, <1>2 DEF DecisionInv

LEMMA Withdraws == ASSUME DecisionInv, EditInv, Withdraw PROVE DecisionInv'
<1>1. PICK s \in Sections : EditByHand(s, Unset)
  BY DEF Withdraw
<1>2. config' = [config EXCEPT ![s] = Unset] /\ edit' = Raced(Writers)
  BY <1>1 DEF EditByHand
<1>3. config' = [x \in Sections |-> config'[x]] /\ RightFile(config')
  BY <1>2 DEF DecisionInv, RightFile, Right, Sections
<1>4. \A x \in Writers : RightEdit(edit'[x])
  BY <1>2, RacedAreRight
<1> QED
  BY <1>3, <1>4 DEF DecisionInv, Withdraw

LEMMA EditsEnd == ASSUME DecisionInv, NEW p \in Writers, EditEnds(p) PROVE DecisionInv'
<1>1. UNCHANGED <<config, edit, source, artifact>> /\ \A w \in Writers : RightEdit(edit'[w])
  BY DEF EditEnds, configVars, DecisionInv
<1>2. RightArtifact(command[p].artifact)
  BY DEF EditEnds, DecisionInv, RightCommand
<1>3. CASE Store(p, command[p].artifact)
  BY <1>1, <1>2, <1>3, Stores
<1>4. CASE command' = [command EXCEPT ![p] = Done]
  <2>1. RightCommand(Done)
    BY DEF RightCommand, Done
  <2>2. /\ command' = [x \in Writers |-> command'[x]]
        /\ \A x \in Writers : RightCommand(command'[x])
    BY <1>4, <2>1 DEF DecisionInv
  <2> QED
    BY <1>1, <2>2 DEF DecisionInv
<1> QED
  BY <1>3, <1>4 DEF EditEnds

LEMMA DecisionInvStep == ASSUME DecisionInv, EditInv, [SemanticNext]_vars PROVE DecisionInv'
<1>1. CASE UNCHANGED vars
  BY <1>1 DEF vars, DecisionInv
<1>2. CASE EditSource
  BY <1>2 DEF EditSource, configVars, DecisionInv
<1>3. CASE Withdraw
  BY <1>3, Withdraws
<1>4. ASSUME NEW p \in Writers,
             \/ Resolve(p) \/ Answer(p) \/ WriteArtifact(p) \/ Confirm(p)
             \/ ConfirmPolicy(p) \/ SetUp(p) \/ Edit(p) \/ EditEnds(p)
      PROVE  DecisionInv'
  BY <1>4, Resolves, Answered, Writes, Confirms, OtherEdits, Edits, EditsEnd
<1> QED
  BY <1>1, <1>2, <1>3, <1>4 DEF SemanticNext

LEMMA DecisionInvariant == SemanticSpec => []DecisionInv
<1>1. SemanticInit => DecisionInv /\ EditInv
  BY DecisionInvInit, EditInvInit
<1>2. DecisionInv /\ EditInv /\ [SemanticNext]_vars => DecisionInv' /\ EditInv'
  BY DecisionInvStep, EditInvStep
<1> QED
  BY <1>1, <1>2, PTL DEF SemanticSpec
-----------------------------------------------------------------------------
(* What counts now comes from the merchant, or from an artifact of the      *)
(* source as it is.                                                         *)
LEMMA NowIsRight ==
  ASSUME DecisionInv, Now # None
  PROVE  \/ /\ HumanResolution(source, config) # None
            /\ Now = HumanResolution(source, config)
            /\ DecidedOn = config["customer_value"].seen
         \/ /\ HumanResolution(source, config) = None /\ artifact # None
            /\ artifact.source = source /\ Now = artifact.resolution
            /\ DecidedOn = source /\ RightResolution(source, Now)
BY DEF Now, Snapshot, DecidedOn, DecisionInv, RightArtifact

LEMMA PresentedAreEligible ==
  ASSUME NEW n \in DOMAIN Code, NEW x \in Presented(n)
  PROVE  Eligible(Code[n], x)
<1>1. SourceValid(Code[n])
  BY CodeAssumption
<1>2. Presented(n) = MainContext(Code[n]).presented
  BY DEF Presented, Contexts, ContextsOf
<1> QED
  BY <1>1, <1>2, CompletePresentsAll, RelevantIsLeast DEF Eligible

(* What is taken for the customer value now is a callable of the source as  *)
(* it is, and the callables that the decision was about, their bodies and   *)
(* their calls are as they were (rebuild_current_semantic_snapshot and      *)
(* _current_human_resolution of application/semantics.py).                  *)
THEOREM AuthorityIsCurrent == SemanticSpec => []AuthorityIsOfCurrentCode
<1>1. DecisionInv => AuthorityIsOfCurrentCode
  <2> SUFFICES ASSUME DecisionInv, Now # None, Now.state = "UNIQUE"
               PROVE  /\ Eligible(Code[source], Now.symbol)
                      /\ Concern[source][Now.symbol] = Concern[DecidedOn][Now.symbol]
                      /\ SameCode(source, DecidedOn, Concern[source][Now.symbol])
    BY DEF AuthorityIsOfCurrentCode
  <2>1. source \in DOMAIN Code /\ RightFile(config)
    BY DEF DecisionInv
  <2>2. CASE HumanResolution(source, config) # None
    <3> DEFINE cv == config["customer_value"]
    <3>1. /\ Honest(cv) /\ Eligible(Code[source], cv.symbol)
          /\ FingerprintOf(ContextFor(source, cv.symbol)) = cv.fingerprint
          /\ Now.symbol = cv.symbol /\ DecidedOn = cv.seen
      BY <2>1, <2>2, NowIsRight, HumanIsRight DEF Resolved
    <3>2. cv.symbol \in Code[source].callable \cap Code[cv.seen].callable
      BY <3>1 DEF Honest, Eligible
    <3> QED
      BY <2>1, <3>1, <3>2, FingerprintIsOfCode DEF Honest
  <2>3. CASE HumanResolution(source, config) = None
    <3>1. DecidedOn = source /\ RightResolution(source, Now)
      BY <2>3, NowIsRight
    <3>2. Eligible(Code[source], Now.symbol)
      BY <2>1, <3>1, PresentedAreEligible DEF RightResolution
    <3>3. Now.symbol \in Code[source].callable \cap Code[source].callable
      BY <3>2 DEF Eligible
    <3> QED
      BY <2>1, <3>1, <3>2, <3>3, FingerprintIsOfCode
  <2> QED
    BY <2>2, <2>3
<1> QED
  BY <1>1, DecisionInvariant, PTL

(* What the merchant confirmed stays decided until something that it        *)
(* concerns is edited, whatever models answer and commands are killed       *)
(* (confirm_customer_value, _current_human_resolution).                     *)
THEOREM HumanDecisionsStand == SemanticSpec => []HumanDecisionStands
<1>1. DecisionInv => HumanDecisionStands
  <2> DEFINE cv == config["customer_value"]
  <2> SUFFICES ASSUME DecisionInv, cv # Unset, Untouched(source, cv.seen, cv.symbol)
               PROVE  Now # None /\ Now.symbol = cv.symbol /\ Now.basis = cv.basis
    BY DEF HumanDecisionStands
  <2>1. source \in DOMAIN Code /\ Honest(cv)
    BY DEF DecisionInv, RightFile, Right
  <2>2. FingerprintOf(ContextFor(source, cv.symbol)) = cv.fingerprint
    BY <2>1, UntouchedKeepsFingerprint DEF Honest
  <2>3. Eligible(Code[source], cv.symbol)
    <3> DEFINE x == cv.symbol
               m == cv.seen
    <3>1. m \in DOMAIN Code /\ x \in Code[source].callable /\ x \in Code[m].callable \ Code[m].owners
      BY <2>1 DEF Untouched, Honest, Eligible
    <3>2. Code[source].owners \cap Concern[source][x] = Code[m].owners \cap Concern[source][x]
      BY DEF Untouched
    <3>3. x \in Concern[source][x]
      BY <2>1, <3>1, CodeAssumption, ConcernComputed, ConcernIsClosed
    <3> HIDE DEF x, m
    <3>4. x \in Code[source].callable \ Code[source].owners
      BY <3>1, <3>2, <3>3
    <3> QED
      BY <3>4 DEF Eligible, x
  <2>4. HumanResolution(source, config) = Resolved("UNIQUE", cv.basis, cv.symbol)
    BY <2>2, <2>3 DEF HumanResolution
  <2>5. Resolved("UNIQUE", cv.basis, cv.symbol) # None
    BY DEF Resolved, None
  <2>6. Now = Resolved("UNIQUE", cv.basis, cv.symbol)
    BY <2>4, <2>5 DEF Now, Snapshot
  <2> QED
    BY <2>5, <2>6 DEF Resolved
<1> QED
  BY <1>1, DecisionInvariant, PTL

(* A model decides alone only when it was shown every callable that payment *)
(* reaches, and nothing was known to be missing (resolve_model_candidates,  *)
(* build_semantic_context).                                                 *)
THEOREM ModelsSawEveryCandidate == SemanticSpec => []ModelSawEveryCandidate
<1>1. DecisionInv => ModelSawEveryCandidate
  <2> SUFFICES ASSUME DecisionInv, Now # None, Now.basis = "MODEL_UNIQUE"
               PROVE  /\ ReachedIn[source] \ Code[source].owners \subseteq Presented(artifact.source)
                      /\ Code[source].unresolved \cap ReachedIn[source] = {}
                      /\ Now.symbol \in Presented(artifact.source)
    BY DEF ModelSawEveryCandidate
  <2>1. source \in DOMAIN Code /\ RightFile(config)
    BY DEF DecisionInv
  <2>2. HumanResolution(source, config) = None
    BY <2>1, NowIsRight, HumanIsRight DEF Resolved, Honest, HumanBases
  <2>3. /\ artifact.source = source /\ Complete(source) /\ Now.symbol \in Presented(source)
    BY <2>2, NowIsRight DEF RightResolution, HumanBases
  <2>4. Contexts[source][0] = MainContext(Code[source])
    BY <2>1 DEF Contexts, ContextsOf
  <2>5. /\ MainContext(Code[source]).presented = Relevant(Code[source]) \ Code[source].owners
        /\ Code[source].unresolved \cap Relevant(Code[source]) = {}
    BY <2>1, <2>3, <2>4, CodeAssumption, CompletePresentsAll DEF Complete
  <2>6. ReachedIn[source] = Relevant(Code[source])
    BY <2>1, CodeAssumption, ReachedIsRelevant DEF ReachedIn
  <2> QED
    BY <2>3, <2>4, <2>5, <2>6 DEF Presented
<1> QED
  BY <1>1, DecisionInvariant, PTL
=============================================================================
