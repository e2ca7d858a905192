-------------------------- MODULE RouteTablesProofs --------------------------
(***************************************************************************)
(* The routes of a capability are those of the application, for any text   *)
(* of a module.                                                            *)
(*                                                                         *)
(* An effective route is told by its identity, since an instance is told   *)
(* by its identity, a record by its anchor and a walk by its beginning and *)
(* its includes.  What a worker finds of a plan is told by induction on    *)
(* the plan, and what the application serves by induction on the execution *)
(* of the text: every entry of a table comes from one decorator, through   *)
(* includes that no other entry of the table has, and a graph that nothing *)
(* reduced has walked all of them.                                         *)
(***************************************************************************)
EXTENDS RouteTables, TLAPS, WellFoundedInduction, SequenceTheorems, FiniteSetTheorems

LEMMA LeastNatural ==
  ASSUME NEW T \in SUBSET Nat, T # {}
  PROVE  \E n \in T : \A m \in T : n <= m
<1> DEFINE R == {ss \in Nat \X Nat : ss[1] < ss[2]}
<1>1. R = OpToRel(<, Nat)
  BY DEF OpToRel
<1>2. IsWellFoundedOn(R, Nat)
  BY <1>1, NatLessThanWellFounded
<1> HIDE DEF R
<1>3. PICK n \in T : \A m \in T : ~(<<m, n>> \in R)
  BY <1>2, WFMin
<1>4. \A m \in T : m \in Nat /\ n \in Nat /\ ~(m < n)
  BY <1>3 DEF R
<1> QED
  BY <1>4

LEMMA InductionUpTo ==
  ASSUME NEW bound \in Nat, NEW G, 0 \in G, \A n \in 0 .. bound - 1 : n \in G => n + 1 \in G
  PROVE  0 .. bound \subseteq G
<1> SUFFICES ASSUME 0 .. bound \ G # {} PROVE FALSE
  OBVIOUS
<1>1. PICK n \in 0 .. bound \ G : \A m \in 0 .. bound \ G : n <= m
  <2>1. 0 .. bound \ G \in SUBSET Nat
    OBVIOUS
  <2> QED
    BY <2>1, LeastNatural
<1>2. n - 1 \in 0 .. bound - 1 /\ n - 1 \in G
  BY <1>1
<1> QED
  BY <1>1, <1>2

LEMMA GreatestNatural ==
  ASSUME NEW n \in Nat, NEW S \in SUBSET (1 .. n), S # {}
  PROVE  Max(S) \in S /\ \A x \in S : x <= Max(S)
<1> DEFINE T == {n - x : x \in S}
<1>1. T \in SUBSET Nat /\ T # {}
  <2>1. \A x \in S : n - x \in Nat
    OBVIOUS
  <2>2. \A t \in T : t \in Nat
    BY <2>1
  <2> QED
    BY <2>2
<1>2. PICK t \in T : \A u \in T : t <= u
  BY <1>1, LeastNatural
<1>3. PICK m \in S : t = n - m
  OBVIOUS
<1>4. \A x \in S : n - m <= n - x
  BY <1>2, <1>3
<1>5. \A x \in S : m >= x
  BY <1>4
<1>6. \E m0 \in S : \A x \in S : m0 >= x
  BY <1>5
<1>7. Max(S) \in S /\ \A x \in S : Max(S) >= x
  BY <1>6 DEF Max
<1> QED
  BY <1>7

LEMMA LeastOfSet ==
  ASSUME NEW S \in SUBSET Nat, S # {}
  PROVE  Min(S) \in S /\ \A x \in S : Min(S) <= x
BY LeastNatural DEF Min

LEMMA MoreByOne ==
  ASSUME NEW T, IsFiniteSet(T), NEW S \in SUBSET T, NEW x \in T, x \notin S
  PROVE  Cardinality(S) # Cardinality(T)
BY FS_Subset

LEMMA SameInterval ==
  ASSUME NEW a \in Nat, NEW b \in Nat, 1 .. a = 1 .. b
  PROVE  a = b
<1>1. a > b => a \in 1 .. a /\ a \notin 1 .. b
  OBVIOUS
<1>2. b > a => b \in 1 .. b /\ b \notin 1 .. a
  OBVIOUS
<1> QED
  BY <1>1, <1>2

(* The image of a finite set under a function.                              *)
LEMMA FiniteImage ==
  ASSUME NEW S, IsFiniteSet(S), NEW f, S \subseteq DOMAIN f
  PROVE  IsFiniteSet({f[x] : x \in S})
<1> DEFINE T == {f[x] : x \in S}
           g == [x \in S |-> f[x]]
<1>1. g \in Surjection(S, T)
  BY DEF Surjection
<1> QED
  BY <1>1, FS_Surjection
-----------------------------------------------------------------------------
(* The text, and what its names stand for.                                  *)
Size(p) == Len(p.text)

LEMMA TextOf ==
  ASSUME NEW p, ProgramValid(p)
  PROVE  /\ Size(p) \in Nat /\ DOMAIN p.text = 1 .. Size(p)
         /\ \A i \in 1 .. Size(p) : StatementValid(p.text[i])
         /\ \A st : Statements(p, st) \subseteq 1 .. Size(p)
         /\ Binding(p) \subseteq 1 .. Size(p)
         /\ IsFiniteSet(1 .. Size(p))
<1>1. Size(p) \in Nat /\ DOMAIN p.text = 1 .. Size(p) /\ \A i \in 1 .. Size(p) : StatementValid(p.text[i])
  BY DEF ProgramValid, Size
<1>2. \A st : Statements(p, st) \subseteq 1 .. Size(p)
  BY <1>1 DEF Statements
<1>3. IsFiniteSet(1 .. Size(p))
  BY <1>1, FS_Interval
<1> QED
  BY <1>1, <1>2, <1>3 DEF Binding

IsLatest(p, name, before, i) ==
  /\ i \in Binding(p) /\ i < before /\ p.text[i].name = name
  /\ \A j \in Binding(p) : j < before /\ p.text[j].name = name => j <= i

LEMMA LatestIsLatest ==
  ASSUME NEW p, ProgramValid(p), NEW name, NEW before
  PROVE  \/ /\ LatestBinding(p, name, before) = 0
            /\ \A j \in Binding(p) : j < before => p.text[j].name # name
         \/ /\ LatestBinding(p, name, before) # 0
            /\ IsLatest(p, name, before, LatestBinding(p, name, before))
<1> DEFINE at == {i \in Binding(p) : i < before /\ p.text[i].name = name}
<1>1. at \in SUBSET (1 .. Size(p)) /\ Size(p) \in Nat
  BY TextOf
<1>2. LatestBinding(p, name, before) = IF at = {} THEN 0 ELSE Max(at)
  BY DEF LatestBinding
<1>3. CASE at = {}
  BY <1>2, <1>3
<1>4. CASE at # {}
  <2>1. Max(at) \in at /\ \A x \in at : x <= Max(at)
    BY ONLY <1>1, <1>4, GreatestNatural
  <2>2. Max(at) # 0
    <3>1. Max(at) \in 1 .. Size(p)
      BY ONLY <2>1, <1>1
    <3> QED
      BY ONLY <3>1, <1>1
  <2> QED
    BY <1>2, <1>4, <2>1, <2>2 DEF IsLatest
<1> QED
  BY <1>3, <1>4

(* What a binding stands for, where f says it of the bindings before it.    *)
BindingAt(p, f, i) ==
  [seen \in SUBSET Names(p) |->
    LET s == p.text[i]
        of == LatestBinding(p, s.of, i)
    IN  IF s.st = "new" THEN i
        ELSE IF s.st = "alias" /\ of # 0 /\ s.of \notin seen THEN f[of][seen \cup {s.of}] ELSE 0]

LEMMA BindingsUnfold ==
  ASSUME NEW p, ProgramValid(p), NEW i \in 1 .. Size(p)
  PROVE  Bindings(p)[i] = BindingAt(p, Bindings(p), i)
<1> DEFINE N == Size(p)
           Unfolded(g, n) == g = [k \in 1 .. n |-> BindingAt(p, g, k)]
           G == {n \in Nat : \E g : Unfolded(g, n)}
<1>1. N \in Nat /\ DOMAIN p.text = 1 .. N
  BY TextOf
<1>2. Bindings(p) = CHOOSE g : g = [k \in 1 .. N |-> BindingAt(p, g, k)]
  <2>1. Bindings(p) = CHOOSE g : g = [k \in DOMAIN p.text |-> BindingAt(p, g, k)]
    BY DEF Bindings, BindingAt
  <2> QED
    BY <2>1, <1>1
<1>3. \A k \in 1 .. N : \A f, g : (\A m \in 1 .. N : m < k => f[m] = g[m]) => BindingAt(p, f, k) = BindingAt(p, g, k)
  <2> SUFFICES ASSUME NEW k \in 1 .. N, NEW f, NEW g, \A m \in 1 .. N : m < k => f[m] = g[m]
               PROVE  BindingAt(p, f, k) = BindingAt(p, g, k)
    OBVIOUS
  <2> DEFINE of == LatestBinding(p, p.text[k].of, k)
  <2>1. of # 0 => of \in 1 .. N /\ of < k
    BY LatestIsLatest, TextOf DEF IsLatest
  <2>2. of # 0 => f[of] = g[of]
    BY <2>1
  <2> HIDE DEF of
  <2>3. \A seen \in SUBSET Names(p) :
          (IF p.text[k].st = "new" THEN k
           ELSE IF p.text[k].st = "alias" /\ of # 0 /\ p.text[k].of \notin seen THEN f[of][seen \cup {p.text[k].of}] ELSE 0)
          = (IF p.text[k].st = "new" THEN k
             ELSE IF p.text[k].st = "alias" /\ of # 0 /\ p.text[k].of \notin seen THEN g[of][seen \cup {p.text[k].of}] ELSE 0)
    BY <2>2
  <2> QED
    BY <2>3 DEF BindingAt, of
<1> HIDE DEF N
<1>4. 0 \in G
  <2> DEFINE g == [k \in 1 .. 0 |-> BindingAt(p, <<>>, k)]
  <2>1. \A k : k \notin 1 .. 0
    OBVIOUS
  <2>2. Unfolded(g, 0)
    BY <2>1
  <2> QED
    BY <2>2
<1>5. ASSUME NEW n \in 0 .. N - 1, n \in G PROVE n + 1 \in G
  <2>1. PICK g : Unfolded(g, n)
    BY <1>5
  <2> DEFINE h == [k \in 1 .. n + 1 |-> BindingAt(p, g, k)]
  <2>2. \A k \in 1 .. n : g[k] = BindingAt(p, g, k)
    BY <2>1
  <2>3. h = [k \in 1 .. n + 1 |-> h[k]] /\ \A k \in 1 .. n + 1 : h[k] = BindingAt(p, g, k)
    OBVIOUS
  <2> HIDE DEF h
  <2>4. \A k \in 1 .. n : g[k] = h[k]
    <3>1. \A k \in 1 .. n : k \in 1 .. n + 1
      BY <1>1
    <3> QED
      BY <2>2, <2>3, <3>1
  <2>5. ASSUME NEW k \in 1 .. n + 1 PROVE h[k] = BindingAt(p, h, k)
    <3>1. k \in 1 .. N /\ \A m \in 1 .. N : m < k => g[m] = h[m]
      <4>1. k \in 1 .. N
        BY <1>1
      <4>2. \A m \in 1 .. N : m < k => m \in 1 .. n
        BY <1>1
      <4> QED
        BY <2>4, <4>1, <4>2
    <3> QED
      BY <1>3, <2>3, <3>1
  <2>6. Unfolded(h, n + 1)
    BY <2>3, <2>5
  <2>7. (\E f : Unfolded(f, n + 1)) /\ n + 1 \in Nat
    BY ONLY <2>6, <1>1
  <2> QED
    BY ONLY <2>7
<1>6. N \in G
  <2> HIDE DEF G
  <2>1. 0 .. N \subseteq G
    BY ONLY <1>1, <1>4, <1>5, InductionUpTo
  <2> QED
    BY <1>1, <2>1
<1>7. \E g : g = [k \in 1 .. N |-> BindingAt(p, g, k)]
  BY <1>6
<1> DEFINE c == Bindings(p)
<1>8. c = [k \in 1 .. N |-> BindingAt(p, c, k)]
  BY <1>2, <1>7
<1> HIDE DEF c
<1>9. \A k \in 1 .. N : c[k] = BindingAt(p, c, k)
  BY <1>8
<1> QED
  BY <1>9 DEF c, N

LEMMA BindingIsNew ==
  ASSUME NEW p, ProgramValid(p)
  PROVE  \A i \in 1 .. Size(p) : \A seen \in SUBSET Names(p) : Bindings(p)[i][seen] \in Statements(p, "new") \cup {0}
<1> DEFINE IsNew(i) == \A seen \in SUBSET Names(p) : Bindings(p)[i][seen] \in Statements(p, "new") \cup {0}
           G == {n \in Nat : \A i \in 1 .. Size(p) : i <= n => IsNew(i)}
<1>1. Size(p) \in Nat /\ DOMAIN p.text = 1 .. Size(p)
  BY TextOf
<1>2. 0 \in G
  BY <1>1
<1>3. ASSUME NEW n \in 0 .. Size(p) - 1, n \in G PROVE n + 1 \in G
  <2>1. n + 1 \in 1 .. Size(p) /\ n + 1 \in Nat
    BY <1>1
  <2> DEFINE s == p.text[n + 1]
             of == LatestBinding(p, s.of, n + 1)
  <2>2. of # 0 => of \in 1 .. Size(p) /\ of <= n /\ s.of \in Names(p)
    <3>1. of # 0 => of \in Binding(p) /\ of < n + 1 /\ p.text[of].name = s.of
      BY LatestIsLatest DEF IsLatest
    <3>2. Binding(p) \subseteq 1 .. Size(p)
      BY TextOf
    <3> QED
      BY <3>1, <3>2, <1>1, <2>1 DEF Names
  <2>3. ASSUME NEW seen \in SUBSET Names(p) PROVE Bindings(p)[n + 1][seen] \in Statements(p, "new") \cup {0}
    <3>1. Bindings(p)[n + 1][seen] =
            IF s.st = "new" THEN n + 1
            ELSE IF s.st = "alias" /\ of # 0 /\ s.of \notin seen THEN Bindings(p)[of][seen \cup {s.of}] ELSE 0
      <4>1. Bindings(p)[n + 1] = BindingAt(p, Bindings(p), n + 1)
        BY <2>1, BindingsUnfold
      <4>2. BindingAt(p, Bindings(p), n + 1)[seen] =
              IF s.st = "new" THEN n + 1
              ELSE IF s.st = "alias" /\ of # 0 /\ s.of \notin seen THEN Bindings(p)[of][seen \cup {s.of}] ELSE 0
        BY DEF BindingAt
      <4> QED
        BY ONLY <4>1, <4>2
    <3>2. s.st = "new" => n + 1 \in Statements(p, "new")
      BY <1>1, <2>1 DEF Statements
    <3>3. of # 0 => seen \cup {s.of} \in SUBSET Names(p)
      BY <2>2
    <3>4. of # 0 => Bindings(p)[of][seen \cup {s.of}] \in Statements(p, "new") \cup {0}
      BY <3>3, <2>2, <1>3
    <3> QED
      BY <3>1, <3>2, <3>4
  <2>4. IsNew(n + 1)
    BY <2>3
  <2>5. \A i \in 1 .. Size(p) : i <= n + 1 => i <= n \/ i = n + 1
    BY <1>1
  <2> QED
    BY <2>1, <2>4, <2>5, <1>3
<1>4. 0 .. Size(p) \subseteq G
  <2> HIDE DEF G
  <2> QED
    BY ONLY <1>1, <1>2, <1>3, InductionUpTo
<1>5. Size(p) \in G
  BY <1>1, <1>4
<1> QED
  BY <1>5, <1>1

LEMMA InstanceIsNew ==
  ASSUME NEW p, ProgramValid(p), NEW name, NEW before
  PROVE  Instance(p, name, before) \in Statements(p, "new") \cup {0}
<1> DEFINE i == LatestBinding(p, name, before)
<1>1. CASE i = 0
  BY <1>1 DEF Instance
<1>2. CASE i # 0
  <2>1. i \in Binding(p) /\ p.text[i].name = name
    BY <1>2, LatestIsLatest DEF IsLatest
  <2>2. i \in 1 .. Size(p) /\ {name} \in SUBSET Names(p)
    BY <2>1, TextOf DEF Names
  <2> QED
    BY <1>2, <2>2, BindingIsNew DEF Instance
<1> QED
  BY <1>1, <1>2
-----------------------------------------------------------------------------
(* Identities.                                                              *)

(* Two of the places of one text that have one ordinal among the places     *)
(* like them are one.                                                       *)
LEMMA InstanceIdTells ==
  ASSUME NEW p, ProgramValid(p), NEW i \in Statements(p, "new"), NEW j \in Statements(p, "new"),
         InstanceId(p, i) = InstanceId(p, j)
  PROVE  i = j
<1> DEFINE Earlier(k) == {x \in Statements(p, "new") : x < k /\ p.text[x].name = p.text[k].name}
<1>1. Statements(p, "new") \subseteq 1 .. Size(p) /\ Size(p) \in Nat /\ IsFiniteSet(1 .. Size(p))
  BY TextOf
<1>2. p.text[i].name = p.text[j].name /\ Cardinality(Earlier(i)) = Cardinality(Earlier(j))
  BY DEF InstanceId
<1>3. ASSUME NEW a \in Statements(p, "new"), NEW b \in Statements(p, "new"),
             p.text[a].name = p.text[b].name, a < b
      PROVE  Cardinality(Earlier(a)) # Cardinality(Earlier(b))
  <2>1. Earlier(b) \in SUBSET (1 .. Size(p)) /\ a \in Earlier(b) /\ a \notin Earlier(a)
    BY <1>1, <1>3
  <2>2. Earlier(a) \in SUBSET Earlier(b)
    <3>1. ASSUME NEW x \in Earlier(a) PROVE x \in Earlier(b)
      <4>1. x \in Statements(p, "new") /\ x < a /\ p.text[x].name = p.text[b].name
        BY <1>3
      <4>2. x < b
        BY <4>1, <1>1, <1>3
      <4> QED
        BY <4>1, <4>2
    <3> QED
      BY <3>1
  <2>3. IsFiniteSet(Earlier(b))
    BY <2>1, <1>1, FS_Subset
  <2> HIDE DEF Earlier
  <2> QED
    BY <2>1, <2>2, <2>3, MoreByOne
<1> HIDE DEF Earlier
<1>4. i \in Nat /\ j \in Nat
  BY <1>1
<1>5. ~(i < j)
  BY <1>2, <1>3
<1>6. ~(j < i)
  BY <1>2, <1>3
<1> QED
  BY <1>4, <1>5, <1>6

IncludeAt(p, c) ==
  /\ c = [at |-> c.at, parent |-> c.parent, router |-> c.router, prefix |-> c.prefix]
  /\ c.at \in Statements(p, "include") /\ ~IncludeRefused(p, c.at)
  /\ c.parent = Instance(p, p.text[c.at].into, c.at) /\ c.router = Instance(p, p.text[c.at].of, c.at)
  /\ c.parent \in Statements(p, "new") /\ c.router \in Statements(p, "new")
  /\ c.prefix = p.text[c.at].prefix /\ c.prefix \in Seq(STRING)

LEMMA IncludesOfText ==
  ASSUME NEW p, ProgramValid(p), NEW c \in IncludeRecords(p)
  PROVE  IncludeAt(p, c)
<1>1. PICK i \in {x \in Statements(p, "include") : ~IncludeRefused(p, x)} :
        c = [at |-> i, parent |-> Instance(p, p.text[i].into, i), router |-> Instance(p, p.text[i].of, i),
             prefix |-> p.text[i].prefix]
  BY DEF IncludeRecords
<1>2. i \in Statements(p, "include") /\ ~IncludeRefused(p, i)
  BY <1>1
<1>3. c.at = i /\ c.parent = Instance(p, p.text[i].into, i) /\ c.router = Instance(p, p.text[i].of, i)
      /\ c.prefix = p.text[i].prefix
      /\ c = [at |-> c.at, parent |-> c.parent, router |-> c.router, prefix |-> c.prefix]
  BY ONLY <1>1
<1>4. c.parent # 0 /\ c.router # 0
  BY <1>2, <1>3 DEF IncludeRefused
<1>5. c.parent \in Statements(p, "new") /\ c.router \in Statements(p, "new")
  BY <1>3, <1>4, InstanceIsNew
<1>6. c.prefix \in Seq(STRING)
  <2>1. i \in 1 .. Size(p) /\ p.text[i].st = "include"
    BY <1>2, TextOf DEF Statements
  <2>2. StatementValid(p.text[i])
    BY <2>1, TextOf
  <2> QED
    BY <2>1, <2>2, <1>3 DEF StatementValid
<1> QED
  BY <1>2, <1>3, <1>5, <1>6 DEF IncludeAt

(* There is one record for every include that is not refused.               *)
LEMMA IncludeOfPlace ==
  ASSUME NEW p, ProgramValid(p), NEW c \in IncludeRecords(p), NEW d \in IncludeRecords(p), c.at = d.at
  PROVE  c = d
<1>1. IncludeAt(p, c) /\ IncludeAt(p, d)
  BY IncludesOfText
<1> QED
  BY <1>1 DEF IncludeAt

LEMMA IncludesAreFinite ==
  ASSUME NEW p, ProgramValid(p)
  PROVE  IsFiniteSet(IncludeRecords(p))
<1> DEFINE f == [c \in IncludeRecords(p) |-> c.at]
<1>1. f \in Injection(IncludeRecords(p), 1 .. Size(p))
  <2>1. ASSUME NEW c \in IncludeRecords(p) PROVE c.at \in 1 .. Size(p)
    BY IncludesOfText, TextOf DEF IncludeAt
  <2>2. f \in [IncludeRecords(p) -> 1 .. Size(p)]
    BY <2>1
  <2>3. \A c, d \in IncludeRecords(p) : c.at = d.at => c = d
    BY IncludeOfPlace
  <2> QED
    BY <2>2, <2>3 DEF Injection, IsInjective
<1> HIDE DEF f
<1> QED
  BY <1>1, TextOf, FS_Injection

LEMMA AnchorTells ==
  ASSUME NEW p, ProgramValid(p), NEW c \in IncludeRecords(p), NEW d \in IncludeRecords(p), Anchor(p, c) = Anchor(p, d)
  PROVE  c = d
<1> DEFINE Earlier(x) == {y \in IncludeRecords(p) : y.at < x.at /\ [y EXCEPT !.at = 0] = [x EXCEPT !.at = 0]}
<1>1. \A x \in IncludeRecords(p) : IncludeAt(p, x) /\ x.at \in Nat
  BY IncludesOfText, TextOf DEF IncludeAt
<1>2. c.parent = d.parent /\ c.router = d.router /\ c.prefix = d.prefix /\ Cardinality(Earlier(c)) = Cardinality(Earlier(d))
  <2>1. /\ InstanceId(p, c.parent) = InstanceId(p, d.parent) /\ InstanceId(p, c.router) = InstanceId(p, d.router)
        /\ c.prefix = d.prefix /\ Cardinality(Earlier(c)) = Cardinality(Earlier(d))
    BY Zenon DEF Anchor
  <2>2. {c.parent, d.parent, c.router, d.router} \subseteq Statements(p, "new")
    BY <1>1 DEF IncludeAt
  <2> HIDE DEF Earlier
  <2> QED
    BY <2>1, <2>2, InstanceIdTells
<1>3. [c EXCEPT !.at = 0] = [d EXCEPT !.at = 0]
  <2>1. c = [at |-> c.at, parent |-> c.parent, router |-> c.router, prefix |-> c.prefix]
    BY <1>1 DEF IncludeAt
  <2>2. d = [at |-> d.at, parent |-> d.parent, router |-> d.router, prefix |-> d.prefix]
    BY <1>1 DEF IncludeAt
  <2>3. [c EXCEPT !.at = 0] = [at |-> 0, parent |-> c.parent, router |-> c.router, prefix |-> c.prefix]
    BY ONLY <2>1
  <2>4. [d EXCEPT !.at = 0] = [at |-> 0, parent |-> d.parent, router |-> d.router, prefix |-> d.prefix]
    BY ONLY <2>2
  <2> QED
    BY ONLY <2>3, <2>4, <1>2
<1>4. ASSUME NEW a \in IncludeRecords(p), NEW b \in IncludeRecords(p),
             [a EXCEPT !.at = 0] = [b EXCEPT !.at = 0], a.at < b.at
      PROVE  Cardinality(Earlier(a)) # Cardinality(Earlier(b))
  <2>1. Earlier(b) \in SUBSET IncludeRecords(p) /\ a \in Earlier(b) /\ a \notin Earlier(a)
    BY <1>1, <1>4
  <2>2. Earlier(a) \in SUBSET Earlier(b)
    <3>1. ASSUME NEW x \in Earlier(a) PROVE x \in Earlier(b)
      <4>1. x \in IncludeRecords(p) /\ x.at < a.at /\ [x EXCEPT !.at = 0] = [b EXCEPT !.at = 0]
        BY <1>4
      <4>2. x.at \in Nat /\ a.at \in Nat /\ b.at \in Nat /\ x.at < a.at /\ a.at < b.at
        BY <4>1, <1>1, <1>4
      <4>3. x.at < b.at
        BY ONLY <4>2
      <4> QED
        BY <4>1, <4>3
    <3> QED
      BY <3>1
  <2>3. IsFiniteSet(Earlier(b))
    BY <2>1, IncludesAreFinite, FS_Subset
  <2> HIDE DEF Earlier
  <2> QED
    BY <2>1, <2>2, <2>3, MoreByOne
<1> HIDE DEF Earlier
<1>5. ~(c.at < d.at) /\ ~(d.at < c.at)
  BY <1>2, <1>3, <1>4
<1>6. c.at = d.at
  BY <1>1, <1>5
<1> QED
  BY <1>6, IncludeOfPlace

(* The walks of a number of includes, where f says those of one less.       *)
WalksFrom(p, f, n) ==
  IF n = 0 THEN {Walk(<<>>, <<app>>) : app \in SelectedApps(p)}
  ELSE UNION {{Walk(Append(w.includes, c), Append(w.stack, c.router)) : c \in Walked(p, w)} : w \in f[n - 1]}

LEMMA WalksUnfold ==
  ASSUME NEW p, ProgramValid(p)
  PROVE  \A n \in 0 .. Size(p) : WalksOfLength(p)[n] = WalksFrom(p, WalksOfLength(p), n)
<1> DEFINE N == Size(p)
           Unfolded(g, n) == g = [k \in 0 .. n |-> WalksFrom(p, g, k)]
           G == {n \in Nat : \E g : Unfolded(g, n)}
<1>1. N \in Nat
  BY TextOf
<1>2. WalksOfLength(p) = CHOOSE g : g = [k \in 0 .. Len(p.text) |-> WalksFrom(p, g, k)]
  BY DEF WalksOfLength, WalksFrom
<1>3. WalksOfLength(p) = CHOOSE g : g = [k \in 0 .. N |-> WalksFrom(p, g, k)]
  BY <1>2 DEF Size
<1> HIDE DEF N
<1>4. \A k \in 0 .. N : \A f, g : (k # 0 => f[k - 1] = g[k - 1]) => WalksFrom(p, f, k) = WalksFrom(p, g, k)
  BY DEF WalksFrom
<1>5. 0 \in G
  <2> DEFINE g == [k \in 0 .. 0 |-> WalksFrom(p, <<>>, k)]
  <2>1. \A k \in 0 .. 0 : k \in 0 .. N /\ k = 0
    BY <1>1
  <2>2. \A k \in 0 .. 0 : WalksFrom(p, g, k) = WalksFrom(p, <<>>, k)
    <3> HIDE DEF g
    <3> QED
      BY ONLY <2>1, <1>4
  <2>3. Unfolded(g, 0)
    BY <2>2
  <2>4. \E f : Unfolded(f, 0)
    BY ONLY <2>3
  <2> QED
    BY <2>4
<1>6. ASSUME NEW n \in 0 .. N - 1, n \in G PROVE n + 1 \in G
  <2>1. PICK g : Unfolded(g, n)
    BY <1>6
  <2> DEFINE h == [k \in 0 .. n + 1 |-> WalksFrom(p, g, k)]
  <2>2. \A k \in 0 .. n : g[k] = WalksFrom(p, g, k)
    BY <2>1
  <2>3. h = [k \in 0 .. n + 1 |-> h[k]] /\ \A k \in 0 .. n + 1 : h[k] = WalksFrom(p, g, k)
    OBVIOUS
  <2> HIDE DEF h
  <2>4. \A k \in 0 .. n : g[k] = h[k]
    <3>1. \A k \in 0 .. n : k \in 0 .. n + 1
      BY <1>1
    <3> QED
      BY <2>2, <2>3, <3>1
  <2>5. ASSUME NEW k \in 0 .. n + 1 PROVE h[k] = WalksFrom(p, h, k)
    <3>1. k \in 0 .. N /\ (k # 0 => k - 1 \in 0 .. n)
      BY <1>1
    <3>2. k # 0 => g[k - 1] = h[k - 1]
      BY ONLY <2>4, <3>1
    <3>3. WalksFrom(p, g, k) = WalksFrom(p, h, k)
      BY ONLY <1>4, <3>1, <3>2
    <3> QED
      BY <2>3, <3>3
  <2>6. Unfolded(h, n + 1)
    BY <2>3, <2>5
  <2>7. (\E f : Unfolded(f, n + 1)) /\ n + 1 \in Nat
    BY ONLY <2>6, <1>1
  <2> QED
    BY ONLY <2>7
<1>7. N \in G
  <2> HIDE DEF G
  <2>1. 0 .. N \subseteq G
    BY ONLY <1>1, <1>5, <1>6, InductionUpTo
  <2> QED
    BY <1>1, <2>1
<1>8. \E g : g = [k \in 0 .. N |-> WalksFrom(p, g, k)]
  BY <1>7
<1> DEFINE c == WalksOfLength(p)
<1>9. c = [k \in 0 .. N |-> WalksFrom(p, c, k)]
  BY <1>3, <1>8
<1> HIDE DEF c
<1>10. \A k \in 0 .. N : c[k] = WalksFrom(p, c, k)
  BY <1>9
<1> QED
  BY <1>10 DEF c, N

(* The path of so many includes, where f says that of one less.             *)
ComposedFrom(p, includes, f, n) ==
  IF n = 0 THEN <<>> ELSE f[n - 1] \o includes[n].prefix \o p.text[includes[n].router].prefix

LEMMA ComposedUnfolds ==
  ASSUME NEW p, NEW includes, Len(includes) \in Nat
  PROVE  \A n \in 0 .. Len(includes) : Composed(p, includes)[n] = ComposedFrom(p, includes, Composed(p, includes), n)
<1> DEFINE N == Len(includes)
           Unfolded(g, n) == g = [k \in 0 .. n |-> ComposedFrom(p, includes, g, k)]
           G == {n \in Nat : \E g : Unfolded(g, n)}
<1>1. N \in Nat
  OBVIOUS
<1>2. Composed(p, includes) = CHOOSE g : g = [k \in 0 .. Len(includes) |-> ComposedFrom(p, includes, g, k)]
  BY DEF Composed, ComposedFrom
<1>3. Composed(p, includes) = CHOOSE g : g = [k \in 0 .. N |-> ComposedFrom(p, includes, g, k)]
  BY <1>2 DEF Size
<1> HIDE DEF N
<1>4. \A k \in 0 .. N : \A f, g : (k # 0 => f[k - 1] = g[k - 1]) => ComposedFrom(p, includes, f, k) = ComposedFrom(p, includes, g, k)
  BY DEF ComposedFrom
<1>5. 0 \in G
  <2> DEFINE g == [k \in 0 .. 0 |-> ComposedFrom(p, includes, <<>>, k)]
  <2>1. \A k \in 0 .. 0 : k \in 0 .. N /\ k = 0
    BY <1>1
  <2>2. \A k \in 0 .. 0 : ComposedFrom(p, includes, g, k) = ComposedFrom(p, includes, <<>>, k)
    <3> HIDE DEF g
    <3> QED
      BY ONLY <2>1, <1>4
  <2>3. Unfolded(g, 0)
    BY <2>2
  <2>4. \E f : Unfolded(f, 0)
    BY ONLY <2>3
  <2> QED
    BY <2>4
<1>6. ASSUME NEW n \in 0 .. N - 1, n \in G PROVE n + 1 \in G
  <2>1. PICK g : Unfolded(g, n)
    BY <1>6
  <2> DEFINE h == [k \in 0 .. n + 1 |-> ComposedFrom(p, includes, g, k)]
  <2>2. \A k \in 0 .. n : g[k] = ComposedFrom(p, includes, g, k)
    BY <2>1
  <2>3. h = [k \in 0 .. n + 1 |-> h[k]] /\ \A k \in 0 .. n + 1 : h[k] = ComposedFrom(p, includes, g, k)
    OBVIOUS
  <2> HIDE DEF h
  <2>4. \A k \in 0 .. n : g[k] = h[k]
    <3>1. \A k \in 0 .. n : k \in 0 .. n + 1
      BY <1>1
    <3> QED
      BY <2>2, <2>3, <3>1
  <2>5. ASSUME NEW k \in 0 .. n + 1 PROVE h[k] = ComposedFrom(p, includes, h, k)
    <3>1. k \in 0 .. N /\ (k # 0 => k - 1 \in 0 .. n)
      BY <1>1
    <3>2. k # 0 => g[k - 1] = h[k - 1]
      BY ONLY <2>4, <3>1
    <3>3. ComposedFrom(p, includes, g, k) = ComposedFrom(p, includes, h, k)
      BY ONLY <1>4, <3>1, <3>2
    <3> QED
      BY <2>3, <3>3
  <2>6. Unfolded(h, n + 1)
    BY <2>3, <2>5
  <2>7. (\E f : Unfolded(f, n + 1)) /\ n + 1 \in Nat
    BY ONLY <2>6, <1>1
  <2> QED
    BY ONLY <2>7
<1>7. N \in G
  <2> HIDE DEF G
  <2>1. 0 .. N \subseteq G
    BY ONLY <1>1, <1>5, <1>6, InductionUpTo
  <2> QED
    BY <1>1, <2>1
<1>8. \E g : g = [k \in 0 .. N |-> ComposedFrom(p, includes, g, k)]
  BY <1>7
<1> DEFINE c == Composed(p, includes)
<1>9. c = [k \in 0 .. N |-> ComposedFrom(p, includes, c, k)]
  BY <1>3, <1>8
<1> HIDE DEF c
<1>10. \A k \in 0 .. N : c[k] = ComposedFrom(p, includes, c, k)
  BY <1>9
<1> QED
  BY <1>10 DEF c, N

(* The import of so many statements, where f says that of one less.         *)
LiveFrom(p, f, n) ==
  IF n = 0 THEN [names |-> [name \in Names(p) |-> 0], tables |-> [i \in DOMAIN p.text |-> <<>>]]
  ELSE Executed(p, f[n - 1], n)

LEMMA LiveUnfolds ==
  ASSUME NEW p, ProgramValid(p)
  PROVE  \A n \in 0 .. Size(p) : Live(p)[n] = LiveFrom(p, Live(p), n)
<1> DEFINE N == Size(p)
           Unfolded(g, n) == g = [k \in 0 .. n |-> LiveFrom(p, g, k)]
           G == {n \in Nat : \E g : Unfolded(g, n)}
<1>1. N \in Nat
  BY TextOf
<1>2. Live(p) = CHOOSE g : g = [k \in 0 .. Len(p.text) |-> LiveFrom(p, g, k)]
  BY DEF Live, LiveFrom
<1>3. Live(p) = CHOOSE g : g = [k \in 0 .. N |-> LiveFrom(p, g, k)]
  BY <1>2 DEF Size
<1> HIDE DEF N
<1>4. \A k \in 0 .. N : \A f, g : (k # 0 => f[k - 1] = g[k - 1]) => LiveFrom(p, f, k) = LiveFrom(p, g, k)
  BY DEF LiveFrom
<1>5. 0 \in G
  <2> DEFINE g == [k \in 0 .. 0 |-> LiveFrom(p, <<>>, k)]
  <2>1. \A k \in 0 .. 0 : k \in 0 .. N /\ k = 0
    BY <1>1
  <2>2. \A k \in 0 .. 0 : LiveFrom(p, g, k) = LiveFrom(p, <<>>, k)
    <3> HIDE DEF g
    <3> QED
      BY ONLY <2>1, <1>4
  <2>3. Unfolded(g, 0)
    BY <2>2
  <2>4. \E f : Unfolded(f, 0)
    BY ONLY <2>3
  <2> QED
    BY <2>4
<1>6. ASSUME NEW n \in 0 .. N - 1, n \in G PROVE n + 1 \in G
  <2>1. PICK g : Unfolded(g, n)
    BY <1>6
  <2> DEFINE h == [k \in 0 .. n + 1 |-> LiveFrom(p, g, k)]
  <2>2. \A k \in 0 .. n : g[k] = LiveFrom(p, g, k)
    BY <2>1
  <2>3. h = [k \in 0 .. n + 1 |-> h[k]] /\ \A k \in 0 .. n + 1 : h[k] = LiveFrom(p, g, k)
    OBVIOUS
  <2> HIDE DEF h
  <2>4. \A k \in 0 .. n : g[k] = h[k]
    <3>1. \A k \in 0 .. n : k \in 0 .. n + 1
      BY <1>1
    <3> QED
      BY <2>2, <2>3, <3>1
  <2>5. ASSUME NEW k \in 0 .. n + 1 PROVE h[k] = LiveFrom(p, h, k)
    <3>1. k \in 0 .. N /\ (k # 0 => k - 1 \in 0 .. n)
      BY <1>1
    <3>2. k # 0 => g[k - 1] = h[k - 1]
      BY ONLY <2>4, <3>1
    <3>3. LiveFrom(p, g, k) = LiveFrom(p, h, k)
      BY ONLY <1>4, <3>1, <3>2
    <3> QED
      BY <2>3, <3>3
  <2>6. Unfolded(h, n + 1)
    BY <2>3, <2>5
  <2>7. (\E f : Unfolded(f, n + 1)) /\ n + 1 \in Nat
    BY ONLY <2>6, <1>1
  <2> QED
    BY ONLY <2>7
<1>7. N \in G
  <2> HIDE DEF G
  <2>1. 0 .. N \subseteq G
    BY ONLY <1>1, <1>5, <1>6, InductionUpTo
  <2> QED
    BY <1>1, <2>1
<1>8. \E g : g = [k \in 0 .. N |-> LiveFrom(p, g, k)]
  BY <1>7
<1> DEFINE c == Live(p)
<1>9. c = [k \in 0 .. N |-> LiveFrom(p, c, k)]
  BY <1>3, <1>8
<1> HIDE DEF c
<1>10. \A k \in 0 .. N : c[k] = LiveFrom(p, c, k)
  BY <1>9
<1> QED
  BY <1>10 DEF c, N

(* What so many of a plan are attached to, where f says that of one less.   *)
AttachingFrom(table, plan, f, n) ==
  IF n = 0 THEN <<>> ELSE LET before == f[n - 1] IN Append(before, Attached(table, before, plan[n]))

LEMMA AttachingUnfolds ==
  ASSUME NEW table, NEW plan, Len(plan) \in Nat
  PROVE  \A n \in 0 .. Len(plan) : Attaching(table, plan)[n] = AttachingFrom(table, plan, Attaching(table, plan), n)
<1> DEFINE N == Len(plan)
           Unfolded(g, n) == g = [k \in 0 .. n |-> AttachingFrom(table, plan, g, k)]
           G == {n \in Nat : \E g : Unfolded(g, n)}
<1>1. N \in Nat
  OBVIOUS
<1>2. Attaching(table, plan) = CHOOSE g : g = [k \in 0 .. Len(plan) |-> AttachingFrom(table, plan, g, k)]
  BY DEF Attaching, AttachingFrom
<1>3. Attaching(table, plan) = CHOOSE g : g = [k \in 0 .. N |-> AttachingFrom(table, plan, g, k)]
  BY <1>2 DEF Size
<1> HIDE DEF N
<1>4. \A k \in 0 .. N : \A f, g : (k # 0 => f[k - 1] = g[k - 1]) => AttachingFrom(table, plan, f, k) = AttachingFrom(table, plan, g, k)
  BY DEF AttachingFrom
<1>5. 0 \in G
  <2> DEFINE g == [k \in 0 .. 0 |-> AttachingFrom(table, plan, <<>>, k)]
  <2>1. \A k \in 0 .. 0 : k \in 0 .. N /\ k = 0
    BY <1>1
  <2>2. \A k \in 0 .. 0 : AttachingFrom(table, plan, g, k) = AttachingFrom(table, plan, <<>>, k)
    <3> HIDE DEF g
    <3> QED
      BY ONLY <2>1, <1>4
  <2>3. Unfolded(g, 0)
    BY <2>2
  <2>4. \E f : Unfolded(f, 0)
    BY ONLY <2>3
  <2> QED
    BY <2>4
<1>6. ASSUME NEW n \in 0 .. N - 1, n \in G PROVE n + 1 \in G
  <2>1. PICK g : Unfolded(g, n)
    BY <1>6
  <2> DEFINE h == [k \in 0 .. n + 1 |-> AttachingFrom(table, plan, g, k)]
  <2>2. \A k \in 0 .. n : g[k] = AttachingFrom(table, plan, g, k)
    BY <2>1
  <2>3. h = [k \in 0 .. n + 1 |-> h[k]] /\ \A k \in 0 .. n + 1 : h[k] = AttachingFrom(table, plan, g, k)
    OBVIOUS
  <2> HIDE DEF h
  <2>4. \A k \in 0 .. n : g[k] = h[k]
    <3>1. \A k \in 0 .. n : k \in 0 .. n + 1
      BY <1>1
    <3> QED
      BY <2>2, <2>3, <3>1
  <2>5. ASSUME NEW k \in 0 .. n + 1 PROVE h[k] = AttachingFrom(table, plan, h, k)
    <3>1. k \in 0 .. N /\ (k # 0 => k - 1 \in 0 .. n)
      BY <1>1
    <3>2. k # 0 => g[k - 1] = h[k - 1]
      BY ONLY <2>4, <3>1
    <3>3. AttachingFrom(table, plan, g, k) = AttachingFrom(table, plan, h, k)
      BY ONLY <1>4, <3>1, <3>2
    <3> QED
      BY <2>3, <3>3
  <2>6. Unfolded(h, n + 1)
    BY <2>3, <2>5
  <2>7. (\E f : Unfolded(f, n + 1)) /\ n + 1 \in Nat
    BY ONLY <2>6, <1>1
  <2> QED
    BY ONLY <2>7
<1>7. N \in G
  <2> HIDE DEF G
  <2>1. 0 .. N \subseteq G
    BY ONLY <1>1, <1>5, <1>6, InductionUpTo
  <2> QED
    BY <1>1, <2>1
<1>8. \E g : g = [k \in 0 .. N |-> AttachingFrom(table, plan, g, k)]
  BY <1>7
<1> DEFINE c == Attaching(table, plan)
<1>9. c = [k \in 0 .. N |-> AttachingFrom(table, plan, c, k)]
  BY <1>3, <1>8
<1> HIDE DEF c
<1>10. \A k \in 0 .. N : c[k] = AttachingFrom(table, plan, c, k)
  BY <1>9
<1> QED
  BY <1>10 DEF c, N

-----------------------------------------------------------------------------
(* Records of routes.                                                       *)
RouteAt(p, r) ==
  /\ r = [at |-> r.at, registrar |-> r.registrar, owner |-> r.owner, method |-> r.method, path |-> r.path]
  /\ r.at = <<r.at[1], r.at[2]>>
  /\ r.at[1] \in Statements(p, "route") /\ ~RouteRefused(p, r.at[1])
  /\ r.at[2] \in DOMAIN p.text[r.at[1]].methods /\ r.method = p.text[r.at[1]].methods[r.at[2]]
  /\ r.method \in HttpMethods
  /\ r.registrar = Instance(p, p.text[r.at[1]].on, r.at[1]) /\ r.registrar \in Statements(p, "new")
  /\ r.owner = p.text[r.at[1]].owner /\ r.path = p.text[r.at[1]].path

LEMMA RoutesOfText ==
  ASSUME NEW p, ProgramValid(p), NEW r \in RouteRecords(p)
  PROVE  RouteAt(p, r)
<1>1. PICK i \in {x \in Statements(p, "route") : ~RouteRefused(p, x)} :
        \E k \in {x \in DOMAIN p.text[i].methods : p.text[i].methods[x] \in HttpMethods} :
          r = [at |-> <<i, k>>, registrar |-> Instance(p, p.text[i].on, i), owner |-> p.text[i].owner,
               method |-> p.text[i].methods[k], path |-> p.text[i].path]
  BY DEF RouteRecords
<1>2. PICK k \in {x \in DOMAIN p.text[i].methods : p.text[i].methods[x] \in HttpMethods} :
          r = [at |-> <<i, k>>, registrar |-> Instance(p, p.text[i].on, i), owner |-> p.text[i].owner,
               method |-> p.text[i].methods[k], path |-> p.text[i].path]
  BY <1>1
<1>3. i \in Statements(p, "route") /\ ~RouteRefused(p, i)
  BY <1>1
<1>4. k \in DOMAIN p.text[i].methods /\ p.text[i].methods[k] \in HttpMethods
  BY <1>2
<1>5. /\ r = [at |-> r.at, registrar |-> r.registrar, owner |-> r.owner, method |-> r.method, path |-> r.path]
      /\ r.at = <<i, k>> /\ r.registrar = Instance(p, p.text[i].on, i) /\ r.owner = p.text[i].owner
      /\ r.method = p.text[i].methods[k] /\ r.path = p.text[i].path
  BY ONLY <1>2
<1>6. r.at[1] = i /\ r.at[2] = k
  BY ONLY <1>5
<1>7. r.registrar # 0
  BY <1>3, <1>5 DEF RouteRefused
<1>8. r.registrar \in Statements(p, "new")
  BY <1>5, <1>7, InstanceIsNew
<1> QED
  BY ONLY <1>3, <1>4, <1>5, <1>6, <1>8 DEF RouteAt

LEMMA RouteOfPlace ==
  ASSUME NEW p, ProgramValid(p), NEW q \in RouteRecords(p), NEW r \in RouteRecords(p), q.at = r.at
  PROVE  q = r
<1>1. RouteAt(p, q) /\ RouteAt(p, r)
  BY RoutesOfText
<1> QED
  BY ONLY <1>1, q.at = r.at DEF RouteAt

LEMMA MethodsOfRoute ==
  ASSUME NEW p, ProgramValid(p), NEW i \in Statements(p, "route")
  PROVE  /\ i \in 1 .. Size(p) /\ p.text[i].st = "route"
         /\ p.text[i].methods \in Seq(STRING) /\ p.text[i].path \in Seq(STRING)
         /\ Len(p.text[i].methods) \in Nat /\ DOMAIN p.text[i].methods = 1 .. Len(p.text[i].methods)
<1>1. i \in 1 .. Size(p) /\ p.text[i].st = "route" /\ StatementValid(p.text[i])
  BY TextOf DEF Statements
<1>2. p.text[i].methods \in Seq(STRING) /\ p.text[i].path \in Seq(STRING)
  BY <1>1 DEF StatementValid
<1> QED
  BY <1>1, <1>2, LenProperties

LEMMA RoutesAreFinite ==
  ASSUME NEW p, ProgramValid(p)
  PROVE  IsFiniteSet(RouteRecords(p))
<1> DEFINE S == Statements(p, "route")
           f == [i \in S |-> {i} \X DOMAIN p.text[i].methods]
           P == UNION {f[i] : i \in S}
           g == [r \in RouteRecords(p) |-> r.at]
<1>1. IsFiniteSet(S)
  BY TextOf, FS_Subset
<1>2. \A i \in S : IsFiniteSet(f[i])
  <2>1. SUFFICES ASSUME NEW i \in S PROVE IsFiniteSet({i} \X DOMAIN p.text[i].methods)
    OBVIOUS
  <2>2. IsFiniteSet(DOMAIN p.text[i].methods)
    BY MethodsOfRoute, FS_Interval
  <2> QED
    BY <2>2, FS_Singleton, FS_Product
<1>3. S \subseteq DOMAIN f
  OBVIOUS
<1>4. g \in Injection(RouteRecords(p), P)
  <2>1. ASSUME NEW r \in RouteRecords(p) PROVE r.at \in P
    <3>1. RouteAt(p, r)
      BY RoutesOfText
    <3>2. r.at[1] \in S /\ r.at = <<r.at[1], r.at[2]>> /\ r.at[2] \in DOMAIN p.text[r.at[1]].methods
      BY <3>1 DEF RouteAt
    <3>3. r.at \in f[r.at[1]]
      BY <3>2
    <3> QED
      BY <3>2, <3>3
  <2> HIDE DEF P
  <2>2. g \in [RouteRecords(p) -> P]
    BY <2>1
  <2>3. \A q, r \in RouteRecords(p) : q.at = r.at => q = r
    BY RouteOfPlace
  <2> QED
    BY <2>2, <2>3 DEF Injection, IsInjective
<1>5. IsFiniteSet({f[i] : i \in S})
  <2> HIDE DEF f, S
  <2> QED
    BY <1>1, <1>3, FiniteImage
<1>6. IsFiniteSet(P)
  <2>1. \A T \in {f[i] : i \in S} : IsFiniteSet(T)
    BY <1>2
  <2> HIDE DEF f, S
  <2> QED
    BY <1>5, <2>1, FS_UNION
<1> HIDE DEF g, P
<1> QED
  BY <1>4, <1>6, FS_Injection

EarlierAlike(p, r) == {q \in RouteRecords(p) : Before(q.at, r.at) /\ [q EXCEPT !.at = r.at] = r}

LEMMA RouteOrdinalTells ==
  ASSUME NEW p, ProgramValid(p), NEW q \in RouteRecords(p), NEW r \in RouteRecords(p),
         q.registrar = r.registrar, q.owner = r.owner, q.method = r.method, q.path = r.path,
         Cardinality(EarlierAlike(p, q)) = Cardinality(EarlierAlike(p, r))
  PROVE  q = r
<1>1. \A x \in RouteRecords(p) : RouteAt(p, x) /\ x.at[1] \in Nat /\ x.at[2] \in Nat
  <2>1. SUFFICES ASSUME NEW x \in RouteRecords(p) PROVE RouteAt(p, x) /\ x.at[1] \in Nat /\ x.at[2] \in Nat
    OBVIOUS
  <2>2. RouteAt(p, x)
    BY RoutesOfText
  <2>3. x.at[1] \in Statements(p, "route") /\ x.at[2] \in DOMAIN p.text[x.at[1]].methods
    BY <2>2 DEF RouteAt
  <2> QED
    BY <2>2, <2>3, MethodsOfRoute
<1>2. ASSUME NEW a \in RouteRecords(p), NEW b \in RouteRecords(p), Before(a.at, b.at),
             a.registrar = b.registrar, a.owner = b.owner, a.method = b.method, a.path = b.path
      PROVE  Cardinality(EarlierAlike(p, a)) # Cardinality(EarlierAlike(p, b))
  <2>1. \A x \in RouteRecords(p) : x = [at |-> x.at, registrar |-> x.registrar, owner |-> x.owner, method |-> x.method, path |-> x.path]
    BY <1>1 DEF RouteAt
  <2>2. \A x \in RouteRecords(p), y \in RouteRecords(p) : [x EXCEPT !.at = y.at] = y <=>
          x.registrar = y.registrar /\ x.owner = y.owner /\ x.method = y.method /\ x.path = y.path
    <3>1. SUFFICES ASSUME NEW x \in RouteRecords(p), NEW y \in RouteRecords(p)
                   PROVE  [x EXCEPT !.at = y.at] = y <=>
                            x.registrar = y.registrar /\ x.owner = y.owner /\ x.method = y.method /\ x.path = y.path
      OBVIOUS
    <3>2. x = [at |-> x.at, registrar |-> x.registrar, owner |-> x.owner, method |-> x.method, path |-> x.path]
      BY <2>1
    <3>3. y = [at |-> y.at, registrar |-> y.registrar, owner |-> y.owner, method |-> y.method, path |-> y.path]
      BY <2>1
    <3>4. [x EXCEPT !.at = y.at] = [at |-> y.at, registrar |-> x.registrar, owner |-> x.owner, method |-> x.method, path |-> x.path]
      BY ONLY <3>2
    <3> QED
      BY ONLY <3>3, <3>4
  <2>3. EarlierAlike(p, b) \in SUBSET RouteRecords(p) /\ a \in EarlierAlike(p, b)
    BY <2>2, <1>2 DEF EarlierAlike
  <2>4. a \notin EarlierAlike(p, a)
    BY <1>1 DEF EarlierAlike, Before
  <2>5. EarlierAlike(p, a) \in SUBSET EarlierAlike(p, b)
    <3>1. ASSUME NEW x \in EarlierAlike(p, a) PROVE x \in EarlierAlike(p, b)
      <4>1. x \in RouteRecords(p) /\ Before(x.at, a.at) /\ [x EXCEPT !.at = a.at] = a
        BY DEF EarlierAlike
      <4>2. x.registrar = b.registrar /\ x.owner = b.owner /\ x.method = b.method /\ x.path = b.path
        BY <4>1, <2>2, <1>2
      <4>3. /\ x.at[1] \in Nat /\ x.at[2] \in Nat /\ a.at[1] \in Nat /\ a.at[2] \in Nat /\ b.at[1] \in Nat /\ b.at[2] \in Nat
            /\ Before(x.at, a.at) /\ Before(a.at, b.at)
        BY <4>1, <1>1, <1>2
      <4>4. Before(x.at, b.at)
        BY ONLY <4>3 DEF Before
      <4>5. [x EXCEPT !.at = b.at] = b
        BY <4>1, <4>2, <2>2
      <4> QED
        BY <4>1, <4>4, <4>5 DEF EarlierAlike
    <3> QED
      BY <3>1
  <2>6. IsFiniteSet(EarlierAlike(p, b))
    BY <2>3, RoutesAreFinite, FS_Subset
  <2> QED
    BY <2>3, <2>4, <2>5, <2>6, MoreByOne
<1>3. ~Before(q.at, r.at) /\ ~Before(r.at, q.at)
  BY <1>2
<1>4. q.at[1] \in Nat /\ q.at[2] \in Nat /\ r.at[1] \in Nat /\ r.at[2] \in Nat
      /\ q.at = <<q.at[1], q.at[2]>> /\ r.at = <<r.at[1], r.at[2]>>
  BY <1>1 DEF RouteAt
<1>5. q.at[1] = r.at[1] /\ q.at[2] = r.at[2]
  BY ONLY <1>3, <1>4 DEF Before
<1>6. q.at = r.at
  BY ONLY <1>4, <1>5
<1> QED
  BY <1>6, RouteOfPlace

-----------------------------------------------------------------------------
(* Walks.                                                                   *)
WalkAt(p, w, n) ==
  /\ w = Walk(w.includes, w.stack)
  /\ w.includes \in Seq(IncludeRecords(p)) /\ Len(w.includes) = n
  /\ w.stack \in Seq(Statements(p, "new")) /\ Len(w.stack) = n + 1
  /\ w.stack[1] \in SelectedApps(p)
  /\ \A j \in 1 .. n : w.stack[j + 1] = w.includes[j].router

LEMMA WalksOfText ==
  ASSUME NEW p, ProgramValid(p)
  PROVE  \A n \in 0 .. Size(p) : IsFiniteSet(WalksOfLength(p)[n]) /\ \A w \in WalksOfLength(p)[n] : WalkAt(p, w, n)
<1> DEFINE f == WalksOfLength(p)
           Right(n) == IsFiniteSet(f[n]) /\ \A w \in f[n] : WalkAt(p, w, n)
           G == {n \in Nat : n \in 0 .. Size(p) => Right(n)}
<1>1. Size(p) \in Nat
  BY TextOf
<1>2. SelectedApps(p) \subseteq Statements(p, "new") /\ IsFiniteSet(SelectedApps(p))
  <2>1. SelectedApps(p) \subseteq Statements(p, "new")
    BY DEF SelectedApps, ActiveApps
  <2> QED
    BY <2>1, TextOf, FS_Subset
<1>3. 0 \in G
  <2> DEFINE first == [app \in SelectedApps(p) |-> Walk(<<>>, <<app>>)]
  <2>1. f[0] = {first[app] : app \in SelectedApps(p)}
    <3>1. f[0] = WalksFrom(p, f, 0)
      BY <1>1, WalksUnfold
    <3>2. WalksFrom(p, f, 0) = {Walk(<<>>, <<app>>) : app \in SelectedApps(p)}
      BY DEF WalksFrom
    <3> QED
      BY ONLY <3>1, <3>2
  <2>2. \A app \in SelectedApps(p) : WalkAt(p, first[app], 0)
    <3>1. SUFFICES ASSUME NEW app \in SelectedApps(p) PROVE WalkAt(p, Walk(<<>>, <<app>>), 0)
      OBVIOUS
    <3>2. app \in Statements(p, "new")
      BY <1>2
    <3>3. <<app>> \in Seq(Statements(p, "new")) /\ Len(<<app>>) = 0 + 1 /\ <<app>>[1] = app
      BY <3>2
    <3>4. <<>> \in Seq(IncludeRecords(p)) /\ Len(<<>>) = 0
      BY EmptySeq
    <3>5. Walk(<<>>, <<app>>).includes = <<>> /\ Walk(<<>>, <<app>>).stack = <<app>>
      BY DEF Walk
    <3>6. \A j : j \notin 1 .. 0
      OBVIOUS
    <3> QED
      BY ONLY <3>1, <3>3, <3>4, <3>5, <3>6 DEF WalkAt
  <2>3. IsFiniteSet({first[app] : app \in SelectedApps(p)})
    <3>1. SelectedApps(p) \subseteq DOMAIN first
      OBVIOUS
    <3> HIDE DEF first
    <3> QED
      BY <1>2, <3>1, FiniteImage
  <2> HIDE DEF f, first
  <2> QED
    BY <2>1, <2>2, <2>3
<1>4. ASSUME NEW n \in 0 .. Size(p) - 1, n \in G PROVE n + 1 \in G
  <2>1. n \in 0 .. Size(p) /\ n + 1 \in 0 .. Size(p) /\ n + 1 # 0 /\ (n + 1) - 1 = n /\ n \in Nat /\ n + 1 \in Nat
    BY <1>1
  <2>2. Right(n)
    BY <2>1, <1>4
  <2> DEFINE longer(w) == [c \in IncludeRecords(p) |-> Walk(Append(w.includes, c), Append(w.stack, c.router))]
             next == [w \in f[n] |-> {longer(w)[c] : c \in Walked(p, w)}]
  <2>3. f[n + 1] = UNION {next[w] : w \in f[n]}
    <3>1. f[n + 1] = WalksFrom(p, f, n + 1)
      BY <2>1, WalksUnfold
    <3>2. WalksFrom(p, f, n + 1) = UNION {{Walk(Append(w.includes, c), Append(w.stack, c.router)) : c \in Walked(p, w)} : w \in f[n]}
      BY <2>1 DEF WalksFrom
    <3>3. \A w \in f[n] : {Walk(Append(w.includes, c), Append(w.stack, c.router)) : c \in Walked(p, w)} = next[w]
      <4>1. \A w : Walked(p, w) \subseteq IncludeRecords(p)
        BY DEF Walked
      <4>2. \A w : \A c \in Walked(p, w) : longer(w)[c] = Walk(Append(w.includes, c), Append(w.stack, c.router))
        BY <4>1
      <4> HIDE DEF f
      <4> QED
        BY <4>2
    <3> HIDE DEF f, next
    <3> QED
      BY ONLY <3>1, <3>2, <3>3
  <2>4. ASSUME NEW w \in f[n], NEW c \in Walked(p, w)
        PROVE  WalkAt(p, longer(w)[c], n + 1)
    <3> DEFINE includes == Append(w.includes, c)
               stack == Append(w.stack, c.router)
    <3>1. c \in IncludeRecords(p) /\ c.router \in Statements(p, "new")
      BY IncludesOfText DEF Walked, IncludeAt
    <3>2. WalkAt(p, w, n)
      BY <2>2
    <3>3. w.includes \in Seq(IncludeRecords(p)) /\ Len(w.includes) = n /\ w.stack \in Seq(Statements(p, "new"))
          /\ Len(w.stack) = n + 1 /\ w.stack[1] \in SelectedApps(p)
      BY <3>2 DEF WalkAt
    <3>4. includes \in Seq(IncludeRecords(p)) /\ Len(includes) = n + 1 /\ includes[n + 1] = c
          /\ \A j \in 1 .. n : includes[j] = w.includes[j]
      BY ONLY <3>1, <3>3, AppendProperties
    <3>5. stack \in Seq(Statements(p, "new")) /\ Len(stack) = (n + 1) + 1 /\ stack[(n + 1) + 1] = c.router
          /\ \A j \in 1 .. n + 1 : stack[j] = w.stack[j]
      BY ONLY <3>1, <3>3, AppendProperties
    <3>6. stack[1] \in SelectedApps(p)
      BY <3>5, <3>3, <2>1
    <3>7. \A j \in 1 .. n + 1 : stack[j + 1] = includes[j].router
      <4>1. ASSUME NEW j \in 1 .. n + 1 PROVE stack[j + 1] = includes[j].router
        <5>1. CASE j = n + 1
          BY <5>1, <3>4, <3>5
        <5>2. CASE j # n + 1
          <6>1. j \in 1 .. n /\ j + 1 \in 1 .. n + 1
            BY <5>2, <2>1
          <6>2. w.stack[j + 1] = w.includes[j].router
            BY <6>1, <3>2 DEF WalkAt
          <6> QED
            BY <6>1, <6>2, <3>4, <3>5
        <5> QED
          BY <5>1, <5>2
      <4> QED
        BY <4>1
    <3>8. longer(w)[c] = Walk(includes, stack)
      BY <3>1
    <3>9. Walk(includes, stack).includes = includes /\ Walk(includes, stack).stack = stack
      BY DEF Walk
    <3> HIDE DEF includes, stack, longer
    <3> QED
      BY ONLY <3>4, <3>5, <3>6, <3>7, <3>8, <3>9 DEF WalkAt
  <2>5. \A w \in f[n] : IsFiniteSet(next[w])
    <3>1. SUFFICES ASSUME NEW w \in f[n] PROVE IsFiniteSet(next[w])
      OBVIOUS
    <3>2. Walked(p, w) \subseteq DOMAIN longer(w) /\ Walked(p, w) \subseteq IncludeRecords(p)
      BY DEF Walked
    <3>4. DOMAIN next = f[n] /\ next[w] = {longer(w)[c] : c \in Walked(p, w)}
      <4> HIDE DEF longer, f
      <4> QED
        OBVIOUS
    <3>3. IsFiniteSet(Walked(p, w))
      BY <3>2, IncludesAreFinite, FS_Subset
    <3> HIDE DEF longer, next
    <3>5. IsFiniteSet({longer(w)[c] : c \in Walked(p, w)})
      <4> DEFINE g == longer(w)
                 S == Walked(p, w)
      <4>1. S \subseteq DOMAIN g /\ IsFiniteSet(S)
        BY <3>2, <3>3
      <4> HIDE DEF g, S
      <4>2. IsFiniteSet({g[c] : c \in S})
        BY ONLY <4>1, FiniteImage
      <4> QED
        BY <4>2 DEF g, S
    <3> QED
      BY ONLY <3>4, <3>5
  <2>6. \A w \in f[n + 1] : WalkAt(p, w, n + 1)
    <3> HIDE DEF f, longer
    <3>1. ASSUME NEW w \in f[n + 1] PROVE \E v \in f[n] : \E c \in Walked(p, v) : w = longer(v)[c]
      <4>1. \E v \in f[n] : w \in next[v]
        <5> HIDE DEF next
        <5> QED
          BY ONLY <2>3
      <4>2. \A v \in f[n] : next[v] = {longer(v)[c] : c \in Walked(p, v)}
        OBVIOUS
      <4> QED
        BY ONLY <4>1, <4>2
    <3> QED
      BY <3>1, <2>4
  <2>7. IsFiniteSet(f[n + 1])
    <3>1. f[n] \subseteq DOMAIN next
      BY DEF f
    <3> HIDE DEF f, next
    <3>2. IsFiniteSet({next[w] : w \in f[n]})
      BY <3>1, <2>2, FiniteImage
    <3>3. \A T \in {next[w] : w \in f[n]} : IsFiniteSet(T)
      BY <2>5
    <3> QED
      BY <3>2, <3>3, <2>3, FS_UNION
  <2> QED
    BY <2>1, <2>6, <2>7
<1>5. 0 .. Size(p) \subseteq G
  <2> HIDE DEF G
  <2> QED
    BY ONLY <1>1, <1>3, <1>4, InductionUpTo
<1> HIDE DEF Right
<1>6. \A n \in 0 .. Size(p) : Right(n)
  BY <1>5
<1> QED
  BY <1>6 DEF Right

LEMMA WalksAreWalks ==
  ASSUME NEW p, ProgramValid(p)
  PROVE  /\ IsFiniteSet(Walks(p))
         /\ \A w \in Walks(p) : \E n \in 0 .. Size(p) : WalkAt(p, w, n)
<1>1. Size(p) \in Nat /\ Walks(p) = UNION {WalksOfLength(p)[n] : n \in 0 .. Size(p)}
  BY TextOf DEF Walks, Size
<1>2. \A w \in Walks(p) : \E n \in 0 .. Size(p) : WalkAt(p, w, n)
  BY <1>1, WalksOfText
<1> DEFINE f == [n \in 0 .. Size(p) |-> WalksOfLength(p)[n]]
<1>3. {f[n] : n \in 0 .. Size(p)} = {WalksOfLength(p)[n] : n \in 0 .. Size(p)}
  OBVIOUS
<1>4. IsFiniteSet({f[n] : n \in 0 .. Size(p)})
  <2>1. 0 .. Size(p) \subseteq DOMAIN f /\ IsFiniteSet(0 .. Size(p))
    BY <1>1, FS_Interval
  <2> HIDE DEF f
  <2> QED
    BY <2>1, FiniteImage
<1>5. \A T \in {WalksOfLength(p)[n] : n \in 0 .. Size(p)} : IsFiniteSet(T)
  BY WalksOfText
<1>6. IsFiniteSet(Walks(p))
  <2> HIDE DEF f
  <2> QED
    BY <1>1, <1>3, <1>4, <1>5, FS_UNION
<1> QED
  BY <1>2, <1>6

LEMMA WalkTells ==
  ASSUME NEW p, ProgramValid(p), NEW v, NEW w, NEW n \in Nat, NEW m \in Nat, WalkAt(p, v, n), WalkAt(p, w, m),
         v.includes = w.includes, v.stack[1] = w.stack[1]
  PROVE  v = w
<1>1. n = m /\ v.stack \in Seq(Statements(p, "new")) /\ w.stack \in Seq(Statements(p, "new"))
      /\ Len(v.stack) = n + 1 /\ Len(w.stack) = n + 1
  BY DEF WalkAt
<1>2. \A j \in 1 .. n : v.stack[j + 1] = w.stack[j + 1]
  BY <1>1 DEF WalkAt
<1>3. \A j \in 1 .. n + 1 : v.stack[j] = w.stack[j]
  <2>1. ASSUME NEW j \in 1 .. n + 1 PROVE v.stack[j] = w.stack[j]
    <3>1. CASE j = 1
      BY <3>1
    <3>2. CASE j # 1
      <4>1. j - 1 \in 1 .. n /\ (j - 1) + 1 = j
        BY <3>2
      <4> QED
        BY ONLY <4>1, <1>2
    <3> QED
      BY <3>1, <3>2
  <2> QED
    BY <2>1
<1>4. v.stack = w.stack
  BY <1>1, <1>3, SeqEqual
<1> QED
  BY <1>4 DEF WalkAt

-----------------------------------------------------------------------------
(* Effective routes.                                                        *)
Effective(p, w, r) ==
  [from |-> <<w.includes, r.at>>, id |-> RouteId(p, w, r), owner |-> r.owner, method |-> r.method,
   path |-> ComposePath(p, w, r.path)]

LEMMA EffectiveOfWalk ==
  ASSUME NEW p
  PROVE  /\ \A e \in EffectiveRoutes(p) : \E w \in Walks(p) : \E r \in RouteRecords(p) :
              r.registrar = Last(w.stack) /\ e = Effective(p, w, r)
         /\ \A w \in Walks(p) : \A r \in RouteRecords(p) : r.registrar = Last(w.stack) => Effective(p, w, r) \in EffectiveRoutes(p)
<1>1. EffectiveRoutes(p) =
        UNION {{Effective(p, w, r) : r \in {x \in RouteRecords(p) : x.registrar = Last(w.stack)}} : w \in Walks(p)}
  BY DEF EffectiveRoutes, Effective
<1> QED
  BY <1>1

(* A route is told by its identity.                                         *)
LEMMA RouteIdTells ==
  ASSUME NEW p, ProgramValid(p), NEW v \in Walks(p), NEW w \in Walks(p),
         NEW q \in RouteRecords(p), NEW r \in RouteRecords(p), RouteId(p, v, q) = RouteId(p, w, r)
  PROVE  v = w /\ q = r
<1>1. /\ InstanceId(p, v.stack[1]) = InstanceId(p, w.stack[1])
      /\ [i \in DOMAIN v.includes |-> Anchor(p, v.includes[i])] = [i \in DOMAIN w.includes |-> Anchor(p, w.includes[i])]
      /\ InstanceId(p, q.registrar) = InstanceId(p, r.registrar)
      /\ q.owner = r.owner /\ q.method = r.method /\ q.path = r.path
      /\ Cardinality(EarlierAlike(p, q)) = Cardinality(EarlierAlike(p, r))
  <2>1. \A x, y : RouteId(p, x, y) =
          <<InstanceId(p, x.stack[1]), [i \in DOMAIN x.includes |-> Anchor(p, x.includes[i])],
            InstanceId(p, y.registrar), y.owner, y.method, y.path, Cardinality(EarlierAlike(p, y))>>
    BY Zenon DEF RouteId, EarlierAlike
  <2>2. <<InstanceId(p, v.stack[1]), [i \in DOMAIN v.includes |-> Anchor(p, v.includes[i])],
          InstanceId(p, q.registrar), q.owner, q.method, q.path, Cardinality(EarlierAlike(p, q))>>
        = <<InstanceId(p, w.stack[1]), [i \in DOMAIN w.includes |-> Anchor(p, w.includes[i])],
          InstanceId(p, r.registrar), r.owner, r.method, r.path, Cardinality(EarlierAlike(p, r))>>
    BY <2>1
  <2> QED
    BY ONLY <2>2
<1>2. PICK n \in 0 .. Size(p) : WalkAt(p, v, n)
  BY WalksAreWalks
<1>3. PICK m \in 0 .. Size(p) : WalkAt(p, w, m)
  BY WalksAreWalks
<1>4. n \in Nat /\ m \in Nat
  BY TextOf
<1>5. /\ v.includes \in Seq(IncludeRecords(p)) /\ w.includes \in Seq(IncludeRecords(p))
      /\ v.stack[1] \in SelectedApps(p) /\ w.stack[1] \in SelectedApps(p)
  BY <1>2, <1>3 DEF WalkAt
<1>6. v.stack[1] = w.stack[1]
  <2>1. SelectedApps(p) \subseteq Statements(p, "new")
    BY DEF SelectedApps, ActiveApps
  <2> QED
    BY <1>1, <1>5, <2>1, InstanceIdTells
<1>7. v.includes = w.includes
  <2>1. DOMAIN v.includes = DOMAIN w.includes /\ \A i \in DOMAIN v.includes : Anchor(p, v.includes[i]) = Anchor(p, w.includes[i])
    BY <1>1
  <2>2. /\ Len(v.includes) \in Nat /\ DOMAIN v.includes = 1 .. Len(v.includes)
        /\ Len(w.includes) \in Nat /\ DOMAIN w.includes = 1 .. Len(w.includes)
        /\ \A i \in DOMAIN v.includes : v.includes[i] \in IncludeRecords(p)
        /\ \A i \in DOMAIN w.includes : w.includes[i] \in IncludeRecords(p)
    BY <1>5, LenProperties, ElementOfSeq
  <2>3. Len(v.includes) = Len(w.includes)
    BY ONLY <2>1, <2>2, SameInterval
  <2>4. \A i \in 1 .. Len(v.includes) : v.includes[i] = w.includes[i]
    BY <2>1, <2>2, AnchorTells
  <2> QED
    BY <1>5, <2>3, <2>4, SeqEqual
<1>8. v = w
  BY <1>2, <1>3, <1>4, <1>6, <1>7, WalkTells
<1>9. q.registrar = r.registrar
  <2>1. q.registrar \in Statements(p, "new") /\ r.registrar \in Statements(p, "new")
    BY RoutesOfText DEF RouteAt
  <2> QED
    BY <1>1, <2>1, InstanceIdTells
<1> QED
  BY <1>1, <1>8, <1>9, RouteOrdinalTells

LEMMA EffectiveRoutesAreFinite ==
  ASSUME NEW p, ProgramValid(p)
  PROVE  IsFiniteSet(EffectiveRoutes(p))
<1> DEFINE S == Walks(p) \X RouteRecords(p)
           T == {Effective(p, x[1], x[2]) : x \in S}
           f == [x \in S |-> Effective(p, x[1], x[2])]
<1>1. IsFiniteSet(S)
  BY WalksAreWalks, RoutesAreFinite, FS_Product
<1>2. f \in Surjection(S, T)
  BY DEF Surjection
<1>3. IsFiniteSet(T)
  <2> HIDE DEF S, T, f
  <2> QED
    BY <1>1, <1>2, FS_Surjection
<1>4. EffectiveRoutes(p) \in SUBSET T
  <2>1. ASSUME NEW e \in EffectiveRoutes(p) PROVE e \in T
    <3>1. PICK w \in Walks(p) : \E r \in RouteRecords(p) : e = Effective(p, w, r)
      BY EffectiveOfWalk
    <3>2. PICK r \in RouteRecords(p) : e = Effective(p, w, r)
      BY <3>1
    <3>3. <<w, r>> \in S /\ <<w, r>>[1] = w /\ <<w, r>>[2] = r
      OBVIOUS
    <3> HIDE DEF S
    <3> QED
      BY <3>2, <3>3
  <2> QED
    BY <2>1
<1> HIDE DEF T
<1> QED
  BY <1>3, <1>4, FS_Subset

LEMMA RoutesHaveIdentities ==
  ASSUME NEW p, ProgramValid(p)
  PROVE  Cardinality({r.id : r \in EffectiveRoutes(p)}) = Cardinality(EffectiveRoutes(p))
<1> DEFINE S == EffectiveRoutes(p)
           T == {r.id : r \in S}
           f == [r \in S |-> r.id]
<1>1. \A d, e \in S : d.id = e.id => d = e
  <2>1. SUFFICES ASSUME NEW d \in S, NEW e \in S, d.id = e.id PROVE d = e
    OBVIOUS
  <2>2. PICK v \in Walks(p) : \E q \in RouteRecords(p) : d = Effective(p, v, q)
    BY EffectiveOfWalk
  <2>3. PICK q \in RouteRecords(p) : d = Effective(p, v, q)
    BY <2>2
  <2>4. PICK w \in Walks(p) : \E r \in RouteRecords(p) : e = Effective(p, w, r)
    BY EffectiveOfWalk
  <2>5. PICK r \in RouteRecords(p) : e = Effective(p, w, r)
    BY <2>4
  <2>6. d.id = RouteId(p, v, q) /\ e.id = RouteId(p, w, r)
    BY <2>3, <2>5 DEF Effective
  <2>7. v = w /\ q = r
    BY <2>1, <2>6, RouteIdTells
  <2> QED
    BY ONLY <2>3, <2>5, <2>7
<1>2. f \in Surjection(S, T)
  BY DEF Surjection
<1>3. f \in Injection(S, T)
  BY <1>1 DEF Injection, IsInjective
<1>4. IsFiniteSet(S)
  BY EffectiveRoutesAreFinite
<1>5. f \in Bijection(S, T)
  BY <1>2, <1>3 DEF Bijection
<1> HIDE DEF S, T, f
<1>6. Cardinality(T) = Cardinality(S)
  BY <1>4, <1>5, FS_Bijection DEF ExistsBijection
<1> QED
  BY <1>6 DEF S, T
-----------------------------------------------------------------------------
(* What a worker finds of a plan.                                           *)
Table(table) == Len(table) \in Nat /\ DOMAIN table = 1 .. Len(table)
Plan(plan) == Len(plan) \in Nat /\ DOMAIN plan = 1 .. Len(plan)

(* What is claimed of an ingress of the plan.                               *)
ClaimedAt(table, plan, attached, i) ==
  \/ attached[i] = 0
  \/ /\ attached[i] \in RouteCandidates(table, plan[i]) /\ Cardinality(RouteCandidates(table, plan[i])) = 1
     /\ ~RouteIsShadowed(table, attached[i], plan[i])
     /\ \A j \in 1 .. i - 1 : attached[j] # attached[i]

(* What is found alone and first is not left out.                           *)
FoundAt(table, plan, attached, i) ==
  \A n \in DOMAIN table :
    RouteCandidates(table, plan[i]) = {n} /\ ~RouteIsShadowed(table, n, plan[i]) => \E j \in 1 .. i : attached[j] = n

LEMMA AttachingClaims ==
  ASSUME NEW table, Table(table), NEW plan, Plan(plan)
  PROVE  LET attached == AttachExactRoutes(table, plan)
         IN  /\ DOMAIN attached = 1 .. Len(plan)
             /\ \A i \in 1 .. Len(plan) :
                  /\ attached[i] \in Nat
                  /\ ClaimedAt(table, plan, attached, i) /\ FoundAt(table, plan, attached, i)
<1> DEFINE N == Len(plan)
           f == Attaching(table, plan)
           Right(n, s) == /\ s \in Seq(Nat) /\ Len(s) = n
                          /\ \A i \in 1 .. n : ClaimedAt(table, plan, s, i) /\ FoundAt(table, plan, s, i)
           G == {n \in Nat : n \in 0 .. N => Right(n, f[n])}
<1>1. N \in Nat
  BY DEF Plan
<1>2. 0 \in G
  <2>1. f[0] = AttachingFrom(table, plan, f, 0)
    BY <1>1, AttachingUnfolds
  <2>2. f[0] = <<>>
    BY <2>1 DEF AttachingFrom
  <2>3. f[0] \in Seq(Nat) /\ Len(f[0]) = 0
    BY <2>2, EmptySeq
  <2>4. \A i : i \notin 1 .. 0
    OBVIOUS
  <2> HIDE DEF f
  <2>5. Right(0, f[0])
    BY ONLY <2>3, <2>4
  <2> QED
    BY <2>5
<1>3. ASSUME NEW n \in 0 .. N - 1, n \in G PROVE n + 1 \in G
  <2>1. n + 1 \in 0 .. N /\ n + 1 # 0 /\ (n + 1) - 1 = n /\ n + 1 \in Nat /\ n \in Nat /\ n + 1 \in 1 .. N /\ n \in 0 .. N
    BY <1>1
  <2> DEFINE s == f[n]
             b == plan[n + 1]
             a == Attached(table, s, b)
             t == f[n + 1]
  <2>2. Right(n, s)
    BY <2>1, <1>3
  <2>3. t = Append(s, a)
    <3>1. f[n + 1] = AttachingFrom(table, plan, f, n + 1)
      BY <2>1, AttachingUnfolds
    <3>2. AttachingFrom(table, plan, f, n + 1) = Append(f[n], Attached(table, f[n], plan[n + 1]))
      BY <2>1 DEF AttachingFrom
    <3> QED
      BY <3>1, <3>2
  <2> DEFINE found == RouteCandidates(table, b)
             c == CHOOSE x \in found : TRUE
  <2>4. a = IF Cardinality(found) # 1 \/ c \in ToSet(s) \/ RouteIsShadowed(table, c, b) THEN 0 ELSE c
    BY DEF Attached
  <2>5. found \subseteq DOMAIN table /\ DOMAIN table \subseteq Nat \ {0} /\ IsFiniteSet(found)
    <3>1. found \subseteq DOMAIN table
      BY DEF RouteCandidates
    <3>2. Len(table) \in Nat /\ DOMAIN table = 1 .. Len(table) /\ IsFiniteSet(1 .. Len(table))
      BY FS_Interval DEF Table
    <3>3. DOMAIN table \subseteq Nat \ {0} /\ IsFiniteSet(DOMAIN table)
      BY ONLY <3>2
    <3> QED
      BY <3>1, <3>3, FS_Subset
  <2>6. Cardinality(found) = 1 => c \in found /\ found = {c}
    <3>1. Cardinality(found) = 1 => \E x : found = {x}
      BY <2>5, FS_Singleton
    <3> QED
      BY <3>1
  <2> HIDE DEF c, found, a, t, s, b
  <2>7. a \in Nat
    BY <2>4, <2>5, <2>6
  <2>8. ToSet(s) = {s[i] : i \in 1 .. n}
    BY <2>2, LenProperties DEF ToSet
  <2>9. t \in Seq(Nat) /\ Len(t) = n + 1 /\ t[n + 1] = a /\ \A i \in 1 .. n : t[i] = s[i]
    BY <2>2, <2>3, <2>7, AppendProperties
  <2>10. ASSUME NEW i \in 1 .. n + 1 PROVE ClaimedAt(table, plan, t, i) /\ FoundAt(table, plan, t, i)
    <3>1. CASE i # n + 1
      <4>1. i \in 1 .. n /\ \A j \in 1 .. i : j \in 1 .. n
        BY <3>1, <2>1
      <4>2. \A j \in 1 .. i : t[j] = s[j]
        BY <4>1, <2>9
      <4>3. i \in 1 .. i /\ \A j \in 1 .. i - 1 : j \in 1 .. i
        BY <4>1
      <4>4. t[i] = s[i] /\ \A j \in 1 .. i - 1 : t[j] = s[j]
        BY <4>2, <4>3
      <4>5. ClaimedAt(table, plan, s, i) /\ FoundAt(table, plan, s, i)
        BY <2>2, <4>1
      <4>6. ClaimedAt(table, plan, t, i)
        BY ONLY <4>4, <4>5 DEF ClaimedAt
      <4>7. FoundAt(table, plan, t, i)
        BY ONLY <4>2, <4>5 DEF FoundAt
      <4> QED
        BY <4>6, <4>7
    <3>2. CASE i = n + 1
      <4>1. plan[i] = b /\ t[i] = a /\ i - 1 = n /\ i \in 1 .. i /\ \A j \in 1 .. n : j \in 1 .. i
        BY <3>2, <2>1, <2>9 DEF b
      <4>2. ClaimedAt(table, plan, t, i)
        <5>1. CASE a = 0
          BY <5>1, <4>1 DEF ClaimedAt
        <5>2. CASE a # 0
          <6>1. a = c /\ Cardinality(found) = 1 /\ c \notin ToSet(s) /\ ~RouteIsShadowed(table, c, b) /\ c \in found
            BY <5>2, <2>4, <2>6
          <6>2. \A j \in 1 .. n : t[j] # a
            BY <6>1, <2>8, <2>9
          <6> QED
            BY ONLY <6>1, <6>2, <4>1 DEF ClaimedAt, found
        <5> QED
          BY <5>1, <5>2
      <4>3. FoundAt(table, plan, t, i)
        <5>1. SUFFICES ASSUME NEW m \in DOMAIN table, found = {m}, ~RouteIsShadowed(table, m, b)
                       PROVE  \E j \in 1 .. i : t[j] = m
          BY <4>1 DEF FoundAt, found
        <5>2. Cardinality(found) = 1 /\ c = m
          BY <5>1, <2>6, FS_Singleton
        <5>3. CASE c \in ToSet(s)
          <6>1. PICK j \in 1 .. n : s[j] = m
            BY <5>2, <5>3, <2>8
          <6> QED
            BY <6>1, <4>1, <2>9
        <5>4. CASE c \notin ToSet(s)
          BY <5>1, <5>2, <5>4, <2>4, <4>1
        <5> QED
          BY <5>3, <5>4
      <4> QED
        BY <4>2, <4>3
    <3> QED
      BY <3>1, <3>2
  <2>11. Right(n + 1, t)
    BY <2>9, <2>10
  <2> QED
    BY <2>1, <2>11 DEF t
<1>4. N \in G
  <2> HIDE DEF G
  <2>1. 0 .. N \subseteq G
    BY ONLY <1>1, <1>2, <1>3, InductionUpTo
  <2> QED
    BY <1>1, <2>1
<1> DEFINE attached == AttachExactRoutes(table, plan)
<1>5. Right(N, attached)
  BY <1>1, <1>4 DEF AttachExactRoutes
<1> HIDE DEF attached
<1>6. DOMAIN attached = 1 .. Len(plan) /\ \A i \in 1 .. Len(plan) : attached[i] \in Nat
  BY <1>5, LenProperties, ElementOfSeq
<1> QED
  BY <1>5, <1>6 DEF attached

LEMMA PlansOfRoutes ==
  ASSUME NEW S, IsFiniteSet(S), NEW plan \in SetToAllKPermutations(S)
  PROVE  Plan(plan)
<1>1. PICK s \in SUBSET S : plan \in SetToSeqs(s)
  BY DEF SetToAllKPermutations
<1>2. Cardinality(s) \in Nat
  BY FS_Subset, FS_CardinalityType
<1>3. plan \in [1 .. Cardinality(s) -> s]
  BY <1>1 DEF SetToSeqs
<1>4. plan \in Seq(s)
  BY <1>2, <1>3
<1> QED
  BY <1>4, LenProperties DEF Plan

LEMMA MatchesItself == ASSUME NEW a, NEW b, Same(a, b) PROVE Matches(a.path, b.path) /\ b.method \in a.methods
BY DEF Same, Matches

LEMMA AnswersAreFirst ==
  ASSUME NEW table, Table(table), NEW b
  PROVE  LET answer == Answers(table, b)
         IN  /\ answer # 0 => answer \in DOMAIN table
             /\ \A n \in DOMAIN table : Same(table[n], b) => answer # 0 /\ answer <= n
<1> DEFINE matching == {n \in DOMAIN table : b.method \in table[n].methods /\ Matches(table[n].path, b.path)}
           answer == Answers(table, b)
<1>1. answer = IF matching = {} THEN 0 ELSE Min(matching)
  BY Zenon DEF Answers
<1>2. Len(table) \in Nat /\ DOMAIN table = 1 .. Len(table)
  BY DEF Table
<1>3. matching \in SUBSET Nat /\ matching \subseteq DOMAIN table /\ 0 \notin DOMAIN table
  BY <1>2
<1>4. \A n \in DOMAIN table : Same(table[n], b) => n \in matching
  BY MatchesItself
<1> HIDE DEF matching, answer
<1>5. matching # {} => Min(matching) \in matching /\ \A x \in matching : Min(matching) <= x
  BY <1>3, LeastOfSet
<1>6. answer # 0 => answer \in DOMAIN table
  BY <1>1, <1>3, <1>5
<1>7. \A n \in DOMAIN table : Same(table[n], b) => answer # 0 /\ answer <= n
  BY <1>1, <1>3, <1>4, <1>5
<1> QED
  BY <1>6, <1>7 DEF answer

LEMMA ClaimsOfPlan ==
  ASSUME NEW p, ProgramValid(p), Table(LiveTable(p)), NEW plan, Plan(plan)
  PROVE  ClaimsAreTrue(p, plan)
<1> DEFINE table == LiveTable(p)
           attached == AttachExactRoutes(table, plan)
           Capability(i) == BuildCapability(p, plan, "MANAGED", attached, i)
<1>1. Len(table) \in Nat /\ DOMAIN table = 1 .. Len(table) /\ Len(plan) \in Nat /\ DOMAIN plan = 1 .. Len(plan)
  BY DEF Table, Plan
<1>2. /\ DOMAIN attached = 1 .. Len(plan)
      /\ \A i \in 1 .. Len(plan) :
           attached[i] \in Nat /\ ClaimedAt(table, plan, attached, i) /\ FoundAt(table, plan, attached, i)
  BY AttachingClaims
<1>3. \A i \in DOMAIN plan :
        /\ Capability(i).addressability = "COMPLETE" => attached[i] # 0
        /\ Capability(i).customer = "COMPLETE" => Capability(i).correlation = "COMPLETE" /\ ~p.replaced /\ p.customer = "function"
  <2> SUFFICES ASSUME NEW i \in DOMAIN plan
               PROVE  /\ Capability(i).addressability = "COMPLETE" => attached[i] # 0
                      /\ Capability(i).customer = "COMPLETE" =>
                           Capability(i).correlation = "COMPLETE" /\ ~p.replaced /\ p.customer = "function"
    OBVIOUS
  <2> DEFINE route == RouteAssessment(plan, "MANAGED", attached, i)
  <2>1. route = IF attached[i] # 0 THEN "COMPLETE" ELSE "UNAVAILABLE"
    BY DEF RouteAssessment
  <2> HIDE DEF attached
  <2>2. /\ Capability(i).addressability = route /\ Capability(i).correlation = route
        /\ Capability(i).customer = IF ~(route # "UNAVAILABLE") \/ ~LiveCustomer(p) THEN "UNAVAILABLE"
                                    ELSE IF p.customer = "generator" THEN "PARTIAL" ELSE "COMPLETE"
    BY DEF BuildCapability
  <2>3. LiveCustomer(p) => ~p.replaced /\ p.customer # "unresolved"
    BY DEF LiveCustomer, PreparedCustomer
  <2>4. p.customer \in {"function", "generator", "unresolved"}
    BY DEF ProgramValid
  <2> HIDE DEF route, Capability
  <2> QED
    BY ONLY <2>1, <2>2, <2>3, <2>4
<1> HIDE DEF Capability, attached, table
<1>4. ASSUME NEW i \in DOMAIN plan, Capability(i).addressability = "COMPLETE"
      PROVE  LET answer == Answers(table, plan[i])
                 own == {n \in DOMAIN table : Same(table[n], plan[i]) /\ table[n].code = plan[i].owner}
             IN  /\ answer # 0 /\ Cardinality(own) = 1
                 /\ Same(table[answer], plan[i]) => answer \in own
                 /\ \A j \in DOMAIN plan \ {i} : attached[j] # attached[i]
  <2> DEFINE answer == Answers(table, plan[i])
             own == RouteCandidates(table, plan[i])
             n == attached[i]
  <2>1. n # 0 /\ ClaimedAt(table, plan, attached, i) /\ i \in 1 .. Len(plan)
    BY <1>1, <1>2, <1>3, <1>4
  <2>2. n \in own /\ Cardinality(own) = 1 /\ ~RouteIsShadowed(table, n, plan[i]) /\ \A j \in 1 .. i - 1 : attached[j] # n
    BY <2>1 DEF ClaimedAt
  <2>3. n \in DOMAIN table /\ Same(table[n], plan[i])
    BY <2>2 DEF RouteCandidates
  <2>4. answer # 0 /\ answer <= n /\ answer \in DOMAIN table
    BY <2>3, AnswersAreFirst DEF table
  <2>5. Same(table[answer], plan[i]) => answer = n
    <3> HIDE DEF answer, n
    <3>1. answer \in 1 .. Len(table) /\ n \in 1 .. Len(table)
      BY ONLY <2>3, <2>4, <1>1
    <3>2. answer # n => answer \in 1 .. n - 1
      BY ONLY <3>1, <2>4, <1>1
    <3> QED
      BY ONLY <3>2, <2>2 DEF RouteIsShadowed
  <2>6. ASSUME NEW j \in DOMAIN plan \ {i} PROVE attached[j] # n
    <3>1. j \in 1 .. Len(plan) /\ (j \in 1 .. i - 1 \/ i \in 1 .. j - 1)
      BY <2>1, <1>1
    <3>2. CASE j \in 1 .. i - 1
      BY <2>2, <3>2
    <3>3. CASE i \in 1 .. j - 1
      <4>1. ClaimedAt(table, plan, attached, j)
        BY <3>1, <1>2
      <4> QED
        BY <4>1, <3>3, <2>1 DEF ClaimedAt
    <3> QED
      BY <3>1, <3>2, <3>3
  <2>7. own = {x \in DOMAIN table : Same(table[x], plan[i]) /\ table[x].code = plan[i].owner}
    BY DEF RouteCandidates
  <2> HIDE DEF answer, own, n
  <2>8. answer # 0 /\ Cardinality(own) = 1 /\ (Same(table[answer], plan[i]) => answer \in own)
        /\ \A j \in DOMAIN plan \ {i} : attached[j] # attached[i]
    BY <2>2, <2>4, <2>5, <2>6 DEF n
  <2> QED
    BY <2>7, <2>8 DEF answer
<1>5. ASSUME NEW i \in DOMAIN plan, RouteCandidates(table, plan[i]) = {Answers(table, plan[i])}
      PROVE  Answers(table, plan[i]) \in ToSet(attached)
  <2> DEFINE n == Answers(table, plan[i])
  <2>1. n \in DOMAIN table /\ Same(table[n], plan[i])
    BY <1>5 DEF RouteCandidates
  <2>2. ~RouteIsShadowed(table, n, plan[i])
    <3>1. ASSUME NEW m \in 1 .. n - 1, Same(table[m], plan[i]) PROVE FALSE
      <4>1. m \in DOMAIN table /\ m < n /\ m \in Nat /\ n \in Nat
        BY <2>1, <1>1
      <4>2. n <= m
        BY <3>1, <4>1, AnswersAreFirst DEF table
      <4> QED
        BY <4>1, <4>2
    <3> QED
      BY <3>1 DEF RouteIsShadowed
  <2>3. i \in 1 .. Len(plan) /\ FoundAt(table, plan, attached, i)
    BY <1>1, <1>2
  <2>4. PICK j \in 1 .. i : attached[j] = n
    BY <2>1, <2>2, <2>3, <1>5 DEF FoundAt
  <2>5. j \in DOMAIN attached
    BY <2>3, <1>1, <1>2
  <2> QED
    BY <2>4, <2>5 DEF ToSet
<1>6. \A i \in DOMAIN plan :
        LET answer == Answers(table, plan[i])
            own == {n \in DOMAIN table : Same(table[n], plan[i]) /\ table[n].code = plan[i].owner}
        IN  own = {answer} => answer \in ToSet(attached)
  BY <1>5 DEF RouteCandidates
<1> QED
  BY <1>3, <1>4, <1>6, Zenon DEF ClaimsAreTrue, table, attached, Capability

LEMMA ClientsOfPlan ==
  ASSUME NEW p, NEW plan, Plan(plan)
  PROVE  ClientsAreNotMistaken(p, plan)
<1> SUFFICES ASSUME NEW mode \in {"STATIC", "BYO"}, NEW i \in DOMAIN plan
             PROVE  LET c == BuildCapability(p, plan, mode, <<>>, i)
                    IN  /\ "COMPLETE" \notin {c.addressability, c.correlation, c.acknowledgement, c.customer, c.mutation}
                        /\ c.addressability = "PARTIAL" =>
                             \A j \in DOMAIN plan \ {i} : plan[j].method # plan[i].method \/ plan[j].path # plan[i].path
  BY DEF ClientsAreNotMistaken
<1> DEFINE c == BuildCapability(p, plan, mode, <<>>, i)
           alike == {j \in DOMAIN plan : plan[j].method = plan[i].method /\ plan[j].path = plan[i].path}
           route == RouteAssessment(plan, mode, <<>>, i)
<1>1. route = IF mode = "BYO" /\ Cardinality(alike) = 1 THEN "PARTIAL" ELSE "UNAVAILABLE"
  BY DEF RouteAssessment
<1> HIDE DEF alike, route
<1>2. /\ c.addressability = route /\ c.correlation \in {"PARTIAL", "UNAVAILABLE"} /\ c.acknowledgement \in {"PARTIAL", "UNAVAILABLE"}
      /\ c.customer = "UNAVAILABLE" /\ c.mutation = "UNAVAILABLE"
  BY DEF BuildCapability, route
<1> HIDE DEF c
<1>3. Cardinality(alike) = 1 => \A j \in DOMAIN plan \ {i} : plan[j].method # plan[i].method \/ plan[j].path # plan[i].path
  <2>1. IsFiniteSet(DOMAIN plan) /\ alike \in SUBSET DOMAIN plan /\ i \in alike
    BY FS_Interval DEF Plan, alike
  <2>2. Cardinality(alike) = 1 => \E x : alike = {x}
    BY <2>1, FS_Subset, FS_Singleton
  <2>3. Cardinality(alike) = 1 => alike = {i}
    BY <2>1, <2>2
  <2> QED
    BY <2>3 DEF alike
<1>4. "COMPLETE" \notin {c.addressability, c.correlation, c.acknowledgement, c.customer, c.mutation}
  BY ONLY <1>1, <1>2
<1>5. c.addressability = "PARTIAL" => Cardinality(alike) = 1
  BY ONLY <1>1, <1>2
<1> QED
  BY <1>3, <1>4, <1>5 DEF c

-----------------------------------------------------------------------------
(* The import.                                                              *)
Codes(p) == {"wrapper"} \cup {p.text[i].owner : i \in 1 .. Size(p)}
Entry(p) == [path : Seq(STRING), methods : SUBSET (STRING \cup {"POST"}), code : Codes(p)]
LiveAt(p, live) ==
  /\ live = [names |-> live.names, tables |-> live.tables]
  /\ live.names \in [Names(p) -> 0 .. Size(p)]
  /\ live.tables \in [1 .. Size(p) -> Seq(Entry(p))]

LEMMA KindOfStatement ==
  ASSUME NEW p, ProgramValid(p), NEW i \in 1 .. Size(p)
  PROVE  /\ p.text[i].st \in {"new", "alias", "other", "route", "include"}
         /\ i \in Binding(p) <=> p.text[i].st \in {"new", "alias", "other"}
         /\ i \in Binding(p) => p.text[i].name \in Names(p)
         /\ \A st : i \in Statements(p, st) <=> p.text[i].st = st
<1>1. DOMAIN p.text = 1 .. Size(p) /\ StatementValid(p.text[i])
  BY TextOf
<1>2. p.text[i].st \in {"new", "alias", "other", "route", "include"}
  BY <1>1 DEF StatementValid
<1>3. \A st : i \in Statements(p, st) <=> p.text[i].st = st
  BY <1>1 DEF Statements
<1>4. i \in Binding(p) <=> p.text[i].st \in {"new", "alias", "other"}
  BY <1>3 DEF Binding
<1>5. i \in Binding(p) => p.text[i].name \in Names(p)
  BY DEF Names
<1> QED
  BY <1>2, <1>3, <1>4, <1>5

LEMMA PrefixIsPath ==
  ASSUME NEW p, ProgramValid(p), NEW object
  PROVE  Prefix(p, object) \in Seq(STRING)
<1>1. CASE object \in Statements(p, "new")
  <2>1. object \in 1 .. Size(p)
    BY <1>1, TextOf
  <2>2. p.text[object].st = "new" /\ StatementValid(p.text[object])
    BY <1>1, <2>1, KindOfStatement, TextOf
  <2>3. p.text[object].prefix \in Seq(STRING)
    BY <2>2 DEF StatementValid
  <2> QED
    BY <1>1, <2>3 DEF Prefix
<1>2. CASE object \notin Statements(p, "new")
  BY <1>2, EmptySeq DEF Prefix
<1> QED
  BY <1>1, <1>2

LEMMA LiveRouteIsEntry ==
  ASSUME NEW p, ProgramValid(p), NEW i \in Statements(p, "route"), NEW prefix \in Seq(STRING)
  PROVE  LiveRoute(p.text[i], prefix) \in Entry(p)
<1> DEFINE s == p.text[i]
<1>1. i \in 1 .. Size(p) /\ s.methods \in Seq(STRING) /\ s.path \in Seq(STRING)
  BY MethodsOfRoute
<1>2. prefix \o s.path \in Seq(STRING)
  BY <1>1, ConcatProperties
<1>3. ToSet(s.methods) \in SUBSET (STRING \cup {"POST"})
  BY <1>1, LenProperties, ElementOfSeq DEF ToSet
<1>4. (IF s.methods = NoPath THEN {"POST"} ELSE ToSet(s.methods)) \in SUBSET (STRING \cup {"POST"})
  <2>1. {"POST"} \in SUBSET (STRING \cup {"POST"})
    OBVIOUS
  <2> HIDE DEF s
  <2> QED
    BY ONLY <1>3, <2>1
<1>5. (IF s.wrapped THEN "wrapper" ELSE s.owner) \in Codes(p)
  BY <1>1 DEF Codes
<1> HIDE DEF s
<1>6. LiveRoute(s, prefix) \in Entry(p)
  BY <1>2, <1>4, <1>5 DEF LiveRoute, Entry
<1> QED
  BY <1>6 DEF s

LEMMA CopiesAreEntries ==
  ASSUME NEW p, NEW table \in Seq(Entry(p)), NEW prefix \in Seq(STRING)
  PROVE  /\ Copies(table, prefix) \in Seq(Entry(p)) /\ Len(Copies(table, prefix)) = Len(table)
         /\ \A n \in 1 .. Len(table) :
              /\ Copies(table, prefix)[n].path = prefix \o table[n].path
              /\ Copies(table, prefix)[n].methods = table[n].methods /\ Copies(table, prefix)[n].code = table[n].code
<1>1. Len(table) \in Nat /\ DOMAIN table = 1 .. Len(table) /\ \A n \in 1 .. Len(table) : table[n] \in Entry(p)
  BY LenProperties, ElementOfSeq
<1> DEFINE copy(n) == [table[n] EXCEPT !.path = prefix \o @]
<1>2. \A n \in 1 .. Len(table) :
        /\ copy(n) \in Entry(p) /\ copy(n).path = prefix \o table[n].path
        /\ copy(n).methods = table[n].methods /\ copy(n).code = table[n].code
  <2> SUFFICES ASSUME NEW n \in 1 .. Len(table)
               PROVE  /\ copy(n) \in Entry(p) /\ copy(n).path = prefix \o table[n].path
                      /\ copy(n).methods = table[n].methods /\ copy(n).code = table[n].code
    OBVIOUS
  <2>1. table[n] \in [path : Seq(STRING), methods : SUBSET (STRING \cup {"POST"}), code : Codes(p)] /\ table[n].path \in Seq(STRING)
    BY <1>1 DEF Entry
  <2>2. prefix \o table[n].path \in Seq(STRING)
    BY <2>1, ConcatProperties
  <2> QED
    BY <2>1, <2>2 DEF Entry
<1>3. Copies(table, prefix) = [n \in 1 .. Len(table) |-> copy(n)]
  BY <1>1 DEF Copies
<1> HIDE DEF copy
<1>4. [n \in 1 .. Len(table) |-> copy(n)] \in Seq(Entry(p)) /\ Len([n \in 1 .. Len(table) |-> copy(n)]) = Len(table)
  BY <1>1, <1>2
<1> QED
  BY <1>2, <1>3, <1>4

LEMMA ObjectIsPlace ==
  ASSUME NEW p, ProgramValid(p), NEW live, LiveAt(p, live), NEW name
  PROVE  Object(live, name) \in 0 .. Size(p)
<1>1. DOMAIN live.names = Names(p) /\ \A x \in Names(p) : live.names[x] \in 0 .. Size(p)
  BY DEF LiveAt
<1>2. 0 \in 0 .. Size(p)
  BY TextOf
<1> QED
  BY <1>1, <1>2 DEF Object

LEMMA BoundIsLive ==
  ASSUME NEW p, ProgramValid(p), NEW live, LiveAt(p, live), NEW name \in Names(p), NEW object \in 0 .. Size(p)
  PROVE  /\ LiveAt(p, Bound(live, name, object)) /\ Bound(live, name, object).tables = live.tables
         /\ Bound(live, name, object).names[name] = object
         /\ \A x \in Names(p) : x # name => Bound(live, name, object).names[x] = live.names[x]
<1> DEFINE names == live.names
           tables == live.tables
<1>1. live = [names |-> names, tables |-> tables]
  BY DEF LiveAt
<1>2. names \in [Names(p) -> 0 .. Size(p)] /\ tables \in [1 .. Size(p) -> Seq(Entry(p))]
  BY DEF LiveAt
<1> HIDE DEF names, tables
<1>3. Bound(live, name, object) = [names |-> [names EXCEPT ![name] = object], tables |-> tables]
  BY <1>1 DEF Bound
<1>4. [names EXCEPT ![name] = object] \in [Names(p) -> 0 .. Size(p)]
  BY <1>2
<1>5. LiveAt(p, Bound(live, name, object))
  BY ONLY <1>2, <1>3, <1>4 DEF LiveAt
<1>6. [names EXCEPT ![name] = object][name] = object /\ \A x \in Names(p) : x # name => [names EXCEPT ![name] = object][x] = names[x]
  BY <1>2
<1> QED
  BY <1>3, <1>5, <1>6 DEF names, tables

Extended(live, x, more) == [live EXCEPT !.tables[x] = @ \o more]

Joined(a, b) == a \o b

LEMMA ExtendedIsLive ==
  ASSUME NEW p, ProgramValid(p), NEW live, LiveAt(p, live), NEW x \in 1 .. Size(p), NEW more \in Seq(Entry(p))
  PROVE  /\ LiveAt(p, Extended(live, x, more)) /\ Extended(live, x, more).names = live.names
         /\ Extended(live, x, more).tables[x] = Joined(live.tables[x], more)
         /\ \A y \in 1 .. Size(p) : y # x => Extended(live, x, more).tables[y] = live.tables[y]
<1> DEFINE names == live.names
           tables == live.tables
<1>1. live = [names |-> names, tables |-> tables]
  BY DEF LiveAt
<1>2. names \in [Names(p) -> 0 .. Size(p)] /\ tables \in [1 .. Size(p) -> Seq(Entry(p))]
  BY DEF LiveAt
<1>3. tables[x] \o more \in Seq(Entry(p))
  BY <1>2, ConcatProperties
<1> HIDE DEF names, tables
<1>4. Extended(live, x, more) = [names |-> names, tables |-> [tables EXCEPT ![x] = @ \o more]]
  <2>1. live.tables = tables /\ live.names = names
    BY ONLY <1>1
  <2>2. Extended(live, x, more) = [live EXCEPT !.tables = [live.tables EXCEPT ![x] = live.tables[x] \o more]]
    BY ONLY <1>1 DEF Extended
  <2> QED
    BY ONLY <1>1, <2>1, <2>2
<1>5. [tables EXCEPT ![x] = @ \o more] = [tables EXCEPT ![x] = tables[x] \o more]
  BY <1>2
<1>6. /\ [tables EXCEPT ![x] = tables[x] \o more] \in [1 .. Size(p) -> Seq(Entry(p))]
      /\ [tables EXCEPT ![x] = tables[x] \o more][x] = tables[x] \o more
      /\ \A y \in 1 .. Size(p) : y # x => [tables EXCEPT ![x] = tables[x] \o more][y] = tables[y]
  BY <1>2, <1>3
<1>7. LiveAt(p, Extended(live, x, more))
  BY ONLY <1>2, <1>4, <1>5, <1>6 DEF LiveAt
<1> QED
  BY <1>4, <1>5, <1>6, <1>7 DEF Joined, names, tables

(* What a statement does.                                                   *)
LEMMA StepOfImport ==
  ASSUME NEW p, ProgramValid(p), NEW live, LiveAt(p, live), NEW i \in 1 .. Size(p)
  PROVE  LET s == p.text[i]
             next == Executed(p, live, i)
         IN  /\ s.st = "new" => next = Bound(live, s.name, i)
             /\ s.st = "alias" => next = Bound(live, s.name, Object(live, s.of))
             /\ s.st = "other" => next = live \/ \E object \in 0 .. Size(p) : next = Bound(live, s.name, object)
             /\ s.st = "route" =>
                  \/ next = live
                  \/ /\ Object(live, s.on) # 0
                     /\ next = Extended(live, Object(live, s.on), <<LiveRoute(s, Prefix(p, Object(live, s.on)))>>)
             /\ s.st = "include" =>
                  \/ next = live
                  \/ /\ Object(live, s.into) # 0 /\ Object(live, s.of) # 0
                     /\ next = Extended(live, Object(live, s.into),
                                        Copies(live.tables[Object(live, s.of)], Prefix(p, Object(live, s.into)) \o s.prefix))
<1> DEFINE s == p.text[i]
           next == Executed(p, live, i)
<1>1. s.st = "new" => next = Bound(live, s.name, i)
  BY DEF Executed
<1>2. s.st = "alias" => next = Bound(live, s.name, Object(live, s.of))
  BY DEF Executed
<1>3. s.st = "other" => next = live \/ \E object \in 0 .. Size(p) : next = Bound(live, s.name, object)
  <2>1. s.st = "other" =>
          next = IF s.live = "keeps" THEN live ELSE Bound(live, s.name, IF s.live = "instance" THEN i ELSE 0)
    BY DEF Executed
  <2>2. (IF s.live = "instance" THEN i ELSE 0) \in 0 .. Size(p)
    BY TextOf
  <2> HIDE DEF s, next
  <2> QED
    BY ONLY <2>1, <2>2
<1>4. s.st = "route" =>
        \/ next = live
        \/ /\ Object(live, s.on) # 0
           /\ next = Extended(live, Object(live, s.on), <<LiveRoute(s, Prefix(p, Object(live, s.on)))>>)
  <2> SUFFICES ASSUME s.st = "route", next # live
               PROVE  /\ Object(live, s.on) # 0
                      /\ next = Extended(live, Object(live, s.on), <<LiveRoute(s, Prefix(p, Object(live, s.on)))>>)
    OBVIOUS
  <2> DEFINE on == Object(live, s.on)
             e == LiveRoute(s, Prefix(p, on))
  <2>1. next = IF ~s.executed \/ on = 0 THEN live ELSE [live EXCEPT !.tables[on] = Append(@, e)]
    BY DEF Executed
  <2>2. on # 0 /\ next = [live EXCEPT !.tables[on] = Append(@, e)]
    <3> HIDE DEF on, e, next, s
    <3> QED
      BY <2>1
  <2>3. on \in 1 .. Size(p)
    BY <2>2, ObjectIsPlace, TextOf
  <2>4. live.tables[on] \in Seq(Entry(p))
    BY <2>3 DEF LiveAt
  <2>5. e \in Entry(p)
    BY PrefixIsPath, LiveRouteIsEntry, KindOfStatement
  <2> HIDE DEF on, e, next, s
  <2>6. Append(live.tables[on], e) = live.tables[on] \o <<e>>
    BY ONLY <2>4, <2>5, AppendIsConcat
  <2>7. next = [live EXCEPT !.tables[on] = live.tables[on] \o <<e>>]
    BY <2>2, <2>6
  <2> QED
    BY <2>2, <2>7 DEF Extended, on, e
<1>5. s.st = "include" =>
        \/ next = live
        \/ /\ Object(live, s.into) # 0 /\ Object(live, s.of) # 0
           /\ next = Extended(live, Object(live, s.into),
                              Copies(live.tables[Object(live, s.of)], Prefix(p, Object(live, s.into)) \o s.prefix))
  <2> SUFFICES ASSUME s.st = "include", next # live
               PROVE  /\ Object(live, s.into) # 0 /\ Object(live, s.of) # 0
                      /\ next = Extended(live, Object(live, s.into),
                                         Copies(live.tables[Object(live, s.of)], Prefix(p, Object(live, s.into)) \o s.prefix))
    OBVIOUS
  <2> DEFINE into == Object(live, s.into)
             of == Object(live, s.of)
             more == Copies(live.tables[of], Prefix(p, into) \o s.prefix)
  <2>1. next = IF ~s.executed \/ into = 0 \/ of = 0 THEN live ELSE [live EXCEPT !.tables[into] = @ \o more]
    BY DEF Executed
  <2>2. into # 0 /\ of # 0 /\ next = [live EXCEPT !.tables[into] = @ \o more]
    <3> HIDE DEF into, of, more, next, s
    <3> QED
      BY <2>1
  <2> HIDE DEF into, of, more, next, s
  <2>3. next = Extended(live, into, more)
    BY <2>2 DEF Extended
  <2> QED
    BY <2>2, <2>3 DEF into, of, more
<1> HIDE DEF s, next
<1>6. /\ s.st = "new" => next = Bound(live, s.name, i)
      /\ s.st = "alias" => next = Bound(live, s.name, Object(live, s.of))
      /\ s.st = "other" => next = live \/ \E object \in 0 .. Size(p) : next = Bound(live, s.name, object)
      /\ s.st = "route" =>
           \/ next = live
           \/ /\ Object(live, s.on) # 0
              /\ next = Extended(live, Object(live, s.on), <<LiveRoute(s, Prefix(p, Object(live, s.on)))>>)
      /\ s.st = "include" =>
           \/ next = live
           \/ /\ Object(live, s.into) # 0 /\ Object(live, s.of) # 0
              /\ next = Extended(live, Object(live, s.into),
                                 Copies(live.tables[Object(live, s.of)], Prefix(p, Object(live, s.into)) \o s.prefix))
  BY ONLY <1>1, <1>2, <1>3, <1>4, <1>5
<1> QED
  BY <1>6 DEF s, next

(* A statement leaves the names that it does not bind.                      *)
LEMMA StepIsLive ==
  ASSUME NEW p, ProgramValid(p), NEW live, LiveAt(p, live), NEW i \in 1 .. Size(p)
  PROVE  /\ LiveAt(p, Executed(p, live, i))
         /\ \A name \in Names(p) : i \notin Binding(p) \/ p.text[i].name # name => Executed(p, live, i).names[name] = live.names[name]
<1> DEFINE s == p.text[i]
           next == Executed(p, live, i)
           Right == LiveAt(p, next) /\ \A name \in Names(p) : i \notin Binding(p) \/ s.name # name => next.names[name] = live.names[name]
<1> SUFFICES Right
  OBVIOUS
<1>1. s.st \in {"new", "alias", "other", "route", "include"}
  BY KindOfStatement
<1>2. i \in Binding(p) <=> s.st \in {"new", "alias", "other"}
  BY KindOfStatement
<1>3. i \in Binding(p) => s.name \in Names(p)
  BY KindOfStatement
<1>4. CASE next = live
  BY <1>4
<1>5. ASSUME i \in Binding(p), NEW object \in 0 .. Size(p), next = Bound(live, s.name, object) PROVE Right
  BY <1>3, <1>5, BoundIsLive
<1>6. ASSUME i \notin Binding(p), NEW x \in 1 .. Size(p), NEW more \in Seq(Entry(p)), next = Extended(live, x, more) PROVE Right
  BY <1>6, ExtendedIsLive
<1>7. CASE s.st = "new"
  <2>1. next = Bound(live, s.name, i)
    BY <1>7, StepOfImport
  <2>2. i \in 0 .. Size(p) /\ i \in Binding(p)
    BY <1>2, <1>7, TextOf
  <2> HIDE DEF next, s, Right
  <2> QED
    BY <2>1, <2>2, <1>5
<1>8. CASE s.st = "alias"
  <2>1. next = Bound(live, s.name, Object(live, s.of))
    BY <1>8, StepOfImport
  <2>2. Object(live, s.of) \in 0 .. Size(p) /\ i \in Binding(p)
    BY <1>2, <1>8, ObjectIsPlace
  <2> HIDE DEF next, s, Right
  <2> QED
    BY <2>1, <2>2, <1>5
<1>9. CASE s.st = "other"
  <2>1. (next = live \/ \E object \in 0 .. Size(p) : next = Bound(live, s.name, object)) /\ i \in Binding(p)
    BY <1>2, <1>9, StepOfImport
  <2> HIDE DEF next, s, Right
  <2> QED
    BY <2>1, <1>4, <1>5
<1>10. CASE s.st = "route"
  <2> DEFINE on == Object(live, s.on)
             more == <<LiveRoute(s, Prefix(p, on))>>
  <2>1. next = live \/ (on # 0 /\ next = Extended(live, on, more))
    BY <1>10, StepOfImport
  <2>2. on # 0 => on \in 1 .. Size(p)
    BY ObjectIsPlace, TextOf
  <2>3. LiveRoute(s, Prefix(p, on)) \in Entry(p)
    BY <1>10, PrefixIsPath, LiveRouteIsEntry, KindOfStatement
  <2>4. more \in Seq(Entry(p))
    BY <2>3
  <2>5. i \notin Binding(p)
    BY <1>2, <1>10
  <2> HIDE DEF next, s, Right, on, more
  <2> QED
    BY <2>1, <2>2, <2>4, <2>5, <1>4, <1>6
<1>11. CASE s.st = "include"
  <2> DEFINE into == Object(live, s.into)
             of == Object(live, s.of)
             more == Copies(live.tables[of], Prefix(p, into) \o s.prefix)
  <2>1. next = live \/ (into # 0 /\ of # 0 /\ next = Extended(live, into, more))
    BY <1>11, StepOfImport
  <2>2. (into # 0 => into \in 1 .. Size(p)) /\ (of # 0 => of \in 1 .. Size(p))
    BY ObjectIsPlace, TextOf
  <2>3. of # 0 => live.tables[of] \in Seq(Entry(p))
    BY <2>2 DEF LiveAt
  <2>4. Prefix(p, into) \o s.prefix \in Seq(STRING)
    <3>1. s.prefix \in Seq(STRING)
      BY <1>11, TextOf DEF StatementValid
    <3> QED
      BY <3>1, PrefixIsPath, ConcatProperties
  <2>5. of # 0 => more \in Seq(Entry(p))
    BY <2>3, <2>4, CopiesAreEntries
  <2>6. i \notin Binding(p)
    BY <1>2, <1>11
  <2> HIDE DEF next, s, Right, into, of, more
  <2> QED
    BY <2>1, <2>2, <2>5, <2>6, <1>4, <1>6
<1> HIDE DEF Right, s
<1> QED
  BY ONLY <1>1, <1>7, <1>8, <1>9, <1>10, <1>11

LEMMA ImportIsLive ==
  ASSUME NEW p, ProgramValid(p)
  PROVE  /\ \A n \in 0 .. Size(p) : LiveAt(p, Live(p)[n])
         /\ \A n \in 1 .. Size(p) : Live(p)[n] = Executed(p, Live(p)[n - 1], n)
         /\ Live(p)[0].tables = [i \in 1 .. Size(p) |-> <<>>]
<1> DEFINE f == Live(p)
           G == {n \in Nat : n \in 0 .. Size(p) => LiveAt(p, f[n])}
<1>1. Size(p) \in Nat /\ DOMAIN p.text = 1 .. Size(p)
  BY TextOf
<1>2. f[0] = [names |-> [name \in Names(p) |-> 0], tables |-> [i \in 1 .. Size(p) |-> <<>>]]
  <2>1. f[0] = LiveFrom(p, f, 0)
    BY <1>1, LiveUnfolds
  <2> QED
    BY <2>1, <1>1 DEF LiveFrom
<1>3. \A n \in 1 .. Size(p) : f[n] = Executed(p, f[n - 1], n)
  <2>1. SUFFICES ASSUME NEW n \in 1 .. Size(p) PROVE f[n] = Executed(p, f[n - 1], n)
    OBVIOUS
  <2>2. n \in 0 .. Size(p) /\ n # 0
    BY <1>1
  <2>3. f[n] = LiveFrom(p, f, n)
    BY <2>2, LiveUnfolds
  <2> QED
    BY <2>2, <2>3 DEF LiveFrom
<1> HIDE DEF f
<1>4. 0 \in G
  <2>1. [name \in Names(p) |-> 0] \in [Names(p) -> 0 .. Size(p)]
    BY <1>1
  <2>2. <<>> \in Seq(Entry(p))
    BY EmptySeq
  <2>3. [i \in 1 .. Size(p) |-> <<>>] \in [1 .. Size(p) -> Seq(Entry(p))]
    BY <2>2
  <2>4. LiveAt(p, f[0])
    BY ONLY <1>2, <2>1, <2>3 DEF LiveAt
  <2> QED
    BY <2>4
<1>5. ASSUME NEW n \in 0 .. Size(p) - 1, n \in G PROVE n + 1 \in G
  <2>1. n \in 0 .. Size(p) /\ n + 1 \in 1 .. Size(p) /\ (n + 1) - 1 = n /\ n + 1 \in Nat
    BY <1>1
  <2>2. LiveAt(p, Executed(p, f[n], n + 1))
    BY <2>1, <1>5, StepIsLive
  <2> QED
    BY <2>1, <2>2, <1>3
<1>6. 0 .. Size(p) \subseteq G
  <2> HIDE DEF G
  <2> QED
    BY ONLY <1>1, <1>4, <1>5, InductionUpTo
<1>7. \A n \in 0 .. Size(p) : LiveAt(p, f[n])
  BY <1>6
<1>8. f[0].tables = [i \in 1 .. Size(p) |-> <<>>]
  BY <1>2
<1> QED
  BY <1>3, <1>7, <1>8 DEF f

LEMMA TableIsTable ==
  ASSUME NEW p, ProgramValid(p)
  PROVE  Table(LiveTable(p))
<1> DEFINE live == Import(p)
           apps == {live.names[p.text[i].name] : i \in SelectedApps(p)} \ {0}
<1>1. LiveAt(p, live)
  <2>1. Size(p) \in 0 .. Size(p)
    BY TextOf
  <2> QED
    BY <2>1, ImportIsLive DEF Import, Size
<1>2. LiveTable(p) = IF apps = {} THEN <<>> ELSE live.tables[CHOOSE object \in apps : TRUE]
  BY Zenon DEF LiveTable
<1>3. apps \subseteq 1 .. Size(p)
  <2>1. ASSUME NEW i \in SelectedApps(p) PROVE live.names[p.text[i].name] \in 0 .. Size(p)
    <3>1. i \in Statements(p, "new")
      BY DEF SelectedApps, ActiveApps
    <3>2. p.text[i].name \in Names(p)
      BY <3>1 DEF Names, Binding
    <3> QED
      BY <3>2, <1>1 DEF LiveAt
  <2> HIDE DEF live
  <2> QED
    BY <2>1, TextOf
<1>4. CASE apps = {}
  BY <1>2, <1>4 DEF Table
<1>5. CASE apps # {}
  <2>1. (CHOOSE object \in apps : TRUE) \in 1 .. Size(p)
    <3> HIDE DEF apps
    <3> QED
      BY <1>3, <1>5
  <2> HIDE DEF apps
  <2>2. LiveTable(p) \in Seq(Entry(p))
    BY <2>1, <1>1, <1>2, <1>5 DEF LiveAt
  <2> QED
    BY <2>2, LenProperties DEF Table
<1> QED
  BY <1>4, <1>5

-----------------------------------------------------------------------------
(* What the text says of a name is what the import makes of it.             *)
LEMMA NameStays ==
  ASSUME NEW p, ProgramValid(p), NEW name \in Names(p), NEW i \in 0 .. Size(p), NEW m \in i .. Size(p),
         \A j \in i + 1 .. m : j \in Binding(p) => p.text[j].name # name
  PROVE  Live(p)[m].names[name] = Live(p)[i].names[name]
<1> DEFINE f == Live(p)
           G == {n \in Nat : n \in i .. m => f[n].names[name] = f[i].names[name]}
<1>1. Size(p) \in Nat /\ i \in Nat /\ m \in Nat /\ m <= Size(p)
  BY TextOf
<1>2. 0 \in G
  BY <1>1
<1>3. ASSUME NEW n \in 0 .. m - 1, n \in G PROVE n + 1 \in G
  <2>1. n + 1 \in Nat /\ n \in Nat
    BY <1>1
  <2>2. CASE n + 1 \notin i .. m
    BY <2>1, <2>2
  <2>3. CASE n + 1 = i
    BY <2>1, <2>3
  <2>4. CASE n + 1 \in i .. m /\ n + 1 # i
    <3>1. n \in i .. m /\ n + 1 \in i + 1 .. m /\ n + 1 \in 1 .. Size(p) /\ n \in 0 .. Size(p) /\ (n + 1) - 1 = n
      BY <2>4, <1>1
    <3>2. f[n + 1] = Executed(p, f[n], n + 1)
      <4>1. f[n + 1] = Executed(p, f[(n + 1) - 1], n + 1)
        BY <3>1, ImportIsLive
      <4> QED
        BY ONLY <4>1, <3>1
    <3>3. LiveAt(p, f[n])
      BY <3>1, ImportIsLive
    <3>4. n + 1 \in Binding(p) => p.text[n + 1].name # name
      BY <3>1
    <3>5. f[n + 1].names[name] = f[n].names[name]
      BY <3>1, <3>2, <3>3, <3>4, StepIsLive
    <3> QED
      BY <3>1, <3>5, <2>1, <1>3
  <2> QED
    BY <2>2, <2>3, <2>4
<1>4. 0 .. m \subseteq G
  <2> HIDE DEF G
  <2> QED
    BY ONLY <1>1, <1>2, <1>3, InductionUpTo
<1>5. m \in G
  BY <1>1, <1>4
<1> QED
  BY <1>1, <1>5

LEMMA LatestStays ==
  ASSUME NEW p, ProgramValid(p), NEW name, NEW before \in 1 .. Size(p) + 1, LatestBinding(p, name, before) # 0
  PROVE  LET i == LatestBinding(p, name, before)
         IN  /\ i \in Binding(p) /\ i \in 1 .. Size(p) /\ i < before /\ p.text[i].name = name /\ name \in Names(p)
             /\ Object(Live(p)[before - 1], name) = Live(p)[i].names[name]
<1> DEFINE i == LatestBinding(p, name, before)
<1>1. Size(p) \in Nat /\ Binding(p) \subseteq 1 .. Size(p)
  BY TextOf
<1>2. IsLatest(p, name, before, i)
  BY LatestIsLatest
<1> HIDE DEF i
<1>3. i \in Binding(p) /\ i \in 1 .. Size(p) /\ i < before /\ p.text[i].name = name
      /\ \A j \in Binding(p) : j < before /\ p.text[j].name = name => j <= i
  BY <1>1, <1>2 DEF IsLatest
<1>4. name \in Names(p)
  BY <1>3 DEF Names
<1>5. i \in 0 .. Size(p) /\ before - 1 \in i .. Size(p) /\ before - 1 \in 0 .. Size(p)
  BY <1>1, <1>3
<1>6. \A j \in i + 1 .. before - 1 : j \in Binding(p) => p.text[j].name # name
  <2>1. SUFFICES ASSUME NEW j \in i + 1 .. before - 1, j \in Binding(p), p.text[j].name = name PROVE FALSE
    OBVIOUS
  <2>2. j < before /\ j > i /\ i \in Nat
    BY <1>1, <1>3
  <2>3. j <= i
    BY <2>1, <2>2, <1>3
  <2> QED
    BY <2>2, <2>3, <1>1
<1>7. Live(p)[before - 1].names[name] = Live(p)[i].names[name]
  BY <1>4, <1>5, <1>6, NameStays
<1>8. LiveAt(p, Live(p)[before - 1])
  BY <1>5, ImportIsLive
<1>9. Object(Live(p)[before - 1], name) = Live(p)[before - 1].names[name]
  BY <1>4, <1>8 DEF Object, LiveAt
<1> QED
  BY <1>3, <1>4, <1>7, <1>9 DEF i

LEMMA BindingIsObject ==
  ASSUME NEW p, ProgramValid(p)
  PROVE  \A i \in Binding(p) : \A seen \in SUBSET Names(p) :
           Bindings(p)[i][seen] # 0 => Live(p)[i].names[p.text[i].name] = Bindings(p)[i][seen]
<1> DEFINE IsObject(i) == \A seen \in SUBSET Names(p) :
             Bindings(p)[i][seen] # 0 => Live(p)[i].names[p.text[i].name] = Bindings(p)[i][seen]
           G == {n \in Nat : \A i \in Binding(p) : i <= n => IsObject(i)}
<1>1. Size(p) \in Nat /\ Binding(p) \subseteq 1 .. Size(p)
  BY TextOf
<1>2. 0 \in G
  BY <1>1
<1>3. ASSUME NEW n \in 0 .. Size(p) - 1, n \in G PROVE n + 1 \in G
  <2>1. n + 1 \in 1 .. Size(p) /\ n + 1 \in Nat /\ n \in 0 .. Size(p) /\ (n + 1) - 1 = n /\ n + 1 \in 1 .. Size(p) + 1
    BY <1>1
  <2> DEFINE s == p.text[n + 1]
             of == LatestBinding(p, s.of, n + 1)
  <2>2. ASSUME n + 1 \in Binding(p), NEW seen \in SUBSET Names(p), Bindings(p)[n + 1][seen] # 0
        PROVE  Live(p)[n + 1].names[s.name] = Bindings(p)[n + 1][seen]
    <3>1. Bindings(p)[n + 1][seen] =
            IF s.st = "new" THEN n + 1
            ELSE IF s.st = "alias" /\ of # 0 /\ s.of \notin seen THEN Bindings(p)[of][seen \cup {s.of}] ELSE 0
      <4>1. Bindings(p)[n + 1] = BindingAt(p, Bindings(p), n + 1)
        BY <2>1, BindingsUnfold
      <4>2. BindingAt(p, Bindings(p), n + 1)[seen] =
              IF s.st = "new" THEN n + 1
              ELSE IF s.st = "alias" /\ of # 0 /\ s.of \notin seen THEN Bindings(p)[of][seen \cup {s.of}] ELSE 0
        BY DEF BindingAt
      <4> QED
        BY ONLY <4>1, <4>2
    <3>2. LiveAt(p, Live(p)[n]) /\ s.name \in Names(p)
      BY <2>1, <2>2, ImportIsLive, KindOfStatement
    <3>3. Live(p)[n + 1] = Executed(p, Live(p)[n], n + 1)
      <4>1. Live(p)[n + 1] = Executed(p, Live(p)[(n + 1) - 1], n + 1)
        BY <2>1, ImportIsLive
      <4> QED
        BY ONLY <4>1, <2>1
    <3>4. CASE s.st = "new"
      <4>1. Live(p)[n + 1] = Bound(Live(p)[n], s.name, n + 1)
        BY <2>1, <3>2, <3>3, <3>4, StepOfImport
      <4>2. n + 1 \in 0 .. Size(p)
        BY <2>1
      <4>3. Live(p)[n + 1].names[s.name] = n + 1
        BY <3>2, <4>1, <4>2, BoundIsLive
      <4> QED
        BY <3>1, <3>4, <4>3
    <3>5. CASE s.st # "new"
      <4>1. s.st = "alias" /\ of # 0 /\ Bindings(p)[n + 1][seen] = Bindings(p)[of][seen \cup {s.of}]
        <5> HIDE DEF s, of
        <5> QED
          BY <3>1, <3>5, <2>2
      <4>2. of \in Binding(p) /\ of < n + 1 /\ of \in 1 .. Size(p) /\ p.text[of].name = s.of /\ s.of \in Names(p)
            /\ Object(Live(p)[n], s.of) = Live(p)[of].names[s.of]
        <5>1. /\ of \in Binding(p) /\ of < n + 1 /\ of \in 1 .. Size(p) /\ p.text[of].name = s.of /\ s.of \in Names(p)
              /\ Object(Live(p)[(n + 1) - 1], s.of) = Live(p)[of].names[s.of]
          BY <2>1, <4>1, LatestStays
        <5> HIDE DEF of, s
        <5> QED
          BY ONLY <5>1, <2>1
      <4>3. of <= n
        BY <4>2, <1>1
      <4>4. seen \cup {s.of} \in SUBSET Names(p)
        BY <4>2
      <4>5. IsObject(of)
        BY <4>2, <4>3, <1>3
      <4>6. Live(p)[of].names[s.of] = Bindings(p)[of][seen \cup {s.of}]
        <5>1. Bindings(p)[of][seen \cup {s.of}] # 0
          BY <4>1, <2>2
        <5>2. Live(p)[of].names[p.text[of].name] = Bindings(p)[of][seen \cup {s.of}]
          BY <4>4, <4>5, <5>1
        <5> QED
          BY <5>2, <4>2
      <4>7. Live(p)[n + 1] = Bound(Live(p)[n], s.name, Object(Live(p)[n], s.of))
        <5>1. s.st = "alias"
          BY <4>1
        <5>2. Executed(p, Live(p)[n], n + 1) = Bound(Live(p)[n], s.name, Object(Live(p)[n], s.of))
          BY <2>1, <3>2, <5>1, StepOfImport
        <5> QED
          BY ONLY <5>2, <3>3
      <4>8. Object(Live(p)[n], s.of) \in 0 .. Size(p)
        BY <3>2, ObjectIsPlace
      <4>9. Live(p)[n + 1].names[s.name] = Object(Live(p)[n], s.of)
        BY <3>2, <4>7, <4>8, BoundIsLive
      <4> QED
        BY <4>1, <4>2, <4>6, <4>9
    <3> QED
      BY <3>4, <3>5
  <2>3. n + 1 \in Binding(p) => IsObject(n + 1)
    BY <2>2
  <2>4. \A i \in Binding(p) : i <= n + 1 => i <= n \/ i = n + 1
    BY <1>1, <2>1
  <2> QED
    BY <2>1, <2>3, <2>4, <1>3
<1>4. 0 .. Size(p) \subseteq G
  <2> HIDE DEF G
  <2> QED
    BY ONLY <1>1, <1>2, <1>3, InductionUpTo
<1>5. Size(p) \in G
  BY <1>1, <1>4
<1> QED
  BY <1>1, <1>5

(* An instance that the text tells of a name is the object that it names.   *)
LEMMA InstanceIsObject ==
  ASSUME NEW p, ProgramValid(p), NEW name, NEW before \in 1 .. Size(p) + 1, Instance(p, name, before) # 0
  PROVE  Object(Live(p)[before - 1], name) = Instance(p, name, before)
<1> DEFINE i == LatestBinding(p, name, before)
<1>1. i # 0 /\ Instance(p, name, before) = Bindings(p)[i][{name}]
  BY DEF Instance
<1>2. /\ i \in Binding(p) /\ p.text[i].name = name /\ name \in Names(p)
      /\ Object(Live(p)[before - 1], name) = Live(p)[i].names[name]
  BY <1>1, LatestStays
<1> HIDE DEF i
<1>3. {name} \in SUBSET Names(p)
  BY <1>2
<1>4. Live(p)[i].names[p.text[i].name] = Bindings(p)[i][{name}]
  BY <1>1, <1>2, <1>3, BindingIsObject
<1> QED
  BY <1>1, <1>2, <1>4

-----------------------------------------------------------------------------
(* Where the entries of a table come from.                                  *)
Chains(p) == Seq(IncludeRecords(p))

LEMMA ChainOfIncludes ==
  ASSUME NEW p, ProgramValid(p), NEW chain \in Chains(p)
  PROVE  /\ Len(chain) \in Nat /\ DOMAIN chain = 1 .. Len(chain)
         /\ \A j \in 1 .. Len(chain) :
              /\ chain[j] \in IncludeRecords(p) /\ chain[j].prefix \in Seq(STRING) /\ chain[j].at \in 1 .. Size(p)
              /\ chain[j].router \in 1 .. Size(p)
              /\ p.text[chain[j].router].prefix = Prefix(p, chain[j].router)
              /\ p.text[chain[j].router].prefix \in Seq(STRING)
<1>1. Len(chain) \in Nat /\ DOMAIN chain = 1 .. Len(chain) /\ \A j \in 1 .. Len(chain) : chain[j] \in IncludeRecords(p)
  BY LenProperties, ElementOfSeq DEF Chains
<1>2. SUFFICES ASSUME NEW c \in IncludeRecords(p)
               PROVE  /\ c.prefix \in Seq(STRING) /\ c.at \in 1 .. Size(p) /\ c.router \in 1 .. Size(p)
                      /\ p.text[c.router].prefix = Prefix(p, c.router) /\ p.text[c.router].prefix \in Seq(STRING)
  BY <1>1
<1>3. c.prefix \in Seq(STRING) /\ c.at \in Statements(p, "include") /\ c.router \in Statements(p, "new")
  BY IncludesOfText DEF IncludeAt
<1>4. p.text[c.router].prefix = Prefix(p, c.router)
  BY <1>3 DEF Prefix
<1> QED
  BY <1>3, <1>4, TextOf, PrefixIsPath

LEMMA PathsAssociate ==
  ASSUME NEW a \in Seq(STRING), NEW b \in Seq(STRING), NEW c \in Seq(STRING)
  PROVE  (a \o b) \o c = a \o (b \o c)
BY ConcatAssociative

LEMMA ComposedIsPath ==
  ASSUME NEW p, ProgramValid(p), NEW chain \in Chains(p)
  PROVE  /\ Composed(p, chain)[0] = <<>>
         /\ \A n \in 0 .. Len(chain) : Composed(p, chain)[n] \in Seq(STRING)
         /\ \A n \in 1 .. Len(chain) :
              Composed(p, chain)[n] = (Composed(p, chain)[n - 1] \o chain[n].prefix) \o Prefix(p, chain[n].router)
<1> DEFINE f == Composed(p, chain)
           G == {n \in Nat : n \in 0 .. Len(chain) => f[n] \in Seq(STRING)}
<1>1. Len(chain) \in Nat
  BY ChainOfIncludes
<1>2. f[0] = <<>>
  <2>1. f[0] = ComposedFrom(p, chain, f, 0)
    BY <1>1, ComposedUnfolds
  <2> QED
    BY <2>1 DEF ComposedFrom
<1>3. \A n \in 1 .. Len(chain) : f[n] = (f[n - 1] \o chain[n].prefix) \o Prefix(p, chain[n].router)
  <2>1. SUFFICES ASSUME NEW n \in 1 .. Len(chain) PROVE f[n] = (f[n - 1] \o chain[n].prefix) \o Prefix(p, chain[n].router)
    OBVIOUS
  <2>2. n \in 0 .. Len(chain) /\ n # 0
    BY <1>1
  <2>3. f[n] = ComposedFrom(p, chain, f, n)
    BY <1>1, <2>2, ComposedUnfolds
  <2>4. ComposedFrom(p, chain, f, n) = (f[n - 1] \o chain[n].prefix) \o p.text[chain[n].router].prefix
    BY <2>2 DEF ComposedFrom
  <2>5. p.text[chain[n].router].prefix = Prefix(p, chain[n].router)
    BY ChainOfIncludes
  <2> HIDE DEF f
  <2> QED
    BY ONLY <2>3, <2>4, <2>5
<1> HIDE DEF f
<1>4. 0 \in G
  BY <1>2, EmptySeq
<1>5. ASSUME NEW n \in 0 .. Len(chain) - 1, n \in G PROVE n + 1 \in G
  <2>1. n + 1 \in 1 .. Len(chain) /\ n \in 0 .. Len(chain) /\ (n + 1) - 1 = n /\ n + 1 \in Nat
    BY <1>1
  <2>2. f[n] \in Seq(STRING) /\ chain[n + 1].prefix \in Seq(STRING) /\ Prefix(p, chain[n + 1].router) \in Seq(STRING)
    BY <2>1, <1>5, ChainOfIncludes, PrefixIsPath
  <2>3. (f[n] \o chain[n + 1].prefix) \o Prefix(p, chain[n + 1].router) \in Seq(STRING)
    BY ONLY <2>2, ConcatProperties
  <2>4. f[n + 1] = (f[(n + 1) - 1] \o chain[n + 1].prefix) \o Prefix(p, chain[n + 1].router)
    BY <2>1, <1>3
  <2>5. f[n + 1] \in Seq(STRING)
    BY ONLY <2>1, <2>3, <2>4
  <2> QED
    BY <2>1, <2>5
<1>6. 0 .. Len(chain) \subseteq G
  <2> HIDE DEF G
  <2> QED
    BY ONLY <1>1, <1>4, <1>5, InductionUpTo
<1>7. \A n \in 0 .. Len(chain) : f[n] \in Seq(STRING)
  BY <1>6
<1> QED
  BY <1>2, <1>3, <1>7 DEF f

LEMMA LongerChain ==
  ASSUME NEW p, ProgramValid(p), NEW chain \in Chains(p), NEW c \in IncludeRecords(p)
  PROVE  LET longer == <<c>> \o chain
         IN  /\ longer \in Chains(p) /\ Len(longer) = Len(chain) + 1 /\ longer[1] = c
             /\ \A j \in 1 .. Len(chain) : longer[j + 1] = chain[j]
<1>1. <<c>> \in Seq(IncludeRecords(p)) /\ Len(<<c>>) = 1 /\ <<c>>[1] = c
  OBVIOUS
<1>2. Len(chain) \in Nat /\ chain \in Seq(IncludeRecords(p))
  BY ChainOfIncludes DEF Chains
<1>3. <<c>> \o chain \in Seq(IncludeRecords(p)) /\ Len(<<c>> \o chain) = 1 + Len(chain)
      /\ \A i \in 1 .. 1 + Len(chain) : (<<c>> \o chain)[i] = IF i <= 1 THEN <<c>>[i] ELSE chain[i - 1]
  BY ONLY <1>1, <1>2, ConcatProperties
<1>4. (<<c>> \o chain)[1] = c /\ Len(<<c>> \o chain) = Len(chain) + 1
  BY <1>1, <1>2, <1>3
<1>5. \A j \in 1 .. Len(chain) : (<<c>> \o chain)[j + 1] = chain[j]
  <2>1. ASSUME NEW j \in 1 .. Len(chain) PROVE (<<c>> \o chain)[j + 1] = chain[j]
    <3>1. j + 1 \in 1 .. 1 + Len(chain) /\ ~(j + 1 <= 1) /\ (j + 1) - 1 = j
      BY <1>2
    <3> QED
      BY <3>1, <1>3
  <2> QED
    BY <2>1
<1> QED
  BY <1>3, <1>4, <1>5 DEF Chains

LEMMA LongerTells ==
  ASSUME NEW p, ProgramValid(p), NEW a \in Chains(p), NEW b \in Chains(p), NEW c \in IncludeRecords(p), <<c>> \o a = <<c>> \o b
  PROVE  a = b
<1> DEFINE s == <<c>> \o a
           t == <<c>> \o b
<1>1. Len(s) = Len(a) + 1 /\ \A j \in 1 .. Len(a) : s[j + 1] = a[j]
  BY LongerChain
<1>2. Len(t) = Len(b) + 1 /\ \A j \in 1 .. Len(b) : t[j + 1] = b[j]
  BY LongerChain
<1>3. s = t
  OBVIOUS
<1>4. Len(a) \in Nat /\ Len(b) \in Nat /\ a \in Seq(IncludeRecords(p)) /\ b \in Seq(IncludeRecords(p))
  BY ChainOfIncludes DEF Chains
<1> HIDE DEF s, t
<1>5. Len(a) = Len(b)
  BY ONLY <1>1, <1>2, <1>3, <1>4
<1>6. \A j \in 1 .. Len(a) : a[j] = b[j]
  BY ONLY <1>1, <1>2, <1>3, <1>5
<1> QED
  BY ONLY <1>4, <1>5, <1>6, SeqEqual

LEMMA ComposedOfLonger ==
  ASSUME NEW p, ProgramValid(p), NEW chain \in Chains(p), NEW c \in IncludeRecords(p)
  PROVE  Composed(p, <<c>> \o chain)[Len(chain) + 1] = (c.prefix \o Prefix(p, c.router)) \o Composed(p, chain)[Len(chain)]
<1> DEFINE longer == <<c>> \o chain
           f == Composed(p, chain)
           g == Composed(p, longer)
           own == c.prefix \o Prefix(p, c.router)
           N == Len(chain)
           G == {n \in Nat : n \in 0 .. N => g[n + 1] = own \o f[n]}
<1>1. N \in Nat
  BY ChainOfIncludes
<1>2. longer \in Chains(p) /\ Len(longer) = N + 1 /\ longer[1] = c /\ \A j \in 1 .. N : longer[j + 1] = chain[j]
  BY LongerChain
<1>3. c.prefix \in Seq(STRING) /\ Prefix(p, c.router) \in Seq(STRING)
  BY IncludesOfText, PrefixIsPath DEF IncludeAt
<1>4. own \in Seq(STRING)
  BY <1>3, ConcatProperties
<1> HIDE DEF longer
<1>5. /\ g[0] = <<>> /\ f[0] = <<>>
      /\ \A n \in 1 .. N + 1 : g[n] = (g[n - 1] \o longer[n].prefix) \o Prefix(p, longer[n].router)
      /\ \A n \in 1 .. N : f[n] = (f[n - 1] \o chain[n].prefix) \o Prefix(p, chain[n].router)
      /\ \A n \in 0 .. N : f[n] \in Seq(STRING)
  BY <1>2, ComposedIsPath
<1> HIDE DEF f, g, N
<1>6. 0 \in G
  <2>1. 1 \in 1 .. N + 1 /\ 1 - 1 = 0
    BY <1>1
  <2>2. g[1] = (g[0] \o c.prefix) \o Prefix(p, c.router)
    BY <1>2, <1>5, <2>1
  <2>3. <<>> \o c.prefix = c.prefix
    BY <1>3, ConcatEmptySeq
  <2>4. own \o <<>> = own
    <3> HIDE DEF own
    <3> QED
      BY ONLY <1>4, ConcatEmptySeq
  <2> HIDE DEF own
  <2>5. g[1] = own \o f[0]
    BY ONLY <1>5, <2>2, <2>3, <2>4 DEF own
  <2> QED
    BY <2>5
<1>7. ASSUME NEW n \in 0 .. N - 1, n \in G PROVE n + 1 \in G
  <2>1. n + 1 \in 1 .. N /\ n \in 0 .. N /\ (n + 1) + 1 \in 1 .. N + 1 /\ ((n + 1) + 1) - 1 = n + 1 /\ (n + 1) - 1 = n /\ n + 1 \in Nat
    BY <1>1
  <2> DEFINE d == chain[n + 1]
  <2>2. longer[(n + 1) + 1] = d
    BY <1>2, <2>1 DEF N
  <2>3. g[(n + 1) + 1] = (g[n + 1] \o d.prefix) \o Prefix(p, d.router)
    <3>1. g[(n + 1) + 1] = (g[((n + 1) + 1) - 1] \o longer[(n + 1) + 1].prefix) \o Prefix(p, longer[(n + 1) + 1].router)
      BY <1>5, <2>1
    <3> HIDE DEF d
    <3> QED
      BY ONLY <3>1, <2>1, <2>2
  <2>4. f[n + 1] = (f[n] \o d.prefix) \o Prefix(p, d.router)
    <3>1. f[n + 1] = (f[(n + 1) - 1] \o chain[n + 1].prefix) \o Prefix(p, chain[n + 1].router)
      BY <1>5, <2>1
    <3> QED
      BY ONLY <3>1, <2>1
  <2>5. g[n + 1] = own \o f[n]
    BY <2>1, <1>7
  <2>6. f[n] \in Seq(STRING) /\ d.prefix \in Seq(STRING) /\ Prefix(p, d.router) \in Seq(STRING)
    BY <1>5, <2>1, ChainOfIncludes, PrefixIsPath DEF N
  <2> HIDE DEF own, d
  <2>7. f[n] \o d.prefix \in Seq(STRING)
    BY ONLY <2>6, ConcatProperties
  <2>8. (own \o f[n]) \o d.prefix = own \o (f[n] \o d.prefix)
    BY ONLY <1>4, <2>6, PathsAssociate
  <2>9. (own \o (f[n] \o d.prefix)) \o Prefix(p, d.router) = own \o ((f[n] \o d.prefix) \o Prefix(p, d.router))
    BY ONLY <1>4, <2>6, <2>7, PathsAssociate
  <2>10. g[(n + 1) + 1] = own \o f[n + 1]
    BY ONLY <2>3, <2>4, <2>5, <2>8, <2>9
  <2> QED
    BY <2>1, <2>10
<1>8. 0 .. N \subseteq G
  <2> HIDE DEF G
  <2> QED
    BY ONLY <1>1, <1>6, <1>7, InductionUpTo
<1>9. N \in G
  BY <1>1, <1>8
<1>10. g[N + 1] = own \o f[N]
  <2> HIDE DEF own
  <2> QED
    BY <1>1, <1>9
<1> QED
  BY <1>10 DEF f, g, N, longer

(* The chain leads from an object to the router of a decorator, and its     *)
(* includes were executed one after the other, the innermost first.         *)
Reaches(p, n, x, chain, i) ==
  /\ chain \in Chains(p) /\ i \in Statements(p, "route") /\ i <= n
  /\ Len(chain) = 0 => Instance(p, p.text[i].on, i) = x
  /\ Len(chain) # 0 => chain[1].parent = x /\ chain[Len(chain)].router = Instance(p, p.text[i].on, i)
  /\ \A j \in 1 .. Len(chain) - 1 : chain[j + 1].parent = chain[j].router
  /\ \A j \in 1 .. Len(chain) : chain[j].at + j <= n + 1

EntryFrom(p, x, chain, i, entry) ==
  /\ entry.path = Prefix(p, x) \o (Composed(p, chain)[Len(chain)] \o p.text[i].path)
  /\ entry.methods = ToSet(p.text[i].methods)
  /\ entry.code = IF p.text[i].wrapped THEN "wrapper" ELSE p.text[i].owner

(* origins[k] is where the k-th entry of the table comes from; no two come  *)
(* from one decorator through the same includes.                            *)
Origins(p) == Chains(p) \X Statements(p, "route")
Traced(p, n, x, table, origins) ==
  /\ origins \in Seq(Origins(p)) /\ Len(origins) = Len(table)
  /\ \A k \in 1 .. Len(table) : Reaches(p, n, x, origins[k][1], origins[k][2]) /\ EntryFrom(p, x, origins[k][1], origins[k][2], table[k])
  /\ \A k, m \in 1 .. Len(table) : origins[k] = origins[m] => k = m

LEMMA ReachesLater ==
  ASSUME NEW p, ProgramValid(p), NEW n \in Nat, NEW x, NEW chain, NEW i, Reaches(p, n, x, chain, i)
  PROVE  Reaches(p, n + 1, x, chain, i)
<1>1. chain \in Chains(p) /\ i \in Statements(p, "route") /\ i <= n
  BY DEF Reaches
<1>2. Len(chain) \in Nat /\ \A j \in 1 .. Len(chain) : chain[j].at \in Nat
  BY <1>1, ChainOfIncludes, TextOf
<1>3. i \in Nat
  BY <1>1, TextOf
<1>4. i <= n + 1
  BY <1>1, <1>3
<1>5. \A j \in 1 .. Len(chain) : chain[j].at + j <= (n + 1) + 1
  <2>1. SUFFICES ASSUME NEW j \in 1 .. Len(chain) PROVE chain[j].at + j <= (n + 1) + 1
    OBVIOUS
  <2>2. chain[j].at + j <= n + 1 /\ chain[j].at \in Nat /\ j \in Nat
    BY <1>2 DEF Reaches
  <2> QED
    BY ONLY <2>2, n \in Nat
<1> QED
  BY <1>1, <1>4, <1>5 DEF Reaches

LEMMA TracedLater ==
  ASSUME NEW p, ProgramValid(p), NEW n \in Nat, NEW x, NEW table, NEW origins, Traced(p, n, x, table, origins)
  PROVE  Traced(p, n + 1, x, table, origins)
BY ReachesLater DEF Traced

(* Two traced parts are a traced table, where they have no origin in common.*)
LEMMA TracedTogether ==
  ASSUME NEW p, NEW n, NEW x, NEW s \in Seq(Entry(p)), NEW t \in Seq(Entry(p)), NEW o, NEW q,
         Traced(p, n, x, s, o), Traced(p, n, x, t, q),
         \A k \in 1 .. Len(s), m \in 1 .. Len(t) : o[k] # q[m]
  PROVE  Traced(p, n, x, s \o t, o \o q)
<1>1. Len(s) \in Nat /\ Len(t) \in Nat
  BY LenProperties
<1>2. o \in Seq(Origins(p)) /\ q \in Seq(Origins(p)) /\ Len(o) = Len(s) /\ Len(q) = Len(t)
  BY DEF Traced
<1>3. o \o q \in Seq(Origins(p)) /\ Len(o \o q) = Len(s) + Len(t)
      /\ \A k \in 1 .. Len(s) + Len(t) : (o \o q)[k] = IF k <= Len(s) THEN o[k] ELSE q[k - Len(s)]
  <2>1. o \o q \in Seq(Origins(p)) /\ Len(o \o q) = Len(o) + Len(q)
        /\ \A k \in 1 .. Len(o) + Len(q) : (o \o q)[k] = IF k <= Len(o) THEN o[k] ELSE q[k - Len(o)]
    BY ONLY <1>2, ConcatProperties
  <2> QED
    BY ONLY <2>1, <1>2
<1>4. Len(s \o t) = Len(s) + Len(t)
      /\ \A k \in 1 .. Len(s) + Len(t) : (s \o t)[k] = IF k <= Len(s) THEN s[k] ELSE t[k - Len(s)]
  BY ConcatProperties
<1> DEFINE both == o \o q
           table == s \o t
           N == Len(s)
           M == Len(t)
<1> HIDE DEF both, table, N, M
<1>5. /\ N \in Nat /\ M \in Nat
      /\ \A k \in 1 .. N + M : both[k] = IF k <= N THEN o[k] ELSE q[k - N]
      /\ \A k \in 1 .. N + M : table[k] = IF k <= N THEN s[k] ELSE t[k - N]
  BY <1>1, <1>3, <1>4 DEF both, table, N, M
<1>6. /\ \A k \in 1 .. N : Reaches(p, n, x, o[k][1], o[k][2]) /\ EntryFrom(p, x, o[k][1], o[k][2], s[k])
      /\ \A k \in 1 .. M : Reaches(p, n, x, q[k][1], q[k][2]) /\ EntryFrom(p, x, q[k][1], q[k][2], t[k])
      /\ \A k, m \in 1 .. N : o[k] = o[m] => k = m
      /\ \A k, m \in 1 .. M : q[k] = q[m] => k = m
      /\ \A k \in 1 .. N, m \in 1 .. M : o[k] # q[m]
  BY DEF Traced, N, M
<1>7. \A k \in 1 .. N + M :
        \/ k \in 1 .. N /\ both[k] = o[k] /\ table[k] = s[k]
        \/ k \notin 1 .. N /\ k - N \in 1 .. M /\ both[k] = q[k - N] /\ table[k] = t[k - N]
  <2>1. \A k \in 1 .. N + M : (k \in 1 .. N /\ k <= N) \/ (k \notin 1 .. N /\ k - N \in 1 .. M /\ ~(k <= N))
    BY ONLY <1>5
  <2> QED
    BY ONLY <1>5, <2>1
<1>8. \A k \in 1 .. N + M : Reaches(p, n, x, both[k][1], both[k][2]) /\ EntryFrom(p, x, both[k][1], both[k][2], table[k])
  BY ONLY <1>6, <1>7
<1>9. \A k, m \in 1 .. N + M : both[k] = both[m] => k = m
  <2>1. SUFFICES ASSUME NEW k \in 1 .. N + M, NEW m \in 1 .. N + M, both[k] = both[m] PROVE k = m
    OBVIOUS
  <2>2. CASE k \in 1 .. N /\ m \in 1 .. N
    BY ONLY <2>1, <2>2, <1>6, <1>7
  <2>3. CASE k \in 1 .. N /\ m \notin 1 .. N
    BY ONLY <2>1, <2>3, <1>6, <1>7
  <2>4. CASE k \notin 1 .. N /\ m \in 1 .. N
    <3>1. both[m] = o[m] /\ both[k] = q[k - N] /\ k - N \in 1 .. M
      BY ONLY <2>4, <1>7
    <3> QED
      BY ONLY <3>1, <2>1, <2>4, <1>6
  <2>5. CASE k \notin 1 .. N /\ m \notin 1 .. N
    <3>1. both[m] = q[m - N] /\ both[k] = q[k - N] /\ k - N \in 1 .. M /\ m - N \in 1 .. M
      BY ONLY <2>5, <1>7
    <3>2. k - N = m - N
      BY ONLY <3>1, <2>1, <1>6
    <3>3. k \in Int /\ m \in Int /\ N \in Int
      BY <1>5
    <3> QED
      BY ONLY <3>2, <3>3
  <2> QED
    BY <2>2, <2>3, <2>4, <2>5
<1> QED
  BY <1>3, <1>4, <1>8, <1>9 DEF Traced, both, table, N, M

-----------------------------------------------------------------------------
(* The import of a text that the index reads as a whole.                    *)
LEMMA WholeIndex ==
  ASSUME NEW p, ProgramValid(p), ~IndexPartial(p)
  PROVE  /\ \A i \in Statements(p, "include") : ~IncludeRefused(p, i)
         /\ \A i \in Statements(p, "route") :
              ~RouteRefused(p, i) /\ \A k \in DOMAIN p.text[i].methods : p.text[i].methods[k] \in HttpMethods
         /\ SelectedApps(p) # {}
BY DEF IndexPartial

LEMMA DecoratorIsTraced ==
  ASSUME NEW p, ProgramValid(p), ~IndexPartial(p), NEW n \in 0 .. Size(p) - 1, p.text[n + 1].st = "route",
         NEW x \in 1 .. Size(p), x = Object(Live(p)[n], p.text[n + 1].on)
  PROVE  Traced(p, n + 1, x, <<LiveRoute(p.text[n + 1], Prefix(p, x))>>, <<<<<<>>, n + 1>>>>)
<1> DEFINE i == n + 1
           s == p.text[i]
           e == LiveRoute(s, Prefix(p, x))
<1>1. i \in 1 .. Size(p) /\ i \in Statements(p, "route") /\ i - 1 = n /\ i <= n + 1 /\ i \in 1 .. Size(p) + 1
  <2>1. i \in 1 .. Size(p) /\ i - 1 = n /\ i <= n + 1 /\ i \in 1 .. Size(p) + 1
    BY TextOf
  <2> QED
    BY <2>1, KindOfStatement
<1>2. ~RouteRefused(p, i)
  BY <1>1, WholeIndex
<1>3. Instance(p, s.on, i) # 0 /\ s.methods # NoPath
  BY <1>2 DEF RouteRefused
<1>4. Instance(p, s.on, i) = x
  <2>1. Object(Live(p)[i - 1], s.on) = Instance(p, s.on, i)
    BY <1>1, <1>3, InstanceIsObject
  <2>2. Object(Live(p)[i - 1], s.on) = x
    BY <1>1
  <2> QED
    BY ONLY <2>1, <2>2
<1>5. <<>> \in Chains(p) /\ Len(<<>>) = 0
  BY EmptySeq DEF Chains
<1>6. Reaches(p, n + 1, x, <<>>, i)
  <2>1. \A j : j \notin 1 .. 0 /\ j \notin 1 .. 0 - 1
    OBVIOUS
  <2>2. \A j : j \notin 1 .. Len(<<>>) /\ j \notin 1 .. Len(<<>>) - 1
    BY ONLY <1>5, <2>1
  <2> HIDE DEF i, s
  <2> QED
    BY ONLY <1>1, <1>4, <1>5, <2>2 DEF Reaches, s
<1>7. EntryFrom(p, x, <<>>, i, e)
  <2>1. e.path = Prefix(p, x) \o s.path /\ e.methods = ToSet(s.methods) /\ e.code = IF s.wrapped THEN "wrapper" ELSE s.owner
    BY <1>3 DEF LiveRoute
  <2>2. Composed(p, <<>>)[0] = <<>>
    BY <1>5, ComposedIsPath
  <2>3. <<>> \o s.path = s.path
    BY <1>1, MethodsOfRoute, ConcatEmptySeq
  <2> HIDE DEF e, s
  <2>4. e.path = Prefix(p, x) \o (Composed(p, <<>>)[Len(<<>>)] \o s.path)
    BY ONLY <1>5, <2>1, <2>2, <2>3
  <2> HIDE DEF i
  <2> QED
    BY ONLY <2>1, <2>4 DEF EntryFrom, s
<1> HIDE DEF e, s
<1> DEFINE origin == <<<<>>, i>>
<1>8. origin \in Origins(p) /\ origin[1] = <<>> /\ origin[2] = i
  BY <1>1, <1>5 DEF Origins
<1> HIDE DEF origin
<1>9. <<origin>> \in Seq(Origins(p)) /\ Len(<<origin>>) = 1 /\ Len(<<e>>) = 1 /\ <<origin>>[1] = origin /\ <<e>>[1] = e
  BY <1>8
<1>10. \A k \in 1 .. 1 : k = 1
  OBVIOUS
<1> HIDE DEF i
<1>11. Traced(p, n + 1, x, <<e>>, <<origin>>)
  BY ONLY <1>6, <1>7, <1>8, <1>9, <1>10 DEF Traced
<1> QED
  BY <1>11 DEF e, s, i, origin

(* What is copied comes through the include, and through what it came       *)
(* through before.                                                          *)
Through(c, origins) == [k \in DOMAIN origins |-> <<<<c>> \o origins[k][1], origins[k][2]>>]

LEMMA CopiesAreTraced ==
  ASSUME NEW p, ProgramValid(p), NEW n \in 0 .. Size(p) - 1, NEW c \in IncludeRecords(p), c.at = n + 1,
         NEW table \in Seq(Entry(p)), NEW origins, Traced(p, n, c.router, table, origins)
  PROVE  Traced(p, n + 1, c.parent, Copies(table, Prefix(p, c.parent) \o c.prefix), Through(c, origins))
<1> DEFINE x == c.parent
           y == c.router
           copies == Copies(table, Prefix(p, x) \o c.prefix)
           q == Through(c, origins)
           N == Len(table)
<1>1. N \in Nat /\ n \in Nat
  BY LenProperties, TextOf
<1>2. c.prefix \in Seq(STRING) /\ Prefix(p, x) \in Seq(STRING) /\ Prefix(p, y) \in Seq(STRING)
  BY IncludesOfText, PrefixIsPath DEF IncludeAt
<1>3. Prefix(p, x) \o c.prefix \in Seq(STRING)
  BY ONLY <1>2, ConcatProperties
<1>4. Len(copies) = N
      /\ \A k \in 1 .. N : /\ copies[k].path = (Prefix(p, x) \o c.prefix) \o table[k].path
                           /\ copies[k].methods = table[k].methods /\ copies[k].code = table[k].code
  BY <1>3, CopiesAreEntries
<1>5. origins \in Seq(Origins(p)) /\ Len(origins) = N /\ DOMAIN origins = 1 .. N
  <2>1. origins \in Seq(Origins(p)) /\ Len(origins) = N
    BY DEF Traced
  <2> QED
    BY <2>1, LenProperties
<1>6. \A k \in 1 .. N : origins[k] = <<origins[k][1], origins[k][2]>> /\ origins[k][1] \in Chains(p) /\ origins[k][2] \in Statements(p, "route")
  <2>1. \A k \in 1 .. N : origins[k] \in Origins(p)
    BY <1>5, ElementOfSeq
  <2> QED
    BY <2>1 DEF Origins
<1>7. \A k \in 1 .. N : q[k] = <<<<c>> \o origins[k][1], origins[k][2]>>
  BY <1>5 DEF Through
<1>8. \A k \in 1 .. N : q[k] \in Origins(p) /\ q[k][1] = <<c>> \o origins[k][1] /\ q[k][2] = origins[k][2]
  <2>1. SUFFICES ASSUME NEW k \in 1 .. N
                 PROVE  q[k] \in Origins(p) /\ q[k][1] = <<c>> \o origins[k][1] /\ q[k][2] = origins[k][2]
    OBVIOUS
  <2> DEFINE longer == <<c>> \o origins[k][1]
  <2>2. longer \in Chains(p) /\ origins[k][2] \in Statements(p, "route")
    BY <1>6, LongerChain
  <2>3. q[k] = <<longer, origins[k][2]>>
    BY <1>7
  <2> HIDE DEF longer, q
  <2>4. q[k] \in Origins(p) /\ q[k][1] = longer /\ q[k][2] = origins[k][2]
    BY ONLY <2>2, <2>3 DEF Origins
  <2> QED
    BY <2>4 DEF longer
<1>9. q \in Seq(Origins(p)) /\ Len(q) = N
  <2>1. q = [k \in 1 .. N |-> q[k]]
    BY <1>5 DEF Through
  <2> HIDE DEF q
  <2> QED
    BY <1>1, <1>8, <2>1
<1> HIDE DEF q, copies, N
<1>10. ASSUME NEW k \in 1 .. N PROVE Reaches(p, n + 1, x, q[k][1], q[k][2])
  <2> DEFINE chain == origins[k][1]
             i == origins[k][2]
             longer == <<c>> \o chain
             L == Len(chain)
  <2>1. Reaches(p, n, y, chain, i)
    BY <1>10 DEF Traced, N
  <2>2. chain \in Chains(p) /\ L \in Nat /\ \A j \in 1 .. L : chain[j].at \in Nat
    BY <1>6, ChainOfIncludes, TextOf
  <2>3. longer \in Chains(p) /\ Len(longer) = L + 1 /\ longer[1] = c /\ \A j \in 1 .. L : longer[j + 1] = chain[j]
    BY <2>2, LongerChain
  <2>4. /\ L = 0 => Instance(p, p.text[i].on, i) = y
        /\ L # 0 => chain[1].parent = y /\ chain[L].router = Instance(p, p.text[i].on, i)
        /\ \A j \in 1 .. L - 1 : chain[j + 1].parent = chain[j].router
        /\ \A j \in 1 .. L : chain[j].at + j <= n + 1
        /\ i \in Statements(p, "route") /\ i <= n
    BY <2>1 DEF Reaches
  <2>5. i <= n + 1
    BY <2>4, <1>1, TextOf
  <2> HIDE DEF chain, longer, L, i
  <2>6. longer[Len(longer)].router = Instance(p, p.text[i].on, i)
    <3>1. CASE L = 0
      BY <3>1, <2>3, <2>4
    <3>2. CASE L # 0
      <4>1. L \in 1 .. L
        BY <3>2, <2>2
      <4> QED
        BY <4>1, <3>2, <2>3, <2>4
    <3> QED
      BY <3>1, <3>2
  <2>7. \A j \in 1 .. Len(longer) - 1 : longer[j + 1].parent = longer[j].router
    <3>1. SUFFICES ASSUME NEW j \in 1 .. L PROVE longer[j + 1].parent = longer[j].router
      BY <2>2, <2>3
    <3>2. longer[j + 1] = chain[j]
      BY <2>3
    <3>3. CASE j = 1
      BY <3>2, <3>3, <2>2, <2>3, <2>4
    <3>4. CASE j # 1
      <4>1. j - 1 \in 1 .. L - 1 /\ j - 1 \in 1 .. L /\ (j - 1) + 1 = j
        BY <3>4, <2>2
      <4>2. longer[j] = chain[j - 1]
        <5>1. longer[(j - 1) + 1] = chain[j - 1]
          BY <4>1, <2>3
        <5> QED
          BY ONLY <5>1, <4>1
      <4>3. chain[j].parent = chain[j - 1].router
        <5>1. chain[(j - 1) + 1].parent = chain[j - 1].router
          BY <4>1, <2>4
        <5> QED
          BY ONLY <5>1, <4>1
      <4> QED
        BY ONLY <3>2, <4>2, <4>3
    <3> QED
      BY <3>3, <3>4
  <2>8. \A j \in 1 .. Len(longer) : longer[j].at + j <= (n + 1) + 1
    <3>1. SUFFICES ASSUME NEW j \in 1 .. L + 1 PROVE longer[j].at + j <= (n + 1) + 1
      BY <2>3
    <3>2. CASE j = 1
      BY <3>2, <2>3, <1>1
    <3>3. CASE j # 1
      <4>1. j - 1 \in 1 .. L /\ (j - 1) + 1 = j /\ j \in Nat
        BY <3>3, <2>2
      <4>2. longer[j] = chain[j - 1]
        <5>1. longer[(j - 1) + 1] = chain[j - 1]
          BY <4>1, <2>3
        <5> QED
          BY ONLY <5>1, <4>1
      <4>3. chain[j - 1].at \in Nat /\ chain[j - 1].at + (j - 1) <= n + 1
        BY <4>1, <2>2, <2>4
      <4>4. chain[j - 1].at + j <= (n + 1) + 1
        <5> DEFINE at == chain[j - 1].at
        <5>1. at \in Nat /\ at + (j - 1) <= n + 1
          BY <4>3
        <5> HIDE DEF at
        <5>2. at + j <= (n + 1) + 1
          BY ONLY <5>1, <4>1, <1>1
        <5> QED
          BY <5>2 DEF at
      <4> QED
        BY ONLY <4>2, <4>4
    <3> QED
      BY <3>2, <3>3
  <2>9. Len(longer) # 0 /\ longer[1].parent = x
    BY <2>2, <2>3
  <2>10. Reaches(p, n + 1, x, longer, i)
    BY ONLY <2>3, <2>4, <2>5, <2>6, <2>7, <2>8, <2>9 DEF Reaches
  <2> QED
    BY <2>10, <1>8, <1>10 DEF longer, chain, i
<1>11. ASSUME NEW k \in 1 .. N PROVE EntryFrom(p, x, q[k][1], q[k][2], copies[k])
  <2> DEFINE chain == origins[k][1]
             i == origins[k][2]
             longer == <<c>> \o chain
             f == Composed(p, chain)[Len(chain)]
             path == p.text[i].path
  <2>1. EntryFrom(p, y, chain, i, table[k])
    BY <1>11 DEF Traced, N
  <2>2. chain \in Chains(p) /\ i \in Statements(p, "route")
    BY <1>6
  <2>3. Len(longer) = Len(chain) + 1
    BY <2>2, LongerChain
  <2>4. Composed(p, longer)[Len(chain) + 1] = (c.prefix \o Prefix(p, y)) \o f
    BY <2>2, ComposedOfLonger
  <2>5. f \in Seq(STRING) /\ path \in Seq(STRING)
    <3>1. Len(chain) \in 0 .. Len(chain)
      BY <2>2, ChainOfIncludes
    <3> QED
      BY <2>2, <3>1, ComposedIsPath, MethodsOfRoute
  <2>6. /\ table[k].path = Prefix(p, y) \o (f \o path) /\ table[k].methods = ToSet(p.text[i].methods)
        /\ table[k].code = IF p.text[i].wrapped THEN "wrapper" ELSE p.text[i].owner
    BY <2>1 DEF EntryFrom
  <2>7. /\ copies[k].path = (Prefix(p, x) \o c.prefix) \o table[k].path
        /\ copies[k].methods = table[k].methods /\ copies[k].code = table[k].code
    BY <1>4
  <2> HIDE DEF f, path, chain, longer, i
  <2> DEFINE a == Prefix(p, x)
             b == c.prefix
             d == Prefix(p, y)
  <2>8. a \in Seq(STRING) /\ b \in Seq(STRING) /\ d \in Seq(STRING)
    BY <1>2
  <2> HIDE DEF a, b, d
  <2>9. f \o path \in Seq(STRING) /\ b \o d \in Seq(STRING) /\ d \o (f \o path) \in Seq(STRING)
    <3>1. f \o path \in Seq(STRING) /\ b \o d \in Seq(STRING)
      BY ONLY <2>5, <2>8, ConcatProperties
    <3> QED
      BY ONLY <2>8, <3>1, ConcatProperties
  <2>10. (a \o b) \o (d \o (f \o path)) = a \o (b \o (d \o (f \o path)))
    BY ONLY <2>8, <2>9, PathsAssociate
  <2>11. b \o (d \o (f \o path)) = (b \o d) \o (f \o path)
    BY ONLY <2>8, <2>9, PathsAssociate
  <2>12. (b \o d) \o (f \o path) = ((b \o d) \o f) \o path
    BY ONLY <2>5, <2>9, PathsAssociate
  <2>13. (a \o b) \o (d \o (f \o path)) = a \o (((b \o d) \o f) \o path)
    BY ONLY <2>10, <2>11, <2>12
  <2>14. copies[k].path = Prefix(p, x) \o (Composed(p, longer)[Len(longer)] \o path)
    BY ONLY <2>3, <2>4, <2>6, <2>7, <2>13 DEF a, b, d
  <2>15. EntryFrom(p, x, longer, i, copies[k])
    BY ONLY <2>6, <2>7, <2>14 DEF EntryFrom, path
  <2> QED
    BY <2>15, <1>8, <1>11 DEF longer, chain, i
<1>12. ASSUME NEW k \in 1 .. N, NEW m \in 1 .. N, q[k] = q[m] PROVE k = m
  <2>1. q[k][1] = q[m][1] /\ q[k][2] = q[m][2]
    BY <1>12
  <2>2. origins[k][2] = origins[m][2]
    BY <2>1, <1>8
  <2>3. origins[k][1] = origins[m][1]
    <3> DEFINE a == origins[k][1]
               b == origins[m][1]
    <3>1. a \in Chains(p) /\ b \in Chains(p)
      BY <1>6
    <3>2. q[k][1] = <<c>> \o a
      BY <1>8
    <3>3. q[m][1] = <<c>> \o b
      BY <1>8
    <3> HIDE DEF a, b
    <3>4. <<c>> \o a = <<c>> \o b
      BY ONLY <2>1, <3>2, <3>3
    <3>5. a = b
      BY <3>1, <3>4, LongerTells
    <3> QED
      BY <3>5 DEF a, b
  <2>4. origins[k] = origins[m]
    <3>1. origins[k] = <<origins[k][1], origins[k][2]>> /\ origins[m] = <<origins[m][1], origins[m][2]>>
      BY <1>6
    <3> QED
      BY ONLY <2>2, <2>3, <3>1
  <2> QED
    BY <2>4 DEF Traced, N
<1>13. Traced(p, n + 1, x, copies, q)
  BY ONLY <1>4, <1>9, <1>10, <1>11, <1>12 DEF Traced
<1> QED
  BY <1>13 DEF copies, q

(* The invariant of the import.                                             *)
TablesAreTraced(p, n, tables) == \A x \in 1 .. Size(p) : \E origins : Traced(p, n, x, tables[x], origins)

LEMMA ExtendedIsTraced ==
  ASSUME NEW p, ProgramValid(p), NEW n \in 0 .. Size(p) - 1, NEW live, LiveAt(p, live), TablesAreTraced(p, n, live.tables),
         NEW x \in 1 .. Size(p), NEW more \in Seq(Entry(p)), NEW q, Traced(p, n + 1, x, more, q),
         \A k \in 1 .. Len(more) :
           q[k][2] = n + 1 \/ (Len(q[k][1]) # 0 /\ q[k][1][1].at = n + 1)
  PROVE  TablesAreTraced(p, n + 1, Extended(live, x, more).tables)
<1>1. n \in Nat
  BY TextOf
<1> DEFINE next == Extended(live, x, more).tables
<1>2. next[x] = live.tables[x] \o more /\ \A y \in 1 .. Size(p) : y # x => next[y] = live.tables[y]
  <2>1. LiveAt(p, live) /\ x \in 1 .. Size(p) /\ more \in Seq(Entry(p)) /\ ProgramValid(p)
    OBVIOUS
  <2>2. Extended(live, x, more).tables[x] = Joined(live.tables[x], more)
    BY ONLY <2>1, ExtendedIsLive
  <2>3. \A y \in 1 .. Size(p) : y # x => Extended(live, x, more).tables[y] = live.tables[y]
    BY ONLY <2>1, ExtendedIsLive
  <2> QED
    BY ONLY <2>2, <2>3 DEF Joined
<1>3. live.tables[x] \in Seq(Entry(p))
  BY DEF LiveAt
<1> HIDE DEF next
<1>4. PICK o : Traced(p, n, x, live.tables[x], o)
  BY DEF TablesAreTraced
<1>5. \A k \in 1 .. Len(live.tables[x]), m \in 1 .. Len(more) : o[k] # q[m]
  <2>1. SUFFICES ASSUME NEW k \in 1 .. Len(live.tables[x]), NEW m \in 1 .. Len(more), o[k] = q[m] PROVE FALSE
    OBVIOUS
  <2> DEFINE chain == o[k][1]
             i == o[k][2]
  <2>2. Reaches(p, n, x, chain, i)
    BY <1>4 DEF Traced
  <2>3. i <= n /\ i \in Nat /\ chain \in Chains(p) /\ \A j \in 1 .. Len(chain) : chain[j].at + j <= n + 1
    BY <2>2, TextOf DEF Reaches
  <2>4. Len(chain) \in Nat /\ \A j \in 1 .. Len(chain) : chain[j].at \in Nat
    <3> HIDE DEF chain
    <3>1. chain \in Chains(p)
      BY <2>3
    <3>2. Len(chain) \in Nat /\ \A j \in 1 .. Len(chain) : chain[j].at \in 1 .. Size(p)
      BY <3>1, ChainOfIncludes
    <3>3. \A j \in 1 .. Size(p) : j \in Nat
      BY TextOf
    <3> QED
      BY ONLY <3>2, <3>3
  <2>5. i = n + 1 \/ (Len(chain) # 0 /\ chain[1].at = n + 1)
    BY <2>1
  <2> HIDE DEF chain, i
  <2>6. CASE i = n + 1
    BY ONLY <2>3, <2>6, <1>1
  <2>7. CASE Len(chain) # 0 /\ chain[1].at = n + 1
    <3>1. 1 \in 1 .. Len(chain)
      BY <2>4, <2>7
    <3>2. chain[1].at + 1 <= n + 1
      BY <3>1, <2>3
    <3> QED
      BY ONLY <3>2, <2>7, <1>1
  <2> QED
    BY <2>5, <2>6, <2>7
<1>6. Traced(p, n + 1, x, live.tables[x], o)
  BY <1>1, <1>4, TracedLater
<1>7. Traced(p, n + 1, x, live.tables[x] \o more, o \o q)
  BY <1>3, <1>5, <1>6, TracedTogether
<1>8. ASSUME NEW y \in 1 .. Size(p) PROVE \E origins : Traced(p, n + 1, y, next[y], origins)
  <2>1. CASE y = x
    BY <2>1, <1>2, <1>7
  <2>2. CASE y # x
    <3>1. PICK r : Traced(p, n, y, live.tables[y], r)
      BY DEF TablesAreTraced
    <3>2. Traced(p, n + 1, y, live.tables[y], r)
      BY <1>1, <3>1, TracedLater
    <3> QED
      BY <2>2, <3>2, <1>2
  <2> QED
    BY <2>1, <2>2
<1>9. TablesAreTraced(p, n + 1, next)
  BY <1>8 DEF TablesAreTraced
<1> QED
  BY <1>9 DEF next

LEMMA StepIsTraced ==
  ASSUME NEW p, ProgramValid(p), ~IndexPartial(p), NEW n \in 0 .. Size(p) - 1, TablesAreTraced(p, n, Live(p)[n].tables)
  PROVE  TablesAreTraced(p, n + 1, Live(p)[n + 1].tables)
<1> DEFINE i == n + 1
           s == p.text[i]
           live == Live(p)[n]
           next == Live(p)[i]
<1>1. n \in Nat /\ i \in 1 .. Size(p) /\ n \in 0 .. Size(p) /\ i - 1 = n /\ i \in 1 .. Size(p) + 1
  BY TextOf
<1>2. LiveAt(p, live)
  BY <1>1, ImportIsLive
<1>3. next = Executed(p, live, i)
  <2>1. Live(p)[i] = Executed(p, Live(p)[i - 1], i)
    BY <1>1, ImportIsLive
  <2>2. Live(p)[i - 1] = live
    BY <1>1
  <2> QED
    BY ONLY <2>1, <2>2
<1>4. s.st \in {"new", "alias", "other", "route", "include"}
  BY <1>1, KindOfStatement
<1>5. CASE next.tables = live.tables
  <2>1. \A x \in 1 .. Size(p) : \E origins : Traced(p, i, x, live.tables[x], origins)
    <3>1. ASSUME NEW x \in 1 .. Size(p) PROVE \E origins : Traced(p, i, x, live.tables[x], origins)
      <4>1. PICK r : Traced(p, n, x, live.tables[x], r)
        BY DEF TablesAreTraced
      <4>2. Traced(p, n + 1, x, live.tables[x], r)
        BY <1>1, <4>1, TracedLater
      <4> QED
        BY <4>2
    <3> QED
      BY <3>1
  <2>2. TablesAreTraced(p, i, live.tables)
    BY <2>1 DEF TablesAreTraced
  <2> QED
    BY <2>2, <1>5
<1>6. CASE s.st \in {"new", "alias", "other"}
  <2>1. s.name \in Names(p)
    BY <1>1, <1>6, KindOfStatement
  <2>2. next = live \/ \E object \in 0 .. Size(p) : next = Bound(live, s.name, object)
    <3>1. CASE s.st = "new"
      <4>1. next = Bound(live, s.name, i)
        BY <3>1, <1>1, <1>2, <1>3, StepOfImport
      <4>2. i \in 0 .. Size(p)
        BY <1>1
      <4> QED
        BY <4>1, <4>2
    <3>2. CASE s.st = "alias"
      <4>1. Executed(p, live, i) = Bound(live, s.name, Object(live, s.of))
        BY <3>2, <1>1, <1>2, StepOfImport
      <4>2. Object(live, s.of) \in 0 .. Size(p)
        BY <1>2, ObjectIsPlace
      <4> QED
        BY <4>1, <4>2, <1>3
    <3>3. CASE s.st = "other"
      <4>1. Executed(p, live, i) = live \/ \E object \in 0 .. Size(p) : Executed(p, live, i) = Bound(live, s.name, object)
        BY <3>3, <1>1, <1>2, StepOfImport
      <4> QED
        BY ONLY <4>1, <1>3
    <3> QED
      BY <1>6, <3>1, <3>2, <3>3
  <2>3. next.tables = live.tables
    <3>1. CASE next = live
      BY <3>1
    <3>2. ASSUME NEW object \in 0 .. Size(p), next = Bound(live, s.name, object) PROVE next.tables = live.tables
      BY <1>2, <2>1, <3>2, BoundIsLive
    <3> HIDE DEF next, live
    <3> QED
      BY <2>2, <3>1, <3>2
  <2> QED
    BY <2>3, <1>5
<1>7. CASE s.st = "route"
  <2> DEFINE x == Object(live, s.on)
             more == <<LiveRoute(s, Prefix(p, x))>>
             q == <<<<<<>>, i>>>>
  <2>1. next = live \/ (x # 0 /\ next = Extended(live, x, more))
    <3>1. Executed(p, live, i) = live \/ (x # 0 /\ Executed(p, live, i) = Extended(live, x, more))
      BY <1>1, <1>2, <1>7, StepOfImport
    <3> QED
      BY ONLY <3>1, <1>3
  <2>2. CASE next = live
    BY <2>2, <1>5
  <2>3. CASE x # 0 /\ next = Extended(live, x, more)
    <3>1. x \in 1 .. Size(p)
      BY <2>3, <1>2, ObjectIsPlace, TextOf
    <3>2. more \in Seq(Entry(p)) /\ Len(more) = 1
      <4>1. LiveRoute(s, Prefix(p, x)) \in Entry(p)
        BY <1>1, <1>7, PrefixIsPath, LiveRouteIsEntry, KindOfStatement
      <4> QED
        BY <4>1
    <3>3. Traced(p, n + 1, x, more, q)
      BY <1>7, <3>1, DecoratorIsTraced
    <3>4. \A k \in 1 .. Len(more) : q[k][2] = n + 1
      <4>1. \A k \in 1 .. 1 : k = 1
        OBVIOUS
      <4>2. q[1][2] = n + 1
        OBVIOUS
      <4> HIDE DEF q, more
      <4> QED
        BY <3>2, <4>1, <4>2
    <3> HIDE DEF x, more, q, live
    <3>5. TablesAreTraced(p, n + 1, Extended(live, x, more).tables)
      BY <1>2, <3>1, <3>2, <3>3, <3>4, ExtendedIsTraced DEF live
    <3> QED
      BY <3>5, <2>3
  <2> QED
    BY <2>1, <2>2, <2>3
<1>8. CASE s.st = "include"
  <2> DEFINE x == Object(live, s.into)
             y == Object(live, s.of)
             more == Copies(live.tables[y], Prefix(p, x) \o s.prefix)
             c == [at |-> i, parent |-> Instance(p, s.into, i), router |-> Instance(p, s.of, i), prefix |-> s.prefix]
  <2>1. next = live \/ (x # 0 /\ y # 0 /\ next = Extended(live, x, more))
    <3>1. Executed(p, live, i) = live \/ (x # 0 /\ y # 0 /\ Executed(p, live, i) = Extended(live, x, more))
      BY <1>1, <1>2, <1>8, StepOfImport
    <3> QED
      BY ONLY <3>1, <1>3
  <2>2. CASE next = live
    BY <2>2, <1>5
  <2>3. CASE x # 0 /\ y # 0 /\ next = Extended(live, x, more)
    <3>1. x \in 1 .. Size(p) /\ y \in 1 .. Size(p)
      BY <2>3, <1>2, ObjectIsPlace, TextOf
    <3>2. i \in Statements(p, "include")
      BY <1>1, <1>8, KindOfStatement
    <3>3. ~IncludeRefused(p, i)
      BY <3>2, WholeIndex
    <3>4. c \in IncludeRecords(p)
      BY <3>2, <3>3 DEF IncludeRecords
    <3>5. Instance(p, s.into, i) # 0 /\ Instance(p, s.of, i) # 0
      BY <3>3 DEF IncludeRefused
    <3>6. c.at = n + 1 /\ c.parent = Instance(p, s.into, i) /\ c.router = Instance(p, s.of, i) /\ c.prefix = s.prefix
      OBVIOUS
    <3>7. Object(Live(p)[i - 1], s.into) = Instance(p, s.into, i)
      BY <1>1, <3>5, InstanceIsObject
    <3>8. Object(Live(p)[i - 1], s.of) = Instance(p, s.of, i)
      BY <1>1, <3>5, InstanceIsObject
    <3>9. c.parent = x /\ c.router = y
      <4>1. Live(p)[i - 1] = live
        BY <1>1
      <4> HIDE DEF c, live
      <4> QED
        BY ONLY <3>6, <3>7, <3>8, <4>1
    <3>10. live.tables[y] \in Seq(Entry(p))
      BY <1>2, <3>1 DEF LiveAt
    <3>11. PICK r : Traced(p, n, y, live.tables[y], r)
      BY <3>1 DEF TablesAreTraced
    <3> DEFINE q == Through(c, r)
    <3>12. Prefix(p, x) \o s.prefix \in Seq(STRING)
      <4>1. c.prefix \in Seq(STRING)
        BY <3>4, IncludesOfText DEF IncludeAt
      <4>2. s.prefix \in Seq(STRING)
        BY ONLY <4>1, <3>6
      <4> QED
        BY <4>2, PrefixIsPath, ConcatProperties
    <3> HIDE DEF c, x, y, live, s
    <3>13. more \in Seq(Entry(p)) /\ Len(more) = Len(live.tables[y])
      BY <3>10, <3>12, CopiesAreEntries
    <3>14. Traced(p, n + 1, x, more, q)
      <4>1. Traced(p, n, c.router, live.tables[y], r)
        BY <3>9, <3>11
      <4>2. Traced(p, n + 1, c.parent, Copies(live.tables[y], Prefix(p, c.parent) \o c.prefix), Through(c, r))
        BY <3>4, <3>6, <3>10, <4>1, CopiesAreTraced
      <4> QED
        BY ONLY <4>2, <3>6, <3>9
    <3>15. \A k \in 1 .. Len(more) : Len(q[k][1]) # 0 /\ q[k][1][1].at = n + 1
      <4>1. SUFFICES ASSUME NEW k \in 1 .. Len(live.tables[y]) PROVE Len(q[k][1]) # 0 /\ q[k][1][1].at = n + 1
        BY <3>13
      <4>2. r \in Seq(Origins(p)) /\ Len(r) = Len(live.tables[y])
        BY <3>11 DEF Traced
      <4>3. k \in DOMAIN r /\ r[k] \in Origins(p)
        BY <4>2, LenProperties, ElementOfSeq
      <4>4. r[k][1] \in Chains(p)
        BY <4>3 DEF Origins
      <4>5. q[k][1] = <<c>> \o r[k][1]
        BY <4>3 DEF Through
      <4>6. Len(<<c>> \o r[k][1]) = Len(r[k][1]) + 1 /\ (<<c>> \o r[k][1])[1] = c
        BY <3>4, <4>4, LongerChain
      <4>7. Len(r[k][1]) \in Nat
        BY <4>4, ChainOfIncludes
      <4> HIDE DEF q
      <4>8. Len(q[k][1]) # 0
        <5> DEFINE l == Len(r[k][1])
        <5>1. l \in Nat /\ Len(q[k][1]) = l + 1
          BY <4>5, <4>6, <4>7
        <5> HIDE DEF l
        <5> QED
          BY ONLY <5>1
      <4>9. q[k][1][1] = c
        BY ONLY <4>5, <4>6
      <4> QED
        BY ONLY <4>8, <4>9, <3>6
    <3> HIDE DEF more, q
    <3>16. TablesAreTraced(p, n + 1, Extended(live, x, more).tables)
      BY <1>2, <3>1, <3>13, <3>14, <3>15, ExtendedIsTraced DEF live
    <3> QED
      BY <3>16, <2>3
  <2> QED
    BY <2>1, <2>2, <2>3
<1> HIDE DEF s
<1> QED
  BY <1>4, <1>6, <1>7, <1>8

LEMMA ImportIsTraced ==
  ASSUME NEW p, ProgramValid(p), ~IndexPartial(p)
  PROVE  TablesAreTraced(p, Size(p), Import(p).tables)
<1> DEFINE G == {n \in Nat : n \in 0 .. Size(p) => TablesAreTraced(p, n, Live(p)[n].tables)}
<1>1. Size(p) \in Nat
  BY TextOf
<1>2. 0 \in G
  <2>1. \A x \in 1 .. Size(p) : Live(p)[0].tables[x] = <<>>
    BY ImportIsLive
  <2>2. \A x : Traced(p, 0, x, <<>>, <<>>)
    <3>1. <<>> \in Seq(Origins(p)) /\ Len(<<>>) = 0
      BY EmptySeq
    <3>2. \A k : k \notin 1 .. Len(<<>>)
      BY <3>1
    <3> QED
      BY ONLY <3>1, <3>2 DEF Traced
  <2>3. TablesAreTraced(p, 0, Live(p)[0].tables)
    BY <2>1, <2>2 DEF TablesAreTraced
  <2> QED
    BY <2>3
<1>3. ASSUME NEW n \in 0 .. Size(p) - 1, n \in G PROVE n + 1 \in G
  <2>1. n \in 0 .. Size(p) /\ n + 1 \in Nat
    BY <1>1
  <2>2. TablesAreTraced(p, n + 1, Live(p)[n + 1].tables)
    BY <2>1, <1>3, StepIsTraced
  <2> QED
    BY <2>1, <2>2
<1>4. 0 .. Size(p) \subseteq G
  <2> HIDE DEF G
  <2> QED
    BY ONLY <1>1, <1>2, <1>3, InductionUpTo
<1>5. TablesAreTraced(p, Size(p), Live(p)[Size(p)].tables)
  BY <1>1, <1>4
<1> QED
  BY <1>5 DEF Import, Size

-----------------------------------------------------------------------------
(* The graph walks the chain of every entry of the application's table.     *)
LEMMA ChainIsWalked ==
  ASSUME NEW p, ProgramValid(p), ~CompositionPartial(p), NEW a \in SelectedApps(p), NEW chain \in Chains(p),
         Len(chain) <= Size(p), Len(chain) # 0 => chain[1].parent = a,
         \A j \in 1 .. Len(chain) - 1 : chain[j + 1].parent = chain[j].router
  PROVE  \E w \in Walks(p) : /\ w.includes = chain
                             /\ Last(w.stack) = IF Len(chain) = 0 THEN a ELSE chain[Len(chain)].router
<1> DEFINE f == WalksOfLength(p)
           N == Len(chain)
           Along(w, n) == w.stack[1] = a /\ \A j \in 1 .. n : w.includes[j] = chain[j]
           G == {n \in Nat : n \in 0 .. N => \E w \in f[n] : Along(w, n)}
<1>1. N \in Nat /\ Size(p) \in Nat /\ N <= Size(p)
  BY ChainOfIncludes, TextOf
<1>2. \A n \in 0 .. N : n \in 0 .. Size(p) /\ f[n] \subseteq Walks(p) /\ \A w \in f[n] : WalkAt(p, w, n)
  <2>1. \A n \in 0 .. N : n \in 0 .. Size(p)
    BY ONLY <1>1
  <2>2. \A n \in 0 .. Size(p) : f[n] \subseteq Walks(p)
    BY DEF Walks, Size
  <2> QED
    BY <2>1, <2>2, WalksOfText
<1>3. ASSUME NEW n \in 0 .. N, NEW w \in f[n], Along(w, n)
      PROVE  Last(w.stack) = IF n = 0 THEN a ELSE chain[n].router
  <2>1. WalkAt(p, w, n) /\ n \in Nat
    BY <1>2
  <2>2. Len(w.stack) = n + 1 /\ \A j \in 1 .. n : w.stack[j + 1] = w.includes[j].router
    BY <2>1 DEF WalkAt
  <2>3. Last(w.stack) = w.stack[n + 1]
    BY <2>2 DEF Last
  <2>4. CASE n = 0
    <3>1. w.stack[n + 1] = a
      BY <2>4, <1>3
    <3> QED
      BY ONLY <3>1, <2>3, <2>4
  <2>5. CASE n # 0
    <3>1. n \in 1 .. n
      BY <2>1, <2>5
    <3>2. w.stack[n + 1] = w.includes[n].router /\ w.includes[n] = chain[n]
      BY <3>1, <2>2, <1>3
    <3> QED
      BY ONLY <3>2, <2>3, <2>5
  <2> QED
    BY <2>4, <2>5
<1>4. 0 \in G
  <2>1. Walk(<<>>, <<a>>) \in f[0]
    <3>1. f[0] = WalksFrom(p, f, 0)
      BY <1>1, WalksUnfold
    <3>2. WalksFrom(p, f, 0) = {Walk(<<>>, <<app>>) : app \in SelectedApps(p)}
      BY DEF WalksFrom
    <3> HIDE DEF f
    <3> QED
      BY <3>1, <3>2
  <2>2. Along(Walk(<<>>, <<a>>), 0)
    BY DEF Walk
  <2> HIDE DEF Along, f
  <2> QED
    BY <2>1, <2>2
<1>5. ASSUME NEW n \in 0 .. N - 1, n \in G PROVE n + 1 \in G
  <2>1. /\ n \in 0 .. N /\ n + 1 \in 0 .. N /\ n + 1 \in 1 .. N /\ n + 1 # 0 /\ (n + 1) - 1 = n
        /\ n \in Nat /\ n + 1 \in Nat /\ n + 1 \in 0 .. Size(p)
    BY <1>1
  <2>2. PICK w \in f[n] : Along(w, n)
    BY <2>1, <1>5
  <2> DEFINE c == chain[n + 1]
             v == Walk(Append(w.includes, c), Append(w.stack, c.router))
  <2>3. c \in IncludeRecords(p)
    BY <2>1, ChainOfIncludes
  <2>4. w \in Walks(p) /\ WalkAt(p, w, n)
    BY <2>1, <1>2
  <2>5. Last(w.stack) = IF n = 0 THEN a ELSE chain[n].router
    BY <2>1, <2>2, <1>3
  <2>6. c.parent = Last(w.stack)
    <3>1. CASE n = 0
      <4>1. n + 1 = 1 /\ N # 0
        BY <3>1, <2>1
      <4>2. c = chain[1]
        BY <4>1
      <4>3. chain[1].parent = a
        BY <4>1
      <4> HIDE DEF c
      <4> QED
        BY ONLY <4>2, <4>3, <3>1, <2>5
    <3>2. CASE n # 0
      <4>1. n \in 1 .. N - 1
        BY <3>2, <2>1
      <4>2. chain[n + 1].parent = chain[n].router
        BY <4>1
      <4> QED
        BY ONLY <4>2, <3>2, <2>5
    <3> QED
      BY <3>1, <3>2
  <2>7. ~Unresolved(p, c) /\ c.router \notin ToSet(w.stack)
    <3> HIDE DEF c
    <3> QED
      BY <2>3, <2>4, <2>6 DEF CompositionPartial
  <2>8. c \in Walked(p, w)
    <3> HIDE DEF c
    <3> QED
      BY <2>3, <2>6, <2>7 DEF Walked
  <2>9. v \in f[n + 1]
    <3>1. f[n + 1] = WalksFrom(p, f, n + 1)
      BY <2>1, WalksUnfold
    <3>2. WalksFrom(p, f, n + 1) = UNION {{Walk(Append(u.includes, d), Append(u.stack, d.router)) : d \in Walked(p, u)} : u \in f[n]}
      BY <2>1 DEF WalksFrom
    <3> HIDE DEF f, c
    <3>3. v \in {Walk(Append(w.includes, d), Append(w.stack, d.router)) : d \in Walked(p, w)}
      BY <2>8
    <3> HIDE DEF v
    <3>4. v \in UNION {{Walk(Append(u.includes, d), Append(u.stack, d.router)) : d \in Walked(p, u)} : u \in f[n]}
      BY <3>3
    <3> QED
      BY ONLY <3>1, <3>2, <3>4
  <2>10. Along(v, n + 1)
    <3>1. w.includes \in Seq(IncludeRecords(p)) /\ Len(w.includes) = n /\ w.stack \in Seq(Statements(p, "new")) /\ Len(w.stack) = n + 1
      BY <2>4 DEF WalkAt
    <3>2. c.router \in Statements(p, "new")
      BY <2>3, IncludesOfText DEF IncludeAt
    <3>3. \A j \in 1 .. n : w.includes[j] = chain[j]
      BY <2>2
    <3>4. w.stack[1] = a
      BY <2>2
    <3>5. v.includes = Append(w.includes, c) /\ v.stack = Append(w.stack, c.router)
      BY DEF Walk
    <3>6. c = chain[n + 1]
      OBVIOUS
    <3> HIDE DEF c, v
    <3>7. Append(w.includes, c)[n + 1] = c /\ \A j \in 1 .. n : Append(w.includes, c)[j] = w.includes[j]
      BY ONLY <3>1, <2>3, AppendProperties
    <3>8. Append(w.stack, c.router)[1] = w.stack[1]
      <4>1. 1 \in 1 .. n + 1
        BY <2>1
      <4>2. \A j \in 1 .. n + 1 : Append(w.stack, c.router)[j] = w.stack[j]
        BY ONLY <3>1, <3>2, AppendProperties
      <4> QED
        BY ONLY <4>1, <4>2
    <3>9. \A j \in 1 .. n + 1 : j = n + 1 \/ j \in 1 .. n
      BY <2>1
    <3>10. \A j \in 1 .. n + 1 : v.includes[j] = chain[j]
      BY ONLY <3>3, <3>5, <3>6, <3>7, <3>9
    <3>11. v.stack[1] = a
      BY ONLY <3>4, <3>5, <3>8
    <3> QED
      BY <3>10, <3>11
  <2> HIDE DEF v, Along, f
  <2> QED
    BY <2>1, <2>9, <2>10
<1>6. 0 .. N \subseteq G
  <2> HIDE DEF G
  <2> QED
    BY ONLY <1>1, <1>4, <1>5, InductionUpTo
<1>7. N \in 0 .. N
  BY <1>1
<1>8. PICK w \in f[N] : Along(w, N)
  BY <1>6, <1>7
<1>9. WalkAt(p, w, N) /\ w \in Walks(p)
  BY <1>2, <1>7
<1>10. w.includes = chain
  <2>1. w.includes \in Seq(IncludeRecords(p)) /\ Len(w.includes) = N
    BY <1>9 DEF WalkAt
  <2>2. chain \in Seq(IncludeRecords(p))
    BY DEF Chains
  <2>3. \A j \in 1 .. N : w.includes[j] = chain[j]
    BY <1>8
  <2> QED
    BY ONLY <2>1, <2>2, <2>3, SeqEqual
<1>11. Last(w.stack) = IF N = 0 THEN a ELSE chain[N].router
  BY <1>3, <1>7, <1>8
<1> QED
  BY <1>9, <1>10, <1>11

(* The one application that is selected where the index is whole.           *)
LEMMA SelectedIsImported ==
  ASSUME NEW p, ProgramValid(p), ~IndexPartial(p)
  PROVE  \E a \in 1 .. Size(p) : SelectedApps(p) = {a} /\ Prefix(p, a) = <<>> /\ LiveTable(p) = Import(p).tables[a]
<1> DEFINE apps == SelectedApps(p)
<1>1. apps # {}
  BY WholeIndex
<1>2. \A i \in apps : /\ i \in Statements(p, "new") /\ i \in 1 .. Size(p) /\ p.text[i].kind = "FASTAPI_APP"
                      /\ Instance(p, p.text[i].name, End(p)) = i
  BY TextOf DEF SelectedApps, ActiveApps
<1>3. PICK a : apps = {a}
  <2>1. CASE p.target # "none"
    <3>1. \A i, j \in apps : i = j
      <4>1. \A i \in apps : p.text[i].name = p.target
        BY <2>1 DEF SelectedApps
      <4> HIDE DEF apps
      <4> QED
        BY ONLY <4>1, <1>2
    <3> HIDE DEF apps
    <3> QED
      BY <3>1, <1>1
  <2>2. CASE p.target = "none"
    <3>1. Cardinality(apps) = 1
      BY <2>2, <1>1 DEF SelectedApps
    <3>2. IsFiniteSet(apps)
      BY <1>2, TextOf, FS_Subset
    <3> HIDE DEF apps
    <3> QED
      BY <3>1, <3>2, FS_Singleton
  <2> QED
    BY <2>1, <2>2
<1>4. /\ a \in Statements(p, "new") /\ a \in 1 .. Size(p) /\ p.text[a].kind = "FASTAPI_APP"
      /\ Instance(p, p.text[a].name, End(p)) = a
  BY <1>2, <1>3
<1>5. Prefix(p, a) = <<>>
  <2>1. p.text[a].st = "new" /\ StatementValid(p.text[a])
    BY <1>4, KindOfStatement, TextOf
  <2>2. p.text[a].prefix = <<>>
    BY <2>1, <1>4 DEF StatementValid
  <2> QED
    BY <2>2, <1>4 DEF Prefix
<1>6. Import(p).names[p.text[a].name] = a
  <2>1. Size(p) \in Nat /\ End(p) = Size(p) + 1 /\ End(p) \in 1 .. Size(p) + 1 /\ End(p) - 1 = Size(p) /\ a # 0 /\ Size(p) \in 0 .. Size(p)
    BY <1>4, TextOf DEF End, Size
  <2>2. Object(Live(p)[End(p) - 1], p.text[a].name) = Instance(p, p.text[a].name, End(p))
    BY <2>1, <1>4, InstanceIsObject
  <2>3. Object(Import(p), p.text[a].name) = a
    BY ONLY <2>1, <2>2, <1>4 DEF Import, Size
  <2>4. DOMAIN Import(p).names = Names(p)
    BY <2>1, ImportIsLive DEF Import, Size, LiveAt
  <2>5. p.text[a].name \in Names(p)
    BY <1>4 DEF Names, Binding
  <2> QED
    BY <2>3, <2>4, <2>5 DEF Object
<1>7. LiveTable(p) = Import(p).tables[a]
  <2> DEFINE objects == {Import(p).names[p.text[i].name] : i \in apps} \ {0}
  <2>1. LiveTable(p) = IF objects = {} THEN <<>> ELSE Import(p).tables[CHOOSE object \in objects : TRUE]
    BY Zenon DEF LiveTable
  <2>2. a # 0
    BY <1>4, TextOf
  <2>3. objects = {a}
    BY <1>3, <1>6, <2>2
  <2> HIDE DEF objects
  <2> QED
    BY <2>1, <2>3
<1> QED
  BY <1>3, <1>4, <1>5, <1>7

(* The effective route of a method of an entry.                             *)
ServedBy(p, entry, origin, method, e) ==
  /\ e \in EffectiveRoutes(p) /\ e.path = entry.path /\ e.method = method
  /\ e.from[1] = origin[1] /\ e.from[2][1] = origin[2]
  /\ entry.code = "wrapper" \/ e.owner = entry.code

LEMMA EntryIsEffective ==
  ASSUME NEW p, ProgramValid(p), ~IndexPartial(p), ~CompositionPartial(p), NEW a \in SelectedApps(p), Prefix(p, a) = <<>>,
         NEW chain, NEW i, NEW entry, Reaches(p, Size(p), a, chain, i), EntryFrom(p, a, chain, i, entry),
         NEW method \in HttpMethods, method \in entry.methods
  PROVE  \E e : ServedBy(p, entry, <<chain, i>>, method, e)
<1>1. chain \in Chains(p) /\ i \in Statements(p, "route")
  BY DEF Reaches
<1>2. Len(chain) \in Nat /\ Size(p) \in Nat
  BY <1>1, ChainOfIncludes, TextOf
<1>3. Len(chain) <= Size(p)
  <2>1. CASE Len(chain) = 0
    BY <2>1, <1>2
  <2>2. CASE Len(chain) # 0
    <3>1. Len(chain) \in 1 .. Len(chain)
      BY <2>2, <1>2
    <3>2. chain[Len(chain)].at + Len(chain) <= Size(p) + 1
      BY <3>1 DEF Reaches
    <3>3. chain[Len(chain)].at \in 1 .. Size(p)
      BY <3>1, <1>1, ChainOfIncludes
    <3> DEFINE at == chain[Len(chain)].at
               l == Len(chain)
    <3> HIDE DEF at, l
    <3>4. at + l <= Size(p) + 1 /\ at \in 1 .. Size(p) /\ l \in Nat /\ Size(p) \in Nat
      BY <3>2, <3>3, <1>2 DEF at, l
    <3>5. l <= Size(p)
      BY ONLY <3>4
    <3> QED
      BY <3>5 DEF l
  <2> QED
    BY <2>1, <2>2
<1>4. PICK w \in Walks(p) : w.includes = chain /\ Last(w.stack) = IF Len(chain) = 0 THEN a ELSE chain[Len(chain)].router
  <2>1. Len(chain) # 0 => chain[1].parent = a
    BY DEF Reaches
  <2>2. \A j \in 1 .. Len(chain) - 1 : chain[j + 1].parent = chain[j].router
    BY DEF Reaches
  <2> QED
    BY <1>1, <1>3, <2>1, <2>2, ChainIsWalked
<1>5. Last(w.stack) = Instance(p, p.text[i].on, i)
  BY <1>4 DEF Reaches
<1>6. /\ p.text[i].methods \in Seq(STRING) /\ p.text[i].path \in Seq(STRING)
      /\ ~RouteRefused(p, i)
  BY <1>1, MethodsOfRoute, WholeIndex
<1>7. PICK k \in DOMAIN p.text[i].methods : p.text[i].methods[k] = method
  BY DEF EntryFrom, ToSet
<1> DEFINE r == [at |-> <<i, k>>, registrar |-> Instance(p, p.text[i].on, i), owner |-> p.text[i].owner,
                 method |-> p.text[i].methods[k], path |-> p.text[i].path]
<1>8. r \in RouteRecords(p)
  <2>1. i \in {x \in Statements(p, "route") : ~RouteRefused(p, x)}
    BY <1>1, <1>6
  <2>2. k \in {x \in DOMAIN p.text[i].methods : p.text[i].methods[x] \in HttpMethods}
    BY <1>7
  <2> QED
    BY <2>1, <2>2 DEF RouteRecords
<1>9. /\ r.at = <<i, k>> /\ r.registrar = Instance(p, p.text[i].on, i) /\ r.owner = p.text[i].owner
      /\ r.method = method /\ r.path = p.text[i].path
  BY <1>7
<1> HIDE DEF r
<1> DEFINE e == Effective(p, w, r)
<1>10. e \in EffectiveRoutes(p)
  BY <1>5, <1>8, <1>9, EffectiveOfWalk
<1>11. e.from = <<chain, <<i, k>>>> /\ e.owner = p.text[i].owner /\ e.method = method
  BY <1>4, <1>9 DEF Effective
<1>12. e.path = entry.path
  <2> DEFINE f == Composed(p, chain)[Len(chain)]
             path == p.text[i].path
  <2>1. e.path = f \o path
    BY <1>4, <1>9 DEF Effective, ComposePath
  <2>2. entry.path = <<>> \o (f \o path)
    BY DEF EntryFrom
  <2>3. f \in Seq(STRING) /\ path \in Seq(STRING)
    <3>1. Len(chain) \in 0 .. Len(chain)
      BY <1>2
    <3> QED
      BY <1>1, <1>6, <3>1, ComposedIsPath
  <2> HIDE DEF f, path, e
  <2>4. f \o path \in Seq(STRING)
    BY ONLY <2>3, ConcatProperties
  <2>5. <<>> \o (f \o path) = f \o path
    BY ONLY <2>4, ConcatEmptySeq
  <2> QED
    BY ONLY <2>1, <2>2, <2>5
<1>13. entry.code = IF p.text[i].wrapped THEN "wrapper" ELSE p.text[i].owner
  BY DEF EntryFrom
<1> HIDE DEF e
<1>14. e.from[1] = <<chain, i>>[1] /\ e.from[2][1] = <<chain, i>>[2]
  BY <1>11
<1>15. entry.code = "wrapper" \/ e.owner = entry.code
  BY <1>11, <1>13
<1>16. ServedBy(p, entry, <<chain, i>>, method, e)
  BY ONLY <1>10, <1>11, <1>12, <1>14, <1>15 DEF ServedBy
<1> QED
  BY <1>16

LEMMA CoverageOfRoutes ==
  ASSUME NEW p, ProgramValid(p)
  PROVE  CoverageIsWhole(p)
<1> DEFINE table == LiveTable(p)
           routes == EffectiveRoutes(p)
           served == {x \in (DOMAIN table) \X HttpMethods : x[2] \in table[x[1]].methods}
           Alikes(x) == {r \in routes : r.path = table[x[1]].path /\ r.method = x[2]}
           Twins(x) == {y \in served : table[y[1]].path = table[x[1]].path /\ y[2] = x[2]}
           Covered(x) == /\ Cardinality(Alikes(x)) >= Cardinality(Twins(x))
                         /\ table[x[1]].code = "wrapper" \/ \E r \in Alikes(x) : r.owner = table[x[1]].code
<1>1. SUFFICES ASSUME ~IndexPartial(p), ~CompositionPartial(p) PROVE \A x \in served : Covered(x)
  BY DEF CoverageIsWhole, GraphPartial
<1>2. PICK a \in 1 .. Size(p) : SelectedApps(p) = {a} /\ Prefix(p, a) = <<>> /\ table = Import(p).tables[a]
  BY <1>1, SelectedIsImported
<1>3. PICK origins : Traced(p, Size(p), a, table, origins)
  BY <1>1, <1>2, ImportIsTraced DEF TablesAreTraced
<1>4. Table(table)
  BY TableIsTable
<1> HIDE DEF table
<1>5. DOMAIN table = 1 .. Len(table) /\ origins \in Seq(Origins(p)) /\ Len(origins) = Len(table)
  BY <1>3, <1>4 DEF Table, Traced
<1>6. \A y \in served : \E e : ServedBy(p, table[y[1]], origins[y[1]], y[2], e)
  <2>1. SUFFICES ASSUME NEW y \in served PROVE \E e : ServedBy(p, table[y[1]], origins[y[1]], y[2], e)
    OBVIOUS
  <2> DEFINE n == y[1]
             chain == origins[n][1]
             i == origins[n][2]
  <2>2. n \in 1 .. Len(table) /\ y[2] \in HttpMethods /\ y[2] \in table[n].methods
    BY <1>5
  <2>3. Reaches(p, Size(p), a, chain, i) /\ EntryFrom(p, a, chain, i, table[n])
    BY <1>3, <2>2 DEF Traced
  <2>4. origins[n] = <<chain, i>>
    <3>1. origins[n] \in Origins(p)
      BY <1>5, <2>2, ElementOfSeq
    <3> QED
      BY <3>1 DEF Origins
  <2> HIDE DEF n, chain, i
  <2>5. a \in SelectedApps(p)
    BY <1>2
  <2>6. \E e : ServedBy(p, table[n], <<chain, i>>, y[2], e)
    BY <1>1, <1>2, <2>2, <2>3, <2>5, EntryIsEffective
  <2> QED
    BY <2>4, <2>6 DEF n
<1>7. SUFFICES ASSUME NEW x \in served PROVE Covered(x)
  OBVIOUS
<1> DEFINE Server(y) == CHOOSE e : ServedBy(p, table[y[1]], origins[y[1]], y[2], e)
           f == [y \in Twins(x) |-> Server(y)]
<1>8. \A y \in served : ServedBy(p, table[y[1]], origins[y[1]], y[2], Server(y))
  BY <1>6
<1> HIDE DEF Server, served
<1>9. \A y \in Twins(x) : Server(y) \in Alikes(x)
  <2>1. SUFFICES ASSUME NEW y \in Twins(x) PROVE Server(y) \in Alikes(x)
    OBVIOUS
  <2>2. ServedBy(p, table[y[1]], origins[y[1]], y[2], Server(y))
    BY <1>8
  <2>3. Server(y) \in EffectiveRoutes(p) /\ Server(y).path = table[y[1]].path /\ Server(y).method = y[2]
    BY <2>2 DEF ServedBy
  <2>4. table[y[1]].path = table[x[1]].path /\ y[2] = x[2]
    OBVIOUS
  <2> QED
    BY <2>3, <2>4
<1>10. \A y, z \in Twins(x) : Server(y) = Server(z) => y = z
  <2>1. SUFFICES ASSUME NEW y \in Twins(x), NEW z \in Twins(x), Server(y) = Server(z) PROVE y = z
    OBVIOUS
  <2>2. ServedBy(p, table[y[1]], origins[y[1]], y[2], Server(y)) /\ ServedBy(p, table[z[1]], origins[z[1]], z[2], Server(z))
    BY <1>8
  <2>3. origins[y[1]][1] = origins[z[1]][1] /\ origins[y[1]][2] = origins[z[1]][2]
    BY ONLY <2>1, <2>2 DEF ServedBy
  <2>4. y \in served /\ z \in served /\ y[2] = z[2]
    OBVIOUS
  <2>5. y[1] \in 1 .. Len(table) /\ z[1] \in 1 .. Len(table) /\ y = <<y[1], y[2]>> /\ z = <<z[1], z[2]>>
    BY <2>4, <1>5 DEF served
  <2>6. origins[y[1]] \in Origins(p) /\ origins[z[1]] \in Origins(p)
    BY <2>5, <1>5, ElementOfSeq
  <2>7. origins[y[1]] = <<origins[y[1]][1], origins[y[1]][2]>> /\ origins[z[1]] = <<origins[z[1]][1], origins[z[1]][2]>>
    BY <2>6 DEF Origins
  <2>8. origins[y[1]] = origins[z[1]]
    BY ONLY <2>3, <2>7
  <2>9. y[1] = z[1]
    BY <2>5, <2>8, <1>3 DEF Traced
  <2> QED
    BY ONLY <2>4, <2>5, <2>9
<1>11. Cardinality(Twins(x)) <= Cardinality(Alikes(x)) /\ Cardinality(Twins(x)) \in Nat /\ Cardinality(Alikes(x)) \in Nat
  <2> DEFINE S == Twins(x)
             T == Alikes(x)
  <2>1. f \in Injection(S, T)
    <3> HIDE DEF S, T
    <3>1. f \in [S -> T]
      BY <1>9 DEF S, T
    <3>2. \A y, z \in S : f[y] = f[z] => y = z
      BY <1>10 DEF S
    <3> HIDE DEF f
    <3> QED
      BY <3>1, <3>2 DEF Injection, IsInjective
  <2>2. IsFiniteSet(T)
    BY EffectiveRoutesAreFinite, FS_Subset
  <2> HIDE DEF S, T, f
  <2>3. IsFiniteSet(S) /\ Cardinality(S) <= Cardinality(T)
    BY <2>1, <2>2, FS_Injection
  <2>4. Cardinality(S) \in Nat /\ Cardinality(T) \in Nat
    BY <2>2, <2>3, FS_CardinalityType
  <2> QED
    BY <2>3, <2>4 DEF S, T
<1>12. table[x[1]].code = "wrapper" \/ \E r \in Alikes(x) : r.owner = table[x[1]].code
  <2>1. x \in Twins(x)
    BY <1>7
  <2>2. Server(x) \in Alikes(x)
    BY <2>1, <1>9
  <2>3. table[x[1]].code = "wrapper" \/ Server(x).owner = table[x[1]].code
    BY <1>8, <1>7 DEF ServedBy
  <2> HIDE DEF Alikes
  <2> QED
    BY <2>2, <2>3
<1>13. Cardinality(Alikes(x)) >= Cardinality(Twins(x))
  <2> DEFINE m == Cardinality(Twins(x))
             n == Cardinality(Alikes(x))
  <2> HIDE DEF m, n
  <2>1. m <= n /\ m \in Nat /\ n \in Nat
    BY <1>11 DEF m, n
  <2>2. n >= m
    BY ONLY <2>1
  <2> QED
    BY <2>2 DEF m, n
<1> HIDE DEF Alikes, Twins
<1> QED
  BY <1>12, <1>13

-----------------------------------------------------------------------------
(* The routes of a capability are those of the application, for every text  *)
(* of a module: an effective route is told by its identity, a graph that    *)
(* nothing reduced has every route and method that the import makes the     *)
(* application serve, and what a managed session claims for an ingress of a *)
(* plan is what answers its requests (fastapi.py, reachability.py,          *)
(* routes.py, capability.py).                                               *)
THEOREM RoutesReconciled == RoutesInit /\ [][UNCHANGED program]_program => []RoutesAreReconciled
<1> DEFINE Valid == \E p \in Programs : program = <<p>>
<1>1. RoutesInit => Valid
  BY DEF RoutesInit
<1>2. Valid /\ [UNCHANGED program]_program => Valid'
  OBVIOUS
<1>3. Valid => RoutesAreReconciled
  <2>1. SUFFICES ASSUME NEW p \in Programs, program = <<p>>
                 PROVE  /\ Cardinality({r.id : r \in EffectiveRoutes(p)}) = Cardinality(EffectiveRoutes(p))
                        /\ CoverageIsWhole(p)
                        /\ \A plan \in SetToAllKPermutations(EffectiveRoutes(p)) : ClaimsAreTrue(p, plan) /\ ClientsAreNotMistaken(p, plan)
    BY DEF RoutesAreReconciled
  <2>2. ProgramValid(p)
    BY ProgramsAssumption
  <2>3. CoverageIsWhole(p) /\ Cardinality({r.id : r \in EffectiveRoutes(p)}) = Cardinality(EffectiveRoutes(p))
    BY <2>2, CoverageOfRoutes, RoutesHaveIdentities
  <2>4. ASSUME NEW plan \in SetToAllKPermutations(EffectiveRoutes(p))
        PROVE  ClaimsAreTrue(p, plan) /\ ClientsAreNotMistaken(p, plan)
    <3>1. Plan(plan)
      BY <2>2, EffectiveRoutesAreFinite, PlansOfRoutes
    <3> QED
      BY <2>2, <3>1, TableIsTable, ClaimsOfPlan, ClientsOfPlan
  <2> QED
    BY <2>3, <2>4
<1> HIDE DEF Valid
<1> QED
  BY <1>1, <1>2, <1>3, PTL
=============================================================================
