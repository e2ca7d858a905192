------------------------- MODULE ControlFlowProofs -------------------------
(***************************************************************************)
(* What the analysis says of a function is true of every execution of it,  *)
(* for any text.                                                           *)
(*                                                                         *)
(* The recursive functions of ControlFlow recur on places, those of the    *)
(* executions and of termination towards the end of the text and those of  *)
(* contexts towards its beginning.  That functions with these equations    *)
(* exist is shown by the set of the numbers of places up to which there    *)
(* is one.  What is shown of executions is shown by induction on the       *)
(* places that follow the beginning of a block.                            *)
(***************************************************************************)
EXTENDS ControlFlow, TLAPS, WellFoundedInduction, SequenceTheorems

LEMMA LeastNatural ==
  ASSUME NEW T \in SUBSET Nat, T # {}
  PROVE  \E n \in T : \A m \in T : n <= m
<1> DEFINE R == {ss \in Nat \X Nat : ss[1] < ss[2]}
<1>1. R = OpToRel(<, Nat)
  BY DEF OpToRel
<1>2. IsWellFoundedOn(R, Nat)
  BY <1>1, NatLessThanWellFounded
<1> HIDE DEF R
<1>3. PICK n \in T : \A m \in T : ~(<<m, n>> \in R)
  BY <1>2, WFMin
<1>4. \A m \in T : m \in Nat /\ n \in Nat /\ ~(m < n)
  BY <1>3 DEF R
<1> QED
  BY <1>4

LEMMA InductionUpTo ==
  ASSUME NEW bound \in Nat, NEW G, 0 \in G, \A n \in 0 .. bound - 1 : n \in G => n + 1 \in G
  PROVE  0 .. bound \subseteq G
<1> SUFFICES ASSUME 0 .. bound \ G # {} PROVE FALSE
  OBVIOUS
<1>1. PICK n \in 0 .. bound \ G : \A m \in 0 .. bound \ G : n <= m
  <2>1. 0 .. bound \ G \in SUBSET Nat
    OBVIOUS
  <2> QED
    BY <2>1, LeastNatural
<1>2. n - 1 \in 0 .. bound - 1 /\ n - 1 \in G
  BY <1>1
<1> QED
  BY <1>1, <1>2
-----------------------------------------------------------------------------
(* Texts and blocks.                                                        *)
StatementAt(text, k) ==
  /\ text[k].kind \in StatementKinds /\ text[k].default \in BOOLEAN
  /\ text[k].parts \in Seq([first : Nat, last : Nat])
  /\ DOMAIN text[k].parts = 1 .. Len(text[k].parts) /\ Len(text[k].parts) \in Nat
  /\ Arity(text[k].kind, Len(text[k].parts))
  /\ End(text, k) \in k .. Len(text)
  /\ (text[k].parts = <<>> => End(text, k) = k)
  /\ (text[k].parts # <<>> => End(text, k) = text[k].parts[Len(text[k].parts)].last)

(* A block of a text: what begins in it ends in it.                         *)
BlockValid(text, b) ==
  /\ b \in Blocks(text)
  /\ b.first <= b.last + 1
  /\ \A k \in Places(b) : End(text, k) <= b.last

(* The parts of a statement lie side by side after it.                      *)
LEMMA PartsAreBlocks ==
  ASSUME NEW text, TextValid(text), NEW k \in DOMAIN text
  PROVE  /\ StatementAt(text, k)
         /\ \A j \in DOMAIN text[k].parts :
              /\ BlockValid(text, text[k].parts[j])
              /\ text[k].parts[j].first > k
              /\ text[k].parts[j].last <= End(text, k)
              /\ \A i \in DOMAIN text[k].parts : i < j => text[k].parts[i].last < text[k].parts[j].first
         /\ \A m \in k + 1 .. End(text, k) : \E j \in DOMAIN text[k].parts : m \in Places(text[k].parts[j])
<1> DEFINE ps == text[k].parts
           n == Len(ps)
<1>1. /\ Len(text) \in Nat /\ DOMAIN text = 1 .. Len(text) /\ k \in 1 .. Len(text)
      /\ text[k].kind \in StatementKinds /\ ps \in Seq([first : Nat, last : Nat]) /\ text[k].default \in BOOLEAN
      /\ Arity(text[k].kind, n) /\ End(text, k) <= Len(text)
      /\ \A j \in DOMAIN ps :
           /\ ps[j].first = IF j = 1 THEN k + 1 ELSE ps[j - 1].last + 1
           /\ ps[j].first <= ps[j].last + 1
           /\ \A m \in Places(ps[j]) : End(text, m) <= ps[j].last
  BY DEF TextValid
<1>2. /\ n \in Nat /\ DOMAIN ps = 1 .. n
      /\ \A j \in 1 .. n : ps[j] \in [first : Nat, last : Nat] /\ ps[j].first \in Nat /\ ps[j].last \in Nat
      /\ (ps = <<>> <=> n = 0)
  <2>1. n \in Nat /\ DOMAIN ps = 1 .. n /\ \A j \in 1 .. n : ps[j] \in [first : Nat, last : Nat]
    BY <1>1, LenProperties, ElementOfSeq
  <2>2. ps = <<>> <=> n = 0
    BY <1>1, EmptySeq
  <2> QED
    BY <2>1, <2>2
<1>3. End(text, k) = IF n = 0 THEN k ELSE ps[n].last
  BY <1>2 DEF End
<1> HIDE DEF ps, n
<1> DEFINE Ordered(j) ==
             /\ ps[j].first > k /\ ps[j].last >= k
             /\ \A i \in 1 .. j - 1 : ps[i].last < ps[j].first /\ ps[i].last <= ps[j].last
             /\ \A m \in k + 1 .. ps[j].last : \E i \in 1 .. j : m \in Places(ps[i])
           G == {j \in Nat : j \in 1 .. n => Ordered(j)}
<1>4. 0 .. n \subseteq G
  <2>1. 0 \in G
    OBVIOUS
  <2>2. ASSUME NEW j \in 0 .. n - 1, j \in G PROVE j + 1 \in G
    <3>1. j + 1 \in 1 .. n /\ j + 1 \in Nat /\ (j + 1) - 1 = j
      BY <1>2
    <3>2. CASE j = 0
      <4>1. ps[1].first = k + 1 /\ ps[1].first <= ps[1].last + 1
        BY <1>1, <1>2, <3>1, <3>2
      <4>2. Ordered(1)
        BY <4>1, <1>1, <1>2, <3>1, <3>2 DEF Places
      <4> QED
        BY <4>2, <3>2
    <3>3. CASE j # 0
      <4>1. j \in 1 .. n /\ Ordered(j)
        BY <3>3, <2>2, <1>2
      <4>2. ps[j + 1].first = ps[j].last + 1 /\ ps[j + 1].first <= ps[j + 1].last + 1
        <5>1. j + 1 \in DOMAIN ps /\ j + 1 # 1
          BY <3>1, <3>3, <1>2
        <5>2. ps[j + 1].first = ps[(j + 1) - 1].last + 1 /\ ps[j + 1].first <= ps[j + 1].last + 1
          BY <5>1, <1>1
        <5> QED
          BY <5>2, <3>1
      <4>3. ps[j].last \in Nat /\ ps[j + 1].last \in Nat /\ ps[j + 1].first \in Nat /\ \A i \in 1 .. j : ps[i].last \in Nat
        BY <4>1, <3>1, <1>2
      <4>4. \A i \in 1 .. (j + 1) - 1 : ps[i].last < ps[j + 1].first /\ ps[i].last <= ps[j + 1].last
        <5>1. SUFFICES ASSUME NEW i \in 1 .. j PROVE ps[i].last < ps[j + 1].first /\ ps[i].last <= ps[j + 1].last
          BY <3>1
        <5>2. ps[i].last <= ps[j].last
          BY <4>1, <4>3
        <5> QED
          BY <5>2, <4>2, <4>3
      <4>5. \A m \in k + 1 .. ps[j + 1].last : \E i \in 1 .. j + 1 : m \in Places(ps[i])
        <5>1. SUFFICES ASSUME NEW m \in k + 1 .. ps[j + 1].last PROVE \E i \in 1 .. j + 1 : m \in Places(ps[i])
          OBVIOUS
        <5>2. CASE m <= ps[j].last
          <6>1. PICK i \in 1 .. j : m \in Places(ps[i])
            BY <5>2, <4>1, <4>3, <1>1
          <6> QED
            BY <6>1
        <5>3. CASE m > ps[j].last
          <6>1. m \in Places(ps[j + 1]) /\ j + 1 \in 1 .. j + 1
            BY <5>3, <4>2, <4>3, <1>1, <3>1 DEF Places
          <6> QED
            BY <6>1
        <5>4. m <= ps[j].last \/ m > ps[j].last
          <6>1. m \in Int /\ ps[j].last \in Int
            BY <4>3
          <6> QED
            BY <6>1
        <5> QED
          BY <5>2, <5>3, <5>4
      <4>6. ps[j + 1].first > k /\ ps[j + 1].last >= k
        <5>1. ps[j].last >= k /\ k \in Nat
          BY <4>1, <1>1
        <5> QED
          BY <5>1, <4>2, <4>3
      <4> QED
        BY <4>4, <4>5, <4>6, <3>1
    <3> QED
      BY <3>2, <3>3
  <2> HIDE DEF G
  <2> QED
    BY <2>1, <2>2, <1>2, InductionUpTo
<1>5. \A j \in 1 .. n : Ordered(j)
  BY <1>4, <1>2
<1>6. \A j \in 1 .. n : ps[j].last <= ps[n].last
  BY <1>5, <1>2
<1>7. End(text, k) \in k .. Len(text)
  BY <1>1, <1>2, <1>3, <1>5
<1>8. StatementAt(text, k)
  BY <1>1, <1>2, <1>3, <1>7 DEF StatementAt, ps, n
<1>9. ASSUME NEW j \in 1 .. n
      PROVE  /\ BlockValid(text, ps[j]) /\ ps[j].first > k /\ ps[j].last <= End(text, k)
             /\ \A i \in 1 .. n : i < j => ps[i].last < ps[j].first
  <2>1. Ordered(j) /\ ps[j].last <= ps[n].last /\ ps[j].first \in Nat /\ ps[j].last \in Nat
    BY <1>5, <1>6, <1>2
  <2>2. ps[j].last <= End(text, k) /\ ps[j].last <= Len(text) /\ ps[j].first <= Len(text) + 1
    BY <2>1, <1>1, <1>2, <1>3
  <2>3. ps[j] \in Blocks(text)
    BY <2>1, <2>2, <1>1, <1>2 DEF Blocks
  <2> QED
    BY <2>1, <2>2, <2>3, <1>1, <1>2 DEF BlockValid
<1>10. \A m \in k + 1 .. End(text, k) : \E j \in 1 .. n : m \in Places(ps[j])
  BY <1>2, <1>3, <1>5
<1> QED
  BY <1>2, <1>8, <1>9, <1>10 DEF ps
-----------------------------------------------------------------------------
(* The equations of the executions, in a world that takes no parts that a   *)
(* statement does not have.                                                 *)
WorldValid(world, text) ==
  \A k \in DOMAIN text : \A j \in Taken(world, text[k], k) :
    \/ j \in DOMAIN text[k].parts
    \/ j = 0 /\ text[k].kind = "match" /\ ~text[k].default

Ran(world, text, run, b) ==
  [done \in SUBSET DOMAIN text |->
    IF IsEmpty(b) THEN {Outcome(done, {}, {}, "next")}
    ELSE Continue(One(world, text, b.first, run, done), {"next"}, run[Block(End(text, b.first) + 1, b.last)])]

LEMMA ParametersInKinds ==
  ASSUME NEW text, TextValid(text), NEW k \in DOMAIN text
  PROVE  LET s == text[k]
         IN  /\ s.kind \in {"if", "loop"} => DOMAIN s.parts = {1, 2}
             /\ s.kind = "with" => DOMAIN s.parts = {1}
             /\ s.kind = "match" => Len(s.parts) \in DOMAIN s.parts
             /\ s.kind = "try" => /\ {1, Len(s.parts) - 1, Len(s.parts)} \subseteq DOMAIN s.parts
                                 /\ Handlers(s) \subseteq DOMAIN s.parts
                                 /\ DOMAIN s.parts = {1, Len(s.parts) - 1, Len(s.parts)} \cup Handlers(s)
                                 /\ Len(s.parts) > 2
<1>1. StatementAt(text, k)
  BY PartsAreBlocks
<1> DEFINE n == Len(text[k].parts)
<1>2. n \in Nat /\ DOMAIN text[k].parts = 1 .. n /\ Arity(text[k].kind, n)
  BY <1>1 DEF StatementAt
<1> HIDE DEF n
<1>3. text[k].kind \in {"if", "loop"} => n = 2
  BY <1>2 DEF Arity
<1>4. text[k].kind = "with" => n = 1
  BY <1>2 DEF Arity
<1>5. text[k].kind = "match" => n > 0
  BY <1>2 DEF Arity
<1>6. text[k].kind = "try" => n > 2
  BY <1>2 DEF Arity
<1>7. ASSUME text[k].kind = "try"
      PROVE  /\ {1, n - 1, n} \subseteq 1 .. n /\ 2 .. n - 2 \subseteq 1 .. n
             /\ 1 .. n = {1, n - 1, n} \cup (2 .. n - 2)
  BY <1>2, <1>6, <1>7
<1>8. Handlers(text[k]) = 2 .. n - 2
  BY DEF Handlers, n
<1>9. text[k].kind \in {"if", "loop"} => DOMAIN text[k].parts = {1, 2}
  BY <1>2, <1>3
<1>10. text[k].kind = "with" => DOMAIN text[k].parts = {1}
  BY <1>2, <1>4
<1>11. text[k].kind = "match" => n \in DOMAIN text[k].parts
  BY <1>2, <1>5
<1> QED
  BY <1>2, <1>6, <1>7, <1>8, <1>9, <1>10, <1>11 DEF n

LEMMA RestIsBlock ==
  ASSUME NEW text, TextValid(text), NEW b \in Blocks(text), ~IsEmpty(b)
  PROVE  /\ b.first \in DOMAIN text
         /\ Block(End(text, b.first) + 1, b.last) \in Blocks(text)
         /\ End(text, b.first) + 1 > b.first
         /\ BlockValid(text, b) => BlockValid(text, Block(End(text, b.first) + 1, b.last))
<1>1. /\ Len(text) \in Nat /\ DOMAIN text = 1 .. Len(text)
      /\ b.first \in 1 .. Len(text) + 1 /\ b.last \in 0 .. Len(text) /\ b.first <= b.last
  BY DEF TextValid, Blocks, IsEmpty
<1>2. b.first \in DOMAIN text
  BY <1>1
<1>3. End(text, b.first) \in b.first .. Len(text)
  BY <1>2, PartsAreBlocks DEF StatementAt
<1> QED
  BY <1>1, <1>2, <1>3 DEF Block, Blocks, BlockValid, Places

LEMMA RanIsLocal ==
  ASSUME NEW world, NEW text, TextValid(text), WorldValid(world, text), NEW b \in Blocks(text),
         NEW f, NEW g, \A c \in Blocks(text) : c.first > b.first => f[c] = g[c]
  PROVE  Ran(world, text, f, b) = Ran(world, text, g, b)
<1>1. CASE IsEmpty(b)
  BY <1>1 DEF Ran
<1>2. CASE ~IsEmpty(b)
  <2> DEFINE k == b.first
             s == text[k]
             rest == Block(End(text, b.first) + 1, b.last)
  <2>1. k \in DOMAIN text /\ f[rest] = g[rest]
    <3>1. rest \in Blocks(text) /\ rest.first > b.first
      BY <1>2, RestIsBlock DEF Block
    <3> QED
      BY <1>2, <3>1, RestIsBlock
  <2>2. \A j \in DOMAIN s.parts : f[s.parts[j]] = g[s.parts[j]]
    BY <2>1, PartsAreBlocks DEF BlockValid
  <2> HIDE DEF k, s, rest
  <2>3. ASSUME NEW d \in SUBSET DOMAIN text, s.kind \in {"if", "match", "with", "loop", "try"}
        PROVE  Inner(world, s, k, f, d) = Inner(world, s, k, g, d)
    <3>1. CASE s.kind \in {"if", "match"}
      <4>1. Taken(world, s, k) \subseteq DOMAIN s.parts \cup {0}
        BY <2>1 DEF WorldValid, s
      <4>2. Branches(world, s, k, f, d) = Branches(world, s, k, g, d)
        <5>1. \A j \in Taken(world, s, k) :
                (IF j = 0 THEN {Outcome(d, {}, {}, "next")} ELSE f[s.parts[j]][d])
                = (IF j = 0 THEN {Outcome(d, {}, {}, "next")} ELSE g[s.parts[j]][d])
          BY <4>1, <2>2
        <5> QED
          BY <5>1 DEF Branches
      <4> QED
        BY <3>1, <4>2 DEF Inner
    <3>2. CASE s.kind = "with"
      <4>1. 1 \in DOMAIN s.parts
        BY <2>1, <3>2, ParametersInKinds DEF s
      <4> QED
        BY <3>2, <4>1, <2>2 DEF Inner
    <3>3. CASE s.kind = "loop"
      <4>1. 1 \in DOMAIN s.parts /\ 2 \in DOMAIN s.parts
        BY <2>1, <3>3, ParametersInKinds DEF s
      <4>2. f[s.parts[1]] = g[s.parts[1]] /\ f[s.parts[2]] = g[s.parts[2]]
        BY <4>1, <2>2
      <4> QED
        BY <3>3, <4>2 DEF Inner, Looped
    <3>4. CASE s.kind = "try"
      <4>1. /\ {1, Len(s.parts) - 1, Len(s.parts)} \subseteq DOMAIN s.parts
            /\ Handlers(s) \subseteq DOMAIN s.parts
        BY <2>1, <3>4, ParametersInKinds DEF s
      <4>2. /\ f[s.parts[1]] = g[s.parts[1]] /\ f[Else(s)] = g[Else(s)] /\ f[Final(s)] = g[Final(s)]
            /\ \A j \in Handlers(s) : f[s.parts[j]] = g[s.parts[j]]
        BY <4>1, <2>2 DEF Else, Final
      <4>3. \A raised : UNION {Continue(raised, {"raise"}, f[s.parts[j]]) : j \in Handlers(s)}
                       = UNION {Continue(raised, {"raise"}, g[s.parts[j]]) : j \in Handlers(s)}
        BY <4>2
      <4>4. Tried(s, f, d) = Tried(s, g, d)
        BY <4>2, <4>3 DEF Tried
      <4> QED
        BY <3>4, <4>4 DEF Inner
    <3> QED
      BY <2>3, <3>1, <3>2, <3>3, <3>4
  <2>4. ASSUME NEW d \in SUBSET DOMAIN text
        PROVE  One(world, text, k, f, d) = One(world, text, k, g, d)
    <3>1. CASE s.kind \in {"if", "match", "with", "loop", "try"}
      <4>1. [e \in SUBSET DOMAIN text |-> Inner(world, s, k, f, e)] = [e \in SUBSET DOMAIN text |-> Inner(world, s, k, g, e)]
        BY <2>3, <3>1
      <4> QED
        BY <4>1 DEF One, s
    <3>2. CASE s.kind \notin {"if", "match", "with", "loop", "try"}
      <4>1. s.kind \in StatementKinds
        BY <2>1, PartsAreBlocks DEF StatementAt, s
      <4> QED
        <5>1. CASE s.kind = "call"
          BY <5>1 DEF One, s
        <5>2. CASE s.kind = "return"
          BY <5>2 DEF One, s
        <5>3. CASE s.kind = "raise"
          BY <5>3 DEF One, s
        <5>4. CASE s.kind \in {"break", "continue"}
          BY <5>4 DEF One, s
        <5> QED
          BY <4>1, <3>2, <5>1, <5>2, <5>3, <5>4 DEF StatementKinds
    <3> QED
      BY <3>1, <3>2
  <2> QED
    BY <1>2, <2>1, <2>4 DEF Ran, k, rest
<1> QED
  BY <1>1, <1>2

LEMMA ExecuteUnfolds ==
  ASSUME NEW world, NEW text, TextValid(text), WorldValid(world, text)
  PROVE  LET run == Execute(world, text)
         IN  \A b \in Blocks(text) : run[b] = Ran(world, text, run, b)
<1> DEFINE N == Len(text)
           After(m) == {b \in Blocks(text) : b.first > N - m}
           Unfolded(g, m) == g = [b \in After(m) |-> Ran(world, text, g, b)]
           G == {m \in Nat : \E g : Unfolded(g, m)}
<1>1. N \in Nat /\ \A b \in Blocks(text) : b.first \in 1 .. N + 1
  BY DEF TextValid, Blocks
<1>2. Execute(world, text) = CHOOSE g : g = [b \in Blocks(text) |-> Ran(world, text, g, b)]
  BY DEF Execute, Ran
<1>3. \A b \in Blocks(text) : \A g, h :
        (\A c \in Blocks(text) : c.first > b.first => g[c] = h[c]) => Ran(world, text, g, b) = Ran(world, text, h, b)
  BY RanIsLocal
<1> HIDE DEF N
<1>4. 0 \in G
  <2> DEFINE g == [b \in After(0) |-> Ran(world, text, <<>>, b)]
  <2>1. ASSUME NEW b \in After(0) PROVE g[b] = Ran(world, text, g, b)
    <3>1. b \in Blocks(text) /\ \A c \in Blocks(text) : ~(c.first > b.first)
      BY <1>1
    <3> HIDE DEF g
    <3>2. Ran(world, text, <<>>, b) = Ran(world, text, g, b)
      BY <1>3, <3>1
    <3> QED
      BY <3>2 DEF g
  <2>2. g = [b \in After(0) |-> g[b]]
    OBVIOUS
  <2> HIDE DEF g
  <2>3. Unfolded(g, 0)
    BY <2>1, <2>2
  <2> QED
    BY <2>3
<1>5. ASSUME NEW m \in 0 .. N - 1, m \in G PROVE m + 1 \in G
  <2>1. PICK g : Unfolded(g, m)
    BY <1>5
  <2> DEFINE h == [b \in After(m + 1) |-> Ran(world, text, g, b)]
  <2>2. \A c \in After(m) : c \in After(m + 1) /\ g[c] = Ran(world, text, g, c)
    BY <2>1, <1>1
  <2>3. \A c \in After(m) : h[c] = g[c]
    BY <2>2
  <2>4. h = [b \in After(m + 1) |-> h[b]] /\ \A b \in After(m + 1) : h[b] = Ran(world, text, g, b)
    OBVIOUS
  <2> HIDE DEF h
  <2>5. ASSUME NEW b \in After(m + 1) PROVE h[b] = Ran(world, text, h, b)
    <3>1. b \in Blocks(text) /\ \A c \in Blocks(text) : c.first > b.first => g[c] = h[c]
      BY <1>1, <2>3
    <3>2. Ran(world, text, g, b) = Ran(world, text, h, b)
      BY <1>3, <3>1
    <3> QED
      BY <2>4, <3>2
  <2>6. Unfolded(h, m + 1)
    BY <2>4, <2>5
  <2> QED
    BY <2>6
<1>6. N \in G
  <2> HIDE DEF G
  <2> QED
    BY <1>1, <1>4, <1>5, InductionUpTo
<1>7. After(N) = Blocks(text)
  BY <1>1
<1>8. \E g : g = [b \in Blocks(text) |-> Ran(world, text, g, b)]
  BY <1>6, <1>7
<1> DEFINE run == Execute(world, text)
<1>9. run = [b \in Blocks(text) |-> Ran(world, text, run, b)]
  BY <1>2, <1>8
<1> HIDE DEF run
<1>10. \A b \in Blocks(text) : run[b] = Ran(world, text, run, b)
  BY <1>9
<1> QED
  BY <1>10 DEF run

(* What holds of a block if it holds of all that begin later holds of all.  *)
LEMMA BlockInduction ==
  ASSUME NEW text, TextValid(text), NEW G,
         \A b \in Blocks(text) :
           BlockValid(text, b) /\ (\A c \in Blocks(text) : BlockValid(text, c) /\ c.first > b.first => c \in G) => b \in G
  PROVE  \A b \in Blocks(text) : BlockValid(text, b) => b \in G
<1> DEFINE N == Len(text)
           H == {m \in Nat : \A b \in Blocks(text) : BlockValid(text, b) /\ b.first > N + 1 - m => b \in G}
<1>1. N \in Nat /\ \A b \in Blocks(text) : b.first \in 1 .. N + 1
  BY DEF TextValid, Blocks
<1> HIDE DEF N
<1>2. 0 \in H
  BY <1>1
<1>3. ASSUME NEW m \in 0 .. N, m \in H PROVE m + 1 \in H
  <2>1. ASSUME NEW b \in Blocks(text), BlockValid(text, b), b.first > N + 1 - (m + 1) PROVE b \in G
    <3>1. ASSUME NEW c \in Blocks(text), BlockValid(text, c), c.first > b.first PROVE c \in G
      <4>1. c.first > N + 1 - m
        BY <2>1, <3>1, <1>1
      <4> QED
        BY <4>1, <3>1, <1>3
    <3> QED
      BY <2>1, <3>1
  <2> QED
    BY <2>1
<1>4. N + 1 \in H
  <2> HIDE DEF H
  <2>1. N + 1 \in Nat /\ \A n \in 0 .. (N + 1) - 1 : n \in H => n + 1 \in H
    BY <1>1, <1>3
  <2> QED
    BY <1>2, <2>1, InductionUpTo
<1> QED
  BY <1>1, <1>4

-----------------------------------------------------------------------------
(* How a statement is executed, read off an outcome.  After the statement   *)
(* was entered:                                                             *)
Entering(k, d, m) == Joined(Ends(k, d, "next"), m, m.exit)

CallOutcome(world, k, d, o) ==
  /\ k \in DOMAIN world.calls
  /\ \E n \in world.calls[k][d] :
       \/ n.exit \notin {"next", "return"} /\ o = n
       \/ /\ n.exit \in {"next", "return"}
          /\ o = Outcome(n.done \cup {k}, n.early \cup Begun(k, d), n.failed, "next")

LEMMA PlainOutcomes ==
  ASSUME NEW world, NEW text, TextValid(text), NEW k \in DOMAIN text, NEW run, NEW d,
         text[k].kind \in {"call", "return", "raise", "break", "continue"},
         NEW o \in One(world, text, k, run, d)
  PROVE  \/ o = Fails(k, d)
         \/ text[k].kind = "call" /\ o = Ends(k, d, "next")
         \/ text[k].kind \in {"return", "break", "continue"} /\ o = Ends(k, d, text[k].kind)
         \/ text[k].kind = "call" /\ CallOutcome(world, k, d, o)
<1>1. CASE text[k].kind = "call" /\ k \in DOMAIN world.calls
  <2>1. o \in Called(world, k, d)
    BY <1>1 DEF One
  <2> QED
    BY <1>1, <2>1 DEF Called, CallOutcome
<1>2. CASE text[k].kind = "call" /\ k \notin DOMAIN world.calls
  <2>1. o \in Entered(world, k, d)
    BY <1>2 DEF One
  <2> QED
    BY <1>2, <2>1 DEF Entered
<1>3. CASE text[k].kind = "return"
  BY <1>3 DEF One
<1>4. CASE text[k].kind = "raise"
  BY <1>4 DEF One
<1>5. CASE text[k].kind \in {"break", "continue"}
  BY <1>5 DEF One
<1> QED
  BY <1>1, <1>2, <1>3, <1>4, <1>5

LEMMA CompoundOutcomes ==
  ASSUME NEW world, NEW text, TextValid(text), NEW k \in DOMAIN text, NEW run, NEW d \in SUBSET DOMAIN text,
         text[k].kind \in {"if", "match", "loop", "with", "try"},
         NEW o \in One(world, text, k, run, d)
  PROVE  \/ o = Fails(k, d)
         \/ \E m \in Inner(world, text[k], k, run, d \cup {k}) : o = Entering(k, d, m)
<1> DEFINE inside == [e \in SUBSET DOMAIN text |-> Inner(world, text[k], k, run, e)]
<1>1. /\ (Ends(k, d, "next")).exit = "next" /\ (Ends(k, d, "next")).done = d \cup {k}
      /\ (Fails(k, d)).exit = "raise"
  BY DEF Ends, Fails, Outcome
<1>2. inside[(Ends(k, d, "next")).done] = Inner(world, text[k], k, run, d \cup {k})
  BY <1>1
<1>3. o \in Continue(Entered(world, k, d), {"next"}, inside) \/ o \in Continue({Ends(k, d, "next")}, {"next"}, inside)
  <2>1. CASE text[k].kind \in {"if", "match", "loop", "with"}
    BY <2>1 DEF One
  <2>2. CASE text[k].kind = "try"
    BY <2>2 DEF One
  <2> QED
    BY <2>1, <2>2
<1> HIDE DEF inside
<1>4. \A x \in Entered(world, k, d) \cup {Ends(k, d, "next")} : x = Ends(k, d, "next") \/ x = Fails(k, d)
  BY DEF Entered
<1>5. \/ o \in Entered(world, k, d) \cup {Ends(k, d, "next")} /\ o.exit \notin {"next"}
      \/ \E x \in Entered(world, k, d) \cup {Ends(k, d, "next")} :
           x.exit \in {"next"} /\ \E m \in inside[x.done] : o = Joined(x, m, m.exit)
  BY <1>3 DEF Continue
<1>6. CASE o \in Entered(world, k, d) \cup {Ends(k, d, "next")} /\ o.exit \notin {"next"}
  BY <1>1, <1>4, <1>6
<1>7. ASSUME NEW x \in Entered(world, k, d) \cup {Ends(k, d, "next")}, x.exit \in {"next"},
             NEW m \in inside[x.done], o = Joined(x, m, m.exit)
      PROVE  \E mm \in Inner(world, text[k], k, run, d \cup {k}) : o = Entering(k, d, mm)
  <2>1. x = Ends(k, d, "next")
    BY <1>1, <1>4, <1>7
  <2> QED
    BY <2>1, <1>2, <1>7 DEF Entering
<1> QED
  BY <1>5, <1>6, <1>7

LEMMA BranchOutcomes ==
  ASSUME NEW world, NEW text, TextValid(text), WorldValid(world, text), NEW k \in DOMAIN text, NEW run, NEW d,
         text[k].kind \in {"if", "match"}, NEW m \in Inner(world, text[k], k, run, d)
  PROVE  \/ m = Outcome(d, {}, {}, "next") /\ text[k].kind = "match" /\ ~text[k].default
         \/ \E j \in DOMAIN text[k].parts : m \in run[text[k].parts[j]][d]
<1>1. m \in Branches(world, text[k], k, run, d)
  BY DEF Inner
<1>2. PICK j \in Taken(world, text[k], k) :
        m \in (IF j = 0 THEN {Outcome(d, {}, {}, "next")} ELSE run[text[k].parts[j]][d])
  BY <1>1 DEF Branches
<1>3. 0 \notin DOMAIN text[k].parts
  <2>1. StatementAt(text, k)
    BY PartsAreBlocks
  <2> QED
    BY <2>1 DEF StatementAt
<1>4. j \in DOMAIN text[k].parts \/ (j = 0 /\ text[k].kind = "match" /\ ~text[k].default)
  BY DEF WorldValid
<1>5. CASE j = 0
  BY <1>2, <1>3, <1>4, <1>5
<1>6. CASE j # 0
  BY <1>2, <1>4, <1>6
<1> QED
  BY <1>5, <1>6

LEMMA LoopOutcomes ==
  ASSUME NEW world, NEW text, NEW k \in DOMAIN text, NEW run, NEW d,
         text[k].kind = "loop", NEW m \in Inner(world, text[k], k, run, d)
  PROVE  LET s == text[k] IN
         \/ m \in run[s.parts[2]][d]
         \/ \E t \in run[s.parts[1]][d] :
              \/ t.exit = "break" /\ m = [t EXCEPT !.exit = "next"]
              \/ t.exit \notin {"break", "next", "continue"} /\ m = t
              \/ /\ t.exit \in {"next", "continue"}
                 /\ \E n \in run[s.parts[2]][t.done] : m = Joined(t, n, n.exit)
<1>1. m \in Looped(text[k], run, d)
  BY DEF Inner
<1> QED
  BY <1>1 DEF Looped, Continue

(* Left is how a try statement is left but for its finally clause.          *)
LeftTry(s, run, d, m) ==
  \E t \in run[s.parts[1]][d] :
    \/ m = t /\ t.exit # "next"
    \/ t.exit = "next" /\ \E n \in run[Else(s)][t.done] : m = Joined(t, n, n.exit)
    \/ t.exit = "raise" /\ \E j \in Handlers(s) : \E n \in run[s.parts[j]][t.done] : m = Joined(t, n, n.exit)

LEMMA TryOutcomes ==
  ASSUME NEW world, NEW text, NEW k \in DOMAIN text, NEW run, NEW d,
         text[k].kind = "try", NEW o \in Inner(world, text[k], k, run, d)
  PROVE  \E m : /\ LeftTry(text[k], run, d, m)
                /\ \E f \in run[Final(text[k])][m.done] :
                     o = Joined(m, f, IF f.exit = "next" THEN m.exit ELSE f.exit)
<1> DEFINE s == text[k]
           tried == run[s.parts[1]][d]
           raised == {x \in tried : x.exit = "raise"}
           left == Continue(tried \ raised, {"next"}, run[Else(s)]) \cup raised
                     \cup UNION {Continue(raised, {"raise"}, run[s.parts[j]]) : j \in Handlers(s)}
<1>1. o \in Tried(s, run, d)
  BY DEF Inner
<1>2. PICK m \in left : \E f \in run[Final(s)][m.done] : o = Joined(m, f, IF f.exit = "next" THEN m.exit ELSE f.exit)
  BY <1>1 DEF Tried
<1>3. LeftTry(s, run, d, m)
  <2>1. CASE m \in Continue(tried \ raised, {"next"}, run[Else(s)])
    BY <2>1 DEF Continue, LeftTry
  <2>2. CASE m \in raised
    BY <2>2 DEF LeftTry
  <2>3. CASE m \in UNION {Continue(raised, {"raise"}, run[s.parts[j]]) : j \in Handlers(s)}
    <3>1. PICK j \in Handlers(s) : m \in Continue(raised, {"raise"}, run[s.parts[j]])
      BY <2>3
    <3> QED
      BY <3>1 DEF Continue, LeftTry
  <2> QED
    BY <1>2, <2>1, <2>2, <2>3
<1> QED
  BY <1>2, <1>3

-----------------------------------------------------------------------------
(* The place of a compound statement and those of its parts.                *)
Span(text, k) == Block(k, End(text, k))

LEMMA SpanIsBlock ==
  ASSUME NEW text, TextValid(text), NEW k \in DOMAIN text
  PROVE  /\ BlockValid(text, Span(text, k)) /\ ~IsEmpty(Span(text, k))
         /\ k \in Nat /\ k \in Places(Span(text, k))
         /\ \A j \in DOMAIN text[k].parts : /\ Places(text[k].parts[j]) \subseteq Places(Span(text, k)) \ {k}
                                            /\ BlockValid(text, text[k].parts[j])
                                            /\ text[k].parts[j] \in Blocks(text)
                                            /\ text[k].parts[j].first > k
         /\ \A m \in Places(Span(text, k)) : m = k \/ \E j \in DOMAIN text[k].parts : m \in Places(text[k].parts[j])
         /\ \A i, j \in DOMAIN text[k].parts : \A m \in Places(text[k].parts[i]) : \A n \in Places(text[k].parts[j]) :
              i < j => m < n
<1> DEFINE ps == text[k].parts
<1>1. /\ StatementAt(text, k) /\ k \in 1 .. Len(text) /\ Len(text) \in Nat
      /\ \A j \in DOMAIN ps : /\ BlockValid(text, ps[j])
                              /\ ps[j].first > k
                              /\ ps[j].last <= End(text, k)
                              /\ \A i \in DOMAIN ps : i < j => ps[i].last < ps[j].first
      /\ \A m \in k + 1 .. End(text, k) : \E j \in DOMAIN ps : m \in Places(ps[j])
  BY PartsAreBlocks DEF TextValid
<1> HIDE DEF ps
<1>2. End(text, k) \in k .. Len(text)
  BY <1>1 DEF StatementAt
<1>3. \A j \in DOMAIN ps : ps[j].first \in Nat /\ ps[j].last \in Nat
  BY <1>1 DEF BlockValid, Blocks
<1>4. \A m \in k .. End(text, k) : m = k \/ \E j \in DOMAIN ps : m \in Places(ps[j])
  BY <1>1, <1>2
<1>5. \A m \in k .. End(text, k) : End(text, m) <= End(text, k)
  <2>1. ASSUME NEW m \in k .. End(text, k), NEW j \in DOMAIN ps, m \in Places(ps[j]) PROVE End(text, m) <= End(text, k)
    <3>1. End(text, m) <= ps[j].last /\ ps[j].last <= End(text, k) /\ m \in DOMAIN text
      BY <1>1, <1>2, <2>1 DEF BlockValid, TextValid
    <3>2. End(text, m) \in Nat
      <4>1. StatementAt(text, m) /\ m \in Nat /\ Len(text) \in Nat
        <5>1. StatementAt(text, m)
          BY <3>1, PartsAreBlocks
        <5> QED
          BY <5>1, <1>1, <1>2
      <4> QED
        BY <4>1 DEF StatementAt
    <3> QED
      BY <3>1, <3>2, <1>2, <1>3, <1>1
  <2> QED
    BY <2>1, <1>4, <1>2, <1>1
<1>6. \A j \in DOMAIN ps : Places(ps[j]) \subseteq (k .. End(text, k)) \ {k}
  BY <1>1, <1>2, <1>3 DEF Places
<1>7. \A i, j \in DOMAIN ps : \A m \in Places(ps[i]) : \A n \in Places(ps[j]) : i < j => m < n
  BY <1>1, <1>3 DEF Places
<1>8. Span(text, k) \in Blocks(text) /\ Places(Span(text, k)) = k .. End(text, k)
  BY <1>1, <1>2 DEF Span, Block, Blocks, Places
<1>9. BlockValid(text, Span(text, k)) /\ ~IsEmpty(Span(text, k))
  BY <1>1, <1>2, <1>5, <1>8 DEF BlockValid, IsEmpty, Span, Block
<1> QED
  BY <1>1, <1>2, <1>4, <1>6, <1>7, <1>8, <1>9 DEF ps, BlockValid
-----------------------------------------------------------------------------
(* A function begins at a place of the text of all, base, and those before  *)
(* it are the functions that it may call.                                   *)
Exits == {"next", "return", "raise", "break", "continue"}
Outcomes(text) == [done : SUBSET DOMAIN text, early : SUBSET (Nat \X Nat), failed : SUBSET DOMAIN text, exit : Exits]
Touched(d, o) == (o.done \ d) \cup o.failed
Reach(base, b) == Places(b) \cup (1 .. base - 1)

(* What an execution after d does stays in a set of places.                 *)
Stays(text, T, d, o) ==
  /\ o \in Outcomes(text)
  /\ d \subseteq o.done /\ Touched(d, o) \subseteq T
  /\ \A x, y \in Nat : <<x, y>> \in o.early => y \in T /\ x < y /\ x \notin d

CallsStay(world, text, base) ==
  \A k \in DOMAIN world.calls : \A d \in SUBSET DOMAIN text : \A o \in world.calls[k][d] :
    Stays(text, 1 .. base - 1, d, o) /\ o.exit \in {"next", "return", "raise"}

Runs(world, text, base, run) ==
  /\ TextValid(text) /\ WorldValid(world, text) /\ base \in Nat \ {0} /\ CallsStay(world, text, base)
  /\ \A b \in Blocks(text) : run[b] = Ran(world, text, run, b)

Rest(text, b) == Block(End(text, b.first) + 1, b.last)

LEMMA SequenceOutcomes ==
  ASSUME NEW world, NEW text, NEW base, NEW run, Runs(world, text, base, run),
         NEW b \in Blocks(text), ~IsEmpty(b), NEW d \in SUBSET DOMAIN text, NEW o \in run[b][d]
  PROVE  \E a \in One(world, text, b.first, run, d) :
           \/ a.exit # "next" /\ o = a
           \/ a.exit = "next" /\ \E n \in run[Rest(text, b)][a.done] : o = Joined(a, n, n.exit)
<1>1. o \in Continue(One(world, text, b.first, run, d), {"next"}, run[Rest(text, b)])
  BY DEF Runs, Ran, Rest
<1> QED
  BY <1>1 DEF Continue

LEMMA EmptyOutcomes ==
  ASSUME NEW world, NEW text, NEW base, NEW run, Runs(world, text, base, run),
         NEW b \in Blocks(text), IsEmpty(b), NEW d \in SUBSET DOMAIN text, NEW o \in run[b][d]
  PROVE  o = Outcome(d, {}, {}, "next")
<1>1. run[b][d] = {Outcome(d, {}, {}, "next")}
  BY DEF Runs, Ran
<1> QED
  BY <1>1

LEMMA StaysWider ==
  ASSUME NEW text, NEW T, NEW U, T \subseteq U, NEW d, NEW o, Stays(text, T, d, o)
  PROVE  Stays(text, U, d, o)
BY DEF Stays

LEMMA StaysOfNothing ==
  ASSUME NEW text, NEW T, NEW d \in SUBSET DOMAIN text
  PROVE  Stays(text, T, d, Outcome(d, {}, {}, "next"))
BY DEF Stays, Outcome, Outcomes, Touched, Exits

LEMMA JoinedFields ==
  ASSUME NEW o, NEW n, NEW exit
  PROVE  /\ Joined(o, n, exit).done = n.done /\ Joined(o, n, exit).early = o.early \cup n.early
         /\ Joined(o, n, exit).failed = o.failed \cup n.failed /\ Joined(o, n, exit).exit = exit
BY DEF Joined, Outcome

LEMMA StaysOneAfterOther ==
  ASSUME NEW text, NEW V, NEW T \in SUBSET V, NEW U \in SUBSET V, NEW d, NEW o, NEW n,
         Stays(text, T, d, o), Stays(text, U, o.done, n), NEW exit \in Exits
  PROVE  /\ Stays(text, V, d, Joined(o, n, exit))
         /\ Touched(d, Joined(o, n, exit)) \subseteq Touched(d, o) \cup Touched(o.done, n)
<1> DEFINE j == Joined(o, n, exit)
<1>1. /\ j = [done |-> n.done, early |-> o.early \cup n.early, failed |-> o.failed \cup n.failed, exit |-> exit]
      /\ j.done = n.done /\ j.early = o.early \cup n.early /\ j.failed = o.failed \cup n.failed /\ j.exit = exit
  BY DEF Joined, Outcome
<1>2. j \in Outcomes(text)
  BY <1>1 DEF Stays, Outcomes
<1> HIDE DEF j
<1>3. Touched(d, j) \subseteq Touched(d, o) \cup Touched(o.done, n) /\ d \subseteq j.done
  BY <1>1 DEF Stays, Touched
<1>4. \A x, y \in Nat : <<x, y>> \in j.early => y \in V /\ x < y /\ x \notin d
  BY <1>1 DEF Stays
<1>5. Stays(text, V, d, j)
  BY <1>2, <1>3, <1>4 DEF Stays
<1> QED
  BY <1>1, <1>3, <1>5 DEF j

LEMMA StaysCaught ==
  ASSUME NEW text, NEW T, NEW d, NEW t, Stays(text, T, d, t)
  PROVE  LET m == [t EXCEPT !.exit = "next"]
         IN  /\ Stays(text, T, d, m)
             /\ m.done = t.done /\ m.early = t.early /\ m.failed = t.failed /\ m.exit = "next"
<1> DEFINE m == [t EXCEPT !.exit = "next"]
<1>1. m \in Outcomes(text) /\ m.done = t.done /\ m.early = t.early /\ m.failed = t.failed /\ m.exit = "next"
  BY DEF Stays, Outcomes, Exits
<1> HIDE DEF m
<1>2. Stays(text, T, d, m)
  BY <1>1 DEF Stays, Touched
<1> QED
  BY <1>1, <1>2 DEF m

PartsStay(text, run, k, T) ==
  \A j \in DOMAIN text[k].parts : \A d \in SUBSET DOMAIN text : \A o \in run[text[k].parts[j]][d] : Stays(text, T, d, o)

LEMMA InnerStays ==
  ASSUME NEW world, NEW text, NEW base, NEW run, Runs(world, text, base, run), NEW k \in DOMAIN text, NEW T,
         PartsStay(text, run, k, T),
         text[k].kind \in {"if", "match", "loop", "with", "try"},
         NEW d \in SUBSET DOMAIN text, NEW m \in Inner(world, text[k], k, run, d)
  PROVE  Stays(text, T, d, m)
<1> DEFINE s == text[k]
<1>1. /\ s.kind = "with" => 1 \in DOMAIN s.parts
      /\ s.kind = "loop" => {1, 2} \subseteq DOMAIN s.parts
      /\ s.kind = "try" => {1, Len(s.parts) - 1, Len(s.parts)} \subseteq DOMAIN s.parts /\ Handlers(s) \subseteq DOMAIN s.parts
  BY ParametersInKinds DEF Runs
<1>2. TextValid(text) /\ WorldValid(world, text) /\ \A e, o : Stays(text, T, e, o) => o.done \in SUBSET DOMAIN text /\ o.exit \in Exits
  BY DEF Runs, Stays, Outcomes
<1>3. CASE s.kind \in {"if", "match"}
  <2>1. m = Outcome(d, {}, {}, "next") \/ \E j \in DOMAIN s.parts : m \in run[s.parts[j]][d]
    BY <1>2, <1>3, BranchOutcomes
  <2> QED
    BY <2>1, StaysOfNothing DEF PartsStay
<1>4. CASE s.kind = "with"
  <2>1. m \in run[s.parts[1]][d]
    BY <1>4 DEF Inner
  <2> QED
    BY <1>1, <1>4, <2>1 DEF PartsStay
<1>5. CASE s.kind = "loop"
  <2>1. \/ m \in run[s.parts[2]][d]
        \/ \E t \in run[s.parts[1]][d] :
             \/ m = [t EXCEPT !.exit = "next"]
             \/ m = t
             \/ \E n \in run[s.parts[2]][t.done] : m = Joined(t, n, n.exit)
    BY <1>5, LoopOutcomes
  <2>2. ASSUME NEW t \in run[s.parts[1]][d], NEW n \in run[s.parts[2]][t.done]
        PROVE  Stays(text, T, d, Joined(t, n, n.exit))
    <3>1. Stays(text, T, d, t) /\ Stays(text, T, t.done, n) /\ n.exit \in Exits
      BY <1>1, <1>2, <1>5 DEF PartsStay
    <3> QED
      BY <3>1, StaysOneAfterOther
  <2> QED
    BY <1>1, <1>5, <2>1, <2>2, StaysCaught DEF PartsStay
<1>6. CASE s.kind = "try"
  <2>1. /\ \A e \in SUBSET DOMAIN text : \A o \in run[s.parts[1]][e] \cup run[Else(s)][e] \cup run[Final(s)][e] : Stays(text, T, e, o)
        /\ \A j \in Handlers(s) : \A e \in SUBSET DOMAIN text : \A o \in run[s.parts[j]][e] : Stays(text, T, e, o)
    BY <1>1, <1>6 DEF Else, Final, PartsStay
  <2>2. PICK x, f : LeftTry(s, run, d, x) /\ f \in run[Final(s)][x.done] /\ m = Joined(x, f, IF f.exit = "next" THEN x.exit ELSE f.exit)
    BY <1>6, TryOutcomes
  <2>3. Stays(text, T, d, x)
    <3>1. PICK t \in run[s.parts[1]][d] :
            \/ x = t
            \/ \E n \in run[Else(s)][t.done] : x = Joined(t, n, n.exit)
            \/ \E j \in Handlers(s) : \E n \in run[s.parts[j]][t.done] : x = Joined(t, n, n.exit)
      BY <2>2 DEF LeftTry
    <3>2. Stays(text, T, d, t)
      BY <2>1
    <3>3. ASSUME NEW n, Stays(text, T, t.done, n) PROVE Stays(text, T, d, Joined(t, n, n.exit))
      BY <1>2, <3>2, <3>3, StaysOneAfterOther
    <3> QED
      BY <1>2, <2>1, <3>1, <3>2, <3>3
  <2>4. Stays(text, T, x.done, f) /\ (IF f.exit = "next" THEN x.exit ELSE f.exit) \in Exits
    BY <1>2, <2>1, <2>2, <2>3
  <2> QED
    BY <2>2, <2>3, <2>4, StaysOneAfterOther
<1> QED
  BY <1>3, <1>4, <1>5, <1>6

LEMMA EndsFields ==
  ASSUME NEW k, NEW d, NEW exit
  PROVE  /\ Ends(k, d, exit).done = d \cup {k} /\ Ends(k, d, exit).failed = {} /\ Ends(k, d, exit).exit = exit
         /\ Ends(k, d, exit).early = Begun(k, d)
BY DEF Ends, Outcome

LEMMA FailsFields ==
  ASSUME NEW k, NEW d
  PROVE  /\ Fails(k, d).done = d /\ Fails(k, d).failed = {k} /\ Fails(k, d).exit = "raise"
         /\ Fails(k, d).early = Begun(k, d)
BY DEF Fails, Outcome

LEMMA EndsStay ==
  ASSUME NEW text, TextValid(text), NEW k \in DOMAIN text, NEW d \in SUBSET DOMAIN text
  PROVE  /\ \A exit \in Exits : Stays(text, {k}, d, Ends(k, d, exit))
         /\ Stays(text, {k}, d, Fails(k, d))
<1>1. k \in Nat /\ d \subseteq Nat
  BY DEF TextValid
<1>2. /\ Begun(k, d) \in SUBSET (Nat \X Nat)
      /\ \A x, y \in Nat : <<x, y>> \in Begun(k, d) => y \in {k} /\ x < y /\ x \notin d
  BY <1>1 DEF Begun
<1>3. \A exit \in Exits : Ends(k, d, exit) = [done |-> d \cup {k}, early |-> Begun(k, d), failed |-> {}, exit |-> exit]
  BY DEF Ends, Outcome
<1>4. Fails(k, d) = [done |-> d, early |-> Begun(k, d), failed |-> {k}, exit |-> "raise"]
  BY DEF Fails, Outcome
<1>5. ASSUME NEW exit \in Exits PROVE Stays(text, {k}, d, Ends(k, d, exit))
  BY <1>2, <1>3 DEF Stays, Touched, Outcomes
<1>6. Stays(text, {k}, d, Fails(k, d))
  BY <1>2, <1>4 DEF Stays, Touched, Outcomes, Exits
<1> QED
  BY <1>5, <1>6

LEMMA EnteringStays ==
  ASSUME NEW text, TextValid(text), NEW T, NEW k \in DOMAIN text \cap T, NEW d \in SUBSET DOMAIN text, NEW m,
         Stays(text, T, d \cup {k}, m)
  PROVE  Stays(text, T, d, Entering(k, d, m))
<1> DEFINE e == Ends(k, d, "next")
<1>1. "next" \in Exits /\ m.exit \in Exits
  BY DEF Exits, Stays, Outcomes
<1>2. Stays(text, {k}, d, e) /\ e.done = d \cup {k}
  BY <1>1, EndsStay, EndsFields
<1> HIDE DEF e
<1>3. {k} \in SUBSET T /\ T \in SUBSET T /\ Stays(text, T, e.done, m)
  BY <1>2
<1>4. Stays(text, T, d, Joined(e, m, m.exit))
  BY <1>1, <1>2, <1>3, StaysOneAfterOther
<1> QED
  BY <1>4 DEF Entering, e

LEMMA CalledStays ==
  ASSUME NEW text, TextValid(text), NEW T, NEW k \in DOMAIN text \cap T, NEW d \in SUBSET DOMAIN text, NEW n,
         Stays(text, T, d, n)
  PROVE  LET o == Outcome(n.done \cup {k}, n.early \cup Begun(k, d), n.failed, "next")
         IN  /\ Stays(text, T, d, o)
             /\ o.done = n.done \cup {k} /\ o.early = Begun(k, d) \cup n.early /\ o.failed = n.failed /\ o.exit = "next"
<1> DEFINE o == Outcome(n.done \cup {k}, n.early \cup Begun(k, d), n.failed, "next")
<1>1. "next" \in Exits
  BY DEF Exits
<1>2. Stays(text, {k}, d, Fails(k, d)) /\ Fails(k, d).early = Begun(k, d)
  BY EndsStay, FailsFields
<1>3. /\ Begun(k, d) \subseteq Nat \X Nat
      /\ \A x, y \in Nat : <<x, y>> \in Begun(k, d) => y \in T /\ x < y /\ x \notin d
  BY <1>2 DEF Stays, Outcomes
<1>4. o = [done |-> n.done \cup {k}, early |-> n.early \cup Begun(k, d), failed |-> n.failed, exit |-> "next"]
  BY DEF Outcome
<1> HIDE DEF o
<1>5. o \in Outcomes(text)
  BY <1>1, <1>3, <1>4 DEF Stays, Outcomes
<1>6. d \subseteq o.done /\ Touched(d, o) \subseteq T
  BY <1>4 DEF Stays, Touched
<1>7. \A x, y \in Nat : <<x, y>> \in o.early => y \in T /\ x < y /\ x \notin d
  BY <1>3, <1>4 DEF Stays
<1>8. Stays(text, T, d, o)
  BY <1>5, <1>6, <1>7 DEF Stays
<1> QED
  BY <1>4, <1>8 DEF o

LEMMA StatementStaysIn ==
  ASSUME NEW world, NEW text, NEW base, NEW run, Runs(world, text, base, run), NEW T, NEW k \in DOMAIN text \cap T,
         PartsStay(text, run, k, T), NEW d \in SUBSET DOMAIN text,
         k \in DOMAIN world.calls => \A n \in world.calls[k][d] : Stays(text, T, d, n),
         NEW o \in One(world, text, k, run, d)
  PROVE  Stays(text, T, d, o)
<1>1. TextValid(text) /\ \A exit \in {"next", "return", "break", "continue"} : exit \in Exits
  BY DEF Runs, Exits
<1>2. {k} \subseteq T /\ PartsStay(text, run, k, T)
  OBVIOUS
<1>3. /\ \A exit \in {"next", "return", "break", "continue"} : Stays(text, {k}, d, Ends(k, d, exit))
      /\ Stays(text, {k}, d, Fails(k, d))
  BY <1>1, EndsStay
<1>4. /\ \A exit \in {"next", "return", "break", "continue"} : Stays(text, T, d, Ends(k, d, exit))
      /\ Stays(text, T, d, Fails(k, d))
  BY <1>2, <1>3, StaysWider
<1>5. CASE text[k].kind \in {"if", "match", "loop", "with", "try"}
  <2>1. \/ o = Fails(k, d)
        \/ \E m \in Inner(world, text[k], k, run, d \cup {k}) : o = Entering(k, d, m)
    BY <1>1, <1>5, CompoundOutcomes
  <2>2. \A m \in Inner(world, text[k], k, run, d \cup {k}) : Stays(text, T, d \cup {k}, m)
    BY <1>2, <1>5, InnerStays
  <2>3. \A m : Stays(text, T, d \cup {k}, m) => Stays(text, T, d, Entering(k, d, m))
    BY <1>1, <1>2, EnteringStays
  <2> QED
    BY <1>4, <2>1, <2>2, <2>3
<1>6. CASE text[k].kind \notin {"if", "match", "loop", "with", "try"}
  <2>1. text[k].kind \in {"call", "return", "raise", "break", "continue"}
    <3>1. StatementAt(text, k)
      BY <1>1, PartsAreBlocks
    <3> QED
      BY <3>1, <1>6 DEF StatementAt, StatementKinds
  <2>2. \/ o = Fails(k, d)
        \/ o = Ends(k, d, "next")
        \/ text[k].kind \in {"return", "break", "continue"} /\ o = Ends(k, d, text[k].kind)
        \/ CallOutcome(world, k, d, o)
    BY <1>1, <2>1, PlainOutcomes
  <2>3. k \in DOMAIN world.calls => \A n \in world.calls[k][d] : Stays(text, T, d, n)
    OBVIOUS
  <2>4. \A n : Stays(text, T, d, n) => Stays(text, T, d, Outcome(n.done \cup {k}, n.early \cup Begun(k, d), n.failed, "next"))
    BY <1>1, <1>2, CalledStays
  <2> QED
    BY <1>4, <2>2, <2>3, <2>4 DEF CallOutcome
<1> QED
  BY <1>5, <1>6

LEMMA StatementStays ==
  ASSUME NEW world, NEW text, NEW base, NEW run, Runs(world, text, base, run), NEW k \in DOMAIN text,
         PartsStay(text, run, k, Reach(base, Span(text, k))),
         NEW d \in SUBSET DOMAIN text, NEW o \in One(world, text, k, run, d)
  PROVE  Stays(text, Reach(base, Span(text, k)), d, o)
<1> DEFINE T == Reach(base, Span(text, k))
<1>1. k \in T /\ 1 .. base - 1 \subseteq T
  BY SpanIsBlock DEF Reach, Runs
<1> HIDE DEF T
<1>2. k \in DOMAIN world.calls => \A n \in world.calls[k][d] : Stays(text, T, d, n)
  BY <1>1, StaysWider DEF Runs, CallsStay
<1> QED
  BY <1>1, <1>2, StatementStaysIn DEF T

LEMMA ExecutionsStay ==
  ASSUME NEW world, NEW text, NEW base, NEW run, Runs(world, text, base, run)
  PROVE  \A b \in Blocks(text) : BlockValid(text, b) /\ b.first >= base =>
           \A d \in SUBSET DOMAIN text : \A o \in run[b][d] : Stays(text, Reach(base, b), d, o)
<1> DEFINE G == {b \in Blocks(text) : b.first >= base =>
                   \A d \in SUBSET DOMAIN text : \A o \in run[b][d] : Stays(text, Reach(base, b), d, o)}
<1>1. ASSUME NEW b \in Blocks(text), BlockValid(text, b),
             \A c \in Blocks(text) : BlockValid(text, c) /\ c.first > b.first => c \in G
      PROVE  b \in G
  <2>1. SUFFICES ASSUME b.first >= base, NEW d \in SUBSET DOMAIN text, NEW o \in run[b][d]
                 PROVE  Stays(text, Reach(base, b), d, o)
    OBVIOUS
  <2>2. CASE IsEmpty(b)
    BY <2>2, EmptyOutcomes, StaysOfNothing
  <2>3. CASE ~IsEmpty(b)
    <3> DEFINE k == b.first
               rest == Rest(text, b)
    <3>1. k \in DOMAIN text /\ k \in Nat /\ base \in Nat /\ TextValid(text)
      BY <2>3, RestIsBlock DEF Runs, TextValid
    <3>2. rest \in Blocks(text) /\ rest.first > k /\ rest.first \in Nat /\ BlockValid(text, rest)
      BY <2>3, <1>1, <3>1, RestIsBlock DEF Rest, Block, Blocks
    <3>3. Places(Span(text, k)) \subseteq Places(b) /\ Places(rest) \subseteq Places(b)
      <4>1. End(text, k) <= b.last /\ End(text, k) \in Nat /\ b.last \in Nat
        <5>1. End(text, k) <= b.last
          BY <1>1, <2>3, <3>1 DEF BlockValid, Places, IsEmpty, Blocks
        <5>2. StatementAt(text, k)
          BY <3>1, PartsAreBlocks
        <5> QED
          BY <5>1, <5>2, <3>1 DEF StatementAt, Blocks, TextValid
      <4> QED
        BY <4>1, <3>1, <3>2 DEF Places, Span, Rest, Block
    <3>4. PICK a \in One(world, text, k, run, d) :
            \/ a.exit # "next" /\ o = a
            \/ a.exit = "next" /\ \E n \in run[rest][a.done] : o = Joined(a, n, n.exit)
      BY <2>3, SequenceOutcomes
    <3> HIDE DEF rest
    <3>5. PartsStay(text, run, k, Reach(base, Span(text, k)))
      <4>1. ASSUME NEW j \in DOMAIN text[k].parts, NEW e \in SUBSET DOMAIN text, NEW m \in run[text[k].parts[j]][e]
            PROVE  Stays(text, Reach(base, Span(text, k)), e, m)
        <5>1. /\ BlockValid(text, text[k].parts[j]) /\ text[k].parts[j] \in Blocks(text) /\ text[k].parts[j].first > k
              /\ Places(text[k].parts[j]) \subseteq Places(Span(text, k))
          BY <3>1, SpanIsBlock
        <5>2. text[k].parts[j].first \in Nat
          BY <5>1, <3>1 DEF Blocks, TextValid
        <5>3. text[k].parts[j] \in G /\ text[k].parts[j].first >= base
          BY <5>1, <5>2, <1>1, <2>1, <3>1
        <5>4. Stays(text, Reach(base, text[k].parts[j]), e, m)
          BY <5>3, <4>1
        <5>5. Reach(base, text[k].parts[j]) \subseteq Reach(base, Span(text, k))
          BY <5>1 DEF Reach
        <5> QED
          BY <5>4, <5>5, StaysWider
      <4> QED
        BY <4>1 DEF PartsStay
    <3>6. Stays(text, Reach(base, Span(text, k)), d, a)
      BY <2>1, <3>1, <3>5, StatementStays
    <3>7. ASSUME NEW n \in run[rest][a.done] PROVE Stays(text, Reach(base, rest), a.done, n)
      <4>1. rest \in G /\ rest.first >= base /\ a.done \in SUBSET DOMAIN text
        BY <1>1, <2>1, <3>1, <3>2, <3>6 DEF Stays, Outcomes
      <4> QED
        BY <4>1
    <3>8. Reach(base, Span(text, k)) \subseteq Reach(base, b) /\ Reach(base, rest) \subseteq Reach(base, b)
      BY <3>3 DEF Reach, rest
    <3>9. ASSUME NEW n \in run[rest][a.done] PROVE Stays(text, Reach(base, b), d, Joined(a, n, n.exit))
      <4>1. n.exit \in Exits
        BY <3>7 DEF Stays, Outcomes
      <4> QED
        BY <4>1, <3>6, <3>7, <3>8, StaysOneAfterOther
    <3> QED
      BY <3>4, <3>6, <3>8, <3>9, StaysWider
  <2> QED
    BY <2>2, <2>3
<1> HIDE DEF G
<1>2. \A b \in Blocks(text) : BlockValid(text, b) => b \in G
  BY <1>1, BlockInduction DEF Runs
<1> QED
  BY <1>2 DEF G

-----------------------------------------------------------------------------
(* How a block is left.  First, what block_terminates says of it.           *)
Closes(text, terminates, block) == ~IsEmpty(block) /\ terminates[LastOf(text, block)]
Finishing(text, terminates, k) ==
  LET s == text[k]
  IN  CASE s.kind \in {"return", "raise"} -> TRUE
        [] s.kind = "if" -> Closes(text, terminates, s.parts[1]) /\ Closes(text, terminates, s.parts[2])
        [] s.kind = "match" -> s.default /\ \A j \in DOMAIN s.parts : Closes(text, terminates, s.parts[j])
        [] s.kind = "try" ->
             \/ Closes(text, terminates, Final(s))
             \/ /\ Closes(text, terminates, IF IsEmpty(Else(s)) THEN s.parts[1] ELSE Else(s))
                /\ \A j \in Handlers(s) : Closes(text, terminates, s.parts[j])
        [] OTHER -> FALSE

LEMMA LastOfBlock ==
  ASSUME NEW text, TextValid(text), NEW b, BlockValid(text, b), ~IsEmpty(b)
  PROVE  /\ LastOf(text, b) \in Places(b) /\ End(text, LastOf(text, b)) = b.last
         /\ \A m \in Places(b) : End(text, m) = b.last => LastOf(text, b) <= m
<1> DEFINE S == {k \in Places(b) : End(text, k) = b.last}
<1>1. /\ b.first \in Nat \ {0} /\ b.last \in Nat /\ b.first <= b.last /\ b.last <= Len(text) /\ Len(text) \in Nat
      /\ DOMAIN text = 1 .. Len(text)
  BY DEF BlockValid, Blocks, IsEmpty, TextValid
<1>2. b.last \in S
  <2>1. b.last \in Places(b) /\ b.last \in DOMAIN text
    BY <1>1 DEF Places
  <2>2. End(text, b.last) <= b.last
    BY <2>1 DEF BlockValid
  <2>3. StatementAt(text, b.last)
    BY <2>1, PartsAreBlocks
  <2> QED
    BY <2>1, <2>2, <2>3, <1>1 DEF StatementAt
<1>3. S \in SUBSET Nat
  BY <1>1 DEF Places
<1>4. \E n \in S : \A m \in S : n <= m
  BY <1>2, <1>3, LeastNatural
<1>5. Min(S) \in S /\ \A m \in S : Min(S) <= m
  <2> HIDE DEF S
  <2> QED
    BY <1>4 DEF Min
<1>6. LastOf(text, b) = Min(S)
  BY DEF LastOf
<1> HIDE DEF S
<1>7. LastOf(text, b) \in S /\ \A m \in S : LastOf(text, b) <= m
  BY <1>5, <1>6
<1> QED
  BY <1>7 DEF S

LEMMA FinishingIsLocal ==
  ASSUME NEW text, TextValid(text), NEW k \in DOMAIN text, NEW f, NEW g, \A m \in DOMAIN text : m > k => f[m] = g[m]
  PROVE  Finishing(text, f, k) = Finishing(text, g, k)
<1> DEFINE s == text[k]
<1>1. \A j \in DOMAIN s.parts : Closes(text, f, s.parts[j]) = Closes(text, g, s.parts[j])
  <2>1. ASSUME NEW j \in DOMAIN s.parts, ~IsEmpty(s.parts[j]) PROVE f[LastOf(text, s.parts[j])] = g[LastOf(text, s.parts[j])]
    <3>1. BlockValid(text, s.parts[j]) /\ s.parts[j].first > k
      BY PartsAreBlocks
    <3>2. LastOf(text, s.parts[j]) \in Places(s.parts[j])
      BY <2>1, <3>1, LastOfBlock
    <3>3. LastOf(text, s.parts[j]) \in DOMAIN text /\ LastOf(text, s.parts[j]) > k
      BY <3>1, <3>2 DEF BlockValid, Blocks, Places, TextValid
    <3> QED
      BY <3>3
  <2> QED
    BY <2>1 DEF Closes
<1>2. /\ s.kind = "if" => {1, 2} \subseteq DOMAIN s.parts
      /\ s.kind = "try" => {1, Len(s.parts) - 1, Len(s.parts)} \subseteq DOMAIN s.parts /\ Handlers(s) \subseteq DOMAIN s.parts
  BY ParametersInKinds
<1> HIDE DEF s
<1>3. CASE s.kind \in {"return", "raise"}
  BY <1>3 DEF Finishing, s
<1>4. CASE s.kind = "if"
  <2>1. /\ Finishing(text, f, k) = (Closes(text, f, s.parts[1]) /\ Closes(text, f, s.parts[2]))
        /\ Finishing(text, g, k) = (Closes(text, g, s.parts[1]) /\ Closes(text, g, s.parts[2]))
    BY <1>4 DEF Finishing, s
  <2> QED
    BY <1>1, <1>2, <1>4, <2>1
<1>5. CASE s.kind = "match"
  <2>1. /\ Finishing(text, f, k) = (s.default /\ \A j \in DOMAIN s.parts : Closes(text, f, s.parts[j]))
        /\ Finishing(text, g, k) = (s.default /\ \A j \in DOMAIN s.parts : Closes(text, g, s.parts[j]))
    BY <1>5 DEF Finishing, s
  <2>2. (\A j \in DOMAIN s.parts : Closes(text, f, s.parts[j])) = (\A j \in DOMAIN s.parts : Closes(text, g, s.parts[j]))
    BY <1>1
  <2> QED
    BY <2>1, <2>2
<1>6. CASE s.kind = "try"
  <2> DEFINE alternative == IF IsEmpty(Else(s)) THEN s.parts[1] ELSE Else(s)
  <2>1. /\ Finishing(text, f, k) = (\/ Closes(text, f, Final(s))
                                    \/ Closes(text, f, alternative) /\ \A j \in Handlers(s) : Closes(text, f, s.parts[j]))
        /\ Finishing(text, g, k) = (\/ Closes(text, g, Final(s))
                                    \/ Closes(text, g, alternative) /\ \A j \in Handlers(s) : Closes(text, g, s.parts[j]))
    BY <1>6 DEF Finishing, s
  <2>2. (\A j \in Handlers(s) : Closes(text, f, s.parts[j])) = (\A j \in Handlers(s) : Closes(text, g, s.parts[j]))
    BY <1>1, <1>2, <1>6
  <2>3. /\ Closes(text, f, Final(s)) = Closes(text, g, Final(s))
        /\ Closes(text, f, alternative) = Closes(text, g, alternative)
    BY <1>1, <1>2, <1>6 DEF Final, Else
  <2> QED
    BY <2>1, <2>2, <2>3
<1>7. CASE s.kind \notin {"return", "raise", "if", "match", "try"}
  BY <1>7 DEF Finishing, s
<1> QED
  BY <1>3, <1>4, <1>5, <1>6, <1>7

LEMMA StatementTerminatesUnfolds ==
  ASSUME NEW text, TextValid(text)
  PROVE  \A k \in DOMAIN text : StatementTerminates(text)[k] = Finishing(text, StatementTerminates(text), k)
<1> DEFINE N == Len(text)
           After(m) == {k \in DOMAIN text : k > N - m}
           Unfolded(g, m) == g = [k \in After(m) |-> Finishing(text, g, k)]
           G == {m \in Nat : \E g : Unfolded(g, m)}
<1>1. N \in Nat /\ DOMAIN text = 1 .. N
  BY DEF TextValid
<1>2. StatementTerminates(text) = CHOOSE g : g = [k \in DOMAIN text |-> Finishing(text, g, k)]
  BY DEF StatementTerminates, Finishing, Closes
<1>3. \A k \in DOMAIN text : \A g, h :
        (\A c \in DOMAIN text : c > k => g[c] = h[c]) => Finishing(text, g, k) = Finishing(text, h, k)
  BY FinishingIsLocal
<1> HIDE DEF N
<1>4. 0 \in G
  <2>1. After(0) = {}
    BY <1>1
  <2>2. Unfolded([k \in {} |-> TRUE], 0)
    BY <2>1
  <2> QED
    BY <2>2
<1>5. ASSUME NEW m \in 0 .. N - 1, m \in G PROVE m + 1 \in G
  <2>1. PICK g : Unfolded(g, m)
    BY <1>5
  <2> DEFINE h == [k \in After(m + 1) |-> Finishing(text, g, k)]
  <2>2. \A c \in After(m) : c \in After(m + 1) /\ g[c] = Finishing(text, g, c)
    BY <2>1, <1>1
  <2>3. \A c \in After(m) : h[c] = g[c]
    BY <2>2
  <2>4. h = [k \in After(m + 1) |-> h[k]] /\ \A k \in After(m + 1) : h[k] = Finishing(text, g, k)
    OBVIOUS
  <2> HIDE DEF h
  <2>5. ASSUME NEW k \in After(m + 1) PROVE h[k] = Finishing(text, h, k)
    <3>1. k \in DOMAIN text /\ \A c \in DOMAIN text : c > k => g[c] = h[c]
      BY <1>1, <2>3
    <3>2. Finishing(text, g, k) = Finishing(text, h, k)
      BY <1>3, <3>1
    <3> QED
      BY <2>4, <3>2
  <2>6. Unfolded(h, m + 1)
    BY <2>4, <2>5
  <2> QED
    BY <2>6
<1>6. N \in G
  <2> HIDE DEF G
  <2> QED
    <3>1. N \in Nat
      BY <1>1
    <3> QED
      BY <3>1, <1>4, <1>5, InductionUpTo
<1>7. After(N) = DOMAIN text
  BY <1>1
<1>8. \E g : g = [k \in DOMAIN text |-> Finishing(text, g, k)]
  BY <1>6, <1>7
<1> DEFINE t == StatementTerminates(text)
<1>9. t = [k \in DOMAIN text |-> Finishing(text, t, k)]
  BY <1>2, <1>8
<1> HIDE DEF t
<1>10. \A k \in DOMAIN text : t[k] = Finishing(text, t, k)
  BY <1>9
<1> QED
  BY <1>10 DEF t

LEMMA EndOfStatement ==
  ASSUME NEW text, TextValid(text), NEW k \in DOMAIN text
  PROVE  k \in Nat /\ End(text, k) \in Nat /\ k <= End(text, k) /\ End(text, k) <= Len(text) /\ Len(text) \in Nat
<1>1. StatementAt(text, k)
  BY PartsAreBlocks
<1>2. Len(text) \in Nat /\ k \in Nat
  BY DEF TextValid
<1>3. End(text, k) \in k .. Len(text)
  BY <1>1 DEF StatementAt
<1> QED
  BY <1>1, <1>2, <1>3

(* A block and what follows its first statement.                            *)
LEMMA BlockSplits ==
  ASSUME NEW text, TextValid(text), NEW b, BlockValid(text, b), ~IsEmpty(b)
  PROVE  LET k == b.first
             rest == Rest(text, b)
         IN  /\ k \in DOMAIN text /\ k \in Nat /\ b \in Blocks(text)
             /\ BlockValid(text, rest) /\ rest \in Blocks(text) /\ rest.first > k /\ rest.first = End(text, k) + 1
             /\ rest.first \in Nat /\ rest.last = b.last /\ End(text, k) \in Nat
             /\ \A m \in Places(b) : m \in Nat /\ (m \in Places(Span(text, k)) \/ m \in Places(rest))
             /\ Places(Span(text, k)) \subseteq Places(b) /\ Places(rest) \subseteq Places(b)
             /\ \A m \in Places(Span(text, k)) : \A n \in Places(rest) : m < n
             /\ \A m \in Places(Span(text, k)) : m <= End(text, k)
             /\ (IsEmpty(rest) => b.last = End(text, k))
<1> DEFINE k == b.first
           rest == Rest(text, b)
<1>1. k \in DOMAIN text /\ k \in Nat \ {0} /\ b \in Blocks(text) /\ b.last \in Nat /\ k <= b.last
  BY RestIsBlock DEF BlockValid, Blocks, TextValid, IsEmpty
<1>2. rest \in Blocks(text) /\ BlockValid(text, rest) /\ rest.first > k
  BY <1>1, RestIsBlock DEF Rest, Block
<1>3. rest.first = End(text, k) + 1 /\ rest.last = b.last
  BY DEF Rest, Block
<1>4. StatementAt(text, k)
  BY <1>1, PartsAreBlocks
<1>5. End(text, k) \in Nat /\ k <= End(text, k) /\ End(text, k) <= b.last
  <2>1. End(text, k) \in k .. Len(text) /\ Len(text) \in Nat
    BY <1>4 DEF StatementAt, TextValid
  <2>2. k \in Places(b)
    BY <1>1 DEF Places
  <2> QED
    BY <2>1, <2>2, <1>1 DEF BlockValid
<1>6. Places(Span(text, k)) = k .. End(text, k) /\ Places(rest) = End(text, k) + 1 .. b.last /\ Places(b) = k .. b.last
  BY <1>3 DEF Places, Span, Block
<1>7. IsEmpty(rest) => b.last = End(text, k)
  BY <1>1, <1>3, <1>5 DEF IsEmpty
<1> HIDE DEF k, rest
<1>8. /\ \A m \in Places(b) : m \in Nat /\ (m \in Places(Span(text, k)) \/ m \in Places(rest))
      /\ Places(Span(text, k)) \subseteq Places(b) /\ Places(rest) \subseteq Places(b)
      /\ \A m \in Places(Span(text, k)) : \A n \in Places(rest) : m < n
      /\ \A m \in Places(Span(text, k)) : m <= End(text, k)
  BY <1>1, <1>5, <1>6
<1> QED
  BY <1>1, <1>2, <1>3, <1>5, <1>7, <1>8 DEF k, rest

LEMMA SpanTerminates ==
  ASSUME NEW text, TextValid(text), NEW k \in DOMAIN text
  PROVE  Terminates(text, Span(text, k)) = Finishing(text, StatementTerminates(text), k)
<1>1. BlockValid(text, Span(text, k)) /\ ~IsEmpty(Span(text, k)) /\ k \in Places(Span(text, k)) /\ k \in Nat
  BY SpanIsBlock
<1>2. LastOf(text, Span(text, k)) = k
  <2>1. Span(text, k).last = End(text, k) /\ Span(text, k).first = k
    BY DEF Span, Block
  <2>2. LastOf(text, Span(text, k)) \in Places(Span(text, k)) /\ LastOf(text, Span(text, k)) <= k
    BY <1>1, <2>1, LastOfBlock
  <2>3. LastOf(text, Span(text, k)) >= k /\ LastOf(text, Span(text, k)) \in Nat
    BY <1>1, <2>1, <2>2 DEF Places
  <2> QED
    BY <1>1, <2>2, <2>3
<1>3. Terminates(text, Span(text, k)) = StatementTerminates(text)[k]
  <2>1. Finishing(text, StatementTerminates(text), k) \in BOOLEAN
    <3>1. StatementAt(text, k)
      BY PartsAreBlocks
    <3> QED
      BY <3>1 DEF Finishing, StatementAt
  <2>2. StatementTerminates(text)[k] \in BOOLEAN
    BY <2>1, StatementTerminatesUnfolds
  <2> QED
    BY <1>1, <1>2, <2>2 DEF Terminates
<1> QED
  BY <1>3, StatementTerminatesUnfolds

LEMMA BlockTerminates ==
  ASSUME NEW text, TextValid(text), NEW b, BlockValid(text, b), ~IsEmpty(b)
  PROVE  /\ IsEmpty(Rest(text, b)) => Span(text, b.first) = b
         /\ ~IsEmpty(Rest(text, b)) => Terminates(text, b) = Terminates(text, Rest(text, b))
<1> DEFINE k == b.first
           rest == Rest(text, b)
<1>1. /\ BlockValid(text, rest) /\ rest.last = b.last /\ rest.first = End(text, k) + 1 /\ End(text, k) \in Nat
      /\ \A m \in Places(b) : m \in Nat /\ (m \in Places(Span(text, k)) \/ m \in Places(rest))
      /\ Places(rest) \subseteq Places(b) /\ \A m \in Places(Span(text, k)) : \A n \in Places(rest) : m < n
      /\ (IsEmpty(rest) => b.last = End(text, k)) /\ k \in DOMAIN text /\ b \in Blocks(text)
  BY BlockSplits
<1>2. ASSUME IsEmpty(rest) PROVE Span(text, k) = b
  <2>1. Span(text, k) = [first |-> k, last |-> b.last]
    BY <1>1, <1>2 DEF Span, Block
  <2>2. b = [first |-> b.first, last |-> b.last]
    BY <1>1 DEF Blocks
  <2> QED
    BY <2>1, <2>2
<1>3. ASSUME ~IsEmpty(rest) PROVE LastOf(text, b) = LastOf(text, rest)
  <2>1. /\ LastOf(text, b) \in Places(b) /\ End(text, LastOf(text, b)) = b.last
        /\ \A m \in Places(b) : End(text, m) = b.last => LastOf(text, b) <= m
    BY LastOfBlock
  <2>2. /\ LastOf(text, rest) \in Places(rest) /\ End(text, LastOf(text, rest)) = b.last
        /\ \A m \in Places(rest) : End(text, m) = b.last => LastOf(text, rest) <= m
    BY <1>1, <1>3, LastOfBlock
  <2>3. LastOf(text, b) \in Places(rest)
    <3>1. CASE LastOf(text, b) \in Places(Span(text, k))
      <4>1. End(text, LastOf(text, b)) <= End(text, k)
        <5>1. BlockValid(text, Span(text, k)) /\ Span(text, k).last = End(text, k)
          BY <1>1, SpanIsBlock DEF Span, Block
        <5> QED
          BY <5>1, <3>1 DEF BlockValid
      <4>2. b.last >= End(text, k) + 1 /\ b.last \in Nat
        BY <1>1, <1>3 DEF IsEmpty, Blocks
      <4> QED
        BY <4>1, <4>2, <2>1, <1>1
    <3> QED
      BY <3>1, <2>1, <1>1
  <2>4. LastOf(text, b) \in Nat /\ LastOf(text, rest) \in Nat /\ LastOf(text, b) <= LastOf(text, rest) /\ LastOf(text, rest) <= LastOf(text, b)
    BY <1>1, <2>1, <2>2, <2>3
  <2> QED
    BY <2>4
<1>4. ASSUME ~IsEmpty(rest) PROVE Terminates(text, b) = Terminates(text, rest)
  BY <1>3, <1>4 DEF Terminates
<1> QED
  BY <1>2, <1>4

(* A jump out of a part is one out of the statement, unless a loop ends it. *)
LEMMA JumpsOutOfPart ==
  ASSUME NEW text, TextValid(text), NEW k \in DOMAIN text, NEW j \in DOMAIN text[k].parts,
         text[k].kind = "loop" => j # 1, NEW kinds, JumpsOut(text, text[k].parts[j], kinds)
  PROVE  JumpsOut(text, Span(text, k), kinds)
<1>1. PICK p \in Places(text[k].parts[j]) :
        /\ text[p].kind \in kinds
        /\ \A s \in Places(text[k].parts[j]) : text[s].kind = "loop" => p \notin Places(text[s].parts[1])
  BY DEF JumpsOut
<1>2. /\ p \in Places(Span(text, k))
      /\ \A m \in Places(Span(text, k)) : m = k \/ \E i \in DOMAIN text[k].parts : m \in Places(text[k].parts[i])
      /\ \A i, h \in DOMAIN text[k].parts : \A m \in Places(text[k].parts[i]) : \A n \in Places(text[k].parts[h]) :
           i < h => m < n
      /\ \A i \in DOMAIN text[k].parts : BlockValid(text, text[k].parts[i])
      /\ DOMAIN text[k].parts \subseteq Nat
  <2>1. DOMAIN text[k].parts \subseteq Nat
    <3>1. StatementAt(text, k)
      BY PartsAreBlocks
    <3> QED
      BY <3>1 DEF StatementAt
  <2> QED
    BY <1>1, <2>1, SpanIsBlock
<1>3. \A i \in DOMAIN text[k].parts : i # j => p \notin Places(text[k].parts[i])
  <2>1. SUFFICES ASSUME NEW i \in DOMAIN text[k].parts, i # j, p \in Places(text[k].parts[i]) PROVE FALSE
    OBVIOUS
  <2>2. i < j \/ j < i
    BY <1>2, <2>1
  <2>3. p < p /\ p \in Nat
    BY <1>1, <1>2, <2>1, <2>2 DEF BlockValid, Blocks, Places
  <2> QED
    BY <2>3
<1>4. ASSUME NEW s \in Places(Span(text, k)), text[s].kind = "loop", p \in Places(text[s].parts[1]) PROVE FALSE
  <2>1. CASE s = k
    <3>1. 1 \in DOMAIN text[k].parts
      BY <1>4, <2>1, ParametersInKinds
    <3> QED
      BY <3>1, <1>3, <1>4, <2>1
  <2>2. ASSUME NEW i \in DOMAIN text[k].parts, s \in Places(text[k].parts[i]) PROVE FALSE
    <3>1. BlockValid(text, text[k].parts[i])
      BY <1>2
    <3>2. /\ s \in DOMAIN text /\ End(text, s) <= text[k].parts[i].last /\ s >= text[k].parts[i].first
          /\ text[k].parts[i].first \in Nat /\ text[k].parts[i].last \in Nat /\ s \in Nat
      BY <3>1, <2>2 DEF BlockValid, Places, Blocks, TextValid
    <3>3. 1 \in DOMAIN text[s].parts
      BY <1>4, <3>2, ParametersInKinds
    <3>4. p \in Places(Span(text, s)) \ {s}
      BY <1>4, <3>2, <3>3, SpanIsBlock
    <3>5. p > s /\ p <= End(text, s) /\ p \in Nat /\ End(text, s) \in Nat
      <4>1. StatementAt(text, s)
        BY <3>2, PartsAreBlocks
      <4>2. End(text, s) \in Nat
        BY <4>1, <3>2 DEF StatementAt, TextValid
      <4> QED
        BY <3>2, <3>4, <4>2 DEF Span, Block, Places
    <3>6. p \in Places(text[k].parts[i])
      BY <3>2, <3>5 DEF Places
    <3>7. i = j
      BY <1>3, <3>6
    <3> QED
      BY <1>1, <1>4, <2>2, <3>7
  <2> QED
    BY <2>1, <2>2, <1>2, <1>4
<1> QED
  BY <1>1, <1>2, <1>4 DEF JumpsOut

LEMMA JumpsOutOfBlock ==
  ASSUME NEW text, TextValid(text), NEW b, BlockValid(text, b), ~IsEmpty(b), NEW kinds,
         JumpsOut(text, Span(text, b.first), kinds) \/ JumpsOut(text, Rest(text, b), kinds)
  PROVE  JumpsOut(text, b, kinds)
<1> DEFINE k == b.first
           rest == Rest(text, b)
<1>1. /\ \A m \in Places(b) : m \in Nat /\ (m \in Places(Span(text, k)) \/ m \in Places(rest))
      /\ Places(Span(text, k)) \subseteq Places(b) /\ Places(rest) \subseteq Places(b)
      /\ \A m \in Places(Span(text, k)) : \A n \in Places(rest) : m < n
      /\ k \in DOMAIN text /\ BlockValid(text, rest)
  BY BlockSplits
<1> HIDE DEF k, rest
<1>2. ASSUME NEW c \in {Span(text, k), rest}, NEW p \in Places(c), text[p].kind \in kinds,
             \A s \in Places(c) : text[s].kind = "loop" => p \notin Places(text[s].parts[1])
      PROVE  \A s \in Places(b) : text[s].kind = "loop" => p \notin Places(text[s].parts[1])
  <2>1. SUFFICES ASSUME NEW s \in Places(b), text[s].kind = "loop", p \in Places(text[s].parts[1]), s \notin Places(c) PROVE FALSE
    BY <1>2
  <2>2. s \in Nat /\ p \in Nat /\ BlockValid(text, Span(text, k)) /\ s \in DOMAIN text
    <3>1. s \in DOMAIN text
      BY <2>1 DEF BlockValid, Blocks, Places, TextValid
    <3> QED
      BY <1>1, <1>2, <3>1, SpanIsBlock
  <2>3. p \in Places(Span(text, s)) \ {s}
    <3>1. 1 \in DOMAIN text[s].parts
      BY <2>1, <2>2, ParametersInKinds
    <3> QED
      BY <2>1, <2>2, <3>1, SpanIsBlock
  <2>4. p > s /\ p <= End(text, s) /\ End(text, s) \in Nat
    <3>2. End(text, s) \in Nat
      BY <2>2, EndOfStatement
    <3> QED
      BY <2>2, <2>3, <3>2 DEF Span, Block, Places
  <2>5. CASE c = rest
    <3>1. s \in Places(Span(text, k)) /\ p \in Places(rest)
      BY <1>1, <1>2, <2>1, <2>5
    <3>2. End(text, s) <= End(text, k) /\ End(text, k) \in Nat
      <4>1. End(text, k) \in Nat
        BY <1>1, EndOfStatement
      <4> QED
        BY <4>1, <3>1, <2>2 DEF BlockValid, Span, Block
    <3>3. p >= End(text, k) + 1
      BY <3>1 DEF rest, Rest, Block, Places, k
    <3> QED
      BY <2>2, <2>4, <3>2, <3>3
  <2>6. CASE c = Span(text, k)
    <3>1. s \in Places(rest) /\ p \in Places(Span(text, k))
      BY <1>1, <1>2, <2>1, <2>6
    <3>2. p < s
      BY <3>1, <1>1
    <3> QED
      BY <3>2, <2>2, <2>4
  <2> QED
    BY <2>5, <2>6, <1>2
<1>3. \A c \in {Span(text, k), rest} : JumpsOut(text, c, kinds) => JumpsOut(text, b, kinds)
  <2>1. SUFFICES ASSUME NEW c \in {Span(text, k), rest}, JumpsOut(text, c, kinds) PROVE JumpsOut(text, b, kinds)
    OBVIOUS
  <2>2. PICK p \in Places(c) :
          /\ text[p].kind \in kinds
          /\ \A s \in Places(c) : text[s].kind = "loop" => p \notin Places(text[s].parts[1])
    BY <2>1 DEF JumpsOut
  <2>3. p \in Places(b)
    BY <1>1
  <2> QED
    BY <1>2, <2>2, <2>3 DEF JumpsOut
<1> QED
  BY <1>3 DEF k, rest

(* How a block is left after an execution.                                  *)
Leaves(text, b, o) ==
  /\ o.exit = "next" => ~Terminates(text, b)
  /\ o.exit = "return" => MayReturn(text, b)
  /\ o.exit \in {"break", "continue"} => JumpsOut(text, b, {o.exit})

PartsLeave(text, run, k) ==
  \A j \in DOMAIN text[k].parts : \A d \in SUBSET DOMAIN text : \A o \in run[text[k].parts[j]][d] :
    o.done \in SUBSET DOMAIN text /\ o.exit \in Exits /\ Leaves(text, text[k].parts[j], o)

LEMMA MayReturnOfPart ==
  ASSUME NEW text, TextValid(text), NEW k \in DOMAIN text, NEW j \in DOMAIN text[k].parts, MayReturn(text, text[k].parts[j])
  PROVE  MayReturn(text, Span(text, k))
<1>1. Places(text[k].parts[j]) \subseteq Places(Span(text, k))
  BY SpanIsBlock
<1> QED
  BY <1>1 DEF MayReturn

(* What leaves a compound statement otherwise than at its end leaves one of *)
(* its parts, and not the body of a loop by a jump.                         *)
LEMMA LeavesOfPart ==
  ASSUME NEW text, TextValid(text), NEW k \in DOMAIN text, NEW j \in DOMAIN text[k].parts,
         NEW o, Leaves(text, text[k].parts[j], o), o.exit # "next",
         text[k].kind = "loop" /\ o.exit \in {"break", "continue"} => j # 1
  PROVE  Leaves(text, Span(text, k), o)
<1>1. o.exit = "return" => MayReturn(text, Span(text, k))
  BY MayReturnOfPart DEF Leaves
<1>2. o.exit \in {"break", "continue"} => JumpsOut(text, Span(text, k), {o.exit})
  BY JumpsOutOfPart DEF Leaves
<1> QED
  BY <1>1, <1>2 DEF Leaves

LEMMA LeavesByExit ==
  ASSUME NEW text, NEW b, NEW o, NEW m, o.exit = m.exit, Leaves(text, b, m)
  PROVE  Leaves(text, b, o)
BY DEF Leaves

LEMMA InnerLeaves ==
  ASSUME NEW world, NEW text, TextValid(text), WorldValid(world, text), NEW k \in DOMAIN text, NEW run,
         PartsLeave(text, run, k), text[k].kind \in {"if", "match", "loop", "with", "try"},
         NEW d \in SUBSET DOMAIN text, NEW m \in Inner(world, text[k], k, run, d)
  PROVE  Leaves(text, Span(text, k), m)
<1> DEFINE s == text[k]
           terminates == StatementTerminates(text)
<1>1. /\ s.kind = "if" => DOMAIN s.parts = {1, 2}
      /\ s.kind = "with" => 1 \in DOMAIN s.parts
      /\ s.kind = "loop" => {1, 2} \subseteq DOMAIN s.parts
      /\ s.kind = "try" => {1, Len(s.parts) - 1, Len(s.parts)} \subseteq DOMAIN s.parts /\ Handlers(s) \subseteq DOMAIN s.parts
  BY ParametersInKinds
<1>2. Terminates(text, Span(text, k)) = Finishing(text, terminates, k)
  BY SpanTerminates
<1>3. \A b : Closes(text, terminates, b) = Terminates(text, b)
  BY DEF Closes, Terminates
<1>4. \A o : Leaves(text, Span(text, k), o) <=>
         /\ o.exit = "next" => ~Finishing(text, terminates, k)
         /\ o.exit # "next" => Leaves(text, Span(text, k), o)
  BY <1>2 DEF Leaves
<1> HIDE DEF terminates
<1>5. CASE s.kind = "if"
  <2>1. PICK j \in DOMAIN s.parts : m \in run[s.parts[j]][d]
    BY <1>5, BranchOutcomes
  <2>2. Leaves(text, s.parts[j], m)
    BY <2>1 DEF PartsLeave
  <2>3. m.exit = "next" => ~Finishing(text, terminates, k)
    <3>1. m.exit = "next" => ~Closes(text, terminates, s.parts[j])
      BY <1>3, <2>2 DEF Leaves
    <3>2. Finishing(text, terminates, k) => Closes(text, terminates, s.parts[1]) /\ Closes(text, terminates, s.parts[2])
      BY <1>5 DEF Finishing
    <3> QED
      BY <1>1, <1>5, <3>1, <3>2
  <2>4. m.exit # "next" => Leaves(text, Span(text, k), m)
    BY <1>5, <2>2, LeavesOfPart
  <2> QED
    BY <1>4, <2>3, <2>4
<1>6. CASE s.kind = "match"
  <2>1. \/ m = Outcome(d, {}, {}, "next") /\ ~s.default
        \/ \E j \in DOMAIN s.parts : m \in run[s.parts[j]][d]
    BY <1>6, BranchOutcomes
  <2>2. Finishing(text, terminates, k) => s.default /\ \A j \in DOMAIN s.parts : Closes(text, terminates, s.parts[j])
    BY <1>6 DEF Finishing
  <2>3. ASSUME NEW j \in DOMAIN s.parts, m \in run[s.parts[j]][d] PROVE Leaves(text, Span(text, k), m)
    <3>1. Leaves(text, s.parts[j], m)
      BY <2>3 DEF PartsLeave
    <3>2. m.exit = "next" => ~Finishing(text, terminates, k)
      BY <1>3, <2>2, <3>1 DEF Leaves
    <3>3. m.exit # "next" => Leaves(text, Span(text, k), m)
      BY <1>6, <3>1, LeavesOfPart
    <3> QED
      BY <1>4, <3>2, <3>3
  <2>4. ASSUME m = Outcome(d, {}, {}, "next"), ~s.default PROVE Leaves(text, Span(text, k), m)
    <3>1. m.exit = "next"
      BY <2>4 DEF Outcome
    <3> QED
      BY <1>4, <2>2, <2>4, <3>1
  <2> QED
    BY <2>1, <2>3, <2>4
<1>7. CASE s.kind = "with"
  <2>1. Leaves(text, s.parts[1], m)
    <3>1. m \in run[s.parts[1]][d]
      BY <1>7 DEF Inner
    <3> QED
      BY <1>1, <1>7, <3>1 DEF PartsLeave
  <2>2. ~Finishing(text, terminates, k)
    BY <1>7 DEF Finishing
  <2>3. m.exit # "next" => Leaves(text, Span(text, k), m)
    BY <1>1, <1>7, <2>1, LeavesOfPart
  <2> QED
    BY <1>4, <2>2, <2>3
<1>8. CASE s.kind = "loop"
  <2>1. ~Finishing(text, terminates, k)
    BY <1>8 DEF Finishing
  <2>2. \A e \in SUBSET DOMAIN text : \A n \in run[s.parts[2]][e] : n.exit # "next" => Leaves(text, Span(text, k), n)
    <3>1. \A e \in SUBSET DOMAIN text : \A n \in run[s.parts[2]][e] : Leaves(text, s.parts[2], n)
      BY <1>1, <1>8 DEF PartsLeave
    <3> QED
      BY <1>1, <1>8, <3>1, LeavesOfPart
  <2>3. \/ m \in run[s.parts[2]][d]
        \/ \E t \in run[s.parts[1]][d] :
             \/ t.exit = "break" /\ m = [t EXCEPT !.exit = "next"]
             \/ t.exit \notin {"break", "next", "continue"} /\ m = t
             \/ /\ t.exit \in {"next", "continue"}
                /\ \E n \in run[s.parts[2]][t.done] : m = Joined(t, n, n.exit)
    BY <1>8, LoopOutcomes
  <2>4. ASSUME NEW t \in run[s.parts[1]][d], m = [t EXCEPT !.exit = "next"], t.exit = "break" PROVE m.exit = "next" \/ m.exit = t.exit
    BY <2>4
  <2>5. \A t \in run[s.parts[1]][d] : t.done \in SUBSET DOMAIN text /\ Leaves(text, s.parts[1], t)
    BY <1>1, <1>8 DEF PartsLeave
  <2>6. m.exit # "next" => Leaves(text, Span(text, k), m)
    <3>1. CASE m \in run[s.parts[2]][d]
      BY <2>2, <3>1
    <3>2. ASSUME NEW t \in run[s.parts[1]][d], t.exit = "break", m = [t EXCEPT !.exit = "next"], m.exit # "next" PROVE FALSE
      BY <3>2
    <3>3. ASSUME NEW t \in run[s.parts[1]][d], t.exit \notin {"break", "next", "continue"}, m = t
          PROVE  Leaves(text, Span(text, k), m)
      BY <1>1, <1>8, <2>5, <3>3, LeavesOfPart
    <3>4. ASSUME NEW t \in run[s.parts[1]][d], NEW n \in run[s.parts[2]][t.done], m = Joined(t, n, n.exit), m.exit # "next"
          PROVE  Leaves(text, Span(text, k), m)
      <4>1. m.exit = n.exit
        BY <3>4, JoinedFields
      <4> QED
        BY <2>2, <2>5, <3>4, <4>1, LeavesByExit
    <3> QED
      BY <2>3, <3>1, <3>2, <3>3, <3>4
  <2> QED
    BY <1>4, <2>1, <2>6
<1>9. CASE s.kind = "try"
  <2> DEFINE P == {1, Len(s.parts) - 1, Len(s.parts)} \cup Handlers(s)
  <2>1. \A j \in P : \A e \in SUBSET DOMAIN text : \A o \in run[s.parts[j]][e] :
          o.done \in SUBSET DOMAIN text /\ Leaves(text, s.parts[j], o) /\ (o.exit # "next" => Leaves(text, Span(text, k), o))
    <3>1. P \subseteq DOMAIN s.parts
      BY <1>1, <1>9
    <3> HIDE DEF P
    <3>2. \A j \in P : \A e \in SUBSET DOMAIN text : \A o \in run[s.parts[j]][e] : o.done \in SUBSET DOMAIN text /\ Leaves(text, s.parts[j], o)
      BY <3>1 DEF PartsLeave
    <3> QED
      BY <1>9, <3>1, <3>2, LeavesOfPart
  <2>2. /\ \A e \in SUBSET DOMAIN text : \A o \in run[s.parts[1]][e] :
             o.done \in SUBSET DOMAIN text /\ Leaves(text, s.parts[1], o) /\ (o.exit # "next" => Leaves(text, Span(text, k), o))
        /\ \A e \in SUBSET DOMAIN text : \A o \in run[Else(s)][e] :
             o.done \in SUBSET DOMAIN text /\ Leaves(text, Else(s), o) /\ (o.exit # "next" => Leaves(text, Span(text, k), o))
        /\ \A e \in SUBSET DOMAIN text : \A o \in run[Final(s)][e] :
             o.done \in SUBSET DOMAIN text /\ Leaves(text, Final(s), o) /\ (o.exit # "next" => Leaves(text, Span(text, k), o))
        /\ \A j \in Handlers(s) : \A e \in SUBSET DOMAIN text : \A o \in run[s.parts[j]][e] :
             o.done \in SUBSET DOMAIN text /\ Leaves(text, s.parts[j], o) /\ (o.exit # "next" => Leaves(text, Span(text, k), o))
    BY <2>1 DEF Else, Final
  <2>3. PICK x, f : LeftTry(s, run, d, x) /\ f \in run[Final(s)][x.done] /\ m = Joined(x, f, IF f.exit = "next" THEN x.exit ELSE f.exit)
    BY <1>9, TryOutcomes
  <2> DEFINE alternative == IF IsEmpty(Else(s)) THEN s.parts[1] ELSE Else(s)
             Tame(y) == /\ y.done \in SUBSET DOMAIN text
                        /\ y.exit # "next" => Leaves(text, Span(text, k), y)
                        /\ y.exit = "next" => \/ ~Terminates(text, alternative)
                                              \/ \E j \in Handlers(s) : ~Terminates(text, s.parts[j])
  <2>4. Tame(x)
    <3>1. PICK t \in run[s.parts[1]][d] :
            \/ x = t /\ t.exit # "next"
            \/ t.exit = "next" /\ \E n \in run[Else(s)][t.done] : x = Joined(t, n, n.exit)
            \/ t.exit = "raise" /\ \E j \in Handlers(s) : \E n \in run[s.parts[j]][t.done] : x = Joined(t, n, n.exit)
      BY <2>3 DEF LeftTry
    <3>2. t.done \in SUBSET DOMAIN text /\ Leaves(text, s.parts[1], t) /\ (t.exit # "next" => Leaves(text, Span(text, k), t))
      BY <2>2
    <3>3. CASE x = t /\ t.exit # "next"
      BY <3>2, <3>3
    <3>4. ASSUME t.exit = "next", NEW n \in run[Else(s)][t.done], x = Joined(t, n, n.exit) PROVE Tame(x)
      <4>1. n.done \in SUBSET DOMAIN text /\ Leaves(text, Else(s), n) /\ (n.exit # "next" => Leaves(text, Span(text, k), n))
        BY <2>2, <3>2
      <4>2. x.exit = n.exit /\ x.done = n.done
        BY <3>4, JoinedFields
      <4>3. n.exit = "next" => ~Terminates(text, alternative)
        BY <3>2, <3>4, <4>1 DEF Leaves
      <4> HIDE DEF alternative
      <4> QED
        BY <4>1, <4>2, <4>3, LeavesByExit
    <3>5. ASSUME NEW j \in Handlers(s), NEW n \in run[s.parts[j]][t.done], x = Joined(t, n, n.exit) PROVE Tame(x)
      <4>1. n.done \in SUBSET DOMAIN text /\ Leaves(text, s.parts[j], n) /\ (n.exit # "next" => Leaves(text, Span(text, k), n))
        BY <2>2, <3>2
      <4>2. x.exit = n.exit /\ x.done = n.done
        BY <3>5, JoinedFields
      <4>3. n.exit = "next" => ~Terminates(text, s.parts[j])
        BY <4>1 DEF Leaves
      <4> HIDE DEF alternative
      <4> QED
        BY <4>1, <4>2, <4>3, LeavesByExit
    <3> HIDE DEF alternative, Tame
    <3> QED
      BY <3>1, <3>3, <3>4, <3>5
  <2>5. f.done \in SUBSET DOMAIN text /\ Leaves(text, Final(s), f) /\ (f.exit # "next" => Leaves(text, Span(text, k), f))
    BY <2>2, <2>3, <2>4
  <2>6. m.exit = IF f.exit = "next" THEN x.exit ELSE f.exit
    BY <2>3, JoinedFields
  <2>7. Finishing(text, terminates, k) =>
          \/ Terminates(text, Final(s))
          \/ Terminates(text, alternative) /\ \A j \in Handlers(s) : Terminates(text, s.parts[j])
    <3> HIDE DEF alternative
    <3>1. Finishing(text, terminates, k) =
            (\/ Closes(text, terminates, Final(s))
             \/ Closes(text, terminates, alternative) /\ \A j \in Handlers(s) : Closes(text, terminates, s.parts[j]))
      BY <1>9 DEF Finishing, alternative
    <3> QED
      BY <1>3, <3>1
  <2> HIDE DEF alternative
  <2>8. m.exit = "next" => ~Finishing(text, terminates, k)
    <3>1. m.exit = "next" => ~Terminates(text, Final(s))
      BY <2>5, <2>6 DEF Leaves
    <3> QED
      BY <2>4, <2>6, <2>7, <3>1
  <2>9. m.exit # "next" => Leaves(text, Span(text, k), m)
    BY <2>4, <2>5, <2>6, LeavesByExit
  <2> QED
    BY <1>4, <2>8, <2>9
<1> QED
  BY <1>5, <1>6, <1>7, <1>8, <1>9

LEMMA StatementLeaves ==
  ASSUME NEW world, NEW text, NEW base, NEW run, Runs(world, text, base, run), NEW k \in DOMAIN text,
         PartsLeave(text, run, k), NEW d \in SUBSET DOMAIN text, NEW o \in One(world, text, k, run, d)
  PROVE  Leaves(text, Span(text, k), o)
<1>1. TextValid(text) /\ WorldValid(world, text)
  BY DEF Runs
<1>2. \A m : m.exit = "raise" => Leaves(text, Span(text, k), m)
  BY DEF Leaves
<1>3. Leaves(text, Span(text, k), Fails(k, d))
  BY <1>2, FailsFields
<1>4. CASE text[k].kind \in {"if", "match", "loop", "with", "try"}
  <2>1. \/ o = Fails(k, d)
        \/ \E m \in Inner(world, text[k], k, run, d \cup {k}) : o = Entering(k, d, m)
    BY <1>1, <1>4, CompoundOutcomes
  <2>2. \A m : Entering(k, d, m).exit = m.exit
    BY JoinedFields DEF Entering
  <2>3. \A m \in Inner(world, text[k], k, run, d \cup {k}) : Leaves(text, Span(text, k), m)
    BY <1>1, <1>4, InnerLeaves
  <2> QED
    BY <1>3, <2>1, <2>2, <2>3, LeavesByExit
<1>5. CASE text[k].kind \notin {"if", "match", "loop", "with", "try"}
  <2>1. text[k].kind \in {"call", "return", "raise", "break", "continue"}
    <3>1. StatementAt(text, k)
      BY <1>1, PartsAreBlocks
    <3> QED
      BY <3>1, <1>5 DEF StatementAt, StatementKinds
  <2>2. \/ o = Fails(k, d)
        \/ text[k].kind = "call" /\ o = Ends(k, d, "next")
        \/ text[k].kind \in {"return", "break", "continue"} /\ o = Ends(k, d, text[k].kind)
        \/ text[k].kind = "call" /\ CallOutcome(world, k, d, o)
    BY <1>1, <2>1, PlainOutcomes
  <2>3. ASSUME text[k].kind = "call" PROVE ~Terminates(text, Span(text, k))
    <3>1. ~Finishing(text, StatementTerminates(text), k)
      BY <2>3 DEF Finishing
    <3> QED
      BY <1>1, <3>1, SpanTerminates
  <2>4. ASSUME text[k].kind = "call", o = Ends(k, d, "next") PROVE Leaves(text, Span(text, k), o)
    <3>1. o.exit = "next"
      BY <2>4, EndsFields
    <3> QED
      BY <2>3, <2>4, <3>1 DEF Leaves
  <2>5. ASSUME text[k].kind \in {"return", "break", "continue"}, o = Ends(k, d, text[k].kind) PROVE Leaves(text, Span(text, k), o)
    <3>1. o.exit = text[k].kind
      BY <2>5, EndsFields
    <3>2. k \in Places(Span(text, k))
      BY <1>1, SpanIsBlock
    <3>3. ASSUME text[k].kind \in {"break", "continue"} PROVE JumpsOut(text, Span(text, k), {text[k].kind})
      <4>1. \A s \in Places(Span(text, k)) : s = k
        <5>1. StatementAt(text, k)
          BY <1>1, PartsAreBlocks
        <5>2. Len(text[k].parts) = 0
          BY <5>1, <3>3 DEF StatementAt, Arity
        <5>3. DOMAIN text[k].parts = {}
          BY <5>1, <5>2 DEF StatementAt
        <5> QED
          BY <1>1, <5>3, SpanIsBlock
      <4> QED
        BY <3>2, <3>3, <4>1 DEF JumpsOut
    <3>4. text[k].kind = "return" => MayReturn(text, Span(text, k))
      BY <3>2 DEF MayReturn
    <3> QED
      BY <2>5, <3>1, <3>3, <3>4 DEF Leaves
  <2>6. ASSUME text[k].kind = "call", CallOutcome(world, k, d, o) PROVE Leaves(text, Span(text, k), o)
    <3>1. PICK n \in world.calls[k][d] :
            \/ n.exit \notin {"next", "return"} /\ o = n
            \/ o = Outcome(n.done \cup {k}, n.early \cup Begun(k, d), n.failed, "next")
      BY <2>6 DEF CallOutcome
    <3>2. n.exit \in {"next", "return", "raise"}
      BY <2>6 DEF Runs, CallsStay, CallOutcome
    <3>3. o.exit = "raise" \/ o.exit = "next"
      BY <3>1, <3>2 DEF Outcome
    <3> QED
      BY <1>2, <2>3, <2>6, <3>3 DEF Leaves
  <2> QED
    BY <1>3, <2>2, <2>4, <2>5, <2>6
<1> QED
  BY <1>4, <1>5

LEMMA SequenceLeaves ==
  ASSUME NEW text, TextValid(text), NEW b, BlockValid(text, b), ~IsEmpty(b), NEW o, NEW n,
         Leaves(text, Span(text, b.first), o),
         o.exit = "next" => Leaves(text, Rest(text, b), n) /\ (IsEmpty(Rest(text, b)) => n.exit = "next")
  PROVE  /\ o.exit # "next" => Leaves(text, b, o)
         /\ o.exit = "next" => Leaves(text, b, n)
<1> DEFINE c == Span(text, b.first)
           rest == Rest(text, b)
<1>1. \A kinds : JumpsOut(text, c, kinds) \/ JumpsOut(text, rest, kinds) => JumpsOut(text, b, kinds)
  BY JumpsOutOfBlock
<1>2. MayReturn(text, c) \/ MayReturn(text, rest) => MayReturn(text, b)
  <2>1. Places(c) \subseteq Places(b) /\ Places(rest) \subseteq Places(b)
    BY BlockSplits
  <2> QED
    BY <2>1 DEF MayReturn
<1>3. (IsEmpty(rest) => c = b) /\ (~IsEmpty(rest) => Terminates(text, b) = Terminates(text, rest))
  BY BlockTerminates
<1> HIDE DEF c, rest
<1>4. ASSUME o.exit # "next" PROVE Leaves(text, b, o)
  BY <1>1, <1>2, <1>4 DEF Leaves, c
<1>5. ASSUME o.exit = "next", n.exit = "next" PROVE ~Terminates(text, b)
  <2>1. CASE IsEmpty(rest)
    BY <1>3, <1>5, <2>1 DEF Leaves, c
  <2>2. CASE ~IsEmpty(rest)
    BY <1>3, <1>5, <2>2 DEF Leaves, rest
  <2> QED
    BY <2>1, <2>2
<1>6. ASSUME o.exit = "next" PROVE Leaves(text, b, n)
  BY <1>1, <1>2, <1>5, <1>6 DEF Leaves, rest
<1> QED
  BY <1>4, <1>6

LEMMA ExecutionsLeave ==
  ASSUME NEW world, NEW text, NEW base, NEW run, Runs(world, text, base, run)
  PROVE  \A b \in Blocks(text) : BlockValid(text, b) /\ b.first >= base =>
           \A d \in SUBSET DOMAIN text : \A o \in run[b][d] : Leaves(text, b, o)
<1> DEFINE G == {b \in Blocks(text) : b.first >= base =>
                   \A d \in SUBSET DOMAIN text : \A o \in run[b][d] : Leaves(text, b, o)}
<1>1. TextValid(text) /\ base \in Nat
  BY DEF Runs
<1>2. ASSUME NEW b \in Blocks(text), BlockValid(text, b),
             \A c \in Blocks(text) : BlockValid(text, c) /\ c.first > b.first => c \in G
      PROVE  b \in G
  <2>1. SUFFICES ASSUME b.first >= base, NEW d \in SUBSET DOMAIN text, NEW o \in run[b][d]
                 PROVE  Leaves(text, b, o)
    OBVIOUS
  <2>2. CASE IsEmpty(b)
    <3>1. o.exit = "next"
      BY <2>2, EmptyOutcomes DEF Outcome
    <3> QED
      BY <2>2, <3>1 DEF Leaves, Terminates
  <2>3. CASE ~IsEmpty(b)
    <3> DEFINE k == b.first
               rest == Rest(text, b)
    <3>1. k \in DOMAIN text /\ k \in Nat /\ rest \in Blocks(text) /\ BlockValid(text, rest) /\ rest.first > k /\ rest.first \in Nat
      BY <1>1, <1>2, <2>3, BlockSplits
    <3>2. PICK a \in One(world, text, k, run, d) :
            \/ a.exit # "next" /\ o = a
            \/ a.exit = "next" /\ \E n \in run[rest][a.done] : o = Joined(a, n, n.exit)
      BY <2>3, SequenceOutcomes
    <3> HIDE DEF rest
    <3>3. ASSUME NEW j \in DOMAIN text[k].parts
          PROVE  /\ \A e \in SUBSET DOMAIN text : \A m \in run[text[k].parts[j]][e] :
                      Leaves(text, text[k].parts[j], m) /\ Stays(text, Reach(base, text[k].parts[j]), e, m)
                 /\ Reach(base, text[k].parts[j]) \subseteq Reach(base, Span(text, k))
      <4>1. /\ BlockValid(text, text[k].parts[j]) /\ text[k].parts[j] \in Blocks(text) /\ text[k].parts[j].first > k
            /\ Places(text[k].parts[j]) \subseteq Places(Span(text, k))
        BY <1>1, <3>1, SpanIsBlock
      <4>2. text[k].parts[j].first \in Nat
        BY <4>1, <1>1 DEF Blocks, TextValid
      <4>3. text[k].parts[j] \in G /\ text[k].parts[j].first >= base
        BY <4>1, <4>2, <1>1, <1>2, <2>1, <3>1
      <4>4. \A e \in SUBSET DOMAIN text : \A m \in run[text[k].parts[j]][e] : Stays(text, Reach(base, text[k].parts[j]), e, m)
        BY <4>1, <4>3, ExecutionsStay
      <4>5. \A e \in SUBSET DOMAIN text : \A m \in run[text[k].parts[j]][e] : Leaves(text, text[k].parts[j], m)
        BY <4>3
      <4>6. Reach(base, text[k].parts[j]) \subseteq Reach(base, Span(text, k))
        BY <4>1 DEF Reach
      <4> QED
        BY <4>4, <4>5, <4>6
    <3>4. PartsLeave(text, run, k)
      <4>1. \A T, e, m : Stays(text, T, e, m) => m.done \in SUBSET DOMAIN text /\ m.exit \in Exits
        BY DEF Stays, Outcomes
      <4> QED
        BY <3>3, <4>1 DEF PartsLeave
    <3>5. PartsStay(text, run, k, Reach(base, Span(text, k)))
      BY <3>3, StaysWider DEF PartsStay
    <3>6. Leaves(text, Span(text, k), a) /\ a.done \in SUBSET DOMAIN text
      <4>1. Stays(text, Reach(base, Span(text, k)), d, a)
        BY <3>1, <3>5, StatementStays
      <4>2. a.done \in SUBSET DOMAIN text
        BY <4>1 DEF Stays, Outcomes
      <4> QED
        BY <3>1, <3>4, <4>2, StatementLeaves
    <3>7. \A n \in run[rest][a.done] : Leaves(text, rest, n) /\ (IsEmpty(rest) => n.exit = "next")
      <4>1. rest \in G /\ rest.first >= base
        BY <1>1, <1>2, <2>1, <3>1
      <4>2. ASSUME NEW n \in run[rest][a.done], IsEmpty(rest) PROVE n.exit = "next"
        <5>1. n = Outcome(a.done, {}, {}, "next")
          BY <3>1, <3>6, <4>2, EmptyOutcomes
        <5> QED
          BY <5>1 DEF Outcome
      <4> QED
        BY <3>6, <4>1, <4>2
    <3>8. CASE a.exit # "next" /\ o = a
      BY <1>1, <1>2, <2>3, <3>6, <3>8, SequenceLeaves
    <3>9. ASSUME a.exit = "next", NEW n \in run[rest][a.done], o = Joined(a, n, n.exit) PROVE Leaves(text, b, o)
      <4>1. Leaves(text, b, n)
        BY <1>1, <1>2, <2>3, <3>6, <3>7, <3>9, SequenceLeaves DEF rest
      <4>2. o.exit = n.exit
        BY <3>9, JoinedFields
      <4> QED
        BY <4>1, <4>2, LeavesByExit
    <3> QED
      BY <3>2, <3>8, <3>9
  <2> QED
    BY <2>2, <2>3
<1> HIDE DEF G
<1>3. \A b \in Blocks(text) : BlockValid(text, b) => b \in G
  BY <1>1, <1>2, BlockInduction
<1> QED
  BY <1>3 DEF G

-----------------------------------------------------------------------------
(* What is known of an execution of a block.  A place of the block that no  *)
(* branch, no handler and no jump can pass by is executed if the block is   *)
(* executed to its end.                                                     *)
SureIn(text, s, p) ==
  \/ text[s].kind = "with"
  \/ text[s].kind = "loop" /\ p = 2 /\ ~JumpsOut(text, text[s].parts[1], {"break"})
  \/ /\ text[s].kind = "try"
     /\ \/ p = Len(text[s].parts)
        \/ p \in {1, Len(text[s].parts) - 1} /\ \A h \in Handlers(text[s]) : Terminates(text, text[s].parts[h])
Sure(text, b, i) ==
  /\ i \in Places(b)
  /\ \A s \in DOMAIN text : \A p \in DOMAIN text[s].parts :
       s >= b.first /\ i \in Places(text[s].parts[p]) => SureIn(text, s, p)
Finished(text, b, o) == o.exit = "next" => \A i \in Places(b) : Sure(text, b, i) => i \in o.done

(* What context_dominates asks, said of the places.                         *)
Precedes(text, i, j) ==
  /\ i < j
  /\ \A s \in DOMAIN text : \A p \in DOMAIN text[s].parts :
       i \in Places(text[s].parts[p]) =>
         /\ \A q \in DOMAIN text[s].parts : j \in Places(text[s].parts[q]) =>
              p = q \/ (text[s].kind = "try" /\ p = 1 /\ q = Len(text[s].parts) - 1)
         /\ j \notin Places(Span(text, s)) => SureIn(text, s, p)
InOrder(text, b, o) == \A i \in Places(b) : \A j \in Nat : <<i, j>> \in o.early => ~Precedes(text, i, j)

(* What exception_propagates_from_function asks.                            *)
EscapesFrom(text, s, p) ==
  LET final == Final(text[s])
  IN  /\ ~MayReturn(text, final) /\ ~JumpsOut(text, final, {"break", "continue"})
      /\ p = 1 => \A h \in Handlers(text[s]) :
                    LET handler == text[s].parts[h]
                    IN  /\ Terminates(text, handler) /\ ~MayReturn(text, handler)
                        /\ ~JumpsOut(text, handler, {"break", "continue"})
Escapes(text, b, i) ==
  /\ i \in Places(b)
  /\ \A s \in DOMAIN text : \A p \in DOMAIN text[s].parts :
       s >= b.first /\ i \in Places(text[s].parts[p]) /\ text[s].kind = "try" => EscapesFrom(text, s, p)
Raised(text, b, o) == \A i \in Places(b) : i \in o.failed /\ Escapes(text, b, i) => o.exit = "raise"

(* Two places in different branches of a test.                              *)
Apart(text, s, x, y) ==
  /\ text[s].kind \in {"if", "match"}
  /\ \E p, q \in DOMAIN text[s].parts : p # q /\ x \in Places(text[s].parts[p]) /\ y \in Places(text[s].parts[q])
OneBranch(text, b, d, o) == \A s \in Places(b) : \A x, y \in Touched(d, o) : ~Apart(text, s, x, y)

Known(text, base, b, d, o) ==
  /\ Stays(text, Reach(base, b), d, o) /\ Leaves(text, b, o)
  /\ Finished(text, b, o) /\ InOrder(text, b, o) /\ Raised(text, b, o) /\ OneBranch(text, b, d, o)
PartsKnown(text, base, run, k) ==
  \A j \in DOMAIN text[k].parts : \A d \in SUBSET DOMAIN text : \A o \in run[text[k].parts[j]][d] :
    Known(text, base, text[k].parts[j], d, o)

(* The places of different parts of a statement are different, and a place  *)
(* of a part is not one of the functions that may be called.                *)
LEMMA PartsAreApart ==
  ASSUME NEW text, TextValid(text), NEW k \in DOMAIN text, NEW p \in DOMAIN text[k].parts, NEW i \in Places(text[k].parts[p])
  PROVE  /\ \A q \in DOMAIN text[k].parts : i \in Places(text[k].parts[q]) => p = q
         /\ i \in Nat /\ i > k /\ i \in DOMAIN text
         /\ \A base \in Nat, q \in DOMAIN text[k].parts : k >= base /\ i \in Reach(base, text[k].parts[q]) => p = q
<1>1. /\ \A q \in DOMAIN text[k].parts : BlockValid(text, text[k].parts[q])
      /\ \A q, r \in DOMAIN text[k].parts : \A m \in Places(text[k].parts[q]) : \A n \in Places(text[k].parts[r]) :
           q < r => m < n
      /\ text[k].parts[p].first > k /\ k \in Nat
  BY SpanIsBlock
<1>2. i \in Nat /\ i > k /\ i \in DOMAIN text
  BY <1>1 DEF BlockValid, Blocks, Places, TextValid
<1>3. DOMAIN text[k].parts \subseteq Nat
  <2>1. StatementAt(text, k)
    BY PartsAreBlocks
  <2> QED
    BY <2>1 DEF StatementAt
<1>4. \A q \in DOMAIN text[k].parts : i \in Places(text[k].parts[q]) => p = q
  <2>1. SUFFICES ASSUME NEW q \in DOMAIN text[k].parts, i \in Places(text[k].parts[q]), p # q PROVE FALSE
    OBVIOUS
  <2>2. p < q \/ q < p
    BY <1>3, <2>1
  <2>3. i < i
    BY <1>1, <2>1, <2>2
  <2> QED
    BY <1>2, <2>3
<1>5. \A base \in Nat, q \in DOMAIN text[k].parts : k >= base /\ i \in Reach(base, text[k].parts[q]) => i \in Places(text[k].parts[q])
  BY <1>1, <1>2 DEF Reach
<1> QED
  BY <1>2, <1>4, <1>5

LEMMA SureOfPart ==
  ASSUME NEW text, TextValid(text), NEW k \in DOMAIN text, NEW p \in DOMAIN text[k].parts, NEW i \in Places(text[k].parts[p])
  PROVE  /\ Sure(text, Span(text, k), i) => SureIn(text, k, p) /\ Sure(text, text[k].parts[p], i)
         /\ Escapes(text, Span(text, k), i) =>
              Escapes(text, text[k].parts[p], i) /\ (text[k].kind = "try" => EscapesFrom(text, k, p))
<1>1. Span(text, k).first = k /\ text[k].parts[p].first > k /\ k \in Nat /\ text[k].parts[p].first \in Nat
  <2>1. BlockValid(text, text[k].parts[p]) /\ text[k].parts[p].first > k /\ k \in Nat
    BY SpanIsBlock
  <2> QED
    BY <2>1 DEF Span, Block, BlockValid, Blocks
<1>2. \A s \in DOMAIN text : s \in Nat /\ (s >= text[k].parts[p].first => s >= Span(text, k).first) /\ k >= Span(text, k).first
  BY <1>1 DEF TextValid
<1>3. Sure(text, Span(text, k), i) => SureIn(text, k, p) /\ Sure(text, text[k].parts[p], i)
  BY <1>2 DEF Sure
<1>4. Escapes(text, Span(text, k), i) =>
        Escapes(text, text[k].parts[p], i) /\ (text[k].kind = "try" => EscapesFrom(text, k, p))
  BY <1>2 DEF Escapes
<1> QED
  BY <1>3, <1>4

(* What precedes a place that follows a block is passed by nothing in it.   *)
LEMMA SureBefore ==
  ASSUME NEW text, TextValid(text), NEW b, BlockValid(text, b), NEW i \in Places(b), NEW j \in Nat, j > b.last,
         Precedes(text, i, j)
  PROVE  Sure(text, b, i)
<1>1. ASSUME NEW s \in DOMAIN text, NEW p \in DOMAIN text[s].parts, s >= b.first, i \in Places(text[s].parts[p])
      PROVE  SureIn(text, s, p)
  <2>1. i > s /\ s \in Nat /\ i \in Nat /\ b.first \in Nat /\ b.last \in Nat
    BY <1>1, PartsAreApart, EndOfStatement DEF BlockValid, Blocks
  <2>2. s \in Places(b)
    BY <1>1, <2>1 DEF Places
  <2>3. End(text, s) <= b.last /\ End(text, s) \in Nat
    BY <2>2, EndOfStatement DEF BlockValid
  <2>4. j \notin Places(Span(text, s))
    BY <2>1, <2>3 DEF Places, Span, Block
  <2> QED
    BY <1>1, <2>4 DEF Precedes
<1> QED
  BY <1>1 DEF Sure

LEMMA ApartInPart ==
  ASSUME NEW text, TextValid(text), NEW b, BlockValid(text, b), NEW s \in Places(b), NEW x, NEW y, Apart(text, s, x, y)
  PROVE  x \in Places(b) /\ y \in Places(b) /\ x > s /\ y > s /\ x # y /\ x \in Nat /\ y \in Nat /\ s \in DOMAIN text
<1>1. s \in DOMAIN text /\ s \in Nat /\ b.first \in Nat /\ b.last \in Nat /\ s >= b.first /\ End(text, s) <= b.last
  BY DEF BlockValid, Blocks, Places, TextValid
<1>2. PICK p, q \in DOMAIN text[s].parts : p # q /\ x \in Places(text[s].parts[p]) /\ y \in Places(text[s].parts[q])
  BY DEF Apart
<1>3. x \in Nat /\ x > s /\ y \in Nat /\ y > s /\ x # y
  BY <1>1, <1>2, PartsAreApart
<1>4. x <= End(text, s) /\ y <= End(text, s) /\ End(text, s) \in Nat
  <2>1. x \in Places(Span(text, s)) /\ y \in Places(Span(text, s))
    BY <1>1, <1>2, SpanIsBlock
  <2> QED
    BY <1>1, <2>1, EndOfStatement DEF Span, Block, Places
<1> QED
  BY <1>1, <1>3, <1>4 DEF Places

(* What follows is shown of the parts of a statement first.                 *)
OutOfBodyOnly(text, k, q, e, n) ==
  \A p \in DOMAIN text[k].parts : \A i \in Places(text[k].parts[p]) : \A j \in Nat :
    <<i, j>> \in n.early /\ Precedes(text, i, j) =>
      text[k].kind = "try" /\ p = 1 /\ q = Len(text[k].parts) - 1 /\ j \in Places(text[k].parts[q]) /\ i \notin e

LEMMA PartFacts ==
  ASSUME NEW world, NEW text, NEW base, NEW run, Runs(world, text, base, run), NEW k \in DOMAIN text, k >= base,
         PartsKnown(text, base, run, k), NEW q \in DOMAIN text[k].parts, NEW e \in SUBSET DOMAIN text,
         NEW n \in run[text[k].parts[q]][e]
  PROVE  /\ n.done \in SUBSET DOMAIN text /\ n.exit \in Exits /\ e \subseteq n.done
         /\ Leaves(text, text[k].parts[q], n) /\ Finished(text, text[k].parts[q], n)
         /\ \A p \in DOMAIN text[k].parts : \A i \in Places(text[k].parts[p]) : i \in Touched(e, n) => p = q
         /\ \A i \in Places(Span(text, k)) : i \in n.failed =>
              i \in Places(text[k].parts[q]) /\ (Escapes(text, Span(text, k), i) => n.exit = "raise")
         /\ OutOfBodyOnly(text, k, q, e, n)
         /\ \A p \in DOMAIN text[k].parts : \A s \in Places(text[k].parts[p]) : \A x, y \in Touched(e, n) : ~Apart(text, s, x, y)
<1> DEFINE part == text[k].parts[q]
<1>1. TextValid(text) /\ base \in Nat \ {0}
  BY DEF Runs
<1>2. /\ Stays(text, Reach(base, part), e, n) /\ Leaves(text, part, n) /\ Finished(text, part, n)
      /\ InOrder(text, part, n) /\ Raised(text, part, n) /\ OneBranch(text, part, e, n)
  BY DEF PartsKnown, Known
<1>3. \A p \in DOMAIN text[k].parts : \A i \in Places(text[k].parts[p]) :
        /\ i \in Nat /\ i > k
        /\ \A r \in DOMAIN text[k].parts : i \in Places(text[k].parts[r]) => p = r
        /\ i \in Reach(base, part) => p = q
  BY <1>1, PartsAreApart
<1>4. /\ k \in Nat /\ BlockValid(text, Span(text, k))
      /\ \A m \in Places(Span(text, k)) : m = k \/ \E p \in DOMAIN text[k].parts : m \in Places(text[k].parts[p])
      /\ BlockValid(text, part)
      /\ part.first > k
  BY <1>1, SpanIsBlock
<1>5. k \notin Reach(base, part)
  BY <1>1, <1>4 DEF Reach, Places, BlockValid, Blocks
<1> HIDE DEF part
<1>6. n.done \in SUBSET DOMAIN text /\ n.exit \in Exits /\ e \subseteq n.done /\ Touched(e, n) \subseteq Reach(base, part)
  BY <1>2 DEF Stays, Outcomes
<1>7. \A p \in DOMAIN text[k].parts : \A i \in Places(text[k].parts[p]) : i \in Touched(e, n) => p = q
  BY <1>3, <1>6
<1>8. ASSUME NEW i \in Places(Span(text, k)), i \in n.failed
      PROVE  i \in Places(part) /\ (Escapes(text, Span(text, k), i) => n.exit = "raise")
  <2>1. i \in Touched(e, n)
    BY <1>8 DEF Touched
  <2>2. i \in Places(part)
    BY <1>4, <1>5, <1>6, <1>7, <2>1 DEF part
  <2>3. Escapes(text, Span(text, k), i) => Escapes(text, part, i)
    BY <1>1, <2>2, SureOfPart DEF part
  <2> QED
    BY <1>2, <1>8, <2>2, <2>3 DEF Raised
<1>9. ASSUME NEW p \in DOMAIN text[k].parts, NEW i \in Places(text[k].parts[p]), NEW j \in Nat,
             <<i, j>> \in n.early, Precedes(text, i, j)
      PROVE  text[k].kind = "try" /\ p = 1 /\ q = Len(text[k].parts) - 1 /\ j \in Places(part) /\ i \notin e
  <2>1. i \in Nat /\ j \in Reach(base, part) /\ i < j /\ i \notin e /\ i > k
    BY <1>2, <1>3, <1>9 DEF Stays
  <2>2. j \in Places(part)
    BY <1>1, <1>4, <2>1 DEF Reach
  <2>3. p = q \/ (text[k].kind = "try" /\ p = 1 /\ q = Len(text[k].parts) - 1)
    BY <1>9, <2>2 DEF Precedes, part
  <2>4. p # q
    BY <1>2, <1>9 DEF InOrder, part
  <2> QED
    BY <2>1, <2>2, <2>3, <2>4
<1>10. ASSUME NEW p \in DOMAIN text[k].parts, NEW s \in Places(text[k].parts[p]), NEW x \in Touched(e, n), NEW y \in Touched(e, n),
              Apart(text, s, x, y)
       PROVE  FALSE
  <2>1. BlockValid(text, text[k].parts[p])
    BY <1>1, SpanIsBlock
  <2>2. x \in Places(text[k].parts[p])
    BY <1>1, <1>10, <2>1, ApartInPart
  <2>3. p = q
    BY <1>7, <2>2
  <2> QED
    BY <1>2, <1>10, <2>3 DEF OneBranch, part
<1>11. OutOfBodyOnly(text, k, q, e, n)
  BY <1>9 DEF OutOfBodyOnly, part
<1> QED
  BY <1>2, <1>6, <1>7, <1>8, <1>10, <1>11 DEF part

LEMMA InnerFinished ==
  ASSUME NEW world, NEW text, NEW base, NEW run, Runs(world, text, base, run), NEW k \in DOMAIN text, k >= base,
         PartsKnown(text, base, run, k), text[k].kind \in {"if", "match", "loop", "with", "try"},
         NEW d \in SUBSET DOMAIN text, k \in d, NEW m \in Inner(world, text[k], k, run, d), d \subseteq m.done
  PROVE  Finished(text, Span(text, k), m)
<1> DEFINE s == text[k]
<1>1. TextValid(text)
  BY DEF Runs
<1>2. /\ s.kind = "with" => DOMAIN s.parts = {1}
      /\ s.kind = "loop" => DOMAIN s.parts = {1, 2}
      /\ s.kind = "try" => /\ {1, Len(s.parts) - 1, Len(s.parts)} \subseteq DOMAIN s.parts
                           /\ Handlers(s) \subseteq DOMAIN s.parts
  BY <1>1, ParametersInKinds
<1>3. \A q \in DOMAIN s.parts : \A e \in SUBSET DOMAIN text : \A n \in run[s.parts[q]][e] :
        n.done \in SUBSET DOMAIN text /\ e \subseteq n.done /\ Leaves(text, s.parts[q], n) /\ Finished(text, s.parts[q], n)
  BY PartFacts
<1>4. SUFFICES ASSUME m.exit = "next", NEW p \in DOMAIN s.parts, NEW i \in Places(s.parts[p]), SureIn(text, k, p), Sure(text, s.parts[p], i)
               PROVE  i \in m.done
  <2>1. \A i \in Places(Span(text, k)) : i = k \/ \E p \in DOMAIN s.parts : i \in Places(s.parts[p])
    BY <1>1, SpanIsBlock
  <2>2. \A p \in DOMAIN s.parts : \A i \in Places(s.parts[p]) :
          Sure(text, Span(text, k), i) => SureIn(text, k, p) /\ Sure(text, s.parts[p], i)
    BY <1>1, SureOfPart
  <2> QED
    BY <2>1, <2>2 DEF Finished
<1>5. CASE s.kind = "with"
  <2>1. m \in run[s.parts[1]][d] /\ p = 1
    BY <1>2, <1>5 DEF Inner
  <2> QED
    BY <1>3, <1>4, <2>1 DEF Finished
<1>6. CASE s.kind = "loop"
  <2>1. p = 2 /\ ~JumpsOut(text, s.parts[1], {"break"})
    BY <1>4, <1>6 DEF SureIn
  <2>2. \/ m \in run[s.parts[2]][d]
        \/ \E t \in run[s.parts[1]][d] :
             \/ t.exit = "break"
             \/ t.exit # "next" /\ m = t
             \/ \E n \in run[s.parts[2]][t.done] : m = Joined(t, n, n.exit)
    BY <1>6, LoopOutcomes
  <2>3. \A t \in run[s.parts[1]][d] : t.exit # "break" /\ t.done \in SUBSET DOMAIN text
    BY <1>2, <1>3, <1>6, <2>1 DEF Leaves
  <2>4. \A e \in SUBSET DOMAIN text : \A n \in run[s.parts[2]][e] : n.exit = "next" => i \in n.done
    BY <1>3, <1>4, <2>1 DEF Finished
  <2>5. ASSUME NEW t \in run[s.parts[1]][d], NEW n \in run[s.parts[2]][t.done], m = Joined(t, n, n.exit)
        PROVE  i \in m.done
    BY <1>4, <2>3, <2>4, <2>5, JoinedFields
  <2> QED
    BY <1>4, <2>2, <2>3, <2>4, <2>5
<1>7. CASE s.kind = "try"
  <2>1. \/ p = Len(s.parts)
        \/ p \in {1, Len(s.parts) - 1} /\ \A h \in Handlers(s) : Terminates(text, s.parts[h])
    BY <1>4, <1>7 DEF SureIn
  <2>2. PICK x, f : LeftTry(s, run, d, x) /\ f \in run[Final(s)][x.done] /\ m = Joined(x, f, IF f.exit = "next" THEN x.exit ELSE f.exit)
    BY <1>7, TryOutcomes
  <2>3. m.done = f.done /\ x.exit = "next" /\ f.exit = "next"
    BY <1>4, <2>2, JoinedFields
  <2>4. PICK t \in run[s.parts[1]][d] :
          \/ x = t /\ t.exit # "next"
          \/ t.exit = "next" /\ \E n \in run[Else(s)][t.done] : x = Joined(t, n, n.exit)
          \/ t.exit = "raise" /\ \E h \in Handlers(s) : \E n \in run[s.parts[h]][t.done] : x = Joined(t, n, n.exit)
    BY <2>2 DEF LeftTry
  <2>5. t.done \in SUBSET DOMAIN text /\ Finished(text, s.parts[1], t)
    BY <1>2, <1>3, <1>7
  <2>6. x.done \in SUBSET DOMAIN text
    <3>1. \A n : Joined(t, n, n.exit).done = n.done
      BY JoinedFields
    <3>2. \A n \in run[Else(s)][t.done] : n.done \in SUBSET DOMAIN text
      BY <1>2, <1>3, <1>7, <2>5 DEF Else
    <3>3. \A h \in Handlers(s) : \A n \in run[s.parts[h]][t.done] : n.done \in SUBSET DOMAIN text
      BY <1>2, <1>3, <1>7, <2>5
    <3> QED
      BY <2>4, <2>5, <3>1, <3>2, <3>3
  <2>7. x.done \subseteq f.done /\ Finished(text, Final(s), f)
    BY <1>2, <1>3, <1>7, <2>2, <2>6 DEF Final
  <2>8. CASE p = Len(s.parts)
    BY <1>4, <2>3, <2>7, <2>8 DEF Final, Finished
  <2>9. CASE p \in {1, Len(s.parts) - 1} /\ \A h \in Handlers(s) : Terminates(text, s.parts[h])
    <3>1. ASSUME t.exit = "raise", NEW h \in Handlers(s), NEW n \in run[s.parts[h]][t.done], x = Joined(t, n, n.exit)
          PROVE  FALSE
      <4>1. n.exit = "next"
        BY <2>3, <3>1, JoinedFields
      <4>2. Leaves(text, s.parts[h], n)
        BY <1>2, <1>3, <1>7, <2>5, <3>1
      <4> QED
        BY <2>9, <3>1, <4>1, <4>2 DEF Leaves
    <3>2. PICK n \in run[Else(s)][t.done] : t.exit = "next" /\ x = Joined(t, n, n.exit)
      BY <2>3, <2>4, <3>1
    <3>3. n.exit = "next" /\ x.done = n.done
      BY <2>3, <3>2, JoinedFields
    <3>4. t.done \subseteq n.done /\ Finished(text, Else(s), n)
      BY <1>2, <1>3, <1>7, <2>5, <3>2 DEF Else
    <3>5. i \in t.done \/ i \in n.done
      <4>1. CASE p = 1
        BY <1>4, <2>5, <3>2, <4>1 DEF Finished
      <4>2. CASE p = Len(s.parts) - 1
        BY <1>4, <3>3, <3>4, <4>2 DEF Finished, Else
      <4> QED
        BY <2>9, <4>1, <4>2
    <3> QED
      BY <2>3, <2>7, <3>3, <3>4, <3>5
  <2> QED
    BY <2>1, <2>8, <2>9
<1>8. CASE s.kind \in {"if", "match"}
  BY <1>4, <1>8 DEF SureIn
<1> QED
  BY <1>5, <1>6, <1>7, <1>8

LEMMA TryPath ==
  ASSUME NEW world, NEW text, NEW base, NEW run, Runs(world, text, base, run), NEW k \in DOMAIN text, k >= base,
         PartsKnown(text, base, run, k), text[k].kind = "try",
         NEW d \in SUBSET DOMAIN text, NEW m \in Inner(world, text[k], k, run, d)
  PROVE  LET s == text[k]
         IN  \E t \in run[s.parts[1]][d] : \E x : \E f \in run[Final(s)][x.done] :
               /\ t.done \in SUBSET DOMAIN text /\ x.done \in SUBSET DOMAIN text
               /\ m = Joined(x, f, IF f.exit = "next" THEN x.exit ELSE f.exit)
               /\ \/ x = t
                  \/ t.exit = "next" /\ \E n \in run[Else(s)][t.done] : x = Joined(t, n, n.exit)
                  \/ t.exit = "raise" /\ \E h \in Handlers(s) : \E n \in run[s.parts[h]][t.done] : x = Joined(t, n, n.exit)
<1> DEFINE s == text[k]
<1>1. TextValid(text)
  BY DEF Runs
<1>2. {1, Len(s.parts) - 1, Len(s.parts)} \subseteq DOMAIN s.parts /\ Handlers(s) \subseteq DOMAIN s.parts
  BY <1>1, ParametersInKinds
<1>3. \A q \in DOMAIN s.parts : \A e \in SUBSET DOMAIN text : \A n \in run[s.parts[q]][e] : n.done \in SUBSET DOMAIN text
  BY PartFacts
<1>4. PICK x, f : LeftTry(s, run, d, x) /\ f \in run[Final(s)][x.done] /\ m = Joined(x, f, IF f.exit = "next" THEN x.exit ELSE f.exit)
  BY TryOutcomes
<1>5. PICK t \in run[s.parts[1]][d] :
        \/ x = t
        \/ t.exit = "next" /\ \E n \in run[Else(s)][t.done] : x = Joined(t, n, n.exit)
        \/ t.exit = "raise" /\ \E h \in Handlers(s) : \E n \in run[s.parts[h]][t.done] : x = Joined(t, n, n.exit)
  BY <1>4 DEF LeftTry
<1>6. t.done \in SUBSET DOMAIN text
  BY <1>2, <1>3
<1>7. x.done \in SUBSET DOMAIN text
  <2>1. \A n : Joined(t, n, n.exit).done = n.done
    BY JoinedFields
  <2>2. \A n \in run[Else(s)][t.done] : n.done \in SUBSET DOMAIN text
    BY <1>2, <1>3, <1>6 DEF Else
  <2>3. \A h \in Handlers(s) : \A n \in run[s.parts[h]][t.done] : n.done \in SUBSET DOMAIN text
    BY <1>2, <1>3, <1>6
  <2> QED
    BY <1>5, <1>6, <2>1, <2>2, <2>3
<1> QED
  BY <1>4, <1>5, <1>6, <1>7

LEMMA InnerInOrder ==
  ASSUME NEW world, NEW text, NEW base, NEW run, Runs(world, text, base, run), NEW k \in DOMAIN text, k >= base,
         PartsKnown(text, base, run, k), text[k].kind \in {"if", "match", "loop", "with", "try"},
         NEW d \in SUBSET DOMAIN text, k \in d, NEW m \in Inner(world, text[k], k, run, d),
         NEW T, Stays(text, T, d, m)
  PROVE  InOrder(text, Span(text, k), m)
<1> DEFINE s == text[k]
<1>1. TextValid(text) /\ WorldValid(world, text)
  BY DEF Runs
<1>2. /\ s.kind = "with" => DOMAIN s.parts = {1}
      /\ s.kind = "loop" => DOMAIN s.parts = {1, 2}
      /\ s.kind = "try" => /\ {1, Len(s.parts) - 1, Len(s.parts)} \subseteq DOMAIN s.parts
                           /\ Handlers(s) \subseteq DOMAIN s.parts /\ Len(s.parts) > 2 /\ Len(s.parts) \in Nat
  <2>1. s.kind = "try" => /\ {1, Len(s.parts) - 1, Len(s.parts)} \subseteq DOMAIN s.parts
                          /\ Handlers(s) \subseteq DOMAIN s.parts /\ Len(s.parts) > 2
    BY <1>1, ParametersInKinds
  <2>2. StatementAt(text, k)
    BY <1>1, PartsAreBlocks
  <2>3. Len(s.parts) \in Nat
    BY <2>2 DEF StatementAt
  <2> QED
    BY <1>1, <2>1, <2>3, ParametersInKinds
<1>3. SUFFICES ASSUME NEW p \in DOMAIN s.parts, NEW i \in Places(s.parts[p]), NEW j \in Nat, <<i, j>> \in m.early, Precedes(text, i, j)
               PROVE  FALSE
  <2>1. \A i \in Places(Span(text, k)) : i = k \/ \E p \in DOMAIN s.parts : i \in Places(s.parts[p])
    BY <1>1, SpanIsBlock
  <2>2. k \in Nat
    BY <1>1, EndOfStatement
  <2>3. \A j \in Nat : <<k, j>> \notin m.early
    BY <2>2 DEF Stays
  <2> QED
    BY <2>1, <2>3 DEF InOrder
<1>4. \A q \in DOMAIN s.parts : \A e \in SUBSET DOMAIN text : \A n \in run[s.parts[q]][e] :
        <<i, j>> \in n.early => s.kind = "try" /\ p = 1 /\ q = Len(s.parts) - 1 /\ j \in Places(s.parts[q]) /\ i \notin e
  <2>1. SUFFICES ASSUME NEW q \in DOMAIN s.parts, NEW e \in SUBSET DOMAIN text, NEW n \in run[s.parts[q]][e], <<i, j>> \in n.early
                 PROVE  s.kind = "try" /\ p = 1 /\ q = Len(s.parts) - 1 /\ j \in Places(s.parts[q]) /\ i \notin e
    OBVIOUS
  <2>2. OutOfBodyOnly(text, k, q, e, n)
    BY PartFacts
  <2> QED
    BY <1>3, <2>1, <2>2 DEF OutOfBodyOnly
<1>5. CASE s.kind \in {"if", "match"}
  <2>1. m = Outcome(d, {}, {}, "next") \/ \E q \in DOMAIN s.parts : m \in run[s.parts[q]][d]
    BY <1>1, <1>5, BranchOutcomes
  <2>2. Outcome(d, {}, {}, "next").early = {}
    BY DEF Outcome
  <2> QED
    BY <1>3, <1>4, <1>5, <2>1, <2>2
<1>6. CASE s.kind = "with"
  <2>1. m \in run[s.parts[1]][d]
    BY <1>6 DEF Inner
  <2> QED
    BY <1>2, <1>3, <1>4, <1>6, <2>1
<1>7. CASE s.kind = "loop"
  <2>1. \/ m \in run[s.parts[2]][d]
        \/ \E t \in run[s.parts[1]][d] :
             \/ m = [t EXCEPT !.exit = "next"]
             \/ m = t
             \/ \E n \in run[s.parts[2]][t.done] : m = Joined(t, n, n.exit)
    BY <1>7, LoopOutcomes
  <2>2. \A q \in {1, 2} : \A e \in SUBSET DOMAIN text : \A n \in run[s.parts[q]][e] : <<i, j>> \notin n.early
    BY <1>2, <1>4, <1>7
  <2>3. \A t \in run[s.parts[1]][d] : t.done \in SUBSET DOMAIN text /\ [t EXCEPT !.exit = "next"].early = t.early
    <3>1. ASSUME NEW t \in run[s.parts[1]][d] PROVE t.done \in SUBSET DOMAIN text /\ [t EXCEPT !.exit = "next"].early = t.early
      <4>1. Stays(text, Reach(base, s.parts[1]), d, t)
        BY <1>2, <1>7 DEF PartsKnown, Known
      <4> QED
        BY <4>1, StaysCaught DEF Stays, Outcomes
    <3> QED
      BY <3>1
  <2>4. ASSUME NEW t \in run[s.parts[1]][d], NEW n \in run[s.parts[2]][t.done], m = Joined(t, n, n.exit) PROVE FALSE
    <3>1. m.early = t.early \cup n.early
      BY <2>4, JoinedFields
    <3> QED
      BY <1>3, <2>2, <2>3, <2>4, <3>1
  <2>5. ASSUME NEW t \in run[s.parts[1]][d], m = [t EXCEPT !.exit = "next"] PROVE FALSE
    <3>1. m.early = t.early
      BY <2>3, <2>5
    <3> QED
      BY <1>3, <2>2, <2>5, <3>1
  <2>6. \A q \in {1, 2} : m \notin run[s.parts[q]][d]
    BY <1>3, <2>2
  <2> QED
    BY <2>1, <2>4, <2>5, <2>6
<1>8. CASE s.kind = "try"
  <2>1. PICK t, x, f :
          /\ t \in run[s.parts[1]][d] /\ f \in run[Final(s)][x.done]
          /\ t.done \in SUBSET DOMAIN text /\ x.done \in SUBSET DOMAIN text
          /\ m = Joined(x, f, IF f.exit = "next" THEN x.exit ELSE f.exit)
          /\ \/ x = t
             \/ t.exit = "next" /\ \E n \in run[Else(s)][t.done] : x = Joined(t, n, n.exit)
             \/ t.exit = "raise" /\ \E h \in Handlers(s) : \E n \in run[s.parts[h]][t.done] : x = Joined(t, n, n.exit)
    BY <1>8, TryPath
  <2>2. \A o, n, exit : Joined(o, n, exit).early = o.early \cup n.early
    BY JoinedFields
  <2>3. <<i, j>> \notin f.early
    <3>1. Len(s.parts) # Len(s.parts) - 1
      BY <1>2, <1>8
    <3> QED
      BY <1>2, <1>4, <1>8, <2>1, <3>1 DEF Final
  <2>4. <<i, j>> \notin t.early
    <3>1. 1 # Len(s.parts) - 1
      BY <1>2, <1>8
    <3> QED
      BY <1>2, <1>4, <1>8, <2>1, <3>1
  <2>5. ASSUME NEW h \in Handlers(s), NEW n \in run[s.parts[h]][t.done] PROVE <<i, j>> \notin n.early
    <3>1. h # Len(s.parts) - 1
      BY <1>2, <1>8 DEF Handlers
    <3> QED
      BY <1>2, <1>4, <1>8, <2>1, <2>5, <3>1
  <2>6. ASSUME t.exit = "next", NEW n \in run[Else(s)][t.done], <<i, j>> \in n.early PROVE FALSE
    <3>1. p = 1 /\ j \in Places(Else(s)) /\ i \notin t.done
      BY <1>2, <1>4, <1>8, <2>1, <2>6 DEF Else
    <3>2. Finished(text, s.parts[1], t)
      BY <1>2, <1>8, <2>1, PartFacts
    <3>3. Sure(text, s.parts[1], i)
      <4>1. BlockValid(text, s.parts[1]) /\ s.parts[1].last < Else(s).first /\ BlockValid(text, Else(s))
        <5>1. 1 < Len(s.parts) - 1
          BY <1>2, <1>8
        <5> QED
          BY <1>1, <1>2, <1>8, <5>1, PartsAreBlocks DEF Else
      <4>2. j > s.parts[1].last
        BY <3>1, <4>1 DEF Places, BlockValid, Blocks
      <4> QED
        BY <1>1, <1>3, <3>1, <4>1, <4>2, SureBefore
    <3> QED
      BY <1>3, <2>6, <3>1, <3>2, <3>3 DEF Finished
  <2> QED
    BY <1>3, <2>1, <2>2, <2>3, <2>4, <2>5, <2>6
<1> QED
  BY <1>5, <1>6, <1>7, <1>8

LEMMA InnerRaised ==
  ASSUME NEW world, NEW text, NEW base, NEW run, Runs(world, text, base, run), NEW k \in DOMAIN text, k >= base,
         PartsKnown(text, base, run, k), text[k].kind \in {"if", "match", "loop", "with", "try"},
         NEW d \in SUBSET DOMAIN text, NEW m \in Inner(world, text[k], k, run, d)
  PROVE  Raised(text, Span(text, k), m)
<1> DEFINE s == text[k]
<1>1. TextValid(text) /\ WorldValid(world, text)
  BY DEF Runs
<1>2. /\ s.kind = "with" => DOMAIN s.parts = {1}
      /\ s.kind = "loop" => DOMAIN s.parts = {1, 2}
      /\ s.kind = "try" => /\ {1, Len(s.parts) - 1, Len(s.parts)} \subseteq DOMAIN s.parts
                           /\ Handlers(s) \subseteq DOMAIN s.parts
  BY <1>1, ParametersInKinds
<1>3. SUFFICES ASSUME NEW i \in Places(Span(text, k)), i \in m.failed, Escapes(text, Span(text, k), i) PROVE m.exit = "raise"
  BY DEF Raised
<1>4. \A q \in DOMAIN s.parts : \A e \in SUBSET DOMAIN text : \A n \in run[s.parts[q]][e] :
        /\ n.done \in SUBSET DOMAIN text /\ n.exit \in Exits /\ Leaves(text, s.parts[q], n)
        /\ i \in n.failed => n.exit = "raise" /\ i \in Places(s.parts[q])
  BY <1>3, PartFacts
<1>5. CASE s.kind \in {"if", "match"}
  <2>1. m = Outcome(d, {}, {}, "next") \/ \E q \in DOMAIN s.parts : m \in run[s.parts[q]][d]
    BY <1>1, <1>5, BranchOutcomes
  <2>2. Outcome(d, {}, {}, "next").failed = {}
    BY DEF Outcome
  <2> QED
    BY <1>3, <1>4, <2>1, <2>2
<1>6. CASE s.kind = "with"
  <2>1. m \in run[s.parts[1]][d]
    BY <1>6 DEF Inner
  <2> QED
    BY <1>2, <1>3, <1>4, <1>6, <2>1
<1>7. CASE s.kind = "loop"
  <2>1. \/ m \in run[s.parts[2]][d]
        \/ \E t \in run[s.parts[1]][d] :
             \/ t.exit = "break" /\ m = [t EXCEPT !.exit = "next"]
             \/ m = t
             \/ /\ t.exit \in {"next", "continue"}
                /\ \E n \in run[s.parts[2]][t.done] : m = Joined(t, n, n.exit)
    BY <1>7, LoopOutcomes
  <2>2. \A q \in {1, 2} : \A e \in SUBSET DOMAIN text : \A n \in run[s.parts[q]][e] :
          n.done \in SUBSET DOMAIN text /\ (i \in n.failed => n.exit = "raise")
    BY <1>2, <1>4, <1>7
  <2>3. ASSUME NEW t \in run[s.parts[1]][d], t.exit = "break", m = [t EXCEPT !.exit = "next"] PROVE FALSE
    <3>1. Stays(text, Reach(base, s.parts[1]), d, t)
      BY <1>2, <1>7 DEF PartsKnown, Known
    <3>2. m.failed = t.failed
      BY <2>3, <3>1, StaysCaught
    <3> QED
      BY <1>3, <2>2, <2>3, <3>2
  <2>4. ASSUME NEW t \in run[s.parts[1]][d], t.exit \in {"next", "continue"},
               NEW n \in run[s.parts[2]][t.done], m = Joined(t, n, n.exit)
        PROVE  m.exit = "raise"
    <3>1. m.failed = t.failed \cup n.failed /\ m.exit = n.exit
      BY <2>4, JoinedFields
    <3> QED
      BY <1>3, <2>2, <2>4, <3>1
  <2> QED
    BY <1>3, <2>1, <2>2, <2>3, <2>4
<1>8. CASE s.kind = "try"
  <2>1. PICK t, x, f :
          /\ t \in run[s.parts[1]][d] /\ f \in run[Final(s)][x.done]
          /\ t.done \in SUBSET DOMAIN text /\ x.done \in SUBSET DOMAIN text
          /\ m = Joined(x, f, IF f.exit = "next" THEN x.exit ELSE f.exit)
          /\ \/ x = t
             \/ t.exit = "next" /\ \E n \in run[Else(s)][t.done] : x = Joined(t, n, n.exit)
             \/ t.exit = "raise" /\ \E h \in Handlers(s) : \E n \in run[s.parts[h]][t.done] : x = Joined(t, n, n.exit)
    BY <1>8, TryPath
  <2>2. m.failed = x.failed \cup f.failed /\ m.exit = IF f.exit = "next" THEN x.exit ELSE f.exit
    BY <2>1, JoinedFields
  <2>3. f.exit \in Exits /\ Leaves(text, Final(s), f) /\ (i \in f.failed => f.exit = "raise" /\ i \in Places(Final(s)))
    BY <1>2, <1>4, <1>8, <2>1 DEF Final
  <2>4. CASE i \in f.failed
    BY <2>2, <2>3, <2>4
  <2>5. CASE i \in x.failed
    <3>1. i \in t.failed => t.exit = "raise" /\ i \in Places(s.parts[1])
      BY <1>2, <1>4, <1>8, <2>1
    <3>2. \A p \in DOMAIN s.parts : i \in Places(s.parts[p]) => EscapesFrom(text, k, p)
      BY <1>1, <1>3, <1>8, SureOfPart
    <3>3. \A b, n : Leaves(text, b, n) /\ n.exit \in Exits /\ ~MayReturn(text, b) /\ ~JumpsOut(text, b, {"break", "continue"})
                      => n.exit \in {"next", "raise"}
      <4>1. \A b : \A exit \in {"break", "continue"} : JumpsOut(text, b, {exit}) => JumpsOut(text, b, {"break", "continue"})
        BY DEF JumpsOut
      <4> QED
        BY <4>1 DEF Leaves, Exits
    <3>4. ASSUME t.exit = "next", NEW n \in run[Else(s)][t.done], x = Joined(t, n, n.exit)
          PROVE  x.exit = "raise" /\ \E p \in DOMAIN s.parts : i \in Places(s.parts[p])
      <4>1. x.failed = t.failed \cup n.failed /\ x.exit = n.exit
        BY <3>4, JoinedFields
      <4>2. i \in n.failed
        BY <2>5, <3>1, <3>4, <4>1
      <4>3. n.exit = "raise" /\ i \in Places(Else(s))
        BY <1>2, <1>4, <1>8, <2>1, <3>4, <4>2 DEF Else
      <4> QED
        BY <1>2, <1>8, <4>1, <4>3 DEF Else
    <3>5. ASSUME NEW h \in Handlers(s), NEW n \in run[s.parts[h]][t.done], x = Joined(t, n, n.exit)
          PROVE  x.exit = "raise" /\ \E p \in DOMAIN s.parts : i \in Places(s.parts[p])
      <4>1. x.failed = t.failed \cup n.failed /\ x.exit = n.exit
        BY <3>5, JoinedFields
      <4>2. n.exit \in Exits /\ Leaves(text, s.parts[h], n) /\ (i \in n.failed => n.exit = "raise" /\ i \in Places(s.parts[h]))
        BY <1>2, <1>4, <1>8, <2>1, <3>5
      <4>3. CASE i \in n.failed
        BY <1>2, <1>8, <4>1, <4>2, <4>3
      <4>4. CASE i \in t.failed
        <5>1. EscapesFrom(text, k, 1)
          BY <1>2, <1>8, <3>1, <3>2, <4>4
        <5>2. /\ Terminates(text, s.parts[h]) /\ ~MayReturn(text, s.parts[h])
              /\ ~JumpsOut(text, s.parts[h], {"break", "continue"})
          BY <5>1 DEF EscapesFrom
        <5>3. n.exit = "raise"
          BY <3>3, <4>2, <5>2 DEF Leaves
        <5> QED
          BY <1>2, <1>8, <3>1, <4>1, <4>4, <5>3
      <4> QED
        BY <2>5, <4>1, <4>3, <4>4
    <3>6. x.exit = "raise" /\ \E p \in DOMAIN s.parts : i \in Places(s.parts[p])
      <4>1. CASE x = t
        BY <1>2, <1>8, <2>5, <3>1, <4>1
      <4> QED
        BY <2>1, <3>4, <3>5, <4>1
    <3>7. ~MayReturn(text, Final(s)) /\ ~JumpsOut(text, Final(s), {"break", "continue"})
      BY <3>2, <3>6 DEF EscapesFrom
    <3>8. f.exit \in {"next", "raise"}
      BY <2>3, <3>3, <3>7
    <3> QED
      BY <2>2, <3>6, <3>8
  <2> QED
    BY <1>3, <2>2, <2>4, <2>5
<1> QED
  BY <1>5, <1>6, <1>7, <1>8

LEMMA TouchedJoined ==
  ASSUME NEW d, NEW o, NEW n, NEW exit
  PROVE  Touched(d, Joined(o, n, exit)) \subseteq Touched(d, o) \cup Touched(o.done, n)
<1>1. Joined(o, n, exit).done = n.done /\ Joined(o, n, exit).failed = o.failed \cup n.failed
  BY JoinedFields
<1> QED
  BY <1>1 DEF Touched

LEMMA InnerOneBranch ==
  ASSUME NEW world, NEW text, NEW base, NEW run, Runs(world, text, base, run), NEW k \in DOMAIN text, k >= base,
         PartsKnown(text, base, run, k), text[k].kind \in {"if", "match", "loop", "with", "try"},
         NEW d \in SUBSET DOMAIN text, NEW m \in Inner(world, text[k], k, run, d)
  PROVE  OneBranch(text, Span(text, k), d, m)
<1> DEFINE s == text[k]
<1>1. TextValid(text) /\ WorldValid(world, text)
  BY DEF Runs
<1>2. /\ s.kind = "with" => DOMAIN s.parts = {1}
      /\ s.kind = "loop" => DOMAIN s.parts = {1, 2}
      /\ s.kind = "try" => /\ {1, Len(s.parts) - 1, Len(s.parts)} \subseteq DOMAIN s.parts
                           /\ Handlers(s) \subseteq DOMAIN s.parts /\ Len(s.parts) > 2 /\ Len(s.parts) \in Nat
  <2>1. s.kind = "try" => /\ {1, Len(s.parts) - 1, Len(s.parts)} \subseteq DOMAIN s.parts
                          /\ Handlers(s) \subseteq DOMAIN s.parts /\ Len(s.parts) > 2
    BY <1>1, ParametersInKinds
  <2>2. StatementAt(text, k)
    BY <1>1, PartsAreBlocks
  <2>3. Len(s.parts) \in Nat
    BY <2>2 DEF StatementAt
  <2> QED
    BY <1>1, <2>1, <2>3, ParametersInKinds
<1>3. SUFFICES ASSUME NEW a \in Places(Span(text, k)), NEW x \in Touched(d, m), NEW y \in Touched(d, m), Apart(text, a, x, y)
               PROVE  FALSE
  BY DEF OneBranch
<1>4. ASSUME NEW q \in DOMAIN s.parts, NEW e \in SUBSET DOMAIN text, NEW n \in run[s.parts[q]][e]
      PROVE  /\ n.done \in SUBSET DOMAIN text
             /\ \A p \in DOMAIN s.parts : \A i \in Places(s.parts[p]) : i \in Touched(e, n) => p = q
             /\ \A p \in DOMAIN s.parts : \A b \in Places(s.parts[p]) : \A v, w \in Touched(e, n) : ~Apart(text, b, v, w)
  BY <1>4, PartFacts
<1>5. Touched(d, Outcome(d, {}, {}, "next")) = {}
  BY DEF Outcome, Touched
<1>6. CASE a = k
  <2>1. PICK p, q \in DOMAIN s.parts : p # q /\ x \in Places(s.parts[p]) /\ y \in Places(s.parts[q])
    BY <1>3, <1>6 DEF Apart
  <2>2. m = Outcome(d, {}, {}, "next") \/ \E r \in DOMAIN s.parts : m \in run[s.parts[r]][d]
    <3>1. s.kind \in {"if", "match"}
      BY <1>3, <1>6 DEF Apart
    <3> QED
      BY <1>1, <3>1, BranchOutcomes
  <2>3. ASSUME NEW r \in DOMAIN s.parts, m \in run[s.parts[r]][d] PROVE FALSE
    <3>1. p = r /\ q = r
      BY <1>3, <1>4, <2>1, <2>3
    <3> QED
      BY <2>1, <3>1
  <2> QED
    BY <1>3, <1>5, <2>2, <2>3
<1>7. ASSUME NEW r \in DOMAIN s.parts, a \in Places(s.parts[r]) PROVE FALSE
  <2>1. x \in Places(s.parts[r]) /\ y \in Places(s.parts[r])
    <3>1. BlockValid(text, s.parts[r])
      BY <1>1, SpanIsBlock
    <3> QED
      BY <1>1, <1>3, <1>7, <3>1, ApartInPart
  <2>2. ASSUME NEW q \in DOMAIN s.parts, NEW e \in SUBSET DOMAIN text, NEW n \in run[s.parts[q]][e]
        PROVE  /\ n.done \in SUBSET DOMAIN text
               /\ x \in Touched(e, n) => q = r /\ y \notin Touched(e, n)
               /\ y \in Touched(e, n) => q = r /\ x \notin Touched(e, n)
    <3>1. x \in Touched(e, n) /\ y \in Touched(e, n) => FALSE
      BY <1>3, <1>4, <1>7, <2>2
    <3> QED
      BY <1>4, <2>1, <2>2, <3>1
  <2>3. CASE s.kind \in {"if", "match"}
    <3>1. m = Outcome(d, {}, {}, "next") \/ \E q \in DOMAIN s.parts : m \in run[s.parts[q]][d]
      BY <1>1, <2>3, BranchOutcomes
    <3> QED
      BY <1>3, <1>5, <2>2, <3>1
  <2>4. CASE s.kind = "with"
    <3>1. m \in run[s.parts[1]][d]
      BY <2>4 DEF Inner
    <3> QED
      BY <1>2, <1>3, <2>2, <2>4, <3>1
  <2>5. CASE s.kind = "loop"
    <3>1. \/ m \in run[s.parts[2]][d]
          \/ \E t \in run[s.parts[1]][d] :
               \/ m = [t EXCEPT !.exit = "next"]
               \/ m = t
               \/ \E n \in run[s.parts[2]][t.done] : m = Joined(t, n, n.exit)
      BY <2>5, LoopOutcomes
    <3>2. \A q \in {1, 2} : \A n \in run[s.parts[q]][d] : ~(x \in Touched(d, n) /\ y \in Touched(d, n))
      BY <1>2, <2>2, <2>5
    <3>3. ASSUME NEW t \in run[s.parts[1]][d], m = [t EXCEPT !.exit = "next"] PROVE FALSE
      <4>1. Stays(text, Reach(base, s.parts[1]), d, t)
        BY <1>2, <2>5 DEF PartsKnown, Known
      <4>2. m.done = t.done /\ m.failed = t.failed
        BY <3>3, <4>1, StaysCaught
      <4>3. Touched(d, m) = Touched(d, t)
        BY <4>2 DEF Touched
      <4> QED
        BY <1>3, <3>2, <4>3
    <3>4. ASSUME NEW t \in run[s.parts[1]][d], NEW n \in run[s.parts[2]][t.done], m = Joined(t, n, n.exit) PROVE FALSE
      <4>1. x \in Touched(d, t) \cup Touched(t.done, n) /\ y \in Touched(d, t) \cup Touched(t.done, n)
        BY <1>3, <3>4, TouchedJoined
      <4>2. t.done \in SUBSET DOMAIN text /\ (x \in Touched(d, t) => 1 = r /\ y \notin Touched(d, t))
            /\ (y \in Touched(d, t) => 1 = r /\ x \notin Touched(d, t))
        BY <1>2, <2>2, <2>5
      <4>3. /\ x \in Touched(t.done, n) => 2 = r /\ y \notin Touched(t.done, n)
            /\ y \in Touched(t.done, n) => 2 = r /\ x \notin Touched(t.done, n)
        BY <1>2, <2>2, <2>5, <3>4, <4>2
      <4> QED
        BY <4>1, <4>2, <4>3
    <3> QED
      BY <1>3, <3>1, <3>2, <3>3, <3>4
  <2>6. CASE s.kind = "try"
    <3>1. PICK t, z, f :
            /\ t \in run[s.parts[1]][d] /\ f \in run[Final(s)][z.done]
            /\ t.done \in SUBSET DOMAIN text /\ z.done \in SUBSET DOMAIN text
            /\ m = Joined(z, f, IF f.exit = "next" THEN z.exit ELSE f.exit)
            /\ \/ z = t
               \/ t.exit = "next" /\ \E n \in run[Else(s)][t.done] : z = Joined(t, n, n.exit)
               \/ t.exit = "raise" /\ \E h \in Handlers(s) : \E n \in run[s.parts[h]][t.done] : z = Joined(t, n, n.exit)
      BY <2>6, TryPath
    <3>2. x \in Touched(d, z) \cup Touched(z.done, f) /\ y \in Touched(d, z) \cup Touched(z.done, f)
      BY <1>3, <3>1, TouchedJoined
    <3>3. /\ x \in Touched(z.done, f) => Len(s.parts) = r /\ y \notin Touched(z.done, f)
          /\ y \in Touched(z.done, f) => Len(s.parts) = r /\ x \notin Touched(z.done, f)
      BY <1>2, <2>2, <2>6, <3>1 DEF Final
    <3>4. /\ x \in Touched(d, t) => 1 = r /\ y \notin Touched(d, t)
          /\ y \in Touched(d, t) => 1 = r /\ x \notin Touched(d, t)
      BY <1>2, <2>2, <2>6, <3>1
    <3>5. ASSUME NEW q \in DOMAIN s.parts, q # 1, q # Len(s.parts), NEW n \in run[s.parts[q]][t.done], z = Joined(t, n, n.exit)
          PROVE  /\ x \in Touched(d, z) => r # Len(s.parts) /\ y \notin Touched(d, z)
                 /\ y \in Touched(d, z) => r # Len(s.parts) /\ x \notin Touched(d, z)
      <4>1. Touched(d, z) \subseteq Touched(d, t) \cup Touched(t.done, n)
        BY <3>5, TouchedJoined
      <4>2. /\ x \in Touched(t.done, n) => q = r /\ y \notin Touched(t.done, n)
            /\ y \in Touched(t.done, n) => q = r /\ x \notin Touched(t.done, n)
        BY <2>2, <3>1, <3>5
      <4>3. 1 # Len(s.parts)
        BY <1>2, <2>6
      <4> QED
        BY <3>4, <3>5, <4>1, <4>2, <4>3
    <3>6. /\ x \in Touched(d, z) => r # Len(s.parts) /\ y \notin Touched(d, z)
          /\ y \in Touched(d, z) => r # Len(s.parts) /\ x \notin Touched(d, z)
      <4>1. 1 # Len(s.parts) /\ Len(s.parts) - 1 # 1 /\ Len(s.parts) - 1 # Len(s.parts)
        BY <1>2, <2>6
      <4>2. \A h \in Handlers(s) : h # 1 /\ h # Len(s.parts) /\ h \in DOMAIN s.parts
        BY <1>2, <2>6 DEF Handlers
      <4>3. CASE z = t
        BY <3>4, <4>1, <4>3
      <4>4. ASSUME NEW n \in run[Else(s)][t.done], z = Joined(t, n, n.exit)
            PROVE  /\ x \in Touched(d, z) => r # Len(s.parts) /\ y \notin Touched(d, z)
                   /\ y \in Touched(d, z) => r # Len(s.parts) /\ x \notin Touched(d, z)
        BY <1>2, <2>6, <3>5, <4>1, <4>4 DEF Else
      <4>5. ASSUME NEW h \in Handlers(s), NEW n \in run[s.parts[h]][t.done], z = Joined(t, n, n.exit)
            PROVE  /\ x \in Touched(d, z) => r # Len(s.parts) /\ y \notin Touched(d, z)
                   /\ y \in Touched(d, z) => r # Len(s.parts) /\ x \notin Touched(d, z)
        BY <3>5, <4>2, <4>5
      <4> QED
        BY <3>1, <4>3, <4>4, <4>5
    <3> QED
      BY <3>2, <3>3, <3>6
  <2> QED
    BY <2>3, <2>4, <2>5, <2>6
<1> QED
  <2>1. \A i \in Places(Span(text, k)) : i = k \/ \E r \in DOMAIN s.parts : i \in Places(s.parts[r])
    BY <1>1, SpanIsBlock
  <2> QED
    BY <1>6, <1>7, <2>1

LEMMA EnteringFields ==
  ASSUME NEW k, NEW d, NEW m
  PROVE  LET o == Entering(k, d, m)
         IN  /\ Touched(d, o) \subseteq {k} \cup Touched(d \cup {k}, m)
             /\ o.done = m.done /\ o.early = Begun(k, d) \cup m.early /\ o.failed = m.failed /\ o.exit = m.exit
<1> DEFINE e == Ends(k, d, "next")
           o == Joined(e, m, m.exit)
<1>1. e.done = d \cup {k} /\ e.failed = {} /\ e.early = Begun(k, d)
  BY EndsFields
<1> HIDE DEF e
<1>2. o.done = m.done /\ o.early = e.early \cup m.early /\ o.failed = e.failed \cup m.failed /\ o.exit = m.exit
  BY JoinedFields
<1>3. Touched(d, o) \subseteq Touched(d, e) \cup Touched(e.done, m)
  BY TouchedJoined
<1>4. Touched(d, e) \subseteq {k}
  BY <1>1 DEF Touched
<1> QED
  BY <1>1, <1>2, <1>3, <1>4 DEF Entering, e

LEMMA NotBegun ==
  ASSUME NEW text, TextValid(text), NEW k \in DOMAIN text, NEW d, NEW i \in Places(Span(text, k)), NEW j
  PROVE  <<i, j>> \notin Begun(k, d)
<1>1. k \in Nat /\ End(text, k) \in Nat
  BY EndOfStatement
<1>2. i >= k /\ i \in Nat
  BY <1>1 DEF Span, Block, Places
<1> QED
  BY <1>1, <1>2 DEF Begun

LEMMA PlainSpan ==
  ASSUME NEW text, TextValid(text), NEW k \in DOMAIN text, text[k].kind \in {"call", "return", "raise", "break", "continue"}
  PROVE  Places(Span(text, k)) = {k}
<1>1. StatementAt(text, k)
  BY PartsAreBlocks
<1>2. Len(text[k].parts) = 0
  BY <1>1 DEF StatementAt, Arity
<1>3. DOMAIN text[k].parts = {}
  BY <1>1, <1>2 DEF StatementAt
<1> QED
  BY <1>3, SpanIsBlock

LEMMA NoBranchAtFirst ==
  ASSUME NEW text, TextValid(text), NEW k \in DOMAIN text, NEW a \in Places(Span(text, k)), NEW y
  PROVE  ~Apart(text, a, k, y) /\ ~Apart(text, a, y, k)
<1>1. BlockValid(text, Span(text, k)) /\ k \in Nat /\ End(text, k) \in Nat
  BY SpanIsBlock, EndOfStatement
<1>2. a >= k /\ a \in Nat
  BY <1>1 DEF Span, Block, Places
<1>3. ~(k > a)
  BY <1>1, <1>2
<1> QED
  BY <1>1, <1>3, ApartInPart

LEMMA PlainKnown ==
  ASSUME NEW world, NEW text, NEW base, NEW run, Runs(world, text, base, run), NEW k \in DOMAIN text, k >= base,
         NEW d \in SUBSET DOMAIN text, NEW o \in One(world, text, k, run, d),
         text[k].kind \in {"call", "return", "raise", "break", "continue"}
  PROVE  Finished(text, Span(text, k), o) /\ InOrder(text, Span(text, k), o) /\ Raised(text, Span(text, k), o)
         /\ OneBranch(text, Span(text, k), d, o)
<1>1. TextValid(text) /\ base \in Nat
  BY DEF Runs
<1>2. Places(Span(text, k)) = {k}
  BY <1>1, PlainSpan
<1>3. \A j : <<k, j>> \notin Begun(k, d)
  BY <1>1, <1>2, NotBegun
<1>4. OneBranch(text, Span(text, k), d, o)
  BY <1>2 DEF OneBranch, Apart
<1>5. \/ o = Fails(k, d)
      \/ text[k].kind = "call" /\ o = Ends(k, d, "next")
      \/ text[k].kind \in {"return", "break", "continue"} /\ o = Ends(k, d, text[k].kind)
      \/ text[k].kind = "call" /\ CallOutcome(world, k, d, o)
  BY <1>1, PlainOutcomes
<1>6. CASE o = Fails(k, d)
  <2>1. o.exit = "raise" /\ o.early = Begun(k, d)
    BY <1>6, FailsFields
  <2> QED
    BY <1>2, <1>3, <1>4, <2>1 DEF Finished, InOrder, Raised
<1>7. ASSUME NEW exit, o = Ends(k, d, exit)
      PROVE  Finished(text, Span(text, k), o) /\ InOrder(text, Span(text, k), o) /\ Raised(text, Span(text, k), o)
  <2>1. o.done = d \cup {k} /\ o.early = Begun(k, d) /\ o.failed = {}
    BY <1>7, EndsFields
  <2> QED
    BY <1>2, <1>3, <2>1 DEF Finished, InOrder, Raised
<1>8. CASE CallOutcome(world, k, d, o)
  <2>1. PICK n \in world.calls[k][d] :
          \/ n.exit \notin {"next", "return"} /\ o = n
          \/ o = Outcome(n.done \cup {k}, n.early \cup Begun(k, d), n.failed, "next")
    BY <1>8 DEF CallOutcome
  <2>2. Stays(text, 1 .. base - 1, d, n)
    BY <1>8 DEF Runs, CallsStay, CallOutcome
  <2>3. k \notin n.failed /\ \A j \in Nat : <<k, j>> \notin n.early
    <3>1. k \in Nat /\ ~(k <= base - 1)
      BY <1>1 DEF TextValid
    <3> HIDE <1>8
    <3>2. k \notin n.failed
      BY <1>1, <2>2, <3>1 DEF Stays, Touched
    <3>3. ASSUME NEW j \in Nat, <<k, j>> \in n.early PROVE FALSE
      <4>1. j \in 1 .. base - 1 /\ k < j
        BY <2>2, <3>1, <3>3 DEF Stays
      <4> QED
        BY <1>1, <3>1, <4>1
    <3> QED
      BY <3>2, <3>3
  <2>4. CASE n.exit \notin {"next", "return"} /\ o = n
    BY <1>2, <1>4, <2>3, <2>4 DEF Finished, InOrder, Raised
  <2>5. CASE o = Outcome(n.done \cup {k}, n.early \cup Begun(k, d), n.failed, "next")
    <3>1. o.done = n.done \cup {k} /\ o.early = n.early \cup Begun(k, d) /\ o.failed = n.failed
      BY <2>5 DEF Outcome
    <3> QED
      BY <1>2, <1>3, <1>4, <2>3, <3>1 DEF Finished, InOrder, Raised
  <2> QED
    BY <2>1, <2>4, <2>5
<1> QED
  BY <1>4, <1>5, <1>6, <1>7, <1>8

LEMMA StatementKnown ==
  ASSUME NEW world, NEW text, NEW base, NEW run, Runs(world, text, base, run), NEW k \in DOMAIN text, k >= base,
         PartsKnown(text, base, run, k), NEW d \in SUBSET DOMAIN text, NEW o \in One(world, text, k, run, d)
  PROVE  Known(text, base, Span(text, k), d, o)
<1> DEFINE b == Span(text, k)
           T == Reach(base, b)
<1>1. TextValid(text)
  BY DEF Runs
<1>2. PartsStay(text, run, k, T)
  <2>1. \A j \in DOMAIN text[k].parts : Reach(base, text[k].parts[j]) \subseteq T
    BY <1>1, SpanIsBlock DEF Reach
  <2> QED
    BY <2>1, StaysWider DEF PartsStay, PartsKnown, Known
<1>3. PartsLeave(text, run, k)
  <2>1. \A U, e, m : Stays(text, U, e, m) => m.done \in SUBSET DOMAIN text /\ m.exit \in Exits
    BY DEF Stays, Outcomes
  <2> QED
    BY <2>1 DEF PartsLeave, PartsKnown, Known
<1>4. Stays(text, T, d, o) /\ Leaves(text, b, o)
  BY <1>2, <1>3, StatementStays, StatementLeaves
<1>5. \A m : /\ Touched(d, Entering(k, d, m)) \subseteq {k} \cup Touched(d \cup {k}, m)
             /\ Entering(k, d, m).done = m.done /\ Entering(k, d, m).early = Begun(k, d) \cup m.early
             /\ Entering(k, d, m).failed = m.failed /\ Entering(k, d, m).exit = m.exit
  BY ONLY EnteringFields
<1>6. CASE text[k].kind \in {"if", "match", "loop", "with", "try"}
  <2>1. \/ o = Fails(k, d)
        \/ \E m \in Inner(world, text[k], k, run, d \cup {k}) : o = Entering(k, d, m)
    BY <1>1, <1>6, CompoundOutcomes
  <2>2. \A a \in Places(b) : \A j : <<a, j>> \notin Begun(k, d)
    BY <1>1, NotBegun
  <2>3. \A a \in Places(b) : \A y : ~Apart(text, a, k, y) /\ ~Apart(text, a, y, k)
    BY <1>1, NoBranchAtFirst
  <2>4. CASE o = Fails(k, d)
    <3>1. o.exit = "raise" /\ o.early = Begun(k, d) /\ o.done = d /\ o.failed = {k}
      BY <2>4, FailsFields
    <3>2. Finished(text, b, o) /\ Raised(text, b, o)
      BY <3>1 DEF Finished, Raised
    <3>3. InOrder(text, b, o)
      BY <2>2, <3>1 DEF InOrder
    <3>4. OneBranch(text, b, d, o)
      BY <2>3, <3>1 DEF OneBranch, Touched
    <3> QED
      BY <1>4, <3>2, <3>3, <3>4 DEF Known
  <2>5. ASSUME NEW m \in Inner(world, text[k], k, run, d \cup {k}), o = Entering(k, d, m) PROVE Known(text, base, b, d, o)
    <3> DEFINE e == d \cup {k}
    <3>1. e \in SUBSET DOMAIN text /\ k \in e
      OBVIOUS
    <3> HIDE DEF e
    <3>2. m \in Inner(world, text[k], k, run, e)
      BY DEF e
    <3>3. Stays(text, T, e, m)
      BY <1>2, <1>6, <3>1, <3>2, InnerStays
    <3>4. e \subseteq m.done
      BY <3>3 DEF Stays
    <3>5. Finished(text, b, m)
      BY <1>6, <3>1, <3>2, <3>4, InnerFinished
    <3>6. InOrder(text, b, m)
      BY <1>6, <3>1, <3>2, <3>3, InnerInOrder
    <3>7. Raised(text, b, m)
      BY <1>6, <3>1, <3>2, InnerRaised
    <3>8. OneBranch(text, b, e, m)
      BY <1>6, <3>1, <3>2, InnerOneBranch
    <3>9. /\ Touched(d, o) \subseteq {k} \cup Touched(e, m)
          /\ o.done = m.done /\ o.early = Begun(k, d) \cup m.early /\ o.failed = m.failed /\ o.exit = m.exit
      BY ONLY <1>5, <2>5 DEF e
    <3>10. Finished(text, b, o) /\ Raised(text, b, o)
      BY <3>5, <3>7, <3>9 DEF Finished, Raised
    <3>11. InOrder(text, b, o)
      BY <2>2, <3>6, <3>9 DEF InOrder
    <3>12. OneBranch(text, b, d, o)
      BY <2>3, <3>8, <3>9 DEF OneBranch
    <3> QED
      BY <1>4, <3>10, <3>11, <3>12 DEF Known
  <2> QED
    BY <2>1, <2>4, <2>5
<1>7. CASE text[k].kind \notin {"if", "match", "loop", "with", "try"}
  <2>1. text[k].kind \in {"call", "return", "raise", "break", "continue"}
    <3>1. StatementAt(text, k)
      BY <1>1, PartsAreBlocks
    <3> QED
      BY <3>1, <1>7 DEF StatementAt, StatementKinds
  <2> QED
    BY <1>4, <2>1, PlainKnown DEF Known
<1> QED
  BY <1>6, <1>7

(* A block is executed as its first statement and what follows.             *)
LEMMA SequenceKnown ==
  ASSUME NEW text, TextValid(text), NEW base \in Nat, NEW b, BlockValid(text, b), ~IsEmpty(b), b.first >= base,
         NEW d, NEW a, Known(text, base, Span(text, b.first), d, a),
         NEW n, a.exit = "next" => Known(text, base, Rest(text, b), a.done, n),
         NEW o, Stays(text, Reach(base, b), d, o), Leaves(text, b, o),
         (a.exit # "next" /\ o = a) \/ (a.exit = "next" /\ o = Joined(a, n, n.exit))
  PROVE  Known(text, base, b, d, o)
<1> DEFINE k == b.first
           span == Span(text, k)
           rest == Rest(text, b)
<1>1. /\ k \in DOMAIN text /\ k \in Nat /\ b \in Blocks(text)
      /\ BlockValid(text, rest) /\ rest.first > k /\ rest.first \in Nat
      /\ \A m \in Places(b) : m \in Nat /\ (m \in Places(span) \/ m \in Places(rest))
      /\ \A m \in Places(span) : \A w \in Places(rest) : m < w
      /\ span.first = k /\ BlockValid(text, span) /\ span.last = End(text, k) /\ rest.first = End(text, k) + 1
      /\ \A m \in Places(rest) : m > End(text, k) /\ m \in Nat
      /\ Places(span) \subseteq Places(b) /\ Places(rest) \subseteq Places(b)
  <2>1. /\ k \in DOMAIN text /\ k \in Nat /\ b \in Blocks(text)
        /\ BlockValid(text, rest) /\ rest.first > k /\ rest.first \in Nat /\ rest.first = End(text, k) + 1 /\ End(text, k) \in Nat
        /\ \A m \in Places(b) : m \in Nat /\ (m \in Places(span) \/ m \in Places(rest))
        /\ \A m \in Places(span) : \A w \in Places(rest) : m < w
        /\ Places(span) \subseteq Places(b) /\ Places(rest) \subseteq Places(b)
    BY BlockSplits
  <2>2. span.first = k /\ span.last = End(text, k)
    BY DEF Span, Block
  <2>3. BlockValid(text, span)
    BY <2>1, SpanIsBlock
  <2>4. rest.last \in Nat
    BY <2>1 DEF BlockValid, Blocks, TextValid
  <2>5. \A m \in Places(rest) : m > End(text, k) /\ m \in Nat
    BY <2>1, <2>4 DEF Places
  <2> QED
    BY <2>1, <2>2, <2>3, <2>5
<1>2. \A m \in Places(b) : m >= base /\ m >= k /\ m \notin 1 .. base - 1
  BY <1>1 DEF Places, Blocks, TextValid
<1> HIDE DEF span, rest
<1>3. /\ Stays(text, Reach(base, span), d, a)
      /\ Finished(text, span, a) /\ InOrder(text, span, a) /\ Raised(text, span, a) /\ OneBranch(text, span, d, a)
  BY DEF Known, span
<1>4. a.exit = "next" =>
      /\ Stays(text, Reach(base, rest), a.done, n)
      /\ Finished(text, rest, n) /\ InOrder(text, rest, n) /\ Raised(text, rest, n) /\ OneBranch(text, rest, a.done, n)
  BY DEF Known, rest
<1>5. a.exit # "next" => o = a
  OBVIOUS
<1>6. a.exit = "next" =>
      /\ o.done = n.done /\ o.early = a.early \cup n.early /\ o.failed = a.failed \cup n.failed /\ o.exit = n.exit
      /\ Touched(d, o) \subseteq Touched(d, a) \cup Touched(a.done, n)
  BY JoinedFields, TouchedJoined
<1>7. \A i \in Places(span) : i \notin Places(rest) /\ i \notin 1 .. base - 1
  <2>1. \A i \in Places(span) : i \in Nat /\ ~(i < i)
    BY <1>1
  <2> QED
    BY <1>1, <1>2, <2>1
<1>8. \A i \in Places(rest) : i \notin Places(span) /\ i \notin 1 .. base - 1
  BY <1>1, <1>2, <1>7
<1>9. \A i \in Places(rest) : i \notin Touched(d, a)
  BY <1>3, <1>8 DEF Stays, Reach
<1>10. a.exit = "next" => \A i \in Places(span) : i \notin Touched(a.done, n)
  BY <1>4, <1>7 DEF Stays, Reach
<1>11. Finished(text, b, o)
  <2>1. SUFFICES ASSUME o.exit = "next", NEW i \in Places(b), Sure(text, b, i) PROVE i \in o.done
    BY DEF Finished
  <2>2. a.exit = "next" /\ n.exit = "next"
    BY <1>5, <1>6, <2>1
  <2>3. \A s \in DOMAIN text : s \in Nat /\ (s >= rest.first => s >= b.first)
    BY <1>1 DEF TextValid
  <2>4. CASE i \in Places(span)
    <3>1. Sure(text, span, i)
      BY <1>1, <2>1, <2>4 DEF Sure
    <3>2. i \in a.done
      BY <1>3, <2>2, <2>4, <3>1 DEF Finished
    <3> QED
      BY <1>4, <1>6, <2>2, <3>2 DEF Stays
  <2>5. CASE i \in Places(rest)
    <3>1. Sure(text, rest, i)
      BY <2>1, <2>3, <2>5 DEF Sure
    <3> QED
      BY <1>4, <1>6, <2>2, <2>5, <3>1 DEF Finished
  <2> QED
    BY <1>1, <2>4, <2>5
<1>12. InOrder(text, b, o)
  <2>1. SUFFICES ASSUME NEW i \in Places(b), NEW j \in Nat, <<i, j>> \in o.early, Precedes(text, i, j) PROVE FALSE
    BY DEF InOrder
  <2>2. i < j /\ i \in Nat
    BY <1>1, <2>1 DEF Precedes
  <2>3. CASE <<i, j>> \in a.early
    <3>1. i \notin Places(span)
      BY <1>3, <2>1, <2>3 DEF InOrder
    <3>2. i \in Places(rest)
      BY <1>1, <3>1
    <3>3. j \in Places(span) \/ j \in 1 .. base - 1
      BY <1>3, <2>2, <2>3 DEF Stays, Reach
    <3>4. j \in 1 .. base - 1
      <4>1. j \in Places(span) => j < i
        BY <1>1, <3>2
      <4> QED
        BY <2>2, <3>3, <4>1
    <3> QED
      BY <1>2, <2>2, <3>4
  <2>4. ASSUME a.exit = "next", <<i, j>> \in n.early PROVE FALSE
    <3>1. i \notin Places(rest)
      BY <1>4, <2>1, <2>4 DEF InOrder
    <3>2. i \in Places(span)
      BY <1>1, <3>1
    <3>3. (j \in Places(rest) \/ j \in 1 .. base - 1) /\ i \notin a.done
      BY <1>4, <2>2, <2>4 DEF Stays, Reach
    <3>4. j \in Places(rest)
      BY <1>2, <2>2, <3>3
    <3>5. j > span.last
      BY <1>1, <3>4
    <3>6. Sure(text, span, i)
      BY <1>1, <2>1, <3>2, <3>5, SureBefore
    <3> QED
      BY <1>3, <2>4, <3>2, <3>3, <3>6 DEF Finished
  <2> QED
    BY <1>5, <1>6, <2>1, <2>3, <2>4
<1>13. Raised(text, b, o)
  <2>1. SUFFICES ASSUME NEW i \in Places(b), i \in o.failed, Escapes(text, b, i) PROVE o.exit = "raise"
    BY DEF Raised
  <2>2. \A s \in DOMAIN text : s \in Nat /\ (s >= rest.first => s >= b.first)
    BY <1>1 DEF TextValid
  <2>3. CASE i \in a.failed
    <3>1. i \in Places(span)
      BY <1>1, <1>9, <2>3 DEF Touched
    <3>2. Escapes(text, span, i)
      BY <1>1, <2>1, <3>1 DEF Escapes
    <3>3. a.exit = "raise"
      BY <1>3, <2>3, <3>1, <3>2 DEF Raised
    <3> QED
      BY <1>5, <3>3
  <2>4. ASSUME a.exit = "next", i \in n.failed PROVE o.exit = "raise"
    <3>1. i \in Places(rest)
      BY <1>1, <1>10, <2>4 DEF Touched
    <3>2. Escapes(text, rest, i)
      BY <2>1, <2>2, <3>1 DEF Escapes
    <3> QED
      BY <1>4, <1>6, <2>4, <3>1, <3>2 DEF Raised
  <2> QED
    BY <1>5, <1>6, <2>1, <2>3, <2>4
<1>14. OneBranch(text, b, d, o)
  <2>1. SUFFICES ASSUME NEW s \in Places(b), NEW x \in Touched(d, o), NEW y \in Touched(d, o), Apart(text, s, x, y) PROVE FALSE
    BY DEF OneBranch
  <2>2. CASE s \in Places(span)
    <3>1. x \in Places(span) /\ y \in Places(span)
      BY <1>1, <2>1, <2>2, ApartInPart
    <3>2. x \in Touched(d, a) /\ y \in Touched(d, a)
      BY <1>5, <1>6, <1>10, <2>1, <3>1
    <3> QED
      BY <1>3, <2>1, <2>2, <3>2 DEF OneBranch
  <2>3. CASE s \in Places(rest)
    <3>1. x \in Places(rest) /\ y \in Places(rest)
      BY <1>1, <2>1, <2>3, ApartInPart
    <3>2. a.exit = "next" /\ x \in Touched(a.done, n) /\ y \in Touched(a.done, n)
      BY <1>5, <1>6, <1>9, <2>1, <3>1
    <3> QED
      BY <1>4, <2>1, <2>3, <3>2 DEF OneBranch
  <2> QED
    BY <1>1, <2>2, <2>3
<1> QED
  BY <1>11, <1>12, <1>13, <1>14 DEF Known

LEMMA ExecutionsKnown ==
  ASSUME NEW world, NEW text, NEW base, NEW run, Runs(world, text, base, run)
  PROVE  \A b \in Blocks(text) : BlockValid(text, b) /\ b.first >= base =>
           \A d \in SUBSET DOMAIN text : \A o \in run[b][d] : Known(text, base, b, d, o)
<1> DEFINE G == {b \in Blocks(text) : b.first >= base =>
                   \A d \in SUBSET DOMAIN text : \A o \in run[b][d] : Known(text, base, b, d, o)}
<1>1. TextValid(text) /\ base \in Nat
  BY DEF Runs
<1>2. ASSUME NEW b \in Blocks(text), BlockValid(text, b),
             \A c \in Blocks(text) : BlockValid(text, c) /\ c.first > b.first => c \in G
      PROVE  b \in G
  <2>1. SUFFICES ASSUME b.first >= base, NEW d \in SUBSET DOMAIN text, NEW o \in run[b][d]
                 PROVE  Known(text, base, b, d, o)
    OBVIOUS
  <2>2. Stays(text, Reach(base, b), d, o) /\ Leaves(text, b, o)
    BY <1>2, <2>1, ExecutionsStay, ExecutionsLeave
  <2>3. CASE IsEmpty(b)
    <3>1. Places(b) = {}
      BY <1>1, <2>3 DEF IsEmpty, Places, Blocks, TextValid
    <3>2. Finished(text, b, o) /\ InOrder(text, b, o) /\ Raised(text, b, o) /\ OneBranch(text, b, d, o)
      BY <3>1 DEF Finished, InOrder, Raised, OneBranch
    <3> QED
      BY <2>2, <3>2 DEF Known
  <2>4. CASE ~IsEmpty(b)
    <3> DEFINE k == b.first
               rest == Rest(text, b)
    <3>1. k \in DOMAIN text /\ k \in Nat /\ rest \in Blocks(text) /\ BlockValid(text, rest) /\ rest.first > k /\ rest.first \in Nat
      BY <1>1, <1>2, <2>4, BlockSplits
    <3>2. PICK a \in One(world, text, k, run, d) :
            \/ a.exit # "next" /\ o = a
            \/ a.exit = "next" /\ \E n \in run[rest][a.done] : o = Joined(a, n, n.exit)
      BY <2>4, SequenceOutcomes
    <3> HIDE DEF rest
    <3>3. PartsKnown(text, base, run, k)
      <4>1. ASSUME NEW j \in DOMAIN text[k].parts
            PROVE  \A e \in SUBSET DOMAIN text : \A m \in run[text[k].parts[j]][e] : Known(text, base, text[k].parts[j], e, m)
        <5>1. BlockValid(text, text[k].parts[j]) /\ text[k].parts[j] \in Blocks(text) /\ text[k].parts[j].first > k
          BY <1>1, <3>1, SpanIsBlock
        <5>2. text[k].parts[j].first \in Nat
          BY <5>1, <1>1 DEF Blocks, TextValid
        <5>3. text[k].parts[j] \in G /\ text[k].parts[j].first >= base
          BY <5>1, <5>2, <1>1, <1>2, <2>1, <3>1
        <5> QED
          BY <5>3
      <4> HIDE DEF G
      <4> QED
        BY <4>1 DEF PartsKnown
    <3>4. Known(text, base, Span(text, k), d, a)
      BY <2>1, <3>1, <3>3, StatementKnown
    <3>5. a.done \in SUBSET DOMAIN text
      BY <3>4 DEF Known, Stays, Outcomes
    <3>6. \A n \in run[rest][a.done] : Known(text, base, rest, a.done, n)
      <4>1. rest \in G /\ rest.first >= base
        BY <1>1, <1>2, <2>1, <3>1
      <4> QED
        BY <3>5, <4>1
    <3>7. CASE a.exit # "next" /\ o = a
      BY <1>1, <1>2, <2>1, <2>2, <2>4, <3>4, <3>7, SequenceKnown
    <3>8. ASSUME a.exit = "next", NEW n \in run[rest][a.done], o = Joined(a, n, n.exit) PROVE Known(text, base, b, d, o)
      <4>1. Known(text, base, rest, a.done, n)
        BY <3>6, <3>8
      <4> QED
        BY <1>1, <1>2, <2>1, <2>2, <2>4, <3>4, <3>8, <4>1, SequenceKnown DEF rest
    <3> QED
      BY <3>2, <3>7, <3>8
  <2> QED
    BY <2>3, <2>4
<1> HIDE DEF G
<1>3. \A b \in Blocks(text) : BlockValid(text, b) => b \in G
  BY <1>1, <1>2, BlockInduction
<1> QED
  BY <1>3 DEF G

(* The executions of a body that is alone.                                  *)
LEMMA ExecutionsOfText ==
  ASSUME NEW text, TextValid(text)
  PROVE  \A o \in Executions(text) : Known(text, 1, Whole(text), {}, o)
<1> DEFINE run == Execute(Anything, text)
<1>1. WorldValid(Anything, text)
  <2>1. Anything.takes = <<>> /\ Anything.calls = <<>>
    BY DEF Anything
  <2>2. \A k \in DOMAIN text : Taken(Anything, text[k], k) = DOMAIN text[k].parts \cup (IF text[k].kind = "match" /\ ~text[k].default THEN {0} ELSE {})
    BY <2>1 DEF Taken
  <2> QED
    BY <2>2 DEF WorldValid
<1>2. CallsStay(Anything, text, 1)
  <2>1. DOMAIN Anything.calls = {}
    BY DEF Anything
  <2> QED
    BY <2>1 DEF CallsStay
<1>3. Runs(Anything, text, 1, run)
  BY <1>1, <1>2, ExecuteUnfolds DEF Runs
<1>4. Whole(text) \in Blocks(text) /\ BlockValid(text, Whole(text)) /\ Whole(text).first = 1
  <2>1. Len(text) \in Nat /\ DOMAIN text = 1 .. Len(text) /\ \A k \in DOMAIN text : End(text, k) <= Len(text)
    BY DEF TextValid
  <2> QED
    BY <2>1 DEF Whole, Block, Blocks, BlockValid, Places
<1> HIDE DEF run
<1>5. \A o \in run[Whole(text)][{}] : Known(text, 1, Whole(text), {}, o)
  BY <1>3, <1>4, ExecutionsKnown
<1> QED
  BY <1>5 DEF Executions, run

-----------------------------------------------------------------------------
(* The context of a statement tells the parts of statements that it is in.  *)
LEMMA EnclosureIsOfParts ==
  ASSUME NEW text, TextValid(text), NEW k \in DOMAIN text
  PROVE  /\ \A s \in Enclosing(text, k) : /\ s \in DOMAIN text /\ s < k
                                          /\ PartOf(text, s, k) \in DOMAIN text[s].parts
                                          /\ k \in Places(text[s].parts[PartOf(text, s, k)])
         /\ \A s \in DOMAIN text : \A p \in DOMAIN text[s].parts :
              k \in Places(text[s].parts[p]) => s \in Enclosing(text, k) /\ PartOf(text, s, k) = p
<1>1. k \in 1 .. Len(text) /\ Len(text) \in Nat /\ DOMAIN text = 1 .. Len(text)
  BY DEF TextValid
<1>2. ASSUME NEW s \in Enclosing(text, k)
      PROVE  s \in DOMAIN text /\ s < k /\ \E p \in DOMAIN text[s].parts : k \in Places(text[s].parts[p])
  <2>1. s \in 1 .. k - 1 /\ k <= End(text, s)
    BY DEF Enclosing
  <2>2. s \in DOMAIN text /\ s < k
    BY <1>1, <2>1
  <2>3. End(text, s) \in Nat
    BY <2>2, EndOfStatement
  <2>4. k \in s + 1 .. End(text, s)
    BY <1>1, <2>1, <2>3
  <2> QED
    BY <2>2, <2>4, PartsAreBlocks
<1>3. ASSUME NEW s \in DOMAIN text, NEW p \in DOMAIN text[s].parts, k \in Places(text[s].parts[p])
      PROVE  s \in Enclosing(text, k) /\ PartOf(text, s, k) = p
  <2>1. k > s /\ \A q \in DOMAIN text[s].parts : k \in Places(text[s].parts[q]) => p = q
    BY <1>3, PartsAreApart
  <2>2. k \in Places(Span(text, s)) /\ End(text, s) \in Nat
    BY <1>3, SpanIsBlock, EndOfStatement
  <2>3. k <= End(text, s)
    BY <1>1, <2>2 DEF Span, Block, Places
  <2>4. s \in Enclosing(text, k)
    BY <1>1, <2>1, <2>3 DEF Enclosing
  <2> QED
    BY <1>3, <2>1, <2>4 DEF PartOf
<1> QED
  BY <1>2, <1>3 DEF PartOf

LEMMA GreatestNatural ==
  ASSUME NEW n \in Nat, NEW S \in SUBSET (1 .. n), S # {}
  PROVE  Max(S) \in S /\ \A x \in S : x <= Max(S)
<1> DEFINE T == {n - x : x \in S}
<1>1. T \in SUBSET Nat /\ T # {}
  <2>1. \A x \in S : n - x \in Nat
    OBVIOUS
  <2>2. \A t \in T : t \in Nat
    BY <2>1
  <2> QED
    BY <2>2
<1>2. PICK t \in T : \A u \in T : t <= u
  BY <1>1, LeastNatural
<1>3. PICK m \in S : t = n - m
  OBVIOUS
<1>4. \A x \in S : n - m <= n - x
  BY <1>2, <1>3
<1>5. \A x \in S : m >= x
  BY <1>4
<1>6. \E m0 \in S : \A x \in S : m0 >= x
  BY <1>5
<1>7. Max(S) \in S /\ \A x \in S : Max(S) >= x
  BY <1>6 DEF Max
<1> QED
  BY <1>7

(* What encloses a statement is the innermost and what encloses that.       *)
LEMMA InnermostEncloses ==
  ASSUME NEW text, TextValid(text), NEW k \in DOMAIN text, Enclosing(text, k) # {}
  PROVE  LET m == Max(Enclosing(text, k))
         IN  /\ m \in DOMAIN text /\ m < k /\ m \in Enclosing(text, k)
             /\ Enclosing(text, k) = {m} \cup Enclosing(text, m)
             /\ \A s \in Enclosing(text, m) : PartOf(text, s, k) = PartOf(text, s, m)
<1> DEFINE m == Max(Enclosing(text, k))
<1>1. k \in 1 .. Len(text) /\ Len(text) \in Nat /\ DOMAIN text = 1 .. Len(text)
  BY DEF TextValid
<1>2. m \in Enclosing(text, k) /\ \A s \in Enclosing(text, k) : s <= m
  <2>1. Enclosing(text, k) \in SUBSET (1 .. Len(text))
    BY <1>1 DEF Enclosing
  <2> QED
    BY <1>1, <2>1, GreatestNatural
<1> HIDE DEF m
<1>3. m \in DOMAIN text /\ m < k /\ m \in Nat /\ k <= End(text, m) /\ End(text, m) \in Nat
  BY <1>1, <1>2, EnclosureIsOfParts, EndOfStatement DEF Enclosing
<1>4. \A s \in Enclosing(text, k) : s = m \/ s \in Enclosing(text, m)
  <2>1. SUFFICES ASSUME NEW s \in Enclosing(text, k), s # m PROVE s \in Enclosing(text, m)
    OBVIOUS
  <2>2. s \in Nat /\ s >= 1 /\ s <= m /\ k <= End(text, s) /\ s \in DOMAIN text
    BY <1>1, <1>2, <2>1 DEF Enclosing
  <2>3. End(text, s) \in Nat
    BY <2>2, EndOfStatement
  <2>4. s \in 1 .. m - 1 /\ m <= End(text, s)
    BY <1>1, <1>3, <2>1, <2>2, <2>3
  <2> QED
    BY <2>4 DEF Enclosing
<1>5. ASSUME NEW s \in Enclosing(text, m)
      PROVE  s \in Enclosing(text, k) /\ PartOf(text, s, k) = PartOf(text, s, m)
  <2> DEFINE p == PartOf(text, s, m)
  <2>1. s \in DOMAIN text /\ p \in DOMAIN text[s].parts /\ m \in Places(text[s].parts[p])
    BY <1>3, EnclosureIsOfParts
  <2> HIDE DEF p
  <2>2. BlockValid(text, text[s].parts[p])
    BY <2>1, SpanIsBlock
  <2>3. /\ End(text, m) <= text[s].parts[p].last /\ text[s].parts[p].last \in Nat
        /\ text[s].parts[p].first \in Nat /\ text[s].parts[p].first <= m
    BY <1>1, <1>3, <2>1, <2>2 DEF BlockValid, Blocks, Places
  <2>4. k \in Places(text[s].parts[p])
    BY <1>1, <1>3, <2>3 DEF Places
  <2>5. s \in Enclosing(text, k) /\ PartOf(text, s, k) = p
    BY <2>1, <2>4, EnclosureIsOfParts
  <2> QED
    BY <2>5 DEF p
<1>6. Enclosing(text, k) = {m} \cup Enclosing(text, m)
  BY <1>2, <1>4, <1>5
<1>7. \A s \in Enclosing(text, m) : PartOf(text, s, k) = PartOf(text, s, m)
  BY <1>5
<1> QED
  BY <1>2, <1>3, <1>6, <1>7 DEF m

Listed(q) == {q[i] : i \in DOMAIN q}

LEMMA AppendedIsListed ==
  ASSUME NEW S, NEW q \in Seq(S), NEW x \in S
  PROVE  Append(q, x) \in Seq(S) /\ Listed(Append(q, x)) = Listed(q) \cup {x}
<1> DEFINE r == Append(q, x)
<1>1. /\ r \in Seq(S) /\ Len(r) = Len(q) + 1
      /\ \A i \in 1 .. Len(q) : r[i] = q[i]
      /\ r[Len(q) + 1] = x
  BY AppendProperties
<1> HIDE DEF r
<1>2. DOMAIN q = 1 .. Len(q) /\ Len(q) \in Nat /\ DOMAIN r = 1 .. Len(q) + 1
  BY <1>1, LenProperties
<1>3. DOMAIN r = DOMAIN q \cup {Len(q) + 1}
  BY <1>2
<1>4. Listed(r) = Listed(q) \cup {x}
  BY <1>1, <1>2, <1>3 DEF Listed
<1> QED
  BY <1>1, <1>4 DEF r

Tests == {"if", "match"}
BranchOf(text, s, p) == Branch(s, Disposition(text[s], p))
AllBranches(text) == {BranchOf(text, s, p) : s, p \in Nat}
AllRegions(text) == {Region(text, s, p) : s, p \in Nat}

ContextTold(text, k, c) ==
  LET kinds(some) == {s \in Enclosing(text, k) : text[s].kind \in some}
  IN  /\ c.at = k /\ c.node = text[k]
      /\ c.ancestors \in Seq(AllBranches(text)) /\ c.regions \in Seq(AllRegions(text)) /\ c.in_loop \in BOOLEAN
      /\ Listed(c.ancestors) = {BranchOf(text, s, PartOf(text, s, k)) : s \in kinds(Tests)}
      /\ Listed(c.regions) = {Region(text, s, PartOf(text, s, k)) : s \in kinds({"try"})}
      /\ c.in_loop <=> \E s \in kinds({"loop"}) : PartOf(text, s, k) = 1

ContextFrom(symbol, text, f, k) ==
  IF Enclosing(text, k) = {} THEN Context(symbol, text, k, <<>>, <<>>, FALSE)
  ELSE LET s == Max(Enclosing(text, k))
       IN  Under(f[s], text, PartOf(text, s, k), k)

LEMMA ContextsUnfold ==
  ASSUME NEW symbol, NEW text, TextValid(text)
  PROVE  LET c == CollectStatements(symbol, text)
         IN  \A k \in DOMAIN text : c[k] = ContextFrom(symbol, text, c, k)
<1> DEFINE N == Len(text)
           Unfolded(g, n) == g = [k \in 1 .. n |-> ContextFrom(symbol, text, g, k)]
           G == {n \in Nat : \E g : Unfolded(g, n)}
<1>1. N \in Nat /\ DOMAIN text = 1 .. N
  BY DEF TextValid
<1>2. CollectStatements(symbol, text) = CHOOSE g : g = [k \in DOMAIN text |-> ContextFrom(symbol, text, g, k)]
  BY DEF CollectStatements, ContextFrom
<1> HIDE DEF N
<1>3. \A k \in DOMAIN text : \A f, g : (\A m \in DOMAIN text : m < k => f[m] = g[m]) =>
        ContextFrom(symbol, text, f, k) = ContextFrom(symbol, text, g, k)
  BY InnermostEncloses DEF ContextFrom
<1>4. 0 \in G
  <2> DEFINE g == [k \in 1 .. 0 |-> ContextFrom(symbol, text, <<>>, k)]
  <2>1. \A k : k \notin 1 .. 0
    OBVIOUS
  <2>2. Unfolded(g, 0)
    BY <2>1
  <2> QED
    BY <2>2
<1>5. ASSUME NEW n \in 0 .. N - 1, n \in G PROVE n + 1 \in G
  <2>1. PICK g : Unfolded(g, n)
    BY <1>5
  <2> DEFINE h == [k \in 1 .. n + 1 |-> ContextFrom(symbol, text, g, k)]
  <2>2. \A k \in 1 .. n : g[k] = ContextFrom(symbol, text, g, k)
    BY <2>1
  <2>3. h = [k \in 1 .. n + 1 |-> h[k]] /\ \A k \in 1 .. n + 1 : h[k] = ContextFrom(symbol, text, g, k)
    OBVIOUS
  <2> HIDE DEF h
  <2>4. \A k \in 1 .. n : g[k] = h[k]
    <3>1. \A k \in 1 .. n : k \in 1 .. n + 1
      BY <1>1
    <3> QED
      BY <2>2, <2>3, <3>1
  <2>5. ASSUME NEW k \in 1 .. n + 1 PROVE h[k] = ContextFrom(symbol, text, h, k)
    <3>1. k \in DOMAIN text /\ \A m \in DOMAIN text : m < k => g[m] = h[m]
      <4>1. k \in DOMAIN text
        BY <1>1
      <4>2. \A m \in DOMAIN text : m < k => m \in 1 .. n
        BY <1>1
      <4> QED
        BY <2>4, <4>1, <4>2
    <3> QED
      BY <1>3, <2>3, <3>1
  <2>6. Unfolded(h, n + 1)
    BY <2>3, <2>5
  <2>7. (\E f : Unfolded(f, n + 1)) /\ n + 1 \in Nat
    BY ONLY <2>6, <1>1
  <2> QED
    BY ONLY <2>7
<1>6. N \in G
  <2> HIDE DEF G
  <2>1. 0 .. N \subseteq G
    BY ONLY <1>1, <1>4, <1>5, InductionUpTo
  <2> QED
    BY <1>1, <2>1
<1>7. \E g : g = [k \in DOMAIN text |-> ContextFrom(symbol, text, g, k)]
  BY <1>1, <1>6
<1> DEFINE c == CollectStatements(symbol, text)
<1>8. c = [k \in DOMAIN text |-> ContextFrom(symbol, text, c, k)]
  BY <1>2, <1>7
<1> HIDE DEF c
<1>9. \A k \in DOMAIN text : c[k] = ContextFrom(symbol, text, c, k)
  BY <1>8
<1> QED
  BY <1>9 DEF c

LEMMA ContextIsTold ==
  ASSUME NEW symbol, NEW text, TextValid(text), NEW f, NEW k \in DOMAIN text,
         \A m \in DOMAIN text : m < k => ContextTold(text, m, f[m]) /\ f[m].symbol = symbol
  PROVE  LET c == ContextFrom(symbol, text, f, k)
         IN  ContextTold(text, k, c) /\ c.symbol = symbol
<1> DEFINE c == ContextFrom(symbol, text, f, k)
           kinds(some, j) == {s \in Enclosing(text, j) : text[s].kind \in some}
<1>1. CASE Enclosing(text, k) = {}
  <2>1. c = Context(symbol, text, k, <<>>, <<>>, FALSE)
    BY <1>1 DEF ContextFrom
  <2> HIDE DEF c
  <2>2. c.symbol = symbol /\ c.at = k /\ c.node = text[k] /\ c.ancestors = <<>> /\ c.regions = <<>> /\ c.in_loop = FALSE
    BY <2>1 DEF Context
  <2>3. Listed(<<>>) = {} /\ <<>> \in Seq(AllBranches(text)) /\ <<>> \in Seq(AllRegions(text))
    BY DEF Listed
  <2>4. ContextTold(text, k, c)
    BY <1>1, <2>2, <2>3 DEF ContextTold
  <2> QED
    BY <2>2, <2>4 DEF c
<1>2. CASE Enclosing(text, k) # {}
  <2> DEFINE m == Max(Enclosing(text, k))
             p == PartOf(text, m, k)
             outer == f[m]
  <2>1. /\ m \in DOMAIN text /\ m < k /\ m \in Enclosing(text, k)
        /\ Enclosing(text, k) = {m} \cup Enclosing(text, m)
        /\ \A s \in Enclosing(text, m) : PartOf(text, s, k) = PartOf(text, s, m)
    BY <1>2, InnermostEncloses
  <2>2. c = Under(outer, text, p, k)
    BY <1>2 DEF ContextFrom
  <2>3. m \in Nat /\ p \in Nat
    <3>1. p \in DOMAIN text[m].parts
      BY <2>1, EnclosureIsOfParts
    <3>2. DOMAIN text[m].parts \subseteq Nat
      BY <2>1, PartsAreBlocks DEF StatementAt
    <3> QED
      BY <2>1, <3>1, <3>2 DEF TextValid
  <2> HIDE DEF m, p, outer, c
  <2>4. ContextTold(text, m, outer) /\ outer.symbol = symbol
    BY <2>1 DEF outer
  <2>5. /\ outer.symbol = symbol /\ outer.at = m /\ outer.node = text[m]
        /\ outer.ancestors \in Seq(AllBranches(text)) /\ outer.regions \in Seq(AllRegions(text)) /\ outer.in_loop \in BOOLEAN
        /\ Listed(outer.ancestors) = {BranchOf(text, s, PartOf(text, s, m)) : s \in kinds(Tests, m)}
        /\ Listed(outer.regions) = {Region(text, s, PartOf(text, s, m)) : s \in kinds({"try"}, m)}
        /\ outer.in_loop <=> \E s \in kinds({"loop"}, m) : PartOf(text, s, m) = 1
    BY <2>4 DEF ContextTold
  <2>6. /\ c.symbol = symbol /\ c.at = k /\ c.node = text[k]
        /\ c.ancestors = IF text[m].kind \in Tests THEN Append(outer.ancestors, BranchOf(text, m, p)) ELSE outer.ancestors
        /\ c.regions = IF text[m].kind = "try" THEN Append(outer.regions, Region(text, m, p)) ELSE outer.regions
        /\ c.in_loop = (outer.in_loop \/ (text[m].kind = "loop" /\ p = 1))
    BY <2>2, <2>5 DEF Under, Context, Tests, BranchOf
  <2>7. \A some : kinds(some, k) = kinds(some, m) \cup (IF text[m].kind \in some THEN {m} ELSE {})
    BY <2>1
  <2>8. \A some : \A s \in kinds(some, m) : PartOf(text, s, k) = PartOf(text, s, m)
    BY <2>1
  <2>9. PartOf(text, m, k) = p
    BY DEF p
  <2> HIDE DEF kinds
  <2>10. c.ancestors \in Seq(AllBranches(text))
         /\ Listed(c.ancestors) = {BranchOf(text, s, PartOf(text, s, k)) : s \in kinds(Tests, k)}
    <3>1. BranchOf(text, m, p) \in AllBranches(text)
      BY <2>3 DEF AllBranches
    <3>2. Listed(outer.ancestors) = {BranchOf(text, s, PartOf(text, s, k)) : s \in kinds(Tests, m)}
      BY <2>5, <2>8
    <3>3. CASE text[m].kind \in Tests
      <4>1. c.ancestors \in Seq(AllBranches(text)) /\ Listed(c.ancestors) = Listed(outer.ancestors) \cup {BranchOf(text, m, p)}
        BY <2>5, <2>6, <3>1, <3>3, AppendedIsListed
      <4>2. kinds(Tests, k) = kinds(Tests, m) \cup {m}
        BY <2>7, <3>3
      <4> QED
        BY <2>9, <3>2, <4>1, <4>2
    <3>4. CASE text[m].kind \notin Tests
      <4>1. kinds(Tests, k) = kinds(Tests, m)
        BY <2>7, <3>4
      <4> QED
        BY <2>5, <2>6, <3>2, <3>4, <4>1
    <3> QED
      BY <3>3, <3>4
  <2>11. c.regions \in Seq(AllRegions(text))
         /\ Listed(c.regions) = {Region(text, s, PartOf(text, s, k)) : s \in kinds({"try"}, k)}
    <3>1. Region(text, m, p) \in AllRegions(text)
      BY <2>3 DEF AllRegions
    <3>2. Listed(outer.regions) = {Region(text, s, PartOf(text, s, k)) : s \in kinds({"try"}, m)}
      BY <2>5, <2>8
    <3>3. CASE text[m].kind = "try"
      <4>1. c.regions \in Seq(AllRegions(text)) /\ Listed(c.regions) = Listed(outer.regions) \cup {Region(text, m, p)}
        BY <2>5, <2>6, <3>1, <3>3, AppendedIsListed
      <4>2. kinds({"try"}, k) = kinds({"try"}, m) \cup {m}
        BY <2>7, <3>3
      <4> QED
        BY <2>9, <3>2, <4>1, <4>2
    <3>4. CASE text[m].kind # "try"
      <4>1. kinds({"try"}, k) = kinds({"try"}, m)
        BY <2>7, <3>4
      <4> QED
        BY <2>5, <2>6, <3>2, <3>4, <4>1
    <3> QED
      BY <3>3, <3>4
  <2>12. c.in_loop \in BOOLEAN /\ (c.in_loop <=> \E s \in kinds({"loop"}, k) : PartOf(text, s, k) = 1)
    <3>1. outer.in_loop <=> \E s \in kinds({"loop"}, m) : PartOf(text, s, k) = 1
      BY <2>5, <2>8
    <3>2. (\E s \in kinds({"loop"}, k) : PartOf(text, s, k) = 1)
            <=> (\E s \in kinds({"loop"}, m) : PartOf(text, s, k) = 1) \/ (text[m].kind = "loop" /\ p = 1)
      BY <2>7, <2>9
    <3> QED
      BY <2>5, <2>6, <3>1, <3>2
  <2>13. ContextTold(text, k, c)
    BY <2>6, <2>10, <2>11, <2>12 DEF ContextTold, kinds
  <2> QED
    BY <2>6, <2>13 DEF c
<1> QED
  BY <1>1, <1>2

LEMMA ContextsAreTold ==
  ASSUME NEW symbol, NEW text, TextValid(text)
  PROVE  LET c == CollectStatements(symbol, text)
         IN  \A k \in DOMAIN text : ContextTold(text, k, c[k]) /\ c[k].symbol = symbol
<1> DEFINE c == CollectStatements(symbol, text)
           G == {n \in Nat : \A k \in DOMAIN text : k <= n => ContextTold(text, k, c[k]) /\ c[k].symbol = symbol}
           N == Len(text)
<1>1. N \in Nat /\ DOMAIN text = 1 .. N
  BY DEF TextValid
<1>2. \A k \in DOMAIN text : c[k] = ContextFrom(symbol, text, c, k)
  BY ContextsUnfold
<1> HIDE DEF c, N
<1>3. 0 \in G
  BY <1>1
<1>4. ASSUME NEW n \in 0 .. N - 1, n \in G PROVE n + 1 \in G
  <2>1. SUFFICES ASSUME NEW k \in DOMAIN text, k <= n + 1 PROVE ContextTold(text, k, c[k]) /\ c[k].symbol = symbol
    BY <1>1
  <2>2. \A m \in DOMAIN text : m < k => ContextTold(text, m, c[m]) /\ c[m].symbol = symbol
    <3>1. \A m \in DOMAIN text : m < k => m <= n
      BY <1>1, <2>1
    <3> QED
      BY <1>4, <3>1
  <2> QED
    BY <1>2, <2>2, ContextIsTold
<1>5. N \in G
  <2> HIDE DEF G
  <2>1. 0 .. N \subseteq G
    BY ONLY <1>1, <1>3, <1>4, InductionUpTo
  <2> QED
    BY <1>1, <2>1
<1>6. \A k \in DOMAIN text : ContextTold(text, k, c[k]) /\ c[k].symbol = symbol
  BY <1>1, <1>5
<1> QED
  BY <1>6 DEF c

LEMMA ContextOfParts ==
  ASSUME NEW text, TextValid(text), NEW k \in DOMAIN text, NEW c, ContextTold(text, k, c)
  PROVE  /\ \A s \in DOMAIN text : \A p \in DOMAIN text[s].parts : k \in Places(text[s].parts[p]) =>
              /\ text[s].kind \in Tests => \E x \in DOMAIN c.ancestors : c.ancestors[x] = BranchOf(text, s, p)
              /\ text[s].kind = "try" => \E x \in DOMAIN c.regions : c.regions[x] = Region(text, s, p)
              /\ text[s].kind = "loop" /\ p = 1 => c.in_loop
         /\ \A x \in DOMAIN c.ancestors : \E s \in DOMAIN text : \E p \in DOMAIN text[s].parts :
              k \in Places(text[s].parts[p]) /\ text[s].kind \in Tests /\ c.ancestors[x] = BranchOf(text, s, p)
         /\ \A x \in DOMAIN c.regions : \E s \in DOMAIN text : \E p \in DOMAIN text[s].parts :
              k \in Places(text[s].parts[p]) /\ text[s].kind = "try" /\ c.regions[x] = Region(text, s, p)
<1> DEFINE kinds(some) == {s \in Enclosing(text, k) : text[s].kind \in some}
           part(s) == PartOf(text, s, k)
<1>1. /\ Listed(c.ancestors) = {BranchOf(text, s, part(s)) : s \in kinds(Tests)}
      /\ Listed(c.regions) = {Region(text, s, part(s)) : s \in kinds({"try"})}
      /\ c.in_loop <=> \E s \in kinds({"loop"}) : part(s) = 1
  BY DEF ContextTold
<1>2. /\ \A s \in Enclosing(text, k) : s \in DOMAIN text /\ part(s) \in DOMAIN text[s].parts /\ k \in Places(text[s].parts[part(s)])
      /\ \A s \in DOMAIN text : \A p \in DOMAIN text[s].parts : k \in Places(text[s].parts[p]) => s \in Enclosing(text, k) /\ part(s) = p
  BY EnclosureIsOfParts
<1> HIDE DEF part
<1>3. ASSUME NEW s \in DOMAIN text, NEW p \in DOMAIN text[s].parts, k \in Places(text[s].parts[p])
      PROVE  /\ text[s].kind \in Tests => \E x \in DOMAIN c.ancestors : c.ancestors[x] = BranchOf(text, s, p)
             /\ text[s].kind = "try" => \E x \in DOMAIN c.regions : c.regions[x] = Region(text, s, p)
             /\ text[s].kind = "loop" /\ p = 1 => c.in_loop
  <2>1. s \in Enclosing(text, k) /\ part(s) = p
    BY <1>2, <1>3
  <2>2. text[s].kind \in Tests => BranchOf(text, s, p) \in Listed(c.ancestors)
    BY <1>1, <2>1
  <2>3. text[s].kind = "try" => Region(text, s, p) \in Listed(c.regions)
    BY <1>1, <2>1
  <2> QED
    BY <1>1, <2>1, <2>2, <2>3 DEF Listed
<1>4. ASSUME NEW x \in DOMAIN c.ancestors
      PROVE  \E s \in DOMAIN text : \E p \in DOMAIN text[s].parts :
               k \in Places(text[s].parts[p]) /\ text[s].kind \in Tests /\ c.ancestors[x] = BranchOf(text, s, p)
  <2>1. c.ancestors[x] \in Listed(c.ancestors)
    BY DEF Listed
  <2>2. PICK s \in kinds(Tests) : c.ancestors[x] = BranchOf(text, s, part(s))
    BY <1>1, <2>1
  <2> QED
    BY <1>2, <2>2
<1>5. ASSUME NEW x \in DOMAIN c.regions
      PROVE  \E s \in DOMAIN text : \E p \in DOMAIN text[s].parts :
               k \in Places(text[s].parts[p]) /\ text[s].kind = "try" /\ c.regions[x] = Region(text, s, p)
  <2>1. c.regions[x] \in Listed(c.regions)
    BY DEF Listed
  <2>2. PICK s \in kinds({"try"}) : c.regions[x] = Region(text, s, part(s))
    BY <1>1, <2>1
  <2> QED
    BY <1>2, <2>2
<1> QED
  BY <1>3, <1>4, <1>5

LEMMA DispositionsTell ==
  ASSUME NEW text, TextValid(text), NEW s \in DOMAIN text, text[s].kind \in Tests,
         NEW p \in DOMAIN text[s].parts, NEW q \in DOMAIN text[s].parts,
         BranchOf(text, s, p) = BranchOf(text, s, q), text[s].kind = "match" => BranchOf(text, s, p).disposition = "DEFAULT"
  PROVE  p = q
<1>1. Disposition(text[s], p) = Disposition(text[s], q) /\ (text[s].kind = "match" => Disposition(text[s], p) = "DEFAULT")
  BY DEF BranchOf, Branch
<1>2. CASE text[s].kind = "if"
  <2>1. DOMAIN text[s].parts = {1, 2}
    BY <1>2, ParametersInKinds
  <2> QED
    BY <1>1, <1>2, <2>1 DEF Disposition
<1>3. CASE text[s].kind = "match"
  <2>1. Disposition(text[s], p) = "DEFAULT" /\ Disposition(text[s], q) = "DEFAULT"
    BY <1>1, <1>3
  <2>2. IsDefault(text[s], p) /\ IsDefault(text[s], q)
    BY <1>3, <2>1 DEF Disposition
  <2> QED
    BY <2>2 DEF IsDefault
<1> QED
  BY <1>2, <1>3 DEF Tests

(* What the region of a part of a try statement says.                       *)
LEMMA RegionSays ==
  ASSUME NEW text, TextValid(text), NEW s \in DOMAIN text, text[s].kind = "try", NEW p \in DOMAIN text[s].parts
  PROVE  LET r == Region(text, s, p)
             n == Len(text[s].parts)
         IN  /\ r.try = s /\ n \in Nat /\ n > 2 /\ p \in 1 .. n
             /\ r.kind \in {"TRY_BODY", "TRY_ELSE", "FINALLY", "EXCEPT_HANDLER"}
             /\ r.kind = "TRY_BODY" <=> p = 1
             /\ r.kind = "TRY_ELSE" <=> p = n - 1
             /\ r.kind = "FINALLY" <=> p = n
             /\ r.kind = "EXCEPT_HANDLER" => r.handler = p - 2
             /\ r.handlers_allow_continuation <=> \E h \in Handlers(text[s]) : ~Terminates(text, text[s].parts[h])
             /\ r.handlers_may_return <=> \E h \in Handlers(text[s]) : MayReturn(text, text[s].parts[h])
             /\ r.finally_may_return <=> MayReturn(text, Final(text[s]))
<1> DEFINE r == Region(text, s, p)
           n == Len(text[s].parts)
<1>1. n > 2 /\ n \in Nat /\ p \in 1 .. n
  <2>1. StatementAt(text, s)
    BY PartsAreBlocks
  <2> QED
    BY <2>1, ParametersInKinds DEF StatementAt
<1>2. /\ r.try = s
      /\ r.kind = CASE p = 1 -> "TRY_BODY" [] p = n - 1 -> "TRY_ELSE" [] p = n -> "FINALLY" [] OTHER -> "EXCEPT_HANDLER"
      /\ r.handler = IF p \in Handlers(text[s]) THEN p - 2 ELSE 0
      /\ r.handlers_allow_continuation = \E h \in Handlers(text[s]) : ~Terminates(text, text[s].parts[h])
      /\ r.handlers_may_return = \E h \in Handlers(text[s]) : MayReturn(text, text[s].parts[h])
      /\ r.finally_may_return = MayReturn(text, Final(text[s]))
  BY DEF Region
<1>3. Handlers(text[s]) = 2 .. n - 2
  BY DEF Handlers
<1> HIDE DEF r, n
<1>4. /\ p = 1 => r.kind = "TRY_BODY"
      /\ p = n - 1 => r.kind = "TRY_ELSE"
      /\ p = n => r.kind = "FINALLY"
      /\ p \notin {1, n - 1, n} => r.kind = "EXCEPT_HANDLER" /\ r.handler = p - 2
  <2>1. 1 # n - 1 /\ n - 1 # n /\ 1 # n /\ (p \notin {1, n - 1, n} => p \in 2 .. n - 2)
    BY <1>1
  <2> QED
    BY <1>2, <1>3, <2>1
<1>5. /\ r.kind \in {"TRY_BODY", "TRY_ELSE", "FINALLY", "EXCEPT_HANDLER"}
      /\ r.kind = "TRY_BODY" <=> p = 1
      /\ r.kind = "TRY_ELSE" <=> p = n - 1
      /\ r.kind = "FINALLY" <=> p = n
      /\ r.kind = "EXCEPT_HANDLER" => r.handler = p - 2
  BY <1>4
<1> QED
  BY <1>1, <1>2, <1>5 DEF r, n

-----------------------------------------------------------------------------
(* What the contexts say, said of the places.                               *)
LEMMA DominatesIsPrecedes ==
  ASSUME NEW text, TextValid(text), NEW i \in DOMAIN text, NEW j \in DOMAIN text, NEW ci, NEW cj,
         ContextTold(text, i, ci), ContextTold(text, j, cj), ContextDominates(ci, cj), Told(text, ci)
  PROVE  Precedes(text, i, j)
<1> DEFINE Of(region) == {x \in DOMAIN cj.regions : cj.regions[x].try = region.try}
<1>1. i < j /\ i \in Nat /\ j \in Nat
  BY DEF ContextTold, ContextDominates, TextValid
<1>2. \A x \in DOMAIN ci.ancestors : x \in DOMAIN cj.ancestors /\ ci.ancestors[x] = cj.ancestors[x]
  <2>1. /\ Len(ci.ancestors) \in Nat /\ DOMAIN ci.ancestors = 1 .. Len(ci.ancestors)
        /\ Len(cj.ancestors) \in Nat /\ DOMAIN cj.ancestors = 1 .. Len(cj.ancestors)
    BY LenProperties DEF ContextTold
  <2>2. Len(ci.ancestors) <= Len(cj.ancestors) /\ ci.ancestors = SubSeq(cj.ancestors, 1, Len(ci.ancestors))
    BY DEF ContextDominates
  <2>3. \A x \in 1 .. Len(ci.ancestors) : SubSeq(cj.ancestors, 1, Len(ci.ancestors))[x] = cj.ancestors[x]
    <3>1. cj.ancestors \in Seq(AllBranches(text))
      BY DEF ContextTold
    <3> QED
      BY <2>1, <2>2, <3>1, SubSeqProperties
  <2> QED
    BY <2>1, <2>2, <2>3
<1>3. \A x \in DOMAIN ci.regions :
        LET r == ci.regions[x]
        IN  IF Of(r) # {}
            THEN LET other == cj.regions[CHOOSE y \in Of(r) : TRUE]
                 IN  \/ r.kind = other.kind /\ r.handler = other.handler
                     \/ r.kind = "TRY_BODY" /\ other.kind = "TRY_ELSE"
            ELSE CASE r.kind \in {"TRY_BODY", "TRY_ELSE"} -> ~r.handlers_allow_continuation /\ ~r.finally_terminates
                   [] r.kind = "EXCEPT_HANDLER" -> FALSE
                   [] r.kind = "FINALLY" -> ~r.finally_terminates
  BY DEF ContextDominates
<1>4. /\ ~ci.in_loop
      /\ \A x \in DOMAIN ci.ancestors :
           text[ci.ancestors[x].gate].kind = "match" => ci.ancestors[x].disposition = "DEFAULT"
      /\ \A s \in Enclosing(text, i) : text[s].kind = "loop" => ~JumpsOut(text, text[s].parts[1], {"break"})
  BY DEF Told, ContextTold
<1>5. ASSUME NEW s \in DOMAIN text, NEW p \in DOMAIN text[s].parts, i \in Places(text[s].parts[p])
      PROVE  /\ \A q \in DOMAIN text[s].parts : j \in Places(text[s].parts[q]) =>
                  p = q \/ (text[s].kind = "try" /\ p = 1 /\ q = Len(text[s].parts) - 1)
             /\ j \notin Places(Span(text, s)) => SureIn(text, s, p)
  <2>1. /\ text[s].kind \in Tests => \E x \in DOMAIN ci.ancestors : ci.ancestors[x] = BranchOf(text, s, p)
        /\ text[s].kind = "try" => \E x \in DOMAIN ci.regions : ci.regions[x] = Region(text, s, p)
        /\ text[s].kind = "loop" /\ p = 1 => ci.in_loop
    BY <1>5, ContextOfParts
  <2>2. /\ \A q \in DOMAIN text[s].parts : Places(text[s].parts[q]) \subseteq Places(Span(text, s))
        /\ StatementAt(text, s)
    BY SpanIsBlock, PartsAreBlocks
  <2>3. /\ \A t \in DOMAIN text : \A q \in DOMAIN text[t].parts : \A q1 \in DOMAIN text[t].parts :
             j \in Places(text[t].parts[q]) /\ j \in Places(text[t].parts[q1]) => q = q1
    BY PartsAreApart
  <2>4. CASE text[s].kind \in Tests
    <3>1. PICK x \in DOMAIN ci.ancestors : ci.ancestors[x] = BranchOf(text, s, p)
      BY <2>1, <2>4
    <3>2. x \in DOMAIN cj.ancestors /\ cj.ancestors[x] = BranchOf(text, s, p)
      BY <1>2, <3>1
    <3>3. PICK t \in DOMAIN text : \E q \in DOMAIN text[t].parts :
            j \in Places(text[t].parts[q]) /\ cj.ancestors[x] = BranchOf(text, t, q)
      BY <3>2, ContextOfParts
    <3>4. t = s
      BY <3>2, <3>3 DEF BranchOf, Branch
    <3>5. PICK q \in DOMAIN text[s].parts : j \in Places(text[s].parts[q]) /\ BranchOf(text, s, p) = BranchOf(text, s, q)
      BY <3>2, <3>3, <3>4
    <3>6. text[s].kind = "match" => BranchOf(text, s, p).disposition = "DEFAULT"
      <4>1. BranchOf(text, s, p).gate = s
        BY DEF BranchOf, Branch
      <4> QED
        BY <1>4, <3>1, <4>1
    <3>7. p = q
      BY <2>4, <3>5, <3>6, DispositionsTell
    <3> QED
      BY <2>2, <2>3, <3>5, <3>7
  <2>5. CASE text[s].kind = "with"
    <3>1. DOMAIN text[s].parts = {1}
      BY <2>5, ParametersInKinds
    <3> QED
      BY <2>5, <3>1 DEF SureIn
  <2>6. CASE text[s].kind = "loop"
    <3>1. DOMAIN text[s].parts = {1, 2} /\ p # 1
      BY <1>4, <2>1, <2>6, ParametersInKinds
    <3>2. s \in Enclosing(text, i)
      BY <1>5, EnclosureIsOfParts
    <3>3. SureIn(text, s, p)
      BY <1>4, <2>6, <3>1, <3>2 DEF SureIn
    <3>4. j \notin Places(text[s].parts[1])
      <4>1. p = 2 /\ 1 \in DOMAIN text[s].parts
        BY <3>1
      <4>2. j \in Places(text[s].parts[1]) => j < i
        BY <1>5, <4>1, SpanIsBlock
      <4> QED
        BY <1>1, <4>2
    <3> QED
      BY <3>1, <3>3, <3>4
  <2>7. CASE text[s].kind = "try"
    <3> DEFINE r == Region(text, s, p)
               n == Len(text[s].parts)
    <3>1. PICK x \in DOMAIN ci.regions : ci.regions[x] = r
      BY <2>1, <2>7
    <3>2. /\ r.try = s /\ n \in Nat /\ n > 2 /\ p \in 1 .. n
          /\ r.kind \in {"TRY_BODY", "TRY_ELSE", "FINALLY", "EXCEPT_HANDLER"}
          /\ (r.kind = "TRY_BODY" <=> p = 1) /\ (r.kind = "TRY_ELSE" <=> p = n - 1) /\ (r.kind = "FINALLY" <=> p = n)
          /\ (r.kind = "EXCEPT_HANDLER" => r.handler = p - 2)
          /\ (r.handlers_allow_continuation <=> \E h \in Handlers(text[s]) : ~Terminates(text, text[s].parts[h]))
      BY <2>7, RegionSays
    <3> HIDE DEF r, n
    <3>3. CASE Of(r) # {}
      <4> DEFINE y == CHOOSE y \in Of(r) : TRUE
      <4>1. y \in DOMAIN cj.regions /\ cj.regions[y].try = s
        BY <3>2, <3>3
      <4>2. \/ r.kind = cj.regions[y].kind /\ r.handler = cj.regions[y].handler
            \/ r.kind = "TRY_BODY" /\ cj.regions[y].kind = "TRY_ELSE"
        BY <1>3, <3>1, <3>3
      <4> HIDE DEF y
      <4>3. PICK t \in DOMAIN text : \E q \in DOMAIN text[t].parts :
              j \in Places(text[t].parts[q]) /\ text[t].kind = "try" /\ cj.regions[y] = Region(text, t, q)
        BY <4>1, ContextOfParts
      <4>4. PICK q \in DOMAIN text[t].parts : j \in Places(text[t].parts[q]) /\ cj.regions[y] = Region(text, t, q)
        BY <4>3
      <4>5. t = s
        BY <4>1, <4>3, <4>4, RegionSays
      <4> DEFINE w == Region(text, s, q)
      <4>6. /\ q \in DOMAIN text[s].parts /\ j \in Places(text[s].parts[q])
            /\ \/ r.kind = w.kind /\ r.handler = w.handler
               \/ r.kind = "TRY_BODY" /\ w.kind = "TRY_ELSE"
        BY <4>2, <4>4, <4>5
      <4>7. /\ q \in 1 .. n
            /\ w.kind \in {"TRY_BODY", "TRY_ELSE", "FINALLY", "EXCEPT_HANDLER"}
            /\ (w.kind = "TRY_BODY" <=> q = 1) /\ (w.kind = "TRY_ELSE" <=> q = n - 1) /\ (w.kind = "FINALLY" <=> q = n)
            /\ (w.kind = "EXCEPT_HANDLER" => w.handler = q - 2)
        BY <2>7, <4>6, RegionSays DEF n
      <4> HIDE DEF w
      <4>8. p = q \/ (p = 1 /\ q = n - 1)
        BY <3>2, <4>6, <4>7
      <4>9. j \in Places(Span(text, s)) /\ \A q1 \in DOMAIN text[s].parts : j \in Places(text[s].parts[q1]) => q1 = q
        BY <2>2, <2>3, <4>6
      <4> QED
        BY <2>7, <4>8, <4>9 DEF n
    <3>4. CASE Of(r) = {}
      <4>1. ASSUME NEW q \in DOMAIN text[s].parts, j \in Places(text[s].parts[q]) PROVE FALSE
        <5>1. PICK y \in DOMAIN cj.regions : cj.regions[y] = Region(text, s, q)
          BY <2>7, <4>1, ContextOfParts
        <5>2. cj.regions[y].try = s
          BY <2>7, <4>1, <5>1, RegionSays
        <5> QED
          BY <3>2, <3>4, <5>1, <5>2
      <4>2. /\ r.kind \in {"TRY_BODY", "TRY_ELSE"} => ~r.handlers_allow_continuation
            /\ r.kind # "EXCEPT_HANDLER"
        BY <1>3, <3>1, <3>4
      <4>3. SureIn(text, s, p)
        <5>1. p = n \/ (p \in {1, n - 1} /\ \A h \in Handlers(text[s]) : Terminates(text, text[s].parts[h]))
          BY <3>2, <4>2
        <5> QED
          BY <2>7, <5>1 DEF SureIn, n
      <4> QED
        BY <4>1, <4>3
    <3> QED
      BY <3>3, <3>4
  <2>8. text[s].kind \in Tests \cup {"with", "loop", "try"}
    <3>1. text[s].kind \in StatementKinds /\ Arity(text[s].kind, Len(text[s].parts))
          /\ DOMAIN text[s].parts = 1 .. Len(text[s].parts) /\ Len(text[s].parts) \in Nat
      BY <2>2 DEF StatementAt
    <3>2. Len(text[s].parts) # 0
      BY <3>1
    <3> QED
      BY <3>1, <3>2 DEF StatementKinds, Arity, Tests
  <2> QED
    BY <2>4, <2>5, <2>6, <2>7, <2>8
<1> QED
  BY <1>1, <1>5 DEF Precedes

LEMMA PropagatesIsEscapes ==
  ASSUME NEW text, TextValid(text), NEW i \in DOMAIN text, NEW c, ContextTold(text, i, c),
         ExceptionPropagates(c), ~Overlooked(text, c)
  PROVE  Escapes(text, Whole(text), i)
<1>1. i \in Places(Whole(text))
  BY DEF TextValid, Whole, Block, Places
<1>2. ASSUME NEW s \in DOMAIN text, NEW p \in DOMAIN text[s].parts, i \in Places(text[s].parts[p]), text[s].kind = "try"
      PROVE  EscapesFrom(text, s, p)
  <2> DEFINE r == Region(text, s, p)
             Jumps(block) == JumpsOut(text, block, {"break", "continue"})
  <2>1. PICK x \in DOMAIN c.regions : c.regions[x] = r
    BY <1>2, ContextOfParts
  <2>2. /\ r.try = s /\ (r.kind = "TRY_BODY" <=> p = 1)
        /\ (r.handlers_allow_continuation <=> \E h \in Handlers(text[s]) : ~Terminates(text, text[s].parts[h]))
        /\ (r.handlers_may_return <=> \E h \in Handlers(text[s]) : MayReturn(text, text[s].parts[h]))
        /\ (r.finally_may_return <=> MayReturn(text, Final(text[s])))
    BY <1>2, RegionSays
  <2> HIDE DEF r
  <2>3. r.kind = "TRY_BODY" => ~r.handlers_allow_continuation /\ ~r.handlers_may_return /\ ~r.finally_may_return
    BY <2>1 DEF ExceptionPropagates
  <2>4. ~(\/ r.kind # "TRY_BODY" /\ r.finally_may_return
          \/ Jumps(Final(text[r.try]))
          \/ r.kind = "TRY_BODY" /\ \E h \in Handlers(text[r.try]) : Jumps(text[r.try].parts[h]))
    BY <2>1 DEF Overlooked
  <2>5. ~MayReturn(text, Final(text[s])) /\ ~Jumps(Final(text[s]))
    BY <2>2, <2>3, <2>4
  <2>6. p = 1 => \A h \in Handlers(text[s]) :
          /\ Terminates(text, text[s].parts[h]) /\ ~MayReturn(text, text[s].parts[h]) /\ ~Jumps(text[s].parts[h])
    BY <2>2, <2>3, <2>4
  <2> QED
    BY <2>5, <2>6 DEF EscapesFrom
<1> QED
  BY <1>1, <1>2 DEF Escapes

LEMMA PrecedesEndIsSure ==
  ASSUME NEW text, TextValid(text), NEW i \in DOMAIN text, NEW c, ContextTold(text, i, c),
         PrecedesEnd(c), Told(text, c), c.regions = <<>>
  PROVE  Sure(text, Whole(text), i)
<1>1. i \in Places(Whole(text))
  BY DEF TextValid, Whole, Block, Places
<1>2. ASSUME NEW s \in DOMAIN text, NEW p \in DOMAIN text[s].parts, i \in Places(text[s].parts[p])
      PROVE  SureIn(text, s, p)
  <2>1. /\ text[s].kind \in Tests => \E x \in DOMAIN c.ancestors : c.ancestors[x] = BranchOf(text, s, p)
        /\ text[s].kind = "try" => \E x \in DOMAIN c.regions : c.regions[x] = Region(text, s, p)
        /\ text[s].kind = "loop" /\ p = 1 => c.in_loop
    BY <1>2, ContextOfParts
  <2>2. DOMAIN c.ancestors = {} /\ DOMAIN c.regions = {}
    BY DEF PrecedesEnd
  <2>3. text[s].kind \notin Tests /\ text[s].kind # "try" /\ (text[s].kind = "loop" => p # 1)
    BY <2>1, <2>2 DEF Told
  <2>4. StatementAt(text, s)
    BY PartsAreBlocks
  <2>5. text[s].kind \in Tests \cup {"with", "loop", "try"}
    <3>1. text[s].kind \in StatementKinds /\ Arity(text[s].kind, Len(text[s].parts))
          /\ DOMAIN text[s].parts = 1 .. Len(text[s].parts) /\ Len(text[s].parts) \in Nat
      BY <2>4 DEF StatementAt
    <3>2. Len(text[s].parts) # 0
      BY <3>1
    <3> QED
      BY <3>1, <3>2 DEF StatementKinds, Arity, Tests
  <2>6. CASE text[s].kind = "with"
    BY <2>6 DEF SureIn
  <2>7. CASE text[s].kind = "loop"
    <3>1. p = 2
      BY <2>3, <2>7, ParametersInKinds
    <3>2. s \in Enclosing(text, i)
      BY <1>2, EnclosureIsOfParts
    <3>3. c.at = i
      BY DEF ContextTold
    <3> QED
      BY <2>7, <3>1, <3>2, <3>3 DEF SureIn, Told
  <2> QED
    BY <2>3, <2>5, <2>6, <2>7
<1> QED
  BY <1>1, <1>2 DEF Sure

LEMMA BranchesAreApart ==
  ASSUME NEW text, TextValid(text), NEW i \in DOMAIN text, NEW j \in DOMAIN text, NEW k \in DOMAIN text,
         NEW ci, NEW cj, NEW ck, ci.at = i, ContextTold(text, j, cj), ContextTold(text, k, ck),
         BranchControls(ci, cj) # {}, BranchControls(ci, ck) # {}, BranchControls(ci, cj) # BranchControls(ci, ck)
  PROVE  Apart(text, i, j, k)
<1>1. ASSUME NEW m \in DOMAIN text, NEW c, ContextTold(text, m, c), BranchControls(ci, c) # {}
      PROVE  /\ text[i].kind \in Tests
             /\ \E p \in DOMAIN text[i].parts :
                  m \in Places(text[i].parts[p]) /\ BranchControls(ci, c) = {BranchOf(text, i, p).disposition}
  <2> DEFINE X == {y \in DOMAIN c.ancestors : c.ancestors[y].gate = i}
  <2>1. BranchControls(ci, c) = {c.ancestors[x].disposition : x \in X}
    BY DEF BranchControls
  <2>2. \A x \in X : \E p \in DOMAIN text[i].parts :
          m \in Places(text[i].parts[p]) /\ text[i].kind \in Tests /\ c.ancestors[x] = BranchOf(text, i, p)
    <3>1. SUFFICES ASSUME NEW x \in X
                   PROVE  \E p \in DOMAIN text[i].parts :
                            m \in Places(text[i].parts[p]) /\ text[i].kind \in Tests /\ c.ancestors[x] = BranchOf(text, i, p)
      OBVIOUS
    <3>2. PICK s \in DOMAIN text : \E p \in DOMAIN text[s].parts :
            m \in Places(text[s].parts[p]) /\ text[s].kind \in Tests /\ c.ancestors[x] = BranchOf(text, s, p)
      BY <1>1, ContextOfParts
    <3>3. s = i
      BY <3>2 DEF BranchOf, Branch
    <3> QED
      BY <3>2, <3>3
  <2>3. PICK x \in X : TRUE
    BY <1>1, <2>1
  <2>4. PICK p \in DOMAIN text[i].parts :
          m \in Places(text[i].parts[p]) /\ text[i].kind \in Tests /\ c.ancestors[x] = BranchOf(text, i, p)
    BY <2>2
  <2>5. \A y \in X : c.ancestors[y] = BranchOf(text, i, p)
    BY <2>2, <2>4, PartsAreApart
  <2>6. BranchControls(ci, c) = {BranchOf(text, i, p).disposition}
    BY <2>1, <2>3, <2>5
  <2> QED
    BY <2>4, <2>6
<1>2. PICK p \in DOMAIN text[i].parts :
        j \in Places(text[i].parts[p]) /\ BranchControls(ci, cj) = {BranchOf(text, i, p).disposition}
  BY <1>1
<1>3. PICK q \in DOMAIN text[i].parts :
        k \in Places(text[i].parts[q]) /\ BranchControls(ci, ck) = {BranchOf(text, i, q).disposition}
  BY <1>1
<1>4. p # q
  BY <1>2, <1>3
<1>5. text[i].kind \in Tests
  BY <1>1
<1> QED
  BY <1>2, <1>3, <1>4, <1>5 DEF Apart, Tests

(* The facts of the analysis are true of every execution of every function: *)
(* a statement that dominates another has been executed before it, a        *)
(* failure that is said to leave the function leaves it, what is said to    *)
(* precede the end is executed if the end is reached, and no execution      *)
(* takes two branches of a test (context_dominates,                         *)
(* exception_propagates_from_function, branch_controls).                    *)
THEOREM ControlFacts == ControlInit /\ [][UNCHANGED body]_body => []ControlFactsAreTrue
<1>1. ControlInit => body \in Bodies
  BY DEF ControlInit
<1>2. body \in Bodies /\ [UNCHANGED body]_body => (body \in Bodies)'
  OBVIOUS
<1>3. body \in Bodies => ControlFactsAreTrue
  <2>1. SUFFICES ASSUME body \in Bodies PROVE ControlFactsAreTrue
    OBVIOUS
  <2> DEFINE cs == CollectStatements(1, body)
             all == Executions(body)
  <2>2. TextValid(body)
    BY <2>1, BodiesAssumption
  <2>3. \A k \in DOMAIN body : ContextTold(body, k, cs[k])
    BY <2>2, ContextsAreTold
  <2>4. \A o \in all : /\ InOrder(body, Whole(body), o) /\ Finished(body, Whole(body), o) /\ Raised(body, Whole(body), o)
                       /\ OneBranch(body, Whole(body), {}, o)
    BY <2>2, ExecutionsOfText DEF Known
  <2>5. \A i \in DOMAIN body : i \in Nat /\ i \in Places(Whole(body)) /\ cs[i].at = i
    <3>1. \A i \in DOMAIN body : i \in Nat /\ i \in Places(Whole(body))
      BY <2>2 DEF TextValid, Whole, Block, Places
    <3> QED
      BY <2>3, <3>1 DEF ContextTold
  <2> HIDE DEF cs, all
  <2>6. ASSUME NEW i \in DOMAIN body, NEW j \in DOMAIN body, ContextDominates(cs[i], cs[j]), Told(body, cs[i]), NEW o \in all
        PROVE  <<i, j>> \notin o.early
    <3>1. Precedes(body, i, j)
      BY <2>2, <2>3, <2>6, DominatesIsPrecedes
    <3> QED
      BY <2>4, <2>5, <3>1 DEF InOrder
  <2>7. ASSUME NEW i \in DOMAIN body, ExceptionPropagates(cs[i]), ~Overlooked(body, cs[i]), NEW o \in all, i \in o.failed
        PROVE  o.exit = "raise"
    <3>1. Escapes(body, Whole(body), i)
      BY <2>2, <2>3, <2>7, PropagatesIsEscapes
    <3> QED
      BY <2>4, <2>5, <2>7, <3>1 DEF Raised
  <2>8. ASSUME NEW i \in DOMAIN body, PrecedesEnd(cs[i]), Told(body, cs[i]), cs[i].regions = <<>>, NEW o \in all, o.exit = "next"
        PROVE  i \in o.done
    <3>1. Sure(body, Whole(body), i)
      BY <2>2, <2>3, <2>8, PrecedesEndIsSure
    <3> QED
      BY <2>4, <2>5, <2>8, <3>1 DEF Finished
  <2>9. ASSUME NEW i \in DOMAIN body, NEW j \in DOMAIN body, NEW k \in DOMAIN body,
               BranchControls(cs[i], cs[j]) # {}, BranchControls(cs[i], cs[k]) # {},
               BranchControls(cs[i], cs[j]) # BranchControls(cs[i], cs[k]), NEW o \in all
        PROVE  ~({j, k} \subseteq o.done \cup o.failed)
    <3>1. Apart(body, i, j, k)
      BY <2>2, <2>3, <2>5, <2>9, BranchesAreApart
    <3>2. Touched({}, o) = o.done \cup o.failed
      BY DEF Touched
    <3> QED
      BY <2>4, <2>5, <3>1, <3>2 DEF OneBranch
  <2>10. \A i, j \in DOMAIN body : ContextDominates(cs[i], cs[j]) /\ Told(body, cs[i]) => \A o \in all : <<i, j>> \notin o.early
    BY <2>6
  <2>11. \A i \in DOMAIN body :
           ExceptionPropagates(cs[i]) /\ ~Overlooked(body, cs[i]) => \A o \in all : i \in o.failed => o.exit = "raise"
    BY <2>7
  <2>12. \A i \in DOMAIN body :
           PrecedesEnd(cs[i]) /\ Told(body, cs[i]) /\ cs[i].regions = <<>> => \A o \in all : o.exit = "next" => i \in o.done
    BY <2>8
  <2>13. \A i, j, k \in DOMAIN body :
           LET one == BranchControls(cs[i], cs[j])
               other == BranchControls(cs[i], cs[k])
           IN  one # {} /\ other # {} /\ one # other /\ ~cs[i].in_loop => \A o \in all : ~({j, k} \subseteq o.done \cup o.failed)
    BY <2>9
  <2> QED
    BY <2>10, <2>11, <2>12, <2>13, Zenon DEF ControlFactsAreTrue, cs, all
<1> QED
  BY <1>1, <1>2, <1>3, PTL
=============================================================================
